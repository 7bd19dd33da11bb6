CONSTANTS
    Keys <- MCKeys
    Listings <- MCListings
    MaxLookups <- MCMaxLookups
SPECIFICATION FairSpec
INVARIANTS NothingIsLost LookupIsUnderWay QueryingIsTrue ChildrenAreThere
PROPERTY LookupIsAnswered
