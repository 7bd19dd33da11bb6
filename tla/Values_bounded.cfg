SPECIFICATION Spec
CONSTANTS
    Pieces = {1, 7}
    Users <- MCUsers
    Hosts <- MCHosts
    Resources <- MCResources
INVARIANTS QueriesSelect StanzasSurvive WhatIsSaidIsHeard FieldsAreKept JIDsAreSound
CHECK_DEADLOCK FALSE
