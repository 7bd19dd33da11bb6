CONSTANTS
    Ids <- MCIds
    Selections <- MCSelections
    Habits = {}
    MaxNodes <- MCMaxNodes
    MaxDepth <- MCMaxDepth
SPECIFICATION Spec
INVARIANTS EachIsToldOnce AnswersAreTakenUp
