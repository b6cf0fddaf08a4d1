SPECIFICATION FairSpec
CONSTANTS
    n1 = n1
    n2 = n2
    Nodes = {n1, n2}
    NoNode = NoNode
    MaxConnIdx <- MCMaxConnIdx
    Scenarios <- MCScenarios
INVARIANTS Agreement CallbackDiscipline
PROPERTIES ContractsKept Answered
CHECK_DEADLOCK FALSE
