SPECIFICATION SeqSpec
CONSTANT MaxStages = 4
INVARIANTS
    SeqTypeOK
    OpenTaskHasWorkLeft
    FailureShowsReport
    NothingSpinsAfterTheEnd
    AnnouncedOnce
PROPERTIES
    OutcomeFollowsRows
    KeepsTheChain
CHECK_DEADLOCK FALSE
