SPECIFICATION MCSpec
CONSTANTS
    Pools <- Setups
    DoneWrap = 2
    Watchdog = FALSE
    Canceller = {x1}
    MaxRuns = 2
    MaxTime = 1
    Period = 1
    Submitter = {s1, s2}
    Registration = {a}
    NoReg = NoReg
    MaxCalls = 2
INVARIANTS
    AnswersOwnRequest
    KeepsSchedule
    CancelSparesCommand
    NoEventAfterClose
PROPERTIES
    RequestsAnswered
    StopEndsWorkers
    ShutdownEnds
    OpsHandled
