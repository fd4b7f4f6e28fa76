CONSTANTS
    req1 = req1
    req2 = req2
    req3 = req3
    Requests = {req1, req2, req3}
    WorldSize = 2
    WorkerQueueSize = 2
    Failing = {2}
SPECIFICATION ExecSpec
INVARIANTS
    MissingWereDropped
    QueuesHoldNewResults
    WorkersAgree
    OutputsReleased
PROPERTIES
    DispatchReturns
    CallReturns
\* A full queue and a failure stop the engine.
CHECK_DEADLOCK FALSE
