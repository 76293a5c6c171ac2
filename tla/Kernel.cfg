SPECIFICATION KernelSpec
CONSTANTS
    t1 = t1
    t2 = t2
    w1 = w1
    w2 = w2
    Workers = {w1, w2}
    KTasks = {t1, t2}
    KPriority <- MCKPriority
    KHome <- MCKHome
    SelfWakers = {t2}
    MaxPending = 1
    MaxCalls = 2
    Senders = {s1, s2}
    Receivers = {r1, r2}
    ChannelCapacity = 2
    MaxSends = 4
    PipeReaders = {p1}
    PipeWriters = {q1, q2}
    PipeCapacity = 2
    WriteSizes = {1, 2, 3}
    ReadSizes = {1, 2}
    MaxBytes = 5
    TaskIds = {h1}
    NoTask = NoTask
    MaxGatewayTasks = 2
    MaxInstances = 1
    MaxAsked = 4
    MaxMishaps = 3
INVARIANTS
    TypeOK
    WorkersLostOnlyToWakes
    ChannelNoLostWakeup
    PipeStallsExplained
PROPERTIES
    CleanCancelIsFinal
    ReadyIsServed
    ChannelImplementsFifo
    PipeImplementsFifo
    StoppedTasksEnd
CHECK_DEADLOCK FALSE
