SPECIFICATION GatewaySpec
CONSTANTS
    TaskIds = {h1}
    NoTask = NoTask
    MaxGatewayTasks = 2
    MaxInstances = 1
    MaxAsked = 3
    MaxMishaps = 1
INVARIANT
    StoppedCanStart
CHECK_DEADLOCK FALSE
