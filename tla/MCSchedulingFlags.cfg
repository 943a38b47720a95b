SPECIFICATION Spec
CHECK_DEADLOCK FALSE
CONSTANTS
    p1 = p1  d1 = d1  program = program  timer = timer  helper = helper  none = none
    NumWorkers = 2
    Throughput = 2
    Pooled = {p1}
    Detached = {}
    Timed = {p1}
    Program = program  Timer = timer  Helper = helper  None = none
    MaxMsgs = 2
    MaxTimeouts = 1
INVARIANTS FlagsWrittenByTheActorOnly
