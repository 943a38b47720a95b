SPECIFICATION Spec
CHECK_DEADLOCK FALSE
CONSTANTS
    a1 = a1  a2 = a2  program = program  none = none
    Actor = {a1, a2}
    Program = program
    None = none
    Unlinker = {a1}
    MaxOps = 4
INVARIANTS TypeOK LinksAgree NoLateObserver DeadAreUnregistered
PROPERTIES OperationsComplete DeadLinksForgotten AwaitReturns
