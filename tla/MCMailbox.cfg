SPECIFICATION Spec
CHECK_DEADLOCK FALSE
CONSTANTS
    w1 = w1  w2 = w2  n1 = n1  n2 = n2  n3 = n3
    Writer = {w1, w2}
    Node = {n1, n2, n3}
    PerWriter = 2
INVARIANTS TypeOK WokenOnce NodesOwnedOnce
PROPERTIES EveryMessageSettled MailboxPromise
