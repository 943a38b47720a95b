SPECIFICATION Spec
CHECK_DEADLOCK FALSE
CONSTRAINT Bounded
CONSTANTS
    n1 = n1  n2 = n2  n3 = n3  none = none
    Node = {n1, n2, n3}
    None = none
    Dial <- MCDial
    Talk <- MCTalk
    Mortal = {n3}
    MaxConns = 3
    MaxTells = 2
    Fragile = {1}
INVARIANTS TypeOK TablesAgree DeadActorsForgotten
