--------------------------- MODULE MCHandleCheck ---------------------------
(* What the comments of TimeOutCheck say of it, on two connections of      *)
(* which one lies in the last bucket.                                      *)
EXTENDS Handle

CONSTANTS c1, c2, web

VARIABLE checkedAt       \* history: when the table was last walked

MCIsPort80(e) == e = web
MCHash(a, b) == IF c2 \in {a, b} THEN 1 ELSE 0

P(src, dst, seq, over, data) ==
    [src |-> src, dst |-> dst, seq |-> seq, over |-> over, data |-> data]

MCPackets == { P(c1, web, 1, FALSE, "req"), P(web, c1, 2, FALSE, "rsp"),
               P(c2, web, 1, FALSE, "req"), P(web, c2, 2, FALSE, "rsp") }

MCDecodes(req, rsp) == TRUE

WalksTable == arrived' # arrived /\ CheckDue

InitCheck == Init /\ checkedAt = 0
NextCheck == Next /\ checkedAt' = IF WalksTable THEN now ELSE checkedAt
SpecCheck == InitCheck /\ [][NextCheck]_<<vars, checkedAt>>

(* Handle.cpp:147, "traverse the whole vector": when the check runs it     *)
(* leaves no expired session in any bucket.                                *)
WholeVectorTraversed ==
    [][WalksTable => \A b \in Bucket : \A s \in table'[b] : ~Expired(s)]_<<vars, checkedAt>>

(* Handle.cpp:142, "every two minutes": two walks of the table are at      *)
(* least TIMEOUT_CHECK_DUR apart.                                          *)
CheckedEveryTwoMinutes ==
    [][WalksTable => now - checkedAt >= TIMEOUT_CHECK_DUR]_<<vars, checkedAt>>
=============================================================================
