------------------------------ MODULE Exchange ------------------------------
(***************************************************************************)
(* What reassembly promises, with no hash table, no clock and no session   *)
(* life cycle: each connection accumulates the segments of its two         *)
(* directions; now and then what it holds is flushed, and a flush emits    *)
(* exactly one record, with all of it, when it is a request and a response *)
(* that decode.  A request segment never joins an exchange that has both   *)
(* sides already.  Segments of different connections never meet.           *)
(***************************************************************************)
EXTENDS Sequences

CONSTANTS
    Connection,       \* the connections of the capture
    Segment,          \* the segments each connection may carry
    Decodes(_, _)     \* the parser's verdict on a request and a response

VARIABLES req, rsp, emitted

vars == <<req, rsp, emitted>>

Init ==
    /\ req = [c \in Connection |-> << >>]
    /\ rsp = [c \in Connection |-> << >>]
    /\ emitted = {}

Complete(c) == req[c] # << >> /\ rsp[c] # << >> /\ Decodes(req[c], rsp[c])

RecordOf(c) == [conn |-> c, req |-> req[c], rsp |-> rsp[c]]

(* What c holds once those in F have been flushed. *)
ReqLeft(c, F) == IF c \in F THEN << >> ELSE req[c]
RspLeft(c, F) == IF c \in F THEN << >> ELSE rsp[c]

AddRequest(c, F, x) ==
    /\ ReqLeft(c, F) = << >> \/ RspLeft(c, F) = << >>
    /\ req'[c] = Append(ReqLeft(c, F), x)
    /\ rsp'[c] = RspLeft(c, F)

AddResponse(c, F, x) ==
    /\ req'[c] = ReqLeft(c, F)
    /\ rsp'[c] = Append(RspLeft(c, F), x)

Keep(c, F) ==
    /\ req'[c] = ReqLeft(c, F)
    /\ rsp'[c] = RspLeft(c, F)

Next ==
    \E F \in SUBSET Connection :
        /\ emitted' = emitted \cup {RecordOf(c) : c \in {d \in F : Complete(d)}}
        /\ req' = [c \in Connection |-> req'[c]]
        /\ rsp' = [c \in Connection |-> rsp'[c]]
        /\ \E c \in Connection :
              /\ \/ Keep(c, F)
                 \/ \E x \in Segment[c] : AddRequest(c, F, x) \/ AddResponse(c, F, x)
              /\ \A d \in Connection \ {c} : Keep(d, F)

Spec == Init /\ [][Next]_vars
=============================================================================
