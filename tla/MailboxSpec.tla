---------------------------- MODULE MailboxSpec ----------------------------
(***************************************************************************)
(* What single_reader_queue promises an actor and those who write to it:   *)
(* one queue, first in first out, whose operations are atomic.  An         *)
(* enqueue tells its writer when it has ended the reader's sleep.  A       *)
(* closed queue refuses elements; those it still held go to the bouncer.   *)
(***************************************************************************)
EXTENDS Sequences

CONSTANT Message

VARIABLES
    queue,      \* enqueued and not yet taken, oldest first
    state,      \* "open", "blocked" (the reader sleeps), "closing" or "closed"
    wakeups,    \* enqueues that ended a sleep the reader has not noticed yet
    taken,      \* what the reader got, in order
    bounced     \* what was refused, or discarded by close

vars == <<queue, state, wakeups, taken, bounced>>

Init ==
    /\ queue = << >> /\ state = "open" /\ wakeups = 0
    /\ taken = << >> /\ bounced = {}

Enqueue(m) ==
    /\ state # "closed"
    /\ queue' = Append(queue, m)
    /\ state' = IF state = "blocked" THEN "open" ELSE state
    /\ wakeups' = IF state = "blocked" THEN 1 ELSE wakeups
    /\ UNCHANGED <<taken, bounced>>

Refuse(m) ==
    /\ state = "closed"
    /\ bounced' = bounced \cup {m}
    /\ UNCHANGED <<queue, state, wakeups, taken>>

Take ==
    /\ queue # << >> /\ state = "open" /\ wakeups = 0
    /\ queue' = Tail(queue)
    /\ taken' = Append(taken, Head(queue))
    /\ UNCHANGED <<state, wakeups, bounced>>

TryBlock ==
    /\ queue = << >> /\ state = "open" /\ wakeups = 0
    /\ state' = "blocked"
    /\ UNCHANGED <<queue, wakeups, taken, bounced>>

Wake ==
    /\ wakeups = 1 /\ wakeups' = 0
    /\ UNCHANGED <<queue, state, taken, bounced>>

BeginClose ==
    /\ state = "open" /\ wakeups = 0
    /\ state' = "closing"
    /\ UNCHANGED <<queue, wakeups, taken, bounced>>

Close ==
    /\ state = "closing"
    /\ state' = "closed"
    /\ UNCHANGED <<queue, wakeups, taken, bounced>>

(* close discards element by element, before and after the last enqueue. *)
Discard ==
    /\ queue # << >> /\ state \in {"closing", "closed"}
    /\ queue' = Tail(queue)
    /\ bounced' = bounced \cup {Head(queue)}
    /\ UNCHANGED <<state, wakeups, taken>>

Next ==
    \/ \E m \in Message : Enqueue(m) \/ Refuse(m)
    \/ Take \/ TryBlock \/ Wake \/ BeginClose \/ Close \/ Discard

Spec == Init /\ [][Next]_vars
=============================================================================
