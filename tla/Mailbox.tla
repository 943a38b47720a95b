------------------------------ MODULE Mailbox ------------------------------
(***************************************************************************)
(* CAF's single_reader_queue, the mailbox of every actor, at the level of  *)
(* its atomic accesses: a stack of elements any thread pushes to by        *)
(* compare-and-swap and the reader takes as a whole, reverses and consumes *)
(* from head_.  Two dummies stand for an empty stack and for an empty      *)
(* stack whose reader sleeps; a null pointer closes the queue.             *)
(*                                                                         *)
(* Elements live at addresses (Node) that are free again once an element   *)
(* is deleted, so that a writer may find an address it has read before     *)
(* with another element behind it.  The reader is the actor that owns the  *)
(* queue: it pops until it finds nothing, tries to block, and sleeps until *)
(* the writer that ended its sleep has rescheduled it (wakeups); it may    *)
(* close the queue between two elements.  The spurious failure of the weak *)
(* compare-and-swap leaves everything as it was and is not a step.         *)
(***************************************************************************)
EXTENDS Integers, Sequences, FiniteSets, SequencesExt

CONSTANTS
    Writer,       \* threads that enqueue
    Node,         \* addresses of mailbox elements
    PerWriter     \* bound: elements each writer enqueues

Null == "null"
EmptyDummy == "empty"      \* stack_empty_dummy
BlockedDummy == "blocked"  \* reader_blocked_dummy
NoElement == << >>

ASSUME MailboxAssumption ==
    /\ IsFiniteSet(Node) /\ Cardinality(Node) >= Cardinality(Writer)
    /\ {Null, EmptyDummy, BlockedDummy} \cap Node = {}
    /\ PerWriter \in Nat

Message == Writer \X (1 .. PerWriter)

VARIABLES
    stack,        \* stack_
    next,         \* the next pointer of each element
    elem,         \* the message at each address
    head,         \* head_
    sent,         \* elements each writer has made
    made,         \* the element a writer is pushing, and
    expected,     \* the value its compare-and-swap expects
    rpc, rexpected,   \* the reader's position and expected value
    wakeups,      \* reschedulings of the reader under way
    taken, bounced    \* history: what the reader got; what was refused or discarded

memory == <<stack, next, elem, head>>
writers == <<sent, made, expected>>
reader == <<rpc, rexpected>>
history == <<taken, bounced>>
vars == <<memory, writers, reader, wakeups, history>>

M_IsDummy(e) == e = EmptyDummy

IsDummy(e) == e \in {EmptyDummy, BlockedDummy}

FreeNodes == {n \in Node : elem[n] = NoElement}

(* delete_(n) *)
Deleted(n) == /\ elem' = [elem EXCEPT ![n] = NoElement]
              /\ next' = [next EXCEPT ![n] = Null]

(* The addresses of the list that starts at e, in its order. *)
Linked(c, e) ==
    /\ c = << >> <=> e \notin Node
    /\ c # << >> => c[1] = e
    /\ \A i \in DOMAIN c : next[c[i]] = IF i = Len(c) THEN Null ELSE c[i + 1]

Chain(e) == CHOOSE c \in SeqOf(Node, Cardinality(Node)) : Linked(c, e)

-----------------------------------------------------------------------------
(* enqueue *)

Message_(w) == <<w, sent[w] + 1>>

(* The element is made and stack_ loaded; a closed queue refuses it. *)
StartEnqueue(w) ==
    /\ made[w] = Null /\ sent[w] < PerWriter
    /\ sent' = [sent EXCEPT ![w] = @ + 1]
    /\ IF stack = Null
       THEN bounced' = bounced \cup {Message_(w)} /\ UNCHANGED <<made, expected, elem>>
       ELSE \E n \in FreeNodes :
               /\ elem' = [elem EXCEPT ![n] = Message_(w)]
               /\ made' = [made EXCEPT ![w] = n]
               /\ expected' = [expected EXCEPT ![w] = stack]
               /\ UNCHANGED bounced
    /\ UNCHANGED <<stack, next, head, reader, wakeups, taken>>

M_Wakes(e) == e = EmptyDummy

(* enqueue_result::unblocked_reader: this writer reschedules the reader. *)
Wakes(e) == e = BlockedDummy

Push(w) ==
    /\ made[w] # Null
    /\ stack = expected[w]
    /\ next' = [next EXCEPT ![made[w]] = IF IsDummy(expected[w]) THEN Null ELSE expected[w]]
    /\ stack' = made[w]
    /\ made' = [made EXCEPT ![w] = Null]
    /\ expected' = [expected EXCEPT ![w] = Null]
    /\ wakeups' = IF Wakes(expected[w]) THEN wakeups + 1 ELSE wakeups
    /\ UNCHANGED <<elem, head, sent, reader, history>>

Retry(w) ==
    /\ made[w] # Null
    /\ stack \notin {expected[w], Null}
    /\ expected' = [expected EXCEPT ![w] = stack]
    /\ UNCHANGED <<memory, sent, made, reader, wakeups, history>>

M_Refused(w) ==                      \* the refused element is not deleted
    /\ made[w] # Null /\ stack = Null
    /\ made' = [made EXCEPT ![w] = Null] /\ expected' = [expected EXCEPT ![w] = Null]
    /\ bounced' = bounced \cup {elem[made[w]]}
    /\ UNCHANGED <<memory, sent, reader, wakeups, taken>>

(* Closed while the element was under way. *)
Refused(w) ==
    /\ made[w] # Null
    /\ stack = Null
    /\ bounced' = bounced \cup {elem[made[w]]}
    /\ Deleted(made[w])
    /\ made' = [made EXCEPT ![w] = Null]
    /\ expected' = [expected EXCEPT ![w] = Null]
    /\ UNCHANGED <<stack, head, sent, reader, wakeups, taken>>

-----------------------------------------------------------------------------
(* The reader *)

M_Reversed(e) == head' = e /\ next' = next   \* not reversed

(* The list taken from the stack, newest first, moved to head_ one by one. *)
Reversed(e) ==
    LET c == Chain(e)
    IN  /\ head' = Last(c)
        /\ next' = [n \in Node |->
                      IF \E i \in 2 .. Len(c) : c[i] = n
                      THEN c[(CHOOSE i \in 2 .. Len(c) : c[i] = n) - 1]
                      ELSE IF n = c[1] THEN Null ELSE next[n]]

(* try_pop with an element in head_; the actor handles and deletes it. *)
PopHead ==
    /\ rpc = "run" /\ head # Null
    /\ taken' = Append(taken, elem[head])
    /\ head' = next[head]
    /\ Deleted(head)
    /\ UNCHANGED <<stack, writers, reader, wakeups, bounced>>

(* try_pop without one: fetch_new_data loads the stack. *)
LoadStack ==
    /\ rpc = "run" /\ head = Null
    /\ IF stack = EmptyDummy
       THEN rpc' = "nothing" /\ UNCHANGED rexpected
       ELSE rpc' = "fetch" /\ rexpected' = stack
    /\ UNCHANGED <<memory, writers, wakeups, history>>

Fetch ==
    /\ rpc = "fetch"
    /\ IF stack = rexpected
       THEN /\ stack' = EmptyDummy
            /\ Reversed(rexpected)
            /\ rpc' = "run" /\ rexpected' = Null
       ELSE rexpected' = stack /\ UNCHANGED <<stack, head, next, rpc>>
    /\ UNCHANGED <<elem, writers, wakeups, history>>

(* try_block, called only after a pop that found nothing. *)
TryBlock ==
    /\ rpc = "nothing"
    /\ IF stack = EmptyDummy
       THEN stack' = BlockedDummy /\ rpc' = "asleep"
       ELSE rpc' = "run" /\ UNCHANGED stack
    /\ UNCHANGED <<next, elem, head, writers, rexpected, wakeups, history>>

(* The reader is resumed for one of the wake-ups. *)
Resume ==
    /\ rpc = "asleep" /\ wakeups > 0
    /\ wakeups' = wakeups - 1
    /\ rpc' = "run"
    /\ UNCHANGED <<memory, writers, rexpected, history>>

(* The actor terminates while it handles an element, or before any. *)
BeginClose ==
    /\ rpc = "run"
    /\ rpc' = "clear"
    /\ UNCHANGED <<memory, writers, rexpected, wakeups, history>>

(* clear_cached_elements, before and after the queue is closed. *)
ClearOne ==
    /\ rpc \in {"clear", "drain"} /\ head # Null
    /\ bounced' = bounced \cup {elem[head]}
    /\ head' = next[head]
    /\ Deleted(head)
    /\ UNCHANGED <<stack, writers, reader, wakeups, taken>>

CloseLoad ==
    /\ rpc = "clear" /\ head = Null
    /\ rpc' = "closeFetch"
    /\ rexpected' = stack
    /\ UNCHANGED <<memory, writers, wakeups, history>>

M_CloseFetch ==                      \* nullptr stored, whatever is there by then
    /\ rpc = "closeFetch" /\ stack' = Null /\ rexpected' = Null
    /\ IF IsDummy(rexpected) THEN rpc' = "closed" /\ UNCHANGED <<head, next>>
                             ELSE rpc' = "drain" /\ Reversed(rexpected)
    /\ UNCHANGED <<elem, writers, wakeups, history>>

CloseFetch ==
    /\ rpc = "closeFetch"
    /\ IF stack = rexpected
       THEN /\ stack' = Null /\ rexpected' = Null
            /\ IF IsDummy(rexpected) THEN rpc' = "closed" /\ UNCHANGED <<head, next>>
                                     ELSE rpc' = "drain" /\ Reversed(rexpected)
       ELSE rexpected' = stack /\ UNCHANGED <<stack, head, next, rpc>>
    /\ UNCHANGED <<elem, writers, wakeups, history>>

Drained ==
    /\ rpc = "drain" /\ head = Null
    /\ rpc' = "closed"
    /\ UNCHANGED <<memory, writers, rexpected, wakeups, history>>

-----------------------------------------------------------------------------
Init ==
    /\ stack = EmptyDummy /\ head = Null
    /\ next = [n \in Node |-> Null] /\ elem = [n \in Node |-> NoElement]
    /\ sent = [w \in Writer |-> 0]
    /\ made = [w \in Writer |-> Null] /\ expected = [w \in Writer |-> Null]
    /\ rpc = "run" /\ rexpected = Null /\ wakeups = 0
    /\ taken = << >> /\ bounced = {}

ReaderStep == PopHead \/ LoadStack \/ Fetch \/ TryBlock \/ Resume
                 \/ ClearOne \/ CloseLoad \/ CloseFetch \/ Drained

EnqueueStep(w) == Push(w) \/ Retry(w) \/ Refused(w)

Next ==
    \/ \E w \in Writer : StartEnqueue(w) \/ EnqueueStep(w)
    \/ ReaderStep
    \/ BeginClose

(* The scheduler runs a rescheduled actor, and an enqueue or a pop that    *)
(* has begun goes on.  Nobody has to enqueue or to close.                  *)
Fairness == WF_vars(ReaderStep) /\ \A w \in Writer : WF_vars(EnqueueStep(w))

Spec == Init /\ [][Next]_vars /\ Fairness

-----------------------------------------------------------------------------
Pointer == Node \cup {Null}

(* Type invariant. *)
TypeOK ==
    /\ stack \in Pointer \cup {EmptyDummy, BlockedDummy}
    /\ head \in Pointer
    /\ next \in [Node -> Pointer]
    /\ elem \in [Node -> Message \cup {NoElement}]
    /\ sent \in [Writer -> 0 .. PerWriter]
    /\ made \in [Writer -> Pointer]
    /\ expected \in [Writer -> Pointer \cup {EmptyDummy, BlockedDummy}]
    /\ rpc \in {"run", "fetch", "nothing", "asleep", "clear", "closeFetch", "drain", "closed"}
    /\ rexpected \in Pointer \cup {EmptyDummy}
    /\ wakeups \in Nat

(* A sleeping reader is woken exactly when it has something to wake for:   *)
(* the stack is the blocked dummy until one writer, and only one, has      *)
(* ended the sleep.  A reader that runs is never rescheduled, which would  *)
(* put two workers into one actor.                                         *)
WokenOnce ==
    /\ rpc = "asleep" <=> stack = BlockedDummy \/ wakeups = 1
    /\ wakeups <= 1

(* Each address that holds an element is in exactly one place: the hands   *)
(* of a writer, the stack or head_'s list.  Nothing leaks, nothing is      *)
(* reached after its deletion, although addresses are used again while     *)
(* writers still compare with them.                                        *)
Made == {made[w] : w \in Writer} \ {Null}
Holdings == Chain(stack) \o Chain(head)

NodesOwnedOnce ==
    /\ IsInjective(Holdings)
    /\ ToSet(Holdings) \cap Made = {}
    /\ ToSet(Holdings) \cup Made = Node \ FreeNodes

(* Every message is taken by the reader or bounced to its sender in the    *)
(* end: none is left behind by a missed wake-up or by closing.             *)
Settled(m) == m \in ToSet(taken) \cup bounced
EveryMessageSettled ==
    \A w \in Writer : \A k \in 1 .. PerWriter : sent[w] >= k ~> Settled(<<w, k>>)

-----------------------------------------------------------------------------
Elements(c) == [i \in DOMAIN c |-> elem[c[i]]]
Queue == Elements(Chain(head)) \o Reverse(Elements(Chain(stack)))
State == CASE stack = Null -> "closed"
           [] stack = BlockedDummy -> "blocked"
           [] rpc \in {"clear", "closeFetch"} -> "closing"
           [] OTHER -> "open"

Promise == INSTANCE MailboxSpec WITH queue <- Queue, state <- State

(* The stack and its compare-and-swaps implement one atomic queue: first   *)
(* in, first out, nothing lost, doubled or both taken and bounced.         *)
MailboxPromise == Promise!Spec
=============================================================================
