------------------------------ MODULE Lifecycle ------------------------------
(***************************************************************************)
(* How CAF's actors watch each other and end: links, monitors and functors *)
(* attached to an actor (monitorable_actor), its cleanup, the registry     *)
(* that maps ids to actors, and the count of running actors ~actor_system  *)
(* waits for.  An actor's own thread links, monitors, reads exit messages  *)
(* and ends; the program registers actors and waits.                       *)
(*                                                                         *)
(* Every critical section under an actor's mtx_ is one step, but the one   *)
(* of establish_link_impl: it holds the actor's own lock while it takes    *)
(* the other's, so it is three (Link, Backlink, AttachLink).  Mailboxes    *)
(* hold the exit and down messages only.                                   *)
(***************************************************************************)
EXTENDS Integers, Sequences, FiniteSets, SequencesExt

CONSTANTS
    Actor,
    Program,     \* the main thread
    None,
    Unlinker,    \* actors that call unlink_from on their own account
    MaxOps       \* bound: links, unlinks, monitors and registrations begun, and a wait

ASSUME LifecycleAssumption ==
    MaxOps \in Nat /\ IsFiniteSet(Actor) /\ Program \notin Actor /\ None \notin Actor

VARIABLES
    att,         \* attachables_head_: what is attached to an actor, newest first
    head,        \* the list cleanup has taken over and walks
    terminated, cleaned_up,   \* the two flags
    closed, inbox,            \* the mailbox
    running,     \* actor_registry::running_
    entries,     \* ids registered: entries_
    pc, other,   \* a thread's position and the actor it works on
    verdict,     \* what the exit handler will decide: stay, leave, or none at work
    ops          \* operations begun so far

actors == <<att, head, terminated, cleaned_up>>
mailbox == <<closed, inbox>>
registry == <<running, entries>>
vars == <<actors, mailbox, registry, pc, other, verdict, ops>>

LinkTo(b) == <<"link", b>>          \* tells b with an exit message
MonitorOf(b) == <<"monitor", b>>    \* tells b with a down message
EraseId == <<"id", None>>           \* the functor of put(actor_id, ..)

M_Locked(a) == pc[a] \in {"backlink", "attach", "unlink"}

(* Between Link and its last step the actor holds its own lock. *)
Locked(a) == pc[a] \in {"backlink", "attach"}

Goto(t, p) == pc' = [pc EXCEPT ![t] = p]

M_Refuses(b) == FALSE

(* No observer is accepted any more. *)
Refuses(b) == terminated[b]

M_AlreadyLinked(b, a) == FALSE

(* The dry run of detach_impl finds a among those b tells. *)
AlreadyLinked(b, a) == Contains(att[b], LinkTo(a))

M_Told(m, a, what) == [m EXCEPT ![a] = Append(@, what)]

(* A message to an actor whose mailbox is closed is lost. *)
Told(m, a, what) == IF closed[a] THEN m ELSE [m EXCEPT ![a] = Append(@, what)]

-----------------------------------------------------------------------------
(* link_to and unlink_from, by actor a on actor b *)

Start(t) == pc[t] = "idle" /\ ops < MaxOps /\ ops' = ops + 1

Link(a, b) ==
    /\ Start(a) /\ Goto(a, "backlink")
    /\ other' = [other EXCEPT ![a] = b]
    /\ UNCHANGED <<actors, mailbox, registry, verdict>>

(* establish_backlink of the other actor, which an actor that has ended    *)
(* answers with an exit message.                                           *)
Backlink(a) ==
    LET b == other[a] IN
    /\ pc[a] = "backlink" /\ ~Locked(b)
    /\ \/ /\ Refuses(b) /\ inbox' = Told(inbox, a, <<"exit", b>>)
          /\ Goto(a, "idle") /\ UNCHANGED att
       \/ /\ ~Refuses(b) /\ AlreadyLinked(b, a) /\ Goto(a, "idle")
          /\ UNCHANGED <<att, inbox>>
       \/ /\ ~Refuses(b) /\ ~AlreadyLinked(b, a) /\ Goto(a, "attach")
          /\ att' = [att EXCEPT ![b] = <<LinkTo(a)>> \o @]
          /\ UNCHANGED inbox
    /\ UNCHANGED <<head, terminated, cleaned_up, closed, registry, other, verdict, ops>>

AttachLink(a) ==
    /\ pc[a] = "attach" /\ Goto(a, "idle")
    /\ att' = [att EXCEPT ![a] = <<LinkTo(other[a])>> \o @]
    /\ UNCHANGED <<head, terminated, cleaned_up, mailbox, registry, other, verdict, ops>>

(* remove_link_impl: the own side; the other one follows if there was one. *)
RemoveLink(a, b, after) ==
    /\ other' = [other EXCEPT ![a] = b]
    /\ IF Contains(att[a], LinkTo(b))
       THEN att' = [att EXCEPT ![a] = RemoveFirst(@, LinkTo(b))] /\ Goto(a, "unlink")
       ELSE Goto(a, after) /\ UNCHANGED att

Unlink(a, b) ==
    /\ a \in Unlinker /\ Start(a) /\ RemoveLink(a, b, "idle")
    /\ UNCHANGED <<head, terminated, cleaned_up, mailbox, registry, verdict>>

RemoveBacklink(a) ==
    LET b == other[a] IN
    /\ pc[a] = "unlink" /\ ~Locked(b)
    /\ att' = [att EXCEPT ![b] = RemoveFirst(@, LinkTo(a))]
    /\ Goto(a, IF verdict[a] = "none" THEN "idle" ELSE "exit")
    /\ UNCHANGED <<head, terminated, cleaned_up, mailbox, registry, other, verdict, ops>>

(* An exit message unlinks its source before the exit handler decides.     *)
ReadMessage(a) ==
    /\ pc[a] = "idle" /\ inbox[a] # << >>
    /\ LET m == Head(inbox[a])
       IN  IF m[1] = "exit"
           THEN /\ RemoveLink(a, m[2], "exit")
                /\ \E v \in {"stay", "leave"} : verdict' = [verdict EXCEPT ![a] = v]
           ELSE UNCHANGED <<att, other, verdict, pc>>
    /\ inbox' = [inbox EXCEPT ![a] = Tail(@)]
    /\ UNCHANGED <<head, terminated, cleaned_up, closed, registry, ops>>

ExitHandler(a) ==
    /\ pc[a] = "exit" /\ verdict' = [verdict EXCEPT ![a] = "none"]
    /\ IF verdict[a] = "leave" THEN terminated' = [terminated EXCEPT ![a] = TRUE] /\ Goto(a, "close")
                  ELSE Goto(a, "idle") /\ UNCHANGED terminated
    /\ UNCHANGED <<att, head, cleaned_up, mailbox, registry, other, ops>>

(* detach_impl that does not stop at the first hit: s without all x.       *)
Without(s, x) ==
    LET kept == {i \in DOMAIN s : s[i] # x}
        Nth(n) == CHOOSE i \in kept : Cardinality({j \in kept : j <= i}) = n
    IN  [n \in 1 .. Cardinality(kept) |-> s[Nth(n)]]

(* monitor and demonitor *)
Monitor(a, b) ==
    /\ Start(a) /\ ~Locked(b)
    /\ IF Refuses(b) THEN inbox' = Told(inbox, a, <<"down", b>>) /\ UNCHANGED att
       ELSE att' = [att EXCEPT ![b] = <<MonitorOf(a)>> \o @] /\ UNCHANGED inbox
    /\ UNCHANGED <<head, terminated, cleaned_up, closed, registry, pc, other, verdict>>

Demonitor(a, b) ==
    /\ Start(a) /\ ~Locked(b)
    /\ att' = [att EXCEPT ![b] = Without(@, MonitorOf(a))]
    /\ UNCHANGED <<head, terminated, cleaned_up, mailbox, registry, pc, other, verdict>>

-----------------------------------------------------------------------------
(* The end of an actor *)

Quit(a) ==
    /\ pc[a] = "idle" /\ Goto(a, "close")
    /\ terminated' = [terminated EXCEPT ![a] = TRUE]
    /\ UNCHANGED <<att, head, cleaned_up, mailbox, registry, other, verdict, ops>>

(* local_actor::cleanup: the mailbox, the running count ... *)
Close(a) ==
    /\ pc[a] = "close" /\ Goto(a, "deregister")
    /\ closed' = [closed EXCEPT ![a] = TRUE] /\ inbox' = [inbox EXCEPT ![a] = << >>]
    /\ UNCHANGED <<actors, registry, other, verdict, ops>>

(* dec_running *)
Deregister(a) ==
    /\ pc[a] = "deregister"
    /\ running' = running - 1
    /\ Goto(a, IF running' <= 1 THEN "notify" ELSE "cleanup")
    /\ UNCHANGED <<actors, mailbox, entries, other, verdict, ops>>

M_Woken(a) == [pc EXCEPT ![a] = "cleanup"]

Woken(a) == IF pc[Program] = "waiting" THEN [pc EXCEPT ![Program] = "await", ![a] = "cleanup"]
            ELSE [pc EXCEPT ![a] = "cleanup"]

Notify(a) ==
    /\ pc[a] = "notify" /\ pc' = Woken(a)
    /\ UNCHANGED <<actors, mailbox, registry, other, verdict, ops>>

(* ... and monitorable_actor::cleanup *)
Cleanup(a) ==
    /\ pc[a] = "cleanup" /\ Goto(a, "walk")
    /\ head' = [head EXCEPT ![a] = att[a]] /\ att' = [att EXCEPT ![a] = << >>]
    /\ cleaned_up' = [cleaned_up EXCEPT ![a] = TRUE]
    /\ UNCHANGED <<terminated, mailbox, registry, other, verdict, ops>>

M_Exited(a, x) ==
    CASE x[1] = "monitor" -> Told(inbox, x[2], <<"exit", a>>)
      [] x[1] = "link" -> Told(inbox, x[2], <<"down", a>>)
      [] OTHER -> inbox

(* default_attachable::actor_exited *)
Exited(a, x) ==
    CASE x[1] = "link" -> Told(inbox, x[2], <<"exit", a>>)
      [] x[1] = "monitor" -> Told(inbox, x[2], <<"down", a>>)
      [] OTHER -> inbox

M_Erased(a) == entries

(* actor_registry::erase *)
Erased(a) == entries \ {a}

(* actor_exited of the next attachable. *)
Walk(a) ==
    /\ pc[a] = "walk"
    /\ IF head[a] = << >> THEN Goto(a, "dead") /\ UNCHANGED <<head, inbox, entries>>
       ELSE LET x == Head(head[a])
            IN  /\ head' = [head EXCEPT ![a] = Tail(@)]
                /\ inbox' = Exited(a, x)
                /\ entries' = IF x = EraseId THEN Erased(a) ELSE entries
                /\ UNCHANGED pc
    /\ UNCHANGED <<att, terminated, cleaned_up, closed, running, other, verdict, ops>>

-----------------------------------------------------------------------------
(* The registry, by the program *)

(* put(actor_id, ..): the entry first, the functor without the lock.       *)
PutId(a) ==
    /\ a \notin entries /\ entries' = entries \cup {a}
    /\ Start(Program) /\ Goto(Program, "functor")
    /\ other' = [other EXCEPT ![Program] = a]
    /\ UNCHANGED <<actors, mailbox, running, verdict>>

AttachEraser ==
    LET a == other[Program] IN
    /\ pc[Program] = "functor" /\ ~Locked(a) /\ Goto(Program, "idle")
    /\ IF Refuses(a) THEN entries' = Erased(a) /\ UNCHANGED att
       ELSE att' = [att EXCEPT ![a] = <<EraseId>> \o @] /\ UNCHANGED entries
    /\ UNCHANGED <<head, terminated, cleaned_up, mailbox, running, other, verdict, ops>>

(* await_all_actors_done *)
BeginAwait ==
    /\ Start(Program) /\ Goto(Program, "await")
    /\ UNCHANGED <<actors, mailbox, registry, other, verdict>>

Await ==
    /\ pc[Program] = "await" /\ Goto(Program, IF running = 0 THEN "done" ELSE "waiting")
    /\ UNCHANGED <<actors, mailbox, registry, other, verdict, ops>>

-----------------------------------------------------------------------------

Init ==
    /\ att = [a \in Actor |-> << >>] /\ head = [a \in Actor |-> << >>]
    /\ terminated = [a \in Actor |-> FALSE] /\ cleaned_up = [a \in Actor |-> FALSE]
    /\ closed = [a \in Actor |-> FALSE] /\ inbox = [a \in Actor |-> << >>]
    /\ running = Cardinality(Actor) /\ entries = {}
    /\ pc = [t \in Actor \cup {Program} |-> "idle"]
    /\ other = [t \in Actor \cup {Program} |-> None]
    /\ verdict = [a \in Actor |-> "none"]
    /\ ops = 0

(* What an actor or the program may decide to begin ... *)
ActorBegins(a) ==
    \/ Quit(a)
    \/ \E b \in Actor \ {a} : Link(a, b) \/ Unlink(a, b) \/ Monitor(a, b) \/ Demonitor(a, b)

ProgramBegins == BeginAwait \/ \E a \in Actor : PutId(a)

(* ... and what it then goes through with. *)
ActorGoesOn(a) ==
    \/ Backlink(a) \/ AttachLink(a) \/ RemoveBacklink(a) \/ ReadMessage(a) \/ ExitHandler(a)
    \/ Close(a) \/ Deregister(a) \/ Notify(a) \/ Cleanup(a) \/ Walk(a)

ProgramGoesOn == AttachEraser \/ Await

Next ==
    \/ ProgramBegins \/ ProgramGoesOn
    \/ \E a \in Actor : ActorBegins(a) \/ ActorGoesOn(a)

Spec ==
    /\ Init /\ [][Next]_vars
    /\ WF_vars(ProgramGoesOn) /\ \A a \in Actor : WF_vars(ActorGoesOn(a))

-----------------------------------------------------------------------------
(* Properties *)

Links(a, b) == Cardinality({i \in DOMAIN att[a] : att[a][i] = LinkTo(b)})

(* Neither actor is in the middle of something, or about to be.            *)
Quiet(a, b) ==
    \A c \in {a, b} : pc[c] = "idle" /\ inbox[c] = << >>

(* Actors that hold their own lock and wait in a circle for each other's.  *)
LinkDeadlock ==
    \E S \in SUBSET Actor \ {{}} : \A a \in S : pc[a] = "backlink" /\ other[a] \in S

(* Variables keep the values the code can give them; an actor that runs is *)
(* counted once, an actor that has ended has no mail, and an exit message  *)
(* is being handled in the steps that handle one.                          *)
TypeOK ==
    /\ \A a \in Actor : /\ ToSet(att[a]) \cup ToSet(head[a]) \subseteq
                              {LinkTo(b) : b \in Actor \ {a}} \cup {MonitorOf(b) : b \in Actor \ {a}}
                              \cup {EraseId}
                        /\ closed[a] => inbox[a] = << >>
                        /\ cleaned_up[a] => terminated[a]
                        /\ terminated[a] <=> pc[a] \in {"close", "deregister", "notify", "cleanup",
                                                        "walk", "dead"}
                        /\ pc[a] = "exit" => verdict[a] # "none"
    /\ running = Cardinality({a \in Actor : pc[a] \notin {"notify", "cleanup", "walk", "dead"}})
    /\ entries \subseteq Actor

(* Both may unlink on their own account. *)
Rivals(a, b) == {a, b} \subseteq Unlinker

(* Links are symmetric and single: when two actors are both at rest, each  *)
(* has one link to the other or neither has, whatever link_to calls of     *)
(* both and unlink_from calls of one of them crossed before.               *)
LinksAgree ==
    \A a, b \in Actor : a # b /\ ~Rivals(a, b) /\ Quiet(a, b) =>
        Links(a, b) = Links(b, a) /\ Links(a, b) <= 1

(* Nobody is attached to an actor after cleanup took its list: an observer *)
(* that comes late is told at once instead of never.                       *)
NoLateObserver == \A a \in Actor : cleaned_up[a] => att[a] = << >>

(* An actor that has ended is in the registry of ids only while somebody   *)
(* is about to remove it: its cleanup, or the put that has registered it.  *)
DeadAreUnregistered ==
    \A a \in entries : cleaned_up[a] =>
        Contains(head[a], EraseId) \/ (pc[Program] = "functor" /\ other[Program] = a)

(* Every operation on links and every end of an actor completes, unless    *)
(* actors link to each other in a circle at the same time (they begin      *)
(* finitely many, so that one stuck is stuck for good).                    *)
OperationsComplete ==
    []<>(LinkDeadlock \/ \A a \in Actor : pc[a] \in {"idle", "dead"})

(* A survivor of a link forgets the actor that has ended: the exit message *)
(* reaches it although it may still have been establishing the link.       *)
DeadLinksForgotten ==
    []<>(LinkDeadlock \/ \A a, b \in Actor :
            a # b /\ pc[b] = "dead" /\ pc[a] # "dead" => Links(a, b) = 0)

(* await_all_actors_done returns once all actors have ended: the last      *)
(* decrement is not lost between the waiter's check and its sleep.         *)
AwaitReturns ==
    (pc[Program] \in {"await", "waiting"} /\ \A a \in Actor : pc[a] = "dead") ~> (pc[Program] = "done")
=============================================================================
