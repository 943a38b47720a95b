----------------------------- MODULE Scheduling -----------------------------
(***************************************************************************)
(* How CAF runs event-based actors: workers that pop jobs from their own   *)
(* deque and steal from each other's, one private thread per detached      *)
(* actor, the timer that delivers delayed messages, and the program's main *)
(* thread, which launches actors, sends, drops handles and finally stops   *)
(* the scheduler.  The mailbox is the atomic queue MailboxSpec describes   *)
(* (Mailbox shows that the lock-free one implements it), an element of a   *)
(* deque is a job, and a step of a thread ends where another thread can    *)
(* see the difference.                                                     *)
(*                                                                         *)
(* Ordinary messages are numbered in the order they are sent; the message  *)
(* -k is the k-th timeout an actor asked for.  refs is the strong count    *)
(* the code keeps, so that a release too many or too few shows.            *)
(***************************************************************************)
EXTENDS Integers, Sequences, FiniteSets, SequencesExt

CONSTANTS
    NumWorkers,      \* scheduler_max_threads
    Throughput,      \* scheduler_max_throughput
    Pooled,          \* actors the workers run
    Detached,        \* actors spawned with detached: each has a private_thread
    Timed,           \* actors whose behaviors may have a timeout
    Program, Timer,  \* the main thread and the thread of the timer actor
    Helper,          \* the shutdown_helper of coordinator::stop
    None,
    MaxMsgs,         \* bound: ordinary messages sent
    MaxTimeouts      \* bound: timeouts asked for by an actor

Worker == 1 .. NumWorkers
Actor == Pooled \cup Detached
Runner == Worker \cup Detached       \* a private thread has its actor's name
Thread == Runner \cup {Program, Timer}

ASSUME SchedulingAssumption ==
    /\ NumWorkers \in Nat \ {0} /\ Throughput \in Nat \ {0} /\ MaxMsgs \in Nat /\ MaxTimeouts \in Nat
    /\ IsFiniteSet(Actor) /\ Pooled \cap Detached = {} /\ Worker \cap Detached = {}
    /\ Program # Timer /\ {Program, Timer} \cap Runner = {}
    /\ Helper \notin Actor
    /\ None \notin Actor \cup Thread \cup (Actor \X (Runner \cup {None}))

VARIABLES
    mail, mstate,    \* the mailbox: its messages, and open, blocked or closed
    flags,           \* the part of abstract_channel::flags_ that changes
    refs,            \* strong_refs
    handle,          \* the program's strong reference: none, held or dropped
    context,         \* context_: the execution unit of the last activation, as long
                     \* as there is a thread in the actor to read it
    tid,             \* timeout_id_
    tstate,          \* private_thread::state_
    deque,
    delayed,         \* the delayed messages the timer holds
    pc, job, burst,  \* a thread's position, its actor, messages handled so far
    seen,            \* what a thread will write to the flags, and request then
    wake,            \* the reader a thread has unblocked and must reschedule
    stop,            \* coordinator::stop: position, alive_workers, last_worker, deque swept
    sent, settled    \* history: messages sent; handled, refused or discarded

box == <<mail, mstate, settled>>
cell == <<flags, refs, handle, context, tid, tstate>>
local == <<pc, job, burst, seen>>
vars == <<box, cell, deque, delayed, local, wake, stop, sent>>

NoWrite == [flags |-> {}, wait |-> "none"]
Idle(t) == wake[t] = None
WakersOf(a) == {t \in Thread : wake[t] # None /\ wake[t][1] = a}

-----------------------------------------------------------------------------
(* Mailboxes, references and deques *)

M_Wakes(a) == mail[a] = << >>

Wakes(a) == mstate[a] = "blocked"

(* Thread t enqueues x to a's mailbox when the mailboxes are m and the     *)
(* messages in s are settled; the writer that ends the reader's sleep has  *)
(* to reschedule it, through eu if there is one.                           *)
Deliver(m, s, t, a, x, eu) ==
    IF mstate[a] = "closed"
    THEN /\ mail' = m /\ settled' = s \cup ({x} \cap 1 .. MaxMsgs)
         /\ UNCHANGED <<mstate, wake>>
    ELSE /\ mail' = [m EXCEPT ![a] = Append(@, x)]
         /\ mstate' = [mstate EXCEPT ![a] = "open"]
         /\ settled' = s
         /\ wake' = IF Wakes(a) THEN [wake EXCEPT ![t] = <<a, eu>>] ELSE wake

M_AskedToLeave(D) == tstate

(* private_thread::shutdown for the detached actors of D, *)
AskedToLeave(D) == [d \in Detached |-> IF d \in D THEN "shutdown" ELSE tstate[d]]

M_Resumed(d) == IF pc[d] = "await" THEN [tstate EXCEPT ![d] = "active"] ELSE tstate

(* and private_thread::resume. *)
Resumed(d) == [tstate EXCEPT ![d] = "active"]

(* local_actor::cleanup of the actors in D: mailboxes closed and emptied,  *)
(* private threads asked to leave.                                         *)
CleanUp(D) ==
    /\ mail' = [a \in Actor |-> IF a \in D THEN << >> ELSE mail[a]]
    /\ settled' = settled \cup UNION {ToSet(mail[a]) \cap 1 .. MaxMsgs : a \in D}
    /\ mstate' = [a \in Actor |-> IF a \in D THEN "closed" ELSE mstate[a]]
    /\ flags' = [a \in Actor |-> IF a \in D THEN flags[a] \cup {"terminated", "cleaned_up"}
                                            ELSE flags[a]]
    /\ tstate' = AskedToLeave(D)

(* drops[a] strong references to a are given up, and the actors in D are   *)
(* cleaned up with those whose last reference goes (on_destroy).           *)
DropRefs(drops, D) ==
    /\ refs' = [a \in Actor |-> refs[a] - drops[a]]
    /\ CleanUp(D \cup {a \in Actor : drops[a] > 0 /\ refs[a] = drops[a]})

One(a) == [b \in Actor |-> IF b = a THEN 1 ELSE 0]

M_OneMore(a) == refs

OneMore(a) == [refs EXCEPT ![a] = @ + 1]

(* Everything in the process that enqueues turns next_worker: any worker   *)
(* may be next.                                                            *)
CentralEnqueue(j) == \E w \in Worker : deque' = [deque EXCEPT ![w] = Append(@, j)]

(* The rest of scheduled_actor::enqueue, after the mailbox. *)
Reschedule(t) ==
    /\ ~Idle(t) /\ wake' = [wake EXCEPT ![t] = None]
    /\ LET a == wake[t][1]  eu == wake[t][2]
       IN  /\ refs' = OneMore(a)
           /\ \/ /\ a \in Detached /\ tstate' = Resumed(a)
                 /\ UNCHANGED deque
              \/ /\ a \in Pooled /\ eu \in Worker
                 /\ deque' = [deque EXCEPT ![eu] = <<a>> \o @]
                 /\ UNCHANGED tstate
              \/ /\ a \in Pooled /\ eu \notin Worker
                 /\ CentralEnqueue(a) /\ UNCHANGED tstate
    /\ UNCHANGED <<box, flags, handle, context, tid, delayed, local, stop, sent>>

-----------------------------------------------------------------------------
(* The program: launch, send, drop *)

Running == Idle(Program) /\ stop.at = "running"

(* A lazily spawned actor sleeps until its first message. *)
LaunchLazily(a) ==
    /\ Running /\ a \in Pooled /\ handle[a] = "none"
    /\ handle' = [handle EXCEPT ![a] = "held"]
    /\ refs' = OneMore(a)
    /\ mstate' = [mstate EXCEPT ![a] = "blocked"]
    /\ UNCHANGED <<mail, settled, flags, context, tid, tstate, deque, delayed, local, wake, stop, sent>>

(* The job's reference, or that of the private thread, comes with the      *)
(* program's own.                                                          *)
Launch(a) ==
    /\ Running /\ handle[a] = "none"
    /\ handle' = [handle EXCEPT ![a] = "held"]
    /\ refs' = [refs EXCEPT ![a] = 2]
    /\ IF a \in Pooled THEN CentralEnqueue(a) /\ UNCHANGED pc
       ELSE pc' = [pc EXCEPT ![a] = "top"] /\ UNCHANGED deque
    /\ UNCHANGED <<box, flags, context, tid, tstate, delayed, job, burst, seen, wake, stop, sent>>

Send(a) ==
    /\ Running /\ handle[a] = "held" /\ sent < MaxMsgs
    /\ sent' = sent + 1
    /\ Deliver(mail, settled, Program, a, sent + 1, None)
    /\ UNCHANGED <<cell, deque, delayed, local, stop>>

(* No thread is sending through the handle. *)
DropHandle(a) ==
    /\ Running /\ handle[a] = "held"
    /\ WakersOf(a) = {}
    /\ handle' = [handle EXCEPT ![a] = "dropped"]
    /\ DropRefs(One(a), {})
    /\ UNCHANGED <<context, tid, deque, delayed, local, wake, stop, sent>>

-----------------------------------------------------------------------------
(* scheduled_actor::resume, by a worker or a private thread t *)

At(t, p) == pc[t] = p /\ Idle(t)
Goto(t, p) == pc' = [pc EXCEPT ![t] = p]
Leave(t, p) == Goto(t, p) /\ burst' = [burst EXCEPT ![t] = 0]
Exhausted(t) == t \in Worker /\ burst[t] >= Throughput
Handled(t) == burst' = [burst EXCEPT ![t] = @ + 1]
M_CanBlock(a) == TRUE

(* try_block succeeds. *)
CanBlock(a) == mail[a] = << >>

Popped(a) == [mail EXCEPT ![a] = Tail(@)]
Settling(x) == settled \cup ({x} \cap 1 .. MaxMsgs)

(* An ordinary message suspends the timeout that is active. *)
FlagsAfter(a, x) == IF x > 0 THEN flags[a] \ {"timeout"} ELSE flags[a]

Expired(a, x) == x < 0 /\ ~("timeout" \in flags[a] /\ tid[a] = -x)

(* activate: what resume does before its loop.  The first activation may   *)
(* find that the actor has nothing to do and end it.                       *)
Activate(t, a) ==
    /\ context' = [context EXCEPT ![a] = t]
    /\ \/ /\ Goto(t, IF "terminated" \in flags[a] THEN "finish" ELSE "run")
          /\ flags' = [flags EXCEPT ![a] = @ \cup {"initialized"}]
          /\ UNCHANGED <<box, tstate>>
       \/ "initialized" \notin flags[a] /\ Goto(t, "finish") /\ CleanUp({a})

Turn(t) == At(t, "run") /\ ~Exhausted(t) /\ mail[job[t]] # << >>

DropExpired(t) ==
    /\ Turn(t) /\ Expired(job[t], Head(mail[job[t]]))
    /\ mail' = Popped(job[t])
    /\ UNCHANGED <<mstate, settled, cell, deque, delayed, local, wake, stop, sent>>

Handle(t) ==
    LET a == job[t]  x == Head(mail[a]) IN
    /\ Turn(t) /\ ~Expired(a, x)
    /\ mail' = Popped(a) /\ settled' = Settling(x)
    /\ flags' = [flags EXCEPT ![a] = FlagsAfter(a, x)] /\ Handled(t)
    /\ UNCHANGED <<mstate, refs, handle, context, tid, tstate, deque, delayed, pc, job, seen,
                   wake, stop, sent>>

(* The handler sends on through a handle the program keeps. *)
HandleAndSend(t, b) ==
    LET a == job[t]  x == Head(mail[a]) IN
    /\ Turn(t) /\ ~Expired(a, x)
    /\ handle[b] = "held" /\ sent < MaxMsgs /\ sent' = sent + 1
    /\ Deliver(Popped(a), Settling(x), t, b, sent + 1, IF t \in Worker THEN t ELSE None)
    /\ flags' = [flags EXCEPT ![a] = FlagsAfter(a, x)] /\ Handled(t)
    /\ UNCHANGED <<refs, handle, context, tid, tstate, deque, delayed, pc, job, seen, stop>>

(* quit, or an exception: finalize cleans up. *)
HandleAndQuit(t) ==
    /\ Turn(t) /\ ~Expired(job[t], Head(mail[job[t]]))
    /\ CleanUp({job[t]}) /\ Leave(t, "finish")
    /\ UNCHANGED <<refs, handle, context, tid, deque, delayed, job, seen, wake, stop, sent>>

(* Nothing to read: try_block succeeds, and the timeout is asked for after *)
(* it if anything was handled.                                             *)
Block(t) ==
    /\ At(t, "run") /\ ~Exhausted(t) /\ CanBlock(job[t])
    /\ mstate' = [mstate EXCEPT ![job[t]] = "blocked"]
    /\ IF burst[t] > 0 THEN Goto(t, "tail") /\ UNCHANGED burst ELSE Leave(t, "release")
    /\ UNCHANGED <<mail, settled, cell, deque, delayed, job, seen, wake, stop, sent>>

(* Thread t leaves actor a. *)
Left(t, a) == IF \E u \in Runner \ {t} : job[u] = a THEN context ELSE [context EXCEPT ![a] = None]

(* request_timeout for a behavior without a timeout, with one of zero, or  *)
(* with a later one: what follows has_timeout(..).                         *)
RequestTimeout(t, a, wait) ==
    \/ wait = "none" /\ UNCHANGED <<box, tid, refs, delayed, wake>>
    \/ /\ wait = "zero" /\ tid' = [tid EXCEPT ![a] = @ + 1]
       /\ Deliver(mail, settled, t, a, -(tid[a] + 1), context[a])
       /\ UNCHANGED <<refs, delayed>>
    \/ /\ wait = "later" /\ tid' = [tid EXCEPT ![a] = @ + 1]
       /\ IF pc[Timer] = "left" THEN UNCHANGED <<refs, delayed>>
          ELSE refs' = OneMore(a) /\ delayed' = delayed \cup {<<a, tid[a] + 1>>}
       /\ UNCHANGED <<box, wake>>

Asks(a, wait) ==
    \/ wait = "none"
    \/ /\ a \in Timed
       /\ tid[a] + Cardinality({u \in Runner : job[u] = a /\ seen[u].wait # "none"}) < MaxTimeouts

NewFlags(a, wait) == IF wait = "none" THEN flags[a] \ {"timeout"} ELSE flags[a] \cup {"timeout"}

(* The same call when the actor has used up its turn: it is still running. *)
Limit(t) ==
    /\ At(t, "run") /\ Exhausted(t) /\ Leave(t, "yield")
    /\ \E wait \in {"none", "zero", "later"} :
           /\ Asks(job[t], wait)
           /\ flags' = [flags EXCEPT ![job[t]] = NewFlags(job[t], wait)]
           /\ RequestTimeout(t, job[t], wait)
    /\ UNCHANGED <<handle, context, tstate, deque, job, seen, stop, sent>>

Yield(t) ==
    /\ At(t, "yield")
    /\ IF CanBlock(job[t])
       THEN /\ mstate' = [mstate EXCEPT ![job[t]] = "blocked"] /\ Goto(t, "release")
            /\ UNCHANGED <<deque, job, context>>
       ELSE /\ deque' = [deque EXCEPT ![t] = Append(@, job[t])]
            /\ Goto(t, "poll") /\ job' = [job EXCEPT ![t] = None]
            /\ context' = Left(t, job[t])
            /\ UNCHANGED mstate
    /\ UNCHANGED <<mail, settled, flags, refs, handle, tid, tstate, delayed, burst, seen, wake, stop, sent>>

(* After try_block another thread may run the actor: has_timeout(..) loads *)
(* the flags ...                                                           *)
TailLoad(t) ==
    /\ At(t, "tail") /\ Goto(t, "store")
    /\ \E wait \in {"none", "zero", "later"} :
           /\ Asks(job[t], wait)
           /\ seen' = [seen EXCEPT ![t] = [flags |-> NewFlags(job[t], wait), wait |-> wait]]
    /\ UNCHANGED <<box, cell, deque, delayed, job, burst, wake, stop, sent>>

(* ... and stores them. *)
TailStore(t) ==
    /\ At(t, "store") /\ Leave(t, "release")
    /\ flags' = [flags EXCEPT ![job[t]] = seen[t].flags]
    /\ RequestTimeout(t, job[t], seen[t].wait)
    /\ seen' = [seen EXCEPT ![t] = NoWrite]
    /\ UNCHANGED <<handle, context, tstate, deque, job, stop, sent>>

(* The result of resume: awaiting_message (release) or done (finish). *)
Release(t) ==
    /\ pc[t] \in {"release", "finish"} /\ Idle(t)
    /\ DropRefs(One(job[t]), {})
    /\ IF t \in Worker THEN Goto(t, "poll") /\ job' = [job EXCEPT ![t] = None]
       ELSE Goto(t, IF pc[t] = "release" THEN "await" ELSE "ending") /\ UNCHANGED job
    /\ context' = Left(t, job[t])
    /\ UNCHANGED <<handle, tid, deque, delayed, burst, seen, wake, stop, sent>>

-----------------------------------------------------------------------------
(* worker::run and private_thread::run *)

(* The helper reports the worker that runs it, and the worker leaves.      *)
Take(w, j) ==
    IF j = Helper
    THEN /\ Goto(w, "left") /\ stop' = [stop EXCEPT !.last = w]
         /\ UNCHANGED <<box, flags, context, tstate, job>>
    ELSE Activate(w, j) /\ job' = [job EXCEPT ![w] = j] /\ UNCHANGED stop

TakeOwn(w) ==
    /\ pc[w] = "poll" /\ deque[w] # << >>
    /\ deque' = [deque EXCEPT ![w] = Tail(@)]
    /\ Take(w, Head(deque[w]))
    /\ UNCHANGED <<refs, handle, tid, delayed, burst, seen, wake, sent>>

Steal(w, v) ==
    /\ pc[w] = "poll" /\ deque[w] = << >> /\ v # w /\ deque[v] # << >>
    /\ deque' = [deque EXCEPT ![v] = Front(@)]
    /\ Take(w, Last(deque[v]))
    /\ UNCHANGED <<refs, handle, tid, delayed, burst, seen, wake, sent>>

(* state_ is written without the lock. *)
LoopTop(d) ==
    /\ At(d, "top") /\ Goto(d, "resume")
    /\ tstate' = [tstate EXCEPT ![d] = "await"]
    /\ UNCHANGED <<box, flags, refs, handle, context, tid, deque, delayed, job, burst, seen,
                   wake, stop, sent>>

Resume(d) ==
    /\ At(d, "resume") /\ Activate(d, d)
    /\ UNCHANGED <<refs, handle, tid, deque, delayed, job, burst, seen, wake, stop, sent>>

AwaitResume(d) ==
    /\ At(d, "await") /\ tstate[d] # "await"
    /\ Goto(d, IF tstate[d] = "active" THEN "top" ELSE "ending")
    /\ UNCHANGED <<box, cell, deque, delayed, job, burst, seen, wake, stop, sent>>

AwaitSelfDestroyed(d) ==
    /\ At(d, "ending") /\ refs[d] = 0 /\ Goto(d, "ended")
    /\ UNCHANGED <<box, cell, deque, delayed, job, burst, seen, wake, stop, sent>>

Run(t) ==
    \/ DropExpired(t) \/ Handle(t) \/ HandleAndQuit(t) \/ \E b \in Actor : HandleAndSend(t, b)
    \/ Block(t) \/ Limit(t) \/ Yield(t) \/ TailLoad(t) \/ TailStore(t)
    \/ Release(t) \/ Reschedule(t)

WorkerStep(w) == Run(w) \/ TakeOwn(w) \/ \E v \in Worker : Steal(w, v)

PrivateStep(d) == Run(d) \/ LoopTop(d) \/ Resume(d) \/ AwaitResume(d) \/ AwaitSelfDestroyed(d)

-----------------------------------------------------------------------------
(* The timer: deliver a message that is due, then erase it *)

Expire(e) ==
    /\ At(Timer, "poll") /\ e \in delayed
    /\ delayed' = delayed \ {e}
    /\ Deliver(mail, settled, Timer, e[1], -e[2], None)
    /\ job' = [job EXCEPT ![Timer] = e[1]] /\ Goto(Timer, "erase")
    /\ UNCHANGED <<cell, deque, burst, seen, stop, sent>>

Erase ==
    /\ At(Timer, "erase") /\ Goto(Timer, "poll") /\ job' = [job EXCEPT ![Timer] = None]
    /\ DropRefs(One(job[Timer]), {})
    /\ UNCHANGED <<handle, context, tid, deque, delayed, burst, seen, wake, stop, sent>>

TimerStep == Erase \/ Reschedule(Timer) \/ \E e \in delayed : Expire(e)

-----------------------------------------------------------------------------
(* coordinator::stop, by the program *)

Stopping(p) == stop.at = p /\ Idle(Program)

BeginStop ==
    /\ Stopping("running") /\ stop' = [stop EXCEPT !.at = "placing"]
    /\ UNCHANGED <<box, cell, deque, delayed, local, wake, sent>>

(* alive_workers is ordered by address, and the workers are numbered so.   *)
PlaceHelper(w) ==
    /\ Stopping("placing") /\ w \in stop.alive /\ \A v \in stop.alive : w <= v
    /\ deque' = [deque EXCEPT ![w] = Append(@, Helper)]
    /\ stop' = [stop EXCEPT !.at = "waiting"]
    /\ UNCHANGED <<box, cell, delayed, local, wake, sent>>

M_LastWorker == CHOOSE w \in stop.alive : TRUE
LastWorker == stop.last

WorkerReported ==
    /\ Stopping("waiting") /\ stop.last # None
    /\ LET rest == stop.alive \ {LastWorker}
       IN  stop' = [stop EXCEPT !.alive = rest, !.last = None,
                                !.at = IF rest = {} THEN "utility" ELSE "placing"]
    /\ UNCHANGED <<box, cell, deque, delayed, local, wake, sent>>

(* stop_actors: the timer leaves between two messages, and what it has not *)
(* delivered is destroyed with it.                                         *)
StopTimer ==
    /\ Stopping("utility") /\ At(Timer, "poll")
    /\ stop' = [stop EXCEPT !.at = "sweeping"] /\ Goto(Timer, "left")
    /\ DropRefs([a \in Actor |-> Cardinality({e \in delayed : e[1] = a})], {})
    /\ delayed' = {}
    /\ UNCHANGED <<handle, context, tid, deque, job, burst, seen, wake, sent>>

(* join has returned: cleanup_and_release for what the deques still hold.  *)
Sweep ==
    /\ Stopping("sweeping") /\ \A w \in Worker : pc[w] = "left"
    /\ IF deque[stop.sweep] = << >>
       THEN /\ stop' = IF stop.sweep = NumWorkers THEN [stop EXCEPT !.at = "stopped"]
                       ELSE [stop EXCEPT !.sweep = @ + 1]
            /\ UNCHANGED <<box, cell, deque>>
       ELSE LET a == Head(deque[stop.sweep])
            IN  /\ deque' = [deque EXCEPT ![stop.sweep] = Tail(@)]
                /\ DropRefs(One(a), {a})
                /\ UNCHANGED <<handle, context, tid, stop>>
    /\ UNCHANGED <<delayed, local, wake, sent>>

StopStep ==
    \/ Reschedule(Program) \/ WorkerReported \/ StopTimer \/ Sweep
    \/ \E w \in Worker : PlaceHelper(w)

-----------------------------------------------------------------------------

Init ==
    /\ mail = [a \in Actor |-> << >>] /\ mstate = [a \in Actor |-> "open"]
    /\ flags = [a \in Actor |-> {}] /\ refs = [a \in Actor |-> 0]
    /\ handle = [a \in Actor |-> "none"] /\ context = [a \in Actor |-> None]
    /\ tid = [a \in Actor |-> 0] /\ tstate = [d \in Detached |-> "active"]
    /\ deque = [w \in Worker |-> << >>] /\ delayed = {}
    /\ pc = [t \in Thread |-> IF t \in Worker \cup {Timer} THEN "poll" ELSE "none"]
    /\ job = [t \in Thread |-> IF t \in Detached THEN t ELSE None]
    /\ burst = [t \in Runner |-> 0] /\ seen = [t \in Runner |-> NoWrite]
    /\ wake = [t \in Thread |-> None]
    /\ stop = [at |-> "running", alive |-> Worker, last |-> None, sweep |-> 1]
    /\ sent = 0 /\ settled = {}

ProgramStep ==
    \/ BeginStop
    \/ \E a \in Actor : Launch(a) \/ LaunchLazily(a) \/ Send(a) \/ DropHandle(a)

Next ==
    \/ ProgramStep \/ StopStep \/ TimerStep
    \/ \E w \in Worker : WorkerStep(w)
    \/ \E d \in Detached : PrivateStep(d)

(* Every thread runs on and every timeout expires; what the program does   *)
(* before it has begun to stop the scheduler is its own business.          *)
Fairness ==
    /\ WF_vars(StopStep) /\ WF_vars(TimerStep)
    /\ \A w \in Worker : WF_vars(WorkerStep(w))
    /\ \A d \in Detached : WF_vars(PrivateStep(d))

Spec == Init /\ [][Next]_vars /\ Fairness

-----------------------------------------------------------------------------
(* Properties *)

Count(S) == Cardinality(S)

Queued(a) == {s \in Worker \X (1 .. 1 + Count(Actor)) :
                 s[2] <= Len(deque[s[1]]) /\ deque[s[1]][s[2]] = a}
At_(a, P) == {t \in Thread : job[t] = a /\ pc[t] \in P}

Turning == {"run", "yield"}
Holding == Turning \cup {"top", "resume", "tail", "store", "release", "finish", "erase"}

(* Every field keeps the values the code can give it: a deque never holds  *)
(* more than the actors and one helper, the strong count never goes below  *)
(* zero and a mailbox reader that sleeps has no mail.                      *)
TypeOK ==
    /\ \A a \in Actor : /\ mstate[a] \in {"open", "blocked", "closed"}
                        /\ mstate[a] # "open" => mail[a] = << >>
    /\ flags \in [Actor -> SUBSET {"timeout", "terminated", "cleaned_up", "initialized"}]
    /\ refs \in [Actor -> Nat] /\ tid \in [Actor -> 0 .. MaxTimeouts]
    /\ tstate \in [Detached -> {"active", "await", "shutdown"}]
    /\ \A w \in Worker : /\ Len(deque[w]) <= 1 + Count(Pooled)
                         /\ ToSet(deque[w]) \subseteq Pooled \cup {Helper}
    /\ \A t \in Runner : job[t] \in Actor \cup {None} /\ burst[t] \in 0 .. MaxMsgs + MaxTimeouts + 2
    /\ settled \subseteq 1 .. sent

(* An actor whose mailbox is open is in exactly one place: in one deque,   *)
(* with one worker, or in the hands of the one thread that has just woken  *)
(* it; an actor that sleeps or has ended is nowhere.  So no two workers    *)
(* run an actor at once and none is forgotten, whoever stole its job.      *)
OneWorkerPerActor ==
    \A a \in {b \in Pooled : handle[b] # "none"} :
        Count(Queued(a)) + Count(At_(a, Turning)) + Count(WakersOf(a))
            = IF mstate[a] = "open" THEN 1 ELSE 0

(* The strong count is the number of owners: the program, the deques, the  *)
(* threads that run the actor or are about to let go of it, the timer, and *)
(* a private thread's pending resume.  An actor somebody can still touch   *)
(* is never destroyed, and none is leaked.                                 *)
RefsExact ==
    \A a \in Actor :
        refs[a] = Count({h \in {a} : handle[h] = "held"}) + Count(Queued(a))
                  + Count(At_(a, Holding)) + Count({e \in delayed : e[1] = a})
                  + Count({d \in Detached \cap {a} : /\ tstate[d] = "active"
                                                     /\ pc[d] \in {"tail", "store", "release", "await"}})

(* coordinator::stop knows which workers have left although its helper may *)
(* be stolen on the way: those it still takes for alive, without the one   *)
(* that has just reported, are those still running.                        *)
StoppedAsReported == stop.alive \ {stop.last} = {w \in Worker : pc[w] # "left"}

(* Unless the scheduler is stopped, every message that is sent is handled, *)
(* refused by a closed mailbox or discarded with it (the program sends     *)
(* finitely many, so that a message left behind is left behind for good).  *)
EveryMessageSettled ==
    []<>(settled = 1 .. sent \/ stop.at # "running")

(* ~actor_system gets through: coordinator::stop returns, whoever steals   *)
(* the helper and whatever private threads still enqueue, and the private  *)
(* thread of every actor that is destroyed ends (await_detached_threads),  *)
(* although state_ is written without the lock its waiter holds.           *)
ShutdownCompletes ==
    []<>(\/ stop.at = "running"
         \/ stop.at = "stopped" /\ \A d \in Detached : refs[d] = 0 => pc[d] \in {"none", "ended"})

(* caf/abstract_channel.hpp: "only the actor itself is granted write       *)
(* access" to its flags.  A thread about to store flags would then find    *)
(* them as it loaded them.                                                 *)
FlagsWrittenByTheActorOnly ==
    \A t \in Runner : pc[t] = "store" =>
        seen[t].flags \ {"timeout"} = flags[job[t]] \ {"timeout"}
=============================================================================
