--------------------------- MODULE SchedulingProofs ---------------------------
(***************************************************************************)
(* Proofs about the scheduling of actors for any number of workers, pooled *)
(* and detached actors, messages and timeouts.                             *)
(***************************************************************************)
EXTENDS Scheduling, FiniteSetTheorems, SequenceTheorems, TLAPS

Flag == {"timeout", "terminated", "cleaned_up", "initialized"}
Wait == {"none", "zero", "later"}

Busy == {"run", "yield", "tail", "store", "release", "finish"}
PrivatePc == {"none", "top", "resume", "run", "tail", "store", "release", "finish", "await",
              "ending", "ended"}

Position == Busy \cup PrivatePc \cup {"poll", "left", "erase"}

(* Where a thread t may be, and which actor it is then in.                 *)
WellPlaced(t, p, j) ==
    \/ t \in Worker /\ p \in Busy /\ j \in Pooled
    \/ t \in Worker /\ p \in {"poll", "left"} /\ j = None
    \/ t \in Detached /\ p \in PrivatePc /\ j = t
    \/ t = Timer /\ p = "erase" /\ j \in Actor
    \/ t = Timer /\ p \in {"poll", "left"} /\ j = None
    \/ t = Program /\ p = "none" /\ j = None

Threads ==
    /\ pc \in [Thread -> Position] /\ job \in [Thread -> Actor \cup {None}]
    /\ \A t \in Thread : WellPlaced(t, pc[t], job[t])
    /\ wake \in [Thread -> (Actor \X (Runner \cup {None})) \cup {None}]
    /\ burst \in [Runner -> Nat] /\ seen \in [Runner -> [flags : SUBSET Flag, wait : Wait]]
    /\ \A t \in Runner : pc[t] # "store" => seen[t] = NoWrite

(* Deques as functions of their own, so that one can speak of the next.    *)
In(dq, j) == \E w \in Worker : \E i \in 1 .. Len(dq[w]) : dq[w][i] = j

Once(dq, j) ==
    \A v, w \in Worker : \A i \in 1 .. Len(dq[v]), k \in 1 .. Len(dq[w]) :
        dq[v][i] = j /\ dq[w][k] = j => v = w /\ i = k

Deques ==
    /\ deque \in [Worker -> Seq(Pooled \cup {Helper})]
    /\ \A j \in Pooled \cup {Helper} : Once(deque, j)

(* The helper is in one deque exactly while coordinator::stop waits for    *)
(* the worker that will run it.                                            *)
Stops ==
    /\ stop \in [at : {"running", "placing", "waiting", "utility", "sweeping", "stopped"},
                 alive : SUBSET Worker, last : Worker \cup {None}, sweep : Worker]
    /\ In(deque, Helper) <=> stop.at = "waiting" /\ stop.last = None
    /\ stop.last # None => stop.at = "waiting" /\ stop.last \in stop.alive
    /\ stop.at \in {"utility", "sweeping", "stopped"} => stop.alive = {}
    /\ StoppedAsReported

Cells ==
    /\ mail \in [Actor -> Seq(Int)]
    /\ mstate \in [Actor -> {"open", "blocked", "closed"}]
    /\ flags \in [Actor -> SUBSET Flag] /\ refs \in [Actor -> Int]
    /\ handle \in [Actor -> {"none", "held", "dropped"}]
    /\ context \in [Actor -> Runner \cup {None}] /\ tid \in [Actor -> Nat]
    /\ tstate \in [Detached -> {"active", "await", "shutdown"}]
    /\ delayed \subseteq Actor \X Nat /\ IsFiniteSet(delayed)
    /\ \A e \in delayed : e[2] <= tid[e[1]]

-----------------------------------------------------------------------------
(* Who holds an actor: the owners of its references, and those that will   *)
(* run it or are running it.                                               *)

Bit(b) == IF b THEN 1 ELSE 0

Active == {"top", "resume", "run", "yield"}
Between == {"tail", "store", "release", "await"}

Among(ps, jb, a, P) == {t \in Thread : jb[t] = a /\ ps[t] \in P}
Wakers(wk, a) == {t \in Thread : wk[t] # None /\ wk[t][1] = a}
DueOf(dl, a) == {e \in dl : e[1] = a}

Held(a) == Bit(handle[a] = "held")
Placed(a) == Bit(In(deque, a))
Holders(a) == Cardinality(Among(pc, job, a, Holding))
Runners(a) == Cardinality(Among(pc, job, a, Active))
Waking(a) == Cardinality(Wakers(wake, a))
Due(a) == Cardinality(DueOf(delayed, a))
IsPending(a) == a \in Detached /\ tstate[a] = "active" /\ pc[a] \in Between
Pending(a) == Bit(IsPending(a))
IsAwake(a) == handle[a] # "none" /\ mstate[a] = "open"
Awake(a) == Bit(IsAwake(a))

Counted(a) ==
    /\ refs[a] = Held(a) + Placed(a) + Holders(a) + Due(a) + Pending(a)
    /\ Placed(a) + Runners(a) + Waking(a) + Pending(a) = Awake(a)

(* A thread that has woken a reader acts for somebody with a reference.    *)
Backed(a) ==
    \A t \in Thread : wake[t] # None /\ wake[t][1] = a =>
        handle[a] = "held" \/ (job[t] = a /\ pc[t] \in Holding)

Closing(a) ==
    /\ mstate[a] # "open" => mail[a] = << >>
    /\ handle[a] = "none" => mstate[a] = "open" /\ mail[a] = << >> /\ refs[a] = 0
    /\ "terminated" \in flags[a] => mstate[a] = "closed"
    /\ \A t \in Runner : job[t] = a /\ "terminated" \in seen[t].flags => mstate[a] = "closed"
    /\ a \in Detached =>
          /\ pc[a] = "none" <=> handle[a] = "none"
          /\ pc[a] \in {"none", "top"} => tstate[a] = "active"
          /\ pc[a] \in {"resume", "run"} => tstate[a] = "await"
          /\ pc[a] \in {"finish", "ending", "ended"} => mstate[a] = "closed"
          /\ tstate[a] = "shutdown" => mstate[a] = "closed"

Kept(a) == Counted(a) /\ Backed(a) /\ Closing(a)

-----------------------------------------------------------------------------
(* Bounds: what a runner has handled, what waits and what the timer holds  *)
(* is no more than was ever sent or asked for.                             *)

Asking(a) == {u \in Runner : job[u] = a /\ seen[u].wait # "none"}

Budget(a) ==
    /\ \A i \in 1 .. Len(mail[a]) : mail[a][i] <= sent
    /\ Len(mail[a]) + Due(a) <= sent + tid[a]
    /\ tid[a] + Cardinality(Asking(a)) <= MaxTimeouts
    /\ \A t \in Runner : job[t] = a /\ pc[t] = "run" => burst[t] + Len(mail[a]) + Due(a) <= sent + tid[a]
    /\ \A t \in Runner : job[t] = a => burst[t] <= sent + tid[a]

Bounds ==
    /\ sent \in 0 .. MaxMsgs /\ settled \subseteq 1 .. sent
    /\ \A t \in Runner : pc[t] \notin {"run", "tail", "store"} => burst[t] = 0
    /\ \A a \in Actor : Budget(a)

IInv == Threads /\ Deques /\ Stops /\ Cells /\ Bounds /\ \A a \in Actor : Kept(a)

-----------------------------------------------------------------------------
(* Lemmas about deques *)

Job == Pooled \cup {Helper}

(* The deques dr hold what dq hold, with j put in ... *)
Gains(dq, dr, j) ==
    /\ dr \in [Worker -> Seq(Job)]
    /\ \A x \in Job : In(dr, x) <=> In(dq, x) \/ x = j
    /\ \A x \in Job : Once(dq, x) /\ ~In(dq, j) => Once(dr, x)

(* ... or taken out. *)
Loses(dq, dr, j) ==
    /\ dr \in [Worker -> Seq(Job)]
    /\ \A x \in Job : In(dr, x) <=> In(dq, x) /\ x # j
    /\ \A x \in Job : Once(dq, x) => Once(dr, x)

(* The sequence r is s with j at one end, at the front when c = 1.         *)
Longer(s, r, j, c) ==
    /\ Len(r) = Len(s) + 1
    /\ \A i \in 1 .. Len(s) : r[i + c] = s[i]
    /\ r[IF c = 1 THEN 1 ELSE Len(r)] = j

(* The end of r where j is; the rest is s.                                 *)
EndOf(s, r, j, c, e) ==
    /\ e \in 1 .. Len(r) /\ r[e] = j
    /\ \A i \in 1 .. Len(s) : i + c # e
    /\ \A k \in 1 .. Len(r) : k # e => k - c \in 1 .. Len(s) /\ r[k] = s[k - c]

LEMMA LongerFacts ==
    ASSUME NEW s \in Seq(Job), NEW r \in Seq(Job), NEW j, NEW c \in {0, 1}, Longer(s, r, j, c)
    PROVE  /\ \A i \in 1 .. Len(s) : i + c \in 1 .. Len(r) /\ r[i + c] = s[i]
           /\ \E e \in Nat : EndOf(s, r, j, c, e)
<1>1. Len(s) \in Nat /\ Len(r) \in Nat
  BY LenProperties
<1>2. CASE c = 1
  <2>1. 1 \in 1 .. Len(r) /\ r[1] = j /\ \A i \in 1 .. Len(s) : i + c # 1
    BY <1>1, <1>2 DEF Longer
  <2>2. ASSUME NEW k \in 1 .. Len(r), k # 1 PROVE k - c \in 1 .. Len(s) /\ r[k] = s[k - c]
    <3>1. k - 1 \in 1 .. Len(s) /\ (k - 1) + 1 = k
      BY <1>1, <2>2 DEF Longer
    <3>2. r[(k - 1) + 1] = s[k - 1]
      BY <1>2, <3>1 DEF Longer
    <3>3. QED
      BY <1>2, <3>1, <3>2
  <2>3. EndOf(s, r, j, c, 1)
    BY <2>1, <2>2 DEF EndOf
  <2>4. \A i \in 1 .. Len(s) : i + c \in 1 .. Len(r) /\ r[i + c] = s[i]
    BY <1>1, <1>2 DEF Longer
  <2>5. QED
    BY <2>3, <2>4
<1>3. CASE c = 0
  <2>1. Len(r) \in 1 .. Len(r) /\ r[Len(r)] = j /\ \A i \in 1 .. Len(s) : i + c # Len(r)
    BY <1>1, <1>3 DEF Longer
  <2>2. ASSUME NEW k \in 1 .. Len(r), k # Len(r) PROVE k - c \in 1 .. Len(s) /\ r[k] = s[k - c]
    <3>1. k \in 1 .. Len(s) /\ k + 0 = k /\ k - 0 = k
      BY <1>1, <2>2 DEF Longer
    <3>2. r[k + 0] = s[k]
      BY <1>3, <3>1 DEF Longer
    <3>3. QED
      BY <1>3, <3>1, <3>2
  <2>3. EndOf(s, r, j, c, Len(r))
    BY <2>1, <2>2 DEF EndOf
  <2>4. \A i \in 1 .. Len(s) : i + c \in 1 .. Len(r) /\ r[i + c] = s[i]
    BY <1>1, <1>3 DEF Longer
  <2>5. QED
    BY <1>1, <2>3, <2>4
<1>4. QED
  BY <1>2, <1>3

(* Two sets of deques that differ in one deque, which is longer in dr.     *)
Extended(dq, dr, w, j, c) ==
    /\ dq \in [Worker -> Seq(Job)] /\ dr \in [Worker -> Seq(Job)]
    /\ Longer(dq[w], dr[w], j, c)
    /\ \A v \in Worker : v # w => dr[v] = dq[v]

LEMMA OneLonger ==
    ASSUME NEW dq, NEW dr, NEW w \in Worker, NEW j \in Job, NEW c \in {0, 1},
           Extended(dq, dr, w, j, c)
    PROVE  /\ Gains(dq, dr, j)
           /\ (\A x \in Job : Once(dr, x)) => Loses(dr, dq, j)
<1>0. /\ dq \in [Worker -> Seq(Job)] /\ dr \in [Worker -> Seq(Job)]
      /\ Longer(dq[w], dr[w], j, c)
      /\ \A v \in Worker : v # w => dr[v] = dq[v]
  BY DEF Extended
<1> DEFINE s == dq[w]
           r == dr[w]
           Move(v, i) == IF v = w THEN i + c ELSE i
<1>1. s \in Seq(Job) /\ r \in Seq(Job) /\ Longer(s, r, j, c)
  BY <1>0
<1> HIDE DEF s, r
<1>2. \A i \in 1 .. Len(s) : i + c \in 1 .. Len(r) /\ r[i + c] = s[i]
  BY <1>1, LongerFacts
<1>3. PICK e \in Nat : EndOf(s, r, j, c, e)
  BY <1>1, LongerFacts
<1>4. \A v \in Worker : \A i \in 1 .. Len(dq[v]) :
          /\ Move(v, i) \in 1 .. Len(dr[v]) /\ dr[v][Move(v, i)] = dq[v][i]
          /\ v = w => Move(v, i) # e
  BY <1>0, <1>2, <1>3 DEF s, r, EndOf
<1>5. \A v \in Worker : \A k \in 1 .. Len(dr[v]) :
          \/ v = w /\ k = e /\ dr[v][k] = j
          \/ \E i \in 1 .. Len(dq[v]) : k = Move(v, i) /\ dq[v][i] = dr[v][k]
  <2> SUFFICES ASSUME NEW v \in Worker, NEW k \in 1 .. Len(dr[v])
               PROVE  \/ v = w /\ k = e /\ dr[v][k] = j
                      \/ \E i \in 1 .. Len(dq[v]) : k = Move(v, i) /\ dq[v][i] = dr[v][k]
    OBVIOUS
  <2>1. CASE v = w /\ k # e
    <3>1. k - c \in 1 .. Len(s) /\ r[k] = s[k - c] /\ (k - c) + c = k
      BY <1>3, <2>1 DEF r, EndOf
    <3>2. QED
      BY <2>1, <3>1 DEF s, r
  <2>2. CASE v = w /\ k = e
    BY <1>3, <2>2 DEF r, EndOf
  <2>3. CASE v # w
    BY <1>0, <2>3
  <2>4. QED
    BY <2>1, <2>2, <2>3
<1>6. \A v \in Worker : \A i, k \in 1 .. Len(dq[v]) : Move(v, i) = Move(v, k) => i = k
  BY <1>0
<1>7. e \in 1 .. Len(dr[w]) /\ dr[w][e] = j
  BY <1>3 DEF r, EndOf
<1> HIDE DEF Move
<1>8. ASSUME NEW x \in Job PROVE In(dr, x) <=> In(dq, x) \/ x = j
  <2>1. In(dq, x) => In(dr, x)
    BY <1>4 DEF In
  <2>2. In(dr, j)
    BY <1>7 DEF In
  <2>3. ASSUME In(dr, x) PROVE In(dq, x) \/ x = j
    <3>1. PICK v \in Worker : \E k \in 1 .. Len(dr[v]) : dr[v][k] = x
      BY <2>3 DEF In
    <3>2. PICK k \in 1 .. Len(dr[v]) : dr[v][k] = x
      BY <3>1
    <3>3. CASE x # j
      <4>1. PICK i \in 1 .. Len(dq[v]) : dq[v][i] = x
        BY <1>5, <3>2, <3>3
      <4>2. QED
        BY <4>1 DEF In
    <3>4. QED
      BY <3>3
  <2>4. QED
    BY <2>1, <2>2, <2>3
<1>9. ASSUME NEW x \in Job, Once(dq, x), ~In(dq, j) PROVE Once(dr, x)
  <2> SUFFICES ASSUME NEW u \in Worker, NEW v \in Worker,
                      NEW i \in 1 .. Len(dr[u]), NEW k \in 1 .. Len(dr[v]),
                      dr[u][i] = x, dr[v][k] = x
               PROVE  u = v /\ i = k
    BY DEF Once
  <2>1. CASE x = j
    <3>1. \A y \in Worker : \A l \in 1 .. Len(dq[y]) : dq[y][l] # j
      BY <1>9 DEF In
    <3>2. u = w /\ i = e
      <4>1. ~\E l \in 1 .. Len(dq[u]) : i = Move(u, l) /\ dq[u][l] = dr[u][i]
        BY <2>1, <3>1
      <4>2. QED
        BY <1>5, <4>1
    <3>3. v = w /\ k = e
      <4>1. ~\E l \in 1 .. Len(dq[v]) : k = Move(v, l) /\ dq[v][l] = dr[v][k]
        BY <2>1, <3>1
      <4>2. QED
        BY <1>5, <4>1
    <3>4. QED
      BY <3>2, <3>3
  <2>2. CASE x # j
    <3>1. PICK l \in 1 .. Len(dq[u]) : i = Move(u, l) /\ dq[u][l] = x
      BY <1>5, <2>2
    <3>2. PICK m \in 1 .. Len(dq[v]) : k = Move(v, m) /\ dq[v][m] = x
      BY <1>5, <2>2
    <3>3. u = v /\ l = m
      BY <1>9, <3>1, <3>2 DEF Once
    <3>4. QED
      BY <3>1, <3>2, <3>3
  <2>3. QED
    BY <2>1, <2>2
<1>10. ASSUME NEW x \in Job, Once(dr, x) PROVE Once(dq, x)
  <2> SUFFICES ASSUME NEW u \in Worker, NEW v \in Worker,
                      NEW i \in 1 .. Len(dq[u]), NEW k \in 1 .. Len(dq[v]),
                      dq[u][i] = x, dq[v][k] = x
               PROVE  u = v /\ i = k
    BY DEF Once
  <2>1. Move(u, i) \in 1 .. Len(dr[u]) /\ dr[u][Move(u, i)] = x
    BY <1>4
  <2>2. Move(v, k) \in 1 .. Len(dr[v]) /\ dr[v][Move(v, k)] = x
    BY <1>4
  <2>3. u = v /\ Move(u, i) = Move(v, k)
    BY <1>10, <2>1, <2>2 DEF Once
  <2>4. QED
    BY <1>6, <2>3
<1>11. ASSUME Once(dr, j), In(dq, j) PROVE FALSE
  <2>1. PICK v \in Worker : \E i \in 1 .. Len(dq[v]) : dq[v][i] = j
    BY <1>11 DEF In
  <2>2. PICK i \in 1 .. Len(dq[v]) : dq[v][i] = j
    BY <2>1
  <2> DEFINE m == Move(v, i)
  <2>3. m \in 1 .. Len(dr[v]) /\ dr[v][m] = j
    BY <1>4, <2>2
  <2> HIDE DEF m
  <2>4. v = w /\ m = e
    BY <1>7, <1>11, <2>3 DEF Once
  <2>5. QED
    BY <1>4, <2>2, <2>4 DEF m
<1>12. Gains(dq, dr, j)
  BY <1>0, <1>8, <1>9 DEF Gains
<1>13. ASSUME \A x \in Job : Once(dr, x) PROVE Loses(dr, dq, j)
  <2>1. ~In(dq, j)
    BY <1>11, <1>13
  <2>2. \A x \in Job : In(dq, x) <=> In(dr, x) /\ x # j
    BY <1>8, <2>1
  <2>3. \A x \in Job : Once(dr, x) => Once(dq, x)
    BY <1>10
  <2>4. QED
    BY <1>0, <2>2, <2>3 DEF Loses
<1>14. QED
  BY <1>12, <1>13

LEMMA Pushed ==
    ASSUME NEW dq \in [Worker -> Seq(Job)], NEW w \in Worker, NEW j \in Job
    PROVE  /\ Gains(dq, [dq EXCEPT ![w] = Append(@, j)], j)
           /\ Gains(dq, [dq EXCEPT ![w] = <<j>> \o @], j)
<1> DEFINE last == [dq EXCEPT ![w] = Append(@, j)]
           first == [dq EXCEPT ![w] = <<j>> \o @]
<1>0. dq[w] \in Seq(Job) /\ <<j>> \in Seq(Job) /\ Len(<<j>>) = 1 /\ <<j>>[1] = j /\ Len(dq[w]) \in Nat
  BY LenProperties
<1>1. last \in [Worker -> Seq(Job)] /\ first \in [Worker -> Seq(Job)]
  BY <1>0, AppendProperties, ConcatProperties
<1>2. last[w] = Append(dq[w], j) /\ first[w] = <<j>> \o dq[w]
  OBVIOUS
<1>3. \A v \in Worker \ {w} : last[v] = dq[v] /\ first[v] = dq[v]
  OBVIOUS
<1> HIDE DEF last, first
<1>4. Longer(dq[w], last[w], j, 0)
  BY <1>0, <1>2, AppendProperties DEF Longer
<1>5. Longer(dq[w], first[w], j, 1)
  <2>1. Len(first[w]) = Len(dq[w]) + 1
    BY <1>0, <1>2, ConcatProperties
  <2>2. first[w][1] = j
    BY <1>0, <1>2, ConcatProperties
  <2>3. ASSUME NEW i \in 1 .. Len(dq[w]) PROVE first[w][i + 1] = dq[w][i]
    <3>1. i + 1 \in 1 .. 1 + Len(dq[w]) /\ ~(i + 1 <= 1) /\ (i + 1) - 1 = i
      BY <1>0
    <3>2. QED
      BY <1>0, <1>2, <3>1, ConcatProperties
  <2>4. QED
    BY <2>1, <2>2, <2>3 DEF Longer
<1>6. Extended(dq, last, w, j, 0) /\ Extended(dq, first, w, j, 1)
  BY <1>1, <1>3, <1>4, <1>5 DEF Extended
<1>7. Gains(dq, last, j) /\ Gains(dq, first, j)
  BY <1>6, OneLonger
<1>8. QED
  BY <1>7 DEF last, first

LEMMA FrontFacts ==
    ASSUME NEW S, NEW s \in Seq(S), s # << >>
    PROVE  /\ Front(s) \in Seq(S) /\ Len(Front(s)) = Len(s) - 1
           /\ \A i \in 1 .. Len(Front(s)) : Front(s)[i] = s[i]
<1> DEFINE n == Len(s) - 1
<1>1. n \in Nat /\ n + 1 = Len(s) /\ \A i \in 1 .. Len(s) : s[i] \in S
  BY EmptySeq, ElementOfSeq
<1>2. Front(s) = SubSeq(s, 1, n)
  BY DEF Front
<1> HIDE DEF n
<1>3. \A i \in 1 .. n : s[i] \in S /\ 1 + i - 1 = i
  BY <1>1
<1>4. /\ SubSeq(s, 1, n) \in Seq(S)
      /\ Len(SubSeq(s, 1, n)) = IF 1 <= n THEN n - 1 + 1 ELSE 0
      /\ \A i \in 1 .. n - 1 + 1 : SubSeq(s, 1, n)[i] = s[1 + i - 1]
  BY <1>1, <1>3, SubSeqProperties
<1>5. Len(SubSeq(s, 1, n)) = n /\ n - 1 + 1 = n
  BY <1>1, <1>4
<1>6. QED
  BY <1>1, <1>2, <1>3, <1>4, <1>5

LEMMA Taken ==
    ASSUME NEW dq \in [Worker -> Seq(Job)], NEW w \in Worker, dq[w] # << >>,
           \A j \in Job : Once(dq, j)
    PROVE  /\ Head(dq[w]) \in Job /\ In(dq, Head(dq[w]))
           /\ Loses(dq, [dq EXCEPT ![w] = Tail(@)], Head(dq[w]))
           /\ Last(dq[w]) \in Job /\ In(dq, Last(dq[w]))
           /\ Loses(dq, [dq EXCEPT ![w] = Front(@)], Last(dq[w]))
<1> DEFINE tail == [dq EXCEPT ![w] = Tail(@)]
           front == [dq EXCEPT ![w] = Front(@)]
           s == dq[w]
<1>0. s \in Seq(Job) /\ s # << >>
  OBVIOUS
<1>1. Len(s) \in Nat \ {0} /\ \A i \in 1 .. Len(s) : s[i] \in Job
  BY <1>0, EmptySeq, ElementOfSeq
<1>2. /\ Tail(s) \in Seq(Job) /\ Len(Tail(s)) = Len(s) - 1
      /\ \A i \in 1 .. Len(Tail(s)) : Tail(s)[i] = s[i + 1]
  BY <1>0, HeadTailProperties
<1>3. /\ Front(s) \in Seq(Job) /\ Len(Front(s)) = Len(s) - 1
      /\ \A i \in 1 .. Len(Front(s)) : Front(s)[i] = s[i]
  BY <1>0, FrontFacts
<1>4. Head(s) = s[1] /\ Last(s) = s[Len(s)]
  BY <1>0 DEF Last
<1>5. tail[w] = Tail(s) /\ front[w] = Front(s) /\ dq[w] = s
  OBVIOUS
<1>6. tail \in [Worker -> Seq(Job)] /\ front \in [Worker -> Seq(Job)]
  BY <1>2, <1>3
<1>7. \A v \in Worker \ {w} : dq[v] = tail[v] /\ dq[v] = front[v]
  OBVIOUS
<1> HIDE DEF tail, front, s
<1>8. Longer(tail[w], dq[w], s[1], 1) /\ Longer(front[w], dq[w], s[Len(s)], 0)
  <2>1. Longer(Tail(s), s, s[1], 1)
    BY <1>1, <1>2 DEF Longer
  <2>2. \A i \in 1 .. Len(Front(s)) : s[i + 0] = Front(s)[i]
    BY <1>1, <1>3
  <2>3. Longer(Front(s), s, s[Len(s)], 0)
    BY <1>1, <1>3, <2>2 DEF Longer
  <2>4. QED
    BY <1>5, <2>1, <2>3
<1>9. s[1] \in Job /\ s[Len(s)] \in Job
  BY <1>1
<1>10. Extended(tail, dq, w, s[1], 1) /\ Extended(front, dq, w, s[Len(s)], 0)
  BY <1>6, <1>7, <1>8 DEF Extended
<1>11. Loses(dq, tail, s[1]) /\ Loses(dq, front, s[Len(s)])
  BY <1>9, <1>10, OneLonger
<1>12. In(dq, s[1]) /\ In(dq, s[Len(s)])
  BY <1>1, <1>5 DEF In
<1>13. QED
  BY <1>4, <1>9, <1>11, <1>12 DEF tail, front, s

-----------------------------------------------------------------------------
(* Lemmas about counts *)

LEMMA Constants_ ==
    /\ IsFiniteSet(Thread) /\ IsFiniteSet(Runner) /\ IsFiniteSet(Pooled)
    /\ NumWorkers \in Nat \ {0} /\ Throughput \in Nat \ {0} /\ MaxMsgs \in Nat /\ MaxTimeouts \in Nat
    /\ Pooled \cap Detached = {} /\ Worker \cap Detached = {}
    /\ Program # Timer /\ Program \notin Runner /\ Timer \notin Runner
    /\ Helper \notin Actor /\ None \notin Actor /\ None \notin Thread
    /\ None \notin Actor \X (Runner \cup {None})
<1>1. IsFiniteSet(Pooled) /\ IsFiniteSet(Detached)
  BY SchedulingAssumption, FS_Subset DEF Actor
<1>2. IsFiniteSet(Worker)
  <2>1. 1 \in Int /\ NumWorkers \in Int
    BY SchedulingAssumption
  <2>2. QED
    BY <2>1, FS_Interval DEF Worker
<1>3. IsFiniteSet(Runner)
  BY <1>1, <1>2, FS_Union DEF Runner
<1>4. IsFiniteSet({Program, Timer})
  <2>1. IsFiniteSet({Program} \cup {Timer})
    BY FS_Singleton, FS_Union
  <2>2. QED
    BY <2>1
<1>5. IsFiniteSet(Thread)
  BY <1>3, <1>4, FS_Union DEF Thread
<1>6. QED
  BY <1>1, <1>3, <1>5, SchedulingAssumption

(* A set that gains or loses at most x. *)
LEMMA OneDiffers ==
    ASSUME NEW S, IsFiniteSet(S), NEW T, NEW x, S \ {x} = T \ {x}
    PROVE  /\ IsFiniteSet(T) /\ Cardinality(S) \in Nat /\ Cardinality(T) \in Nat
           /\ Cardinality(T) = Cardinality(S) - Bit(x \in S) + Bit(x \in T)
<1>1. IsFiniteSet(S \ {x})
      /\ Cardinality(S \ {x}) = IF x \in S THEN Cardinality(S) - 1 ELSE Cardinality(S)
  BY FS_RemoveElement
<1>2. x \notin T \ {x}
  OBVIOUS
<1>3. IsFiniteSet((T \ {x}) \cup {x}) /\ Cardinality((T \ {x}) \cup {x}) = Cardinality(T \ {x}) + 1
  BY <1>1, <1>2, FS_AddElement
<1>4. Cardinality(S) \in Nat
  BY FS_CardinalityType
<1>5. CASE x \in T
  <2>1. (T \ {x}) \cup {x} = T
    BY <1>5
  <2>2. IsFiniteSet(T) /\ Cardinality(T) = Cardinality(S \ {x}) + 1
    BY <1>3, <2>1
  <2>3. QED
    BY <1>1, <1>4, <1>5, <2>2, FS_CardinalityType DEF Bit
<1>6. CASE x \notin T
  <2>1. T \ {x} = T
    BY <1>6
  <2>2. IsFiniteSet(T) /\ Cardinality(T) = Cardinality(S \ {x})
    BY <1>1, <2>1
  <2>3. QED
    BY <1>1, <1>4, <1>6, <2>2, FS_CardinalityType DEF Bit
<1>7. QED
  BY <1>5, <1>6

(* All threads but t stay where they are. *)
Others(t) == \A u \in Thread : u # t => pc'[u] = pc[u] /\ job'[u] = job[u]

LEMMA ThreadStep ==
    ASSUME NEW t \in Thread, Others(t), NEW a
    PROVE  /\ Holders(a)' = Holders(a) - Bit(job[t] = a /\ pc[t] \in Holding)
                                       + Bit(job'[t] = a /\ pc'[t] \in Holding)
           /\ Runners(a)' = Runners(a) - Bit(job[t] = a /\ pc[t] \in Active)
                                       + Bit(job'[t] = a /\ pc'[t] \in Active)
<1>1. ASSUME NEW P
      PROVE  Cardinality(Among(pc', job', a, P))
                 = Cardinality(Among(pc, job, a, P)) - Bit(job[t] = a /\ pc[t] \in P)
                                                     + Bit(job'[t] = a /\ pc'[t] \in P)
  <2> DEFINE S == Among(pc, job, a, P)
             T == Among(pc', job', a, P)
  <2>1. IsFiniteSet(S)
    BY Constants_, FS_Subset DEF Among
  <2>2. S \ {t} = T \ {t}
    BY DEF Among, Others
  <2>3. t \in S <=> job[t] = a /\ pc[t] \in P
    BY DEF Among
  <2>4. t \in T <=> job'[t] = a /\ pc'[t] \in P
    BY DEF Among
  <2> HIDE DEF S, T
  <2>5. Cardinality(T) = Cardinality(S) - Bit(t \in S) + Bit(t \in T)
    BY <2>1, <2>2, OneDiffers
  <2>6. Bit(t \in S) = Bit(job[t] = a /\ pc[t] \in P) /\ Bit(t \in T) = Bit(job'[t] = a /\ pc'[t] \in P)
    BY <2>3, <2>4 DEF Bit
  <2>7. QED
    BY <2>5, <2>6 DEF S, T
<1>2. QED
  BY <1>1 DEF Holders, Runners

LEMMA ThreadsStay ==
    ASSUME UNCHANGED <<pc, job>>, NEW a
    PROVE  Holders(a)' = Holders(a) /\ Runners(a)' = Runners(a)
BY DEF Holders, Runners

LEMMA WakeStep ==
    ASSUME NEW t \in Thread, \A u \in Thread : u # t => wake'[u] = wake[u], NEW a
    PROVE  Waking(a)' = Waking(a) - Bit(wake[t] # None /\ wake[t][1] = a)
                                  + Bit(wake'[t] # None /\ wake'[t][1] = a)
<1> DEFINE S == Wakers(wake, a)
           T == Wakers(wake', a)
<1>1. IsFiniteSet(S)
  BY Constants_, FS_Subset DEF Wakers
<1>2. S \ {t} = T \ {t}
  BY DEF Wakers
<1>3. t \in S <=> wake[t] # None /\ wake[t][1] = a
  BY DEF Wakers
<1>4. t \in T <=> wake'[t] # None /\ wake'[t][1] = a
  BY DEF Wakers
<1> HIDE DEF S, T
<1>5. Cardinality(T) = Cardinality(S) - Bit(t \in S) + Bit(t \in T)
  BY <1>1, <1>2, OneDiffers
<1>6. /\ Bit(t \in S) = Bit(wake[t] # None /\ wake[t][1] = a)
      /\ Bit(t \in T) = Bit(wake'[t] # None /\ wake'[t][1] = a)
  BY <1>3, <1>4 DEF Bit
<1>7. QED
  BY <1>5, <1>6 DEF S, T, Waking

LEMMA DueStep ==
    ASSUME IsFiniteSet(delayed), NEW e, delayed' \ {e} = delayed \ {e}, NEW a
    PROVE  /\ IsFiniteSet(delayed')
           /\ Due(a)' = Due(a) - Bit(e \in delayed /\ e[1] = a) + Bit(e \in delayed' /\ e[1] = a)
<1> DEFINE S == DueOf(delayed, a)
           T == DueOf(delayed', a)
<1>1. IsFiniteSet(S)
  BY FS_Subset DEF DueOf
<1>2. S \ {e} = T \ {e}
  BY DEF DueOf
<1>3. e \in S <=> e \in delayed /\ e[1] = a
  BY DEF DueOf
<1>4. e \in T <=> e \in delayed' /\ e[1] = a
  BY DEF DueOf
<1> HIDE DEF S, T
<1>5. Cardinality(T) = Cardinality(S) - Bit(e \in S) + Bit(e \in T)
  BY <1>1, <1>2, OneDiffers
<1>6. /\ Bit(e \in S) = Bit(e \in delayed /\ e[1] = a)
      /\ Bit(e \in T) = Bit(e \in delayed' /\ e[1] = a)
  BY <1>3, <1>4 DEF Bit
<1>7. IsFiniteSet(delayed')
  BY OneDiffers
<1>8. QED
  BY <1>5, <1>6, <1>7 DEF S, T, Due

(* Every count is a number, and who runs an actor holds a reference to it. *)
LEMMA Numbers ==
    ASSUME IsFiniteSet(delayed), NEW a
    PROVE  /\ Holders(a) \in Nat /\ Runners(a) \in Nat /\ Waking(a) \in Nat /\ Due(a) \in Nat
           /\ Held(a) \in {0, 1} /\ Placed(a) \in {0, 1} /\ Pending(a) \in {0, 1} /\ Awake(a) \in {0, 1}
           /\ Runners(a) <= Holders(a)
           /\ Holders(a) = 0 => \A t \in Thread : ~(job[t] = a /\ pc[t] \in Holding)
           /\ Runners(a) = 0 => \A t \in Thread : ~(job[t] = a /\ pc[t] \in Active)
           /\ Waking(a) = 0 => \A t \in Thread : wake[t] = None \/ wake[t][1] # a
           /\ (\A t \in Thread : wake[t] = None \/ wake[t][1] # a) => Waking(a) = 0
<1>1. IsFiniteSet(Among(pc, job, a, Holding)) /\ IsFiniteSet(Among(pc, job, a, Active))
      /\ IsFiniteSet(Wakers(wake, a)) /\ IsFiniteSet(DueOf(delayed, a))
  BY Constants_, FS_Subset DEF Among, Wakers, DueOf
<1>2. Among(pc, job, a, Active) \subseteq Among(pc, job, a, Holding)
  BY DEF Among, Active, Holding, Turning
<1>3. Holders(a) \in Nat /\ Runners(a) \in Nat /\ Waking(a) \in Nat /\ Due(a) \in Nat
      /\ Runners(a) <= Holders(a)
  BY <1>1, <1>2, FS_CardinalityType, FS_Subset DEF Holders, Runners, Waking, Due
<1>4. Held(a) \in {0, 1} /\ Placed(a) \in {0, 1} /\ Pending(a) \in {0, 1} /\ Awake(a) \in {0, 1}
  BY DEF Bit, Held, Placed, Pending, Awake
<1>5. /\ Holders(a) = 0 => Among(pc, job, a, Holding) = {}
      /\ Runners(a) = 0 => Among(pc, job, a, Active) = {}
      /\ Waking(a) = 0 <=> Wakers(wake, a) = {}
  BY <1>1, FS_EmptySet DEF Holders, Runners, Waking
<1>6. QED
  BY <1>3, <1>4, <1>5 DEF Among, Wakers

(* An actor in somebody's hands is counted: at least one. *)
LEMMA Counts ==
    ASSUME NEW a \in Actor, Counted(a), IsFiniteSet(delayed)
    PROVE  /\ \A t \in Thread : job[t] = a /\ pc[t] \in Active =>
                 /\ IsAwake(a) /\ ~In(deque, a) /\ ~IsPending(a) /\ Waking(a) = 0 /\ Runners(a) = 1
           /\ \A t \in Thread : wake[t] # None /\ wake[t][1] = a =>
                 /\ IsAwake(a) /\ ~In(deque, a) /\ ~IsPending(a) /\ Waking(a) = 1 /\ Runners(a) = 0
           /\ In(deque, a) => IsAwake(a) /\ ~IsPending(a) /\ Waking(a) = 0 /\ Runners(a) = 0
           /\ IsPending(a) => IsAwake(a) /\ ~In(deque, a) /\ Waking(a) = 0 /\ Runners(a) = 0
           /\ ~IsAwake(a) => ~In(deque, a) /\ ~IsPending(a) /\ Waking(a) = 0 /\ Runners(a) = 0
           /\ \A t \in Thread : job[t] = a /\ pc[t] \in Holding => Holders(a) > 0
           /\ refs[a] \in Nat
<1>1. Placed(a) + Runners(a) + Waking(a) + Pending(a) = Awake(a)
  BY DEF Counted
<1>2. refs[a] = Held(a) + Placed(a) + Holders(a) + Due(a) + Pending(a)
  BY DEF Counted
<1>3. /\ IsAwake(a) <=> Awake(a) = 1
      /\ In(deque, a) <=> Placed(a) = 1
      /\ IsPending(a) <=> Pending(a) = 1
  BY DEF Awake, Placed, Pending, Bit
<1>4. /\ Holders(a) \in Nat /\ Runners(a) \in Nat /\ Waking(a) \in Nat /\ Due(a) \in Nat
      /\ Held(a) \in {0, 1} /\ Placed(a) \in {0, 1} /\ Pending(a) \in {0, 1} /\ Awake(a) \in {0, 1}
  BY Numbers
<1>5. /\ \A t \in Thread : job[t] = a /\ pc[t] \in Holding => Holders(a) # 0
      /\ \A t \in Thread : job[t] = a /\ pc[t] \in Active => Runners(a) # 0
      /\ \A t \in Thread : wake[t] # None /\ wake[t][1] = a => Waking(a) # 0
  BY Numbers
<1>6. refs[a] \in Nat /\ \A t \in Thread : job[t] = a /\ pc[t] \in Holding => Holders(a) > 0
  BY <1>2, <1>4, <1>5
<1>7. /\ Runners(a) # 0 => Awake(a) = 1 /\ Placed(a) = 0 /\ Pending(a) = 0 /\ Waking(a) = 0 /\ Runners(a) = 1
      /\ Waking(a) # 0 => Awake(a) = 1 /\ Placed(a) = 0 /\ Pending(a) = 0 /\ Waking(a) = 1 /\ Runners(a) = 0
      /\ Placed(a) = 1 => Awake(a) = 1 /\ Pending(a) = 0 /\ Waking(a) = 0 /\ Runners(a) = 0
      /\ Pending(a) = 1 => Awake(a) = 1 /\ Placed(a) = 0 /\ Waking(a) = 0 /\ Runners(a) = 0
      /\ Awake(a) = 0 => Placed(a) = 0 /\ Pending(a) = 0 /\ Waking(a) = 0 /\ Runners(a) = 0
  BY <1>1, <1>4
<1> HIDE DEF IsAwake, IsPending
<1>8. QED
  BY <1>3, <1>4, <1>5, <1>6, <1>7

-----------------------------------------------------------------------------
(* Threads and the actors they are in *)

LEMMA DeliverWakes ==
    ASSUME NEW m, NEW s, NEW t \in Thread, NEW a, NEW x, NEW eu, Deliver(m, s, t, a, x, eu)
    PROVE  wake' = wake \/ wake' = [wake EXCEPT ![t] = <<a, eu>>]
BY DEF Deliver

LEMMA RequestWakes ==
    ASSUME NEW t \in Thread, NEW a, NEW wait, RequestTimeout(t, a, wait)
    PROVE  wake' = wake \/ wake' = [wake EXCEPT ![t] = <<a, context[a]>>]
<1> DEFINE x == -(tid[a] + 1)
<1>1. CASE wait = "zero" /\ Deliver(mail, settled, t, a, -(tid[a] + 1), context[a])
  <2>1. Deliver(mail, settled, t, a, x, context[a])
    BY <1>1
  <2> HIDE DEF x
  <2>2. QED
    BY <2>1, DeliverWakes
<1>2. QED
  BY <1>1 DEF RequestTimeout

LEMMA WhoRuns ==
    ASSUME Threads, NEW t \in Runner
    PROVE  /\ WellPlaced(t, pc[t], job[t]) /\ t \in Thread /\ t # Program /\ t # Timer
           /\ t \in Worker <=> t \notin Detached
           /\ t \in Detached => job[t] = t /\ t \in Actor
           /\ t \in Worker /\ pc[t] \in Busy => job[t] \in Pooled
           /\ pc[t] = "yield" => t \in Worker
           /\ pc[t] \in Busy => job[t] \in Actor
<1>1. WellPlaced(t, pc[t], job[t])
  BY DEF Threads, Thread
<1>2. QED
  BY <1>1, Constants_ DEF WellPlaced, Runner, Thread, Actor, Busy, PrivatePc

WakeTyped == wake' \in [Thread -> (Actor \X (Runner \cup {None})) \cup {None}]

(* Thread t moves to p and to the actor j, all others stay. *)
Moving(t, p, j) ==
    /\ pc' = [pc EXCEPT ![t] = p] /\ job' = [job EXCEPT ![t] = j] /\ WellPlaced(t, p, j)
    /\ j \in Actor \cup {None}
    /\ WakeTyped /\ burst' \in [Runner -> Nat]
    /\ seen' \in [Runner -> [flags : SUBSET Flag, wait : Wait]]
    /\ p # "store" /\ t \in Runner => seen'[t] = NoWrite
    /\ \A r \in Runner : r # t => seen'[r] = seen[r]

(* It stays in its actor, and has nothing to write to the flags. *)
Going(t, p) ==
    /\ pc' = [pc EXCEPT ![t] = p] /\ job' = job /\ seen' = seen /\ WellPlaced(t, p, job[t])
    /\ pc[t] # "store" /\ p # "store"
    /\ WakeTyped /\ burst' \in [Runner -> Nat]

LEMMA OneMoves ==
    ASSUME Threads, NEW t \in Thread, NEW p, NEW j, Moving(t, p, j)
    PROVE  Threads'
<1>0. p \in Position
  BY DEF Moving, WellPlaced, Position, PrivatePc
<1>1. pc' \in [Thread -> Position] /\ job' \in [Thread -> Actor \cup {None}]
  BY <1>0 DEF Threads, Moving
<1>2. ASSUME NEW u \in Thread PROVE WellPlaced(u, pc'[u], job'[u])
  BY DEF Threads, Moving
<1>3. ASSUME NEW r \in Runner, pc'[r] # "store" PROVE seen'[r] = NoWrite
  BY <1>3 DEF Threads, Thread, Moving
<1>4. QED
  BY <1>1, <1>2, <1>3 DEF Threads, Moving, WakeTyped

LEMMA OneGoes ==
    ASSUME Threads, NEW t \in Thread, NEW p, Going(t, p)
    PROVE  Threads'
<1>1. job' = [job EXCEPT ![t] = job[t]] /\ job[t] \in Actor \cup {None}
  BY DEF Threads, Going
<1>2. t \in Runner => seen'[t] = NoWrite
  BY DEF Threads, Going
<1>3. Moving(t, p, job[t])
  BY <1>1, <1>2 DEF Threads, Going, Moving
<1>4. QED
  BY <1>1, <1>3, OneMoves

(* A worker takes a job from a deque, its own or another's.                *)
Takes(w, j) ==
    /\ pc[w] = "poll" /\ In(deque, j) /\ Loses(deque, deque', j) /\ Take(w, j)
    /\ UNCHANGED <<refs, handle, tid, delayed, burst, seen, wake, sent>>

LEMMA TakeSteps ==
    ASSUME Deques, NEW w \in Worker, TakeOwn(w) \/ \E v \in Worker : Steal(w, v)
    PROVE  \E j \in Job : Takes(w, j)
<1>0. deque \in [Worker -> Seq(Job)] /\ \A j \in Job : Once(deque, j)
  BY DEF Deques, Job
<1>1. CASE TakeOwn(w)
  <2> DEFINE j == Head(deque[w])
  <2>1. j \in Job /\ In(deque, j) /\ Loses(deque, [deque EXCEPT ![w] = Tail(@)], j)
    BY <1>0, <1>1, Taken DEF TakeOwn
  <2>2. Takes(w, j)
    BY <1>1, <2>1 DEF TakeOwn, Takes
  <2>3. QED
    BY <2>1, <2>2
<1>2. ASSUME NEW v \in Worker, Steal(w, v) PROVE \E j \in Job : Takes(w, j)
  <2> DEFINE j == Last(deque[v])
  <2>1. j \in Job /\ In(deque, j) /\ Loses(deque, [deque EXCEPT ![v] = Front(@)], j)
    BY <1>0, <1>2, Taken DEF Steal
  <2>2. Takes(w, j)
    BY <1>2, <2>1 DEF Steal, Takes
  <2>3. QED
    BY <2>1, <2>2
<1>3. QED
  BY <1>1, <1>2

LEMMA ActivateMoves ==
    ASSUME NEW t, NEW a, Activate(t, a)
    PROVE  pc' = [pc EXCEPT ![t] = "run"] \/ pc' = [pc EXCEPT ![t] = "finish"]
BY DEF Activate, Goto

LEMMA ThreadsKept == IInv /\ [Next]_vars => Threads'
<1>. SUFFICES ASSUME IInv, [Next]_vars PROVE Threads'
  OBVIOUS
<1>0. Threads /\ Cells /\ Deques
  BY DEF IInv
<1>a. ASSUME UNCHANGED <<pc, job, seen>>, burst' \in [Runner -> Nat], WakeTyped PROVE Threads'
  BY <1>0, <1>a DEF Threads, WakeTyped
<1>b. burst \in [Runner -> Nat] /\ seen \in [Runner -> [flags : SUBSET Flag, wait : Wait]]
      /\ wake \in [Thread -> (Actor \X (Runner \cup {None})) \cup {None}]
      /\ pc \in [Thread -> Position] /\ job \in [Thread -> Actor \cup {None}]
  BY <1>0 DEF Threads
<1>c. wake' = wake => WakeTyped
  BY <1>b DEF WakeTyped
<1>1. ASSUME NEW a \in Actor, Launch(a) PROVE Threads'
  <2>1. CASE a \in Pooled
    BY <1>1, <1>a, <1>b, <1>c, <2>1 DEF Launch
  <2>2. CASE a \notin Pooled
    <3>1. a \in Detached /\ a \in Thread
      BY <2>2 DEF Actor, Thread, Runner
    <3>2. WellPlaced(a, "top", job[a])
      BY <1>0, <3>1, WhoRuns DEF WellPlaced, PrivatePc, Runner
    <3>3. pc[a] # "store"
      BY <1>0, <1>1, <3>1 DEF IInv, Kept, Closing, Launch
    <3>4. Going(a, "top")
      BY <1>1, <1>b, <1>c, <2>2, <3>1, <3>2, <3>3 DEF Going, Launch
    <3>5. QED
      BY <1>0, <1>1, <2>2, <3>1, <3>2, <3>3, <3>4, OneGoes DEF Thread
  <2>3. QED
    BY <2>1, <2>2
<1>2. ASSUME NEW a \in Actor, LaunchLazily(a) PROVE Threads'
  BY <1>2, <1>a, <1>b, <1>c DEF LaunchLazily, local
<1>3. ASSUME NEW a \in Actor, Send(a) PROVE Threads'
  <2>1. wake' = wake \/ wake' = [wake EXCEPT ![Program] = <<a, None>>]
    BY <1>3, DeliverWakes DEF Send, Thread
  <2>2. WakeTyped
    BY <1>b, <2>1 DEF WakeTyped
  <2>3. QED
    BY <1>3, <1>a, <1>b, <1>c, <2>2 DEF Send, local
<1>4. ASSUME NEW a \in Actor, DropHandle(a) PROVE Threads'
  BY <1>4, <1>a, <1>b, <1>c DEF DropHandle, local
<1>5. ASSUME NEW t \in Thread, Reschedule(t) PROVE Threads'
  <2>1. wake' = [wake EXCEPT ![t] = None] /\ UNCHANGED local
    BY <1>5 DEF Reschedule
  <2>2. QED
    BY <1>a, <1>b, <2>1 DEF local, WakeTyped
<1>6. ASSUME NEW t \in Runner, DropExpired(t) PROVE Threads'
  BY <1>6, <1>a, <1>b, <1>c DEF DropExpired, local
<1>7. ASSUME NEW t \in Runner, Handle(t) PROVE Threads'
  BY <1>7, <1>a, <1>b, <1>c DEF Handle, Handled
<1>8. ASSUME NEW t \in Runner, NEW b \in Actor, HandleAndSend(t, b) PROVE Threads'
  <2> DEFINE eu == IF t \in Worker THEN t ELSE None
  <2>1. eu \in Runner \cup {None}
    BY DEF Runner
  <2>2. wake' = wake \/ wake' = [wake EXCEPT ![t] = <<b, eu>>]
    <3>1. \E m, s, x : Deliver(m, s, t, b, x, eu)
      BY <1>8 DEF HandleAndSend
    <3> HIDE DEF eu
    <3>2. QED
      BY <3>1, DeliverWakes DEF Thread
  <2> HIDE DEF eu
  <2>3. WakeTyped
    BY <1>b, <2>1, <2>2 DEF WakeTyped
  <2>4. UNCHANGED <<pc, job, seen>> /\ burst' = [burst EXCEPT ![t] = @ + 1]
    BY <1>8 DEF HandleAndSend, Handled
  <2>5. QED
    BY <1>a, <1>b, <1>c, <2>3, <2>4
<1>9. ASSUME NEW t \in Runner, HandleAndQuit(t) PROVE Threads'
  <2>1. pc[t] = "run" /\ pc' = [pc EXCEPT ![t] = "finish"] /\ burst' = [burst EXCEPT ![t] = 0]
        /\ UNCHANGED <<job, seen, wake>>
    BY <1>9 DEF HandleAndQuit, Turn, At, Leave, Goto
  <2>2. WellPlaced(t, "finish", job[t])
    BY <1>0, <2>1, WhoRuns DEF WellPlaced, Busy, PrivatePc
  <2>3. Going(t, "finish")
    BY <1>b, <1>c, <2>1, <2>2 DEF Going
  <2>4. QED
    BY <1>0, <2>1, <2>2, <2>3, OneGoes DEF Thread
<1>10. ASSUME NEW t \in Runner, Block(t) PROVE Threads'
  <2>1. PICK p \in {"tail", "release"} :
           /\ pc[t] = "run" /\ pc' = [pc EXCEPT ![t] = p]
           /\ burst' = [burst EXCEPT ![t] = 0] \/ burst' = burst
           /\ UNCHANGED <<job, seen, wake>>
    BY <1>10 DEF Block, At, Leave, Goto
  <2>2. WellPlaced(t, p, job[t])
    BY <1>0, <2>1, WhoRuns DEF WellPlaced, Busy, PrivatePc
  <2>3. burst' \in [Runner -> Nat]
    BY <1>b, <2>1
  <2>4. Going(t, p)
    BY <1>b, <1>c, <2>1, <2>2, <2>3 DEF Going
  <2>5. QED
    BY <1>0, <2>1, <2>2, <2>3, <2>4, OneGoes DEF Thread
<1>11. ASSUME NEW t \in Runner, Limit(t) PROVE Threads'
  <2>1. /\ t \in Worker /\ pc[t] = "run" /\ pc' = [pc EXCEPT ![t] = "yield"]
        /\ burst' = [burst EXCEPT ![t] = 0] /\ UNCHANGED <<job, seen>>
    BY <1>11 DEF Limit, At, Leave, Goto, Exhausted
  <2>2. wake' = wake \/ wake' = [wake EXCEPT ![t] = <<job[t], context[job[t]]>>]
    BY <1>11, RequestWakes DEF Limit, Thread
  <2>3. job[t] \in Actor /\ context[job[t]] \in Runner \cup {None}
    BY <1>0, <2>1, WhoRuns DEF Cells, Busy
  <2>4. WakeTyped
    BY <1>b, <2>2, <2>3 DEF WakeTyped
  <2>5. WellPlaced(t, "yield", job[t])
    BY <1>0, <2>1, WhoRuns DEF WellPlaced, Busy
  <2>6. Going(t, "yield")
    BY <1>b, <1>c, <2>1, <2>4, <2>5 DEF Going
  <2>7. QED
    BY <1>0, <2>1, <2>4, <2>5, <2>6, OneGoes DEF Thread
<1>12. ASSUME NEW t \in Runner, Yield(t) PROVE Threads'
  <2>1. /\ pc[t] = "yield"
        /\ \/ pc' = [pc EXCEPT ![t] = "release"] /\ job' = job
           \/ pc' = [pc EXCEPT ![t] = "poll"] /\ job' = [job EXCEPT ![t] = None]
        /\ UNCHANGED <<burst, seen, wake>>
    BY <1>12 DEF Yield, At, Goto
  <2>2. t \in Worker /\ job[t] \in Pooled
    BY <1>0, <2>1, WhoRuns DEF Busy
  <2>3. WellPlaced(t, "release", job[t]) /\ WellPlaced(t, "poll", None)
    BY <2>2 DEF WellPlaced, Busy
  <2>4. CASE pc' = [pc EXCEPT ![t] = "release"] /\ job' = job
    <3>1. Going(t, "release")
      BY <1>b, <1>c, <2>1, <2>3, <2>4 DEF Going
    <3>2. QED
      BY <1>0, <3>1, OneGoes DEF Thread
  <2>5. CASE pc' = [pc EXCEPT ![t] = "poll"] /\ job' = [job EXCEPT ![t] = None]
    <3>1. seen'[t] = NoWrite
      BY <1>0, <2>1 DEF Threads
    <3>2. Moving(t, "poll", None)
      BY <1>0, <1>b, <1>c, <2>1, <2>3, <2>5, <3>1 DEF Moving
    <3>3. QED
      BY <1>0, <2>1, <2>3, <2>5, <3>1, <3>2, OneMoves DEF Thread
  <2>6. QED
    BY <2>1, <2>4, <2>5
<1>13. ASSUME NEW t \in Runner, TailLoad(t) PROVE Threads'
  <2>1. PICK wait \in Wait :
           /\ pc[t] = "tail" /\ pc' = [pc EXCEPT ![t] = "store"]
           /\ seen' = [seen EXCEPT ![t] = [flags |-> NewFlags(job[t], wait), wait |-> wait]]
           /\ UNCHANGED <<job, burst, wake>>
    BY <1>13 DEF TailLoad, At, Goto, Wait
  <2>2. job[t] \in Actor
    BY <1>0, <2>1, WhoRuns DEF Busy
  <2>3. NewFlags(job[t], wait) \in SUBSET Flag
    BY <1>0, <2>2 DEF Cells, NewFlags, Flag
  <2>4. seen' \in [Runner -> [flags : SUBSET Flag, wait : Wait]]
    BY <1>b, <2>1, <2>3
  <2>5. WellPlaced(t, "store", job[t])
    BY <1>0, <2>1, WhoRuns DEF WellPlaced, Busy, PrivatePc
  <2>6. job' = [job EXCEPT ![t] = job[t]] /\ \A r \in Runner : r # t => seen'[r] = seen[r]
    BY <1>b, <2>1
  <2>7. Moving(t, "store", job[t])
    BY <1>0, <1>b, <1>c, <2>1, <2>2, <2>4, <2>5, <2>6 DEF Moving
  <2>8. QED
    BY <1>0, <2>1, <2>2, <2>4, <2>5, <2>6, <2>7, OneMoves DEF Thread
<1>14. ASSUME NEW t \in Runner, TailStore(t) PROVE Threads'
  <2>1. /\ pc[t] = "store" /\ pc' = [pc EXCEPT ![t] = "release"]
        /\ burst' = [burst EXCEPT ![t] = 0] /\ seen' = [seen EXCEPT ![t] = NoWrite] /\ job' = job
    BY <1>14 DEF TailStore, At, Leave, Goto
  <2>2. wake' = wake \/ wake' = [wake EXCEPT ![t] = <<job[t], context[job[t]]>>]
    BY <1>14, RequestWakes DEF TailStore, Thread
  <2>3. job[t] \in Actor /\ context[job[t]] \in Runner \cup {None}
    BY <1>0, <2>1, WhoRuns DEF Cells, Busy
  <2>4. WakeTyped
    BY <1>b, <2>2, <2>3 DEF WakeTyped
  <2>5. NoWrite \in [flags : SUBSET Flag, wait : Wait]
    BY DEF NoWrite, Wait
  <2>6. WellPlaced(t, "release", job[t])
    BY <1>0, <2>1, WhoRuns DEF WellPlaced, Busy, PrivatePc
  <2>7. job' = [job EXCEPT ![t] = job[t]] /\ seen' \in [Runner -> [flags : SUBSET Flag, wait : Wait]]
        /\ seen'[t] = NoWrite /\ \A r \in Runner : r # t => seen'[r] = seen[r]
    BY <1>b, <2>1, <2>5
  <2>8. burst' \in [Runner -> Nat]
    BY <1>b, <2>1
  <2>9. Moving(t, "release", job[t])
    BY <1>0, <1>b, <1>c, <2>1, <2>3, <2>4, <2>6, <2>7, <2>8 DEF Moving
  <2>10. QED
    BY <1>0, <2>1, <2>3, <2>4, <2>6, <2>7, <2>8, <2>9, OneMoves DEF Thread
<1>15. ASSUME NEW t \in Runner, Release(t) PROVE Threads'
  <2>1. /\ pc[t] \in {"release", "finish"}
        /\ IF t \in Worker THEN pc' = [pc EXCEPT ![t] = "poll"] /\ job' = [job EXCEPT ![t] = None]
           ELSE /\ pc' = [pc EXCEPT ![t] = "await"] \/ pc' = [pc EXCEPT ![t] = "ending"]
                /\ job' = job
        /\ UNCHANGED <<burst, seen, wake>>
    BY <1>15 DEF Release, Goto
  <2>2. CASE t \in Worker
    <3>1. seen'[t] = NoWrite
      BY <1>0, <2>1 DEF Threads
    <3>2. WellPlaced(t, "poll", None)
      BY <2>2 DEF WellPlaced
    <3>3. Moving(t, "poll", None)
      BY <1>0, <1>b, <1>c, <2>1, <2>2, <3>1, <3>2 DEF Moving
    <3>4. QED
      BY <1>0, <2>1, <2>2, <3>1, <3>2, <3>3, OneMoves DEF Thread
  <2>3. CASE t \notin Worker
    <3>1. WellPlaced(t, "await", job[t]) /\ WellPlaced(t, "ending", job[t])
      BY <1>0, <2>3, WhoRuns DEF WellPlaced, PrivatePc
    <3>2. Going(t, "await") \/ Going(t, "ending")
      BY <1>b, <1>c, <2>1, <2>3, <3>1 DEF Going
    <3>3. QED
      BY <1>0, <2>1, <2>3, <3>1, <3>2, OneGoes DEF Thread
  <2>4. QED
    BY <2>2, <2>3
<1>16. ASSUME NEW w \in Worker, NEW j \in Job, Takes(w, j) PROVE Threads'
  <2>1. /\ pc[w] = "poll" /\ UNCHANGED <<burst, seen, wake>>
        /\ \/ job' = job /\ pc' = [pc EXCEPT ![w] = "left"]
           \/ /\ j \in Pooled /\ job' = [job EXCEPT ![w] = j]
              /\ pc' = [pc EXCEPT ![w] = "run"] \/ pc' = [pc EXCEPT ![w] = "finish"]
    BY <1>16, ActivateMoves DEF Takes, Take, Goto, Job
  <2>2. w \in Runner /\ w \in Thread /\ WellPlaced(w, pc[w], job[w])
    BY <1>0 DEF Runner, Thread, Threads
  <2>3. WellPlaced(w, "left", job[w])
    BY <2>1, <2>2, Constants_ DEF WellPlaced, Busy, Runner, PrivatePc
  <2>4. CASE job' = job /\ pc' = [pc EXCEPT ![w] = "left"]
    <3>1. Going(w, "left")
      BY <1>b, <1>c, <2>1, <2>2, <2>3, <2>4 DEF Going
    <3>2. QED
      BY <1>0, <3>1, <2>2, OneGoes DEF Thread
  <2>5. ASSUME NEW p \in {"run", "finish"}, j \in Pooled, job' = [job EXCEPT ![w] = j],
               pc' = [pc EXCEPT ![w] = p]
        PROVE  Threads'
    <3>1. WellPlaced(w, p, j) /\ j \in Actor
      BY <2>5 DEF WellPlaced, Busy, Actor
    <3>2. seen'[w] = NoWrite
      BY <1>0, <2>1, <2>2 DEF Threads
    <3>3. Moving(w, p, j)
      BY <1>0, <1>b, <1>c, <2>1, <2>2, <2>5, <3>1, <3>2 DEF Moving
    <3>4. QED
      BY <1>0, <2>1, <2>2, <2>5, <3>1, <3>2, <3>3, OneMoves DEF Thread
  <2>6. QED
    BY <2>1, <2>4, <2>5
<1>17. ASSUME NEW d \in Detached,
              LoopTop(d) \/ Resume(d) \/ AwaitResume(d) \/ AwaitSelfDestroyed(d)
       PROVE  Threads'
  <2>1. PICK p \in PrivatePc \ {"store", "yield"} :
           pc' = [pc EXCEPT ![d] = p] /\ pc[d] # "store" /\ UNCHANGED <<job, burst, seen, wake>>
    BY <1>17, ActivateMoves
       DEF LoopTop, Resume, AwaitResume, AwaitSelfDestroyed, At, Goto, PrivatePc
  <2>2. d \in Thread /\ WellPlaced(d, p, job[d]) /\ p # "store"
    BY <1>0, <2>1, WhoRuns DEF WellPlaced, Runner, Thread, PrivatePc
  <2>3. Going(d, p)
    BY <1>b, <1>c, <2>1, <2>2 DEF Going
  <2>4. QED
    BY <1>0, <2>1, <2>2, <2>3, OneGoes DEF Thread
<1>18. ASSUME NEW e \in delayed, Expire(e) PROVE Threads'
  <2>1. /\ pc' = [pc EXCEPT ![Timer] = "erase"] /\ job' = [job EXCEPT ![Timer] = e[1]]
        /\ UNCHANGED <<burst, seen>>
    BY <1>18 DEF Expire, Goto
  <2>2. wake' = wake \/ wake' = [wake EXCEPT ![Timer] = <<e[1], None>>]
    <3> DEFINE x == -e[2]
    <3>1. Deliver(mail, settled, Timer, e[1], x, None)
      BY <1>18 DEF Expire
    <3> HIDE DEF x
    <3>2. QED
      BY <3>1, DeliverWakes DEF Thread
  <2>3. e[1] \in Actor
    BY <1>0 DEF Cells
  <2>4. WakeTyped
    BY <1>b, <2>2, <2>3 DEF WakeTyped
  <2>5. WellPlaced(Timer, "erase", e[1]) /\ Timer \in Thread
    BY <2>3 DEF WellPlaced, Thread
  <2>6. Moving(Timer, "erase", e[1])
    BY <1>0, <1>b, <1>c, <2>1, <2>3, <2>4, <2>5, Constants_ DEF Moving
  <2>7. QED
    BY <1>0, <2>1, <2>3, <2>4, <2>5, <2>6, OneMoves DEF Thread
<1>19. ASSUME Erase PROVE Threads'
  <2>1. /\ pc' = [pc EXCEPT ![Timer] = "poll"] /\ job' = [job EXCEPT ![Timer] = None]
        /\ UNCHANGED <<burst, seen, wake>>
    BY <1>19 DEF Erase, Goto
  <2>2. WellPlaced(Timer, "poll", None) /\ Timer \in Thread
    BY DEF WellPlaced, Thread
  <2>3. Moving(Timer, "poll", None)
    BY <1>0, <1>b, <1>c, <2>1, <2>2, Constants_ DEF Moving
  <2>4. QED
    BY <1>0, <2>1, <2>2, <2>3, OneMoves DEF Thread
<1>20. ASSUME StopTimer PROVE Threads'
  <2>1. pc[Timer] = "poll" /\ pc' = [pc EXCEPT ![Timer] = "left"] /\ UNCHANGED <<job, burst, seen, wake>>
    BY <1>20 DEF StopTimer, Goto, At
  <2>2. WellPlaced(Timer, "left", job[Timer]) /\ Timer \in Thread
    <3>1. WellPlaced(Timer, "poll", job[Timer]) /\ Timer \in Thread
      BY <1>0, <2>1 DEF Thread, Threads
    <3>2. QED
      BY <3>1, Constants_ DEF WellPlaced, Runner, PrivatePc
  <2>3. Going(Timer, "left")
    BY <1>b, <1>c, <2>1, <2>2 DEF Going
  <2>4. QED
    BY <1>0, <2>1, <2>2, <2>3, OneGoes DEF Thread
<1>21. ASSUME BeginStop \/ WorkerReported \/ Sweep \/ \E w \in Worker : PlaceHelper(w) PROVE Threads'
  <2>1. UNCHANGED <<pc, job, burst, seen, wake>>
    BY <1>21 DEF BeginStop, WorkerReported, Sweep, PlaceHelper, local
  <2>2. QED
    BY <1>a, <1>b, <1>c, <2>1
<1>22. CASE UNCHANGED vars
  BY <1>22, <1>a, <1>b, <1>c DEF vars, local
<1>23. ASSUME NEW t \in Runner, Run(t) PROVE Threads'
  BY <1>5, <1>6, <1>7, <1>8, <1>9, <1>10, <1>11, <1>12, <1>13, <1>14, <1>15, <1>23 DEF Run, Thread
<1>24. ASSUME NEW w \in Worker, WorkerStep(w) PROVE Threads'
  BY <1>0, <1>16, <1>23, <1>24, TakeSteps DEF WorkerStep, Runner
<1>25. ASSUME NEW d \in Detached, PrivateStep(d) PROVE Threads'
  BY <1>17, <1>23, <1>25 DEF PrivateStep, Runner
<1>26. QED
  BY <1>1, <1>2, <1>3, <1>4, <1>5, <1>18, <1>19, <1>20, <1>21, <1>22, <1>24, <1>25
     DEF Next, ProgramStep, StopStep, TimerStep, Thread

-----------------------------------------------------------------------------
(* Deques and coordinator::stop *)

(* A pooled actor that is in no deque is put in one, or one is taken out.  *)
DequeStep ==
    \/ deque' = deque
    \/ \E j \in Pooled : ~In(deque, j) /\ Gains(deque, deque', j)
    \/ \E j \in Pooled : In(deque, j) /\ Loses(deque, deque', j)

SameLeft == \A w \in Worker : pc'[w] = "left" <=> pc[w] = "left"

LEMMA OnceEach ==
    ASSUME Deques, DequeStep
    PROVE  Deques' /\ (In(deque, Helper)' <=> In(deque, Helper))
<1>0. deque \in [Worker -> Seq(Job)] /\ \A x \in Job : Once(deque, x)
  BY DEF Deques, Job
<1>1. ASSUME NEW j \in Pooled, ~In(deque, j), Gains(deque, deque', j)
      PROVE  Deques' /\ (In(deque, Helper)' <=> In(deque, Helper))
  <2>1. deque' \in [Worker -> Seq(Job)] /\ \A x \in Job : Once(deque', x)
    BY <1>0, <1>1 DEF Gains
  <2>2. Helper \in Job /\ Helper # j
    BY Constants_ DEF Job, Actor
  <2>3. In(deque', Helper) <=> In(deque, Helper)
    BY <1>1, <2>2 DEF Gains
  <2>4. QED
    BY <2>1, <2>3 DEF Deques, Job
<1>2. ASSUME NEW j \in Pooled, Loses(deque, deque', j)
      PROVE  Deques' /\ (In(deque, Helper)' <=> In(deque, Helper))
  <2>1. deque' \in [Worker -> Seq(Job)] /\ \A x \in Job : Once(deque', x)
    BY <1>0, <1>2 DEF Loses
  <2>2. Helper \in Job /\ Helper # j
    BY Constants_ DEF Job, Actor
  <2>3. In(deque', Helper) <=> In(deque, Helper)
    BY <1>2, <2>2 DEF Loses
  <2>4. QED
    BY <2>1, <2>3 DEF Deques, Job
<1>3. CASE deque' = deque
  BY <1>3 DEF Deques
<1>4. QED
  BY <1>1, <1>2, <1>3 DEF DequeStep

(* Only the program's own steps and the helper concern coordinator::stop.  *)
LEMMA StopUntouched ==
    ASSUME Deques, Stops, DequeStep, SameLeft, stop' = stop
    PROVE  Deques' /\ Stops'
<1>1. Deques' /\ (In(deque, Helper)' <=> In(deque, Helper))
  BY OnceEach
<1>2. {w \in Worker : pc[w] # "left"}' = {w \in Worker : pc[w] # "left"}
  BY DEF SameLeft
<1>3. StoppedAsReported'
  BY <1>2 DEF Stops, StoppedAsReported
<1>4. QED
  BY <1>1, <1>3 DEF Stops

(* What the threads of the program do to their positions. *)
LEMMA Stays ==
    ASSUME NEW t, NEW p, p # "left", pc[t] # "left",
           pc \in [Thread -> Position], pc' = [pc EXCEPT ![t] = p]
    PROVE  SameLeft
BY DEF SameLeft, Thread, Runner

(* A job that is put into a deque was in none. *)
LEMMA PutsOne ==
    ASSUME Deques, NEW j \in Pooled, ~In(deque, j), NEW w \in Worker,
           \/ deque' = [deque EXCEPT ![w] = Append(@, j)]
           \/ deque' = [deque EXCEPT ![w] = <<j>> \o @]
    PROVE  DequeStep /\ Gains(deque, deque', j)
<1>1. deque \in [Worker -> Seq(Job)] /\ j \in Job
  BY DEF Deques, Job
<1>2. Gains(deque, deque', j)
  BY <1>1, Pushed
<1>3. QED
  BY <1>2 DEF DequeStep

LEMMA DequesKept == IInv /\ [Next]_vars => Deques' /\ Stops'
<1>. SUFFICES ASSUME IInv, [Next]_vars PROVE Deques' /\ Stops'
  OBVIOUS
<1>0. Threads /\ Cells /\ Deques /\ Stops /\ IsFiniteSet(delayed) /\ pc \in [Thread -> Position]
  BY DEF IInv, Threads, Cells
<1>a. deque' = deque => DequeStep
  BY DEF DequeStep
<1>b. pc' = pc => SameLeft
  BY DEF SameLeft
<1>c. ASSUME NEW a \in Actor PROVE Counted(a)
  BY DEF IInv, Kept
<1>1. ASSUME NEW a \in Actor, Launch(a) PROVE Deques' /\ Stops'
  <2>1. CASE a \in Pooled
    <3>1. ~In(deque, a)
      BY <1>0, <1>1, <1>c, Counts DEF Launch, IsAwake
    <3>2. DequeStep
      BY <1>0, <1>1, <2>1, <3>1, PutsOne DEF Launch, CentralEnqueue
    <3>3. QED
      BY <1>0, <1>1, <1>b, <2>1, <3>2, StopUntouched DEF Launch
  <2>2. CASE a \notin Pooled
    <3>1. pc[a] # "left"
      BY <1>1, <2>2 DEF IInv, Kept, Closing, Launch, Actor
    <3>2. SameLeft
      BY <1>0, <1>1, <2>2, <3>1, Stays DEF Launch
    <3>3. QED
      BY <1>0, <1>1, <1>a, <2>2, <3>2, StopUntouched DEF Launch
  <2>3. QED
    BY <2>1, <2>2
<1>2. ASSUME NEW a \in Actor, LaunchLazily(a) \/ Send(a) \/ DropHandle(a) PROVE Deques' /\ Stops'
  <2>1. UNCHANGED <<pc, deque, stop>>
    BY <1>2 DEF LaunchLazily, Send, DropHandle, local
  <2>2. QED
    BY <1>0, <1>a, <1>b, <2>1, StopUntouched
<1>3. ASSUME NEW t \in Thread, Reschedule(t) PROVE Deques' /\ Stops'
  <2>1. PICK a \in Actor : wake[t] # None /\ wake[t][1] = a
    BY <1>0, <1>3 DEF Reschedule, Idle, Threads
  <2>2. ~In(deque, a)
    BY <1>0, <1>c, <2>1, Counts
  <2>3. \/ deque' = deque
        \/ /\ a \in Pooled
           /\ \E w \in Worker : \/ deque' = [deque EXCEPT ![w] = Append(@, a)]
                                \/ deque' = [deque EXCEPT ![w] = <<a>> \o @]
    BY <1>3, <2>1 DEF Reschedule, CentralEnqueue
  <2>4. DequeStep
    BY <1>0, <1>a, <2>2, <2>3, PutsOne
  <2>5. stop' = stop /\ pc' = pc
    BY <1>3 DEF Reschedule, local
  <2>6. QED
    BY <1>0, <1>b, <2>4, <2>5, StopUntouched
<1>4. ASSUME NEW t \in Runner,
             \/ DropExpired(t) \/ Handle(t) \/ \E b \in Actor : HandleAndSend(t, b)
             \/ HandleAndQuit(t) \/ Block(t) \/ Limit(t) \/ TailLoad(t) \/ TailStore(t) \/ Release(t)
      PROVE  Deques' /\ Stops'
  <2>1. UNCHANGED <<deque, stop>>
    BY <1>4 DEF DropExpired, Handle, HandleAndSend, HandleAndQuit, Block, Limit, TailLoad, TailStore,
                Release
  <2>2. \/ pc' = pc
        \/ /\ pc[t] \in {"run", "tail", "store", "release", "finish"}
           /\ \E p \in {"tail", "store", "release", "finish", "yield", "poll", "await", "ending"} :
                 pc' = [pc EXCEPT ![t] = p]
    BY <1>4 DEF DropExpired, Handle, HandleAndSend, HandleAndQuit, Block, Limit, TailLoad, TailStore,
                Release, local, At, Goto, Leave, Turn
  <2>3. SameLeft
    BY <1>0, <1>b, <2>2, Stays
  <2>4. QED
    BY <1>0, <1>a, <2>1, <2>3, StopUntouched
<1>5. ASSUME NEW t \in Runner, Yield(t) PROVE Deques' /\ Stops'
  <2>1. pc[t] = "yield" /\ stop' = stop
    BY <1>5 DEF Yield, At
  <2>2. t \in Worker /\ t \in Thread /\ job[t] \in Pooled
    BY <1>0, <2>1, WhoRuns DEF Busy
  <2>3. ~In(deque, job[t])
    BY <1>0, <1>c, <2>1, <2>2, Counts DEF Active, Actor
  <2>4. DequeStep
    BY <1>0, <1>5, <1>a, <2>2, <2>3, PutsOne DEF Yield
  <2>5. SameLeft
    BY <1>0, <1>5, <2>1, Stays DEF Yield, Goto
  <2>6. QED
    BY <1>0, <2>1, <2>4, <2>5, StopUntouched
<1>6. ASSUME NEW w \in Worker, NEW j \in Job, Takes(w, j) PROVE Deques' /\ Stops'
  <2>1. pc[w] = "poll" /\ In(deque, j) /\ Loses(deque, deque', j)
    BY <1>6 DEF Takes
  <2>2. CASE j = Helper
    <3>1. pc' = [pc EXCEPT ![w] = "left"] /\ stop' = [stop EXCEPT !.last = w]
      BY <1>6, <2>2 DEF Takes, Take, Goto
    <3>2. deque \in [Worker -> Seq(Job)] /\ \A x \in Job : Once(deque, x)
      BY <1>0 DEF Deques, Job
    <3>3. Deques'
      BY <2>1, <3>2 DEF Loses, Deques, Job
    <3>4. ~In(deque', Helper)
      BY <2>1, <2>2 DEF Loses
    <3>5. stop.at = "waiting" /\ stop.last = None
      BY <1>0, <2>1, <2>2 DEF Stops
    <3>6. {v \in Worker : pc[v] # "left"}' = {v \in Worker : pc[v] # "left"} \ {w}
      BY <1>0, <3>1 DEF Thread, Runner
    <3>7. stop.alive = {v \in Worker : pc[v] # "left"}
      <4>1. None \notin Worker
        BY Constants_ DEF Thread, Runner
      <4>2. stop.alive \subseteq Worker
        BY <1>0 DEF Stops
      <4>3. stop.alive \ {None} = stop.alive
        BY <4>1, <4>2
      <4>4. QED
        BY <1>0, <3>5, <4>3 DEF Stops, StoppedAsReported
    <3>8. stop.last' = w /\ stop.at' = stop.at /\ stop.alive' = stop.alive /\ stop.sweep' = stop.sweep
      BY <1>0, <3>1 DEF Stops
    <3>9. StoppedAsReported'
      BY <3>6, <3>7, <3>8 DEF StoppedAsReported
    <3>10. w \in stop.alive /\ w # None
      BY <2>1, <3>7, Constants_ DEF Thread, Runner
    <3>11. stop' \in [at : {"running", "placing", "waiting", "utility", "sweeping", "stopped"},
                      alive : SUBSET Worker, last : Worker \cup {None}, sweep : Worker]
      BY <1>0, <3>1 DEF Stops
    <3>12. QED
      BY <3>3, <3>4, <3>5, <3>8, <3>9, <3>10, <3>11 DEF Stops
  <2>3. CASE j # Helper
    <3>1. j \in Pooled /\ stop' = stop
      BY <1>6, <2>3 DEF Takes, Take, Job
    <3>2. DequeStep
      BY <2>1, <3>1 DEF DequeStep
    <3>3. SameLeft
      BY <1>0, <1>6, <2>1, <2>3, ActivateMoves, Stays DEF Takes, Take
    <3>4. QED
      BY <1>0, <3>1, <3>2, <3>3, StopUntouched
  <2>4. QED
    BY <2>2, <2>3
<1>7. ASSUME NEW d \in Detached,
             LoopTop(d) \/ Resume(d) \/ AwaitResume(d) \/ AwaitSelfDestroyed(d)
      PROVE  Deques' /\ Stops'
  <2>1. UNCHANGED <<deque, stop>>
    BY <1>7 DEF LoopTop, Resume, AwaitResume, AwaitSelfDestroyed
  <2>2. /\ pc[d] \in {"top", "resume", "await", "ending"}
        /\ \E p \in {"top", "resume", "run", "finish", "ending", "ended"} : pc' = [pc EXCEPT ![d] = p]
    BY <1>7, ActivateMoves DEF LoopTop, Resume, AwaitResume, AwaitSelfDestroyed, At, Goto
  <2>3. SameLeft
    BY <1>0, <2>2, Stays
  <2>4. QED
    BY <1>0, <1>a, <2>1, <2>3, StopUntouched
<1>8. ASSUME Erase \/ \E e \in delayed : Expire(e) PROVE Deques' /\ Stops'
  <2>1. UNCHANGED <<deque, stop>>
    BY <1>8 DEF Erase, Expire
  <2>2. pc[Timer] \in {"poll", "erase"} /\ \E p \in {"poll", "erase"} : pc' = [pc EXCEPT ![Timer] = p]
    BY <1>8 DEF Erase, Expire, At, Goto
  <2>3. SameLeft
    BY <1>0, <2>2, Stays
  <2>4. QED
    BY <1>0, <1>a, <2>1, <2>3, StopUntouched
<1>9. CASE UNCHANGED vars
  BY <1>0, <1>9, <1>a, <1>b, StopUntouched DEF vars, local
<1>10. ASSUME BeginStop PROVE Deques' /\ Stops'
  <2>1. stop.at = "running" /\ stop' = [stop EXCEPT !.at = "placing"] /\ UNCHANGED <<pc, deque>>
    BY <1>10 DEF BeginStop, Stopping, local
  <2>2. QED
    BY <1>0, <2>1 DEF Stops, StoppedAsReported, Deques
<1>11. ASSUME NEW w \in Worker, PlaceHelper(w) PROVE Deques' /\ Stops'
  <2>1. /\ stop.at = "placing" /\ stop' = [stop EXCEPT !.at = "waiting"] /\ pc' = pc
        /\ deque' = [deque EXCEPT ![w] = Append(@, Helper)]
    BY <1>11 DEF PlaceHelper, Stopping, local
  <2>2. deque \in [Worker -> Seq(Job)] /\ Helper \in Job /\ \A x \in Job : Once(deque, x)
    BY <1>0 DEF Deques, Job
  <2>3. Gains(deque, deque', Helper)
    BY <2>1, <2>2, Pushed
  <2>4. ~In(deque, Helper) /\ stop.last = None
    BY <1>0, <2>1 DEF Stops
  <2>5. Deques'
    BY <2>2, <2>3, <2>4 DEF Gains, Deques, Job
  <2>6. In(deque', Helper)
    BY <2>2, <2>3 DEF Gains
  <2>7. QED
    BY <1>0, <2>1, <2>4, <2>5, <2>6 DEF Stops, StoppedAsReported
<1>12. ASSUME WorkerReported PROVE Deques' /\ Stops'
  <2> DEFINE rest == stop.alive \ {stop.last}
  <2>1. /\ stop.at = "waiting" /\ stop.last # None /\ UNCHANGED <<pc, deque>>
        /\ stop' = [stop EXCEPT !.alive = rest, !.last = None,
                                !.at = IF rest = {} THEN "utility" ELSE "placing"]
    BY <1>12 DEF WorkerReported, Stopping, LastWorker, local
  <2>2. rest = {w \in Worker : pc[w] # "left"} /\ rest \subseteq Worker
    BY <1>0 DEF Stops, StoppedAsReported
  <2>3. ~In(deque, Helper)
    BY <1>0, <2>1 DEF Stops
  <2>4. rest \ {None} = rest
    BY <2>2, Constants_ DEF Thread, Runner
  <2> HIDE DEF rest
  <2>5. stop.alive' = rest /\ stop.last' = None /\ stop.sweep' = stop.sweep
        /\ stop.at' = IF rest = {} THEN "utility" ELSE "placing"
    BY <1>0, <2>1 DEF Stops
  <2>6. stop' \in [at : {"running", "placing", "waiting", "utility", "sweeping", "stopped"},
                   alive : SUBSET Worker, last : Worker \cup {None}, sweep : Worker]
    BY <1>0, <2>1, <2>2 DEF Stops
  <2>7. StoppedAsReported'
    BY <2>1, <2>2, <2>4, <2>5 DEF StoppedAsReported
  <2>8. QED
    BY <1>0, <2>1, <2>3, <2>5, <2>6, <2>7 DEF Stops, Deques
<1>13. ASSUME StopTimer PROVE Deques' /\ Stops'
  <2>1. /\ stop.at = "utility" /\ stop' = [stop EXCEPT !.at = "sweeping"] /\ deque' = deque
        /\ pc' = [pc EXCEPT ![Timer] = "left"]
    BY <1>13 DEF StopTimer, Stopping, Goto
  <2>2. \A w \in Worker : pc'[w] = pc[w]
    BY <1>0, <2>1, Constants_ DEF Thread, Runner
  <2>3. {v \in Worker : pc[v] # "left"}' = {v \in Worker : pc[v] # "left"}
    BY <2>2
  <2>4. StoppedAsReported'
    BY <1>0, <2>1, <2>3 DEF Stops, StoppedAsReported
  <2>5. QED
    BY <1>0, <2>1, <2>4 DEF Stops, Deques
<1>14. ASSUME Sweep PROVE Deques' /\ Stops'
  <2>0. stop.at = "sweeping" /\ pc' = pc /\ stop.sweep \in Worker /\ ~In(deque, Helper)
    BY <1>0, <1>14 DEF Sweep, Stopping, Stops, local
  <2>1. CASE deque[stop.sweep] = << >>
    <3>1. /\ deque' = deque
          /\ stop' = IF stop.sweep = NumWorkers THEN [stop EXCEPT !.at = "stopped"]
                     ELSE [stop EXCEPT !.sweep = @ + 1]
      BY <1>14, <2>1 DEF Sweep
    <3>2. stop.sweep # NumWorkers => stop.sweep + 1 \in Worker
      BY <2>0, Constants_ DEF Worker
    <3>3. QED
      BY <1>0, <2>0, <3>1, <3>2 DEF Stops, StoppedAsReported, Deques
  <2>2. CASE deque[stop.sweep] # << >>
    <3>1. deque' = [deque EXCEPT ![stop.sweep] = Tail(@)] /\ stop' = stop
      BY <1>14, <2>2 DEF Sweep
    <3>2. deque \in [Worker -> Seq(Job)] /\ \A x \in Job : Once(deque, x)
      BY <1>0 DEF Deques, Job
    <3> DEFINE j == Head(deque[stop.sweep])
    <3>3. j \in Job /\ In(deque, j) /\ Loses(deque, deque', j)
      BY <2>0, <2>2, <3>1, <3>2, Taken
    <3>4. j \in Pooled
      BY <2>0, <3>3 DEF Job
    <3>5. DequeStep
      BY <3>3, <3>4 DEF DequeStep
    <3>6. QED
      BY <1>0, <1>b, <2>0, <3>1, <3>5, StopUntouched
  <2>3. QED
    BY <2>1, <2>2
<1>15. ASSUME NEW t \in Runner, Run(t) PROVE Deques' /\ Stops'
  BY <1>3, <1>4, <1>5, <1>15 DEF Run, Thread
<1>16. ASSUME NEW w \in Worker, WorkerStep(w) PROVE Deques' /\ Stops'
  BY <1>0, <1>6, <1>15, <1>16, TakeSteps DEF WorkerStep, Runner
<1>17. ASSUME NEW d \in Detached, PrivateStep(d) PROVE Deques' /\ Stops'
  BY <1>7, <1>15, <1>17 DEF PrivateStep, Runner
<1>18. QED
  BY <1>1, <1>2, <1>3, <1>8, <1>9, <1>10, <1>11, <1>12, <1>13, <1>14, <1>16, <1>17
     DEF Next, ProgramStep, StopStep, TimerStep, Thread

-----------------------------------------------------------------------------
(* The types of the cells *)

Boxes ==
    /\ mail \in [Actor -> Seq(Int)]
    /\ mstate \in [Actor -> {"open", "blocked", "closed"}]

Labels ==
    /\ flags \in [Actor -> SUBSET Flag]
    /\ tstate \in [Detached -> {"active", "await", "shutdown"}]

Timeouts ==
    /\ tid \in [Actor -> Nat]
    /\ delayed \subseteq Actor \X Nat /\ IsFiniteSet(delayed)
    /\ \A e \in delayed : e[2] <= tid[e[1]]

LEMMA DeliverTypes ==
    ASSUME Boxes, NEW m \in [Actor -> Seq(Int)], NEW s, NEW t, NEW a \in Actor, NEW x \in Int, NEW eu,
           Deliver(m, s, t, a, x, eu)
    PROVE  Boxes'
<1>1. Append(m[a], x) \in Seq(Int)
  BY AppendProperties
<1>2. [m EXCEPT ![a] = Append(@, x)] \in [Actor -> Seq(Int)]
  BY <1>1
<1>3. QED
  BY <1>2 DEF Deliver, Boxes

LEMMA CleanUpTypes ==
    ASSUME Boxes, Labels, NEW X, CleanUp(X)
    PROVE  Boxes' /\ Labels'
<1>1. << >> \in Seq(Int)
  BY EmptySeq
<1>2. Boxes'
  BY <1>1 DEF CleanUp, Boxes
<1>3. flags' \in [Actor -> SUBSET Flag]
  BY DEF CleanUp, Labels, Flag
<1>4. tstate' \in [Detached -> {"active", "await", "shutdown"}]
  BY DEF CleanUp, Labels, AskedToLeave
<1>5. QED
  BY <1>2, <1>3, <1>4 DEF Labels

LEMMA DropTypes ==
    ASSUME Boxes, Labels, refs \in [Actor -> Int], NEW drops \in [Actor -> Int], NEW D,
           DropRefs(drops, D)
    PROVE  Boxes' /\ Labels' /\ refs' \in [Actor -> Int]
BY CleanUpTypes DEF DropRefs

LEMMA RequestTypes ==
    ASSUME Boxes, Timeouts, refs \in [Actor -> Int], NEW t, NEW a \in Actor, NEW wait \in Wait,
           RequestTimeout(t, a, wait)
    PROVE  Boxes' /\ Timeouts' /\ refs' \in [Actor -> Int]
<1>0. tid[a] \in Nat
  BY DEF Timeouts
<1>1. CASE wait = "none"
  BY <1>1 DEF RequestTimeout, box, Boxes, Timeouts
<1>2. CASE wait = "zero"
  <2>1. /\ tid' = [tid EXCEPT ![a] = @ + 1] /\ UNCHANGED <<refs, delayed>>
        /\ Deliver(mail, settled, t, a, -(tid[a] + 1), context[a])
    BY <1>2 DEF RequestTimeout
  <2>2. Boxes'
    <3> DEFINE x == -(tid[a] + 1)
    <3>1. x \in Int /\ Deliver(mail, settled, t, a, x, context[a]) /\ mail \in [Actor -> Seq(Int)]
      BY <1>0, <2>1 DEF Boxes
    <3> HIDE DEF x
    <3>2. QED
      BY <3>1, DeliverTypes
  <2>3. Timeouts'
    BY <2>1 DEF Timeouts
  <2>4. QED
    BY <2>1, <2>2, <2>3
<1>3. CASE wait = "later"
  <2>1. /\ tid' = [tid EXCEPT ![a] = @ + 1] /\ UNCHANGED box
        /\ \/ UNCHANGED <<refs, delayed>>
           \/ refs' = [refs EXCEPT ![a] = @ + 1] /\ delayed' = delayed \cup {<<a, tid[a] + 1>>}
    BY <1>3 DEF RequestTimeout, OneMore
  <2>2. Boxes' /\ refs' \in [Actor -> Int]
    BY <2>1 DEF Boxes, box
  <2>3. IsFiniteSet(delayed \cup {<<a, tid[a] + 1>>})
    BY FS_AddElement DEF Timeouts
  <2>4. Timeouts'
    BY <1>0, <2>1, <2>3 DEF Timeouts
  <2>5. QED
    BY <2>2, <2>4
<1>4. QED
  BY <1>1, <1>2, <1>3 DEF Wait

LEMMA ActivateTypes ==
    ASSUME Boxes, Labels, context \in [Actor -> Runner \cup {None}],
           NEW t \in Runner, NEW a \in Actor, Activate(t, a)
    PROVE  Boxes' /\ Labels' /\ context' \in [Actor -> Runner \cup {None}]
<1>1. CASE flags' = [flags EXCEPT ![a] = @ \cup {"initialized"}] /\ UNCHANGED <<box, tstate>>
  BY <1>1 DEF Boxes, Labels, Flag, box, Activate
<1>2. CASE CleanUp({a})
  BY <1>2, CleanUpTypes DEF Activate
<1>3. QED
  BY <1>1, <1>2 DEF Activate

LEMMA CellsKept == IInv /\ [Next]_vars => Cells'
<1>. SUFFICES ASSUME IInv, [Next]_vars PROVE Cells'
  OBVIOUS
<1>0. /\ Threads /\ Boxes /\ Labels /\ Timeouts /\ refs \in [Actor -> Int]
      /\ handle \in [Actor -> {"none", "held", "dropped"}] /\ context \in [Actor -> Runner \cup {None}]
      /\ sent \in Nat
  BY DEF IInv, Cells, Boxes, Labels, Timeouts, Bounds
<1>a. ASSUME Boxes', Labels', Timeouts', refs' \in [Actor -> Int],
             handle' \in [Actor -> {"none", "held", "dropped"}], context' \in [Actor -> Runner \cup {None}]
      PROVE  Cells'
  BY <1>a DEF Cells, Boxes, Labels, Timeouts
<1>b. /\ UNCHANGED <<mail, mstate>> => Boxes'
      /\ UNCHANGED <<flags, tstate>> => Labels'
      /\ UNCHANGED <<tid, delayed>> => Timeouts'
  BY <1>0 DEF Boxes, Labels, Timeouts
<1>c. \A a : One(a) \in [Actor -> Int]
  BY DEF One
<1>d. ASSUME NEW t \in Runner PROVE pc[t] \in Busy => job[t] \in Actor
  BY <1>0, WhoRuns
<1>1. ASSUME NEW a \in Actor, Launch(a) \/ LaunchLazily(a) PROVE Cells'
  <2>1. Boxes'
    BY <1>0, <1>1 DEF Launch, LaunchLazily, Boxes, box
  <2>2. refs' \in [Actor -> Int] /\ handle' \in [Actor -> {"none", "held", "dropped"}]
    BY <1>0, <1>1 DEF Launch, LaunchLazily, OneMore
  <2>3. Labels' /\ Timeouts' /\ context' = context
    BY <1>1, <1>b DEF Launch, LaunchLazily
  <2>4. QED
    BY <1>0, <1>a, <2>1, <2>2, <2>3
<1>2. ASSUME NEW a \in Actor, Send(a) PROVE Cells'
  <2>1. mail \in [Actor -> Seq(Int)] /\ sent + 1 \in Int /\ Deliver(mail, settled, Program, a, sent + 1, None)
    BY <1>0, <1>2 DEF Send, Boxes
  <2>2. Boxes'
    BY <1>0, <2>1, DeliverTypes
  <2>3. QED
    BY <1>0, <1>2, <1>a, <1>b, <2>2 DEF Send, cell
<1>3. ASSUME NEW a \in Actor, DropHandle(a) PROVE Cells'
  <2>1. Boxes' /\ Labels' /\ refs' \in [Actor -> Int]
    BY <1>0, <1>3, <1>c, DropTypes DEF DropHandle
  <2>2. QED
    BY <1>0, <1>3, <1>a, <1>b, <2>1 DEF DropHandle
<1>4. ASSUME NEW t \in Thread, Reschedule(t) PROVE Cells'
  <2> DEFINE a == wake[t][1]
  <2>1. /\ refs' = [refs EXCEPT ![a] = @ + 1] /\ UNCHANGED <<box, flags, handle, context, tid, delayed>>
        /\ tstate' = tstate \/ tstate' = [tstate EXCEPT ![a] = "active"]
    BY <1>4 DEF Reschedule, OneMore, Resumed
  <2>a. a \in Actor
    BY <1>0, <1>4 DEF Reschedule, Idle, Threads
  <2> HIDE DEF a
  <2>2. refs' \in [Actor -> Int]
    BY <1>0, <2>1, <2>a
  <2>3. Labels'
    BY <1>0, <2>1 DEF Labels
  <2>4. QED
    BY <1>0, <1>a, <1>b, <2>1, <2>2, <2>3 DEF box
<1>5. ASSUME NEW t \in Runner, DropExpired(t) \/ Handle(t) PROVE Cells'
  <2>1. job[t] \in Actor /\ mail[job[t]] # << >>
    BY <1>5, <1>d DEF DropExpired, Handle, Turn, At, Busy
  <2>2. mail' = [mail EXCEPT ![job[t]] = Tail(@)] /\ mstate' = mstate
    BY <1>5 DEF DropExpired, Handle, Popped
  <2>3. Tail(mail[job[t]]) \in Seq(Int)
    BY <1>0, <2>1, HeadTailProperties DEF Boxes
  <2>4. Boxes'
    BY <1>0, <2>2, <2>3 DEF Boxes
  <2>5. Labels'
    BY <1>0, <1>5 DEF DropExpired, Handle, FlagsAfter, Labels, cell
  <2>6. QED
    BY <1>0, <1>5, <1>a, <1>b, <2>4, <2>5 DEF DropExpired, Handle, cell
<1>6. ASSUME NEW t \in Runner, NEW b \in Actor, HandleAndSend(t, b) PROVE Cells'
  <2>1. job[t] \in Actor /\ mail[job[t]] # << >>
    BY <1>6, <1>d DEF HandleAndSend, Turn, At, Busy
  <2>2. Tail(mail[job[t]]) \in Seq(Int)
    BY <1>0, <2>1, HeadTailProperties DEF Boxes
  <2> DEFINE m == Popped(job[t])
             s == Settling(Head(mail[job[t]]))
             eu == IF t \in Worker THEN t ELSE None
  <2>3. m \in [Actor -> Seq(Int)]
    BY <1>0, <2>2 DEF Popped, Boxes
  <2>4. Deliver(m, s, t, b, sent + 1, eu) /\ sent + 1 \in Int
    BY <1>0, <1>6 DEF HandleAndSend
  <2> HIDE DEF m, s, eu
  <2>5. Boxes'
    BY <1>0, <2>3, <2>4, DeliverTypes
  <2>6. Labels'
    BY <1>0, <1>6 DEF HandleAndSend, FlagsAfter, Labels
  <2>7. QED
    BY <1>0, <1>6, <1>a, <1>b, <2>5, <2>6 DEF HandleAndSend
<1>7. ASSUME NEW t \in Runner, HandleAndQuit(t) PROVE Cells'
  <2>1. Boxes' /\ Labels'
    BY <1>0, <1>7, CleanUpTypes DEF HandleAndQuit
  <2>2. QED
    BY <1>0, <1>7, <1>a, <1>b, <2>1 DEF HandleAndQuit
<1>8. ASSUME NEW t \in Runner, Block(t) PROVE Cells'
  <2>1. Boxes'
    BY <1>0, <1>8 DEF Block, Boxes
  <2>2. QED
    BY <1>0, <1>8, <1>a, <1>b, <2>1 DEF Block, cell
<1>9. ASSUME NEW t \in Runner, Limit(t) PROVE Cells'
  <2>1. PICK wait \in Wait : /\ flags' = [flags EXCEPT ![job[t]] = NewFlags(job[t], wait)]
                             /\ RequestTimeout(t, job[t], wait)
    BY <1>9 DEF Limit, Wait
  <2>2. job[t] \in Actor
    BY <1>9, <1>d DEF Limit, At, Busy
  <2>3. Boxes' /\ Timeouts' /\ refs' \in [Actor -> Int]
    BY <1>0, <2>1, <2>2, RequestTypes
  <2>4. Labels'
    BY <1>0, <1>9, <2>1, <2>2 DEF Limit, NewFlags, Labels, Flag
  <2>5. QED
    BY <1>0, <1>9, <1>a, <2>3, <2>4 DEF Limit
<1>10. ASSUME NEW t \in Runner, Yield(t) PROVE Cells'
  <2>1. Boxes' /\ context' \in [Actor -> Runner \cup {None}]
    BY <1>0, <1>10 DEF Yield, Boxes, Left
  <2>2. QED
    BY <1>0, <1>10, <1>a, <1>b, <2>1 DEF Yield
<1>11. ASSUME NEW t \in Runner, TailLoad(t) PROVE Cells'
  BY <1>0, <1>11, <1>a, <1>b DEF TailLoad, box, cell
<1>12. ASSUME NEW t \in Runner, TailStore(t) PROVE Cells'
  <2>1. job[t] \in Actor
    BY <1>12, <1>d DEF TailStore, At, Busy
  <2>2. seen[t].wait \in Wait /\ seen[t].flags \in SUBSET Flag
    BY <1>0 DEF Threads
  <2>3. Boxes' /\ Timeouts' /\ refs' \in [Actor -> Int]
    BY <1>0, <1>12, <2>1, <2>2, RequestTypes DEF TailStore
  <2>4. Labels'
    BY <1>0, <1>12, <2>2 DEF TailStore, Labels
  <2>5. QED
    BY <1>0, <1>12, <1>a, <2>3, <2>4 DEF TailStore
<1>13. ASSUME NEW t \in Runner, Release(t) PROVE Cells'
  <2>1. Boxes' /\ Labels' /\ refs' \in [Actor -> Int]
    BY <1>0, <1>13, <1>c, DropTypes DEF Release
  <2>2. context' \in [Actor -> Runner \cup {None}]
    BY <1>0, <1>13 DEF Release, Left
  <2>3. QED
    BY <1>0, <1>13, <1>a, <1>b, <2>1, <2>2 DEF Release
<1>14. ASSUME NEW w \in Worker, NEW j \in Job, Takes(w, j) PROVE Cells'
  <2>1. Boxes' /\ Labels' /\ context' \in [Actor -> Runner \cup {None}]
    <3>1. CASE j = Helper
      BY <1>0, <1>14, <1>b, <3>1 DEF Takes, Take, box
    <3>2. CASE j # Helper
      BY <1>0, <1>14, <3>2, ActivateTypes DEF Takes, Take, Job, Actor, Runner
    <3>3. QED
      BY <3>1, <3>2
  <2>2. QED
    BY <1>0, <1>14, <1>a, <1>b, <2>1 DEF Takes
<1>15. ASSUME NEW d \in Detached, LoopTop(d) \/ AwaitResume(d) \/ AwaitSelfDestroyed(d) PROVE Cells'
  <2>1. Labels'
    BY <1>0, <1>15 DEF LoopTop, AwaitResume, AwaitSelfDestroyed, cell, Labels
  <2>2. QED
    BY <1>0, <1>15, <1>a, <1>b, <2>1 DEF LoopTop, AwaitResume, AwaitSelfDestroyed, cell, box
<1>16. ASSUME NEW d \in Detached, Resume(d) PROVE Cells'
  <2>1. Boxes' /\ Labels' /\ context' \in [Actor -> Runner \cup {None}]
    BY <1>0, <1>16, ActivateTypes DEF Resume, Actor, Runner
  <2>2. QED
    BY <1>0, <1>16, <1>a, <1>b, <2>1 DEF Resume
<1>17. ASSUME NEW e \in delayed, Expire(e) PROVE Cells'
  <2> DEFINE x == -e[2]
  <2>1. e[1] \in Actor /\ e[2] \in Nat /\ mail \in [Actor -> Seq(Int)]
    BY <1>0 DEF Timeouts, Boxes
  <2>2. x \in Int /\ Deliver(mail, settled, Timer, e[1], x, None)
    BY <1>17, <2>1 DEF Expire
  <2> HIDE DEF x
  <2>3. Boxes'
    BY <1>0, <2>1, <2>2, DeliverTypes
  <2>4. delayed' = delayed \ {e} /\ tid' = tid
    BY <1>17 DEF Expire, cell
  <2>5. Timeouts'
    BY <1>0, <2>4, FS_RemoveElement DEF Timeouts
  <2>6. QED
    BY <1>0, <1>17, <1>a, <1>b, <2>3, <2>5 DEF Expire, cell
<1>18. CASE Erase
  <2>1. Boxes' /\ Labels' /\ refs' \in [Actor -> Int]
    BY <1>0, <1>18, <1>c, DropTypes DEF Erase
  <2>2. QED
    BY <1>0, <1>18, <1>a, <1>b, <2>1 DEF Erase
<1>19. CASE StopTimer
  <2> DEFINE drops == [a \in Actor |-> Cardinality({e \in delayed : e[1] = a})]
  <2>1. \A a : Cardinality({e \in delayed : e[1] = a}) \in Int
    <3> SUFFICES ASSUME NEW a PROVE Cardinality({e \in delayed : e[1] = a}) \in Int
      OBVIOUS
    <3>1. IsFiniteSet({e \in delayed : e[1] = a})
      BY <1>0, FS_Subset DEF Timeouts
    <3>2. QED
      BY <3>1, FS_CardinalityType
  <2>2. drops \in [Actor -> Int] /\ DropRefs(drops, {})
    BY <1>19, <2>1 DEF StopTimer
  <2> HIDE DEF drops
  <2>3. Boxes' /\ Labels' /\ refs' \in [Actor -> Int]
    BY <1>0, <2>2, DropTypes
  <2>4. Timeouts'
    BY <1>0, <1>19, FS_EmptySet DEF StopTimer, Timeouts
  <2>5. QED
    BY <1>0, <1>19, <1>a, <1>b, <2>3, <2>4 DEF StopTimer
<1>20. CASE Sweep
  <2>1. CASE deque[stop.sweep] = << >>
    BY <1>0, <1>20, <1>a, <1>b, <2>1 DEF Sweep, box, cell
  <2>2. CASE deque[stop.sweep] # << >>
    <3>1. Boxes' /\ Labels' /\ refs' \in [Actor -> Int]
      BY <1>0, <1>20, <1>c, <2>2, DropTypes DEF Sweep
    <3>2. QED
      BY <1>0, <1>20, <1>a, <1>b, <2>2, <3>1 DEF Sweep
  <2>3. QED
    BY <2>1, <2>2
<1>21. CASE BeginStop \/ WorkerReported \/ (\E w \in Worker : PlaceHelper(w)) \/ UNCHANGED vars
  <2>1. UNCHANGED <<box, cell, delayed>>
    BY <1>21 DEF BeginStop, WorkerReported, PlaceHelper, vars
  <2>2. QED
    BY <1>0, <1>a, <1>b, <2>1 DEF box, cell
<1>22. ASSUME NEW t \in Runner, Run(t) PROVE Cells'
  BY <1>4, <1>5, <1>6, <1>7, <1>8, <1>9, <1>10, <1>11, <1>12, <1>13, <1>22 DEF Run, Thread
<1>23. ASSUME NEW w \in Worker, WorkerStep(w) PROVE Cells'
  <2>1. Deques
    BY DEF IInv
  <2>2. QED
    BY <1>14, <1>22, <1>23, <2>1, TakeSteps DEF WorkerStep, Runner
<1>24. ASSUME NEW d \in Detached, PrivateStep(d) PROVE Cells'
  BY <1>15, <1>16, <1>22, <1>24 DEF PrivateStep, Runner
<1>25. QED
  BY <1>1, <1>2, <1>3, <1>4, <1>17, <1>18, <1>19, <1>20, <1>21, <1>23, <1>24
     DEF Next, ProgramStep, StopStep, TimerStep, Thread

-----------------------------------------------------------------------------
(* What a step of a thread does to the actors it concerns, and to others   *)

InIt(t, a) == job[t] = a /\ pc[t] \in Holding
RunsIt(t, a) == job[t] = a /\ pc[t] \in Active
WakesIt(t, a) == wake[t] # None /\ wake[t][1] = a

InBit(t, a) == Bit(InIt(t, a))
RunsBit(t, a) == Bit(RunsIt(t, a))
WakesBit(t, a) == Bit(WakesIt(t, a))

(* The part of the two counts that a step of thread t may change.          *)
Owners(t, a) == Held(a) + Placed(a) + InBit(t, a) + Due(a) + Pending(a)
Hands(t, a) == Placed(a) + RunsBit(t, a) + WakesBit(t, a) + Pending(a)

OthersWake(t) == \A u \in Thread : u # t => wake'[u] = wake[u]

LEMMA Balanced ==
    ASSUME NEW a \in Actor, NEW t \in Thread, Others(t), OthersWake(t), Counted(a),
           IsFiniteSet(delayed), IsFiniteSet(delayed'),
           refs'[a] = refs[a] + Owners(t, a)' - Owners(t, a)
    PROVE  /\ refs'[a] = (Held(a) + Placed(a) + Holders(a) + Due(a) + Pending(a))'
           /\ Hands(t, a)' - Hands(t, a) = Awake(a)' - Awake(a) => Counted(a)'
<1>1. /\ Holders(a)' = Holders(a) - InBit(t, a) + InBit(t, a)'
      /\ Runners(a)' = Runners(a) - RunsBit(t, a) + RunsBit(t, a)'
  BY ThreadStep DEF InIt, RunsIt, InBit, RunsBit
<1>2. Waking(a)' = Waking(a) - WakesBit(t, a) + WakesBit(t, a)'
  BY WakeStep DEF OthersWake, WakesIt, WakesBit
<1>3. /\ Holders(a) \in Nat /\ Runners(a) \in Nat /\ Waking(a) \in Nat /\ Due(a) \in Nat
      /\ Held(a) \in {0, 1} /\ Placed(a) \in {0, 1} /\ Pending(a) \in {0, 1} /\ Awake(a) \in {0, 1}
  BY Numbers
<1>4. Due(a)' \in Nat
  <2>1. IsFiniteSet(DueOf(delayed', a))
    BY FS_Subset DEF DueOf
  <2>2. QED
    BY <2>1, FS_CardinalityType DEF Due
<1>5. /\ Held(a)' \in {0, 1} /\ Placed(a)' \in {0, 1} /\ Pending(a)' \in {0, 1} /\ Awake(a)' \in {0, 1}
      /\ InBit(t, a) \in {0, 1} /\ InBit(t, a)' \in {0, 1}
      /\ RunsBit(t, a) \in {0, 1} /\ RunsBit(t, a)' \in {0, 1}
      /\ WakesBit(t, a) \in {0, 1} /\ WakesBit(t, a)' \in {0, 1}
  BY DEF Bit, Held, Placed, Pending, Awake, InBit, RunsBit, WakesBit
<1>i. /\ Holders(a) \in Int /\ Runners(a) \in Int /\ Waking(a) \in Int /\ Due(a) \in Int /\ Due(a)' \in Int
      /\ Held(a) \in Int /\ Placed(a) \in Int /\ Pending(a) \in Int /\ Awake(a) \in Int
      /\ Held(a)' \in Int /\ Placed(a)' \in Int /\ Pending(a)' \in Int /\ Awake(a)' \in Int
      /\ InBit(t, a) \in Int /\ RunsBit(t, a) \in Int /\ WakesBit(t, a) \in Int
      /\ InBit(t, a)' \in Int /\ RunsBit(t, a)' \in Int /\ WakesBit(t, a)' \in Int
  BY <1>3, <1>4, <1>5
<1>6. /\ refs[a] = Held(a) + Placed(a) + Holders(a) + Due(a) + Pending(a)
      /\ Placed(a) + Runners(a) + Waking(a) + Pending(a) = Awake(a)
  BY DEF Counted
<1>7. refs'[a] = Held(a)' + Placed(a)' + Holders(a)' + Due(a)' + Pending(a)'
  <2>1. Owners(t, a)' = Held(a)' + Placed(a)' + InBit(t, a)' + Due(a)' + Pending(a)'
    BY DEF Owners
  <2>2. Owners(t, a) = Held(a) + Placed(a) + InBit(t, a) + Due(a) + Pending(a)
    BY DEF Owners
  <2>3. QED
    BY <1>1, <1>i, <1>6, <2>1, <2>2
<1>8. ASSUME Hands(t, a)' - Hands(t, a) = Awake(a)' - Awake(a)
      PROVE  Placed(a)' + Runners(a)' + Waking(a)' + Pending(a)' = Awake(a)'
  <2>1. Hands(t, a)' = Placed(a)' + RunsBit(t, a)' + WakesBit(t, a)' + Pending(a)'
    BY DEF Hands
  <2>2. Hands(t, a) = Placed(a) + RunsBit(t, a) + WakesBit(t, a) + Pending(a)
    BY DEF Hands
  <2>3. Hands(t, a) = Awake(a) - (Runners(a) - RunsBit(t, a)) - (Waking(a) - WakesBit(t, a))
    BY <1>i, <1>6, <2>2
  <2>4. Hands(t, a)' = Awake(a)' - (Runners(a) - RunsBit(t, a)) - (Waking(a) - WakesBit(t, a))
    BY <1>i, <1>8, <2>1, <2>3
  <2>5. QED
    BY <1>1, <1>2, <1>i, <2>1, <2>4
<1>9. QED
  BY <1>7, <1>8 DEF Counted

(* Thread t lets somebody act for a only if a has an owner for it.         *)
LEMMA BackedStep ==
    ASSUME NEW a \in Actor, NEW t \in Thread, Others(t), OthersWake(t), Backed(a),
           WakesIt(t, a)' => handle'[a] = "held" \/ InIt(t, a)',
           handle[a] = "held" => handle'[a] = "held"
    PROVE  Backed(a)'
<1> SUFFICES ASSUME NEW u \in Thread, wake'[u] # None, wake'[u][1] = a
             PROVE  handle'[a] = "held" \/ (job'[u] = a /\ pc'[u] \in Holding)
  BY DEF Backed
<1>1. CASE u = t
  BY <1>1 DEF WakesIt, InIt
<1>2. CASE u # t
  <2>1. wake'[u] = wake[u] /\ job'[u] = job[u] /\ pc'[u] = pc[u]
    BY <1>2 DEF OthersWake, Others
  <2>2. QED
    BY <2>1 DEF Backed
<1>3. QED
  BY <1>1, <1>2

CellsStay(a) ==
    /\ mail'[a] = mail[a] /\ mstate'[a] = mstate[a] /\ flags'[a] = flags[a]
    /\ a \in Detached => tstate'[a] = tstate[a]

Cleaned(a) ==
    /\ mail'[a] = << >> /\ mstate'[a] = "closed"
    /\ flags'[a] = flags[a] \cup {"terminated", "cleaned_up"}
    /\ a \in Detached => tstate'[a] = "shutdown"

LEMMA CleanUpFacts ==
    ASSUME NEW X, CleanUp(X), NEW a \in Actor
    PROVE  IF a \in X THEN Cleaned(a) ELSE CellsStay(a)
BY DEF CleanUp, Cleaned, CellsStay, AskedToLeave

LEMMA DropFacts ==
    ASSUME NEW b \in Actor, NEW a \in Actor, DropRefs(One(b), {}), refs \in [Actor -> Int]
    PROVE  /\ a # b => CellsStay(a) /\ refs'[a] = refs[a]
           /\ a = b => refs'[a] = refs[a] - 1
           /\ a = b => IF refs[a] = 1 THEN Cleaned(a) ELSE CellsStay(a)
<1> DEFINE X == {} \cup {c \in Actor : One(b)[c] > 0 /\ refs[c] = One(b)[c]}
<1>1. CleanUp(X) /\ refs' = [c \in Actor |-> refs[c] - One(b)[c]]
  BY DEF DropRefs
<1>2. \A c \in Actor : One(b)[c] = IF c = b THEN 1 ELSE 0
  BY DEF One
<1>3. \A c \in Actor : c \in X <=> c = b /\ refs[c] = 1
  BY <1>2
<1> HIDE DEF X
<1>4. IF a \in X THEN Cleaned(a) ELSE CellsStay(a)
  BY <1>1, CleanUpFacts
<1>5. refs'[a] = refs[a] - One(b)[a]
  BY <1>1
<1>6. QED
  BY <1>2, <1>3, <1>4, <1>5

(* The cells of all actors but those in C stay as they are. *)
Apart(C) ==
    \A a \in Actor \ C :
        /\ CellsStay(a) /\ refs'[a] = refs[a] /\ handle'[a] = handle[a]
        /\ In(deque', a) <=> In(deque, a)
        /\ DueOf(delayed', a) = DueOf(delayed, a)

(* A step of thread t concerns nobody but the actors in C. *)
Elsewhere(C, t) ==
    /\ Others(t)
    /\ \/ pc'[t] = pc[t] /\ job'[t] = job[t] /\ (t \in Runner => seen'[t] = seen[t])
       \/ job[t] \in C \cup {None} /\ job'[t] \in C \cup {None} /\ (t \in Detached => t \in C)
    /\ \A r \in Runner : r # t => seen'[r] = seen[r]
    /\ \A u \in Thread : \/ wake'[u] = wake[u]
                         \/ /\ wake[u] = None \/ wake[u][1] \in C
                            /\ wake'[u] = None \/ wake'[u][1] \in C
    /\ Apart(C)

LEMMA ElsewhereKept ==
    ASSUME NEW C, NEW t \in Thread, Elsewhere(C, t), NEW a \in Actor \ C, Kept(a)
    PROVE  Kept(a)'
<1>0. a \in Actor /\ a \notin C /\ a # None
  BY Constants_
<1>1. /\ CellsStay(a) /\ refs'[a] = refs[a] /\ handle'[a] = handle[a]
      /\ In(deque', a) <=> In(deque, a)
      /\ DueOf(delayed', a) = DueOf(delayed, a)
  BY DEF Elsewhere, Apart
<1>2. ASSUME NEW u \in Thread
      PROVE  /\ job'[u] = a <=> job[u] = a
             /\ job[u] = a => pc'[u] = pc[u]
  BY <1>0 DEF Elsewhere, Others
<1>3. ASSUME NEW u \in Thread PROVE WakesIt(u, a)' <=> WakesIt(u, a)
  BY <1>0 DEF Elsewhere, WakesIt
<1>4. a \in Detached => pc'[a] = pc[a]
  BY <1>0 DEF Elsewhere, Others, Thread, Runner
<1>5. /\ \A P : Among(pc', job', a, P) = Among(pc, job, a, P)
      /\ Wakers(wake', a) = Wakers(wake, a)
  BY <1>2, <1>3 DEF Among, Wakers, WakesIt
<1>6. /\ Held(a)' = Held(a) /\ Placed(a)' = Placed(a) /\ Holders(a)' = Holders(a)
      /\ Due(a)' = Due(a) /\ Runners(a)' = Runners(a) /\ Waking(a)' = Waking(a)
  BY <1>1, <1>5 DEF Held, Placed, Holders, Due, Runners, Waking, Bit
<1>7. Pending(a)' = Pending(a) /\ Awake(a)' = Awake(a)
  BY <1>1, <1>4 DEF Pending, Awake, IsPending, IsAwake, CellsStay, Bit
<1>8. Counted(a)'
  BY <1>1, <1>6, <1>7 DEF Kept, Counted
<1>9. Backed(a)'
  <2> SUFFICES ASSUME NEW u \in Thread, wake'[u] # None, wake'[u][1] = a
               PROVE  handle'[a] = "held" \/ (job'[u] = a /\ pc'[u] \in Holding)
    BY DEF Backed
  <2>1. wake[u] # None /\ wake[u][1] = a
    BY <1>3 DEF WakesIt
  <2>2. QED
    BY <1>1, <1>2, <2>1 DEF Kept, Backed
<1>10. ASSUME NEW r \in Runner, job'[r] = a, "terminated" \in seen'[r].flags
       PROVE  mstate'[a] = "closed"
  <2>1. r \in Thread /\ job[r] = a
    BY <1>2, <1>10 DEF Thread
  <2>2. seen'[r] = seen[r]
    BY <1>0, <2>1 DEF Elsewhere
  <2>3. QED
    BY <1>1, <1>10, <2>1, <2>2 DEF Kept, Closing, CellsStay
<1>11. Closing(a)'
  BY <1>1, <1>4, <1>10 DEF Kept, Closing, CellsStay
<1>12. QED
  BY <1>8, <1>9, <1>11 DEF Kept

-----------------------------------------------------------------------------
(* Every step keeps the counts, the owners and the closing of each actor   *)

(* What is known of an actor before a step. *)
LEMMA Known ==
    ASSUME IInv, NEW a \in Actor
    PROVE  /\ Kept(a) /\ Counted(a) /\ Backed(a) /\ Closing(a) /\ IsFiniteSet(delayed)
           /\ refs[a] \in Nat /\ refs \in [Actor -> Int]
           /\ refs[a] = Held(a) + Placed(a) + Holders(a) + Due(a) + Pending(a)
           /\ Held(a) \in {0, 1} /\ Placed(a) \in {0, 1} /\ Pending(a) \in {0, 1} /\ Awake(a) \in {0, 1}
           /\ Holders(a) \in Nat /\ Due(a) \in Nat /\ Runners(a) \in Nat /\ Waking(a) \in Nat
           /\ refs[a] # 0 => handle[a] # "none"
<1>1. Kept(a) /\ Counted(a) /\ Backed(a) /\ Closing(a) /\ IsFiniteSet(delayed) /\ refs \in [Actor -> Int]
  BY DEF IInv, Kept, Cells
<1>2. refs[a] \in Nat
  BY <1>1, Counts
<1>3. QED
  BY <1>1, <1>2, Numbers DEF Counted, Closing

(* The bits of an actor, and of a thread in it. *)
LEMMA Bits ==
    ASSUME NEW t, NEW a
    PROVE  /\ Held(a) = IF handle[a] = "held" THEN 1 ELSE 0
           /\ Placed(a) = IF In(deque, a) THEN 1 ELSE 0
           /\ Pending(a) = IF IsPending(a) THEN 1 ELSE 0
           /\ Awake(a) = IF IsAwake(a) THEN 1 ELSE 0
           /\ InBit(t, a) = IF InIt(t, a) THEN 1 ELSE 0
           /\ RunsBit(t, a) = IF RunsIt(t, a) THEN 1 ELSE 0
           /\ WakesBit(t, a) = IF WakesIt(t, a) THEN 1 ELSE 0
BY DEF Held, Placed, Pending, Awake, InBit, RunsBit, WakesBit, Bit

LEMMA NewBits ==
    ASSUME NEW t, NEW a
    PROVE  /\ Held(a)' = IF handle'[a] = "held" THEN 1 ELSE 0
           /\ Placed(a)' = IF In(deque', a) THEN 1 ELSE 0
           /\ Pending(a)' = IF IsPending(a)' THEN 1 ELSE 0
           /\ Awake(a)' = IF IsAwake(a)' THEN 1 ELSE 0
           /\ InBit(t, a)' = IF InIt(t, a)' THEN 1 ELSE 0
           /\ RunsBit(t, a)' = IF RunsIt(t, a)' THEN 1 ELSE 0
           /\ WakesBit(t, a)' = IF WakesIt(t, a)' THEN 1 ELSE 0
BY DEF Held, Placed, Pending, Awake, InBit, RunsBit, WakesBit, Bit

LEMMA Whole ==
    ASSUME IInv, NEW a \in Actor, NEW t
    PROVE  Owners(t, a) \in Int /\ Hands(t, a) \in Int /\ Awake(a) \in Int /\ refs[a] \in Int
<1>1. Held(a) \in Int /\ Placed(a) \in Int /\ Pending(a) \in Int /\ InBit(t, a) \in Int
      /\ RunsBit(t, a) \in Int /\ WakesBit(t, a) \in Int /\ Awake(a) \in Int
  BY Bits
<1>2. Due(a) \in Int /\ refs[a] \in Int
  BY Known
<1>3. QED
  BY <1>1, <1>2 DEF Owners, Hands

(* An actor that was never launched is in nobody's hands. *)
LEMMA NotLaunched ==
    ASSUME IInv, NEW a \in Actor, handle[a] = "none"
    PROVE  /\ Due(a) = 0 /\ ~In(deque, a) /\ ~IsPending(a) /\ ~IsAwake(a) /\ refs[a] = 0
           /\ mstate[a] = "open" /\ mail[a] = << >> /\ (a \in Detached => pc[a] = "none")
           /\ \A t \in Thread : ~InIt(t, a) /\ ~RunsIt(t, a) /\ ~WakesIt(t, a)
<1>1. Kept(a) /\ Counted(a) /\ Closing(a) /\ IsFiniteSet(delayed)
  BY Known
<1>2. refs[a] = 0 /\ ~IsAwake(a) /\ mstate[a] = "open" /\ mail[a] = << >> /\ (a \in Detached => pc[a] = "none")
  BY <1>1 DEF Closing, IsAwake
<1>3. Holders(a) = 0 /\ Due(a) = 0
  BY <1>2, Known
<1>4. ~In(deque, a) /\ ~IsPending(a) /\ Waking(a) = 0 /\ Runners(a) = 0
  BY <1>1, <1>2, Counts
<1>5. \A t \in Thread : ~InIt(t, a) /\ ~RunsIt(t, a) /\ ~WakesIt(t, a)
  BY <1>1, <1>3, <1>4, Numbers DEF InIt, RunsIt, WakesIt
<1>6. QED
  BY <1>2, <1>3, <1>4, <1>5

LEMMA JobInDeques ==
    ASSUME Deques, NEW j \in Job, NEW a \in Actor
    PROVE  /\ a \in Detached => ~In(deque, a)
           /\ Gains(deque, deque', j) => (In(deque', a) <=> In(deque, a) \/ a = j)
           /\ Loses(deque, deque', j) => (In(deque', a) <=> In(deque, a) /\ a # j)
<1>1. a \in Detached => a \notin Job /\ a # j
  BY Constants_ DEF Job, Actor
<1>2. ASSUME NEW dq \in [Worker -> Seq(Job)], a \in Detached PROVE ~In(dq, a)
  BY <1>1, <1>2, ElementOfSeq DEF In
<1>3. deque \in [Worker -> Seq(Job)]
  BY DEF Deques, Job
<1>4. a \notin Detached => a \in Job
  BY DEF Actor, Job
<1>5. QED
  BY <1>1, <1>2, <1>3, <1>4 DEF Gains, Loses

LEMMA InDeques ==
    ASSUME Deques, NEW j \in Pooled, NEW a \in Actor
    PROVE  /\ a \in Detached => ~In(deque, a)
           /\ Gains(deque, deque', j) => (In(deque', a) <=> In(deque, a) \/ a = j)
           /\ Loses(deque, deque', j) => (In(deque', a) <=> In(deque, a) /\ a # j)
<1>1. j \in Job
  BY DEF Job
<1>2. QED
  BY <1>1, JobInDeques

LEMMA LaunchKeeps ==
    ASSUME IInv, NEW b \in Actor, Launch(b), NEW a \in Actor
    PROVE  Kept(a)'
<1>0. /\ Kept(a) /\ Kept(b) /\ IsFiniteSet(delayed) /\ Threads /\ Deques
      /\ refs \in [Actor -> Int] /\ handle \in [Actor -> {"none", "held", "dropped"}]
      /\ pc \in [Thread -> Position]
  BY DEF IInv, Cells, Threads
<1>1. /\ handle[b] = "none" /\ handle' = [handle EXCEPT ![b] = "held"] /\ refs' = [refs EXCEPT ![b] = 2]
      /\ UNCHANGED <<mail, mstate, flags, tstate, delayed, job, seen, wake>>
  BY DEF Launch, box
<1>2. /\ Due(b) = 0 /\ ~In(deque, b) /\ ~IsPending(b) /\ ~IsAwake(b) /\ refs[b] = 0
      /\ mstate[b] = "open" /\ mail[b] = << >> /\ (b \in Detached => pc[b] = "none")
      /\ \A t \in Thread : ~InIt(t, b) /\ ~RunsIt(t, b) /\ ~WakesIt(t, b)
  BY <1>1, NotLaunched
<1>3. PICK t \in Thread :
         /\ b \in Pooled => /\ t = Program /\ pc' = pc
                            /\ \E w \in Worker : deque' = [deque EXCEPT ![w] = Append(@, b)]
         /\ b \notin Pooled => t = b /\ deque' = deque /\ pc' = [pc EXCEPT ![b] = "top"]
  BY DEF Launch, CentralEnqueue, Thread, Runner, Actor
<1>4. b \in Pooled => Gains(deque, deque', b)
  BY <1>0, <1>2, <1>3, PutsOne
<1>5. \A x \in Actor : In(deque', x) <=> In(deque, x) \/ (x = b /\ b \in Pooled)
  BY <1>0, <1>3, <1>4, InDeques
<1>6. Others(t) /\ OthersWake(t)
  BY <1>0, <1>1, <1>3 DEF Others, OthersWake
<1>7. b \notin Pooled => b \in Detached /\ job[b] = b
  BY <1>0, WhoRuns DEF Actor, Runner
<1>8. CASE a # b
  <2>1. \/ pc'[t] = pc[t] /\ job'[t] = job[t] /\ (t \in Runner => seen'[t] = seen[t])
        \/ job[t] \in {b} \cup {None} /\ job'[t] \in {b} \cup {None} /\ (t \in Detached => t \in {b})
    BY <1>1, <1>3, <1>7
  <2>2. Apart({b})
    BY <1>0, <1>1, <1>5 DEF Apart, CellsStay
  <2>3. Elsewhere({b}, t)
    BY <1>1, <1>6, <2>1, <2>2 DEF Elsewhere
  <2>4. QED
    BY <1>0, <1>8, <2>3, ElsewhereKept
<1>9. CASE a = b
  <2>1. refs'[b] = 2 /\ handle'[b] = "held" /\ mstate'[b] = "open" /\ mail'[b] = << >> /\ Due(b)' = 0
    BY <1>0, <1>1, <1>2 DEF Due
  <2>2. /\ b \in Pooled => b \notin Detached
        /\ b \in Detached => pc'[b] = "top" /\ job'[b] = b /\ t = b
    BY <1>0, <1>1, <1>3, <1>7, Constants_ DEF Thread, Runner
  <2>3. ~IsPending(b)' /\ IsAwake(b)' /\ ~WakesIt(t, b)' /\ handle[b] # "held"
    BY <1>1, <1>2, <2>1, <2>2 DEF IsPending, IsAwake, WakesIt, Between
  <2>4. /\ InIt(t, b)' <=> b \notin Pooled
        /\ RunsIt(t, b)' <=> b \notin Pooled
    BY <1>1, <1>2, <1>3, <1>7, <2>2 DEF InIt, RunsIt, Holding, Active
  <2>5. In(deque', b) <=> b \in Pooled
    BY <1>2, <1>5
  <2>6. Owners(t, b) = 0 /\ Hands(t, b) = 0 /\ Awake(b) = 0
    BY <1>2, <2>3, Bits DEF Owners, Hands
  <2>7. Owners(t, b)' = 2 /\ Hands(t, b)' = 1 /\ Awake(b)' = 1
    BY <2>1, <2>3, <2>4, <2>5, NewBits DEF Owners, Hands
  <2>8. Counted(b)'
    BY <1>0, <1>1, <1>2, <1>6, <2>1, <2>6, <2>7, Balanced DEF Kept
  <2>9. Backed(b)'
    BY <1>0, <1>6, <2>1, BackedStep DEF Kept
  <2>10. Closing(b)'
    BY <1>0, <1>1, <1>2, <2>1, <2>2 DEF Kept, Closing
  <2>11. QED
    BY <1>9, <2>8, <2>9, <2>10 DEF Kept
<1>10. QED
  BY <1>8, <1>9

LEMMA LaunchLazilyKeeps ==
    ASSUME IInv, NEW b \in Actor, LaunchLazily(b), NEW a \in Actor
    PROVE  Kept(a)'
<1> DEFINE t == Program
<1>0. /\ Kept(a) /\ Kept(b) /\ IsFiniteSet(delayed) /\ Threads /\ Deques
      /\ refs \in [Actor -> Int] /\ handle \in [Actor -> {"none", "held", "dropped"}]
      /\ mstate \in [Actor -> {"open", "blocked", "closed"}]
  BY DEF IInv, Cells, Threads
<1>1. /\ handle[b] = "none" /\ handle' = [handle EXCEPT ![b] = "held"] /\ refs' = [refs EXCEPT ![b] = @ + 1]
      /\ mstate' = [mstate EXCEPT ![b] = "blocked"] /\ b \in Pooled
      /\ UNCHANGED <<mail, flags, tstate, delayed, pc, job, seen, wake, deque>>
  BY DEF LaunchLazily, OneMore, local
<1>2. /\ Due(b) = 0 /\ ~In(deque, b) /\ ~IsPending(b) /\ ~IsAwake(b) /\ refs[b] = 0
      /\ mail[b] = << >> /\ b \notin Detached
      /\ \A u \in Thread : ~InIt(u, b) /\ ~RunsIt(u, b) /\ ~WakesIt(u, b)
  BY <1>1, NotLaunched, Constants_
<1>3. t \in Thread /\ Others(t) /\ OthersWake(t)
  BY <1>1 DEF Others, OthersWake, Thread
<1> HIDE DEF t
<1>4. CASE a # b
  <2>1. Apart({b})
    BY <1>0, <1>1 DEF Apart, CellsStay
  <2>2. Elsewhere({b}, t)
    BY <1>1, <1>3, <2>1 DEF Elsewhere
  <2>3. QED
    BY <1>0, <1>3, <1>4, <2>2, ElsewhereKept
<1>5. CASE a = b
  <2>1. refs'[b] = 1 /\ handle'[b] = "held" /\ mstate'[b] = "blocked" /\ mail'[b] = << >> /\ Due(b)' = 0
    BY <1>0, <1>1, <1>2 DEF Due
  <2>2. ~IsPending(b)' /\ ~IsAwake(b)' /\ handle[b] # "held" /\ ~In(deque', b)
    BY <1>1, <1>2, <2>1 DEF IsPending, IsAwake
  <2>3. ~InIt(t, b)' /\ ~RunsIt(t, b)' /\ ~WakesIt(t, b)'
    BY <1>1, <1>2, <1>3 DEF InIt, RunsIt, WakesIt
  <2>4. Owners(t, b) = 0 /\ Hands(t, b) = 0 /\ Awake(b) = 0
    BY <1>2, <1>3, <2>2, Bits DEF Owners, Hands
  <2>5. Owners(t, b)' = 1 /\ Hands(t, b)' = 0 /\ Awake(b)' = 0
    BY <2>1, <2>2, <2>3, NewBits DEF Owners, Hands
  <2>6. Counted(b)'
    BY <1>0, <1>1, <1>2, <1>3, <2>1, <2>4, <2>5, Balanced DEF Kept
  <2>7. Backed(b)'
    BY <1>0, <1>3, <2>1, BackedStep DEF Kept
  <2>8. Closing(b)'
    BY <1>0, <1>1, <1>2, <2>1, NotLaunched DEF Kept, Closing
  <2>9. QED
    BY <1>5, <2>6, <2>7, <2>8 DEF Kept
<1>6. QED
  BY <1>4, <1>5

(* A message for b: whether its reader sleeps decides what else happens.   *)
Delivered(t, b) ==
    \/ mstate[b] = "closed" /\ mstate'[b] = "closed" /\ wake'[t] = wake[t]
    \/ mstate[b] = "open" /\ mstate'[b] = "open" /\ wake'[t] = wake[t]
    \/ mstate[b] = "blocked" /\ mstate'[b] = "open" /\ wake'[t] # None /\ wake'[t][1] = b

LEMMA DeliverFacts ==
    ASSUME Boxes, Threads, NEW m \in [Actor -> Seq(Int)], NEW s, NEW t \in Thread, NEW b \in Actor, NEW x,
           NEW eu, <<b, eu>> # None, Deliver(m, s, t, b, x, eu)
    PROVE  /\ \A a \in Actor : a # b => mail'[a] = m[a] /\ mstate'[a] = mstate[a]
           /\ mstate[b] = "closed" => mail'[b] = m[b]
           /\ OthersWake(t) /\ Delivered(t, b)
<1>1. wake \in [Thread -> (Actor \X (Runner \cup {None})) \cup {None}]
      /\ mstate \in [Actor -> {"open", "blocked", "closed"}]
  BY DEF Boxes, Threads
<1>2. CASE mstate[b] = "closed"
  BY <1>1, <1>2 DEF Deliver, Delivered, OthersWake
<1>3. CASE mstate[b] = "open"
  BY <1>1, <1>3 DEF Deliver, Delivered, OthersWake, Wakes
<1>4. CASE mstate[b] = "blocked"
  BY <1>1, <1>4 DEF Deliver, Delivered, OthersWake, Wakes
<1>5. QED
  BY <1>1, <1>2, <1>3, <1>4

(* Who wakes a launched actor adds a hand to it, and it is awake. *)
LEMMA DeliverBits ==
    ASSUME NEW t \in Thread, NEW b \in Actor, Delivered(t, b), Idle(t),
           handle[b] # "none", handle'[b] # "none"
    PROVE  /\ ~WakesIt(t, b) /\ (WakesIt(t, b)' <=> mstate[b] = "blocked")
           /\ IsAwake(b) <=> mstate[b] = "open"
           /\ IsAwake(b)' <=> mstate[b] # "closed"
           /\ WakesBit(t, b)' - WakesBit(t, b) = Awake(b)' - Awake(b)
<1>1. ~WakesIt(t, b) /\ (WakesIt(t, b)' <=> mstate[b] = "blocked")
  BY DEF Delivered, Idle, WakesIt
<1>2. /\ IsAwake(b) <=> mstate[b] = "open"
      /\ IsAwake(b)' <=> mstate[b] # "closed"
  BY DEF IsAwake, Delivered
<1>3. mstate[b] \in {"open", "blocked", "closed"}
  BY DEF Delivered
<1>4. /\ WakesBit(t, b) = 0 /\ WakesBit(t, b)' = IF mstate[b] = "blocked" THEN 1 ELSE 0
      /\ Awake(b) = IF mstate[b] = "open" THEN 1 ELSE 0
      /\ Awake(b)' = IF mstate[b] # "closed" THEN 1 ELSE 0
  BY <1>1, <1>2, Bits, NewBits
<1>5. QED
  BY <1>1, <1>2, <1>3, <1>4

LEMMA SendKeeps ==
    ASSUME IInv, NEW b \in Actor, Send(b), NEW a \in Actor
    PROVE  Kept(a)'
<1> DEFINE t == Program
           x == sent + 1
<1>0. /\ Kept(a) /\ Kept(b) /\ IsFiniteSet(delayed) /\ Threads /\ Boxes /\ mail \in [Actor -> Seq(Int)]
      /\ refs[b] \in Int
  BY DEF IInv, Cells, Boxes
<1>1. /\ handle[b] = "held" /\ Idle(t) /\ Deliver(mail, settled, t, b, x, None)
      /\ UNCHANGED <<flags, refs, handle, tstate, delayed, pc, job, seen, deque>>
  BY DEF Send, Running, local, cell
<1>2. t \in Thread /\ Others(t) /\ <<b, None>> # None
  BY <1>1, Constants_ DEF Others, Thread
<1> HIDE DEF t, x
<1>3. /\ \A c \in Actor : c # b => mail'[c] = mail[c] /\ mstate'[c] = mstate[c]
      /\ mstate[b] = "closed" => mail'[b] = mail[b]
      /\ OthersWake(t) /\ Delivered(t, b)
  BY <1>0, <1>1, <1>2, DeliverFacts
<1>4. CASE a # b
  <2>1. Apart({b})
    BY <1>1, <1>3 DEF Apart, CellsStay
  <2>2. \A u \in Thread : \/ wake'[u] = wake[u]
                          \/ wake[u] = None /\ (wake'[u] = None \/ wake'[u][1] \in {b})
    BY <1>1, <1>3 DEF OthersWake, Delivered, Idle
  <2>3. Elsewhere({b}, t)
    BY <1>1, <1>2, <2>1, <2>2 DEF Elsewhere
  <2>4. QED
    BY <1>0, <1>2, <1>4, <2>3, ElsewhereKept
<1>5. CASE a = b
  <2>1. handle[b] # "none" /\ handle'[b] # "none" /\ handle'[b] = "held" /\ refs'[b] = refs[b]
    BY <1>1
  <2>2. WakesBit(t, b)' - WakesBit(t, b) = Awake(b)' - Awake(b)
    BY <1>1, <1>2, <1>3, <2>1, DeliverBits
  <2>3. Held(b)' = Held(b) /\ Placed(b)' = Placed(b) /\ InBit(t, b)' = InBit(t, b) /\ Due(b)' = Due(b)
        /\ Pending(b)' = Pending(b) /\ RunsBit(t, b)' = RunsBit(t, b)
    BY <1>1 DEF Held, Placed, InBit, Due, Pending, RunsBit, InIt, RunsIt, IsPending
  <2>4. Owners(t, b)' = Owners(t, b)
    BY <2>3 DEF Owners
  <2>5. Hands(t, b)' - Hands(t, b) = Awake(b)' - Awake(b)
    BY <2>2, <2>3, Bits, NewBits DEF Hands
  <2>a. refs'[b] = refs[b] + Owners(t, b)' - Owners(t, b)
    BY <2>1, <2>4, Whole
  <2>6. Counted(b)'
    BY <1>0, <1>1, <1>2, <1>3, <2>5, <2>a, Balanced DEF Kept
  <2>7. Backed(b)'
    BY <1>0, <1>2, <1>3, <2>1, BackedStep DEF Kept
  <2>8. Closing(b)'
    BY <1>0, <1>1, <1>3, <2>1 DEF Kept, Closing, Delivered
  <2>9. QED
    BY <1>5, <2>6, <2>7, <2>8 DEF Kept
<1>6. QED
  BY <1>4, <1>5

LEMMA SetNumbers ==
    ASSUME NEW ps, NEW jb, NEW a
    PROVE  /\ Cardinality(Among(ps, jb, a, Holding)) \in Nat
           /\ Cardinality(Among(ps, jb, a, Active)) \in Nat
           /\ Cardinality(Among(ps, jb, a, Active)) <= Cardinality(Among(ps, jb, a, Holding))
           /\ Cardinality(Among(ps, jb, a, Holding)) = 0 =>
                 \A u \in Thread : ~(jb[u] = a /\ ps[u] \in Holding)
<1>1. Among(ps, jb, a, Active) \subseteq Among(ps, jb, a, Holding)
  BY DEF Among, Active, Holding, Turning
<1>2. IsFiniteSet(Among(ps, jb, a, Holding))
  BY Constants_, FS_Subset DEF Among
<1>3. Cardinality(Among(ps, jb, a, Holding)) = 0 => Among(ps, jb, a, Holding) = {}
  BY <1>2, FS_EmptySet
<1>4. QED
  BY <1>1, <1>2, <1>3, FS_Subset, FS_CardinalityType DEF Among

(* When the last reference goes, nobody is left who could touch the actor. *)
LEMMA LastOut ==
    ASSUME NEW a \in Actor, NEW t \in Thread, Others(t), OthersWake(t), Counted(a),
           IsFiniteSet(delayed), IsFiniteSet(delayed'), refs'[a] = 0,
           refs'[a] = refs[a] + Owners(t, a)' - Owners(t, a), Backed(a)', ~IsAwake(a)'
    PROVE  Counted(a)' /\ \A u \in Thread : ~(job'[u] = a /\ pc'[u] \in Holding)
<1>1. refs'[a] = Held(a)' + Placed(a)' + Holders(a)' + Due(a)' + Pending(a)'
  BY Balanced
<1>2. Held(a)' \in {0, 1} /\ Placed(a)' \in {0, 1} /\ Pending(a)' \in {0, 1} /\ Awake(a)' = 0
  BY NewBits
<1>3. Due(a)' \in Nat
  <2>1. IsFiniteSet(DueOf(delayed', a))
    BY FS_Subset DEF DueOf
  <2>2. QED
    BY <2>1, FS_CardinalityType DEF Due
<1>4. Holders(a)' \in Nat /\ Runners(a)' \in Nat /\ Runners(a)' <= Holders(a)'
  BY SetNumbers DEF Holders, Runners
<1>5. Held(a)' = 0 /\ Placed(a)' = 0 /\ Pending(a)' = 0 /\ Holders(a)' = 0 /\ Runners(a)' = 0
  <2>1. Held(a)' \in Nat /\ Placed(a)' \in Nat /\ Pending(a)' \in Nat
    BY <1>2
  <2>2. Held(a)' + Placed(a)' + Holders(a)' + Due(a)' + Pending(a)' = 0
    BY <1>1
  <2>3. PICK h \in Nat, p \in Nat, i \in Nat, d \in Nat, q \in Nat :
           h = Held(a)' /\ p = Placed(a)' /\ i = Holders(a)' /\ d = Due(a)' /\ q = Pending(a)'
    BY <1>3, <1>4, <2>1
  <2>4. h + p + i + d + q = 0
    BY <2>2, <2>3
  <2>5. h = 0 /\ p = 0 /\ i = 0 /\ q = 0
    BY ONLY <2>4
  <2>6. QED
    BY <1>4, <2>3, <2>5
<1>6. \A u \in Thread : ~(job'[u] = a /\ pc'[u] \in Holding)
  BY <1>5, SetNumbers DEF Holders
<1>7. handle'[a] # "held"
  BY <1>5, NewBits
<1>8. Waking(a)' = 0
  <2>1. Wakers(wake', a) = {}
    BY <1>6, <1>7 DEF Backed, Wakers
  <2>2. QED
    BY <2>1, FS_EmptySet DEF Waking
<1>9. QED
  BY <1>1, <1>2, <1>5, <1>6, <1>8 DEF Counted

(* One reference to b is dropped by its owner, the program or the thread t *)
(* that leaves b.                                                          *)
Dropping(b, t) ==
    /\ Others(t) /\ wake' = wake /\ DropRefs(One(b), {}) /\ UNCHANGED <<deque, delayed>>
    /\ \/ handle[b] = "held" /\ handle'[b] # "held" /\ (InIt(t, b) <=> InIt(t, b)')
       \/ handle[b] = handle'[b] /\ InIt(t, b) /\ ~InIt(t, b)'
    /\ ~RunsIt(t, b) /\ ~RunsIt(t, b)'
    /\ handle'[b] # "none"
    /\ b \in Detached => (pc[b] \in Between <=> pc'[b] \in Between)

LEMMA Dropped ==
    ASSUME IInv, NEW b \in Actor, NEW t \in Thread, Dropping(b, t), Backed(b)'
    PROVE  /\ Counted(b)'
           /\ CellsStay(b) \/ (Cleaned(b) /\ \A u \in Thread : ~(job'[u] = b /\ pc'[u] \in Holding))
<1>0. Kept(b) /\ Counted(b) /\ IsFiniteSet(delayed) /\ refs \in [Actor -> Int] /\ refs[b] \in Int
  BY Known
<1>1. /\ Others(t) /\ OthersWake(t) /\ DropRefs(One(b), {})
      /\ UNCHANGED <<deque, delayed, wake>> /\ IsFiniteSet(delayed')
  BY <1>0 DEF Dropping, OthersWake
<1>2. /\ refs'[b] = refs[b] - 1
      /\ IF refs[b] = 1 THEN Cleaned(b) ELSE CellsStay(b)
  BY <1>0, <1>1, DropFacts
<1>3. Held(b)' + InBit(t, b)' = Held(b) + InBit(t, b) - 1
  BY Bits, NewBits DEF Dropping
<1>4. /\ Placed(b)' = Placed(b) /\ Due(b)' = Due(b) /\ WakesBit(t, b)' = WakesBit(t, b)
      /\ RunsBit(t, b)' = 0 /\ RunsBit(t, b) = 0
  BY <1>1, Bits, NewBits DEF Placed, Due, WakesBit, WakesIt, Dropping
<1>5. /\ Held(b)' \in Int /\ InBit(t, b)' \in Int /\ Held(b) \in Int /\ InBit(t, b) \in Int
      /\ Placed(b) \in Int /\ Due(b) \in Int /\ Pending(b) \in Int /\ Pending(b)' \in Int
  BY Known, Bits, NewBits
<1>6. ASSUME Pending(b)' = Pending(b) PROVE refs'[b] = refs[b] + Owners(t, b)' - Owners(t, b)
  <2>1. Owners(t, b)' = Held(b)' + Placed(b) + InBit(t, b)' + Due(b) + Pending(b)
    BY <1>4, <1>6 DEF Owners
  <2>2. Owners(t, b) = Held(b) + Placed(b) + InBit(t, b) + Due(b) + Pending(b)
    BY DEF Owners
  <2>3. QED
    BY <1>0, <1>2, <1>3, <1>5, <2>1, <2>2
<1>7. CASE refs[b] = 1
  <2>1. Held(b) = 1 \/ Holders(b) # 0
    <3>1. handle[b] = "held" \/ InIt(t, b)
      BY DEF Dropping
    <3>2. InIt(t, b) => Holders(b) # 0
      BY <1>0, Numbers DEF InIt
    <3>3. QED
      BY <3>1, <3>2, Bits
  <2>2. Pending(b) = 0
    BY <1>7, <2>1, Known
  <2>3. Cleaned(b)
    BY <1>2, <1>7
  <2>4. ~IsPending(b)' /\ ~IsAwake(b)'
    BY <2>3 DEF Cleaned, IsPending, IsAwake
  <2>5. Pending(b)' = Pending(b)
    BY <2>2, <2>4, NewBits
  <2>6. refs'[b] = 0
    BY <1>2, <1>7
  <2>7. QED
    BY <1>0, <1>1, <1>6, <2>3, <2>4, <2>5, <2>6, LastOut
<1>8. CASE refs[b] # 1
  <2>1. CellsStay(b)
    BY <1>2, <1>8
  <2>2. handle[b] # "none"
    BY DEF Dropping
  <2>3. (IsPending(b)' <=> IsPending(b)) /\ (IsAwake(b)' <=> IsAwake(b))
    BY <2>1, <2>2 DEF CellsStay, IsPending, IsAwake, Dropping
  <2>4. Pending(b)' = Pending(b) /\ Awake(b)' = Awake(b)
    BY <2>3, Bits, NewBits
  <2>5. Hands(t, b)' - Hands(t, b) = Awake(b)' - Awake(b)
    <3>1. Hands(t, b)' = Hands(t, b)
      BY <1>4, <2>4 DEF Hands
    <3>2. QED
      BY <2>4, <3>1, Whole
  <2>6. QED
    BY <1>0, <1>1, <1>6, <2>1, <2>4, <2>5, Balanced
<1>9. QED
  BY <1>7, <1>8

(* What closes an actor, and where its private thread may then be.         *)
LEMMA ClosingStep ==
    ASSUME NEW b \in Actor, Closing(b), CellsStay(b) \/ Cleaned(b),
           handle[b] # "none", handle'[b] # "none",
           \A r \in Runner : job'[r] = b =>
               seen'[r] = NoWrite \/ (job[r] = b /\ seen'[r] = seen[r]),
           b \in Detached => \/ CellsStay(b) /\ pc'[b] = pc[b]
                             \/ pc'[b] \in Between
                             \/ pc'[b] \in {"finish", "ending", "ended"} /\ mstate'[b] = "closed"
    PROVE  Closing(b)'
<1>1. \A r \in Runner : job'[r] = b /\ "terminated" \in seen'[r].flags => mstate'[b] = "closed"
  BY DEF Closing, CellsStay, Cleaned, NoWrite
<1>2. /\ mstate'[b] # "open" => mail'[b] = << >>
      /\ "terminated" \in flags'[b] => mstate'[b] = "closed"
  BY DEF Closing, CellsStay, Cleaned
<1>3. ASSUME b \in Detached
      PROVE  /\ pc'[b] # "none"
             /\ pc'[b] = "top" => tstate'[b] = "active"
             /\ pc'[b] \in {"resume", "run"} => tstate'[b] = "await"
             /\ pc'[b] \in {"finish", "ending", "ended"} => mstate'[b] = "closed"
             /\ tstate'[b] = "shutdown" => mstate'[b] = "closed"
  BY <1>3 DEF Closing, CellsStay, Cleaned, Between
<1>4. QED
  BY <1>1, <1>2, <1>3 DEF Closing

LEMMA ApartDrop ==
    ASSUME IInv, NEW b \in Actor, DropRefs(One(b), {}), UNCHANGED <<deque, delayed>>,
           \A a \in Actor : a # b => handle'[a] = handle[a]
    PROVE  Apart({b})
<1>1. refs \in [Actor -> Int]
  BY DEF IInv, Cells
<1>2. ASSUME NEW a \in Actor \ {b} PROVE CellsStay(a) /\ refs'[a] = refs[a]
  BY <1>1, <1>2, DropFacts
<1>3. QED
  BY <1>2 DEF Apart

LEMMA DropHandleKeeps ==
    ASSUME IInv, NEW b \in Actor, DropHandle(b), NEW a \in Actor
    PROVE  Kept(a)'
<1> DEFINE t == Program
<1>0. Kept(a) /\ Kept(b) /\ Threads /\ handle \in [Actor -> {"none", "held", "dropped"}]
  BY DEF IInv, Cells
<1>1. /\ handle[b] = "held" /\ handle' = [handle EXCEPT ![b] = "dropped"] /\ WakersOf(b) = {}
      /\ DropRefs(One(b), {})
      /\ UNCHANGED <<deque, delayed, pc, job, seen, wake>>
  BY DEF DropHandle, local
<1>2. t \in Thread /\ Others(t)
  BY <1>1 DEF Others, Thread
<1>3. job[t] = None /\ pc[t] = "none"
  <2>1. WellPlaced(t, pc[t], job[t])
    BY <1>0, <1>2 DEF Threads
  <2>2. QED
    BY <2>1, Constants_ DEF WellPlaced, Runner
<1> HIDE DEF t
<1>4. CASE a # b
  <2>1. Apart({b})
    BY <1>0, <1>1, ApartDrop
  <2>2. Elsewhere({b}, t)
    BY <1>1, <1>2, <2>1 DEF Elsewhere
  <2>3. QED
    BY <1>0, <1>2, <1>4, <2>2, ElsewhereKept
<1>5. CASE a = b
  <2>1. handle'[b] = "dropped"
    BY <1>0, <1>1
  <2>2. Backed(b)'
    BY <1>1 DEF Backed, WakersOf
  <2>3. Dropping(b, t)
    BY <1>1, <1>2, <1>3, <2>1, Constants_ DEF Dropping, InIt, RunsIt, Active
  <2>4. /\ Counted(b)'
        /\ CellsStay(b) \/ (Cleaned(b) /\ \A u \in Thread : ~(job'[u] = b /\ pc'[u] \in Holding))
    BY <1>2, <2>2, <2>3, Dropped
  <2>5. b \in Detached => \/ CellsStay(b) /\ pc'[b] = pc[b]
                          \/ pc'[b] \in Between
                          \/ pc'[b] \in {"finish", "ending", "ended"} /\ mstate'[b] = "closed"
    <3>1. CASE b \in Detached /\ Cleaned(b) /\ pc'[b] \notin Holding
      <4>1. pc[b] \in PrivatePc /\ pc[b] # "none"
        <5>1. b \in Runner /\ WellPlaced(b, pc[b], job[b])
          BY <1>0, <3>1, WhoRuns DEF Runner
        <5>2. QED
          BY <1>0, <1>1, <3>1, <5>1, Constants_ DEF WellPlaced, Kept, Closing, Runner
      <4>2. QED
        BY <1>1, <3>1, <4>1 DEF PrivatePc, Holding, Turning, Between, Cleaned
    <3>2. b \in Detached => b \in Thread /\ job'[b] = b
      BY <1>0, <1>1, WhoRuns DEF Runner, Thread
    <3>3. QED
      BY <1>1, <2>4, <3>1, <3>2
  <2>6. Closing(b)'
    BY <1>0, <1>1, <2>1, <2>4, <2>5, ClosingStep DEF Kept
  <2>7. QED
    BY <1>5, <2>2, <2>4, <2>6 DEF Kept
<1>6. QED
  BY <1>4, <1>5

(* Thread t leaves b, in which it was, and drops its reference to b. *)
Leaving(b, t) ==
    /\ Others(t) /\ wake[t] = None /\ wake' = wake /\ seen' = seen
    /\ t \in Runner => seen[t] = NoWrite
    /\ DropRefs(One(b), {}) /\ UNCHANGED <<deque, delayed, handle>>
    /\ job[t] = b /\ pc[t] \in {"release", "finish", "erase"}
    /\ \/ job'[t] = None /\ t \notin Detached
       \/ t \in Detached /\ t = b /\ job'[t] = b /\ pc'[t] = IF pc[t] = "release" THEN "await" ELSE "ending"

LEMMA LeavingKeeps ==
    ASSUME IInv, NEW b \in Actor, NEW t \in Thread, Leaving(b, t), NEW a \in Actor
    PROVE  Kept(a)'
<1>0. Kept(a) /\ Kept(b) /\ Threads
  BY DEF IInv
<1>1. /\ Others(t) /\ wake[t] = None /\ wake' = wake /\ seen' = seen /\ DropRefs(One(b), {})
      /\ UNCHANGED <<deque, delayed, handle>> /\ job[t] = b /\ pc[t] \in {"release", "finish", "erase"}
  BY DEF Leaving
<1>2. /\ job'[t] \in {b} \cup {None} /\ (t \in Detached => t = b)
      /\ ~RunsIt(t, b) /\ ~RunsIt(t, b)' /\ InIt(t, b) /\ ~InIt(t, b)'
  BY Constants_ DEF Leaving, RunsIt, InIt, Active, Holding, Turning
<1>3. CASE a # b
  <2>1. Apart({b})
    BY <1>1, ApartDrop
  <2>2. Elsewhere({b}, t)
    BY <1>1, <1>2, <2>1 DEF Elsewhere
  <2>3. QED
    BY <1>0, <1>3, <2>2, ElsewhereKept
<1>4. CASE a = b
  <2>1. handle[b] # "none" /\ handle'[b] # "none"
    <3>1. Holders(b) # 0 /\ IsFiniteSet(delayed)
      BY <1>2, Known, Numbers DEF InIt
    <3>2. refs[b] # 0
      BY <3>1, Known
    <3>3. QED
      BY <1>1, <3>2, Known
  <2>2. Backed(b)'
    <3>1. ~WakesIt(t, b)'
      BY <1>1 DEF WakesIt
    <3>2. OthersWake(t)
      BY <1>1 DEF OthersWake
    <3>3. QED
      BY <1>0, <1>1, <3>1, <3>2, BackedStep DEF Kept
  <2>3. b \in Detached => (pc[b] \in Between <=> pc'[b] \in Between)
    BY <1>1, Constants_ DEF Leaving, Others, Between, Thread, Runner
  <2>4. Dropping(b, t)
    BY <1>1, <1>2, <2>1, <2>3 DEF Dropping
  <2>5. /\ Counted(b)'
        /\ CellsStay(b) \/ (Cleaned(b) /\ \A u \in Thread : ~(job'[u] = b /\ pc'[u] \in Holding))
    BY <2>2, <2>4, Dropped
  <2>6. b \in Detached => \/ CellsStay(b) /\ pc'[b] = pc[b]
                          \/ pc'[b] \in Between
                          \/ pc'[b] \in {"finish", "ending", "ended"} /\ mstate'[b] = "closed"
    <3> SUFFICES ASSUME b \in Detached
                 PROVE  \/ CellsStay(b) /\ pc'[b] = pc[b]
                        \/ pc'[b] \in Between
                        \/ pc'[b] \in {"finish", "ending", "ended"} /\ mstate'[b] = "closed"
      OBVIOUS
    <3>0. b \in Runner /\ b \in Thread /\ job[b] = b /\ WellPlaced(b, pc[b], job[b])
      BY <1>0, WhoRuns DEF Runner
    <3>1. pc[b] \in PrivatePc /\ pc[b] # "none"
      BY <1>0, <2>1, <3>0, Constants_ DEF WellPlaced, Kept, Closing, Runner
    <3>2. CASE t = b
      <4>1. pc'[b] = IF pc[b] = "release" THEN "await" ELSE "ending"
        BY <3>2 DEF Leaving
      <4>2. pc[b] # "release" => mstate[b] = "closed"
        <5>1. pc[b] # "erase"
          BY <3>1 DEF PrivatePc
        <5>2. QED
          BY <1>0, <1>1, <3>2, <5>1 DEF Kept, Closing
      <4>3. mstate[b] = "closed" => mstate'[b] = "closed"
        BY <2>5 DEF CellsStay, Cleaned
      <4>4. QED
        BY <4>1, <4>2, <4>3 DEF Between
    <3>3. CASE t # b
      <4>1. pc'[b] = pc[b] /\ job'[b] = b
        BY <1>1, <3>0, <3>3 DEF Others
      <4>2. CASE Cleaned(b) /\ pc'[b] \notin Holding
        BY <3>1, <4>1, <4>2 DEF PrivatePc, Holding, Turning, Between, Cleaned
      <4>3. QED
        BY <2>5, <3>0, <4>1, <4>2
    <3>4. QED
      BY <3>2, <3>3
  <2>7. \A r \in Runner : job'[r] = b => seen'[r] = NoWrite \/ (job[r] = b /\ seen'[r] = seen[r])
    BY <1>1 DEF Others, Thread
  <2>8. Closing(b)'
    BY <1>0, <2>1, <2>5, <2>6, <2>7, ClosingStep DEF Kept
  <2>9. QED
    BY <1>4, <2>2, <2>5, <2>8 DEF Kept
<1>5. QED
  BY <1>3, <1>4

LEMMA ReleaseKeeps ==
    ASSUME IInv, NEW t \in Runner, Release(t), NEW a \in Actor
    PROVE  Kept(a)'
<1>0. Threads /\ pc \in [Thread -> Position] /\ job \in [Thread -> Actor \cup {None}]
  BY DEF IInv, Threads
<1>1. /\ pc[t] \in {"release", "finish"} /\ wake[t] = None /\ DropRefs(One(job[t]), {})
      /\ UNCHANGED <<handle, deque, delayed, seen, wake>>
      /\ IF t \in Worker THEN pc' = [pc EXCEPT ![t] = "poll"] /\ job' = [job EXCEPT ![t] = None]
         ELSE pc' = [pc EXCEPT ![t] = IF pc[t] = "release" THEN "await" ELSE "ending"] /\ job' = job
  BY DEF Release, Idle, Goto
<1>2. t \in Thread /\ job[t] \in Actor /\ (t \in Worker <=> t \notin Detached) /\ (t \in Detached => job[t] = t)
  BY <1>0, <1>1, WhoRuns DEF Busy
<1>3. seen[t] = NoWrite
  BY <1>0, <1>1 DEF Threads
<1>4. Others(t)
  BY <1>0, <1>1 DEF Others
<1>5. PICK b \in Actor : b = job[t]
  BY <1>2
<1>6. Leaving(b, t)
  BY <1>0, <1>1, <1>2, <1>3, <1>4, <1>5 DEF Leaving
<1>7. QED
  BY <1>2, <1>6, LeavingKeeps

LEMMA EraseKeeps ==
    ASSUME IInv, Erase, NEW a \in Actor
    PROVE  Kept(a)'
<1>0. Threads /\ pc \in [Thread -> Position] /\ job \in [Thread -> Actor \cup {None}]
  BY DEF IInv, Threads
<1>1. /\ pc[Timer] = "erase" /\ wake[Timer] = None /\ DropRefs(One(job[Timer]), {})
      /\ UNCHANGED <<handle, deque, delayed, seen, wake>>
      /\ pc' = [pc EXCEPT ![Timer] = "poll"] /\ job' = [job EXCEPT ![Timer] = None]
  BY DEF Erase, At, Idle, Goto
<1>2. Timer \in Thread /\ Timer \notin Runner /\ Timer \notin Detached
  BY Constants_ DEF Thread, Runner
<1>3. PICK b \in Actor : b = job[Timer]
  <2>1. WellPlaced(Timer, pc[Timer], job[Timer])
    BY <1>0, <1>2 DEF Threads
  <2>2. QED
    BY <1>1, <1>2, <2>1 DEF WellPlaced, PrivatePc, Busy, Actor
<1>4. Others(Timer)
  BY <1>0, <1>1 DEF Others
<1>5. Leaving(b, Timer)
  BY <1>0, <1>1, <1>2, <1>3, <1>4 DEF Leaving
<1>6. QED
  BY <1>2, <1>5, LeavingKeeps

LEMMA RescheduleKeeps ==
    ASSUME IInv, NEW t \in Thread, Reschedule(t), NEW a \in Actor
    PROVE  Kept(a)'
<1>0. /\ Kept(a) /\ Threads /\ Deques /\ refs \in [Actor -> Int] /\ IsFiniteSet(delayed)
      /\ tstate \in [Detached -> {"active", "await", "shutdown"}]
      /\ wake \in [Thread -> (Actor \X (Runner \cup {None})) \cup {None}]
  BY DEF IInv, Cells, Threads
<1>1. PICK b \in Actor : wake[t] # None /\ b = wake[t][1]
  BY <1>0 DEF Reschedule, Idle
<1>2. /\ wake' = [wake EXCEPT ![t] = None] /\ refs' = [refs EXCEPT ![b] = @ + 1]
      /\ UNCHANGED <<mail, mstate, flags, handle, delayed, pc, job, seen>>
      /\ \/ b \in Detached /\ tstate' = [tstate EXCEPT ![b] = "active"] /\ deque' = deque
         \/ /\ b \in Pooled /\ tstate' = tstate
            /\ \E w \in Worker : \/ deque' = [deque EXCEPT ![w] = Append(@, b)]
                                 \/ deque' = [deque EXCEPT ![w] = <<b>> \o @]
  BY <1>1 DEF Reschedule, OneMore, Resumed, CentralEnqueue, box, local
<1>3. Kept(b) /\ Counted(b) /\ IsAwake(b) /\ ~In(deque, b) /\ ~IsPending(b) /\ Runners(b) = 0
  BY <1>0, <1>1, Known, Counts
<1>4. b \in Pooled <=> b \notin Detached
  BY Constants_ DEF Actor
<1>5. b \in Pooled => Gains(deque, deque', b)
  BY <1>0, <1>2, <1>3, <1>4, PutsOne
<1>6. Others(t) /\ OthersWake(t)
  BY <1>0, <1>2 DEF Others, OthersWake
<1>7. \A x \in Actor : In(deque', x) <=> In(deque, x) \/ (x = b /\ b \in Pooled)
  BY <1>0, <1>2, <1>4, <1>5, InDeques
<1>8. CASE a # b
  <2>1. \A x \in Actor \ {b} : x \in Detached => tstate'[x] = tstate[x]
    BY <1>0, <1>2
  <2>2. Apart({b})
    BY <1>0, <1>2, <1>7, <2>1 DEF Apart, CellsStay
  <2>3. \A u \in Thread : \/ wake'[u] = wake[u]
                          \/ wake[u][1] \in {b} /\ wake'[u] = None
    BY <1>0, <1>1, <1>2
  <2>4. Elsewhere({b}, t)
    BY <1>2, <1>6, <2>2, <2>3 DEF Elsewhere
  <2>5. QED
    BY <1>0, <1>8, <2>4, ElsewhereKept
<1>9. CASE a = b
  <2>1. wake'[t] = None /\ refs'[b] = refs[b] + 1
    BY <1>0, <1>2
  <2>2. b \in Detached => pc[b] \in Between /\ tstate'[b] = "active"
    <3> SUFFICES ASSUME b \in Detached PROVE pc[b] \in Between
      BY <1>0, <1>2, <1>4
    <3>1. b \in Runner /\ b \in Thread /\ job[b] = b /\ WellPlaced(b, pc[b], job[b])
      BY <1>0, WhoRuns DEF Runner
    <3>2. pc[b] \notin Active
      BY <1>0, <1>3, <3>1, Numbers
    <3>3. pc[b] \in PrivatePc
      BY <3>1, Constants_ DEF WellPlaced, Runner
    <3>4. QED
      BY <1>3, <3>2, <3>3 DEF Kept, Closing, IsAwake, PrivatePc, Active, Between
  <2>3. IsPending(b)' <=> b \in Detached
    BY <1>2, <2>2 DEF IsPending
  <2>4. IsAwake(b)'
    BY <1>2, <1>3 DEF IsAwake
  <2>5. WakesIt(t, b) /\ ~WakesIt(t, b)'
    BY <1>1, <2>1 DEF WakesIt
  <2>6. Held(b)' = Held(b) /\ InBit(t, b)' = InBit(t, b) /\ Due(b)' = Due(b) /\ RunsBit(t, b)' = RunsBit(t, b)
    BY <1>2 DEF Held, InBit, Due, RunsBit, InIt, RunsIt
  <2>7. /\ Placed(b) = 0 /\ Pending(b) = 0 /\ WakesBit(t, b) = 1 /\ WakesBit(t, b)' = 0
        /\ Awake(b) = 1 /\ Awake(b)' = 1
    BY <1>3, <2>4, <2>5, Bits, NewBits
  <2>8. Placed(b)' + Pending(b)' = 1 /\ Placed(b)' \in Int /\ Pending(b)' \in Int
    BY <1>3, <1>4, <1>7, <2>3, NewBits
  <2>9. Held(b) \in Int /\ InBit(t, b) \in Int /\ Due(b) \in Int /\ RunsBit(t, b) \in Int
    BY Bits, Known
  <2>10. Owners(t, b)' = Held(b) + Placed(b)' + InBit(t, b) + Due(b) + Pending(b)'
    BY <2>6 DEF Owners
  <2>11. Owners(t, b)' = Owners(t, b) + 1
    BY <2>7, <2>8, <2>9, <2>10 DEF Owners
  <2>12. Hands(t, b)' = Placed(b)' + RunsBit(t, b) + 0 + Pending(b)'
    BY <2>6, <2>7 DEF Hands
  <2>13. Hands(t, b)' = Hands(t, b)
    BY <2>7, <2>8, <2>9, <2>12 DEF Hands
  <2>14. /\ refs'[b] = refs[b] + Owners(t, b)' - Owners(t, b)
         /\ Hands(t, b)' - Hands(t, b) = Awake(b)' - Awake(b)
    BY <2>1, <2>7, <2>11, <2>13, Whole
  <2>15. Counted(b)'
    BY <1>0, <1>2, <1>3, <1>6, <2>14, Balanced
  <2>16. Backed(b)'
    BY <1>2, <1>3, <1>6, <2>5, BackedStep DEF Kept
  <2>17. Closing(b)'
    BY <1>2, <1>3, <2>1, <2>2 DEF Kept, Closing, IsAwake, Between
  <2>18. QED
    BY <1>9, <2>15, <2>16, <2>17 DEF Kept
<1>10. QED
  BY <1>8, <1>9

(* A step of t that changes at most the mail and the flags of actor a, and *)
(* wakes it.                                                               *)
Still(a, t) ==
    /\ Others(t) /\ OthersWake(t)
    /\ InIt(t, a)' <=> InIt(t, a)
    /\ RunsIt(t, a)' <=> RunsIt(t, a)
    /\ IsPending(a)' <=> IsPending(a)
    /\ In(deque', a) <=> In(deque, a)
    /\ refs'[a] = refs[a] /\ handle'[a] = handle[a] /\ delayed' = delayed

LEMMA StillCounted ==
    ASSUME IInv, NEW a \in Actor, NEW t \in Thread, Still(a, t),
           WakesBit(t, a)' - WakesBit(t, a) = Awake(a)' - Awake(a)
    PROVE  Counted(a)'
<1>0. Counted(a) /\ IsFiniteSet(delayed) /\ IsFiniteSet(delayed') /\ Others(t) /\ OthersWake(t)
  BY Known DEF Still
<1>1. /\ Held(a)' = Held(a) /\ Placed(a)' = Placed(a) /\ Pending(a)' = Pending(a) /\ Due(a)' = Due(a)
      /\ InBit(t, a)' = InBit(t, a) /\ RunsBit(t, a)' = RunsBit(t, a)
  BY Bits, NewBits DEF Still, Due
<1>2. Owners(t, a)' = Owners(t, a)
  BY <1>1 DEF Owners
<1>3. Hands(t, a)' - Hands(t, a) = Awake(a)' - Awake(a)
  BY <1>1, Bits, NewBits DEF Hands
<1>4. refs'[a] = refs[a] + Owners(t, a)' - Owners(t, a)
  BY <1>2, Whole DEF Still
<1>5. QED
  BY <1>0, <1>3, <1>4, Balanced

(* An actor stays closed once it is, and what it may still have in its     *)
(* mailbox and flags shows whether it is.                                  *)
Open(b) ==
    /\ mstate'[b] # "open" => mail'[b] = << >>
    /\ mstate[b] = "closed" => mstate'[b] = "closed"
    /\ "terminated" \in flags'[b] => mstate'[b] = "closed"
    /\ \A r \in Runner : job'[r] = b /\ "terminated" \in seen'[r].flags => mstate'[b] = "closed"
    /\ handle[b] # "none" /\ handle'[b] # "none"
    /\ b \in Detached => tstate'[b] = tstate[b] /\ (pc'[b] = pc[b] \/ pc'[b] \in Between)

LEMMA OpenClosing ==
    ASSUME NEW b \in Actor, Closing(b), Open(b)
    PROVE  Closing(b)'
BY DEF Closing, Open, Between

(* What is known of an actor while thread t runs it. *)
LEMMA Turn_ ==
    ASSUME IInv, NEW t \in Runner, pc[t] \in {"run", "yield"}
    PROVE  \E b \in Actor :
              /\ b = job[t] /\ t \in Thread /\ (t \in Detached => b = t) /\ (t \in Worker => b \in Pooled)
              /\ IsAwake(b) /\ mstate[b] = "open" /\ handle[b] # "none" /\ "terminated" \notin flags[b]
              /\ ~In(deque, b) /\ ~IsPending(b)
              /\ InIt(t, b) /\ RunsIt(t, b) /\ \A u \in Thread : ~WakesIt(u, b)
              /\ \A r \in Runner : job[r] = b => "terminated" \notin seen[r].flags
<1>1. Threads /\ pc[t] \in Busy
  BY DEF IInv, Busy
<1>2. PICK b \in Actor : b = job[t]
  BY <1>1, WhoRuns
<1>3. t \in Thread /\ (t \in Detached => b = t) /\ (t \in Worker => b \in Pooled)
  BY <1>1, <1>2, WhoRuns
<1>4. IsAwake(b) /\ ~In(deque, b) /\ ~IsPending(b) /\ Waking(b) = 0
  BY <1>2, <1>3, Known, Counts DEF Active
<1>5. \A u \in Thread : ~WakesIt(u, b)
  BY <1>4, Known, Numbers DEF WakesIt
<1>6. InIt(t, b) /\ RunsIt(t, b)
  BY <1>2 DEF InIt, RunsIt, Holding, Active, Turning
<1>7. Closing(b)
  BY Known
<1>8. QED
  BY <1>2, <1>3, <1>4, <1>5, <1>6, <1>7 DEF IsAwake, Closing

LEMMA HandleKeeps ==
    ASSUME IInv, NEW t \in Runner, DropExpired(t) \/ Handle(t), NEW a \in Actor
    PROVE  Kept(a)'
<1>0. Kept(a) /\ flags \in [Actor -> SUBSET Flag]
  BY DEF IInv, Cells
<1>1. pc[t] = "run"
  BY DEF DropExpired, Handle, Turn, At
<1>2. PICK b \in Actor :
         /\ b = job[t] /\ t \in Thread /\ mstate[b] = "open" /\ handle[b] # "none" /\ "terminated" \notin flags[b]
         /\ \A r \in Runner : job[r] = b => "terminated" \notin seen[r].flags
  BY <1>1, Turn_
<1>3. /\ mail' = [mail EXCEPT ![b] = Tail(@)]
      /\ \/ flags' = flags
         \/ flags' = [flags EXCEPT ![b] = @ \ {"timeout"}]
      /\ UNCHANGED <<mstate, refs, handle, tstate, deque, delayed, pc, job, seen, wake>>
  <2>1. CASE DropExpired(t)
    BY <1>2, <2>1 DEF DropExpired, Popped, cell, local
  <2>2. CASE Handle(t)
    <3> DEFINE x == Head(mail[b])
    <3>1. /\ mail' = [mail EXCEPT ![b] = Tail(@)] /\ flags' = [flags EXCEPT ![b] = FlagsAfter(b, x)]
          /\ UNCHANGED <<mstate, refs, handle, tstate, deque, delayed, pc, job, seen, wake>>
      BY <1>2, <2>2 DEF Handle, Popped
    <3>2. FlagsAfter(b, x) = flags[b] \ {"timeout"} \/ FlagsAfter(b, x) = flags[b]
      BY DEF FlagsAfter
    <3> HIDE DEF x
    <3>3. [flags EXCEPT ![b] = flags[b]] = flags
      BY <1>0
    <3>4. QED
      BY <3>1, <3>2, <3>3
  <2>3. QED
    BY <2>1, <2>2
<1>4. Others(t) /\ OthersWake(t)
  BY <1>3 DEF Others, OthersWake
<1>5. CASE a # b
  <2>1. Apart({b})
    BY <1>0, <1>3 DEF Apart, CellsStay
  <2>2. Elsewhere({b}, t)
    BY <1>3, <1>4, <2>1 DEF Elsewhere
  <2>3. QED
    BY <1>0, <1>2, <1>5, <2>2, ElsewhereKept
<1>6. CASE a = b
  <2>1. Still(b, t)
    BY <1>3, <1>4 DEF Still, InIt, RunsIt, IsPending
  <2>2. WakesBit(t, b)' - WakesBit(t, b) = Awake(b)' - Awake(b)
    <3>1. WakesBit(t, b)' = WakesBit(t, b) /\ Awake(b)' = Awake(b)
      BY <1>3 DEF WakesBit, WakesIt, Awake, IsAwake
    <3>2. QED
      BY <3>1, Bits
  <2>3. Counted(b)'
    BY <1>2, <2>1, <2>2, StillCounted
  <2>4. Backed(b)'
    <3>1. Kept(b)
      BY Known
    <3>2. QED
      BY <1>3, <3>1 DEF Kept, Backed
  <2>5. Open(b)
    BY <1>0, <1>2, <1>3 DEF Open
  <2>6. Closing(b)'
    BY <2>5, Known, OpenClosing
  <2>7. QED
    BY <1>6, <2>3, <2>4, <2>6 DEF Kept
<1>7. QED
  BY <1>5, <1>6

LEMMA HandleAndSendKeeps ==
    ASSUME IInv, NEW t \in Runner, NEW c \in Actor, HandleAndSend(t, c), NEW a \in Actor
    PROVE  Kept(a)'
<1>0. /\ Kept(a) /\ Kept(c) /\ Boxes /\ Threads
      /\ mail \in [Actor -> Seq(Int)] /\ flags \in [Actor -> SUBSET Flag]
  BY Known DEF IInv, Cells, Boxes
<1>1. pc[t] = "run" /\ Idle(t) /\ handle[c] = "held" /\ mail[job[t]] # << >>
  BY DEF HandleAndSend, Turn, At
<1>2. PICK b \in Actor :
         /\ b = job[t] /\ t \in Thread /\ mstate[b] = "open" /\ handle[b] # "none" /\ "terminated" \notin flags[b]
         /\ \A r \in Runner : job[r] = b => "terminated" \notin seen[r].flags
  BY <1>1, Turn_
<1> DEFINE m == [mail EXCEPT ![b] = Tail(@)]
           s == Settling(Head(mail[b]))
           x == sent + 1
           eu == IF t \in Worker THEN t ELSE None
           y == Head(mail[b])
<1>3. /\ Deliver(m, s, t, c, x, eu) /\ flags' = [flags EXCEPT ![b] = FlagsAfter(b, y)]
      /\ UNCHANGED <<refs, handle, tstate, deque, delayed, pc, job, seen>>
  BY <1>2 DEF HandleAndSend, Popped
<1>4. m \in [Actor -> Seq(Int)] /\ \A d \in Actor : d # b => m[d] = mail[d]
  <2>1. Tail(mail[b]) \in Seq(Int)
    BY <1>0, <1>1, <1>2, HeadTailProperties
  <2>2. QED
    BY <1>0, <2>1
<1>5. /\ FlagsAfter(b, y) \subseteq flags[b]
      /\ \A d \in Actor : d # b => flags'[d] = flags[d]
      /\ flags'[b] \subseteq flags[b]
  <2>1. FlagsAfter(b, y) \subseteq flags[b]
    BY DEF FlagsAfter
  <2> HIDE DEF y
  <2>2. QED
    BY <1>0, <1>3, <2>1
<1> HIDE DEF m, s, x, eu, y
<1>6. <<c, eu>> # None
  BY Constants_ DEF eu, Runner
<1>7. /\ \A d \in Actor : d # c => mail'[d] = m[d] /\ mstate'[d] = mstate[d]
      /\ mstate[c] = "closed" => mail'[c] = m[c]
      /\ OthersWake(t) /\ Delivered(t, c)
  BY <1>0, <1>2, <1>3, <1>4, <1>6, DeliverFacts
<1>8. Others(t)
  BY <1>3 DEF Others
<1>9. wake'[t] = None \/ wake'[t][1] = c
  BY <1>1, <1>7 DEF Delivered, Idle
<1>10. CASE a \notin {b, c}
  <2>1. Apart({b, c})
    BY <1>3, <1>4, <1>5, <1>7 DEF Apart, CellsStay
  <2>2. \A u \in Thread : \/ wake'[u] = wake[u]
                          \/ wake[u] = None /\ (wake'[u] = None \/ wake'[u][1] \in {b, c})
    BY <1>1, <1>7, <1>9 DEF OthersWake, Idle
  <2>3. Elsewhere({b, c}, t)
    BY <1>3, <1>8, <2>1, <2>2 DEF Elsewhere
  <2>4. QED
    BY <1>0, <1>2, <1>10, <2>3, ElsewhereKept
<1>11. ASSUME NEW d \in Actor PROVE Still(d, t)
  BY <1>3, <1>7, <1>8 DEF Still, InIt, RunsIt, IsPending
<1>12. CASE a = c
  <2>1. handle[c] # "none" /\ handle'[c] # "none" /\ handle'[c] = "held"
    BY <1>1, <1>3
  <2>2. Counted(c)'
    BY <1>1, <1>2, <1>7, <1>11, <2>1, DeliverBits, StillCounted
  <2>3. Backed(c)'
    BY <1>0, <1>2, <1>7, <1>8, <2>1, BackedStep DEF Kept
  <2>4. Open(c)
    <3>1. mstate'[c] # "open" => mail'[c] = << >> /\ mstate[c] = "closed" /\ mstate'[c] = "closed"
      BY <1>0, <1>2, <1>4, <1>7 DEF Delivered, Kept, Closing
    <3>2. flags'[c] \subseteq flags[c]
      BY <1>5
    <3>3. mstate[c] = "closed" => mstate'[c] = "closed"
      BY <1>7 DEF Delivered
    <3>4. QED
      BY <1>0, <1>3, <2>1, <3>1, <3>2, <3>3 DEF Open, Kept, Closing
  <2>5. Closing(c)'
    BY <1>0, <2>4, OpenClosing DEF Kept
  <2>6. QED
    BY <1>12, <2>2, <2>3, <2>5 DEF Kept
<1>13. CASE a = b /\ b # c
  <2>1. ~WakesIt(t, b) /\ ~WakesIt(t, b)'
    BY <1>1, <1>9, <1>13 DEF WakesIt, Idle
  <2>2. IsAwake(b)' <=> IsAwake(b)
    BY <1>3, <1>7, <1>13 DEF IsAwake
  <2>3. WakesBit(t, b)' - WakesBit(t, b) = Awake(b)' - Awake(b)
    BY <2>1, <2>2, Bits, NewBits
  <2>4. Counted(b)'
    BY <1>2, <1>11, <2>3, StillCounted
  <2>5. Backed(b)'
    BY <1>2, <1>3, <1>7, <1>8, <2>1, Known, BackedStep
  <2>6. Open(b)
    BY <1>2, <1>3, <1>5, <1>7, <1>13 DEF Open
  <2>7. Closing(b)'
    BY <2>6, Known, OpenClosing
  <2>8. QED
    BY <1>13, <2>4, <2>5, <2>7 DEF Kept
<1>14. QED
  BY <1>10, <1>12, <1>13

(* Thread t, which ran b, stays in it until it has let go of it: b sleeps  *)
(* or is closed.                                                           *)
LEMMA TurnEnds ==
    ASSUME IInv, NEW b \in Actor, NEW t \in Thread, RunsIt(t, b), Others(t),
           UNCHANGED <<wake, delayed, handle>>, refs'[b] = refs[b], In(deque', b) <=> In(deque, b),
           InIt(t, b)', ~RunsIt(t, b)', ~IsAwake(b)', ~IsPending(b)'
    PROVE  Counted(b)' /\ Backed(b)'
<1>0. Counted(b) /\ Backed(b) /\ IsFiniteSet(delayed) /\ IsFiniteSet(delayed') /\ OthersWake(t)
  BY Known DEF OthersWake
<1>1. IsAwake(b) /\ ~IsPending(b) /\ Waking(b) = 0
  BY <1>0, Counts DEF RunsIt
<1>2. ~WakesIt(t, b) /\ ~WakesIt(t, b)' /\ InIt(t, b)
  BY <1>0, <1>1, Numbers DEF WakesIt, RunsIt, InIt, Active, Holding, Turning
<1>3. /\ Held(b)' = Held(b) /\ Placed(b)' = Placed(b) /\ Pending(b)' = Pending(b) /\ Due(b)' = Due(b)
      /\ InBit(t, b)' = InBit(t, b) /\ RunsBit(t, b) = 1 /\ RunsBit(t, b)' = 0
      /\ WakesBit(t, b) = 0 /\ WakesBit(t, b)' = 0 /\ Awake(b) = 1 /\ Awake(b)' = 0
  BY <1>1, <1>2, Bits, NewBits DEF Due
<1>4. refs'[b] = refs[b] + Owners(t, b)' - Owners(t, b)
  <2>1. Owners(t, b)' = Owners(t, b)
    BY <1>3 DEF Owners
  <2>2. QED
    BY <2>1, Whole
<1>5. Hands(t, b)' - Hands(t, b) = Awake(b)' - Awake(b)
  <2>1. Hands(t, b) = Placed(b) + 1 + 0 + Pending(b)
    BY <1>3 DEF Hands
  <2>2. Hands(t, b)' = Placed(b) + 0 + 0 + Pending(b)
    BY <1>3 DEF Hands
  <2>3. Placed(b) \in Int /\ Pending(b) \in Int
    BY Bits
  <2>4. QED
    BY <1>3, <2>1, <2>2, <2>3
<1>6. Counted(b)'
  BY <1>0, <1>4, <1>5, Balanced
<1>7. Backed(b)'
  BY <1>0, <1>2, BackedStep
<1>8. QED
  BY <1>6, <1>7

LEMMA HandleAndQuitKeeps ==
    ASSUME IInv, NEW t \in Runner, HandleAndQuit(t), NEW a \in Actor
    PROVE  Kept(a)'
<1>0. Kept(a) /\ Threads /\ pc \in [Thread -> Position]
  BY Known DEF IInv, Threads
<1>1. pc[t] = "run"
  BY DEF HandleAndQuit, Turn, At
<1>2. PICK b \in Actor :
         /\ b = job[t] /\ t \in Thread /\ (t \in Detached => b = t) /\ (t \in Worker => b \in Pooled)
         /\ handle[b] # "none" /\ RunsIt(t, b)
         /\ \A r \in Runner : job[r] = b => "terminated" \notin seen[r].flags
  BY <1>1, Turn_
<1>3. /\ CleanUp({b}) /\ pc' = [pc EXCEPT ![t] = "finish"]
      /\ UNCHANGED <<refs, handle, deque, delayed, job, seen, wake>>
  BY <1>2 DEF HandleAndQuit, Leave, Goto
<1>4. Others(t) /\ pc'[t] = "finish"
  BY <1>0, <1>2, <1>3 DEF Others
<1>5. \A d \in Actor : IF d \in {b} THEN Cleaned(d) ELSE CellsStay(d)
  BY <1>3, CleanUpFacts
<1>6. CASE a # b
  <2>1. Apart({b})
    BY <1>3, <1>5 DEF Apart
  <2>2. Elsewhere({b}, t)
    BY <1>2, <1>3, <1>4, <2>1 DEF Elsewhere
  <2>3. QED
    BY <1>0, <1>2, <1>6, <2>2, ElsewhereKept
<1>7. CASE a = b
  <2>1. Cleaned(b)
    BY <1>5
  <2>2. InIt(t, b)' /\ ~RunsIt(t, b)' /\ ~IsAwake(b)' /\ ~IsPending(b)'
    BY <1>2, <1>3, <1>4, <2>1 DEF InIt, RunsIt, IsAwake, IsPending, Cleaned, Holding, Active
  <2>3. Counted(b)' /\ Backed(b)'
    BY <1>2, <1>3, <1>4, <2>2, TurnEnds
  <2>4. b \in Detached => pc'[b] = "finish" /\ mstate'[b] = "closed"
    BY <1>2, <1>4, <2>1, Constants_ DEF Cleaned, Runner, Actor
  <2>5. Closing(b)'
    BY <1>2, <1>3, <2>1, <2>4, Known, ClosingStep
  <2>6. QED
    BY <1>7, <2>3, <2>5 DEF Kept
<1>8. QED
  BY <1>6, <1>7

LEMMA SleepKeeps ==
    ASSUME IInv, NEW t \in Runner, pc[t] \in {"run", "yield"}, NEW p \in {"tail", "release"},
           pc' = [pc EXCEPT ![t] = p], mail[job[t]] = << >>,
           mstate' = [mstate EXCEPT ![job[t]] = "blocked"],
           UNCHANGED <<mail, flags, refs, handle, tstate, deque, delayed, job, seen, wake>>,
           NEW a \in Actor
    PROVE  Kept(a)'
<1>0. Kept(a) /\ Threads /\ pc \in [Thread -> Position] /\ mstate \in [Actor -> {"open", "blocked", "closed"}]
  BY Known DEF IInv, Cells, Threads
<1>2. PICK b \in Actor :
         /\ b = job[t] /\ t \in Thread /\ (t \in Detached => b = t) /\ (t \in Worker => b \in Pooled)
         /\ mstate[b] = "open" /\ handle[b] # "none" /\ "terminated" \notin flags[b] /\ RunsIt(t, b)
         /\ \A r \in Runner : job[r] = b => "terminated" \notin seen[r].flags
  BY Turn_
<1>3. mail[b] = << >> /\ mstate' = [mstate EXCEPT ![b] = "blocked"]
  BY <1>2
<1>4. Others(t) /\ pc'[t] = p /\ mstate'[b] = "blocked"
  BY <1>0, <1>2, <1>3 DEF Others
<1>5. CASE a # b
  <2>1. Apart({b})
    BY <1>0, <1>3 DEF Apart, CellsStay
  <2>2. Elsewhere({b}, t)
    BY <1>2, <1>4, <2>1 DEF Elsewhere
  <2>3. QED
    BY <1>0, <1>2, <1>5, <2>2, ElsewhereKept
<1>6. CASE a = b
  <2>1. b \in Detached => t = b
    BY <1>2, Constants_ DEF Runner
  <2>2. b \in Detached => tstate[b] # "active"
    <3>1. b \in Detached => pc[b] = "run"
      BY <1>0, <2>1, Constants_, WhoRuns
    <3>2. QED
      BY <3>1, Known DEF Closing
  <2>3. InIt(t, b)' /\ ~RunsIt(t, b)' /\ ~IsAwake(b)' /\ ~IsPending(b)'
    BY <1>2, <1>4, <2>2 DEF InIt, RunsIt, IsAwake, IsPending, Holding, Active
  <2>4. Counted(b)' /\ Backed(b)'
    BY <1>2, <1>4, <2>3, TurnEnds
  <2>5. Open(b)
    BY <1>2, <1>3, <1>4, <2>1 DEF Open, Between
  <2>6. Closing(b)'
    BY <2>5, Known, OpenClosing
  <2>7. QED
    BY <1>6, <2>4, <2>6 DEF Kept
<1>7. QED
  BY <1>5, <1>6

LEMMA BlockKeeps ==
    ASSUME IInv, NEW t \in Runner, Block(t), NEW a \in Actor
    PROVE  Kept(a)'
<1>1. PICK p \in {"tail", "release"} : pc' = [pc EXCEPT ![t] = p]
  BY DEF Block, Leave, Goto
<1>2. /\ pc[t] \in {"run", "yield"} /\ mail[job[t]] = << >>
      /\ mstate' = [mstate EXCEPT ![job[t]] = "blocked"]
      /\ UNCHANGED <<mail, flags, refs, handle, tstate, deque, delayed, job, seen, wake>>
  BY DEF Block, At, CanBlock, cell
<1>3. QED
  BY <1>1, <1>2, SleepKeeps

LEMMA YieldKeeps ==
    ASSUME IInv, NEW t \in Runner, Yield(t), NEW a \in Actor
    PROVE  Kept(a)'
<1>0. /\ Kept(a) /\ Threads /\ Deques /\ pc \in [Thread -> Position]
      /\ job \in [Thread -> Actor \cup {None}] /\ IsFiniteSet(delayed)
  BY Known DEF IInv, Threads, Cells
<1>1. pc[t] = "yield" /\ pc[t] \in {"run", "yield"}
  BY DEF Yield, At
<1>2. PICK b \in Actor :
         /\ b = job[t] /\ t \in Thread /\ (t \in Worker => b \in Pooled) /\ handle[b] # "none"
         /\ ~In(deque, b) /\ ~IsPending(b) /\ InIt(t, b) /\ RunsIt(t, b) /\ IsAwake(b) /\ mstate[b] = "open"
         /\ \A u \in Thread : ~WakesIt(u, b)
  BY <1>1, Turn_
<1>3. t \in Worker /\ b \in Pooled /\ b \notin Detached /\ t \notin Detached
  BY <1>0, <1>1, <1>2, WhoRuns, Constants_
<1>4. CASE CanBlock(job[t])
  <2>1. /\ pc' = [pc EXCEPT ![t] = "release"] /\ mail[job[t]] = << >>
        /\ mstate' = [mstate EXCEPT ![job[t]] = "blocked"]
        /\ UNCHANGED <<mail, flags, refs, handle, tstate, deque, delayed, job, seen, wake>>
    BY <1>4 DEF Yield, CanBlock, Goto
  <2>2. QED
    BY <1>1, <2>1, SleepKeeps
<1>5. CASE ~CanBlock(job[t])
  <2>1. /\ deque' = [deque EXCEPT ![t] = Append(@, b)]
        /\ pc' = [pc EXCEPT ![t] = "poll"] /\ job' = [job EXCEPT ![t] = None]
        /\ UNCHANGED <<mail, mstate, flags, refs, handle, tstate, delayed, seen, wake>>
    BY <1>2, <1>5 DEF Yield, Goto
  <2>2. Gains(deque, deque', b)
    BY <1>0, <1>2, <1>3, <2>1, PutsOne
  <2>3. \A x \in Actor : In(deque', x) <=> In(deque, x) \/ x = b
    BY <1>0, <1>3, <2>2, InDeques
  <2>4. Others(t) /\ OthersWake(t) /\ job'[t] = None /\ b # None
    BY <1>0, <1>2, <2>1, Constants_ DEF Others, OthersWake
  <2>5. CASE a # b
    <3>1. Apart({b})
      BY <2>1, <2>3 DEF Apart, CellsStay
    <3>2. Elsewhere({b}, t)
      BY <1>2, <1>3, <2>1, <2>4, <3>1 DEF Elsewhere
    <3>3. QED
      BY <1>0, <1>2, <2>5, <3>2, ElsewhereKept
  <2>6. CASE a = b
    <3>1. ~InIt(t, b)' /\ ~RunsIt(t, b)' /\ ~WakesIt(t, b)' /\ ~WakesIt(t, b) /\ ~IsPending(b)' /\ IsAwake(b)'
          /\ In(deque', b)
      BY <1>2, <1>3, <2>1, <2>3, <2>4 DEF InIt, RunsIt, WakesIt, IsPending, IsAwake
    <3>2. /\ Held(b)' = Held(b) /\ Placed(b) = 0 /\ Placed(b)' = 1 /\ Pending(b) = 0 /\ Pending(b)' = 0
          /\ Due(b)' = Due(b) /\ InBit(t, b) = 1 /\ InBit(t, b)' = 0 /\ RunsBit(t, b) = 1 /\ RunsBit(t, b)' = 0
          /\ WakesBit(t, b) = 0 /\ WakesBit(t, b)' = 0 /\ Awake(b) = 1 /\ Awake(b)' = 1
      BY <1>2, <2>1, <3>1, Bits, NewBits DEF Due
    <3>3. Held(b) \in Int /\ Due(b) \in Int
      BY Known
    <3>4. Owners(t, b) = Held(b) + 0 + 1 + Due(b) + 0 /\ Owners(t, b)' = Held(b) + 1 + 0 + Due(b) + 0
      BY <3>2 DEF Owners
    <3>5. Hands(t, b) = 0 + 1 + 0 + 0 /\ Hands(t, b)' = 1 + 0 + 0 + 0
      BY <3>2 DEF Hands
    <3>6. Owners(t, b)' = Owners(t, b)
      BY <3>3, <3>4
    <3>7. refs'[b] = refs[b] + Owners(t, b)' - Owners(t, b) /\ Hands(t, b)' - Hands(t, b) = Awake(b)' - Awake(b)
      BY <2>1, <3>2, <3>5, <3>6, Whole
    <3>8. Counted(b)'
      BY <1>0, <1>2, <2>1, <2>4, <3>7, Known, Balanced
    <3>9. Backed(b)'
      BY <1>2, <2>1, <2>4, <3>1, Known, BackedStep
    <3>10. \A r \in Runner : job'[r] = b => job[r] = b /\ seen'[r] = seen[r]
      BY <1>0, <2>1, <2>4 DEF Others, Thread
    <3>11. Closing(b)'
      BY <1>2, <1>3, <2>1, <3>10, Known DEF Closing
    <3>12. QED
      BY <2>6, <3>8, <3>9, <3>11 DEF Kept
  <2>7. QED
    BY <2>5, <2>6
<1>6. QED
  BY <1>4, <1>5

(* Thread t, in b, asks for a timeout of it and writes its flags.          *)
Requesting(b, t, wait) ==
    /\ b = job[t] /\ Idle(t) /\ Others(t) /\ job' = job /\ UNCHANGED <<handle, tstate, deque>>
    /\ RequestTimeout(t, b, wait)
    /\ \A d \in Actor : d # b => flags'[d] = flags[d]
    /\ "terminated" \in flags'[b] => mstate[b] = "closed"
    /\ InIt(t, b) /\ InIt(t, b)' /\ (RunsIt(t, b)' <=> RunsIt(t, b))
    /\ t \in Detached => t = b
    /\ b \in Detached => pc[b] \in Between /\ pc'[b] \in Between
    /\ \A r \in Runner : r # t => seen'[r] = seen[r]
    /\ seen'[t] = seen[t] \/ seen'[t] = NoWrite

LEMMA RequestingKeeps ==
    ASSUME IInv, NEW t \in Runner, NEW b \in Actor, NEW wait \in Wait, Requesting(b, t, wait),
           NEW a \in Actor
    PROVE  Kept(a)'
<1>0. /\ Kept(a) /\ Kept(b) /\ Threads /\ Boxes /\ Timeouts /\ mail \in [Actor -> Seq(Int)]
      /\ context \in [Actor -> Runner \cup {None}] /\ t \in Thread /\ refs \in [Actor -> Int]
  BY Known DEF IInv, Cells, Boxes, Timeouts, Thread
<1>1. /\ b = job[t] /\ Idle(t) /\ Others(t) /\ job' = job /\ UNCHANGED <<handle, tstate, deque>>
      /\ RequestTimeout(t, b, wait)
      /\ \A d \in Actor : d # b => flags'[d] = flags[d]
      /\ "terminated" \in flags'[b] => mstate[b] = "closed"
      /\ InIt(t, b) /\ InIt(t, b)' /\ (RunsIt(t, b)' <=> RunsIt(t, b))
      /\ b \in Detached => pc[b] \in Between /\ pc'[b] \in Between
  BY DEF Requesting
<1>2. handle[b] # "none"
  <2>1. Holders(b) # 0
    BY <1>0, <1>1, Known, Numbers DEF InIt
  <2>2. QED
    BY <2>1, Known
<1>3. /\ \A d \in Actor : d # b => mail'[d] = mail[d] /\ mstate'[d] = mstate[d]
      /\ mstate[b] = "closed" => mail'[b] = mail[b]
      /\ OthersWake(t)
      /\ Delivered(t, b) \/ UNCHANGED <<wake, mail, mstate>>
  <2>1. CASE wait = "zero"
    <3> DEFINE x == -(tid[b] + 1)
               eu == context[b]
    <3>1. Deliver(mail, settled, t, b, x, eu)
      BY <1>1, <2>1 DEF RequestTimeout
    <3>2. <<b, eu>> # None
      BY <1>0, Constants_
    <3> HIDE DEF x, eu
    <3>3. /\ \A d \in Actor : d # b => mail'[d] = mail[d] /\ mstate'[d] = mstate[d]
          /\ mstate[b] = "closed" => mail'[b] = mail[b]
          /\ OthersWake(t) /\ Delivered(t, b)
      BY <1>0, <3>1, <3>2, DeliverFacts
    <3>4. QED
      BY <3>3
  <2>2. CASE wait # "zero"
    BY <1>1, <2>2 DEF RequestTimeout, box, OthersWake
  <2>3. QED
    BY <2>1, <2>2
<1>4. \/ UNCHANGED <<refs, delayed>>
      \/ /\ UNCHANGED <<wake, mail, mstate>>
         /\ refs' = [refs EXCEPT ![b] = @ + 1] /\ delayed' = delayed \cup {<<b, tid[b] + 1>>}
  BY <1>1 DEF RequestTimeout, OneMore, box
<1>5. wake'[t] = None \/ wake'[t][1] = b
  BY <1>1, <1>3 DEF Delivered, Idle
<1>6. CASE a # b
  <2>1. \A d \in Actor \ {b} : refs'[d] = refs[d] /\ DueOf(delayed', d) = DueOf(delayed, d)
    BY <1>0, <1>4 DEF DueOf
  <2>2. Apart({b})
    BY <1>1, <1>3, <2>1 DEF Apart, CellsStay
  <2>3. \A u \in Thread : \/ wake'[u] = wake[u]
                          \/ wake[u] = None /\ (wake'[u] = None \/ wake'[u][1] \in {b})
    BY <1>1, <1>3, <1>5 DEF OthersWake, Idle
  <2>4. job[t] \in {b} \cup {None} /\ job'[t] \in {b} \cup {None} /\ (t \in Detached => t \in {b})
    BY <1>1 DEF Requesting
  <2>5. Elsewhere({b}, t)
    BY <1>1, <2>2, <2>3, <2>4 DEF Elsewhere, Requesting
  <2>6. QED
    BY <1>0, <1>6, <2>5, ElsewhereKept
<1>7. CASE a = b
  <2>1. IsPending(b)' <=> IsPending(b)
    BY <1>1 DEF IsPending
  <2>2. WakesBit(t, b)' - WakesBit(t, b) = Awake(b)' - Awake(b)
    <3>1. CASE Delivered(t, b)
      BY <1>0, <1>1, <1>2, <3>1, DeliverBits
    <3>2. CASE UNCHANGED <<wake, mail, mstate>>
      <4>1. WakesBit(t, b)' = WakesBit(t, b) /\ Awake(b)' = Awake(b)
        BY <1>1, <3>2 DEF WakesBit, WakesIt, Awake, IsAwake
      <4>2. QED
        BY <4>1, Bits
    <3>3. QED
      BY <1>3, <3>1, <3>2
  <2>3. Counted(b)'
    <3>1. CASE UNCHANGED <<refs, delayed>>
      <4>1. Still(b, t)
        BY <1>1, <1>3, <2>1, <3>1 DEF Still
      <4>2. QED
        BY <1>0, <2>2, <4>1, StillCounted
    <3>2. CASE refs' = [refs EXCEPT ![b] = @ + 1] /\ delayed' = delayed \cup {<<b, tid[b] + 1>>}
      <4> DEFINE e == <<b, tid[b] + 1>>
      <4>1. e \notin delayed /\ e[1] = b
        BY <1>0 DEF Timeouts
      <4>2. IsFiniteSet(delayed) /\ delayed' \ {e} = delayed \ {e} /\ e \in delayed'
        BY <1>0, <3>2 DEF Timeouts
      <4> HIDE DEF e
      <4>3. /\ IsFiniteSet(delayed')
            /\ Due(b)' = Due(b) - Bit(e \in delayed /\ e[1] = b) + Bit(e \in delayed' /\ e[1] = b)
        BY <4>2, DueStep
      <4>4. Due(b)' = Due(b) + 1
        BY <4>1, <4>2, <4>3, Known DEF Bit
      <4>5. /\ Held(b)' = Held(b) /\ Placed(b)' = Placed(b) /\ Pending(b)' = Pending(b)
            /\ InBit(t, b)' = InBit(t, b) /\ RunsBit(t, b)' = RunsBit(t, b)
        BY <1>1, <2>1, Bits, NewBits
      <4>6. Held(b) \in Int /\ Placed(b) \in Int /\ Pending(b) \in Int /\ InBit(t, b) \in Int
            /\ Due(b) \in Int /\ RunsBit(t, b) \in Int
        BY Bits, Known
      <4>7. Owners(t, b)' = Held(b) + Placed(b) + InBit(t, b) + (Due(b) + 1) + Pending(b)
        BY <4>4, <4>5 DEF Owners
      <4>8. Owners(t, b)' = Owners(t, b) + 1
        BY <4>6, <4>7 DEF Owners
      <4>9. refs'[b] = refs[b] + Owners(t, b)' - Owners(t, b)
        BY <1>0, <3>2, <4>8, Whole
      <4>10. Hands(t, b)' - Hands(t, b) = Awake(b)' - Awake(b)
        BY <2>2, <4>5, Bits, NewBits DEF Hands
      <4>11. QED
        BY <1>0, <1>1, <1>3, <4>2, <4>3, <4>9, <4>10, Balanced DEF Kept
    <3>3. QED
      BY <1>4, <3>1, <3>2
  <2>4. Backed(b)'
    BY <1>0, <1>1, <1>3, BackedStep DEF Kept
  <2>5. Open(b)
    <3>1. mstate[b] = "closed" => mstate'[b] = "closed"
      BY <1>3 DEF Delivered
    <3>2. mstate'[b] # "open" => mail'[b] = << >>
      BY <1>0, <1>3 DEF Delivered, Kept, Closing
    <3>3. \A r \in Runner : job'[r] = b /\ "terminated" \in seen'[r].flags => mstate[b] = "closed"
      <4>1. NoWrite.flags = {}
        BY DEF NoWrite
      <4>2. \A r \in Runner : seen'[r] = seen[r] \/ seen'[r] = NoWrite
        BY DEF Requesting
      <4>3. QED
        BY <1>0, <1>1, <4>1, <4>2 DEF Kept, Closing
    <3>4. QED
      BY <1>1, <1>2, <3>1, <3>2, <3>3 DEF Open
  <2>6. Closing(b)'
    BY <1>0, <2>5, OpenClosing DEF Kept
  <2>7. QED
    BY <1>7, <2>3, <2>4, <2>6 DEF Kept
<1>8. QED
  BY <1>6, <1>7


LEMMA LimitKeeps ==
    ASSUME IInv, NEW t \in Runner, Limit(t), NEW a \in Actor
    PROVE  Kept(a)'
<1>0. Threads /\ pc \in [Thread -> Position] /\ flags \in [Actor -> SUBSET Flag]
  BY DEF IInv, Threads, Cells
<1>1. pc[t] = "run" /\ t \in Worker /\ Idle(t)
  BY DEF Limit, At, Exhausted
<1>2. PICK b \in Actor :
         /\ b = job[t] /\ t \in Thread /\ (t \in Worker => b \in Pooled) /\ "terminated" \notin flags[b]
         /\ InIt(t, b) /\ RunsIt(t, b)
  BY <1>1, Turn_
<1>3. b \notin Detached /\ t \notin Detached
  BY <1>1, <1>2, Constants_
<1>4. PICK wait \in Wait : /\ flags' = [flags EXCEPT ![b] = NewFlags(b, wait)]
                           /\ RequestTimeout(t, b, wait)
  BY <1>2 DEF Limit, Wait
<1>5. /\ pc' = [pc EXCEPT ![t] = "yield"] /\ job' = job /\ seen' = seen
      /\ UNCHANGED <<handle, tstate, deque>>
  BY DEF Limit, Leave, Goto
<1>6. Others(t) /\ pc'[t] = "yield"
  BY <1>0, <1>2, <1>5 DEF Others
<1>7. InIt(t, b)' /\ RunsIt(t, b)'
  BY <1>2, <1>5, <1>6 DEF InIt, RunsIt, Holding, Turning, Active
<1>8. "terminated" \notin flags'[b] /\ \A d \in Actor : d # b => flags'[d] = flags[d]
  BY <1>0, <1>2, <1>4 DEF NewFlags
<1>9. Requesting(b, t, wait)
  BY <1>1, <1>2, <1>3, <1>4, <1>5, <1>6, <1>7, <1>8 DEF Requesting
<1>10. QED
  BY <1>9, RequestingKeeps

LEMMA TailStoreKeeps ==
    ASSUME IInv, NEW t \in Runner, TailStore(t), NEW a \in Actor
    PROVE  Kept(a)'
<1>0. /\ Threads /\ pc \in [Thread -> Position] /\ flags \in [Actor -> SUBSET Flag]
      /\ seen \in [Runner -> [flags : SUBSET Flag, wait : Wait]]
  BY DEF IInv, Threads, Cells
<1>1. pc[t] = "store" /\ Idle(t)
  BY DEF TailStore, At
<1>2. PICK b \in Actor : b = job[t] /\ t \in Thread /\ (t \in Detached => b = t)
  BY <1>0, <1>1, WhoRuns DEF Busy
<1>3. PICK wait \in Wait : wait = seen[t].wait
  BY <1>0
<1>4. /\ flags' = [flags EXCEPT ![b] = seen[t].flags] /\ RequestTimeout(t, b, wait)
      /\ pc' = [pc EXCEPT ![t] = "release"] /\ job' = job /\ seen' = [seen EXCEPT ![t] = NoWrite]
      /\ UNCHANGED <<handle, tstate, deque>>
  BY <1>2, <1>3 DEF TailStore, Leave, Goto
<1>5. Others(t) /\ pc'[t] = "release"
  BY <1>0, <1>2, <1>4 DEF Others
<1>6. InIt(t, b) /\ InIt(t, b)' /\ ~RunsIt(t, b) /\ ~RunsIt(t, b)'
  BY <1>1, <1>2, <1>4, <1>5 DEF InIt, RunsIt, Holding, Active
<1>7. b \in Detached => t = b
  <2>1. b \in Detached /\ t \in Worker => b \in Pooled
    BY <1>0, <1>1, <1>2, WhoRuns DEF Busy
  <2>2. QED
    BY <1>2, <2>1, Constants_ DEF Runner
<1>8. b \in Detached => pc[b] \in Between /\ pc'[b] \in Between
  BY <1>1, <1>5, <1>7 DEF Between
<1>9. "terminated" \in flags'[b] => mstate[b] = "closed"
  BY <1>0, <1>2, <1>4, Known DEF Closing
<1>10. /\ \A d \in Actor : d # b => flags'[d] = flags[d]
       /\ \A r \in Runner : r # t => seen'[r] = seen[r]
       /\ seen'[t] = NoWrite
  BY <1>0, <1>4
<1>11. Requesting(b, t, wait)
  BY <1>1, <1>2, <1>4, <1>5, <1>6, <1>8, <1>9, <1>10 DEF Requesting
<1>12. QED
  BY <1>11, RequestingKeeps

(* The flags a thread has loaded show whether the actor is closed.         *)
LEMMA TailLoadKeeps ==
    ASSUME IInv, NEW t \in Runner, TailLoad(t), NEW a \in Actor
    PROVE  Kept(a)'
<1>0. /\ Kept(a) /\ Threads /\ pc \in [Thread -> Position]
      /\ seen \in [Runner -> [flags : SUBSET Flag, wait : Wait]]
  BY Known DEF IInv, Threads
<1>1. pc[t] = "tail" /\ Idle(t)
  BY DEF TailLoad, At
<1>2. PICK b \in Actor : b = job[t] /\ t \in Thread /\ (t \in Detached => b = t)
  BY <1>0, <1>1, WhoRuns DEF Busy
<1>3. PICK fl : (fl = flags[b] \ {"timeout"} \/ fl = flags[b] \cup {"timeout"})
                /\ \E wait : seen' = [seen EXCEPT ![t] = [flags |-> fl, wait |-> wait]]
  BY <1>2 DEF TailLoad, NewFlags
<1>4. /\ pc' = [pc EXCEPT ![t] = "store"] /\ job' = job
      /\ UNCHANGED <<mail, mstate, flags, refs, handle, tstate, deque, delayed, wake>>
  BY DEF TailLoad, Goto, box, cell
<1>5. Others(t) /\ OthersWake(t) /\ pc'[t] = "store"
  BY <1>0, <1>2, <1>4 DEF Others, OthersWake
<1>6. seen'[t].flags = fl /\ \A r \in Runner : r # t => seen'[r] = seen[r]
  BY <1>0, <1>3
<1>7. CASE a # b
  <2>1. Apart({b})
    BY <1>4 DEF Apart, CellsStay
  <2>2. Elsewhere({b}, t)
    BY <1>2, <1>4, <1>5, <1>6, <2>1 DEF Elsewhere
  <2>3. QED
    BY <1>0, <1>2, <1>7, <2>2, ElsewhereKept
<1>8. CASE a = b
  <2>1. b \in Detached => t = b
    <3>1. b \in Detached /\ t \in Worker => b \in Pooled
      BY <1>0, <1>1, <1>2, WhoRuns DEF Busy
    <3>2. QED
      BY <1>2, <3>1, Constants_ DEF Runner
  <2>2. /\ InIt(t, b) /\ InIt(t, b)' /\ ~RunsIt(t, b) /\ ~RunsIt(t, b)'
        /\ IsPending(b)' <=> IsPending(b)
    BY <1>1, <1>2, <1>4, <1>5, <2>1 DEF InIt, RunsIt, IsPending, Holding, Active, Between
  <2>3. Still(b, t)
    BY <1>4, <1>5, <2>2 DEF Still
  <2>4. WakesBit(t, b)' - WakesBit(t, b) = Awake(b)' - Awake(b)
    <3>1. WakesBit(t, b)' = WakesBit(t, b) /\ Awake(b)' = Awake(b)
      BY <1>4 DEF WakesBit, WakesIt, Awake, IsAwake
    <3>2. QED
      BY <3>1, Bits
  <2>5. Counted(b)'
    BY <1>2, <2>3, <2>4, StillCounted
  <2>6. Backed(b)'
    <3>1. ~WakesIt(t, b)'
      BY <1>1, <1>4 DEF WakesIt, Idle
    <3>2. QED
      BY <1>2, <1>4, <1>5, <3>1, Known, BackedStep
  <2>7. handle[b] # "none"
    <3>1. Holders(b) # 0
      BY <1>2, <2>2, Known, Numbers DEF InIt
    <3>2. QED
      BY <3>1, Known
  <2>8. Open(b)
    <3>1. \A r \in Runner : job[r] = b /\ "terminated" \in seen'[r].flags => mstate[b] = "closed"
      <4>1. "terminated" \in fl => mstate[b] = "closed"
        BY <1>3, Known DEF Closing
      <4>2. QED
        BY <1>6, <4>1, Known DEF Closing
    <3>2. b \in Detached => pc'[b] \in Between
      BY <1>5, <2>1 DEF Between
    <3>3. QED
      BY <1>4, <2>7, <3>1, <3>2, Known DEF Open, Closing
  <2>9. Closing(b)'
    BY <2>8, Known, OpenClosing
  <2>10. QED
    BY <1>8, <2>5, <2>6, <2>9 DEF Kept
<1>9. QED
  BY <1>7, <1>8


(* Thread t activates b: it runs it, or finds that it has nothing to do.   *)
Activating(t, b) ==
    \/ /\ pc'[t] = "run" /\ UNCHANGED <<mail, mstate, tstate>>
       /\ flags' = [flags EXCEPT ![b] = @ \cup {"initialized"}]
    \/ pc'[t] = "finish" /\ CleanUp({b})

LEMMA ActivateFacts ==
    ASSUME Threads, NEW t \in Runner, NEW b \in Actor, Activate(t, b), "terminated" \notin flags[b]
    PROVE  Activating(t, b) /\ \A u \in Thread : u # t => pc'[u] = pc[u]
<1>1. pc \in [Thread -> Position] /\ t \in Thread
  BY DEF Threads, Thread
<1>2. QED
  BY <1>1 DEF Activate, Activating, Goto, box

LEMMA ActivatingFacts ==
    ASSUME NEW t \in Runner, NEW b \in Actor, Activating(t, b), flags \in [Actor -> SUBSET Flag]
    PROVE  /\ \A a \in Actor \ {b} : CellsStay(a)
           /\ pc'[t] = "finish" => Cleaned(b)
           /\ pc'[t] = "run" => /\ UNCHANGED <<mail, mstate, tstate>>
                                /\ flags'[b] = flags[b] \cup {"initialized"}
<1>1. CASE pc'[t] = "finish" /\ CleanUp({b})
  <2>1. \A a \in Actor : IF a \in {b} THEN Cleaned(a) ELSE CellsStay(a)
    BY <1>1, CleanUpFacts
  <2>2. QED
    BY <1>1, <2>1
<1>2. CASE pc'[t] = "run" /\ UNCHANGED <<mail, mstate, tstate>>
           /\ flags' = [flags EXCEPT ![b] = @ \cup {"initialized"}]
  BY <1>2 DEF CellsStay
<1>3. QED
  BY <1>1, <1>2 DEF Activating

LEMMA TakesHelperKeeps ==
    ASSUME IInv, NEW w \in Worker, Takes(w, Helper), NEW a \in Actor
    PROVE  Kept(a)'
<1>0. /\ Kept(a) /\ Threads /\ Deques /\ pc \in [Thread -> Position] /\ w \in Thread /\ w \notin Detached
  BY Known, Constants_ DEF IInv, Threads, Thread, Runner
<1>1. /\ pc[w] = "poll" /\ Loses(deque, deque', Helper) /\ pc' = [pc EXCEPT ![w] = "left"]
      /\ UNCHANGED <<mail, mstate, flags, tstate, job, refs, handle, delayed, seen, wake>>
  BY DEF Takes, Take, Goto, box
<1>2. job[w] = None
  <2>1. WellPlaced(w, pc[w], job[w])
    BY <1>0 DEF Threads
  <2>2. QED
    BY <1>0, <1>1, <2>1, Constants_ DEF WellPlaced, Runner, Busy
<1>3. Others(w)
  BY <1>0, <1>1 DEF Others
<1>4. \A x \in Actor : In(deque', x) <=> In(deque, x)
  <2>1. Helper \in Job
    BY DEF Job
  <2>2. \A x \in Actor : x # Helper
    BY Constants_
  <2>3. QED
    BY <1>0, <1>1, <2>1, <2>2, JobInDeques
<1>5. Apart({})
  BY <1>1, <1>4 DEF Apart, CellsStay
<1>6. Elsewhere({}, w)
  BY <1>0, <1>1, <1>2, <1>3, <1>5 DEF Elsewhere
<1>7. QED
  BY <1>0, <1>6, ElsewhereKept

LEMMA TakesActorKeeps ==
    ASSUME IInv, NEW w \in Worker, NEW b \in Pooled, Takes(w, b), NEW a \in Actor
    PROVE  Kept(a)'
<1>0. /\ Kept(a) /\ Threads /\ Deques /\ pc \in [Thread -> Position] /\ w \in Thread /\ w \in Runner
      /\ w \notin Detached /\ b \in Actor /\ b \notin Detached /\ b # Helper /\ b # None
      /\ job \in [Thread -> Actor \cup {None}] /\ flags \in [Actor -> SUBSET Flag] /\ IsFiniteSet(delayed)
  BY Known, Constants_ DEF IInv, Threads, Cells, Thread, Runner, Actor
<1>1. /\ pc[w] = "poll" /\ In(deque, b) /\ Loses(deque, deque', b) /\ Activate(w, b)
      /\ job' = [job EXCEPT ![w] = b] /\ UNCHANGED <<refs, handle, delayed, seen, wake>>
  BY <1>0 DEF Takes, Take
<1>2. IsAwake(b) /\ ~IsPending(b) /\ Waking(b) = 0 /\ Runners(b) = 0
  BY <1>0, <1>1, Known, Counts
<1>3. /\ mstate[b] = "open" /\ handle[b] # "none" /\ "terminated" \notin flags[b]
      /\ \A u \in Thread : ~WakesIt(u, b)
  BY <1>0, <1>2, Known, Numbers DEF IsAwake, Closing, WakesIt
<1>4. job[w] = None /\ seen[w] = NoWrite
  <2>1. WellPlaced(w, pc[w], job[w])
    BY <1>0 DEF Threads
  <2>2. QED
    BY <1>0, <1>1, <2>1, Constants_ DEF WellPlaced, Runner, Busy, Threads
<1>5. Activating(w, b) /\ \A u \in Thread : u # w => pc'[u] = pc[u]
  BY <1>0, <1>1, <1>3, ActivateFacts
<1>6. /\ \A c \in Actor \ {b} : CellsStay(c)
      /\ pc'[w] = "finish" => Cleaned(b)
      /\ pc'[w] = "run" => /\ UNCHANGED <<mail, mstate, tstate>>
                           /\ flags'[b] = flags[b] \cup {"initialized"}
      /\ pc'[w] \in {"run", "finish"}
  BY <1>0, <1>5, ActivatingFacts DEF Activating
<1>7. Others(w) /\ OthersWake(w) /\ job'[w] = b
  BY <1>0, <1>1, <1>5 DEF Others, OthersWake
<1>8. \A x \in Actor : In(deque', x) <=> In(deque, x) /\ x # b
  BY <1>0, <1>1, InDeques
<1>9. CASE a # b
  <2>1. Apart({b})
    BY <1>1, <1>6, <1>8 DEF Apart
  <2>2. Elsewhere({b}, w)
    BY <1>0, <1>1, <1>4, <1>7, <2>1 DEF Elsewhere
  <2>3. QED
    BY <1>0, <1>9, <2>2, ElsewhereKept
<1>10. CASE a = b
  <2>1. /\ ~InIt(w, b) /\ ~RunsIt(w, b) /\ InIt(w, b)' /\ (RunsIt(w, b)' <=> pc'[w] = "run")
        /\ ~WakesIt(w, b) /\ ~WakesIt(w, b)' /\ ~In(deque', b) /\ ~IsPending(b)'
    BY <1>0, <1>1, <1>3, <1>4, <1>6, <1>7, <1>8
       DEF InIt, RunsIt, WakesIt, IsPending, Holding, Turning, Active
  <2>2. IsAwake(b)' <=> pc'[w] = "run"
    BY <1>1, <1>2, <1>6 DEF IsAwake, Cleaned
  <2>3. /\ Held(b)' = Held(b) /\ Placed(b) = 1 /\ Placed(b)' = 0 /\ Pending(b) = 0 /\ Pending(b)' = 0
        /\ Due(b)' = Due(b) /\ InBit(w, b) = 0 /\ InBit(w, b)' = 1 /\ RunsBit(w, b) = 0
        /\ WakesBit(w, b) = 0 /\ WakesBit(w, b)' = 0 /\ Awake(b) = 1 /\ RunsBit(w, b)' = Awake(b)'
    BY <1>1, <1>2, <2>1, <2>2, Bits, NewBits DEF Due
  <2>4. Held(b) \in Int /\ Due(b) \in Int /\ Awake(b)' \in Int
    <3>1. Held(b) \in Int /\ Due(b) \in Int
      BY <1>0, Known
    <3>2. Awake(b)' \in Int
      BY NewBits
    <3>3. QED
      BY <3>1, <3>2
  <2>5. Owners(w, b) = Held(b) + 1 + 0 + Due(b) + 0 /\ Owners(w, b)' = Held(b) + 0 + 1 + Due(b) + 0
    BY <2>3 DEF Owners
  <2>6. Hands(w, b) = 1 + 0 + 0 + 0 /\ Hands(w, b)' = 0 + Awake(b)' + 0 + 0
    BY <2>3 DEF Hands
  <2>7. Owners(w, b)' = Owners(w, b)
    BY <2>4, <2>5
  <2>8. /\ refs'[b] = refs[b] + Owners(w, b)' - Owners(w, b)
        /\ Hands(w, b)' - Hands(w, b) = Awake(b)' - Awake(b)
    BY <1>0, <1>1, <2>3, <2>4, <2>6, <2>7, Whole
  <2>a. Counted(b) /\ Backed(b) /\ Closing(b) /\ IsFiniteSet(delayed')
    BY <1>0, <1>1, Known
  <2>9. Counted(b)'
    BY <1>0, <1>7, <2>8, <2>a, Balanced
  <2>10. Backed(b)'
    BY <1>0, <1>1, <1>7, <2>1, Known, BackedStep
  <2>11. \A r \in Runner : job'[r] = b => seen'[r] = NoWrite \/ (job[r] = b /\ seen'[r] = seen[r])
    BY <1>1, <1>4, <1>7 DEF Others, Thread
  <2>12. Closing(b)'
    <3>1. CASE pc'[w] = "run"
      <4>1. Open(b)
        <5>1. NoWrite.flags = {}
          BY DEF NoWrite
        <5>2. \A r \in Runner : job'[r] = b /\ "terminated" \in seen'[r].flags => mstate'[b] = "closed"
          BY <1>6, <2>11, <2>a, <3>1, <5>1 DEF Closing
        <5>3. "terminated" \notin flags'[b]
          BY <1>3, <1>6, <3>1
        <5>4. QED
          BY <1>0, <1>1, <1>3, <1>6, <3>1, <5>2, <5>3 DEF Open
      <4>2. QED
        BY <1>0, <4>1, Known, OpenClosing
    <3>2. CASE pc'[w] = "finish"
      BY <1>0, <1>1, <1>3, <1>6, <2>11, <3>2, Known, ClosingStep
    <3>3. QED
      BY <1>6, <3>1, <3>2
  <2>13. QED
    BY <1>10, <2>9, <2>10, <2>12 DEF Kept
<1>11. QED
  BY <1>9, <1>10


(* The private thread of d moves and changes nothing but its own state.    *)
Private(d) ==
    /\ Others(d) /\ job[d] = d /\ job'[d] = d
    /\ UNCHANGED <<mail, mstate, flags, refs, handle, deque, delayed, seen, wake>>
    /\ \A c \in Detached : c # d => tstate'[c] = tstate[c]

LEMMA PrivateFacts ==
    ASSUME IInv, NEW d \in Detached, NEW p, pc' = [pc EXCEPT ![d] = p], job' = job
    PROVE  /\ Others(d) /\ job[d] = d /\ job'[d] = d /\ pc'[d] = p
           /\ d \in Thread /\ d \in Runner /\ d \in Actor
<1>1. d \in Runner /\ d \in Actor /\ d \in Thread /\ Threads /\ pc \in [Thread -> Position]
  BY DEF IInv, Threads, Runner, Thread, Actor
<1>2. job[d] = d
  BY <1>1, WhoRuns
<1>3. QED
  BY <1>1, <1>2 DEF Others

LEMMA PrivateKeeps ==
    ASSUME IInv, NEW d \in Detached, Private(d),
           \/ InIt(d, d)' = InIt(d, d) /\ RunsIt(d, d)' = RunsIt(d, d) /\ IsPending(d)' = IsPending(d)
           \/ /\ ~InIt(d, d) /\ ~RunsIt(d, d) /\ IsPending(d)
              /\ InIt(d, d)' /\ RunsIt(d, d)' /\ ~IsPending(d)',
           pc'[d] # "none", pc[d] # "none",
           pc'[d] = "top" => tstate'[d] = "active",
           pc'[d] \in {"resume", "run"} => tstate'[d] = "await",
           pc'[d] \in {"finish", "ending", "ended"} => mstate[d] = "closed",
           tstate'[d] = "shutdown" => mstate[d] = "closed",
           NEW a \in Actor
    PROVE  Kept(a)'
<1>0. /\ Kept(a) /\ d \in Runner /\ d \in Thread /\ d \in Actor /\ Kept(d) /\ Counted(d) /\ Backed(d)
      /\ Closing(d) /\ IsFiniteSet(delayed)
  BY Known DEF Runner, Thread, Actor
<1>1. /\ Others(d) /\ job[d] = d /\ job'[d] = d
      /\ UNCHANGED <<mail, mstate, flags, refs, handle, deque, delayed, seen, wake>>
      /\ \A c \in Detached : c # d => tstate'[c] = tstate[c]
  BY DEF Private
<1>2. OthersWake(d)
  BY <1>1 DEF OthersWake
<1>3. CASE a # d
  <2>1. Apart({d})
    BY <1>1 DEF Apart, CellsStay
  <2>2. Elsewhere({d}, d)
    BY <1>1, <2>1 DEF Elsewhere
  <2>3. QED
    BY <1>0, <1>3, <2>2, ElsewhereKept
<1>4. CASE a = d
  <2>1. /\ Held(d)' = Held(d) /\ Placed(d)' = Placed(d) /\ Due(d)' = Due(d) /\ Awake(d)' = Awake(d)
        /\ WakesBit(d, d)' = WakesBit(d, d)
    BY <1>1 DEF Held, Placed, Due, Awake, IsAwake, WakesBit, WakesIt
  <2>2. /\ InBit(d, d)' + Pending(d)' = InBit(d, d) + Pending(d)
        /\ RunsBit(d, d)' + Pending(d)' = RunsBit(d, d) + Pending(d)
    <3>1. CASE InIt(d, d)' = InIt(d, d) /\ RunsIt(d, d)' = RunsIt(d, d) /\ IsPending(d)' = IsPending(d)
      BY <3>1 DEF InBit, RunsBit, Pending
    <3>2. CASE /\ ~InIt(d, d) /\ ~RunsIt(d, d) /\ IsPending(d)
               /\ InIt(d, d)' /\ RunsIt(d, d)' /\ ~IsPending(d)'
      BY <3>2, Bits, NewBits
    <3>3. QED
      BY <3>1, <3>2
  <2>3. /\ Held(d) \in Int /\ Placed(d) \in Int /\ Due(d) \in Int /\ Awake(d) \in Int
        /\ WakesBit(d, d) \in Int /\ InBit(d, d) \in Int /\ RunsBit(d, d) \in Int /\ Pending(d) \in Int
    BY <1>0, Known, Bits
  <2>4. InBit(d, d)' \in Int /\ RunsBit(d, d)' \in Int /\ Pending(d)' \in Int
    BY NewBits
  <2>5. Owners(d, d) = Held(d) + Placed(d) + InBit(d, d) + Due(d) + Pending(d)
    BY DEF Owners
  <2>6. Owners(d, d)' = Held(d) + Placed(d) + InBit(d, d)' + Due(d) + Pending(d)'
    BY <2>1 DEF Owners
  <2>7. Hands(d, d) = Placed(d) + RunsBit(d, d) + WakesBit(d, d) + Pending(d)
    BY DEF Hands
  <2>8. Hands(d, d)' = Placed(d) + RunsBit(d, d)' + WakesBit(d, d) + Pending(d)'
    BY <2>1 DEF Hands
  <2>9. Owners(d, d)' = Owners(d, d) /\ Hands(d, d)' = Hands(d, d)
    BY <2>2, <2>3, <2>4, <2>5, <2>6, <2>7, <2>8
  <2>10. /\ refs'[d] = refs[d] + Owners(d, d)' - Owners(d, d)
         /\ Hands(d, d)' - Hands(d, d) = Awake(d)' - Awake(d)
    <3>1. refs[d] \in Int /\ Owners(d, d) \in Int /\ Hands(d, d) \in Int /\ Awake(d) \in Int
      BY <1>0, Whole
    <3>2. QED
      BY <1>1, <2>1, <2>9, <3>1
  <2>11. Counted(d)'
    BY <1>0, <1>1, <1>2, <2>10, Balanced
  <2>12. Backed(d)'
    <3>1. InIt(d, d) => InIt(d, d)'
      OBVIOUS
    <3>2. WakesIt(d, d)' => handle'[d] = "held" \/ InIt(d, d)'
      BY <1>0, <1>1, <3>1 DEF WakesIt, InIt, Backed
    <3>3. QED
      BY <1>0, <1>1, <1>2, <3>2, BackedStep
  <2>13. Closing(d)'
    <3>1. \A r \in Runner : job'[r] = d => job[r] = d
      BY <1>1 DEF Others, Thread
    <3>2. QED
      BY <1>0, <1>1, <3>1 DEF Closing
  <2>14. QED
    BY <1>4, <2>11, <2>12, <2>13 DEF Kept
<1>5. QED
  BY <1>3, <1>4

LEMMA LoopKeeps ==
    ASSUME IInv, NEW d \in Detached,
           LoopTop(d) \/ AwaitResume(d) \/ AwaitSelfDestroyed(d), NEW a \in Actor
    PROVE  Kept(a)'
<1>0. Closing(d) /\ tstate \in [Detached -> {"active", "await", "shutdown"}]
  BY Known DEF IInv, Cells, Actor
<1>1. CASE LoopTop(d)
  <2>1. /\ pc[d] = "top" /\ pc' = [pc EXCEPT ![d] = "resume"] /\ job' = job
        /\ tstate' = [tstate EXCEPT ![d] = "await"]
        /\ UNCHANGED <<mail, mstate, flags, refs, handle, deque, delayed, seen, wake>>
    BY <1>1 DEF LoopTop, At, Goto, box
  <2>2. Others(d) /\ job[d] = d /\ job'[d] = d /\ pc'[d] = "resume"
    BY <2>1, PrivateFacts
  <2>3. Private(d) /\ tstate'[d] = "await"
    BY <1>0, <2>1, <2>2 DEF Private
  <2>4. /\ InIt(d, d)' = InIt(d, d) /\ RunsIt(d, d)' = RunsIt(d, d) /\ IsPending(d)' = IsPending(d)
    BY <2>1, <2>2 DEF InIt, RunsIt, IsPending, Holding, Active, Between
  <2>5. QED
    BY <2>1, <2>2, <2>3, <2>4, PrivateKeeps
<1>2. CASE AwaitResume(d)
  <2>1. /\ pc[d] = "await" /\ tstate[d] # "await" /\ job' = job
        /\ UNCHANGED <<mail, mstate, flags, refs, handle, tstate, deque, delayed, seen, wake>>
    BY <1>2 DEF AwaitResume, At, box, cell
  <2>2. CASE tstate[d] = "active"
    <3>1. pc' = [pc EXCEPT ![d] = "top"]
      BY <1>2, <2>2 DEF AwaitResume, Goto
    <3>2. Others(d) /\ job[d] = d /\ job'[d] = d /\ pc'[d] = "top"
      BY <2>1, <3>1, PrivateFacts
    <3>3. Private(d)
      BY <2>1, <3>2 DEF Private
    <3>4. /\ ~InIt(d, d) /\ ~RunsIt(d, d) /\ IsPending(d)
          /\ InIt(d, d)' /\ RunsIt(d, d)' /\ ~IsPending(d)'
      BY <2>1, <2>2, <3>2 DEF InIt, RunsIt, IsPending, Holding, Turning, Active, Between, Actor
    <3>5. QED
      BY <2>1, <2>2, <3>2, <3>3, <3>4, PrivateKeeps
  <2>3. CASE tstate[d] = "shutdown"
    <3>1. pc' = [pc EXCEPT ![d] = "ending"]
      BY <1>2, <2>3 DEF AwaitResume, Goto
    <3>2. Others(d) /\ job[d] = d /\ job'[d] = d /\ pc'[d] = "ending"
      BY <2>1, <3>1, PrivateFacts
    <3>3. Private(d)
      BY <2>1, <3>2 DEF Private
    <3>4. /\ InIt(d, d)' = InIt(d, d) /\ RunsIt(d, d)' = RunsIt(d, d) /\ IsPending(d)' = IsPending(d)
      BY <2>1, <2>3, <3>2 DEF InIt, RunsIt, IsPending, Holding, Turning, Active, Between
    <3>5. mstate[d] = "closed"
      BY <1>0, <2>3 DEF Closing
    <3>6. QED
      BY <2>1, <2>3, <3>2, <3>3, <3>4, <3>5, PrivateKeeps
  <2>4. QED
    BY <1>0, <2>1, <2>2, <2>3
<1>3. CASE AwaitSelfDestroyed(d)
  <2>1. /\ pc[d] = "ending" /\ pc' = [pc EXCEPT ![d] = "ended"] /\ job' = job
        /\ UNCHANGED <<mail, mstate, flags, refs, handle, tstate, deque, delayed, seen, wake>>
    BY <1>3 DEF AwaitSelfDestroyed, At, Goto, box, cell
  <2>2. Others(d) /\ job[d] = d /\ job'[d] = d /\ pc'[d] = "ended"
    BY <2>1, PrivateFacts
  <2>3. Private(d)
    BY <2>1, <2>2 DEF Private
  <2>4. /\ InIt(d, d)' = InIt(d, d) /\ RunsIt(d, d)' = RunsIt(d, d) /\ IsPending(d)' = IsPending(d)
    BY <2>1, <2>2 DEF InIt, RunsIt, IsPending, Holding, Turning, Active, Between
  <2>5. mstate[d] = "closed"
    BY <1>0, <2>1 DEF Closing
  <2>6. QED
    BY <2>1, <2>2, <2>3, <2>4, <2>5, PrivateKeeps
<1>4. QED
  BY <1>1, <1>2, <1>3

LEMMA ResumeKeeps ==
    ASSUME IInv, NEW d \in Detached, Resume(d), NEW a \in Actor
    PROVE  Kept(a)'
<1>0. /\ Kept(a) /\ d \in Runner /\ d \in Thread /\ d \in Actor /\ Threads /\ IsFiniteSet(delayed)
      /\ flags \in [Actor -> SUBSET Flag] /\ Closing(d) /\ Counted(d) /\ Backed(d)
  BY Known DEF IInv, Cells, Runner, Thread, Actor
<1>1. /\ pc[d] = "resume" /\ Activate(d, d) /\ job' = job
      /\ UNCHANGED <<refs, handle, deque, delayed, seen, wake>>
  BY DEF Resume, At
<1>2. job[d] = d
  BY <1>0, WhoRuns
<1>3. IsAwake(d) /\ ~IsPending(d) /\ RunsIt(d, d) /\ InIt(d, d)
  BY <1>0, <1>1, <1>2, Counts DEF RunsIt, InIt, Active, Holding, Turning
<1>4. mstate[d] = "open" /\ handle[d] # "none" /\ "terminated" \notin flags[d]
  BY <1>0, <1>3 DEF IsAwake, Closing
<1>5. Activating(d, d) /\ \A u \in Thread : u # d => pc'[u] = pc[u]
  BY <1>0, <1>1, <1>4, ActivateFacts
<1>6. /\ \A c \in Actor \ {d} : CellsStay(c)
      /\ pc'[d] = "finish" => Cleaned(d)
      /\ pc'[d] = "run" => /\ UNCHANGED <<mail, mstate, tstate>>
                           /\ flags'[d] = flags[d] \cup {"initialized"}
      /\ pc'[d] \in {"run", "finish"}
  BY <1>0, <1>5, ActivatingFacts DEF Activating
<1>7. Others(d) /\ OthersWake(d) /\ job'[d] = d
  BY <1>1, <1>2, <1>5 DEF Others, OthersWake
<1>8. CASE a # d
  <2>1. Apart({d})
    BY <1>1, <1>6 DEF Apart
  <2>2. Elsewhere({d}, d)
    BY <1>1, <1>2, <1>7, <2>1 DEF Elsewhere
  <2>3. QED
    BY <1>0, <1>8, <2>2, ElsewhereKept
<1>9. CASE a = d /\ pc'[d] = "run"
  <2>1. Still(d, d)
    <3>1. RunsIt(d, d)' /\ InIt(d, d)' /\ ~IsPending(d)'
      BY <1>7, <1>9 DEF RunsIt, InIt, IsPending, Active, Holding, Turning, Between
    <3>2. QED
      BY <1>1, <1>3, <1>7, <3>1 DEF Still
  <2>2. WakesBit(d, d)' - WakesBit(d, d) = Awake(d)' - Awake(d)
    <3>1. WakesBit(d, d)' = WakesBit(d, d) /\ Awake(d)' = Awake(d)
      BY <1>1, <1>6, <1>9 DEF WakesBit, WakesIt, Awake, IsAwake
    <3>2. QED
      BY <3>1, Bits
  <2>3. Counted(d)'
    BY <1>0, <2>1, <2>2, StillCounted
  <2>4. Backed(d)'
    <3>1. InIt(d, d)'
      BY <1>7, <1>9 DEF InIt, Holding, Turning
    <3>2. QED
      BY <1>0, <1>1, <1>7, <3>1, BackedStep
  <2>5. Closing(d)'
    <3>1. tstate'[d] = "await"
      BY <1>0, <1>1, <1>6, <1>9 DEF Closing
    <3>2. QED
      BY <1>0, <1>1, <1>4, <1>6, <1>9, <3>1 DEF Closing
  <2>6. QED
    BY <1>9, <2>3, <2>4, <2>5 DEF Kept
<1>10. CASE a = d /\ pc'[d] = "finish"
  <2>1. Cleaned(d)
    BY <1>6, <1>10
  <2>2. InIt(d, d)' /\ ~RunsIt(d, d)' /\ ~IsAwake(d)' /\ ~IsPending(d)'
    BY <1>7, <1>10, <2>1 DEF InIt, RunsIt, IsAwake, IsPending, Cleaned, Holding, Active
  <2>3. Counted(d)' /\ Backed(d)'
    BY <1>0, <1>1, <1>3, <1>7, <2>2, TurnEnds
  <2>4. pc'[d] = "finish" /\ mstate'[d] = "closed"
    BY <1>10, <2>1 DEF Cleaned
  <2>5. Closing(d)'
    BY <1>0, <1>1, <1>4, <2>1, <2>4, ClosingStep
  <2>6. QED
    BY <1>10, <2>3, <2>5 DEF Kept
<1>11. QED
  BY <1>6, <1>8, <1>9, <1>10


(* A step that concerns no actor. *)
LEMMA NobodyConcerned ==
    ASSUME IInv, UNCHANGED <<mail, mstate, flags, refs, handle, tstate, delayed, pc, job, seen, wake>>,
           \A x \in Actor : In(deque', x) <=> In(deque, x), NEW a \in Actor
    PROVE  Kept(a)'
<1>1. Kept(a) /\ Program \in Thread
  BY DEF IInv, Thread
<1>2. Apart({})
  BY DEF Apart, CellsStay
<1>3. Elsewhere({}, Program)
  BY <1>2 DEF Elsewhere, Others
<1>4. QED
  BY <1>1, <1>3, ElsewhereKept

LEMMA PlaceHelperKeeps ==
    ASSUME IInv, NEW w \in Worker, PlaceHelper(w), NEW a \in Actor
    PROVE  Kept(a)'
<1>1. /\ deque' = [deque EXCEPT ![w] = Append(@, Helper)]
      /\ UNCHANGED <<mail, mstate, flags, refs, handle, tstate, delayed, pc, job, seen, wake>>
  BY DEF PlaceHelper, box, cell, local
<1>2. Deques /\ deque \in [Worker -> Seq(Job)] /\ Helper \in Job
  BY DEF IInv, Deques, Job
<1>3. Gains(deque, deque', Helper)
  BY <1>1, <1>2, Pushed
<1>4. \A x \in Actor : In(deque', x) <=> In(deque, x)
  <2>1. \A x \in Actor : x # Helper
    BY Constants_
  <2>2. QED
    BY <1>2, <1>3, <2>1, JobInDeques
<1>5. QED
  BY <1>1, <1>4, NobodyConcerned

LEMMA SweepKeeps ==
    ASSUME IInv, Sweep, NEW a \in Actor
    PROVE  Kept(a)'
<1>0. /\ Kept(a) /\ Threads /\ Deques /\ Stops /\ deque \in [Worker -> Seq(Job)] /\ IsFiniteSet(delayed)
      /\ \A j \in Job : Once(deque, j)
      /\ refs \in [Actor -> Int] /\ Program \in Thread
  BY Known DEF IInv, Deques, Job, Thread
<1>1. stop.sweep \in Worker /\ ~In(deque, Helper)
  BY <1>0 DEF Stops, Sweep, Stopping
<1>2. CASE deque[stop.sweep] = << >>
  <2>1. UNCHANGED <<mail, mstate, flags, refs, handle, tstate, deque, delayed, pc, job, seen, wake>>
    BY <1>2 DEF Sweep, box, cell, local
  <2>2. QED
    BY <2>1, NobodyConcerned
<1>3. CASE deque[stop.sweep] # << >>
  <2>1. PICK w \in Worker : w = stop.sweep
    BY <1>1
  <2>2. PICK b \in Job : b = Head(deque[w]) /\ In(deque, b)
                         /\ Loses(deque, [deque EXCEPT ![w] = Tail(@)], b)
    BY <1>0, <1>3, <2>1, Taken
  <2>3. /\ deque' = [deque EXCEPT ![w] = Tail(@)] /\ DropRefs(One(b), {b})
        /\ UNCHANGED <<handle, delayed, pc, job, seen, wake>>
    BY <1>3, <2>1, <2>2 DEF Sweep, local
  <2>4. b \in Pooled /\ b \in Actor /\ b \notin Detached
    BY <1>1, <2>2, Constants_ DEF Job, Actor
  <2>5. \A x \in Actor : In(deque', x) <=> In(deque, x) /\ x # b
    BY <1>0, <2>2, <2>3, <2>4, InDeques
  <2>6. refs'[b] = refs[b] - 1 /\ \A x \in Actor : x # b => refs'[x] = refs[x]
    BY <1>0, <2>3, <2>4 DEF DropRefs, One
  <2>7. \A x \in Actor : IF x \in {b} THEN Cleaned(x) ELSE CellsStay(x)
    <3> DEFINE X == {b} \cup {c \in Actor : One(b)[c] > 0 /\ refs[c] = One(b)[c]}
    <3>1. CleanUp(X)
      BY <2>3 DEF DropRefs
    <3>2. X = {b}
      BY DEF One
    <3> HIDE DEF X
    <3>3. CleanUp({b})
      BY <3>1, <3>2
    <3>4. QED
      BY <3>3, CleanUpFacts
  <2>8. Others(Program) /\ OthersWake(Program)
    BY <2>3 DEF Others, OthersWake
  <2>9. CASE a # b
    <3>1. Apart({b})
      BY <2>3, <2>5, <2>6, <2>7 DEF Apart
    <3>2. Elsewhere({b}, Program)
      BY <2>3, <2>8, <3>1 DEF Elsewhere
    <3>3. QED
      BY <1>0, <2>9, <3>2, ElsewhereKept
  <2>10. CASE a = b
    <3>1. Counted(b) /\ Backed(b) /\ Closing(b) /\ IsFiniteSet(delayed')
      BY <1>0, <2>3, <2>4, Known
    <3>2. IsAwake(b) /\ Waking(b) = 0
      BY <1>0, <2>2, <2>4, <3>1, Counts
    <3>3. Cleaned(b) /\ ~IsAwake(b)' /\ handle[b] # "none" /\ ~IsPending(b) /\ ~IsPending(b)'
          /\ ~In(deque', b)
      BY <2>4, <2>5, <2>7, <3>2 DEF Cleaned, IsAwake, IsPending
    <3>4. /\ InBit(Program, b)' = InBit(Program, b) /\ RunsBit(Program, b)' = RunsBit(Program, b)
          /\ WakesBit(Program, b)' = WakesBit(Program, b) /\ Held(b)' = Held(b) /\ Due(b)' = Due(b)
      BY <2>3 DEF InBit, RunsBit, WakesBit, InIt, RunsIt, WakesIt, Held, Due
    <3>5. /\ Placed(b) = 1 /\ Placed(b)' = 0 /\ Pending(b) = 0 /\ Pending(b)' = 0
          /\ Awake(b) = 1 /\ Awake(b)' = 0
      BY <2>2, <3>2, <3>3, Bits, NewBits
    <3>6. Held(b) \in Int /\ Due(b) \in Int /\ refs[b] \in Int
      BY <2>4, Known
    <3>7. InBit(Program, b) \in Int /\ RunsBit(Program, b) \in Int /\ WakesBit(Program, b) \in Int
      BY Bits
    <3>8. /\ Owners(Program, b) = Held(b) + 1 + InBit(Program, b) + Due(b) + 0
          /\ Owners(Program, b)' = Held(b) + 0 + InBit(Program, b) + Due(b) + 0
      BY <3>4, <3>5 DEF Owners
    <3>9. /\ Hands(Program, b) = 1 + RunsBit(Program, b) + WakesBit(Program, b) + 0
          /\ Hands(Program, b)' = 0 + RunsBit(Program, b) + WakesBit(Program, b) + 0
      BY <3>4, <3>5 DEF Hands
    <3>10. refs'[b] = refs[b] + Owners(Program, b)' - Owners(Program, b)
      BY <2>6, <3>6, <3>7, <3>8
    <3>11. Hands(Program, b)' - Hands(Program, b) = Awake(b)' - Awake(b)
      BY <3>5, <3>7, <3>9
    <3>12. Counted(b)'
      BY <1>0, <2>4, <2>8, <3>1, <3>10, <3>11, Balanced
    <3>13. Backed(b)'
      BY <2>3, <3>1 DEF Backed
    <3>14. Closing(b)'
      BY <2>3, <2>4, <3>1, <3>3, ClosingStep
    <3>15. QED
      BY <2>10, <3>12, <3>13, <3>14 DEF Kept
  <2>11. QED
    BY <2>9, <2>10
<1>4. QED
  BY <1>2, <1>3

LEMMA DueSome ==
    ASSUME IsFiniteSet(delayed), NEW e \in delayed
    PROVE  Due(e[1]) \in Nat /\ Due(e[1]) # 0
<1>1. IsFiniteSet(DueOf(delayed, e[1])) /\ e \in DueOf(delayed, e[1])
  BY FS_Subset DEF DueOf
<1>2. QED
  BY <1>1, FS_EmptySet, FS_CardinalityType DEF Due

LEMMA ExpireKeeps ==
    ASSUME IInv, NEW e \in delayed, Expire(e), NEW a \in Actor
    PROVE  Kept(a)'
<1> DEFINE t == Timer
           x == -e[2]
<1>0. /\ Kept(a) /\ Threads /\ Boxes /\ IsFiniteSet(delayed) /\ pc \in [Thread -> Position]
      /\ job \in [Thread -> Actor \cup {None}] /\ mail \in [Actor -> Seq(Int)]
      /\ delayed \subseteq Actor \X Nat
  BY Known DEF IInv, Threads, Cells, Boxes
<1>1. PICK b \in Actor : b = e[1]
  BY <1>0
<1>2. /\ pc[t] = "poll" /\ Idle(t) /\ delayed' = delayed \ {e}
      /\ Deliver(mail, settled, t, b, x, None)
      /\ job' = [job EXCEPT ![t] = b] /\ pc' = [pc EXCEPT ![t] = "erase"]
      /\ UNCHANGED <<flags, refs, handle, tstate, deque, seen>>
  BY <1>1 DEF Expire, At, Goto, cell
<1>3. t \in Thread /\ t \notin Runner /\ t \notin Detached /\ <<b, None>> # None /\ b # None
  BY Constants_ DEF Thread, Runner
<1>4. job[t] = None
  <2>1. WellPlaced(t, pc[t], job[t])
    BY <1>0, <1>3 DEF Threads
  <2>2. QED
    BY <1>2, <1>3, <2>1, Constants_ DEF WellPlaced, Runner, Busy
<1> HIDE DEF t, x
<1>5. /\ \A c \in Actor : c # b => mail'[c] = mail[c] /\ mstate'[c] = mstate[c]
      /\ mstate[b] = "closed" => mail'[b] = mail[b]
      /\ OthersWake(t) /\ Delivered(t, b)
  BY <1>0, <1>2, <1>3, DeliverFacts
<1>6. Others(t) /\ job'[t] = b /\ pc'[t] = "erase"
  BY <1>0, <1>2, <1>3 DEF Others
<1>7. CASE a # b
  <2>1. \A c \in Actor \ {b} : DueOf(delayed', c) = DueOf(delayed, c)
    BY <1>1, <1>2 DEF DueOf
  <2>2. Apart({b})
    BY <1>2, <1>5, <2>1 DEF Apart, CellsStay
  <2>3. \A u \in Thread : \/ wake'[u] = wake[u]
                          \/ wake[u] = None /\ (wake'[u] = None \/ wake'[u][1] \in {b})
    BY <1>2, <1>5 DEF OthersWake, Delivered, Idle
  <2>4. Elsewhere({b}, t)
    BY <1>2, <1>3, <1>4, <1>6, <2>2, <2>3 DEF Elsewhere
  <2>5. QED
    BY <1>0, <1>3, <1>7, <2>4, ElsewhereKept
<1>8. CASE a = b
  <2>1. Due(b) \in Nat /\ Due(b) # 0
    BY <1>0, <1>1, DueSome
  <2>2. handle[b] # "none" /\ handle'[b] # "none"
    <3>1. refs[b] # 0
      BY <2>1, Known
    <3>2. QED
      BY <1>2, <3>1, Known
  <2>3. IsFiniteSet(delayed') /\ Due(b)' = Due(b) - 1
    <3>1. delayed' \ {e} = delayed \ {e} /\ e \notin delayed'
      BY <1>2
    <3>2. /\ IsFiniteSet(delayed')
          /\ Due(b)' = Due(b) - Bit(e \in delayed /\ e[1] = b) + Bit(e \in delayed' /\ e[1] = b)
      BY <1>0, <3>1, DueStep
    <3>3. QED
      BY <1>1, <2>1, <3>1, <3>2 DEF Bit
  <2>4. WakesBit(t, b)' - WakesBit(t, b) = Awake(b)' - Awake(b)
    BY <1>2, <1>3, <1>5, <2>2, DeliverBits
  <2>5. /\ ~InIt(t, b) /\ InIt(t, b)' /\ ~RunsIt(t, b) /\ ~RunsIt(t, b)'
        /\ IsPending(b)' <=> IsPending(b)
    BY <1>0, <1>2, <1>3, <1>4, <1>6 DEF InIt, RunsIt, IsPending, Holding, Active
  <2>6. /\ Held(b)' = Held(b) /\ Placed(b)' = Placed(b) /\ Pending(b)' = Pending(b)
        /\ InBit(t, b) = 0 /\ InBit(t, b)' = 1 /\ RunsBit(t, b) = 0 /\ RunsBit(t, b)' = 0
    BY <1>2, <2>5, Bits, NewBits
  <2>7. Held(b) \in Int /\ Placed(b) \in Int /\ Pending(b) \in Int
    BY Known
  <2>8. WakesBit(t, b) \in Int /\ WakesBit(t, b)' \in Int
    BY Bits, NewBits
  <2>9. Owners(t, b) = Held(b) + Placed(b) + 0 + Due(b) + Pending(b)
    BY <2>6 DEF Owners
  <2>10. Owners(t, b)' = Held(b) + Placed(b) + 1 + (Due(b) - 1) + Pending(b)
    BY <2>3, <2>6 DEF Owners
  <2>11. Hands(t, b) = Placed(b) + 0 + WakesBit(t, b) + Pending(b)
    BY <2>6 DEF Hands
  <2>12. Hands(t, b)' = Placed(b) + 0 + WakesBit(t, b)' + Pending(b)
    BY <2>6 DEF Hands
  <2>13. Hands(t, b)' - Hands(t, b) = WakesBit(t, b)' - WakesBit(t, b)
    BY <2>7, <2>8, <2>11, <2>12
  <2>14. Owners(t, b)' = Owners(t, b)
    BY <2>1, <2>7, <2>9, <2>10
  <2>15. refs'[b] = refs[b] + Owners(t, b)' - Owners(t, b)
    BY <1>2, <2>14, Whole
  <2>16. Counted(b)'
    BY <1>0, <1>3, <1>5, <1>6, <2>3, <2>4, <2>13, <2>15, Known, Balanced
  <2>17. Backed(b)'
    BY <1>2, <1>3, <1>5, <1>6, <2>5, Known, BackedStep
  <2>18. Open(b)
    <3>1. mstate[b] = "closed" => mstate'[b] = "closed"
      BY <1>5 DEF Delivered
    <3>2. mstate'[b] # "open" => mail'[b] = << >>
      BY <1>5, Known DEF Delivered, Closing
    <3>3. \A r \in Runner : job'[r] = b => job[r] = b /\ seen'[r] = seen[r]
      BY <1>2, <1>3, <1>6 DEF Others, Thread
    <3>4. b \in Detached => b # t /\ b \in Thread
      BY <1>3 DEF Thread, Runner
    <3>5. QED
      BY <1>2, <1>6, <2>2, <3>1, <3>2, <3>3, <3>4, Known DEF Open, Closing, Others
  <2>19. Closing(b)'
    BY <2>18, Known, OpenClosing
  <2>20. QED
    BY <1>8, <2>16, <2>17, <2>19 DEF Kept
<1>9. QED
  BY <1>7, <1>8


(* The timer lets go of all its references at once. *)
LEMMA StopTimerKeeps ==
    ASSUME IInv, StopTimer, NEW a \in Actor
    PROVE  Kept(a)'
<1> DEFINE t == Timer
           drops == [c \in Actor |-> Cardinality({e \in delayed : e[1] = c})]
           X == {} \cup {c \in Actor : drops[c] > 0 /\ refs[c] = drops[c]}
<1>0. /\ Kept(a) /\ Counted(a) /\ Backed(a) /\ Closing(a) /\ Threads /\ IsFiniteSet(delayed)
      /\ pc \in [Thread -> Position] /\ job \in [Thread -> Actor \cup {None}] /\ refs[a] \in Nat
      /\ t \in Thread /\ t \notin Runner /\ t \notin Detached /\ a # None
  BY Known, Constants_ DEF IInv, Threads, Thread, Runner
<1>1. /\ pc[t] = "poll" /\ pc' = [pc EXCEPT ![t] = "left"] /\ DropRefs(drops, {}) /\ delayed' = {}
      /\ UNCHANGED <<handle, deque, job, seen, wake>>
  BY DEF StopTimer, At, Goto
<1>2. job[t] = None
  <2>1. WellPlaced(t, pc[t], job[t])
    BY <1>0 DEF Threads
  <2>2. QED
    BY <1>0, <1>1, <2>1, Constants_ DEF WellPlaced, Runner, Busy
<1>3. drops[a] = Due(a)
  BY DEF Due, DueOf
<1>4. CleanUp(X) /\ refs'[a] = refs[a] - Due(a)
  BY <1>1, <1>3 DEF DropRefs
<1>5. a \in X <=> Due(a) > 0 /\ refs[a] = Due(a)
  BY <1>3
<1> HIDE DEF t, drops, X
<1>6. IF a \in X THEN Cleaned(a) ELSE CellsStay(a)
  BY <1>4, CleanUpFacts
<1>7. IsFiniteSet(delayed') /\ Due(a)' = 0
  <2>1. DueOf(delayed', a) = {}
    BY <1>1 DEF DueOf
  <2>2. QED
    BY <1>1, <2>1, FS_EmptySet DEF Due
<1>8. Others(t) /\ OthersWake(t) /\ pc'[t] = "left"
  BY <1>0, <1>1 DEF Others, OthersWake
<1>9. /\ ~InIt(t, a) /\ ~InIt(t, a)' /\ ~RunsIt(t, a) /\ ~RunsIt(t, a)'
      /\ WakesIt(t, a)' <=> WakesIt(t, a)
  BY <1>0, <1>1, <1>2 DEF InIt, RunsIt, WakesIt
<1>10. a \in Detached => a \in Thread /\ a \in Runner /\ pc'[a] = pc[a] /\ job[a] = a /\ job'[a] = a
  <2>1. a \in Detached => a \in Thread /\ a \in Runner /\ job[a] = a
    BY <1>0, WhoRuns DEF Thread, Runner
  <2>2. QED
    BY <1>0, <1>1, <1>8, <2>1 DEF Others
<1>11. /\ Held(a)' = Held(a) /\ Placed(a)' = Placed(a) /\ InBit(t, a)' = 0 /\ InBit(t, a) = 0
       /\ RunsBit(t, a)' = 0 /\ RunsBit(t, a) = 0 /\ WakesBit(t, a)' = WakesBit(t, a)
  BY <1>1, <1>9, Bits, NewBits
<1>12. /\ Held(a) \in Int /\ Placed(a) \in Int /\ Pending(a) \in Int /\ Due(a) \in Int /\ refs[a] \in Int
       /\ WakesBit(t, a) \in Int /\ Awake(a) \in Int
  BY Known, Bits
<1>13. ASSUME Pending(a)' = Pending(a) PROVE refs'[a] = refs[a] + Owners(t, a)' - Owners(t, a)
  <2>1. Owners(t, a)' = Held(a) + Placed(a) + 0 + 0 + Pending(a)
    BY <1>7, <1>11, <1>13 DEF Owners
  <2>2. Owners(t, a) = Held(a) + Placed(a) + 0 + Due(a) + Pending(a)
    BY <1>11 DEF Owners
  <2>3. QED
    BY <1>4, <1>12, <2>1, <2>2
<1>14. Backed(a)'
  <2>1. WakesIt(t, a)' => handle'[a] = "held"
    BY <1>0, <1>1, <1>9 DEF Backed, WakesIt, InIt
  <2>2. QED
    BY <1>0, <1>1, <1>8, <2>1, BackedStep
<1>15. CASE a \in X
  <2>1. Cleaned(a) /\ ~IsAwake(a)' /\ ~IsPending(a)' /\ refs'[a] = 0
    BY <1>4, <1>5, <1>6, <1>12, <1>15 DEF Cleaned, IsAwake, IsPending
  <2>2. Pending(a) = 0
    <3>1. PICK h \in Nat, p \in Nat, i \in Nat, d \in Nat, q \in Nat :
             h = Held(a) /\ p = Placed(a) /\ i = Holders(a) /\ d = Due(a) /\ q = Pending(a)
      BY Known
    <3>2. d = h + p + i + d + q
      BY <1>5, <1>15, <3>1, Known
    <3>3. q = 0
      BY ONLY <3>2
    <3>4. QED
      BY <3>1, <3>3
  <2>3. Pending(a)' = Pending(a)
    BY <2>1, <2>2, NewBits
  <2>4. /\ Counted(a)' /\ \A u \in Thread : ~(job'[u] = a /\ pc'[u] \in Holding)
    BY <1>0, <1>7, <1>8, <1>13, <1>14, <2>1, <2>3, LastOut
  <2>5. handle[a] # "none"
    <3>1. refs[a] # 0
      BY <1>5, <1>12, <1>15
    <3>2. QED
      BY <3>1, Known
  <2>6. a \in Detached => pc'[a] \in Between \cup {"finish", "ending", "ended"} /\ mstate'[a] = "closed"
    <3> SUFFICES ASSUME a \in Detached
                 PROVE  pc'[a] \in Between \cup {"finish", "ending", "ended"} /\ mstate'[a] = "closed"
      OBVIOUS
    <3>1. pc[a] \in PrivatePc /\ pc[a] # "none"
      <4>1. WellPlaced(a, pc[a], job[a])
        BY <1>0, <1>10, WhoRuns
      <4>2. QED
        BY <1>0, <1>10, <2>5, <4>1, Constants_ DEF WellPlaced, Runner, Closing
    <3>2. pc[a] \notin Holding
      BY <1>10, <2>4
    <3>3. QED
      BY <1>10, <2>1, <3>1, <3>2 DEF PrivatePc, Holding, Turning, Between, Cleaned
  <2>7. Closing(a)'
    BY <1>0, <1>1, <2>1, <2>5, <2>6, ClosingStep
  <2>8. QED
    BY <1>14, <2>4, <2>7 DEF Kept
<1>16. CASE a \notin X
  <2>1. CellsStay(a)
    BY <1>6, <1>16
  <2>2. (IsPending(a)' <=> IsPending(a)) /\ (IsAwake(a)' <=> IsAwake(a))
    BY <1>1, <1>10, <2>1 DEF IsPending, IsAwake, CellsStay
  <2>3. Pending(a)' = Pending(a) /\ Awake(a)' = Awake(a)
    BY <2>2, Bits, NewBits
  <2>4. Hands(t, a)' = Placed(a) + 0 + WakesBit(t, a) + Pending(a)
        /\ Hands(t, a) = Placed(a) + 0 + WakesBit(t, a) + Pending(a)
    BY <1>11, <2>3 DEF Hands
  <2>5. Hands(t, a)' - Hands(t, a) = Awake(a)' - Awake(a)
    BY <1>12, <2>3, <2>4
  <2>6. Counted(a)'
    BY <1>0, <1>7, <1>8, <1>13, <2>3, <2>5, Balanced
  <2>7. Closing(a)'
    <3>1. handle[a] = "none" => refs'[a] = 0
      BY <1>4, NotLaunched
    <3>2. QED
      BY <1>0, <1>1, <1>10, <2>1, <3>1 DEF Closing, CellsStay
  <2>8. QED
    BY <1>14, <2>6, <2>7 DEF Kept
<1>17. QED
  BY <1>15, <1>16

LEMMA RunKeeps ==
    ASSUME IInv, NEW t \in Runner, Run(t), NEW a \in Actor
    PROVE  Kept(a)'
<1>1. t \in Thread
  BY DEF Thread
<1>2. QED
  BY <1>1, HandleKeeps, HandleAndQuitKeeps, HandleAndSendKeeps, BlockKeeps, LimitKeeps, YieldKeeps,
     TailLoadKeeps, TailStoreKeeps, ReleaseKeeps, RescheduleKeeps DEF Run

LEMMA KeptKept == IInv /\ [Next]_vars => \A a \in Actor : Kept(a)'
<1> SUFFICES ASSUME IInv, [Next]_vars, NEW a \in Actor PROVE Kept(a)'
  OBVIOUS
<1>1. CASE BeginStop \/ WorkerReported \/ UNCHANGED vars
  <2>1. UNCHANGED <<mail, mstate, flags, refs, handle, tstate, deque, delayed, pc, job, seen, wake>>
    BY <1>1 DEF BeginStop, WorkerReported, vars, box, cell, local
  <2>2. QED
    BY <2>1, NobodyConcerned
<1>2. ASSUME NEW b \in Actor, Launch(b) \/ LaunchLazily(b) \/ Send(b) \/ DropHandle(b)
      PROVE  Kept(a)'
  BY <1>2, LaunchKeeps, LaunchLazilyKeeps, SendKeeps, DropHandleKeeps
<1>3. CASE StopStep
  <2>1. Program \in Thread
    BY DEF Thread
  <2>2. QED
    BY <1>1, <1>3, <2>1, RescheduleKeeps, StopTimerKeeps, SweepKeeps, PlaceHelperKeeps DEF StopStep
<1>4. CASE TimerStep
  <2>1. Timer \in Thread
    BY DEF Thread
  <2>2. QED
    BY <1>4, <2>1, RescheduleKeeps, EraseKeeps, ExpireKeeps DEF TimerStep
<1>5. ASSUME NEW w \in Worker, WorkerStep(w) PROVE Kept(a)'
  <2>1. w \in Runner
    BY DEF Runner
  <2>2. CASE TakeOwn(w) \/ \E v \in Worker : Steal(w, v)
    <3>1. PICK j \in Job : Takes(w, j)
      BY <2>2, TakeSteps DEF IInv
    <3>2. QED
      BY <3>1, TakesHelperKeeps, TakesActorKeeps DEF Job
  <2>3. QED
    BY <1>5, <2>1, <2>2, RunKeeps DEF WorkerStep
<1>6. ASSUME NEW d \in Detached, PrivateStep(d) PROVE Kept(a)'
  <2>1. d \in Runner
    BY DEF Runner
  <2>2. QED
    BY <1>6, <2>1, RunKeeps, LoopKeeps, ResumeKeeps DEF PrivateStep
<1>7. QED
  BY <1>1, <1>2, <1>3, <1>4, <1>5, <1>6 DEF Next, ProgramStep


-----------------------------------------------------------------------------
(* The bounds *)

(* What waits for an actor and what it may yet handle, against what was    *)
(* sent and asked for.                                                     *)
Load(a) == Len(mail[a]) + Due(a)
Earned(a) == sent + tid[a]

(* What runner r has handled of actor a: as before, nothing yet, or one    *)
(* message more, which it took from what waits.                            *)
Spends(r, a) ==
    \/ burst'[r] = 0
    \/ job[r] = a /\ burst'[r] = burst[r] /\ (pc'[r] = "run" => pc[r] = "run")
    \/ /\ job[r] = a /\ pc[r] = "run" /\ burst'[r] = burst[r] + 1
       /\ Load(a)' + 1 + Earned(a) <= Load(a) + Earned(a)'

Charged(a) ==
    /\ Load(a)' + Earned(a) <= Load(a) + Earned(a)'
    /\ Earned(a) <= Earned(a)'
    /\ \A i \in 1 .. Len(mail'[a]) : mail'[a][i] <= sent'
    /\ tid'[a] + Cardinality(Asking(a)') <= MaxTimeouts
    /\ \A r \in Runner : job'[r] = a => Spends(r, a)

Typed == Threads /\ Cells /\ sent \in Nat

LEMMA Amounts ==
    ASSUME Typed, NEW a \in Actor
    PROVE  /\ Len(mail[a]) \in Nat /\ Due(a) \in Nat /\ Load(a) \in Nat /\ tid[a] \in Nat /\ Earned(a) \in Nat
           /\ \A r \in Runner : burst[r] \in Nat
<1>1. Len(mail[a]) \in Nat /\ tid[a] \in Nat /\ sent \in Nat /\ \A r \in Runner : burst[r] \in Nat
  BY LenProperties DEF Typed, Cells, Threads
<1>2. Due(a) \in Nat
  BY Numbers DEF Typed, Cells
<1>3. Load(a) \in Nat /\ Earned(a) \in Nat
  <2>1. /\ \A i, k \in Nat : i + k \in Nat
        /\ Load(a) = Len(mail[a]) + Due(a) /\ Earned(a) = sent + tid[a]
    BY DEF Load, Earned
  <2>2. QED
    BY <1>1, <1>2, <2>1
<1>4. QED
  BY <1>1, <1>2, <1>3

LEMMA NewAmounts ==
    ASSUME Typed', NEW a \in Actor
    PROVE  /\ Len(mail'[a]) \in Nat /\ Due(a)' \in Nat /\ Load(a)' \in Nat /\ tid'[a] \in Nat
           /\ Earned(a)' \in Nat
           /\ \A r \in Runner : burst'[r] \in Nat
<1>1. Len(mail'[a]) \in Nat /\ tid'[a] \in Nat /\ sent' \in Nat /\ \A r \in Runner : burst'[r] \in Nat
  BY LenProperties DEF Typed, Cells, Threads
<1>2. Due(a)' \in Nat
  <2>1. IsFiniteSet(DueOf(delayed', a))
    BY FS_Subset DEF DueOf, Typed, Cells
  <2>2. QED
    BY <2>1, FS_CardinalityType DEF Due
<1>3. Load(a)' \in Nat /\ Earned(a)' \in Nat
  <2>1. /\ \A i, k \in Nat : i + k \in Nat
        /\ Load(a)' = Len(mail'[a]) + Due(a)' /\ Earned(a)' = sent' + tid'[a]
    BY DEF Load, Earned
  <2>2. QED
    BY <1>1, <1>2, <2>1
<1>4. QED
  BY <1>1, <1>2, <1>3

LEMMA BudgetStep ==
    ASSUME Typed, Typed', NEW a \in Actor, Budget(a), Charged(a)
    PROVE  Budget(a)'
<1>1. /\ Load(a) \in Nat /\ Earned(a) \in Nat /\ Load(a)' \in Nat /\ Earned(a)' \in Nat
      /\ \A r \in Runner : burst[r] \in Nat /\ burst'[r] \in Nat
  BY Amounts, NewAmounts
<1>2. /\ Load(a) <= Earned(a)
      /\ \A r \in Runner : job[r] = a /\ pc[r] = "run" => burst[r] + Load(a) <= Earned(a)
      /\ \A r \in Runner : job[r] = a => burst[r] <= Earned(a)
  <2>1. /\ Len(mail[a]) \in Int /\ Due(a) \in Int /\ sent \in Int /\ tid[a] \in Int
        /\ \A r \in Runner : burst[r] \in Int
    BY Amounts DEF Typed
  <2>2. /\ Len(mail[a]) + Due(a) <= sent + tid[a]
        /\ \A t \in Runner : job[t] = a /\ pc[t] = "run" =>
              burst[t] + Len(mail[a]) + Due(a) <= sent + tid[a]
        /\ \A t \in Runner : job[t] = a => burst[t] <= sent + tid[a]
    BY DEF Budget
  <2>3. Load(a) = Len(mail[a]) + Due(a) /\ Earned(a) = sent + tid[a]
    BY DEF Load, Earned
  <2>4. QED
    BY <2>1, <2>2, <2>3
<1>3. /\ Load(a)' + Earned(a) <= Load(a) + Earned(a)'
      /\ Earned(a) <= Earned(a)'
      /\ \A r \in Runner : job'[r] = a => Spends(r, a)
  BY DEF Charged
<1>4. Load(a)' <= Earned(a)'
  BY <1>1, <1>2, <1>3
<1>5. ASSUME NEW r \in Runner, job'[r] = a
      PROVE  burst'[r] <= Earned(a)' /\ (pc'[r] = "run" => burst'[r] + Load(a)' <= Earned(a)')
  <2>1. CASE burst'[r] = 0
    BY <1>1, <1>4, <2>1
  <2>2. CASE job[r] = a /\ burst'[r] = burst[r] /\ (pc'[r] = "run" => pc[r] = "run")
    BY <1>1, <1>2, <1>3, <2>2
  <2>3. CASE /\ job[r] = a /\ pc[r] = "run" /\ burst'[r] = burst[r] + 1
             /\ Load(a)' + 1 + Earned(a) <= Load(a) + Earned(a)'
    BY <1>1, <1>2, <1>3, <2>3
  <2>4. QED
    BY <1>3, <1>5, <2>1, <2>2, <2>3 DEF Spends
<1>6. Load(a)' = Len(mail'[a]) + Due(a)' /\ Earned(a)' = sent' + tid'[a]
  BY DEF Load, Earned
<1>7. Len(mail'[a]) + Due(a)' <= sent' + tid'[a]
  BY <1>4, <1>6
<1>8. \A r \in Runner : job'[r] = a /\ pc'[r] = "run" =>
          burst'[r] + Len(mail'[a]) + Due(a)' <= sent' + tid'[a]
  <2>1. Len(mail'[a]) \in Int /\ Due(a)' \in Int /\ \A r \in Runner : burst'[r] \in Int
    BY NewAmounts
  <2>2. QED
    BY <1>5, <1>6, <2>1
<1>9. \A r \in Runner : job'[r] = a => burst'[r] <= sent' + tid'[a]
  BY <1>5, <1>6
<1>10. QED
  BY <1>7, <1>8, <1>9 DEF Charged, Budget

(* Messages taken, thrown away and put into a mailbox. *)
LEMMA LessMail ==
    ASSUME NEW s \in Seq(Int), s # << >>, NEW n \in Nat, \A i \in 1 .. Len(s) : s[i] <= n
    PROVE  /\ Tail(s) \in Seq(Int) /\ Len(Tail(s)) = Len(s) - 1 /\ Len(s) \in Nat
           /\ \A i \in 1 .. Len(Tail(s)) : Tail(s)[i] <= n
           /\ Head(s) \in Int /\ Head(s) <= n
<1>1. /\ Tail(s) \in Seq(Int) /\ Len(Tail(s)) = Len(s) - 1 /\ Head(s) = s[1] /\ Head(s) \in Int
      /\ Len(s) \in Nat /\ Len(s) # 0
      /\ \A i \in 1 .. Len(Tail(s)) : Tail(s)[i] = s[i + 1]
  BY HeadTailProperties, LenProperties, EmptySeq
<1>2. QED
  BY <1>1

LEMMA MoreMail ==
    ASSUME NEW s \in Seq(Int), NEW x \in Int, NEW n \in Nat, x <= n, \A i \in 1 .. Len(s) : s[i] <= n
    PROVE  /\ Len(Append(s, x)) = Len(s) + 1 /\ Len(s) \in Nat
           /\ \A i \in 1 .. Len(Append(s, x)) : Append(s, x)[i] <= n
<1>1. /\ Len(Append(s, x)) = Len(s) + 1 /\ Len(s) \in Nat
      /\ Append(s, x)[Len(s) + 1] = x
      /\ \A i \in 1 .. Len(s) : Append(s, x)[i] = s[i]
  BY AppendProperties, LenProperties
<1>2. QED
  BY <1>1

LEMMA DeliverLoad ==
    ASSUME NEW m \in [Actor -> Seq(Int)], NEW s, NEW t, NEW b \in Actor, NEW x \in Int, NEW eu,
           Deliver(m, s, t, b, x, eu), NEW n \in Nat, x <= n, n <= MaxMsgs,
           \A a \in Actor : \A i \in 1 .. Len(m[a]) : m[a][i] <= n, s \subseteq 1 .. n
    PROVE  /\ \A a \in Actor : a # b => mail'[a] = m[a]
           /\ Len(mail'[b]) <= Len(m[b]) + 1
           /\ \A a \in Actor : \A i \in 1 .. Len(mail'[a]) : mail'[a][i] <= n
           /\ settled' \subseteq 1 .. n
<1>1. Len(m[b]) \in Nat
  BY LenProperties
<1>2. CASE mail' = m
  <2>1. settled' \subseteq s \cup ({x} \cap 1 .. MaxMsgs)
    BY DEF Deliver
  <2>2. {x} \cap 1 .. MaxMsgs \subseteq 1 .. n
    BY Constants_
  <2>3. QED
    BY <1>1, <1>2, <2>1, <2>2
<1>3. CASE mail' = [m EXCEPT ![b] = Append(@, x)] /\ settled' = s
  <2>1. mail'[b] = Append(m[b], x) /\ \A a \in Actor : a # b => mail'[a] = m[a]
    BY <1>3
  <2>2. /\ Len(mail'[b]) = Len(m[b]) + 1
        /\ \A i \in 1 .. Len(mail'[b]) : mail'[b][i] <= n
    BY <2>1, MoreMail
  <2>3. QED
    BY <1>1, <1>3, <2>1, <2>2
<1>4. QED
  BY <1>2, <1>3 DEF Deliver


Counting == \A r \in Runner : pc[r] \notin {"run", "tail", "store"} => burst[r] = 0

LEMMA BoundsStep ==
    ASSUME Typed, Typed', Bounds, sent' \in 0 .. MaxMsgs, settled' \subseteq 1 .. sent', Counting',
           \A a \in Actor : Charged(a)
    PROVE  Bounds'
<1>1. \A a \in Actor : Budget(a)'
  BY BudgetStep DEF Bounds
<1>2. QED
  BY <1>1 DEF Bounds, Counting

(* The threads ask for the same timeouts. *)
SameAsked == \A r \in Runner : seen'[r] = seen[r] /\ (job'[r] = job[r] \/ seen[r].wait = "none")

LEMMA AskedKept ==
    ASSUME SameAsked, NEW a, Budget(a)
    PROVE  tid[a] + Cardinality(Asking(a)') <= MaxTimeouts
<1>1. Asking(a)' = Asking(a)
  BY DEF Asking, SameAsked
<1>2. QED
  BY <1>1 DEF Budget

LEMMA DueLess ==
    ASSUME Typed, delayed' \subseteq delayed, NEW a
    PROVE  Due(a)' <= Due(a)
<1>1. IsFiniteSet(DueOf(delayed, a)) /\ DueOf(delayed', a) \subseteq DueOf(delayed, a)
  BY FS_Subset DEF DueOf, Typed, Cells
<1>2. QED
  BY <1>1, FS_Subset DEF Due

(* Nothing is sent or asked for, mailboxes only lose messages. *)
Shorter(a) == mail'[a] = mail[a] \/ mail'[a] = << >> \/ (mail[a] # << >> /\ mail'[a] = Tail(mail[a]))

Quiet ==
    /\ sent' = sent /\ tid' = tid /\ delayed' \subseteq delayed /\ settled' \subseteq 1 .. sent
    /\ \A a \in Actor : Shorter(a)
    /\ \A r \in Runner : \/ burst'[r] = 0
                         \/ /\ burst'[r] = burst[r] /\ job'[r] = job[r]
                            /\ pc'[r] = "run" => pc[r] = "run"
    /\ SameAsked /\ Counting'

LEMMA ShorterMail ==
    ASSUME Typed, Bounds, NEW a \in Actor, Shorter(a)
    PROVE  Len(mail'[a]) <= Len(mail[a]) /\ \A i \in 1 .. Len(mail'[a]) : mail'[a][i] <= sent
<1>1. /\ mail[a] \in Seq(Int) /\ sent \in Nat /\ Len(mail[a]) \in Nat
      /\ \A i \in 1 .. Len(mail[a]) : mail[a][i] <= sent
  BY LenProperties DEF Typed, Cells, Bounds, Budget
<1>2. CASE mail'[a] = mail[a]
  BY <1>1, <1>2
<1>3. CASE mail'[a] = << >>
  <2>1. Len(mail'[a]) = 0
    BY <1>3
  <2>2. QED
    BY <1>1, <2>1
<1>4. CASE mail[a] # << >> /\ mail'[a] = Tail(mail[a])
  <2>1. Len(Tail(mail[a])) = Len(mail[a]) - 1 /\ \A i \in 1 .. Len(Tail(mail[a])) : Tail(mail[a])[i] <= sent
    BY <1>1, <1>4, LessMail
  <2>2. QED
    BY <1>1, <1>4, <2>1
<1>5. QED
  BY <1>2, <1>3, <1>4 DEF Shorter

LEMMA QuietBounds ==
    ASSUME Typed, Typed', Bounds, Quiet
    PROVE  Bounds'
<1>1. ASSUME NEW a \in Actor PROVE Charged(a)
  <2>1. Len(mail'[a]) <= Len(mail[a]) /\ \A i \in 1 .. Len(mail'[a]) : mail'[a][i] <= sent
    BY ShorterMail DEF Quiet
  <2>2. Due(a)' <= Due(a)
    BY DueLess DEF Quiet
  <2>3. Earned(a)' = Earned(a)
    BY DEF Earned, Quiet
  <2>4. Load(a)' <= Load(a)
    <3>1. Load(a)' = Len(mail'[a]) + Due(a)' /\ Load(a) = Len(mail[a]) + Due(a)
      BY DEF Load
    <3>2. Len(mail'[a]) \in Int /\ Due(a)' \in Int /\ Len(mail[a]) \in Int /\ Due(a) \in Int
      BY Amounts, NewAmounts
    <3>3. QED
      BY <2>1, <2>2, <3>1, <3>2
  <2>5. Load(a)' + Earned(a) <= Load(a) + Earned(a)' /\ Earned(a) <= Earned(a)'
    <3>1. Load(a) \in Int /\ Load(a)' \in Int /\ Earned(a) \in Int
      BY Amounts, NewAmounts
    <3>2. QED
      BY <2>3, <2>4, <3>1
  <2>6. tid'[a] + Cardinality(Asking(a)') <= MaxTimeouts
    BY AskedKept DEF Quiet, Bounds
  <2>7. \A r \in Runner : job'[r] = a => Spends(r, a)
    BY DEF Quiet, Spends
  <2>8. \A i \in 1 .. Len(mail'[a]) : mail'[a][i] <= sent'
    BY <2>1 DEF Quiet
  <2>9. QED
    BY <2>5, <2>6, <2>7, <2>8 DEF Charged
<1>2. sent' \in 0 .. MaxMsgs /\ settled' \subseteq 1 .. sent' /\ Counting'
  BY DEF Quiet, Bounds
<1>3. QED
  BY <1>1, <1>2, BoundsStep

(* What is cleaned up is settled. *)
LEMMA CleanUpLoad ==
    ASSUME Typed, Bounds, NEW X, X \subseteq Actor, CleanUp(X)
    PROVE  settled' \subseteq 1 .. sent /\ \A a \in Actor : Shorter(a)
<1>1. \A a \in Actor : Shorter(a)
  BY DEF CleanUp, Shorter
<1>2. ASSUME NEW x \in settled' PROVE x \in 1 .. sent
  <2>1. CASE x \in settled
    BY <2>1 DEF Bounds
  <2>2. ASSUME NEW a \in X, x \in ToSet(mail[a]) \cap 1 .. MaxMsgs PROVE x \in 1 .. sent
    <3>1. PICK i \in DOMAIN mail[a] : x = mail[a][i]
      BY <2>2 DEF ToSet
    <3>2. mail[a] \in Seq(Int) /\ i \in 1 .. Len(mail[a]) /\ sent \in Nat
      BY <3>1, LenProperties DEF Typed, Cells
    <3>3. x <= sent
      BY <3>1, <3>2 DEF Bounds, Budget
    <3>4. QED
      BY <2>2, <3>2, <3>3
  <2>3. QED
    BY <1>2, <2>1, <2>2 DEF CleanUp
<1>3. QED
  BY <1>1, <1>2

LEMMA DropLoad ==
    ASSUME Typed, Bounds, NEW drops, NEW D, D \subseteq Actor, DropRefs(drops, D)
    PROVE  settled' \subseteq 1 .. sent /\ \A a \in Actor : Shorter(a)
<1> DEFINE X == D \cup {a \in Actor : drops[a] > 0 /\ refs[a] = drops[a]}
<1>1. CleanUp(X) /\ X \subseteq Actor
  BY DEF DropRefs
<1> HIDE DEF X
<1>2. QED
  BY <1>1, CleanUpLoad


Moved(t) ==
    \A r \in Runner : r # t =>
        pc'[r] = pc[r] /\ job'[r] = job[r] /\ burst'[r] = burst[r] /\ seen'[r] = seen[r]

OwnQuiet(t) ==
    /\ \/ burst'[t] = 0
       \/ burst'[t] = burst[t] /\ job'[t] = job[t] /\ (pc'[t] = "run" => pc[t] = "run")
    /\ seen'[t] = seen[t] /\ (job'[t] = job[t] \/ seen[t].wait = "none")
    /\ pc'[t] \notin {"run", "tail", "store"} => burst'[t] = 0

LEMMA QuietStep ==
    ASSUME Bounds, sent' = sent, tid' = tid, delayed' \subseteq delayed, settled' \subseteq 1 .. sent,
           \A a \in Actor : Shorter(a), NEW t, Moved(t), t \in Runner => OwnQuiet(t)
    PROVE  Quiet
<1>1. ASSUME NEW r \in Runner
      PROVE  /\ \/ burst'[r] = 0
                \/ burst'[r] = burst[r] /\ job'[r] = job[r] /\ (pc'[r] = "run" => pc[r] = "run")
             /\ seen'[r] = seen[r] /\ (job'[r] = job[r] \/ seen[r].wait = "none")
             /\ pc'[r] \notin {"run", "tail", "store"} => burst'[r] = 0
  BY DEF Moved, OwnQuiet, Bounds
<1>2. SameAsked /\ Counting'
  BY <1>1 DEF SameAsked, Counting
<1>3. QED
  BY <1>1, <1>2 DEF Quiet

(* A runner with nothing to write has asked for nothing. *)
LEMMA Nothing ==
    ASSUME Typed, Bounds, NEW t \in Runner
    PROVE  /\ pc[t] # "store" => seen[t] = NoWrite /\ seen[t].wait = "none"
           /\ pc[t] \notin {"run", "tail", "store"} => burst[t] = 0
           /\ t \in Thread /\ pc \in [Thread -> Position] /\ job \in [Thread -> Actor \cup {None}]
           /\ burst \in [Runner -> Nat]
<1>1. NoWrite.wait = "none"
  BY DEF NoWrite
<1>2. QED
  BY <1>1 DEF Typed, Threads, Bounds, Thread

LEMMA RunQuiet ==
    ASSUME Typed, Bounds, NEW t \in Runner,
           DropExpired(t) \/ HandleAndQuit(t) \/ Block(t) \/ Yield(t) \/ Release(t)
    PROVE  Quiet
<1>0. /\ pc[t] # "store" => seen[t] = NoWrite /\ seen[t].wait = "none"
      /\ pc[t] \notin {"run", "tail", "store"} => burst[t] = 0
      /\ t \in Thread /\ pc \in [Thread -> Position] /\ job \in [Thread -> Actor \cup {None}]
      /\ burst \in [Runner -> Nat] /\ Threads
      /\ settled \subseteq 1 .. sent
  BY Nothing DEF Typed, Bounds
<1>m. mail \in [Actor -> Seq(Int)]
  BY DEF Typed, Cells
<1>1. pc[t] # "store" /\ sent' = sent /\ tid' = tid /\ delayed' = delayed /\ seen' = seen
  BY DEF DropExpired, HandleAndQuit, Block, Yield, Release, At, Turn, local, cell
<1>j. PICK b \in Actor : b = job[t]
  <2>1. pc[t] \in Busy
    BY DEF DropExpired, HandleAndQuit, Block, Yield, Release, At, Turn, Busy
  <2>2. QED
    BY <1>0, <2>1, WhoRuns
<1>2. CASE DropExpired(t)
  <2>1. mail[b] # << >> /\ mail' = [mail EXCEPT ![b] = Tail(@)] /\ UNCHANGED <<settled, pc, job, burst, seen>>
    BY <1>2, <1>j DEF DropExpired, Turn, Popped, local
  <2>2. \A a \in Actor : Shorter(a)
    BY <1>m, <2>1 DEF Shorter
  <2>3. Moved(t) /\ OwnQuiet(t)
    BY <1>0, <2>1 DEF Moved, OwnQuiet
  <2>4. QED
    BY <1>0, <1>1, <2>1, <2>2, <2>3, QuietStep
<1>3. CASE HandleAndQuit(t)
  <2>1. /\ CleanUp({b}) /\ burst' = [burst EXCEPT ![t] = 0] /\ pc' = [pc EXCEPT ![t] = "finish"]
        /\ UNCHANGED <<job, seen>>
    BY <1>3, <1>j DEF HandleAndQuit, Leave, Goto
  <2>2. settled' \subseteq 1 .. sent /\ \A a \in Actor : Shorter(a)
    BY <2>1, CleanUpLoad
  <2>3. Moved(t) /\ OwnQuiet(t)
    BY <1>0, <2>1 DEF Moved, OwnQuiet, Thread
  <2>4. QED
    BY <1>1, <2>2, <2>3, QuietStep
<1>4. CASE Block(t)
  <2>1. /\ mail' = mail /\ settled' = settled /\ job' = job /\ seen' = seen
        /\ \/ pc' = [pc EXCEPT ![t] = "tail"] /\ burst' = burst
           \/ pc' = [pc EXCEPT ![t] = "release"] /\ burst' = [burst EXCEPT ![t] = 0]
    BY <1>4 DEF Block, Leave, Goto
  <2>2. \A a \in Actor : Shorter(a)
    BY <2>1 DEF Shorter
  <2>3. Moved(t) /\ OwnQuiet(t)
    BY <1>0, <2>1 DEF Moved, OwnQuiet, Thread
  <2>4. QED
    BY <1>0, <1>1, <2>1, <2>2, <2>3, QuietStep
<1>5. CASE Yield(t)
  <2>1. /\ mail' = mail /\ settled' = settled /\ seen' = seen /\ burst' = burst /\ pc[t] = "yield"
        /\ \/ pc' = [pc EXCEPT ![t] = "release"] /\ job' = job
           \/ pc' = [pc EXCEPT ![t] = "poll"] /\ job' = [job EXCEPT ![t] = None]
    BY <1>5 DEF Yield, At, Goto
  <2>2. \A a \in Actor : Shorter(a)
    BY <2>1 DEF Shorter
  <2>3. Moved(t) /\ OwnQuiet(t)
    BY <1>0, <2>1 DEF Moved, OwnQuiet, Thread
  <2>4. QED
    BY <1>0, <1>1, <2>1, <2>2, <2>3, QuietStep
<1>6. CASE Release(t)
  <2>1. /\ DropRefs(One(b), {}) /\ seen' = seen /\ burst' = burst /\ pc[t] \in {"release", "finish"}
        /\ \E p \in {"poll", "await", "ending"} : pc' = [pc EXCEPT ![t] = p]
        /\ job' = job \/ job' = [job EXCEPT ![t] = None]
    BY <1>6, <1>j DEF Release, Goto
  <2>2. settled' \subseteq 1 .. sent /\ \A a \in Actor : Shorter(a)
    BY <2>1, DropLoad
  <2>3. Moved(t) /\ OwnQuiet(t)
    BY <1>0, <2>1 DEF Moved, OwnQuiet, Thread
  <2>4. QED
    BY <1>0, <1>1, <2>2, <2>3, QuietStep
<1>7. QED
  BY <1>2, <1>3, <1>4, <1>5, <1>6

LEMMA WorkQuiet ==
    ASSUME Typed, Bounds, NEW t \in Runner,
           \/ t \in Worker /\ \E j \in Job : Takes(t, j)
           \/ t \in Detached /\ (LoopTop(t) \/ Resume(t) \/ AwaitResume(t) \/ AwaitSelfDestroyed(t))
    PROVE  Quiet
<1>0. /\ pc[t] # "store" => seen[t] = NoWrite /\ seen[t].wait = "none"
      /\ pc[t] \notin {"run", "tail", "store"} => burst[t] = 0
      /\ t \in Thread /\ pc \in [Thread -> Position] /\ job \in [Thread -> Actor \cup {None}]
      /\ settled \subseteq 1 .. sent
  BY Nothing DEF Bounds
<1>1. /\ pc[t] \in {"poll", "top", "resume", "await", "ending"}
      /\ sent' = sent /\ tid' = tid /\ delayed' = delayed /\ seen' = seen /\ burst' = burst
      /\ \E p : pc' = [pc EXCEPT ![t] = p]
      /\ job' = job \/ \E j : job' = [job EXCEPT ![t] = j]
  BY DEF Takes, Take, Activate, LoopTop, Resume, AwaitResume, AwaitSelfDestroyed, At, Goto, cell
<1>2. UNCHANGED <<mail, settled>> \/ \E a \in Actor : CleanUp({a})
  <2>1. ASSUME NEW a \in Actor, Activate(t, a) PROVE UNCHANGED <<mail, settled>> \/ CleanUp({a})
    BY <2>1 DEF Activate, box
  <2>2. ASSUME NEW j \in Job, Takes(t, j) PROVE UNCHANGED <<mail, settled>> \/ \E a \in Actor : CleanUp({a})
    <3>1. j = Helper \/ j \in Actor
      BY DEF Job, Actor
    <3>2. QED
      BY <2>1, <2>2, <3>1 DEF Takes, Take, box
  <2>3. t \in Detached => t \in Actor
    BY DEF Actor
  <2>4. QED
    BY <2>1, <2>2, <2>3 DEF LoopTop, Resume, AwaitResume, AwaitSelfDestroyed, box
<1>3. settled' \subseteq 1 .. sent /\ \A a \in Actor : Shorter(a)
  <2>1. CASE UNCHANGED <<mail, settled>>
    BY <1>0, <2>1 DEF Shorter
  <2>2. ASSUME NEW a \in Actor, CleanUp({a}) PROVE settled' \subseteq 1 .. sent /\ \A c \in Actor : Shorter(c)
    BY <2>2, CleanUpLoad
  <2>3. QED
    BY <1>2, <2>1, <2>2
<1>4. Moved(t) /\ OwnQuiet(t)
  BY <1>0, <1>1 DEF Moved, OwnQuiet, Thread
<1>5. QED
  BY <1>1, <1>3, <1>4, QuietStep


LEMMA ElseQuiet ==
    ASSUME Typed, Bounds,
           \/ BeginStop \/ WorkerReported \/ UNCHANGED vars \/ StopTimer \/ Erase
           \/ \E w \in Worker : PlaceHelper(w)
           \/ \E t \in Thread : Reschedule(t)
           \/ \E a \in Actor : LaunchLazily(a) \/ DropHandle(a)
    PROVE  Quiet
<1>0. /\ Timer \notin Runner /\ pc \in [Thread -> Position] /\ job \in [Thread -> Actor \cup {None}]
      /\ settled \subseteq 1 .. sent /\ Counting
  BY Constants_ DEF Typed, Threads, Bounds, Counting
<1>1. UNCHANGED <<sent, tid, burst, seen>> /\ delayed' \subseteq delayed
  BY DEF BeginStop, WorkerReported, vars, StopTimer, Erase, PlaceHelper, Reschedule, LaunchLazily,
         DropHandle, local, cell
<1>2. (UNCHANGED <<mail, settled>>) \/ \E drops, D : D \subseteq Actor /\ DropRefs(drops, D)
  BY DEF BeginStop, WorkerReported, vars, StopTimer, Erase, PlaceHelper, Reschedule, LaunchLazily,
         DropHandle, box
<1>3. settled' \subseteq 1 .. sent /\ \A a \in Actor : Shorter(a)
  <2>1. CASE UNCHANGED <<mail, settled>>
    BY <1>0, <2>1 DEF Shorter
  <2>2. ASSUME NEW drops, NEW D, D \subseteq Actor, DropRefs(drops, D)
        PROVE  settled' \subseteq 1 .. sent /\ \A c \in Actor : Shorter(c)
    BY <2>2, DropLoad
  <2>3. QED
    BY <1>2, <2>1, <2>2
<1>4. Moved(Timer)
  <2>1. \A r \in Runner : pc'[r] = pc[r] /\ job'[r] = job[r]
    BY <1>0 DEF BeginStop, WorkerReported, vars, StopTimer, Erase, PlaceHelper, Reschedule,
                LaunchLazily, DropHandle, local, Goto, Thread
  <2>2. QED
    BY <1>1, <2>1 DEF Moved
<1>5. QED
  BY <1>0, <1>1, <1>3, <1>4, QuietStep

LEMMA SweepQuiet ==
    ASSUME Typed, Bounds, Deques, ~In(deque, Helper), stop.sweep \in Worker, Sweep
    PROVE  Quiet
<1>1. UNCHANGED <<sent, tid, delayed, burst, seen, pc, job>>
  BY DEF Sweep, local, cell
<1>2. settled' \subseteq 1 .. sent /\ \A a \in Actor : Shorter(a)
  <2>1. CASE deque[stop.sweep] = << >>
    <3>1. UNCHANGED <<mail, settled>>
      BY <2>1 DEF Sweep, box
    <3>2. QED
      BY <3>1 DEF Shorter, Bounds
  <2>2. CASE deque[stop.sweep] # << >>
    <3>1. PICK b : b = Head(deque[stop.sweep])
      OBVIOUS
    <3>2. b \in Job /\ In(deque, b)
      <4>1. deque \in [Worker -> Seq(Job)] /\ \A j \in Job : Once(deque, j)
        BY DEF Deques, Job
      <4>2. QED
        BY <2>2, <3>1, <4>1, Taken
    <3>3. b \in Actor
      BY <3>2 DEF Job, Actor
    <3>4. DropRefs(One(b), {b})
      BY <2>2, <3>1 DEF Sweep
    <3>5. QED
      BY <3>3, <3>4, DropLoad
  <2>3. QED
    BY <2>1, <2>2
<1>3. Moved(Program) /\ Program \notin Runner
  BY <1>1, Constants_ DEF Moved
<1>4. QED
  BY <1>1, <1>2, <1>3, QuietStep

LEMMA LaunchQuiet ==
    ASSUME Typed, Bounds, NEW a \in Actor, Launch(a), Closing(a)
    PROVE  Quiet
<1>0. UNCHANGED <<mail, settled, sent, tid, delayed, burst, seen, job>>
  BY DEF Launch, box
<1>1. \A c \in Actor : Shorter(c)
  BY <1>0 DEF Shorter
<1>2. settled' \subseteq 1 .. sent
  BY <1>0 DEF Bounds
<1>3. CASE a \in Pooled
  <2>1. pc' = pc
    BY <1>3 DEF Launch
  <2>2. Moved(Program) /\ Program \notin Runner
    BY <1>0, <2>1, Constants_ DEF Moved
  <2>3. QED
    BY <1>0, <1>1, <1>2, <2>2, QuietStep
<1>4. CASE a \notin Pooled
  <2>1. a \in Detached /\ a \in Runner /\ pc' = [pc EXCEPT ![a] = "top"]
    BY <1>4 DEF Launch, Actor, Runner
  <2>2. pc[a] = "none"
    BY <2>1 DEF Launch, Closing
  <2>3. burst[a] = 0
    BY <2>1, <2>2, Nothing
  <2>4. Moved(a) /\ OwnQuiet(a)
    BY <1>0, <2>1, <2>3, Nothing DEF Moved, OwnQuiet
  <2>5. QED
    BY <1>0, <1>1, <1>2, <2>4, QuietStep
<1>5. QED
  BY <1>3, <1>4

LEMMA HandleBounds ==
    ASSUME Typed, Typed', Bounds, NEW t \in Runner, Handle(t)
    PROVE  Bounds'
<1>0. /\ t \in Thread /\ pc \in [Thread -> Position] /\ job \in [Thread -> Actor \cup {None}]
      /\ burst \in [Runner -> Nat] /\ Threads /\ settled \subseteq 1 .. sent /\ sent \in 0 .. MaxMsgs
      /\ mail \in [Actor -> Seq(Int)] /\ IsFiniteSet(delayed)
  BY Nothing DEF Typed, Bounds, Cells
<1>1. pc[t] = "run"
  BY DEF Handle, Turn, At
<1>2. PICK b \in Actor : b = job[t]
  BY <1>0, <1>1, WhoRuns DEF Busy
<1>3. /\ mail[b] # << >> /\ mail' = [mail EXCEPT ![b] = Tail(@)]
      /\ burst' = [burst EXCEPT ![t] = @ + 1] /\ settled' = settled \cup ({Head(mail[b])} \cap 1 .. MaxMsgs)
      /\ UNCHANGED <<sent, tid, delayed, pc, job, seen>>
  BY <1>2 DEF Handle, Turn, Popped, Handled, Settling
<1>4. \A i \in 1 .. Len(mail[b]) : mail[b][i] <= sent
  BY DEF Bounds, Budget
<1>5. /\ Len(Tail(mail[b])) = Len(mail[b]) - 1 /\ Head(mail[b]) \in Int /\ Head(mail[b]) <= sent
      /\ Len(mail[b]) \in Nat
  <2>1. mail[b] \in Seq(Int) /\ sent \in Nat
    BY <1>0
  <2>2. QED
    BY <1>3, <1>4, <2>1, LessMail
<1>6. settled' \subseteq 1 .. sent' /\ sent' \in 0 .. MaxMsgs
  <2>1. {Head(mail[b])} \cap 1 .. MaxMsgs \subseteq 1 .. sent
    BY <1>5, Constants_, <1>0
  <2>2. QED
    BY <1>0, <1>3, <2>1
<1>7. Counting'
  BY <1>1, <1>3, Nothing DEF Counting
<1>8. SameAsked
  BY <1>3 DEF SameAsked
<1>9. ASSUME NEW a \in Actor PROVE Charged(a)
  <2>1. Shorter(a)
    BY <1>0, <1>3 DEF Shorter
  <2>2. Len(mail'[a]) <= Len(mail[a]) /\ \A i \in 1 .. Len(mail'[a]) : mail'[a][i] <= sent
    BY <2>1, ShorterMail
  <2>3. Due(a)' = Due(a) /\ Earned(a)' = Earned(a)
    BY <1>3 DEF Due, Earned
  <2>4. /\ Len(mail'[a]) \in Int /\ Due(a)' \in Int /\ Len(mail[a]) \in Int /\ Due(a) \in Int
        /\ Load(a) \in Int /\ Load(a)' \in Int /\ Earned(a) \in Int
    BY Amounts, NewAmounts
  <2>5. Load(a)' = Len(mail'[a]) + Due(a) /\ Load(a) = Len(mail[a]) + Due(a)
    BY <2>3 DEF Load
  <2>a. Load(a)' <= Load(a) /\ (Len(mail'[a]) = Len(mail[a]) - 1 => Load(a)' + 1 <= Load(a))
    <3>1. PICK l \in Int, k \in Int, d \in Int : l = Len(mail[a]) /\ k = Len(mail'[a]) /\ d = Due(a)
      BY <2>4
    <3>2. k <= l /\ Load(a)' = k + d /\ Load(a) = l + d
      BY <2>2, <2>5, <3>1
    <3>3. Load(a)' <= Load(a) /\ (k = l - 1 => Load(a)' + 1 <= Load(a))
      BY ONLY <3>2
    <3>4. QED
      BY <3>1, <3>3
  <2>6. Load(a)' + Earned(a) <= Load(a) + Earned(a)' /\ Earned(a) <= Earned(a)'
    BY <2>3, <2>4, <2>a
  <2>7. a = b => Load(a)' + 1 + Earned(a) <= Load(a) + Earned(a)'
    <3>1. a = b => Len(mail'[a]) = Len(mail[a]) - 1
      BY <1>0, <1>3, <1>5
    <3>2. a = b => Load(a)' + 1 <= Load(a)
      BY <2>a, <3>1
    <3>3. QED
      BY <2>3, <2>4, <3>2
  <2>8. tid'[a] + Cardinality(Asking(a)') <= MaxTimeouts
    BY <1>3, <1>8, AskedKept DEF Bounds
  <2>9. ASSUME NEW r \in Runner, job'[r] = a PROVE Spends(r, a)
    <3>1. CASE r = t
      BY <1>0, <1>1, <1>2, <1>3, <2>7, <2>9, <3>1 DEF Spends
    <3>2. CASE r # t
      BY <1>0, <1>3, <2>9, <3>2 DEF Spends
    <3>3. QED
      BY <3>1, <3>2
  <2>10. QED
    BY <1>3, <2>2, <2>6, <2>8, <2>9 DEF Charged
<1>10. QED
  BY <1>6, <1>7, <1>9, BoundsStep


(* k more messages, d more of the timer's, and e sent or asked for. *)
LEMMA LoadStep ==
    ASSUME Typed, Typed', NEW a \in Actor, NEW k \in Int, NEW d \in Int, NEW e \in Nat,
           Len(mail'[a]) <= Len(mail[a]) + k, Due(a)' <= Due(a) + d,
           sent' + tid'[a] = sent + tid[a] + e, k + d <= e
    PROVE  /\ Load(a)' + Earned(a) <= Load(a) + Earned(a)'
           /\ Earned(a) <= Earned(a)'
           /\ k + d < e => Load(a)' + 1 + Earned(a) <= Load(a) + Earned(a)'
<1>0. /\ Len(mail[a]) \in Int /\ Len(mail'[a]) \in Int /\ Due(a) \in Int /\ Due(a)' \in Int
      /\ Earned(a) \in Int /\ Earned(a)' \in Int
  BY Amounts, NewAmounts
<1>1. PICK l \in Int, m \in Int, i \in Int, j \in Int, g \in Int, h \in Int :
         /\ l = Len(mail[a]) /\ m = Len(mail'[a]) /\ i = Due(a) /\ j = Due(a)'
         /\ g = Earned(a) /\ h = Earned(a)'
  BY <1>0
<1>2. Load(a) = l + i /\ Load(a)' = m + j
  BY <1>1 DEF Load
<1>3. h = g + e
  <2>a. sent \in Int /\ sent' \in Int
    BY DEF Typed
  <2>b. tid[a] \in Int /\ tid'[a] \in Int
    <3>1. tid[a] \in Nat
      BY Amounts
    <3>2. tid'[a] \in Nat
      BY NewAmounts
    <3>3. QED
      BY <3>1, <3>2
  <2>1. sent \in Int /\ sent' \in Int /\ tid[a] \in Int /\ tid'[a] \in Int
    BY <2>a, <2>b
  <2>2. h = sent' + tid'[a] /\ g = sent + tid[a]
    BY <1>1 DEF Earned
  <2>3. QED
    BY <2>1, <2>2
<1>4. m <= l + k /\ j <= i + d
  BY <1>1
<1>5. (m + j) + g <= (l + i) + h /\ g <= h /\ (k + d < e => (m + j) + 1 + g <= (l + i) + h)
  BY <1>3, <1>4
<1>6. QED
  BY <1>1, <1>2, <1>5

(* What a mailbox holds was sent. *)
LEMMA MailSent ==
    ASSUME Typed, Bounds
    PROVE  /\ mail \in [Actor -> Seq(Int)] /\ sent \in 0 .. MaxMsgs /\ sent \in Nat /\ settled \subseteq 1 .. sent
           /\ \A a \in Actor : /\ Len(mail[a]) \in Nat /\ Due(a) \in Nat /\ tid[a] \in Nat
                               /\ \A i \in 1 .. Len(mail[a]) : mail[a][i] <= sent
           /\ Counting
<1>1. \A a \in Actor : \A i \in 1 .. Len(mail[a]) : mail[a][i] <= sent
  BY DEF Bounds, Budget
<1>2. \A a \in Actor : Len(mail[a]) \in Nat /\ Due(a) \in Nat /\ tid[a] \in Nat
  BY Amounts
<1>3. QED
  BY <1>1, <1>2 DEF Typed, Cells, Bounds, Counting

LEMMA SendBounds ==
    ASSUME Typed, Typed', Bounds, NEW b \in Actor, Send(b)
    PROVE  Bounds'
<1> DEFINE x == sent + 1
<1>0. /\ mail \in [Actor -> Seq(Int)] /\ sent \in 0 .. MaxMsgs /\ sent \in Nat /\ settled \subseteq 1 .. sent
      /\ \A a \in Actor : \A i \in 1 .. Len(mail[a]) : mail[a][i] <= sent
      /\ Counting
  BY MailSent
<1>1. /\ sent < MaxMsgs /\ sent' = x /\ Deliver(mail, settled, Program, b, x, None)
      /\ UNCHANGED <<tid, delayed, pc, job, burst, seen>>
  BY DEF Send, local, cell
<1>2. x \in Nat /\ x <= MaxMsgs /\ x \in Int /\ x <= x /\ settled \subseteq 1 .. x
      /\ \A a \in Actor : \A i \in 1 .. Len(mail[a]) : mail[a][i] <= x
  <2>1. x \in Nat /\ x <= MaxMsgs /\ settled \subseteq 1 .. x
    BY <1>0, <1>1, Constants_
  <2>2. ASSUME NEW a \in Actor, NEW i \in 1 .. Len(mail[a]) PROVE mail[a][i] <= x
    <3>1. mail[a][i] \in Int /\ mail[a][i] <= sent
      BY <1>0, ElementOfSeq
    <3>2. QED
      BY <1>0, <3>1
  <2>3. QED
    BY <2>1, <2>2
<1>3. x = sent + 1
  OBVIOUS
<1> HIDE DEF x
<1>4. /\ \A a \in Actor : a # b => mail'[a] = mail[a]
      /\ Len(mail'[b]) <= Len(mail[b]) + 1
      /\ \A a \in Actor : \A i \in 1 .. Len(mail'[a]) : mail'[a][i] <= x
      /\ settled' \subseteq 1 .. x
  BY <1>0, <1>1, <1>2, DeliverLoad
<1>5. SameAsked /\ Counting'
  BY <1>0, <1>1 DEF SameAsked, Counting
<1>6. ASSUME NEW a \in Actor PROVE Charged(a)
  <2>1. Len(mail'[a]) <= Len(mail[a]) + 1
    <3>1. Len(mail[a]) \in Nat
      BY Amounts
    <3>2. QED
      BY <1>4, <3>1
  <2>2. Due(a)' <= Due(a) + 0
    <3>1. Due(a)' = Due(a) /\ Due(a) \in Int
      BY <1>1, Amounts DEF Due
    <3>2. QED
      BY <3>1
  <2>3. sent' + tid'[a] = sent + tid[a] + 1
    <3>1. tid[a] \in Int
      BY Amounts
    <3>2. tid'[a] = tid[a] /\ sent' = sent + 1 /\ sent \in Int
      BY <1>0, <1>1, <1>3
    <3>3. QED
      BY <3>1, <3>2
  <2>4. Load(a)' + Earned(a) <= Load(a) + Earned(a)' /\ Earned(a) <= Earned(a)'
    <3>1. 1 \in Int /\ 0 \in Int /\ 1 \in Nat /\ 1 + 0 <= 1
      OBVIOUS
    <3>2. QED
      BY <2>1, <2>2, <2>3, <3>1, LoadStep
  <2>5. tid'[a] + Cardinality(Asking(a)') <= MaxTimeouts
    BY <1>1, <1>5, AskedKept DEF Bounds
  <2>6. \A r \in Runner : job'[r] = a => Spends(r, a)
    BY <1>1 DEF Spends
  <2>7. QED
    BY <1>1, <1>4, <2>4, <2>5, <2>6 DEF Charged
<1>7. sent' \in 0 .. MaxMsgs /\ settled' \subseteq 1 .. sent'
  BY <1>1, <1>2, <1>4, Constants_
<1>8. QED
  BY <1>5, <1>6, <1>7, BoundsStep

LEMMA HandleAndSendBounds ==
    ASSUME Typed, Typed', Bounds, NEW t \in Runner, NEW c \in Actor, HandleAndSend(t, c)
    PROVE  Bounds'
<1>0. /\ mail \in [Actor -> Seq(Int)] /\ sent \in 0 .. MaxMsgs /\ sent \in Nat /\ settled \subseteq 1 .. sent
      /\ \A a \in Actor : \A i \in 1 .. Len(mail[a]) : mail[a][i] <= sent
      /\ Counting /\ burst \in [Runner -> Nat] /\ Threads
  BY MailSent DEF Typed, Threads
<1>1. pc[t] = "run"
  BY DEF HandleAndSend, Turn, At
<1>2. PICK b \in Actor : b = job[t]
  BY <1>0, <1>1, WhoRuns DEF Busy
<1> DEFINE x == sent + 1
           y == Head(mail[b])
           m == [mail EXCEPT ![b] = Tail(@)]
           s == settled \cup ({y} \cap 1 .. MaxMsgs)
           eu == IF t \in Worker THEN t ELSE None
<1>3. /\ mail[b] # << >> /\ sent < MaxMsgs /\ sent' = x /\ Deliver(m, s, t, c, x, eu)
      /\ burst' = [burst EXCEPT ![t] = @ + 1] /\ UNCHANGED <<tid, delayed, pc, job, seen>>
  BY <1>2 DEF HandleAndSend, Turn, Popped, Handled, Settling
<1>4. /\ Tail(mail[b]) \in Seq(Int) /\ Len(Tail(mail[b])) = Len(mail[b]) - 1 /\ Len(mail[b]) \in Nat
      /\ \A i \in 1 .. Len(Tail(mail[b])) : Tail(mail[b])[i] <= sent
      /\ y \in Int /\ y <= sent
  <2>1. mail[b] \in Seq(Int) /\ \A i \in 1 .. Len(mail[b]) : mail[b][i] <= sent
    BY <1>0
  <2>2. QED
    BY <1>0, <1>3, <2>1, LessMail
<1>5. /\ m \in [Actor -> Seq(Int)] /\ m[b] = Tail(mail[b]) /\ \A a \in Actor : a # b => m[a] = mail[a]
  BY <1>0, <1>4
<1>6. x \in Nat /\ x <= MaxMsgs /\ x \in Int /\ x <= x /\ x = sent + 1
  BY <1>0, <1>3, Constants_
<1>7. s \subseteq 1 .. x
  <2>1. settled \subseteq 1 .. x
    BY <1>0, <1>6
  <2>2. {y} \cap 1 .. MaxMsgs \subseteq 1 .. x
    BY <1>0, <1>4, <1>6, Constants_
  <2>3. QED
    BY <2>1, <2>2
<1> HIDE DEF x, y, m, s, eu
<1>8. \A a \in Actor : \A i \in 1 .. Len(m[a]) : m[a][i] <= x
  <2> SUFFICES ASSUME NEW a \in Actor, NEW i \in 1 .. Len(m[a]) PROVE m[a][i] <= x
    OBVIOUS
  <2>1. m[a][i] <= sent
    <3>1. CASE a = b
      BY <1>4, <1>5, <3>1
    <3>2. CASE a # b
      BY <1>0, <1>5, <3>2
    <3>3. QED
      BY <3>1, <3>2
  <2>2. m[a][i] \in Int
    BY <1>5, ElementOfSeq
  <2>3. QED
    <3>1. PICK z \in Int : z = m[a][i]
      BY <2>2
    <3>2. z <= sent /\ x = sent + 1 /\ sent \in Nat
      BY <1>0, <1>6, <2>1, <3>1
    <3>3. z <= x
      BY ONLY <3>2, z \in Int
    <3>4. QED
      BY <3>1, <3>3
<1>9. /\ \A a \in Actor : a # c => mail'[a] = m[a]
      /\ Len(mail'[c]) <= Len(m[c]) + 1
      /\ \A a \in Actor : \A i \in 1 .. Len(mail'[a]) : mail'[a][i] <= x
      /\ settled' \subseteq 1 .. x
  <2>1. m \in [Actor -> Seq(Int)]
    BY <1>5
  <2>2. Deliver(m, s, t, c, x, eu)
    BY <1>3
  <2>3. x \in Nat /\ x \in Int /\ x <= x /\ x <= MaxMsgs
    BY <1>6
  <2>4. QED
    BY <1>7, <1>8, <2>1, <2>2, <2>3, DeliverLoad
<1>10. SameAsked /\ Counting'
  BY <1>0, <1>1, <1>3 DEF SameAsked, Counting
<1>11. ASSUME NEW a \in Actor PROVE Charged(a)
  <2>1. PICK k \in {0, 1} : Len(mail'[a]) <= Len(mail[a]) + k /\ (a = b => k = 0)
    <3>1. Len(mail[a]) \in Nat /\ Len(m[a]) \in Nat /\ Len(mail'[a]) \in Nat
      BY <1>5, Amounts, NewAmounts, LenProperties
    <3>2. CASE a = b
      <4>1. Len(m[a]) = Len(mail[a]) - 1
        BY <1>4, <1>5, <3>2
      <4>2. Len(mail'[a]) <= Len(m[a]) + 1
        BY <1>9, <3>1
      <4>3. Len(mail'[a]) <= Len(mail[a]) + 0
        BY <3>1, <4>1, <4>2
      <4>4. 0 \in {0, 1}
        OBVIOUS
      <4>5. QED
        BY <4>3, <4>4
    <3>3. CASE a # b
      <4>1. Len(mail'[a]) <= Len(m[a]) + 1 /\ m[a] = mail[a]
        BY <1>5, <1>9, <3>1, <3>3
      <4>2. QED
        BY <3>3, <4>1
    <3>4. QED
      BY <3>2, <3>3
  <2>2. Due(a)' <= Due(a) + 0
    <3>1. Due(a)' = Due(a) /\ Due(a) \in Int
      BY <1>3, Amounts DEF Due
    <3>2. QED
      BY <3>1
  <2>3. sent' + tid'[a] = sent + tid[a] + 1
    <3>1. tid[a] \in Int
      BY Amounts
    <3>2. tid'[a] = tid[a] /\ sent' = sent + 1 /\ sent \in Int
      BY <1>0, <1>3, <1>6
    <3>3. QED
      BY <3>1, <3>2
  <2>4. /\ Load(a)' + Earned(a) <= Load(a) + Earned(a)' /\ Earned(a) <= Earned(a)'
        /\ k + 0 < 1 => Load(a)' + 1 + Earned(a) <= Load(a) + Earned(a)'
    <3>1. k \in Int /\ 0 \in Int /\ 1 \in Nat /\ k + 0 <= 1
      OBVIOUS
    <3>2. QED
      BY <2>1, <2>2, <2>3, <3>1, LoadStep
  <2>5. tid'[a] + Cardinality(Asking(a)') <= MaxTimeouts
    BY <1>3, <1>10, AskedKept DEF Bounds
  <2>6. ASSUME NEW r \in Runner, job'[r] = a PROVE Spends(r, a)
    <3>1. CASE r = t
      <4>1. a = b /\ job[t] = a
        BY <1>2, <1>3, <2>6, <3>1
      <4>2. Load(a)' + 1 + Earned(a) <= Load(a) + Earned(a)'
        BY <2>1, <2>4, <4>1
      <4>3. QED
        BY <1>0, <1>1, <1>3, <3>1, <4>1, <4>2 DEF Spends
    <3>2. CASE r # t
      BY <1>0, <1>3, <2>6, <3>2 DEF Spends
    <3>3. QED
      BY <3>1, <3>2
  <2>7. QED
    BY <1>3, <1>9, <2>4, <2>5, <2>6 DEF Charged
<1>12. sent' \in 0 .. MaxMsgs /\ settled' \subseteq 1 .. sent'
  BY <1>3, <1>6, <1>9, Constants_
<1>13. QED
  BY <1>10, <1>11, <1>12, BoundsStep


LEMMA ExpireBounds ==
    ASSUME Typed, Typed', Bounds, NEW e \in delayed, Expire(e)
    PROVE  Bounds'
<1> DEFINE x == -e[2]
<1>0. /\ mail \in [Actor -> Seq(Int)] /\ sent \in 0 .. MaxMsgs /\ sent \in Nat /\ settled \subseteq 1 .. sent
      /\ \A a \in Actor : \A i \in 1 .. Len(mail[a]) : mail[a][i] <= sent
      /\ Counting
  BY MailSent
<1>1. e[1] \in Actor /\ e[2] \in Nat /\ IsFiniteSet(delayed)
  BY DEF Typed, Cells
<1>2. PICK b \in Actor : b = e[1]
  BY <1>1
<1>3. x \in Int /\ x <= sent /\ sent <= MaxMsgs
  BY <1>0, <1>1, Constants_
<1>4. /\ delayed' = delayed \ {e} /\ Deliver(mail, settled, Timer, b, x, None)
      /\ job' = [job EXCEPT ![Timer] = b] /\ pc' = [pc EXCEPT ![Timer] = "erase"]
      /\ UNCHANGED <<tid, burst, seen, sent>>
  BY <1>2 DEF Expire, Goto, cell
<1> HIDE DEF x
<1>5. /\ \A a \in Actor : a # b => mail'[a] = mail[a]
      /\ Len(mail'[b]) <= Len(mail[b]) + 1
      /\ \A a \in Actor : \A i \in 1 .. Len(mail'[a]) : mail'[a][i] <= sent
      /\ settled' \subseteq 1 .. sent
  BY <1>0, <1>3, <1>4, DeliverLoad
<1>6. \A r \in Runner : pc'[r] = pc[r] /\ job'[r] = job[r]
  BY <1>4, Constants_ DEF Typed, Threads, Thread
<1>7. SameAsked /\ Counting'
  BY <1>0, <1>4, <1>6 DEF SameAsked, Counting
<1>8. ASSUME NEW a \in Actor PROVE Charged(a)
  <2>1. PICK k \in {0, 1} : Len(mail'[a]) <= Len(mail[a]) + k /\ Due(a)' <= Due(a) + (0 - k)
    <3>1. Due(a)' = Due(a) - Bit(e \in delayed /\ e[1] = a) + Bit(e \in delayed' /\ e[1] = a)
      <4>1. delayed' \ {e} = delayed \ {e}
        BY <1>4
      <4>2. QED
        BY <1>1, <4>1, DueStep
    <3>2. Due(a) \in Int /\ Due(a)' \in Int /\ Len(mail[a]) \in Int /\ Len(mail'[a]) \in Int
      BY Amounts, NewAmounts
    <3>3. CASE a = b
      <4>1. Due(a)' = Due(a) - 1
        BY <1>2, <1>4, <3>1, <3>2, <3>3 DEF Bit
      <4>2. Len(mail'[a]) <= Len(mail[a]) + 1 /\ Due(a)' <= Due(a) + (0 - 1) /\ 1 \in {0, 1}
        BY <1>5, <3>2, <3>3, <4>1
      <4>3. QED
        BY <4>2
    <3>4. CASE a # b
      <4>1. Due(a)' = Due(a)
        BY <1>2, <3>1, <3>2, <3>4 DEF Bit
      <4>2. mail'[a] = mail[a]
        BY <1>5, <3>4
      <4>3. Len(mail'[a]) <= Len(mail[a]) + 0 /\ Due(a)' <= Due(a) + (0 - 0) /\ 0 \in {0, 1}
        BY <3>2, <4>1, <4>2
      <4>4. QED
        BY <4>3
    <3>5. QED
      BY <3>3, <3>4
  <2>2. sent' + tid'[a] = sent + tid[a] + 0
    <3>1. tid[a] \in Int
      BY Amounts
    <3>2. QED
      BY <1>0, <1>4, <3>1
  <2>3. Load(a)' + Earned(a) <= Load(a) + Earned(a)' /\ Earned(a) <= Earned(a)'
    <3>1. k \in Int /\ 0 - k \in Int /\ 0 \in Nat /\ k + (0 - k) <= 0
      OBVIOUS
    <3>2. QED
      BY <2>1, <2>2, <3>1, LoadStep
  <2>4. tid'[a] + Cardinality(Asking(a)') <= MaxTimeouts
    BY <1>4, <1>7, AskedKept DEF Bounds
  <2>5. \A r \in Runner : job'[r] = a => Spends(r, a)
    BY <1>4, <1>6 DEF Spends
  <2>6. QED
    BY <1>4, <1>5, <2>3, <2>4, <2>5 DEF Charged
<1>9. sent' \in 0 .. MaxMsgs /\ settled' \subseteq 1 .. sent'
  BY <1>0, <1>4, <1>5
<1>10. QED
  BY <1>7, <1>8, <1>9, BoundsStep

(* has_timeout(..) loads the flags of actor b, and request_timeout will ask *)
(* for a timeout if there is one.                                          *)
LEMMA TailLoadBounds ==
    ASSUME Typed, Typed', Bounds, NEW t \in Runner, TailLoad(t)
    PROVE  Bounds'
<1>0. /\ sent \in 0 .. MaxMsgs /\ sent \in Nat /\ settled \subseteq 1 .. sent /\ Counting
      /\ pc \in [Thread -> Position] /\ t \in Thread /\ Threads
      /\ seen \in [Runner -> [flags : SUBSET Flag, wait : Wait]]
  BY MailSent, Nothing DEF Typed, Threads
<1>1. pc[t] = "tail" /\ seen[t].wait = "none"
  BY Nothing DEF TailLoad, At
<1>2. PICK b \in Actor : b = job[t]
  BY <1>0, <1>1, WhoRuns DEF Busy
<1>3. PICK wait \in Wait :
         /\ Asks(b, wait) /\ seen' = [seen EXCEPT ![t] = [flags |-> NewFlags(b, wait), wait |-> wait]]
  BY <1>2 DEF TailLoad, Wait
<1>4. /\ pc' = [pc EXCEPT ![t] = "store"]
      /\ UNCHANGED <<mail, settled, tid, delayed, job, burst, sent>>
  BY DEF TailLoad, Goto, box, cell
<1>5. /\ seen'[t].wait = wait /\ \A r \in Runner : r # t => seen'[r] = seen[r]
  BY <1>0, <1>3
<1>6. Counting'
  BY <1>0, <1>4 DEF Counting
<1>7. ASSUME NEW a \in Actor PROVE Charged(a)
  <2>1. Load(a)' = Load(a) /\ Earned(a)' = Earned(a)
    BY <1>4 DEF Load, Earned, Due
  <2>2. Load(a) \in Int /\ Earned(a) \in Int
    BY Amounts
  <2>3. Load(a)' + Earned(a) <= Load(a) + Earned(a)' /\ Earned(a) <= Earned(a)'
    BY <2>1, <2>2
  <2>4. tid'[a] + Cardinality(Asking(a)') <= MaxTimeouts
    <3>1. CASE a # b \/ wait = "none"
      <4>1. Asking(a)' = Asking(a)
        BY <1>1, <1>2, <1>4, <1>5, <3>1 DEF Asking
      <4>2. QED
        BY <1>4, <4>1 DEF Bounds, Budget
    <3>2. CASE a = b /\ wait # "none"
      <4>1. tid[a] + Cardinality(Asking(a)) < MaxTimeouts
        BY <1>3, <3>2 DEF Asks, Asking
      <4>2. Asking(a)' = Asking(a) \cup {t} /\ t \notin Asking(a)
        BY <1>1, <1>2, <1>4, <1>5, <3>2 DEF Asking
      <4>3. IsFiniteSet(Asking(a))
        BY Constants_, FS_Subset DEF Asking
      <4>4. Cardinality(Asking(a)') = Cardinality(Asking(a)) + 1 /\ Cardinality(Asking(a)) \in Nat
        BY <4>2, <4>3, FS_AddElement, FS_CardinalityType
      <4>5. tid[a] \in Nat
        BY Amounts
      <4>6. QED
        BY <1>4, <4>1, <4>4, <4>5, Constants_
    <3>3. QED
      BY <3>1, <3>2
  <2>5. \A r \in Runner : job'[r] = a => Spends(r, a)
    BY <1>0, <1>4 DEF Spends
  <2>6. \A i \in 1 .. Len(mail'[a]) : mail'[a][i] <= sent'
    BY <1>4 DEF Bounds, Budget
  <2>7. QED
    BY <2>3, <2>4, <2>5, <2>6 DEF Charged
<1>8. QED
  BY <1>0, <1>4, <1>6, <1>7, BoundsStep


(* A request makes actor b's timeouts one more, and its messages or those  *)
(* the timer holds for it.                                                 *)
Affords(b, e) == tid[b] + e + Cardinality(Asking(b)') <= MaxTimeouts

Requests(b, e) ==
    /\ tid'[b] = tid[b] + e
    /\ \E k, d \in {0, 1} : /\ Len(mail'[b]) <= Len(mail[b]) + k /\ Due(b)' <= Due(b) + d
                            /\ k + d <= e

LEMMA RequestLoad ==
    ASSUME Typed, Typed', Bounds, NEW t, NEW b \in Actor, NEW wait \in Wait, RequestTimeout(t, b, wait)
    PROVE  /\ settled' \subseteq 1 .. sent
           /\ \A a \in Actor : a # b => mail'[a] = mail[a] /\ tid'[a] = tid[a] /\ Due(a)' = Due(a)
           /\ \A a \in Actor : \A i \in 1 .. Len(mail'[a]) : mail'[a][i] <= sent
           /\ Requests(b, IF wait = "none" THEN 0 ELSE 1)
<1>0. /\ mail \in [Actor -> Seq(Int)] /\ sent \in 0 .. MaxMsgs /\ sent \in Nat /\ settled \subseteq 1 .. sent
      /\ \A a \in Actor : \A i \in 1 .. Len(mail[a]) : mail[a][i] <= sent
  BY MailSent
<1>1. tid[b] \in Nat /\ tid \in [Actor -> Nat] /\ IsFiniteSet(delayed)
  BY DEF Typed, Cells
<1>2. Len(mail[b]) \in Int /\ Len(mail'[b]) \in Int /\ Due(b) \in Int /\ Due(b)' \in Int
  BY Amounts, NewAmounts
<1>3. 0 \in {0, 1} /\ 1 \in {0, 1} /\ 0 + 0 <= 0 /\ 0 + 0 <= 1 /\ 1 + 0 <= 1 /\ 0 + 1 <= 1
  OBVIOUS
<1>4. CASE wait = "none"
  <2>1. UNCHANGED <<mail, settled, tid, delayed>>
    BY <1>4 DEF RequestTimeout, box
  <2>2. \A a \in Actor : Due(a)' = Due(a)
    BY <2>1 DEF Due
  <2>3. Len(mail'[b]) <= Len(mail[b]) + 0 /\ Due(b)' <= Due(b) + 0 /\ tid'[b] = tid[b] + 0
    BY <1>1, <1>2, <2>1, <2>2
  <2>4. Requests(b, 0)
    BY <1>3, <2>3 DEF Requests
  <2>5. QED
    BY <1>0, <1>4, <2>1, <2>2, <2>4
<1>5. CASE wait = "zero"
  <2> DEFINE x == -(tid[b] + 1)
             eu == context[b]
  <2>1. /\ tid' = [tid EXCEPT ![b] = @ + 1] /\ delayed' = delayed
        /\ Deliver(mail, settled, t, b, x, eu)
    BY <1>5 DEF RequestTimeout
  <2>2. x \in Int /\ x <= sent /\ sent <= MaxMsgs
    BY <1>0, <1>1, Constants_
  <2> HIDE DEF x, eu
  <2>3. /\ \A a \in Actor : a # b => mail'[a] = mail[a]
        /\ Len(mail'[b]) <= Len(mail[b]) + 1
        /\ \A a \in Actor : \A i \in 1 .. Len(mail'[a]) : mail'[a][i] <= sent
        /\ settled' \subseteq 1 .. sent
    BY <1>0, <2>1, <2>2, DeliverLoad
  <2>4. \A a \in Actor : Due(a)' = Due(a)
    BY <2>1 DEF Due
  <2>5. tid'[b] = tid[b] + 1 /\ \A a \in Actor : a # b => tid'[a] = tid[a]
    BY <1>1, <2>1
  <2>6. Due(b)' <= Due(b) + 0
    BY <1>2, <2>4
  <2>7. Requests(b, 1)
    BY <1>3, <2>3, <2>5, <2>6 DEF Requests
  <2>8. QED
    BY <1>5, <2>3, <2>4, <2>5, <2>7
<1>6. CASE wait = "later"
  <2> DEFINE e == <<b, tid[b] + 1>>
  <2>1. /\ tid' = [tid EXCEPT ![b] = @ + 1] /\ UNCHANGED <<mail, settled>>
        /\ delayed' = delayed \/ delayed' = delayed \cup {e}
    BY <1>6 DEF RequestTimeout, box
  <2>2. delayed' \ {e} = delayed \ {e} /\ e[1] = b
    BY <2>1
  <2> HIDE DEF e
  <2>3. \A a \in Actor : Due(a)' = Due(a) - Bit(e \in delayed /\ e[1] = a) + Bit(e \in delayed' /\ e[1] = a)
    BY <1>1, <2>2, DueStep
  <2>4. ASSUME NEW a \in Actor, a # b PROVE Due(a)' = Due(a)
    <3>1. Due(a) \in Int
      BY Amounts
    <3>2. QED
      BY <2>2, <2>3, <2>4, <3>1 DEF Bit
  <2>5. Due(b)' <= Due(b) + 1
    BY <1>2, <2>3 DEF Bit
  <2>6. tid'[b] = tid[b] + 1 /\ \A a \in Actor : a # b => tid'[a] = tid[a]
    BY <1>1, <2>1
  <2>7. Len(mail'[b]) <= Len(mail[b]) + 0
    BY <1>2, <2>1
  <2>8. Requests(b, 1)
    BY <1>3, <2>5, <2>6, <2>7 DEF Requests
  <2>9. QED
    BY <1>0, <1>6, <2>1, <2>4, <2>6, <2>8
<1>7. QED
  BY <1>4, <1>5, <1>6 DEF Wait

LEMMA RequestBounds ==
    ASSUME Typed, Typed', Bounds, NEW t \in Runner, NEW b \in Actor, NEW wait \in Wait,
           RequestTimeout(t, b, wait), Affords(b, IF wait = "none" THEN 0 ELSE 1),
           job' = job, sent' = sent, burst'[t] = 0,
           \A r \in Runner : r # t => pc'[r] = pc[r] /\ burst'[r] = burst[r],
           \A r \in Runner : job[r] # b => (seen'[r].wait # "none" <=> seen[r].wait # "none")
    PROVE  Bounds'
<1> DEFINE e == IF wait = "none" THEN 0 ELSE 1
<1>1. /\ settled' \subseteq 1 .. sent
      /\ \A a \in Actor : a # b => mail'[a] = mail[a] /\ tid'[a] = tid[a] /\ Due(a)' = Due(a)
      /\ \A a \in Actor : \A i \in 1 .. Len(mail'[a]) : mail'[a][i] <= sent
      /\ Requests(b, e)
  BY RequestLoad
<1>2. e \in Nat /\ Affords(b, e)
  OBVIOUS
<1> HIDE DEF e
<1>3. Counting'
  BY DEF Counting, Bounds
<1>4. ASSUME NEW a \in Actor PROVE Charged(a)
  <2>1. /\ Load(a)' + Earned(a) <= Load(a) + Earned(a)' /\ Earned(a) <= Earned(a)'
        /\ tid'[a] + Cardinality(Asking(a)') <= MaxTimeouts
    <3>1. CASE a = b
      <4>1. PICK k \in {0, 1}, d \in {0, 1} :
               Len(mail'[a]) <= Len(mail[a]) + k /\ Due(a)' <= Due(a) + d /\ k + d <= e
        BY <1>1, <3>1 DEF Requests
      <4>2. tid[a] \in Int /\ sent \in Int /\ tid'[a] = tid[a] + e
        <5>1. tid[a] \in Nat
          BY Amounts
        <5>2. QED
          BY <1>1, <3>1, <5>1 DEF Requests, Typed
      <4>3. sent' + tid'[a] = sent + tid[a] + e
        BY <1>2, <4>2
      <4>4. k \in Int /\ d \in Int
        OBVIOUS
      <4>5. Load(a)' + Earned(a) <= Load(a) + Earned(a)' /\ Earned(a) <= Earned(a)'
        BY <1>2, <4>1, <4>3, <4>4, LoadStep
      <4>6. QED
        BY <1>2, <3>1, <4>2, <4>5 DEF Affords
    <3>2. CASE a # b
      <4>1. Load(a)' = Load(a) /\ Earned(a)' = Earned(a)
        BY <1>1, <3>2 DEF Load, Earned
      <4>2. Load(a) \in Int /\ Earned(a) \in Int
        BY Amounts
      <4>3. Asking(a)' = Asking(a)
        BY <3>2 DEF Asking
      <4>4. QED
        BY <1>1, <3>2, <4>1, <4>2, <4>3 DEF Bounds, Budget
    <3>3. QED
      BY <3>1, <3>2
  <2>2. \A r \in Runner : job'[r] = a => Spends(r, a)
    BY DEF Spends
  <2>3. QED
    BY <1>1, <2>1, <2>2 DEF Charged
<1>5. sent' \in 0 .. MaxMsgs /\ settled' \subseteq 1 .. sent'
  BY <1>1 DEF Bounds
<1>6. QED
  BY <1>3, <1>4, <1>5, BoundsStep

LEMMA LimitBounds ==
    ASSUME Typed, Typed', Bounds, NEW t \in Runner, Limit(t)
    PROVE  Bounds'
<1>0. t \in Thread /\ pc \in [Thread -> Position] /\ burst \in [Runner -> Nat] /\ Threads
  BY Nothing DEF Typed
<1>1. pc[t] = "run"
  BY DEF Limit, At
<1>2. PICK b \in Actor : b = job[t]
  BY <1>0, <1>1, WhoRuns DEF Busy
<1>3. PICK wait \in Wait : Asks(b, wait) /\ RequestTimeout(t, b, wait)
  BY <1>2 DEF Limit, Wait
<1>4. /\ job' = job /\ sent' = sent /\ seen' = seen
      /\ pc' = [pc EXCEPT ![t] = "yield"] /\ burst' = [burst EXCEPT ![t] = 0]
  BY DEF Limit, Leave, Goto
<1>5. burst'[t] = 0 /\ \A r \in Runner : r # t => pc'[r] = pc[r] /\ burst'[r] = burst[r]
  BY <1>0, <1>4
<1>6. Asking(b)' = Asking(b)
  BY <1>4 DEF Asking
<1>7. Affords(b, IF wait = "none" THEN 0 ELSE 1)
  <2>1. tid[b] \in Nat /\ Cardinality(Asking(b)) \in Nat
    <3>1. IsFiniteSet(Asking(b))
      BY Constants_, FS_Subset DEF Asking
    <3>2. QED
      BY <3>1, Amounts, FS_CardinalityType
  <2>2. CASE wait = "none"
    <3>1. tid[b] + Cardinality(Asking(b)) <= MaxTimeouts
      BY DEF Bounds, Budget
    <3>2. tid[b] + 0 + Cardinality(Asking(b)) <= MaxTimeouts
      BY <2>1, <3>1
    <3>3. QED
      BY <1>6, <2>2, <3>2 DEF Affords
  <2>3. CASE wait # "none"
    <3>1. tid[b] + Cardinality(Asking(b)) < MaxTimeouts
      BY <1>3, <2>3 DEF Asks, Asking
    <3>2. tid[b] + 1 + Cardinality(Asking(b)) <= MaxTimeouts
      BY <2>1, <3>1, Constants_
    <3>3. QED
      BY <1>6, <2>3, <3>2 DEF Affords
  <2>4. QED
    BY <2>2, <2>3
<1>8. QED
  BY <1>3, <1>4, <1>5, <1>7, RequestBounds

(* The timeout was counted when the flags were loaded.                     *)
LEMMA TailStoreBounds ==
    ASSUME Typed, Typed', Bounds, NEW t \in Runner, TailStore(t)
    PROVE  Bounds'
<1>0. /\ t \in Thread /\ pc \in [Thread -> Position] /\ burst \in [Runner -> Nat] /\ Threads
      /\ seen \in [Runner -> [flags : SUBSET Flag, wait : Wait]]
  BY Nothing DEF Typed, Threads
<1>1. pc[t] = "store"
  BY DEF TailStore, At
<1>2. PICK b \in Actor : b = job[t]
  BY <1>0, <1>1, WhoRuns DEF Busy
<1>3. PICK wait \in Wait : wait = seen[t].wait
  BY <1>0
<1>4. /\ RequestTimeout(t, b, wait) /\ job' = job /\ sent' = sent /\ seen' = [seen EXCEPT ![t] = NoWrite]
      /\ pc' = [pc EXCEPT ![t] = "release"] /\ burst' = [burst EXCEPT ![t] = 0]
  BY <1>2, <1>3 DEF TailStore, Leave, Goto
<1>5. burst'[t] = 0 /\ \A r \in Runner : r # t => pc'[r] = pc[r] /\ burst'[r] = burst[r]
  BY <1>0, <1>4
<1>6. seen'[t].wait = "none" /\ \A r \in Runner : r # t => seen'[r] = seen[r]
  BY <1>0, <1>4 DEF NoWrite
<1>7. Affords(b, IF wait = "none" THEN 0 ELSE 1)
  <2>1. IsFiniteSet(Asking(b))
    BY Constants_, FS_Subset DEF Asking
  <2>2. tid[b] \in Nat /\ Cardinality(Asking(b)) \in Nat
    BY <2>1, Amounts, FS_CardinalityType
  <2>3. tid[b] + Cardinality(Asking(b)) <= MaxTimeouts
    BY DEF Bounds, Budget
  <2>4. CASE wait = "none"
    <3>1. Asking(b)' = Asking(b)
      BY <1>3, <1>4, <1>6, <2>4 DEF Asking
    <3>2. tid[b] + 0 + Cardinality(Asking(b)) <= MaxTimeouts
      BY <2>2, <2>3
    <3>3. QED
      BY <2>4, <3>1, <3>2 DEF Affords
  <2>5. CASE wait # "none"
    <3>1. Asking(b)' = Asking(b) \ {t} /\ t \in Asking(b)
      BY <1>2, <1>3, <1>4, <1>6, <2>5 DEF Asking
    <3>2. Cardinality(Asking(b)') = Cardinality(Asking(b)) - 1
      BY <2>1, <3>1, FS_RemoveElement
    <3>3. tid[b] + 1 + Cardinality(Asking(b)') <= MaxTimeouts
      BY <2>2, <2>3, <3>2
    <3>4. QED
      BY <2>5, <3>3 DEF Affords
  <2>6. QED
    BY <2>4, <2>5
<1>8. \A r \in Runner : job[r] # b => (seen'[r].wait # "none" <=> seen[r].wait # "none")
  BY <1>2, <1>6
<1>9. QED
  BY <1>4, <1>5, <1>7, <1>8, RequestBounds


LEMMA SentGrows ==
    ASSUME [Next]_vars
    PROVE  sent' = sent \/ sent' = sent + 1
<1>1. ASSUME NEW t, Run(t) PROVE sent' = sent \/ sent' = sent + 1
  BY <1>1 DEF Run, DropExpired, Handle, HandleAndQuit, HandleAndSend, Block, Limit, Yield, TailLoad,
              TailStore, Release, Reschedule
<1>2. CASE ProgramStep \/ StopStep \/ TimerStep
  BY <1>2 DEF ProgramStep, StopStep, TimerStep, BeginStop, Launch, LaunchLazily, Send, DropHandle,
              Reschedule, WorkerReported, StopTimer, Sweep, PlaceHelper, Erase, Expire
<1>3. ASSUME NEW w \in Worker, WorkerStep(w) PROVE sent' = sent \/ sent' = sent + 1
  BY <1>1, <1>3 DEF WorkerStep, TakeOwn, Steal
<1>4. ASSUME NEW d \in Detached, PrivateStep(d) PROVE sent' = sent \/ sent' = sent + 1
  BY <1>1, <1>4 DEF PrivateStep, LoopTop, Resume, AwaitResume, AwaitSelfDestroyed
<1>5. CASE UNCHANGED vars
  BY <1>5 DEF vars
<1>6. QED
  BY <1>2, <1>3, <1>4, <1>5 DEF Next

LEMMA RunBounds ==
    ASSUME Typed, Typed', Bounds, NEW t \in Runner, Run(t)
    PROVE  Bounds'
<1>1. t \in Thread
  BY DEF Thread
<1>2. CASE DropExpired(t) \/ HandleAndQuit(t) \/ Block(t) \/ Yield(t) \/ Release(t)
  BY <1>2, RunQuiet, QuietBounds
<1>3. CASE Reschedule(t)
  BY <1>1, <1>3, ElseQuiet, QuietBounds
<1>4. QED
  BY <1>2, <1>3, HandleBounds, HandleAndSendBounds, LimitBounds, TailLoadBounds, TailStoreBounds DEF Run

LEMMA BoundsKept == IInv /\ [Next]_vars => Bounds'
<1> SUFFICES ASSUME IInv, [Next]_vars PROVE Bounds'
  OBVIOUS
<1>0. Typed /\ Bounds /\ Deques
  BY DEF IInv, Typed, Bounds
<1>1. Typed'
  <2>1. sent' \in Nat
    BY <1>0, SentGrows DEF Typed
  <2>2. QED
    BY <2>1, ThreadsKept, CellsKept DEF Typed
<1>2. Quiet => Bounds'
  BY <1>0, <1>1, QuietBounds
<1>3. Program \in Thread /\ Timer \in Thread
  BY DEF Thread
<1>4. CASE UNCHANGED vars
  BY <1>0, <1>2, <1>4, ElseQuiet
<1>5. CASE ProgramStep
  <2>1. ASSUME NEW a \in Actor, Launch(a) PROVE Bounds'
    <3>1. Closing(a)
      BY DEF IInv, Kept
    <3>2. QED
      BY <1>0, <1>2, <2>1, <3>1, LaunchQuiet
  <2>2. CASE BeginStop \/ \E a \in Actor : LaunchLazily(a) \/ DropHandle(a)
    BY <1>0, <1>2, <2>2, ElseQuiet
  <2>3. ASSUME NEW a \in Actor, Send(a) PROVE Bounds'
    BY <1>0, <1>1, <2>3, SendBounds
  <2>4. QED
    BY <1>5, <2>1, <2>2, <2>3 DEF ProgramStep
<1>6. CASE StopStep
  <2>1. CASE Sweep
    <3>1. ~In(deque, Helper) /\ stop.sweep \in Worker
      BY <2>1 DEF IInv, Stops, Sweep, Stopping
    <3>2. QED
      BY <1>0, <1>2, <2>1, <3>1, SweepQuiet
  <2>2. CASE WorkerReported \/ StopTimer \/ (\E w \in Worker : PlaceHelper(w)) \/ Reschedule(Program)
    BY <1>0, <1>2, <1>3, <2>2, ElseQuiet
  <2>3. QED
    BY <1>6, <2>1, <2>2 DEF StopStep
<1>7. CASE TimerStep
  <2>1. CASE Erase \/ Reschedule(Timer)
    BY <1>0, <1>2, <1>3, <2>1, ElseQuiet
  <2>2. QED
    BY <1>0, <1>1, <1>7, <2>1, ExpireBounds DEF TimerStep
<1>8. ASSUME NEW w \in Worker, WorkerStep(w) PROVE Bounds'
  <2>1. w \in Runner
    BY DEF Runner
  <2>2. CASE TakeOwn(w) \/ \E v \in Worker : Steal(w, v)
    <3>1. \E j \in Job : Takes(w, j)
      BY <1>0, <2>2, TakeSteps
    <3>2. QED
      BY <1>0, <1>2, <2>1, <3>1, WorkQuiet
  <2>3. QED
    BY <1>0, <1>1, <1>8, <2>1, <2>2, RunBounds DEF WorkerStep
<1>9. ASSUME NEW d \in Detached, PrivateStep(d) PROVE Bounds'
  <2>1. d \in Runner
    BY DEF Runner
  <2>2. CASE LoopTop(d) \/ Resume(d) \/ AwaitResume(d) \/ AwaitSelfDestroyed(d)
    BY <1>0, <1>2, <2>1, <2>2, WorkQuiet
  <2>3. QED
    BY <1>0, <1>1, <1>9, <2>1, <2>2, RunBounds DEF PrivateStep
<1>10. QED
  BY <1>4, <1>5, <1>6, <1>7, <1>8, <1>9 DEF Next

-----------------------------------------------------------------------------
(* The theorems *)

LEMMA InitIInv == Init => IInv
<1> SUFFICES ASSUME Init PROVE IInv
  OBVIOUS
<1>1. Threads
  <2>1. pc \in [Thread -> Position] /\ job \in [Thread -> Actor \cup {None}]
    BY DEF Init, Position, PrivatePc, Busy, Actor
  <2>2. ASSUME NEW t \in Thread PROVE WellPlaced(t, pc[t], job[t])
    BY <2>2, Constants_ DEF Init, WellPlaced, Thread, Runner, PrivatePc
  <2>3. /\ wake \in [Thread -> (Actor \X (Runner \cup {None})) \cup {None}]
        /\ burst \in [Runner -> Nat] /\ seen \in [Runner -> [flags : SUBSET Flag, wait : Wait]]
        /\ \A t \in Runner : pc[t] # "store" => seen[t] = NoWrite
    BY DEF Init, NoWrite, Flag, Wait
  <2>4. QED
    BY <2>1, <2>2, <2>3 DEF Threads
<1>2. \A w \in Worker : Len(deque[w]) = 0 /\ deque[w] \in Seq(Pooled \cup {Helper})
  BY DEF Init
<1>3. ~In(deque, Helper) /\ \A a : ~In(deque, a)
  BY <1>2 DEF In
<1>4. Deques
  <2>1. \A j \in Pooled \cup {Helper} : Once(deque, j)
    BY <1>2 DEF Once
  <2>2. deque \in [Worker -> Seq(Pooled \cup {Helper})]
    BY <1>2 DEF Init
  <2>3. QED
    BY <2>1, <2>2 DEF Deques
<1>5. Stops
  <2>1. 1 \in Worker
    BY Constants_ DEF Worker
  <2>2. None \notin Worker
    BY Constants_ DEF Thread, Runner
  <2>3. \A w \in Worker : pc[w] # "left"
    BY DEF Init, Thread, Runner
  <2>4. StoppedAsReported
    BY <2>2, <2>3 DEF Init, StoppedAsReported
  <2>5. QED
    BY <1>3, <2>1, <2>4 DEF Init, Stops
<1>6. Cells
  <2>1. << >> \in Seq(Int) /\ IsFiniteSet({})
    BY EmptySeq, FS_EmptySet
  <2>2. QED
    BY <2>1 DEF Init, Cells, Flag
<1>7. \A t \in Runner : burst[t] = 0 /\ seen[t] = NoWrite /\ NoWrite.wait = "none" /\ NoWrite.flags = {}
  BY DEF Init, NoWrite
<1>8. ASSUME NEW a \in Actor PROVE Due(a) = 0 /\ mail[a] = << >> /\ tid[a] = 0 /\ Len(mail[a]) = 0
  <2>1. DueOf(delayed, a) = {}
    BY DEF Init, DueOf
  <2>2. QED
    BY <2>1, FS_EmptySet DEF Init, Due
<1>9. Bounds
  <2>1. sent = 0 /\ sent \in 0 .. MaxMsgs /\ settled \subseteq 1 .. sent
    BY Constants_ DEF Init
  <2>2. ASSUME NEW a \in Actor PROVE Budget(a)
    <3>1. Asking(a) = {}
      BY <1>7 DEF Asking
    <3>2. Cardinality(Asking(a)) = 0
      BY <3>1, FS_EmptySet
    <3>3. tid[a] + Cardinality(Asking(a)) <= MaxTimeouts
      BY <1>8, <3>2, Constants_
    <3>4. \A i \in 1 .. Len(mail[a]) : mail[a][i] <= sent
      BY <1>8
    <3>5. QED
      BY <1>7, <1>8, <2>1, <3>3, <3>4 DEF Budget
  <2>3. QED
    BY <1>7, <2>1, <2>2 DEF Bounds
<1>10. ASSUME NEW a \in Actor PROVE Kept(a)
  <2>1. \A t \in Thread : pc[t] \in {"poll", "none"} /\ wake[t] = None
    BY DEF Init
  <2>2. Among(pc, job, a, Holding) = {} /\ Among(pc, job, a, Active) = {} /\ Wakers(wake, a) = {}
    BY <2>1 DEF Among, Holding, Turning, Active, Wakers
  <2>3. Holders(a) = 0 /\ Runners(a) = 0 /\ Waking(a) = 0
    BY <2>2, FS_EmptySet DEF Holders, Runners, Waking
  <2>4. handle[a] = "none" /\ refs[a] = 0 /\ mstate[a] = "open" /\ flags[a] = {}
    BY DEF Init
  <2>5. a \in Detached => pc[a] = "none" /\ tstate[a] = "active"
    BY Constants_ DEF Init, Thread, Runner
  <2>6. Held(a) = 0 /\ Placed(a) = 0 /\ Pending(a) = 0 /\ Awake(a) = 0
    BY <1>3, <2>4, <2>5 DEF Held, Placed, Pending, IsPending, Between, Awake, IsAwake, Bit
  <2>7. Counted(a)
    BY <1>8, <2>3, <2>4, <2>6 DEF Counted
  <2>8. Backed(a)
    BY <2>1 DEF Backed
  <2>9. Closing(a)
    BY <1>7, <1>8, <2>4, <2>5 DEF Closing
  <2>10. QED
    BY <2>7, <2>8, <2>9 DEF Kept
<1>11. QED
  BY <1>1, <1>4, <1>5, <1>6, <1>9, <1>10 DEF IInv

LEMMA NextIInv == IInv /\ [Next]_vars => IInv'
BY ThreadsKept, DequesKept, CellsKept, BoundsKept, KeptKept DEF IInv

(* The inductive invariant holds of every number of workers, actors and    *)
(* messages: deques without duplicates, exact counts, bounded work.        *)
THEOREM SchedulingSafe == Spec => []IInv
<1>1. Init => IInv
  BY InitIInv
<1>2. IInv /\ [Next]_vars => IInv'
  BY NextIInv
<1>3. QED
  BY <1>1, <1>2, PTL DEF Spec


(* A deque in which no job is twice holds at most every job.               *)
LEMMA DequeBounded ==
    ASSUME Deques, NEW w \in Worker
    PROVE  Len(deque[w]) <= 1 + Count(Pooled) /\ ToSet(deque[w]) \subseteq Pooled \cup {Helper}
<1> DEFINE q == deque[w]
           D == 1 .. Len(q)
<1>1. q \in Seq(Job) /\ Len(q) \in Nat /\ \A i \in D : q[i] \in Job
  <2>1. q \in Seq(Job)
    BY DEF Deques, Job
  <2>2. QED
    BY <2>1, LenProperties, ElementOfSeq
<1>2. \A i, k \in D : q[i] = q[k] => i = k
  <2>1. ASSUME NEW i \in D, NEW k \in D, q[i] = q[k] PROVE i = k
    <3>1. PICK j \in Job : j = q[i]
      BY <1>1
    <3>2. Once(deque, j)
      BY DEF Deques, Job
    <3>3. QED
      BY <2>1, <3>1, <3>2 DEF Once
  <2>2. QED
    BY <2>1
<1>3. Len(q) <= Cardinality(Job)
  <2> DEFINE f == [i \in D |-> q[i]]
  <2>1. IsFiniteSet(Job)
    BY Constants_, FS_AddElement DEF Job
  <2>2. f \in Injection(D, Job)
    BY <1>1, <1>2 DEF Injection, IsInjective
  <2> HIDE DEF f
  <2>3. Cardinality(D) <= Cardinality(Job)
    BY <2>1, <2>2, FS_Injection
  <2>4. 1 \in Int /\ Len(q) \in Int
    BY <1>1
  <2>5. Cardinality(D) = IF 1 > Len(q) THEN 0 ELSE Len(q) - 1 + 1
    BY <2>4, FS_Interval
  <2>6. Cardinality(D) = Len(q)
    BY <1>1, <2>5
  <2>7. QED
    BY <2>3, <2>6
<1>4. Cardinality(Job) = 1 + Count(Pooled)
  <2>1. Helper \notin Pooled /\ IsFiniteSet(Pooled)
    BY Constants_ DEF Actor
  <2>2. Cardinality(Job) = Cardinality(Pooled) + 1 /\ Cardinality(Pooled) \in Nat
    BY <2>1, FS_AddElement, FS_CardinalityType DEF Job
  <2>3. QED
    BY <2>2 DEF Count
<1>5. ToSet(q) \subseteq Job
  <2>1. DOMAIN q = D
    BY <1>1, LenProperties
  <2>2. QED
    BY <1>1, <2>1 DEF ToSet
<1>6. QED
  BY <1>3, <1>4, <1>5 DEF Job

LEMMA IInvTyped == IInv => TypeOK
<1> SUFFICES ASSUME IInv PROVE TypeOK
  OBVIOUS
<1>0. Threads /\ Deques /\ Cells /\ Bounds /\ Typed /\ \A a \in Actor : Kept(a)
  BY DEF IInv, Typed, Bounds
<1>1. \A a \in Actor : mstate[a] \in {"open", "blocked", "closed"} /\ (mstate[a] # "open" => mail[a] = << >>)
  BY <1>0 DEF Cells, Kept, Closing
<1>2. refs \in [Actor -> Nat]
  <2>1. \A a \in Actor : refs[a] \in Nat
    BY <1>0, Counts DEF Cells, Kept
  <2>2. QED
    BY <1>0, <2>1 DEF Cells
<1>3. \A a \in Actor : tid[a] \in 0 .. MaxTimeouts
  <2> SUFFICES ASSUME NEW a \in Actor PROVE tid[a] \in 0 .. MaxTimeouts
    OBVIOUS
  <2>1. tid[a] + Cardinality(Asking(a)) <= MaxTimeouts
    BY <1>0 DEF Bounds, Budget
  <2>2. IsFiniteSet(Asking(a))
    BY Constants_, FS_Subset DEF Asking
  <2>3. tid[a] \in Nat /\ Cardinality(Asking(a)) \in Nat
    BY <1>0, <2>2, Amounts, FS_CardinalityType
  <2>4. QED
    BY <2>1, <2>3, Constants_
<1>4. \A w \in Worker : /\ Len(deque[w]) <= 1 + Count(Pooled)
                        /\ ToSet(deque[w]) \subseteq Pooled \cup {Helper}
  BY <1>0, DequeBounded
<1>5. ASSUME NEW t \in Runner
      PROVE  job[t] \in Actor \cup {None} /\ burst[t] \in 0 .. MaxMsgs + MaxTimeouts + 2
  <2>1. job[t] \in Actor \cup {None} /\ burst[t] \in Nat
    BY <1>0 DEF Threads, Thread
  <2>2. burst[t] <= MaxMsgs + MaxTimeouts
    <3>1. CASE job[t] \in Actor
      <4>1. burst[t] <= sent + tid[job[t]]
        BY <1>0, <3>1 DEF Bounds, Budget
      <4>2. PICK k \in Nat : k = tid[job[t]]
        BY <1>3, <3>1
      <4>3. k <= MaxTimeouts /\ sent \in Nat /\ sent <= MaxMsgs
        BY <1>0, <1>3, <3>1, <4>2, Constants_ DEF Bounds
      <4>4. burst[t] <= sent + k
        BY <4>1, <4>2
      <4>5. QED
        BY <2>1, <4>3, <4>4, Constants_
    <3>2. CASE job[t] \notin Actor
      <4>1. pc[t] \notin Busy
        BY <1>0, <3>2, WhoRuns
      <4>2. burst[t] = 0
        BY <1>0, <4>1 DEF Bounds, Busy
      <4>3. QED
        BY <4>2, Constants_
    <3>3. QED
      BY <3>1, <3>2
  <2>3. QED
    BY <2>1, <2>2, Constants_
<1>6. tid \in [Actor -> 0 .. MaxTimeouts]
  BY <1>0, <1>3 DEF Cells
<1>7. flags \in [Actor -> SUBSET {"timeout", "terminated", "cleaned_up", "initialized"}]
      /\ tstate \in [Detached -> {"active", "await", "shutdown"}] /\ settled \subseteq 1 .. sent
  BY <1>0 DEF Cells, Flag, Bounds
<1>8. QED
  BY <1>1, <1>2, <1>4, <1>5, <1>6, <1>7 DEF TypeOK

(* Whatever is stolen, retried or raced, deques hold no more than the      *)
(* actors, strong counts stay natural numbers and a sleeping reader has no *)
(* mail.                                                                   *)
THEOREM SchedulingTyped == Spec => []TypeOK
<1>1. IInv => TypeOK
  BY IInvTyped
<1>2. QED
  BY <1>1, SchedulingSafe, PTL


LEMMA OneOrNone ==
    ASSUME NEW S, NEW x, S \subseteq {x}
    PROVE  Count(S) = Bit(x \in S)
<1>1. CASE x \in S
  <2>1. S = {x}
    BY <1>1
  <2>2. QED
    BY <1>1, <2>1, FS_Singleton DEF Count, Bit
<1>2. CASE x \notin S
  <2>1. S = {}
    BY <1>2
  <2>2. QED
    BY <1>2, <2>1, FS_EmptySet DEF Count, Bit
<1>3. QED
  BY <1>1, <1>2

LEMMA QueuedPlaced ==
    ASSUME Deques, NEW a \in Actor
    PROVE  Count(Queued(a)) = Placed(a)
<1>1. CASE In(deque, a)
  <2>0. PICK w \in Worker : \E i \in 1 .. Len(deque[w]) : deque[w][i] = a
    BY <1>1 DEF In
  <2>1. PICK i \in 1 .. Len(deque[w]) : deque[w][i] = a
    BY <2>0
  <2>2. deque[w] \in Seq(Job) /\ Len(deque[w]) \in Nat
    BY LenProperties DEF Deques, Job
  <2>3. a \in Job
    BY <2>1, <2>2, ElementOfSeq
  <2>4. i \in 1 .. 1 + Count(Actor)
    <3>1. Len(deque[w]) <= 1 + Count(Pooled)
      BY DequeBounded
    <3>2. IsFiniteSet(Actor) /\ Pooled \subseteq Actor
      BY SchedulingAssumption DEF Actor
    <3>3. Count(Pooled) <= Count(Actor) /\ Count(Pooled) \in Nat /\ Count(Actor) \in Nat
      BY <3>2, FS_Subset, FS_CardinalityType DEF Count
    <3>4. QED
      BY <2>2, <3>1, <3>3
  <2>5. <<w, i>> \in Queued(a)
    BY <2>1, <2>2, <2>4 DEF Queued
  <2>6. ASSUME NEW s \in Queued(a) PROVE s = <<w, i>>
    <3>1. PICK v \in Worker, k \in 1 .. 1 + Count(Actor) : s = <<v, k>>
      BY DEF Queued
    <3>2. k \in Int /\ 1 <= k /\ k <= Len(deque[v]) /\ deque[v][k] = a
      BY <3>1 DEF Queued
    <3>3. Len(deque[v]) \in Nat
      BY LenProperties DEF Deques
    <3>4. k \in 1 .. Len(deque[v])
      BY <3>2, <3>3
    <3>5. Once(deque, a)
      BY <2>3 DEF Deques, Job
    <3>6. QED
      BY <2>1, <3>1, <3>2, <3>4, <3>5 DEF Once
  <2>7. Queued(a) = {<<w, i>>}
    BY <2>5, <2>6
  <2>8. QED
    BY <1>1, <2>7, FS_Singleton DEF Count, Placed, Bit
<1>2. CASE ~In(deque, a)
  <2>1. Queued(a) = {}
    <3> SUFFICES ASSUME NEW s \in Queued(a) PROVE FALSE
      OBVIOUS
    <3>1. PICK v \in Worker, k \in 1 .. 1 + Count(Actor) : s = <<v, k>>
      BY DEF Queued
    <3>2. k \in Int /\ 1 <= k /\ k <= Len(deque[v]) /\ deque[v][k] = a
      BY <3>1 DEF Queued
    <3>3. Len(deque[v]) \in Nat
      BY LenProperties DEF Deques
    <3>4. k \in 1 .. Len(deque[v])
      BY <3>2, <3>3
    <3>5. QED
      BY <1>2, <3>2, <3>4 DEF In
  <2>2. QED
    BY <1>2, <2>1, FS_EmptySet DEF Count, Placed, Bit
<1>3. QED
  BY <1>1, <1>2

LEMMA IInvRefs == IInv => RefsExact
<1> SUFFICES ASSUME IInv, NEW a \in Actor
             PROVE  refs[a] = Count({h \in {a} : handle[h] = "held"}) + Count(Queued(a))
                              + Count(At_(a, Holding)) + Count({e \in delayed : e[1] = a})
                              + Count({d \in Detached \cap {a} : /\ tstate[d] = "active"
                                                                 /\ pc[d] \in {"tail", "store", "release", "await"}})
  BY DEF RefsExact
<1>1. refs[a] = Held(a) + Placed(a) + Holders(a) + Due(a) + Pending(a)
  BY DEF IInv, Kept, Counted
<1>2. Count({h \in {a} : handle[h] = "held"}) = Held(a)
  <2> DEFINE H == {h \in {a} : handle[h] = "held"}
  <2>1. H \subseteq {a} /\ (a \in H <=> handle[a] = "held")
    OBVIOUS
  <2> HIDE DEF H
  <2>2. Count(H) = Bit(a \in H)
    BY <2>1, OneOrNone
  <2>3. QED
    BY <2>1, <2>2 DEF H, Held, Bit
<1>3. Count({d \in Detached \cap {a} : /\ tstate[d] = "active"
                                       /\ pc[d] \in {"tail", "store", "release", "await"}}) = Pending(a)
  <2> DEFINE H == {d \in Detached \cap {a} : /\ tstate[d] = "active"
                                             /\ pc[d] \in {"tail", "store", "release", "await"}}
  <2>1. H \subseteq {a} /\ (a \in H <=> IsPending(a))
    BY DEF IsPending, Between
  <2> HIDE DEF H
  <2>2. Count(H) = Bit(a \in H)
    BY <2>1, OneOrNone
  <2>3. QED
    BY <2>1, <2>2 DEF H, Pending, Bit
<1>4. Count(Queued(a)) = Placed(a)
  BY QueuedPlaced DEF IInv
<1>5. Count(At_(a, Holding)) = Holders(a)
  BY DEF Count, At_, Holders, Among
<1>6. Count({e \in delayed : e[1] = a}) = Due(a)
  BY DEF Count, Due, DueOf
<1>7. QED
  BY <1>1, <1>2, <1>3, <1>4, <1>5, <1>6

LEMMA IInvOneWorker == IInv => OneWorkerPerActor
<1> SUFFICES ASSUME IInv, NEW a \in Pooled, handle[a] # "none"
             PROVE  Count(Queued(a)) + Count(At_(a, Turning)) + Count(WakersOf(a))
                        = IF mstate[a] = "open" THEN 1 ELSE 0
  BY DEF OneWorkerPerActor
<1>1. a \in Actor /\ a \notin Detached /\ Threads /\ Deques /\ Typed
  BY Constants_ DEF Actor, IInv, Typed, Bounds
<1>2. Placed(a) + Runners(a) + Waking(a) + Pending(a) = Awake(a)
  BY <1>1 DEF IInv, Kept, Counted
<1>3. Count(Queued(a)) = Placed(a)
  BY <1>1, QueuedPlaced
<1>4. Count(At_(a, Turning)) = Runners(a)
  <2>1. ASSUME NEW t \in Thread, job[t] = a PROVE pc[t] \notin {"top", "resume"}
    <3>1. WellPlaced(t, pc[t], job[t])
      BY <1>1 DEF Threads
    <3>2. QED
      BY <1>1, <2>1, <3>1, Constants_ DEF WellPlaced, Busy
  <2>2. At_(a, Turning) = Among(pc, job, a, Active)
    BY <2>1 DEF At_, Among, Turning, Active
  <2>3. QED
    BY <2>2 DEF Count, Runners
<1>5. Count(WakersOf(a)) = Waking(a)
  BY DEF Count, WakersOf, Waking, Wakers
<1>6. Pending(a) = 0 /\ Awake(a) = IF mstate[a] = "open" THEN 1 ELSE 0
  BY <1>1 DEF Pending, IsPending, Awake, IsAwake, Bit
<1>7. Placed(a) \in Int /\ Runners(a) \in Int /\ Waking(a) \in Int
  BY <1>1, Numbers DEF Typed, Cells
<1>8. QED
  BY <1>2, <1>3, <1>4, <1>5, <1>6, <1>7

(* A pooled actor whose mailbox is open is in exactly one place, however   *)
(* its job is stolen: no two workers run it and it is not forgotten.       *)
THEOREM SchedulingOneWorkerPerActor == Spec => []OneWorkerPerActor
<1>1. IInv => OneWorkerPerActor
  BY IInvOneWorker
<1>2. QED
  BY <1>1, SchedulingSafe, PTL

(* The strong count is at every moment the number of owners.               *)
THEOREM SchedulingRefsExact == Spec => []RefsExact
<1>1. IInv => RefsExact
  BY IInvRefs
<1>2. QED
  BY <1>1, SchedulingSafe, PTL

(* coordinator::stop knows which workers have left, whoever stole the      *)
(* helper on the way.                                                      *)
THEOREM SchedulingStoppedAsReported == Spec => []StoppedAsReported
<1>1. IInv => StoppedAsReported
  BY DEF IInv, Stops
<1>2. QED
  BY <1>1, SchedulingSafe, PTL
==============================================================================
