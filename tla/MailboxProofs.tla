---------------------------- MODULE MailboxProofs ----------------------------
(***************************************************************************)
(* Proofs about single_reader_queue, for any number of writers, addresses  *)
(* and elements: the reader is woken once, no address is in two places,    *)
(* and the stack with its compare-and-swaps is one atomic queue.           *)
(***************************************************************************)
EXTENDS Mailbox, FiniteSetTheorems, FunctionTheorems, SequenceTheorems, TLAPS

(* Induction on the naturals, from the pigeonhole principle: the successor *)
(* would be an injection of S \cap 0 .. n into itself that misses 0.       *)
LEMMA ClosedUnderSuccessor ==
    ASSUME NEW S \in SUBSET Nat, 0 \in S, NEW n \in Nat,
           \A k \in S : k < n => k + 1 \in S
    PROVE  n \in S
<1>. SUFFICES ASSUME n \notin S PROVE FALSE
  OBVIOUS
<1> DEFINE A == S \cap (0 .. n)
           f == [k \in A |-> k + 1]
<1>1. IsFiniteSet(A)
  <2>1. IsFiniteSet(0 .. n)
    BY FS_Interval
  <2>2. A \in SUBSET (0 .. n)
    OBVIOUS
  <2> HIDE DEF A
  <2>3. QED
    BY <2>1, <2>2, FS_Subset
<1>2. f \in Injection(A, A)
  <2>1. \A k \in A : k \in 0 .. n /\ k # n
    OBVIOUS
  <2>2. f \in [A -> A]
    BY <2>1
  <2>3. \A a, b \in A : f[a] = f[b] => a = b
    OBVIOUS
  <2>4. QED
    BY <2>2, <2>3, Fun_IsInj
<1>3. f \in Surjection(A, A)
  <2> HIDE DEF f
  <2>1. QED
    BY <1>1, <1>2, FS_Injection
<1>4. 0 \in A
  OBVIOUS
<1>5. \E k \in A : f[k] = 0
  <2> HIDE DEF A, f
  <2>1. QED
    BY <1>3, <1>4 DEF Surjection
<1>6. QED
  BY <1>5

(* Linked, of any contents of the next pointers: what next' holds, too.    *)
List(nx, c, e) ==
    /\ c \in Seq(Node)
    /\ c = << >> <=> e \notin Node
    /\ c # << >> => c[1] = e
    /\ \A i \in DOMAIN c : nx[c[i]] = IF i = Len(c) THEN Null ELSE c[i + 1]

LEMMA ListPrefix ==
    ASSUME NEW nx, NEW e, NEW c, NEW d, List(nx, c, e), List(nx, d, e)
    PROVE  \A i \in DOMAIN c : i \in DOMAIN d /\ d[i] = c[i]
<1>. USE DEF List
<1> DEFINE S == {k \in Nat : k + 1 \in DOMAIN c => k + 1 \in DOMAIN d /\ d[k + 1] = c[k + 1]}
<1>1. 0 \in S
  OBVIOUS
<1>2. ASSUME NEW k \in S PROVE k + 1 \in S
  <2>1. SUFFICES ASSUME k + 2 \in DOMAIN c
                 PROVE  k + 2 \in DOMAIN d /\ d[k + 2] = c[k + 2]
    OBVIOUS
  <2>2. k + 1 \in DOMAIN c /\ k + 1 # Len(c)
    BY <2>1
  <2>3. k + 1 \in DOMAIN d /\ d[k + 1] = c[k + 1]
    BY <2>2
  <2>4. nx[d[k + 1]] = c[k + 2] /\ c[k + 2] \in Node
    BY <2>1, <2>2, <2>3
  <2>5. k + 1 # Len(d)
    BY <2>3, <2>4, MailboxAssumption
  <2>6. QED
    BY <2>3, <2>4, <2>5
<1>3. ASSUME NEW i \in DOMAIN c PROVE i \in DOMAIN d /\ d[i] = c[i]
  <2>1. i - 1 \in Nat /\ S \in SUBSET Nat
    OBVIOUS
  <2> HIDE DEF S
  <2>2. i - 1 \in S
    BY <1>1, <1>2, <2>1, ClosedUnderSuccessor
  <2>3. QED
    BY <2>2 DEF S
<1>4. QED
  BY <1>3

LEMMA ListUnique ==
    ASSUME NEW nx, NEW e, NEW c, NEW d, List(nx, c, e), List(nx, d, e)
    PROVE  c = d
<1>1. /\ \A i \in DOMAIN c : i \in DOMAIN d /\ d[i] = c[i]
      /\ \A i \in DOMAIN d : i \in DOMAIN c /\ c[i] = d[i]
  BY ListPrefix
<1>2. c \in Seq(Node) /\ d \in Seq(Node)
  BY DEF List
<1>3. Len(c) = Len(d)
  BY <1>1, <1>2
<1>4. QED
  BY <1>1, <1>2, <1>3, SeqEqual

(* A list without repetitions is what Chain finds, in this state or in the *)
(* next.                                                                   *)
ChainIn(nx, e) ==
    CHOOSE c \in SeqOf(Node, Cardinality(Node)) :
        /\ c = << >> <=> e \notin Node
        /\ c # << >> => c[1] = e
        /\ \A i \in DOMAIN c : nx[c[i]] = IF i = Len(c) THEN Null ELSE c[i + 1]

LEMMA ChainIs ==
    ASSUME NEW nx, NEW e, NEW c, List(nx, c, e), IsInjective(c)
    PROVE  ChainIn(nx, e) = c
<1>1. c \in [1 .. Len(c) -> Node] /\ Len(c) \in Nat
  BY DEF List
<1>2. c \in Injection(1 .. Len(c), Node)
  BY <1>1, Fun_IsInj DEF IsInjective
<1>3. Len(c) <= Cardinality(Node) /\ Cardinality(Node) \in Nat
  <2>1. IsFiniteSet(Node)
    BY MailboxAssumption
  <2>2. Cardinality(1 .. Len(c)) = IF 1 > Len(c) THEN 0 ELSE Len(c) - 1 + 1
    BY <1>1, FS_Interval
  <2>3. QED
    BY <1>1, <1>2, <2>1, <2>2, FS_Injection, FS_CardinalityType
<1>4. c \in SeqOf(Node, Cardinality(Node))
  BY <1>1, <1>3 DEF SeqOf
<1> DEFINE d == ChainIn(nx, e)
<1>5. /\ d \in SeqOf(Node, Cardinality(Node))
      /\ d = << >> <=> e \notin Node
      /\ d # << >> => d[1] = e
      /\ \A i \in DOMAIN d : nx[d[i]] = IF i = Len(d) THEN Null ELSE d[i + 1]
  BY <1>4 DEF ChainIn, List
<1> HIDE DEF d
<1>6. d \in Seq(Node)
  BY <1>3, <1>5 DEF SeqOf
<1>7. List(nx, d, e)
  BY <1>5, <1>6 DEF List
<1>8. QED
  BY <1>7, ListUnique DEF d

LEMMA ChainDefined ==
    ASSUME NEW e PROVE Chain(e) = ChainIn(next, e)
BY DEF Chain, ChainIn, Linked

LEMMA ChainsDefined ==
    /\ Chain(stack) = ChainIn(next, stack) /\ Chain(stack)' = ChainIn(next', stack')
    /\ Chain(head) = ChainIn(next, head) /\ Chain(head)' = ChainIn(next', head')
BY DEF Chain, ChainIn, Linked

-----------------------------------------------------------------------------
(* What the queue's steps do to a list: an element before it, its first    *)
(* element taken, all of it turned round, or nothing.                      *)

LEMMA ListEmpty ==
    ASSUME NEW nx, NEW e, e \notin Node
    PROVE  List(nx, << >>, e) /\ IsInjective(<< >>)
BY DEF List, IsInjective

LEMMA ListFrame ==
    ASSUME NEW nx, NEW nx2, NEW e, NEW c, List(nx, c, e),
           \A i \in DOMAIN c : nx2[c[i]] = nx[c[i]]
    PROVE  List(nx2, c, e)
BY DEF List

LEMMA ListPush ==
    ASSUME NEW nx, NEW nx2, NEW e, NEW c, List(nx, c, e), IsInjective(c),
           NEW n \in Node, \A i \in DOMAIN c : c[i] # n,
           nx2[n] = IF e \in Node THEN e ELSE Null,
           \A m \in Node \ {n} : nx2[m] = nx[m]
    PROVE  List(nx2, <<n>> \o c, n) /\ IsInjective(<<n>> \o c)
<1> DEFINE d == <<n>> \o c
<1>1. c \in Seq(Node) /\ <<n>> \in Seq(Node)
  BY DEF List
<1>2. /\ d \in Seq(Node) /\ Len(d) = Len(c) + 1
      /\ \A i \in 1 .. Len(d) : d[i] = IF i = 1 THEN n ELSE c[i - 1]
  BY <1>1
<1> HIDE DEF d
<1>3. ASSUME NEW i \in DOMAIN d
      PROVE  nx2[d[i]] = IF i = Len(d) THEN Null ELSE d[i + 1]
  <2>1. CASE i = 1
    <3>1. d[i] = n
      BY <1>2, <2>1
    <3>2. CASE c = << >>
      BY <1>1, <1>2, <2>1, <3>1, <3>2 DEF List
    <3>3. CASE c # << >>
      <4>1. d[i + 1] = c[1] /\ i # Len(d)
        BY <1>1, <1>2, <2>1, <3>3
      <4>2. QED
        BY <3>1, <3>3, <4>1 DEF List
    <3>4. QED
      BY <3>2, <3>3
  <2>2. CASE i # 1
    <3>1. i - 1 \in DOMAIN c /\ d[i] = c[i - 1]
      BY <1>1, <1>2, <2>2
    <3>2. nx2[d[i]] = IF i - 1 = Len(c) THEN Null ELSE c[i - 1 + 1]
      BY <1>1, <3>1 DEF List
    <3>3. i # Len(d) => d[i + 1] = c[i]
      BY <1>1, <1>2, <2>2
    <3>4. QED
      BY <1>1, <1>2, <3>1, <3>2, <3>3
  <2>3. QED
    BY <2>1, <2>2
<1>4. List(nx2, d, n)
  <2>1. d # << >> /\ d[1] = n
    BY <1>1, <1>2
  <2>2. QED
    BY <1>2, <1>3, <2>1 DEF List
<1>5. IsInjective(d)
  <2>1. \A a, b \in 1 .. Len(d) : d[a] = d[b] => a = b
    <3>1. \A i \in 1 .. Len(d) : i # 1 => i - 1 \in DOMAIN c /\ d[i] = c[i - 1] /\ d[i] # n
      BY <1>1, <1>2
    <3>2. \A a, b \in DOMAIN c : c[a] = c[b] => a = b
      BY DEF IsInjective
    <3>3. QED
      BY <1>2, <3>1, <3>2
  <2>2. QED
    BY <1>2, <2>1 DEF IsInjective
<1>6. QED
  BY <1>4, <1>5 DEF d

LEMMA ListPop ==
    ASSUME NEW nx, NEW e \in Node, NEW c, List(nx, c, e), IsInjective(c)
    PROVE  /\ List(nx, Tail(c), nx[e]) /\ IsInjective(Tail(c))
           /\ c # << >> /\ c[1] = e /\ Head(c) = e
           /\ \A i \in DOMAIN Tail(c) : i + 1 \in DOMAIN c /\ Tail(c)[i] = c[i + 1]
                                         /\ Tail(c)[i] # e
<1>1. c \in Seq(Node) /\ c # << >> /\ c[1] = e
  BY DEF List
<1> DEFINE d == Tail(c)
<1>2. /\ d \in Seq(Node) /\ Len(d) = Len(c) - 1 /\ Len(c) > 0
      /\ \A i \in 1 .. Len(d) : d[i] = c[i + 1]
  BY <1>1
<1> HIDE DEF d
<1>3. \A a, b \in DOMAIN c : c[a] = c[b] => a = b
  BY DEF IsInjective
<1>4. \A i \in DOMAIN d : i + 1 \in DOMAIN c /\ d[i] = c[i + 1] /\ d[i] # e
  BY <1>1, <1>2, <1>3
<1>5. \A a, b \in DOMAIN d : d[a] = d[b] => a = b
  BY <1>1, <1>2, <1>3, <1>4
<1>6. nx[e] = IF Len(c) = 1 THEN Null ELSE c[2]
  BY <1>1, <1>2 DEF List
<1>7. d = << >> <=> nx[e] \notin Node
  BY <1>1, <1>2, <1>6, MailboxAssumption
<1>8. d # << >> => d[1] = nx[e]
  BY <1>1, <1>2, <1>6
<1>9. \A i \in DOMAIN d : nx[d[i]] = IF i = Len(d) THEN Null ELSE d[i + 1]
  <2>1. SUFFICES ASSUME NEW i \in DOMAIN d
                 PROVE  nx[d[i]] = IF i = Len(d) THEN Null ELSE d[i + 1]
    OBVIOUS
  <2>2. nx[c[i + 1]] = IF i + 1 = Len(c) THEN Null ELSE c[i + 1 + 1]
    BY <1>4 DEF List
  <2>3. QED
    BY <1>1, <1>2, <1>4, <2>2
<1>10. QED
  BY <1>1, <1>2, <1>4, <1>5, <1>7, <1>8, <1>9 DEF List, d, IsInjective

LEMMA ReverseFacts ==
    ASSUME NEW c \in Seq(Node)
    PROVE  /\ Reverse(c) \in Seq(Node) /\ Len(Reverse(c)) = Len(c)
           /\ \A i \in DOMAIN c : Len(c) + 1 - i \in DOMAIN c
                                 /\ Reverse(c)[i] = c[Len(c) + 1 - i]
<1>1. Len(c) \in Nat /\ DOMAIN c = 1 .. Len(c) /\ \A i \in 1 .. Len(c) : c[i] \in Node
  OBVIOUS
<1>2. \A i \in 1 .. Len(c) : (Len(c) - i) + 1 \in 1 .. Len(c) /\ (Len(c) - i) + 1 = Len(c) + 1 - i
  BY <1>1
<1>3. Reverse(c) \in [1 .. Len(c) -> Node]
  BY <1>1, <1>2 DEF Reverse
<1>4. \A i \in 1 .. Len(c) : Reverse(c)[i] = c[Len(c) + 1 - i]
  BY <1>2 DEF Reverse
<1>5. QED
  BY <1>1, <1>2, <1>3, <1>4

LEMMA ListReverse ==
    ASSUME NEW nx, NEW nx2, NEW e \in Node, NEW c, List(nx, c, e), IsInjective(c),
           \A i \in DOMAIN c : nx2[c[i]] = IF i = 1 THEN Null ELSE c[i - 1]
    PROVE  List(nx2, Reverse(c), c[Len(c)]) /\ IsInjective(Reverse(c)) /\ c[Len(c)] \in Node
<1>1. c \in Seq(Node) /\ c # << >>
  BY DEF List
<1> DEFINE d == Reverse(c)
           n == Len(c)
<1>2. /\ d \in Seq(Node) /\ Len(d) = n /\ n \in Nat \ {0} /\ DOMAIN c = 1 .. n /\ DOMAIN d = 1 .. n
      /\ \A i \in 1 .. n : n + 1 - i \in 1 .. n /\ d[i] = c[n + 1 - i]
  BY <1>1, ReverseFacts
<1> HIDE DEF d, n
<1>3. d # << >> /\ d[1] = c[n] /\ c[n] \in Node
  BY <1>1, <1>2
<1>4. \A i \in 1 .. n : nx2[d[i]] = IF i = n THEN Null ELSE d[i + 1]
  <2>1. SUFFICES ASSUME NEW i \in 1 .. n PROVE nx2[d[i]] = IF i = n THEN Null ELSE d[i + 1]
    OBVIOUS
  <2>2. nx2[d[i]] = IF n + 1 - i = 1 THEN Null ELSE c[n + 1 - i - 1]
    BY <1>2
  <2>3. i # n => d[i + 1] = c[n + 1 - (i + 1)]
    BY <1>2
  <2>4. QED
    BY <1>2, <2>2, <2>3
<1>5. \A a, b \in 1 .. n : d[a] = d[b] => a = b
  <2>1. SUFFICES ASSUME NEW a \in 1 .. n, NEW b \in 1 .. n, d[a] = d[b] PROVE a = b
    OBVIOUS
  <2>2. /\ n + 1 - a \in DOMAIN c /\ n + 1 - b \in DOMAIN c
        /\ c[n + 1 - a] = c[n + 1 - b]
    BY <1>2, <2>1
  <2>3. n + 1 - a = n + 1 - b
    BY <2>2 DEF IsInjective
  <2>4. QED
    BY <1>2, <2>3
<1>6. List(nx2, d, c[n]) /\ IsInjective(d)
  BY <1>2, <1>3, <1>4, <1>5 DEF List, IsInjective
<1>7. QED
  BY <1>3, <1>6 DEF d, n

-----------------------------------------------------------------------------
(* Queue, of the two lists themselves. *)
Content(el, s, h) ==
    [i \in 1 .. Len(h) + Len(s) |->
        IF i <= Len(h) THEN el[h[i]] ELSE el[s[Len(h) + Len(s) + 1 - i]]]

Values(el) == {el[n] : n \in Node}

LEMMA ContentFacts ==
    ASSUME NEW el, NEW s \in Seq(Node), NEW h \in Seq(Node)
    PROVE  /\ Content(el, s, h) \in Seq(Values(el))
           /\ Len(Content(el, s, h)) = Len(h) + Len(s)
           /\ \A i \in 1 .. Len(h) + Len(s) :
                 Content(el, s, h)[i] = IF i <= Len(h) THEN el[h[i]]
                                        ELSE el[s[Len(h) + Len(s) + 1 - i]]
<1>1. \A i \in 1 .. Len(h) + Len(s) :
         /\ i <= Len(h) => h[i] \in Node
         /\ ~(i <= Len(h)) => s[Len(h) + Len(s) + 1 - i] \in Node
  OBVIOUS
<1>2. Content(el, s, h) \in [1 .. Len(h) + Len(s) -> Values(el)]
  BY <1>1 DEF Content, Values
<1>3. Len(h) + Len(s) \in Nat
  OBVIOUS
<1>4. QED
  BY <1>2, <1>3 DEF Content

LEMMA ConcatIsContent ==
    ASSUME NEW el, NEW s \in Seq(Node), NEW h \in Seq(Node)
    PROVE  [i \in DOMAIN h |-> el[h[i]]] \o Reverse([i \in DOMAIN s |-> el[s[i]]])
               = Content(el, s, h)
<1> DEFINE x == [i \in DOMAIN h |-> el[h[i]]]
           y == [i \in DOMAIN s |-> el[s[i]]]
           z == Reverse(y)
<1>1. /\ x \in Seq(Values(el)) /\ Len(x) = Len(h) /\ Len(h) \in Nat
      /\ \A i \in 1 .. Len(h) : x[i] = el[h[i]]
  <2>1. x \in [1 .. Len(h) -> Values(el)] /\ Len(h) \in Nat
    BY DEF Values
  <2>2. QED
    BY <2>1
<1>2. /\ z \in Seq(Values(el)) /\ Len(z) = Len(s) /\ Len(s) \in Nat
      /\ \A i \in 1 .. Len(s) : z[i] = el[s[Len(s) + 1 - i]]
  <2>1. y \in [1 .. Len(s) -> Values(el)] /\ Len(s) \in Nat
    BY DEF Values
  <2>2. Len(y) = Len(s) /\ \A i \in 1 .. Len(s) : y[i] = el[s[i]]
    BY <2>1
  <2>3. \A i \in 1 .. Len(s) : (Len(s) - i) + 1 \in 1 .. Len(s) /\ (Len(s) - i) + 1 = Len(s) + 1 - i
    BY <2>1
  <2> HIDE DEF y
  <2>4. z = [i \in 1 .. Len(s) |-> y[(Len(s) - i) + 1]]
    BY <2>2 DEF Reverse
  <2>5. z \in [1 .. Len(s) -> Values(el)]
    BY <2>1, <2>3, <2>4
  <2>6. \A i \in 1 .. Len(s) : z[i] = y[(Len(s) - i) + 1]
    BY <2>4
  <2> HIDE DEF z
  <2>7. \A i \in 1 .. Len(s) : z[i] = el[s[Len(s) + 1 - i]]
    BY <2>2, <2>3, <2>6
  <2>8. z \in Seq(Values(el)) /\ Len(z) = Len(s)
    BY <2>1, <2>5
  <2>9. QED
    BY <2>1, <2>7, <2>8
<1> HIDE DEF x, y, z
<1>3. /\ x \o z \in Seq(Values(el)) /\ Len(x \o z) = Len(h) + Len(s)
      /\ \A i \in 1 .. Len(h) + Len(s) :
            (x \o z)[i] = IF i <= Len(h) THEN x[i] ELSE z[i - Len(h)]
  <2>1. x \in Seq(Values(el)) /\ z \in Seq(Values(el))
    BY <1>1, <1>2
  <2>2. /\ x \o z \in Seq(Values(el)) /\ Len(x \o z) = Len(x) + Len(z)
        /\ \A i \in 1 .. Len(x) + Len(z) :
              (x \o z)[i] = IF i <= Len(x) THEN x[i] ELSE z[i - Len(x)]
    BY <2>1, ConcatProperties
  <2>3. QED
    BY <1>1, <1>2, <2>2
<1>4. /\ Content(el, s, h) \in Seq(Values(el)) /\ Len(Content(el, s, h)) = Len(h) + Len(s)
      /\ \A i \in 1 .. Len(h) + Len(s) :
            Content(el, s, h)[i] = IF i <= Len(h) THEN el[h[i]]
                                   ELSE el[s[Len(h) + Len(s) + 1 - i]]
  BY ContentFacts
<1>5. ASSUME NEW i \in 1 .. Len(h) + Len(s) PROVE (x \o z)[i] = Content(el, s, h)[i]
  <2>1. CASE i <= Len(h)
    <3>1. i \in 1 .. Len(h)
      BY <1>1, <2>1
    <3>2. QED
      BY <1>1, <1>3, <1>4, <2>1, <3>1
  <2>2. CASE ~(i <= Len(h))
    <3>1. i - Len(h) \in 1 .. Len(s) /\ Len(s) + 1 - (i - Len(h)) = Len(h) + Len(s) + 1 - i
      BY <1>1, <1>2, <2>2
    <3>2. z[i - Len(h)] = el[s[Len(h) + Len(s) + 1 - i]]
      BY <1>2, <3>1
    <3>3. QED
      BY <1>3, <1>4, <2>2, <3>2
  <2>3. QED
    BY <2>1, <2>2
<1>6. x \o z = Content(el, s, h)
  BY <1>3, <1>4, <1>5, SeqEqual
<1>7. QED
  BY <1>6 DEF x, y, z

LEMMA ContentFrame ==
    ASSUME NEW el, NEW el2, NEW s \in Seq(Node), NEW h \in Seq(Node),
           \A i \in DOMAIN s : el2[s[i]] = el[s[i]], \A i \in DOMAIN h : el2[h[i]] = el[h[i]]
    PROVE  Content(el2, s, h) = Content(el, s, h)
<1>1. \A i \in 1 .. Len(h) + Len(s) :
         /\ i <= Len(h) => i \in DOMAIN h
         /\ ~(i <= Len(h)) => Len(h) + Len(s) + 1 - i \in DOMAIN s
  OBVIOUS
<1>2. QED
  BY <1>1 DEF Content

LEMMA ContentPush ==
    ASSUME NEW el, NEW s \in Seq(Node), NEW h \in Seq(Node), NEW n \in Node
    PROVE  Content(el, <<n>> \o s, h) = Append(Content(el, s, h), el[n])
<1> DEFINE t == <<n>> \o s
           c == Content(el, s, h)
           d == Content(el, t, h)
<1>1. /\ t \in Seq(Node) /\ Len(t) = Len(s) + 1
      /\ \A i \in 1 .. Len(t) : t[i] = IF i = 1 THEN n ELSE s[i - 1]
  OBVIOUS
<1> HIDE DEF t
<1>2. /\ c \in Seq(Values(el)) /\ Len(c) = Len(h) + Len(s)
      /\ \A i \in 1 .. Len(h) + Len(s) :
            c[i] = IF i <= Len(h) THEN el[h[i]]
                   ELSE el[s[Len(h) + Len(s) + 1 - i]]
  BY ContentFacts
<1>3. /\ d \in Seq(Values(el)) /\ Len(d) = Len(h) + Len(t)
      /\ \A i \in 1 .. Len(h) + Len(t) :
            d[i] = IF i <= Len(h) THEN el[h[i]]
                   ELSE el[t[Len(h) + Len(t) + 1 - i]]
  <2>1. t \in Seq(Node)
    BY <1>1
  <2>2. QED
    BY <2>1, ContentFacts
<1> HIDE DEF c, d
<1>4. el[n] \in Values(el)
  BY DEF Values
<1>5. Append(c, el[n]) \in Seq(Values(el)) /\ Len(Append(c, el[n])) = Len(d)
  BY <1>1, <1>2, <1>3, <1>4
<1>6. ASSUME NEW i \in 1 .. Len(d) PROVE Append(c, el[n])[i] = d[i]
  <2>0. /\ Append(c, el[n])[Len(c) + 1] = el[n]
        /\ \A k \in 1 .. Len(c) : Append(c, el[n])[k] = c[k]
        /\ Len(d) = Len(c) + 1 /\ Len(c) \in Nat /\ Len(h) \in Nat /\ Len(s) \in Nat
    BY <1>1, <1>2, <1>3, <1>4
  <2>1. CASE i = Len(d)
    <3>1. i \in 1 .. Len(h) + Len(t) /\ ~(i <= Len(h)) /\ Len(h) + Len(t) + 1 - i = 1
      BY <1>1, <1>2, <1>3, <2>0, <2>1
    <3>2. d[i] = el[t[1]] /\ t[1] = n
      BY <1>1, <1>3, <3>1
    <3>3. QED
      BY <2>0, <2>1, <3>2
  <2>2. CASE i # Len(d)
    <3>1. i \in 1 .. Len(c) /\ Append(c, el[n])[i] = c[i]
      BY <2>0, <2>2
    <3>2. CASE i <= Len(h)
      BY <1>2, <1>3, <3>1, <3>2
    <3>3. CASE ~(i <= Len(h))
      <4>1. /\ Len(h) + Len(t) + 1 - i \in 1 .. Len(t)
            /\ Len(h) + Len(t) + 1 - i # 1
            /\ Len(h) + Len(t) + 1 - i - 1 = Len(h) + Len(s) + 1 - i
            /\ i \in 1 .. Len(h) + Len(t) /\ i \in 1 .. Len(h) + Len(s)
        BY <1>1, <1>2, <2>0, <3>1, <3>3
      <4>2. t[Len(h) + Len(t) + 1 - i] = s[Len(h) + Len(s) + 1 - i]
        BY <1>1, <4>1
      <4>3. d[i] = el[t[Len(h) + Len(t) + 1 - i]] /\ c[i] = el[s[Len(h) + Len(s) + 1 - i]]
        BY <1>2, <1>3, <3>3, <4>1
      <4>4. QED
        BY <3>1, <4>2, <4>3
    <3>4. QED
      BY <3>2, <3>3
  <2>3. QED
    BY <2>1, <2>2
<1>7. QED
  BY <1>3, <1>5, <1>6, SeqEqual DEF c, d, t

LEMMA ContentPop ==
    ASSUME NEW el, NEW s \in Seq(Node), NEW h \in Seq(Node), h # << >>
    PROVE  /\ Content(el, s, h) # << >> /\ Head(Content(el, s, h)) = el[h[1]]
           /\ Content(el, s, Tail(h)) = Tail(Content(el, s, h))
<1> DEFINE t == Tail(h)
           c == Content(el, s, h)
           d == Content(el, s, t)
<1>1. /\ t \in Seq(Node) /\ Len(t) = Len(h) - 1 /\ Len(h) >= 1
      /\ \A i \in 1 .. Len(t) : t[i] = h[i + 1]
  OBVIOUS
<1> HIDE DEF t
<1>2. /\ c \in Seq(Values(el)) /\ Len(c) = Len(h) + Len(s)
      /\ \A i \in 1 .. Len(h) + Len(s) :
            c[i] = IF i <= Len(h) THEN el[h[i]]
                   ELSE el[s[Len(h) + Len(s) + 1 - i]]
  BY ContentFacts
<1>3. /\ d \in Seq(Values(el)) /\ Len(d) = Len(t) + Len(s)
      /\ \A i \in 1 .. Len(t) + Len(s) :
            d[i] = IF i <= Len(t) THEN el[t[i]]
                   ELSE el[s[Len(t) + Len(s) + 1 - i]]
  <2>1. t \in Seq(Node)
    BY <1>1
  <2>2. QED
    BY <2>1, ContentFacts
<1> HIDE DEF c, d
<1>4. c # << >> /\ Head(c) = el[h[1]]
  BY <1>1, <1>2
<1>5. /\ Tail(c) \in Seq(Values(el)) /\ Len(Tail(c)) = Len(d)
      /\ \A i \in 1 .. Len(d) : i + 1 \in 1 .. Len(c) /\ Tail(c)[i] = c[i + 1]
  BY <1>1, <1>2, <1>3, <1>4
<1>6. ASSUME NEW i \in 1 .. Len(d) PROVE Tail(c)[i] = d[i]
  <2>1. CASE i <= Len(h) - 1
    <3>1. i \in 1 .. Len(t) /\ i + 1 <= Len(h)
      BY <1>1, <2>1
    <3>2. QED
      BY <1>1, <1>2, <1>3, <1>5, <2>1, <3>1
  <2>2. CASE ~(i <= Len(h) - 1)
    <3>1. ~(i + 1 <= Len(h)) /\ Len(h) + Len(s) + 1 - (i + 1) = Len(h) - 1 + Len(s) + 1 - i
      BY <1>1, <2>2
    <3>2. QED
      BY <1>2, <1>3, <1>5, <2>2, <3>1
  <2>3. QED
    BY <2>1, <2>2
<1>7. Tail(c) = d
  BY <1>3, <1>5, <1>6, SeqEqual
<1>8. QED
  BY <1>4, <1>7 DEF c, d, t

LEMMA ContentReverse ==
    ASSUME NEW el, NEW s \in Seq(Node), NEW h \in Seq(Node)
    PROVE  Len(h) = 0 => Content(el, h, Reverse(s)) = Content(el, s, h)
<1> DEFINE r == Reverse(s)
           c == Content(el, s, h)
           d == Content(el, h, r)
<1>1. /\ r \in Seq(Node) /\ Len(r) = Len(s) /\ Len(s) \in Nat
      /\ \A i \in 1 .. Len(s) : r[i] = s[Len(s) + 1 - i]
  BY ReverseFacts
<1> HIDE DEF r
<1>3. /\ c \in Seq(Values(el)) /\ Len(c) = Len(h) + Len(s)
      /\ \A i \in 1 .. Len(h) + Len(s) :
            c[i] = IF i <= Len(h) THEN el[h[i]]
                   ELSE el[s[Len(h) + Len(s) + 1 - i]]
  BY ContentFacts
<1>4. /\ d \in Seq(Values(el)) /\ Len(d) = Len(r) + Len(h)
      /\ \A i \in 1 .. Len(r) + Len(h) :
            d[i] = IF i <= Len(r) THEN el[r[i]]
                   ELSE el[h[Len(r) + Len(h) + 1 - i]]
  <2>1. r \in Seq(Node)
    BY <1>1
  <2>2. QED
    BY <2>1, ContentFacts
<1> HIDE DEF c, d
<1>5. ASSUME Len(h) = 0 PROVE c = d
  <2>1. Len(c) = Len(s) /\ Len(d) = Len(s) /\ 1 .. Len(h) + Len(s) = 1 .. Len(s)
        /\ 1 .. Len(r) + Len(h) = 1 .. Len(s)
    BY <1>1, <1>3, <1>4, <1>5
  <2>2. ASSUME NEW i \in 1 .. Len(s) PROVE c[i] = d[i]
    <3>1. c[i] = el[s[Len(h) + Len(s) + 1 - i]]
      BY <1>1, <1>3, <1>5, <2>1
    <3>2. d[i] = el[r[i]]
      BY <1>1, <1>4, <2>1
    <3>3. r[i] = s[Len(h) + Len(s) + 1 - i]
      BY <1>1, <1>5
    <3>4. QED
      BY <3>1, <3>2, <3>3
  <2>3. /\ c \in Seq(Values(el)) /\ d \in Seq(Values(el)) /\ Len(c) = Len(d)
        /\ \A i \in 1 .. Len(c) : c[i] = d[i]
    BY <1>3, <1>4, <2>1, <2>2
  <2>4. QED
    BY <2>3, SeqEqual
<1>6. QED
  BY <1>5 DEF c, d, r

-----------------------------------------------------------------------------
In(n, c) == \E i \in DOMAIN c : c[i] = n

(* Where the addresses are: s is the stack's list, h is head_'s, and the   *)
(* rest that holds an element is in the hands of one writer each.          *)
Places(nx, el, mk, st, hd, s, h) ==
    /\ List(nx, s, st) /\ IsInjective(s)
    /\ List(nx, h, hd) /\ IsInjective(h)
    /\ \A i \in DOMAIN s, j \in DOMAIN h : s[i] # h[j]
    /\ \A w \in Writer : \A i \in DOMAIN s : s[i] # mk[w]
    /\ \A w \in Writer : \A j \in DOMAIN h : h[j] # mk[w]
    /\ \A v, w \in Writer : mk[v] = mk[w] /\ mk[v] # Null => v = w
    /\ \A n \in Node : 
          el[n] # NoElement <=> In(n, s) \/ In(n, h) \/ \E w \in Writer : mk[w] = n

LEMMA PlacesGiveQueue ==
    ASSUME NEW s, NEW h, Places(next, elem, made, stack, head, s, h)
    PROVE  /\ s \in Seq(Node) /\ h \in Seq(Node)
           /\ Chain(stack) = s /\ Chain(head) = h /\ Queue = Content(elem, s, h)
<1>1. s \in Seq(Node) /\ h \in Seq(Node)
  BY DEF Places, List
<1>2. Chain(stack) = s /\ Chain(head) = h
  BY ChainsDefined, ChainIs DEF Places
<1>3. Queue = Content(elem, s, h)
  BY <1>1, <1>2, ConcatIsContent DEF Queue, Elements
<1>4. QED
  BY <1>1, <1>2, <1>3

LEMMA PlacesGiveNextQueue ==
    ASSUME NEW s, NEW h, Places(next', elem', made', stack', head', s, h)
    PROVE  Queue' = Content(elem', s, h)
<1>1. s \in Seq(Node) /\ h \in Seq(Node)
  BY DEF Places, List
<1>2. Chain(stack)' = s /\ Chain(head)' = h
  BY ChainsDefined, ChainIs DEF Places
<1>3. QED
  BY <1>1, <1>2, ConcatIsContent DEF Queue, Elements

(* The reader's position says what it knows of the queue, and a writer     *)
(* that has an element in hand has seen the queue open.  The last conjunct *)
(* is what makes the invariant inductive: the lists exist.                 *)
ReaderKnows ==
    /\ ~(stack = BlockedDummy /\ wakeups = 1)
    /\ stack = Null <=> rpc \in {"drain", "closed"}
    /\ rpc \in {"fetch", "nothing", "asleep", "closeFetch", "closed"} => head = Null
    /\ rpc = "fetch" => stack \in Node /\ rexpected \in Node
    /\ rpc = "closeFetch" => rexpected # Null
    /\ \A w \in Writer : made[w] # Null => expected[w] # Null

IInv ==
    /\ TypeOK /\ WokenOnce /\ ReaderKnows
    /\ \E s, h : Places(next, elem, made, stack, head, s, h)

-----------------------------------------------------------------------------
(* The steps that change a list, or what an address holds. *)

LEMMA StartPlaces ==
    ASSUME IInv, NEW s, NEW h, Places(next, elem, made, stack, head, s, h),
           NEW w \in Writer, StartEnqueue(w), stack # Null
    PROVE  /\ Places(next', elem', made', stack', head', s, h)
           /\ Content(elem', s, h) = Content(elem, s, h)
           /\ elem' \in [Node -> Message \cup {NoElement}] /\ made' \in [Writer -> Pointer]
<1>1. PICK n \in FreeNodes :
         /\ elem' = [elem EXCEPT ![n] = Message_(w)]
         /\ made' = [made EXCEPT ![w] = n]
  BY DEF StartEnqueue
<1>2. /\ elem \in [Node -> Message \cup {NoElement}] /\ made \in [Writer -> Pointer]
      /\ sent[w] \in 0 .. PerWriter /\ sent[w] < PerWriter /\ made[w] = Null
  BY DEF IInv, TypeOK, StartEnqueue
<1>3. n \in Node /\ elem[n] = NoElement /\ n # Null
  BY <1>1, MailboxAssumption DEF FreeNodes
<1>4. Message_(w) \in Message /\ Message_(w) # NoElement
  BY <1>2, MailboxAssumption DEF Message_, Message, NoElement
<1>5. s \in Seq(Node) /\ h \in Seq(Node)
  BY DEF Places, List
<1>6. /\ \A i \in DOMAIN s : s[i] # n /\ s[i] \in Node
      /\ \A j \in DOMAIN h : h[j] # n /\ h[j] \in Node
      /\ \A v \in Writer : made[v] # n
  BY <1>3, <1>5 DEF Places, In
<1>7. /\ elem' \in [Node -> Message \cup {NoElement}] /\ made' \in [Writer -> Pointer]
      /\ \A m \in Node : elem'[m] = IF m = n THEN Message_(w) ELSE elem[m]
      /\ \A v \in Writer : made'[v] = IF v = w THEN n ELSE made[v]
  BY <1>1, <1>2, <1>3, <1>4 DEF Pointer
<1>8. Content(elem', s, h) = Content(elem, s, h)
  <2>1. /\ \A i \in DOMAIN s : elem'[s[i]] = elem[s[i]]
        /\ \A i \in DOMAIN h : elem'[h[i]] = elem[h[i]]
    BY <1>6, <1>7
  <2>2. QED
    BY <1>5, <2>1, ContentFrame
<1>9. next' = next /\ stack' = stack /\ head' = head
  BY DEF StartEnqueue
<1>10. Places(next', elem', made', stack', head', s, h)
  <2>1. \A v, u \in Writer : made'[v] = made'[u] /\ made'[v] # Null => v = u
    BY <1>6, <1>7 DEF Places
  <2>2. ASSUME NEW m \in Node
        PROVE  elem'[m] # NoElement <=> In(m, s) \/ In(m, h) \/ \E v \in Writer : made'[v] = m
    <3>1. CASE m = n
      BY <1>4, <1>7, <3>1
    <3>2. CASE m # n
      <4>1. (\E v \in Writer : made'[v] = m) <=> (\E v \in Writer : made[v] = m)
        BY <1>2, <1>3, <1>7, <3>2, MailboxAssumption
      <4>2. elem'[m] = elem[m]
        BY <1>7, <3>2
      <4>3. QED
        BY <4>1, <4>2 DEF Places
    <3>3. QED
      BY <3>1, <3>2
  <2>3. /\ \A v \in Writer : \A i \in DOMAIN s : s[i] # made'[v]
        /\ \A v \in Writer : \A j \in DOMAIN h : h[j] # made'[v]
    BY <1>6, <1>7 DEF Places
  <2>4. QED
    BY <1>9, <2>1, <2>2, <2>3 DEF Places
<1>11. QED
  BY <1>7, <1>8, <1>10

LEMMA PushPlaces ==
    ASSUME IInv, NEW s, NEW h, Places(next, elem, made, stack, head, s, h),
           NEW w \in Writer, Push(w)
    PROVE  /\ made[w] \in Node /\ elem[made[w]] \in Message
           /\ Places(next', elem', made', stack', head', <<made[w]>> \o s, h)
           /\ Content(elem', <<made[w]>> \o s, h) = Append(Content(elem, s, h), elem[made[w]])
           /\ next' \in [Node -> Pointer] /\ made' \in [Writer -> Pointer]
<1> DEFINE n == made[w]
           t == <<n>> \o s
<1>1. /\ n \in Node /\ stack = expected[w] /\ stack # Null
      /\ stack \in Node \cup {EmptyDummy, BlockedDummy}
      /\ next \in [Node -> Pointer] /\ made \in [Writer -> Pointer]
  BY DEF IInv, TypeOK, ReaderKnows, Push, Pointer
<1>2. elem[n] \in Message
  <2>1. elem[n] # NoElement
    BY <1>1 DEF Places
  <2>2. QED
    BY <1>1, <2>1 DEF IInv, TypeOK
<1>3. s \in Seq(Node) /\ h \in Seq(Node)
  BY DEF Places, List
<1>4. /\ \A i \in DOMAIN s : s[i] # n /\ s[i] \in Node
      /\ \A j \in DOMAIN h : h[j] # n /\ h[j] \in Node
      /\ \A v \in Writer : made[v] = n => v = w
  BY <1>1, <1>3, MailboxAssumption DEF Places
<1>5. next' = [next EXCEPT ![n] = IF stack \in Node THEN stack ELSE Null]
  BY <1>1, MailboxAssumption DEF Push, IsDummy
<1>6. /\ next' \in [Node -> Pointer]
      /\ next'[n] = IF stack \in Node THEN stack ELSE Null
      /\ \A m \in Node \ {n} : next'[m] = next[m]
  BY <1>1, <1>5 DEF Pointer
<1>7. /\ made' = [made EXCEPT ![w] = Null] /\ stack' = n /\ elem' = elem /\ head' = head
  BY DEF Push
<1>8. made' \in [Writer -> Pointer] /\ \A v \in Writer : made'[v] = IF v = w THEN Null ELSE made[v]
  BY <1>1, <1>7 DEF Pointer
<1>9. List(next', t, n) /\ IsInjective(t)
  BY <1>1, <1>4, <1>6, ListPush DEF Places
<1>10. List(next', h, head') /\ IsInjective(h)
  BY <1>4, <1>6, <1>7, ListFrame DEF Places
<1>11. /\ t \in Seq(Node) /\ Len(t) = Len(s) + 1 /\ Len(s) \in Nat
       /\ \A i \in 1 .. Len(t) : t[i] = IF i = 1 THEN n ELSE s[i - 1]
  BY <1>1, <1>3
<1>12. Content(elem', t, h) = Append(Content(elem, s, h), elem[n])
  BY <1>1, <1>3, <1>7, ContentPush
<1> HIDE DEF t
<1>13. \A i \in DOMAIN t : t[i] = n \/ \E k \in DOMAIN s : t[i] = s[k]
  <2>1. \A i \in DOMAIN t : i # 1 => i - 1 \in DOMAIN s
    BY <1>3, <1>11
  <2>2. QED
    BY <1>11, <2>1
<1>14. (\E i \in DOMAIN t : t[i] = n) /\ \A k \in DOMAIN s : \E i \in DOMAIN t : t[i] = s[k]
  <2>1. \A k \in DOMAIN s : k + 1 \in DOMAIN t /\ t[k + 1] = s[k]
    BY <1>3, <1>11
  <2>2. 1 \in DOMAIN t /\ t[1] = n
    BY <1>3, <1>11
  <2>3. QED
    BY <2>1, <2>2
<1>15. Places(next', elem', made', stack', head', t, h)
  <2>1. \A i \in DOMAIN t, j \in DOMAIN h : t[i] # h[j]
    BY <1>4, <1>13 DEF Places
  <2>2. /\ \A v \in Writer : \A i \in DOMAIN t : t[i] # made'[v]
        /\ \A v \in Writer : \A j \in DOMAIN h : h[j] # made'[v]
    BY <1>1, <1>3, <1>4, <1>8, <1>13, MailboxAssumption DEF Places
  <2>3. \A v, u \in Writer : made'[v] = made'[u] /\ made'[v] # Null => v = u
    BY <1>8 DEF Places
  <2>4. ASSUME NEW m \in Node
        PROVE  elem'[m] # NoElement <=> In(m, t) \/ In(m, h) \/ \E v \in Writer : made'[v] = m
    <3>1. CASE m = n
      <4>1. In(m, t)
        BY <1>14, <3>1 DEF In
      <4>2. elem'[m] # NoElement
        BY <1>2, <1>7, <3>1 DEF Message, NoElement
      <4>3. QED
        BY <4>1, <4>2
    <3>2. CASE m # n
      <4>1. (\E v \in Writer : made'[v] = m) <=> (\E v \in Writer : made[v] = m)
        BY <1>8, <3>2, MailboxAssumption
      <4>2. In(m, t) <=> In(m, s)
        BY <1>13, <1>14, <3>2 DEF In
      <4>3. QED
        BY <1>7, <4>1, <4>2 DEF Places
    <3>3. QED
      BY <3>1, <3>2
  <2>5. QED
    BY <1>7, <1>9, <1>10, <2>1, <2>2, <2>3, <2>4 DEF Places
<1>16. QED
  BY <1>1, <1>2, <1>6, <1>8, <1>12, <1>15 DEF t

LEMMA RefusedPlaces ==
    ASSUME IInv, NEW s, NEW h, Places(next, elem, made, stack, head, s, h),
           NEW w \in Writer, Refused(w)
    PROVE  /\ elem[made[w]] \in Message
           /\ Places(next', elem', made', stack', head', s, h)
           /\ Content(elem', s, h) = Content(elem, s, h)
           /\ next' \in [Node -> Pointer] /\ elem' \in [Node -> Message \cup {NoElement}]
           /\ made' \in [Writer -> Pointer]
<1> DEFINE n == made[w]
<1>1. /\ n \in Node /\ next \in [Node -> Pointer] /\ made \in [Writer -> Pointer]
      /\ elem \in [Node -> Message \cup {NoElement}]
  BY DEF IInv, TypeOK, Refused, Pointer
<1>2. elem[n] \in Message
  BY <1>1 DEF Places
<1>3. s \in Seq(Node) /\ h \in Seq(Node)
  BY DEF Places, List
<1>4. /\ \A i \in DOMAIN s : s[i] # n /\ s[i] \in Node
      /\ \A j \in DOMAIN h : h[j] # n /\ h[j] \in Node
      /\ \A v \in Writer : made[v] = n => v = w
  BY <1>1, <1>3, MailboxAssumption DEF Places
<1>5. /\ next' \in [Node -> Pointer] /\ elem' \in [Node -> Message \cup {NoElement}]
      /\ \A m \in Node : next'[m] = IF m = n THEN Null ELSE next[m]
      /\ \A m \in Node : elem'[m] = IF m = n THEN NoElement ELSE elem[m]
  BY <1>1 DEF Refused, Deleted, Pointer
<1>6. /\ made' \in [Writer -> Pointer]
      /\ \A v \in Writer : made'[v] = IF v = w THEN Null ELSE made[v]
      /\ stack' = stack /\ head' = head
  BY <1>1 DEF Refused, Pointer
<1>7. List(next', s, stack') /\ List(next', h, head')
  BY <1>4, <1>5, <1>6, ListFrame DEF Places
<1>8. Content(elem', s, h) = Content(elem, s, h)
  <2>1. /\ \A i \in DOMAIN s : elem'[s[i]] = elem[s[i]]
        /\ \A i \in DOMAIN h : elem'[h[i]] = elem[h[i]]
    BY <1>4, <1>5
  <2>2. QED
    BY <1>3, <2>1, ContentFrame
<1>9. Places(next', elem', made', stack', head', s, h)
  <2>1. \A v, u \in Writer : made'[v] = made'[u] /\ made'[v] # Null => v = u
    BY <1>6 DEF Places
  <2>2. /\ \A v \in Writer : \A i \in DOMAIN s : s[i] # made'[v]
        /\ \A v \in Writer : \A j \in DOMAIN h : h[j] # made'[v]
    BY <1>4, <1>6, MailboxAssumption DEF Places
  <2>3. ASSUME NEW m \in Node
        PROVE  elem'[m] # NoElement <=> In(m, s) \/ In(m, h) \/ \E v \in Writer : made'[v] = m
    <3>1. CASE m = n
      <4>1. ~In(m, s) /\ ~In(m, h)
        BY <1>4, <3>1 DEF In
      <4>2. \A v \in Writer : made'[v] # m
        BY <1>4, <1>6, <3>1, MailboxAssumption
      <4>3. QED
        BY <1>5, <3>1, <4>1, <4>2
    <3>2. CASE m # n
      <4>1. (\E v \in Writer : made'[v] = m) <=> (\E v \in Writer : made[v] = m)
        BY <1>6, <3>2, MailboxAssumption
      <4>2. QED
        BY <1>5, <3>2, <4>1 DEF Places
    <3>3. QED
      BY <3>1, <3>2
  <2>4. QED
    BY <1>7, <2>1, <2>2, <2>3 DEF Places
<1>10. QED
  BY <1>2, <1>5, <1>6, <1>8, <1>9

(* try_pop and clear_cached_elements: the first element of head_'s list is *)
(* handled and deleted.                                                    *)
LEMMA PopPlaces ==
    ASSUME IInv, NEW s, NEW h, Places(next, elem, made, stack, head, s, h),
           head # Null, head' = next[head], Deleted(head), UNCHANGED <<stack, made>>
    PROVE  /\ elem[head] \in Message
           /\ Places(next', elem', made', stack', head', s, Tail(h))
           /\ Content(elem, s, h) # << >> /\ Head(Content(elem, s, h)) = elem[head]
           /\ Content(elem', s, Tail(h)) = Tail(Content(elem, s, h))
           /\ next' \in [Node -> Pointer] /\ elem' \in [Node -> Message \cup {NoElement}]
           /\ head' \in Pointer
<1> DEFINE n == head
           t == Tail(h)
<1>1. /\ n \in Node /\ next \in [Node -> Pointer] /\ made \in [Writer -> Pointer]
      /\ elem \in [Node -> Message \cup {NoElement}]
  BY DEF IInv, TypeOK, Pointer
<1>2. s \in Seq(Node) /\ h \in Seq(Node)
  BY DEF Places, List
<1>3. /\ List(next, t, next[n]) /\ IsInjective(t)
      /\ h # << >> /\ h[1] = n /\ Head(h) = n
      /\ \A i \in DOMAIN t : i + 1 \in DOMAIN h /\ t[i] = h[i + 1] /\ t[i] # n
  BY <1>1, ListPop DEF Places
<1>4. 1 \in DOMAIN h /\ In(n, h)
  BY <1>2, <1>3 DEF In
<1>5. elem[n] \in Message
  BY <1>1, <1>4 DEF Places
<1>6. t \in Seq(Node) /\ Len(t) = Len(h) - 1 /\ Len(h) \in Nat
  BY <1>2, <1>3
<1>7. /\ \A i \in DOMAIN s : s[i] # n /\ s[i] \in Node
      /\ \A v \in Writer : made[v] # n
  BY <1>2, <1>3, <1>4 DEF Places
<1>8. \A m \in Node : In(m, h) <=> In(m, t) \/ m = n
  <2>1. \A i \in DOMAIN h : i # 1 => i - 1 \in DOMAIN t /\ h[i] = t[i - 1]
    <3>1. \A i \in DOMAIN h : i # 1 => i - 1 \in DOMAIN t /\ i - 1 + 1 = i
      BY <1>2, <1>6
    <3>2. QED
      BY <1>3, <3>1
  <2> HIDE DEF t
  <2>2. QED
    BY <1>3, <1>4, <2>1 DEF In
<1>9. ~In(n, t)
  BY <1>3 DEF In
<1>10. /\ Content(elem, s, h) # << >> /\ Head(Content(elem, s, h)) = elem[n]
       /\ Content(elem, s, t) = Tail(Content(elem, s, h))
  BY <1>2, <1>3, ContentPop
<1>11. /\ next' \in [Node -> Pointer] /\ elem' \in [Node -> Message \cup {NoElement}]
       /\ \A m \in Node : next'[m] = IF m = n THEN Null ELSE next[m]
       /\ \A m \in Node : elem'[m] = IF m = n THEN NoElement ELSE elem[m]
       /\ head' \in Pointer
  BY <1>1 DEF Deleted, Pointer
<1> HIDE DEF t
<1>12. \A i \in DOMAIN t : t[i] \in Node
  BY <1>6
<1>13. List(next', s, stack')
  BY <1>7, <1>11, ListFrame DEF Places
<1>14. List(next', t, head')
  BY <1>3, <1>11, <1>12, ListFrame
<1>15. Content(elem', s, t) = Content(elem, s, t)
  <2>1. /\ \A i \in DOMAIN s : elem'[s[i]] = elem[s[i]]
        /\ \A i \in DOMAIN t : elem'[t[i]] = elem[t[i]]
    BY <1>3, <1>7, <1>11, <1>12
  <2>2. QED
    BY <1>2, <1>6, <2>1, ContentFrame
<1>16. Places(next', elem', made', stack', head', s, t)
  <2>1. \A i \in DOMAIN s, j \in DOMAIN t : s[i] # t[j]
    BY <1>3 DEF Places
  <2>2. \A v \in Writer : \A j \in DOMAIN t : t[j] # made[v]
    BY <1>3 DEF Places
  <2>3. ASSUME NEW m \in Node
        PROVE  elem'[m] # NoElement <=> In(m, s) \/ In(m, t) \/ \E v \in Writer : made[v] = m
    <3>1. CASE m = n
      BY <1>7, <1>9, <1>11, <3>1 DEF In
    <3>2. CASE m # n
      BY <1>8, <1>11, <3>2 DEF Places
    <3>3. QED
      BY <3>1, <3>2
  <2>4. QED
    BY <1>3, <1>13, <1>14, <2>1, <2>2, <2>3 DEF Places
<1>17. QED
  BY <1>5, <1>10, <1>11, <1>15, <1>16 DEF t

(* fetch_new_data and close: the whole stack, turned round, is head_'s     *)
(* list.                                                                   *)
LEMMA TakeAllPlaces ==
    ASSUME IInv, NEW s, NEW h, Places(next, elem, made, stack, head, s, h),
           stack \in Node, head = Null, Reversed(stack), stack' \notin Node,
           UNCHANGED <<elem, made>>
    PROVE  /\ Places(next', elem', made', stack', head', << >>, Reverse(s))
           /\ Content(elem', << >>, Reverse(s)) = Content(elem, s, h)
           /\ next' \in [Node -> Pointer] /\ head' \in Pointer
<1> DEFINE r == Reverse(s)
           n == Len(s)
           before(m) == s[(CHOOSE i \in 2 .. n : s[i] = m) - 1]
<1>1. s \in Seq(Node) /\ h \in Seq(Node) /\ Chain(stack) = s
  BY PlacesGiveQueue
<1>2. s # << >> /\ n \in Nat \ {0} /\ DOMAIN s = 1 .. n /\ \A i \in 1 .. n : s[i] \in Node
  BY <1>1 DEF Places, List
<1>3. h = << >>
  BY MailboxAssumption DEF Places, List
<1>4. \A i, j \in 1 .. n : s[i] = s[j] => i = j
  BY <1>1 DEF Places, IsInjective
<1>5. head' = s[n]
  BY <1>1 DEF Reversed, Last
<1>6. next' = [m \in Node |-> IF \E i \in 2 .. n : s[i] = m THEN before(m)
                              ELSE IF m = s[1] THEN Null ELSE next[m]]
  BY <1>1 DEF Reversed
<1>7. \A i \in 2 .. n : before(s[i]) = s[i - 1]
  <2>1. SUFFICES ASSUME NEW i \in 2 .. n PROVE before(s[i]) = s[i - 1]
    OBVIOUS
  <2> DEFINE k == CHOOSE j \in 2 .. n : s[j] = s[i]
  <2>2. k \in 2 .. n /\ s[k] = s[i]
    OBVIOUS
  <2> HIDE DEF k
  <2>3. k = i
    BY <1>2, <1>4, <2>2
  <2>4. QED
    BY <2>3 DEF k
<1> HIDE DEF n, before
<1>8. ASSUME NEW i \in 1 .. n PROVE next'[s[i]] = IF i = 1 THEN Null ELSE s[i - 1]
  <2>1. CASE i = 1
    <3>1. ~ \E j \in 2 .. n : s[j] = s[1]
      BY <1>2, <1>4
    <3>2. QED
      BY <1>2, <1>6, <2>1, <3>1
  <2>2. CASE i # 1
    <3>1. i \in 2 .. n
      BY <1>2, <2>2
    <3>2. next'[s[i]] = before(s[i])
      BY <1>2, <1>6, <3>1
    <3>3. QED
      BY <1>7, <2>2, <3>1, <3>2
  <2>3. QED
    BY <2>1, <2>2
<1>9. List(next', r, head') /\ IsInjective(r) /\ head' \in Node
  <2>1. \A i \in DOMAIN s : next'[s[i]] = IF i = 1 THEN Null ELSE s[i - 1]
    BY <1>2, <1>8
  <2>2. head' = s[Len(s)]
    BY <1>5 DEF n
  <2>3. List(next, s, stack) /\ IsInjective(s)
    BY DEF Places
  <2>4. QED
    BY <2>1, <2>2, <2>3, ListReverse
<1>10. next' \in [Node -> Pointer]
  <2>1. next \in [Node -> Pointer]
    BY DEF IInv, TypeOK
  <2>2. ASSUME NEW m \in Node PROVE next'[m] \in Pointer
    <3>1. CASE \E i \in 2 .. n : s[i] = m
      <4>1. PICK i \in 2 .. n : s[i] = m
        BY <3>1
      <4>2. next'[m] = s[i - 1] /\ i - 1 \in 1 .. n
        BY <1>2, <1>6, <1>7, <4>1
      <4>3. QED
        BY <1>2, <4>2 DEF Pointer
    <3>2. CASE ~ \E i \in 2 .. n : s[i] = m
      BY <1>6, <2>1, <3>2 DEF Pointer
    <3>3. QED
      BY <3>1, <3>2
  <2>3. next' = [m \in Node |-> next'[m]]
    BY <1>6
  <2>4. QED
    BY <2>2, <2>3
<1>11. /\ r \in Seq(Node) /\ Len(r) = n
       /\ \A i \in 1 .. n : n + 1 - i \in 1 .. n /\ r[i] = s[n + 1 - i]
  BY <1>1, <1>2, ReverseFacts DEF n
<1>12. Content(elem', << >>, r) = Content(elem, s, h)
  BY <1>1, <1>3, ContentReverse
<1> HIDE DEF r
<1>13. \A m \in Node : In(m, s) <=> In(m, r)
  <2>1. \A i \in 1 .. n : r[n + 1 - i] = s[i]
    <3>1. \A i \in 1 .. n : n + 1 - (n + 1 - i) = i
      BY <1>2
    <3>2. QED
      BY <1>11, <3>1
  <2>2. DOMAIN r = 1 .. n
    BY <1>11
  <2>3. QED
    BY <1>2, <1>11, <2>1, <2>2 DEF In
<1>14. \A w \in Writer : \A j \in DOMAIN r : r[j] # made[w]
  <2>1. \A j \in DOMAIN r : j \in 1 .. n
    BY <1>11
  <2>2. \A w \in Writer : \A j \in 1 .. n : s[j] # made[w]
    BY <1>2 DEF Places
  <2>3. QED
    BY <1>11, <2>1, <2>2
<1>15. \A m : ~In(m, << >>)
  BY DEF In
<1>16. Places(next', elem', made', stack', head', << >>, r)
  <2>1. List(next', << >>, stack') /\ IsInjective(<< >>)
    BY ListEmpty
  <2>2. \A m \in Node : elem[m] # NoElement <=> In(m, << >>) \/ In(m, r)
                                                \/ \E w \in Writer : made[w] = m
    BY <1>3, <1>13, <1>15 DEF Places
  <2>3. QED
    BY <1>9, <1>14, <2>1, <2>2 DEF Places
<1>17. QED
  BY <1>9, <1>10, <1>12, <1>16 DEF r, Pointer

(* Between two dummies, or a dummy and the closed queue, nothing moves.    *)
LEMMA DummyPlaces ==
    ASSUME NEW s, NEW h, Places(next, elem, made, stack, head, s, h),
           stack \notin Node, stack' \notin Node, UNCHANGED <<next, elem, made, head>>
    PROVE  Places(next', elem', made', stack', head', s, h)
BY DEF Places, List

-----------------------------------------------------------------------------
LEMMA InitIInv == Init => IInv
<1>. SUFFICES ASSUME Init PROVE IInv
  OBVIOUS
<1>. USE DEF Init
<1>1. TypeOK
  BY MailboxAssumption DEF TypeOK, Pointer
<1>2. WokenOnce /\ ReaderKnows
  BY DEF WokenOnce, ReaderKnows, Null, EmptyDummy, BlockedDummy
<1>3. Places(next, elem, made, stack, head, << >>, << >>)
  <2>1. stack \notin Node /\ head \notin Node
    BY MailboxAssumption
  <2>2. \A n \in Node : elem[n] = NoElement
    OBVIOUS
  <2>3. \A n \in Node, w \in Writer : made[w] # n
    BY MailboxAssumption
  <2>4. \A n : ~In(n, << >>)
    BY DEF In
  <2>5. \A v, w \in Writer : ~(made[v] = made[w] /\ made[v] # Null)
    OBVIOUS
  <2>6. /\ List(next, << >>, stack) /\ IsInjective(<< >>)
        /\ List(next, << >>, head)
    BY <2>1, ListEmpty
  <2>7. QED
    BY <2>2, <2>3, <2>4, <2>5, <2>6 DEF Places
<1>4. QED
  BY <1>1, <1>2, <1>3 DEF IInv

LEMMA NextIInv == IInv /\ [Next]_vars => IInv'
<1>. SUFFICES ASSUME IInv, [Next]_vars PROVE IInv'
  OBVIOUS
<1>. USE MailboxAssumption
<1>0. /\ TypeOK /\ WokenOnce /\ ReaderKnows
      /\ Null # EmptyDummy /\ Null # BlockedDummy /\ EmptyDummy # BlockedDummy
  BY DEF IInv, Null, EmptyDummy, BlockedDummy
<1>P. PICK s, h : Places(next, elem, made, stack, head, s, h)
  BY DEF IInv
<1> DEFINE Placed == \E t, g : Places(next', elem', made', stack', head', t, g)
<1>Q. TypeOK' /\ WokenOnce' /\ ReaderKnows' /\ Placed => IInv'
  BY DEF IInv
<1> HIDE DEF Placed
<1>1. ASSUME NEW w \in Writer, StartEnqueue(w) PROVE IInv'
  <2>1. sent' \in [Writer -> 0 .. PerWriter]
    BY <1>0, <1>1 DEF StartEnqueue, TypeOK
  <2>2. CASE stack = Null
    <3>1. UNCHANGED <<memory, made, expected, reader, wakeups>>
      BY <1>1, <2>2 DEF StartEnqueue, memory, reader
    <3>2. Placed
      BY <1>P, <3>1 DEF memory, Placed
    <3>3. TypeOK' /\ WokenOnce' /\ ReaderKnows'
      BY <1>0, <2>1, <3>1 DEF TypeOK, WokenOnce, ReaderKnows, memory, reader
    <3>4. QED
      BY <1>Q, <3>2, <3>3
  <2>3. CASE stack # Null
    <3>1. /\ Places(next', elem', made', stack', head', s, h)
          /\ elem' \in [Node -> Message \cup {NoElement}] /\ made' \in [Writer -> Pointer]
      BY <1>P, <1>1, <2>3, StartPlaces
    <3>2. /\ UNCHANGED <<stack, next, head, reader, wakeups>>
          /\ expected' = [expected EXCEPT ![w] = stack]
          /\ \A v \in Writer : v # w => made'[v] = made[v]
      BY <1>0, <1>1, <2>3 DEF StartEnqueue, TypeOK
    <3>3. TypeOK'
      BY <1>0, <2>1, <3>1, <3>2 DEF TypeOK, reader
    <3>4. WokenOnce' /\ ReaderKnows'
      BY <1>0, <2>3, <3>2 DEF TypeOK, WokenOnce, ReaderKnows, reader
    <3>5. QED
      BY <1>Q, <3>1, <3>3, <3>4 DEF Placed
  <2>4. QED
    BY <2>2, <2>3
<1>2. ASSUME NEW w \in Writer, Push(w) PROVE IInv'
  <2>1. /\ made[w] \in Node
        /\ Places(next', elem', made', stack', head', <<made[w]>> \o s, h)
        /\ next' \in [Node -> Pointer] /\ made' \in [Writer -> Pointer]
    BY <1>P, <1>2, PushPlaces
  <2>2. /\ UNCHANGED <<elem, head, sent, reader>>
        /\ stack' = made[w] /\ stack = expected[w] /\ stack # Null
        /\ made' = [made EXCEPT ![w] = Null]
        /\ expected' = [expected EXCEPT ![w] = Null]
        /\ wakeups' = IF stack = BlockedDummy THEN wakeups + 1 ELSE wakeups
    BY <1>0, <1>2 DEF Push, ReaderKnows, Wakes
  <2>3. TypeOK'
    BY <1>0, <2>1, <2>2 DEF TypeOK, reader, Pointer
  <2>4. WokenOnce' /\ ReaderKnows'
    BY <1>0, <2>1, <2>2 DEF TypeOK, WokenOnce, ReaderKnows, reader
  <2>5. QED
    BY <1>Q, <2>1, <2>3, <2>4 DEF Placed
<1>3. ASSUME NEW w \in Writer, Retry(w) PROVE IInv'
  <2>1. Placed
    BY <1>P, <1>3 DEF Retry, memory, Placed
  <2>2. TypeOK' /\ WokenOnce' /\ ReaderKnows'
    BY <1>0, <1>3 DEF Retry, TypeOK, WokenOnce, ReaderKnows, memory, reader
  <2>3. QED
    BY <1>Q, <2>1, <2>2
<1>4. ASSUME NEW w \in Writer, Refused(w) PROVE IInv'
  <2>1. /\ Places(next', elem', made', stack', head', s, h)
        /\ next' \in [Node -> Pointer] /\ elem' \in [Node -> Message \cup {NoElement}]
        /\ made' \in [Writer -> Pointer]
    BY <1>P, <1>4, RefusedPlaces
  <2>2. /\ UNCHANGED <<stack, head, sent, reader, wakeups>>
        /\ made' = [made EXCEPT ![w] = Null] /\ expected' = [expected EXCEPT ![w] = Null]
    BY <1>4 DEF Refused
  <2>3. TypeOK' /\ WokenOnce' /\ ReaderKnows'
    BY <1>0, <2>1, <2>2 DEF TypeOK, WokenOnce, ReaderKnows, reader, Pointer
  <2>4. QED
    BY <1>Q, <2>1, <2>3 DEF Placed
<1>5. ASSUME PopHead \/ ClearOne PROVE IInv'
  <2>1. /\ head # Null /\ head' = next[head] /\ Deleted(head)
        /\ UNCHANGED <<stack, writers, reader, wakeups>>
        /\ rpc \in {"run", "clear", "drain"}
    BY <1>5 DEF PopHead, ClearOne
  <2>2. /\ Places(next', elem', made', stack', head', s, Tail(h))
        /\ next' \in [Node -> Pointer] /\ elem' \in [Node -> Message \cup {NoElement}]
        /\ head' \in Pointer
    BY <1>P, <2>1, PopPlaces DEF writers
  <2>3. TypeOK' /\ WokenOnce' /\ ReaderKnows'
    BY <1>0, <2>1, <2>2 DEF TypeOK, WokenOnce, ReaderKnows, reader, writers
  <2>4. QED
    BY <1>Q, <2>2, <2>3 DEF Placed
<1>6. ASSUME LoadStack PROVE IInv'
  <2>1. Placed
    BY <1>P, <1>6 DEF LoadStack, memory, writers, Placed
  <2>2. TypeOK' /\ WokenOnce' /\ ReaderKnows'
    BY <1>0, <1>6 DEF LoadStack, TypeOK, WokenOnce, ReaderKnows, memory, writers, Pointer
  <2>3. QED
    BY <1>Q, <2>1, <2>2
<1>7. ASSUME Fetch PROVE IInv'
  <2>1. head = Null /\ stack \in Node /\ UNCHANGED <<elem, writers, wakeups>> /\ rpc = "fetch"
    BY <1>0, <1>7 DEF Fetch, ReaderKnows
  <2>2. CASE stack = rexpected
    <3>1. stack' = EmptyDummy /\ Reversed(stack) /\ rpc' = "run" /\ rexpected' = Null
      BY <1>7, <2>2 DEF Fetch
    <3>2. /\ Places(next', elem', made', stack', head', << >>, Reverse(s))
          /\ next' \in [Node -> Pointer] /\ head' \in Pointer
      BY <1>P, <2>1, <3>1, TakeAllPlaces DEF writers
    <3>3. TypeOK' /\ WokenOnce' /\ ReaderKnows'
      BY <1>0, <2>1, <3>1, <3>2 DEF TypeOK, WokenOnce, ReaderKnows, writers, Pointer
    <3>4. Placed
      BY <3>2 DEF Placed
    <3>5. QED
      BY <1>Q, <3>3, <3>4
  <2>3. CASE stack # rexpected
    <3>1. rexpected' = stack /\ UNCHANGED <<stack, head, next, rpc>>
      BY <1>7, <2>3 DEF Fetch
    <3>2. Placed
      BY <1>P, <2>1, <3>1 DEF writers, Placed
    <3>3. TypeOK' /\ WokenOnce' /\ ReaderKnows'
      BY <1>0, <2>1, <3>1 DEF TypeOK, WokenOnce, ReaderKnows, writers, Pointer
    <3>4. QED
      BY <1>Q, <3>2, <3>3
  <2>4. QED
    BY <2>2, <2>3
<1>8. ASSUME TryBlock PROVE IInv'
  <2>1. Placed
    BY <1>P, <1>8, DummyPlaces DEF TryBlock, writers, Placed
  <2>2. TypeOK' /\ WokenOnce' /\ ReaderKnows'
    BY <1>0, <1>8 DEF TryBlock, TypeOK, WokenOnce, ReaderKnows, writers
  <2>3. QED
    BY <1>Q, <2>1, <2>2
<1>9. ASSUME Resume \/ BeginClose \/ CloseLoad \/ Drained PROVE IInv'
  <2>1. UNCHANGED <<memory, writers>>
    BY <1>9 DEF Resume, BeginClose, CloseLoad, Drained
  <2>2. Placed
    BY <1>P, <2>1 DEF memory, writers, Placed
  <2>3. TypeOK' /\ WokenOnce' /\ ReaderKnows'
    <3>1. CASE Resume
      BY <1>0, <3>1 DEF Resume, TypeOK, WokenOnce, ReaderKnows, memory, writers
    <3>2. CASE BeginClose
      BY <1>0, <3>2 DEF BeginClose, TypeOK, WokenOnce, ReaderKnows, memory, writers
    <3>3. CASE CloseLoad
      BY <1>0, <3>3 DEF CloseLoad, TypeOK, WokenOnce, ReaderKnows, memory, writers
    <3>4. CASE Drained
      BY <1>0, <3>4 DEF Drained, TypeOK, WokenOnce, ReaderKnows, memory, writers
    <3>5. QED
      BY <1>9, <3>1, <3>2, <3>3, <3>4
  <2>4. QED
    BY <1>Q, <2>2, <2>3
<1>10. ASSUME CloseFetch PROVE IInv'
  <2>1. /\ rpc = "closeFetch" /\ UNCHANGED <<elem, writers, wakeups>>
        /\ head = Null /\ stack # Null /\ stack # BlockedDummy /\ wakeups # 1
    BY <1>0, <1>10 DEF CloseFetch, ReaderKnows, WokenOnce
  <2>2. CASE stack = rexpected /\ stack \in Node
    <3>1. stack' = Null /\ Reversed(stack) /\ rpc' = "drain" /\ rexpected' = Null
      BY <1>10, <2>2 DEF CloseFetch, IsDummy
    <3>2. /\ Places(next', elem', made', stack', head', << >>, Reverse(s))
          /\ next' \in [Node -> Pointer] /\ head' \in Pointer
      BY <1>P, <2>1, <2>2, <3>1, TakeAllPlaces DEF writers
    <3>3. TypeOK' /\ WokenOnce' /\ ReaderKnows'
      BY <1>0, <2>1, <3>1, <3>2 DEF TypeOK, WokenOnce, ReaderKnows, writers, Pointer
    <3>4. Placed
      BY <3>2 DEF Placed
    <3>5. QED
      BY <1>Q, <3>3, <3>4
  <2>3. CASE stack = rexpected /\ stack \notin Node
    <3>1. IsDummy(rexpected)
      BY <1>0, <2>1, <2>3 DEF TypeOK, IsDummy, Pointer
    <3>2. stack' = Null /\ rpc' = "closed" /\ rexpected' = Null /\ UNCHANGED <<head, next>>
      BY <1>10, <2>3, <3>1 DEF CloseFetch
    <3>3. Placed
      BY <1>P, <2>1, <2>3, <3>2, DummyPlaces DEF writers, Placed
    <3>4. TypeOK' /\ WokenOnce' /\ ReaderKnows'
      BY <1>0, <2>1, <3>2 DEF TypeOK, WokenOnce, ReaderKnows, writers, Pointer
    <3>5. QED
      BY <1>Q, <3>3, <3>4
  <2>4. CASE stack # rexpected
    <3>1. rexpected' = stack /\ UNCHANGED <<stack, head, next, rpc>>
      BY <1>10, <2>4 DEF CloseFetch
    <3>2. Placed
      BY <1>P, <2>1, <3>1 DEF writers, Placed
    <3>3. TypeOK' /\ WokenOnce' /\ ReaderKnows'
      BY <1>0, <2>1, <3>1 DEF TypeOK, WokenOnce, ReaderKnows, writers, Pointer
    <3>4. QED
      BY <1>Q, <3>2, <3>3
  <2>5. QED
    BY <2>2, <2>3, <2>4
<1>11. ASSUME UNCHANGED vars PROVE IInv'
  <2>1. Placed
    BY <1>P, <1>11 DEF vars, memory, writers, Placed
  <2>2. TypeOK' /\ WokenOnce' /\ ReaderKnows'
    BY <1>0, <1>11 DEF TypeOK, WokenOnce, ReaderKnows, vars, memory, writers, reader
  <2>3. QED
    BY <1>Q, <2>1, <2>2
<1>12. QED
  BY <1>1, <1>2, <1>3, <1>4, <1>5, <1>6, <1>7, <1>8, <1>9, <1>10, <1>11
     DEF Next, EnqueueStep, ReaderStep

-----------------------------------------------------------------------------
(* The invariant of every number of writers, addresses and elements. *)
THEOREM MailboxSafe == Spec => []IInv
<1>1. QED
  BY InitIInv, NextIInv, PTL DEF Spec

(* Type correctness of single_reader_queue's memory and of the positions   *)
(* of its writers and its reader.                                          *)
THEOREM MailboxTyped == Spec => []TypeOK
<1>1. IInv => TypeOK
  BY DEF IInv
<1>2. QED
  BY <1>1, MailboxSafe, PTL

(* enqueue ends a sleep of the reader at most once: reader_blocked_dummy   *)
(* is there exactly while the sleeping actor has no rescheduling coming.   *)
THEOREM MailboxWokenOnce == Spec => []WokenOnce
<1>1. IInv => WokenOnce
  BY DEF IInv
<1>2. QED
  BY <1>1, MailboxSafe, PTL

LEMMA PlacesOwnOnce ==
    ASSUME TypeOK, NEW s, NEW h, Places(next, elem, made, stack, head, s, h)
    PROVE  NodesOwnedOnce
<1>1. s \in Seq(Node) /\ h \in Seq(Node) /\ Holdings = s \o h
  BY PlacesGiveQueue DEF Holdings
<1> DEFINE c == Holdings
<1>2. /\ c \in Seq(Node) /\ Len(c) = Len(s) + Len(h)
      /\ \A i \in 1 .. Len(s) + Len(h) : c[i] = IF i <= Len(s) THEN s[i] ELSE h[i - Len(s)]
  BY <1>1, ConcatProperties
<1>3. /\ Len(s) \in Nat /\ Len(h) \in Nat
      /\ DOMAIN s = 1 .. Len(s) /\ DOMAIN h = 1 .. Len(h) /\ DOMAIN c = 1 .. Len(s) + Len(h)
  BY <1>1, <1>2
<1> HIDE DEF c
<1>4. \A i \in DOMAIN c : \/ i \in DOMAIN s /\ c[i] = s[i]
                          \/ i - Len(s) \in DOMAIN h /\ c[i] = h[i - Len(s)]
  BY <1>2, <1>3
<1>5. /\ \A i \in DOMAIN s : i \in DOMAIN c /\ c[i] = s[i]
      /\ \A i \in DOMAIN h : i + Len(s) \in DOMAIN c /\ c[i + Len(s)] = h[i]
  <2>1. \A i \in DOMAIN h : i + Len(s) \in DOMAIN c /\ ~(i + Len(s) <= Len(s))
                            /\ i + Len(s) - Len(s) = i
    BY <1>3
  <2>2. QED
    BY <1>2, <1>3, <2>1
<1>6. IsInjective(c)
  <2>1. /\ \A i, j \in DOMAIN s : s[i] = s[j] => i = j
        /\ \A i, j \in DOMAIN h : h[i] = h[j] => i = j
        /\ \A i \in DOMAIN s, j \in DOMAIN h : s[i] # h[j]
    BY DEF Places, IsInjective
  <2>2. SUFFICES ASSUME NEW i \in DOMAIN c, NEW j \in DOMAIN c, c[i] = c[j] PROVE i = j
    BY DEF IsInjective
  <2>3. i \in Int /\ j \in Int
    BY <1>3
  <2>4. CASE i \in DOMAIN s /\ c[i] = s[i]
    BY <1>4, <2>1, <2>2, <2>4
  <2>5. CASE i - Len(s) \in DOMAIN h /\ c[i] = h[i - Len(s)]
    <3>1. j - Len(s) \in DOMAIN h /\ c[j] = h[j - Len(s)]
      BY <1>4, <2>1, <2>2, <2>5
    <3>2. i - Len(s) = j - Len(s)
      BY <2>1, <2>2, <2>5, <3>1
    <3>3. QED
      BY <1>3, <2>3, <3>2
  <2>6. QED
    BY <1>4, <2>4, <2>5
<1>7. \A n : n \in ToSet(c) <=> In(n, s) \/ In(n, h)
  BY <1>4, <1>5 DEF ToSet, In
<1>8. \A n : n \in Made <=> n # Null /\ \E w \in Writer : made[w] = n
  BY DEF Made
<1>9. ToSet(c) \subseteq Node /\ Made \subseteq Node
  <2>1. \A i \in DOMAIN c : c[i] \in Node
    BY <1>2
  <2>2. QED
    BY <1>8, <2>1 DEF TypeOK, Pointer, ToSet
<1>10. ToSet(c) \cap Made = {}
  BY <1>7, <1>8 DEF Places, In
<1>11. ToSet(c) \cup Made = Node \ FreeNodes
  <2>1. \A n \in Node : n # Null
    BY MailboxAssumption
  <2>2. \A n \in Node : n \notin FreeNodes <=> n \in ToSet(c) \/ n \in Made
    BY <1>7, <1>8, <2>1 DEF Places, FreeNodes
  <2>3. QED
    BY <1>9, <2>2
<1>12. QED
  BY <1>6, <1>10, <1>11 DEF NodesOwnedOnce, c

(* An address that holds an element is in exactly one of the three places: *)
(* nothing leaks and nothing is reached after delete_, whoever reuses the  *)
(* address while another writer's compare-and-swap still expects it.       *)
THEOREM MailboxNodesOwnedOnce == Spec => []NodesOwnedOnce
<1>1. IInv => NodesOwnedOnce
  BY PlacesOwnOnce DEF IInv
<1>2. QED
  BY <1>1, MailboxSafe, PTL

-----------------------------------------------------------------------------
(* Every atomic access of single_reader_queue is one operation of the      *)
(* promised queue, or nothing its users can see.                           *)
LEMMA NextPromise == IInv /\ [Next]_vars => [Promise!Next]_Promise!vars
<1>. SUFFICES ASSUME IInv, [Next]_vars
              PROVE  Promise!Next \/ UNCHANGED Promise!vars
  OBVIOUS
<1>. USE MailboxAssumption
<1>0. /\ TypeOK /\ WokenOnce /\ ReaderKnows
      /\ Null # EmptyDummy /\ Null # BlockedDummy /\ EmptyDummy # BlockedDummy
  BY DEF IInv, Null, EmptyDummy, BlockedDummy
<1>P. PICK s, h : Places(next, elem, made, stack, head, s, h)
  BY DEF IInv
<1>Q. Queue = Content(elem, s, h) /\ s \in Seq(Node) /\ h \in Seq(Node)
  BY <1>P, PlacesGiveQueue
<1>R. /\ Promise!vars = <<Queue, State, wakeups, taken, bounced>>
      /\ Promise!vars' = <<Queue', State', wakeups', taken', bounced'>>
  BY DEF Promise!vars
<1>1. ASSUME NEW w \in Writer, StartEnqueue(w)
      PROVE  Promise!Next \/ UNCHANGED Promise!vars
  <2>1. State' = State
    BY <1>1 DEF StartEnqueue, State, reader
  <2>2. CASE stack = Null
    <3>1. /\ UNCHANGED <<next, elem, made, stack, head, wakeups, taken>>
          /\ bounced' = bounced \cup {Message_(w)}
      BY <1>1, <2>2 DEF StartEnqueue
    <3>2. Queue' = Queue
      BY <1>P, <1>Q, <3>1, PlacesGiveNextQueue
    <3>3. Message_(w) \in Message
      BY <1>0, <1>1 DEF StartEnqueue, TypeOK, Message, Message_
    <3>4. State = "closed"
      BY <1>0, <2>2 DEF State, ReaderKnows
    <3>5. Promise!Refuse(Message_(w))
      BY <2>1, <3>1, <3>2, <3>4 DEF Promise!Refuse
    <3>6. QED
      BY <3>3, <3>5 DEF Promise!Next
  <2>3. CASE stack # Null
    <3>1. Queue' = Queue
      BY <1>P, <1>Q, <1>1, <2>3, StartPlaces, PlacesGiveNextQueue
    <3>2. QED
      BY <1>1, <1>R, <2>1, <2>3, <3>1 DEF StartEnqueue
  <2>4. QED
    BY <2>2, <2>3
<1>2. ASSUME NEW w \in Writer, Push(w)
      PROVE  Promise!Next \/ UNCHANGED Promise!vars
  <2> DEFINE m == elem[made[w]]
  <2> DEFINE t == <<made[w]>> \o s
  <2>0. /\ made[w] \in Node /\ m \in Message
        /\ Places(next', elem', made', stack', head', t, h)
        /\ Content(elem', t, h) = Append(Content(elem, s, h), m)
    BY <1>P, <1>2, PushPlaces
  <2> HIDE DEF m, t
  <2>1. made[w] \in Node /\ m \in Message /\ Queue' = Append(Queue, m)
    BY <1>Q, <2>0, PlacesGiveNextQueue
  <2>2. /\ stack' = made[w] /\ stack # Null /\ UNCHANGED <<rpc, taken, bounced>>
        /\ wakeups' = IF stack = BlockedDummy THEN wakeups + 1 ELSE wakeups
    BY <1>0, <1>2 DEF Push, ReaderKnows, Wakes, reader, history
  <2>3. /\ State # "closed"
        /\ stack = BlockedDummy <=> State = "blocked"
        /\ State' = IF State = "blocked" THEN "open" ELSE State
    BY <1>0, <2>1, <2>2 DEF State, WokenOnce, ReaderKnows
  <2>4. wakeups' = IF State = "blocked" THEN 1 ELSE wakeups
    BY <1>0, <2>2, <2>3 DEF TypeOK, WokenOnce, ReaderKnows
  <2>5. Promise!Enqueue(m)
    BY <2>1, <2>2, <2>3, <2>4 DEF Promise!Enqueue
  <2>6. QED
    BY <2>1, <2>5 DEF Promise!Next
<1>3. ASSUME NEW w \in Writer, Retry(w) PROVE UNCHANGED Promise!vars
  <2>1. UNCHANGED <<memory, made, reader, wakeups, history>>
    BY <1>3 DEF Retry
  <2>2. Queue' = Queue
    BY <1>P, <1>Q, <2>1, PlacesGiveNextQueue DEF memory
  <2>3. QED
    BY <1>R, <2>1, <2>2 DEF State, memory, reader, history
<1>4. ASSUME NEW w \in Writer, Refused(w) PROVE Promise!Next
  <2>1. elem[made[w]] \in Message /\ Queue' = Queue
    BY <1>P, <1>Q, <1>4, RefusedPlaces, PlacesGiveNextQueue
  <2>2. /\ stack = Null /\ UNCHANGED <<stack, rpc, wakeups, taken>>
        /\ bounced' = bounced \cup {elem[made[w]]}
    BY <1>4 DEF Refused, reader
  <2>3. State = "closed" /\ State' = State
    BY <1>0, <2>2 DEF State, ReaderKnows
  <2>4. Promise!Refuse(elem[made[w]])
    BY <2>1, <2>2, <2>3 DEF Promise!Refuse
  <2>5. QED
    BY <2>1, <2>4 DEF Promise!Next
<1>5. ASSUME PopHead \/ ClearOne PROVE Promise!Next
  <2>1. /\ head # Null /\ head' = next[head] /\ Deleted(head)
        /\ UNCHANGED <<stack, made, rpc, wakeups>>
    BY <1>5 DEF PopHead, ClearOne, writers, reader
  <2>2. /\ Places(next', elem', made', stack', head', s, Tail(h))
        /\ Queue # << >> /\ Head(Queue) = elem[head]
        /\ Content(elem', s, Tail(h)) = Tail(Queue)
    BY <1>P, <1>Q, <2>1, PopPlaces
  <2>3. Queue' = Tail(Queue)
    BY <2>2, PlacesGiveNextQueue
  <2>4. State' = State
    BY <2>1 DEF State
  <2>5. CASE PopHead
    <3>1. State = "open" /\ wakeups = 0
      BY <1>0, <2>5 DEF PopHead, State, TypeOK, WokenOnce, ReaderKnows
    <3>2. Promise!Take
      BY <2>1, <2>2, <2>3, <2>4, <2>5, <3>1 DEF PopHead, Promise!Take
    <3>3. QED
      BY <3>2 DEF Promise!Next
  <2>6. CASE ClearOne
    <3>1. State \in {"closing", "closed"}
      BY <1>0, <2>6 DEF ClearOne, State, WokenOnce, ReaderKnows
    <3>2. Promise!Discard
      BY <2>1, <2>2, <2>3, <2>4, <2>6, <3>1 DEF ClearOne, Promise!Discard
    <3>3. QED
      BY <3>2 DEF Promise!Next
  <2>7. QED
    BY <1>5, <2>5, <2>6
<1>6. ASSUME LoadStack PROVE UNCHANGED Promise!vars
  <2>1. UNCHANGED <<memory, made, wakeups, history>> /\ rpc = "run" /\ rpc' \in {"nothing", "fetch"}
    BY <1>6 DEF LoadStack, writers
  <2>2. Queue' = Queue
    BY <1>P, <1>Q, <2>1, PlacesGiveNextQueue DEF memory
  <2>3. State' = State
    BY <2>1 DEF State, memory
  <2>4. QED
    BY <1>R, <2>1, <2>2, <2>3 DEF history
<1>7. ASSUME Fetch PROVE UNCHANGED Promise!vars
  <2>1. head = Null /\ stack \in Node /\ UNCHANGED <<elem, made, wakeups, history>> /\ rpc = "fetch"
    BY <1>0, <1>7 DEF Fetch, ReaderKnows, writers
  <2>2. CASE stack = rexpected
    <3>1. stack' = EmptyDummy /\ Reversed(stack) /\ rpc' = "run"
      BY <1>7, <2>2 DEF Fetch
    <3>2. Queue' = Queue
      BY <1>P, <1>Q, <2>1, <3>1, TakeAllPlaces, PlacesGiveNextQueue
    <3>3. State' = State
      BY <1>0, <2>1, <3>1 DEF State
    <3>4. QED
      BY <1>R, <2>1, <3>2, <3>3 DEF history
  <2>3. CASE stack # rexpected
    <3>1. UNCHANGED <<stack, head, next, rpc>>
      BY <1>7, <2>3 DEF Fetch
    <3>2. Queue' = Queue
      BY <1>P, <1>Q, <2>1, <3>1, PlacesGiveNextQueue
    <3>3. QED
      BY <1>R, <2>1, <3>1, <3>2 DEF history, State
  <2>4. QED
    BY <2>2, <2>3
<1>8. ASSUME TryBlock PROVE Promise!Next \/ UNCHANGED Promise!vars
  <2>1. rpc = "nothing" /\ head = Null /\ UNCHANGED <<next, elem, made, head, wakeups, history>>
    BY <1>0, <1>8 DEF TryBlock, ReaderKnows, writers
  <2>2. CASE stack = EmptyDummy
    <3>1. stack' = BlockedDummy /\ rpc' = "asleep"
      BY <1>8, <2>2 DEF TryBlock
    <3>2. Queue' = Queue
      BY <1>P, <1>Q, <2>1, <2>2, <3>1, DummyPlaces, PlacesGiveNextQueue
    <3>3. Queue = << >>
      <4>1. Len(s) = 0 /\ Len(h) = 0
        BY <1>P, <1>Q, <2>1, <2>2 DEF Places, List
      <4>2. Queue \in Seq(Values(elem)) /\ Len(Queue) = Len(h) + Len(s)
        BY <1>Q, ContentFacts
      <4>3. Len(Queue) = 0
        BY <4>1, <4>2
      <4>4. QED
        BY <4>2, <4>3
    <3>4. State = "open" /\ State' = "blocked" /\ wakeups = 0
      BY <1>0, <2>1, <2>2, <3>1 DEF State, TypeOK, WokenOnce
    <3>5. Promise!TryBlock
      BY <2>1, <3>2, <3>3, <3>4 DEF Promise!TryBlock, history
    <3>6. QED
      BY <3>5 DEF Promise!Next
  <2>3. CASE stack # EmptyDummy
    <3>1. stack' = stack /\ rpc' = "run"
      BY <1>8, <2>3 DEF TryBlock
    <3>2. Queue' = Queue
      BY <1>P, <1>Q, <2>1, <3>1, PlacesGiveNextQueue
    <3>3. QED
      BY <1>R, <2>1, <3>1, <3>2 DEF State, history
  <2>4. QED
    BY <2>2, <2>3
<1>9. ASSUME Resume \/ BeginClose \/ CloseLoad \/ Drained
      PROVE  Promise!Next \/ UNCHANGED Promise!vars
  <2>1. UNCHANGED <<stack, next, elem, head, made, history>>
    BY <1>9 DEF Resume, BeginClose, CloseLoad, Drained, memory, writers
  <2>2. Queue' = Queue
    BY <1>P, <1>Q, <2>1, PlacesGiveNextQueue
  <2>3. CASE Resume
    <3>1. State' = State /\ wakeups = 1 /\ wakeups' = 0
      BY <1>0, <2>1, <2>3 DEF Resume, State, TypeOK, WokenOnce
    <3>2. Promise!Wake
      BY <2>1, <2>2, <3>1 DEF Promise!Wake, history
    <3>3. QED
      BY <3>2 DEF Promise!Next
  <2>4. CASE BeginClose
    <3>1. State = "open" /\ State' = "closing" /\ wakeups = 0 /\ wakeups' = wakeups
      BY <1>0, <2>1, <2>4 DEF BeginClose, State, TypeOK, WokenOnce, ReaderKnows
    <3>2. Promise!BeginClose
      BY <2>1, <2>2, <3>1 DEF Promise!BeginClose, history
    <3>3. QED
      BY <3>2 DEF Promise!Next
  <2>5. CASE CloseLoad \/ Drained
    <3>1. State' = State /\ wakeups' = wakeups
      BY <1>0, <2>1, <2>5 DEF CloseLoad, Drained, State, ReaderKnows
    <3>2. QED
      BY <1>R, <2>1, <2>2, <3>1 DEF history
  <2>6. QED
    BY <1>9, <2>3, <2>4, <2>5
<1>10. ASSUME CloseFetch PROVE Promise!Next \/ UNCHANGED Promise!vars
  <2>1. /\ rpc = "closeFetch" /\ UNCHANGED <<elem, made, wakeups, history>>
        /\ head = Null /\ stack # Null /\ stack # BlockedDummy
    BY <1>0, <1>10 DEF CloseFetch, ReaderKnows, WokenOnce, writers
  <2>2. CASE stack = rexpected
    <3>1. Queue' = Queue /\ stack' = Null /\ rpc' \in {"drain", "closed"}
      <4>1. CASE stack \in Node
        <5>1. stack' = Null /\ Reversed(stack) /\ rpc' = "drain"
          BY <1>10, <2>2, <4>1 DEF CloseFetch, IsDummy
        <5>2. QED
          BY <1>P, <1>Q, <2>1, <4>1, <5>1, TakeAllPlaces, PlacesGiveNextQueue
      <4>2. CASE stack \notin Node
        <5>1. IsDummy(rexpected)
          BY <1>0, <2>1, <2>2, <4>2 DEF TypeOK, IsDummy, Pointer
        <5>2. stack' = Null /\ UNCHANGED <<head, next>> /\ rpc' = "closed"
          BY <1>10, <2>2, <5>1 DEF CloseFetch
        <5>3. QED
          BY <1>P, <1>Q, <2>1, <4>2, <5>2, DummyPlaces, PlacesGiveNextQueue
      <4>3. QED
        BY <4>1, <4>2
    <3>2. State = "closing" /\ State' = "closed"
      BY <1>0, <2>1, <3>1 DEF State
    <3>3. Promise!Close
      BY <2>1, <3>1, <3>2 DEF Promise!Close, history
    <3>4. QED
      BY <3>3 DEF Promise!Next
  <2>3. CASE stack # rexpected
    <3>1. UNCHANGED <<stack, head, next, rpc>>
      BY <1>10, <2>3 DEF CloseFetch
    <3>2. Queue' = Queue
      BY <1>P, <1>Q, <2>1, <3>1, PlacesGiveNextQueue
    <3>3. QED
      BY <1>R, <2>1, <3>1, <3>2 DEF history, State
  <2>4. QED
    BY <2>2, <2>3
<1>11. ASSUME UNCHANGED vars PROVE UNCHANGED Promise!vars
  <2>1. UNCHANGED <<stack, next, elem, head, made, rpc, wakeups, taken, bounced>>
    BY <1>11 DEF vars, memory, writers, reader, history
  <2>2. Queue' = Queue
    BY <1>P, <1>Q, <2>1, PlacesGiveNextQueue
  <2>3. QED
    BY <1>R, <2>1, <2>2 DEF State
<1>12. QED
  BY <1>1, <1>2, <1>3, <1>4, <1>5, <1>6, <1>7, <1>8, <1>9, <1>10, <1>11
     DEF Next, EnqueueStep, ReaderStep

(* Treiber stack, reversal, dummies and closing together are one atomic    *)
(* queue: first in first out across the two lists, no element lost,        *)
(* doubled, or both taken and bounced, for any number of writers.          *)
THEOREM MailboxImplementsPromise == Spec => MailboxPromise
<1>1. Init => Promise!Init
  <2>1. SUFFICES ASSUME Init PROVE Promise!Init
    OBVIOUS
  <2>2. IInv /\ stack \notin Node /\ head \notin Node
    BY <2>1, InitIInv, MailboxAssumption DEF Init
  <2>3. PICK s, h : Places(next, elem, made, stack, head, s, h)
    BY <2>2 DEF IInv
  <2>4. s \in Seq(Node) /\ h \in Seq(Node) /\ Queue = Content(elem, s, h)
    BY <2>3, PlacesGiveQueue
  <2>5. Len(s) = 0 /\ Len(h) = 0
    BY <2>2, <2>3, <2>4 DEF Places, List
  <2>6. Queue \in Seq(Values(elem)) /\ Len(Queue) = Len(h) + Len(s)
    BY <2>4, ContentFacts
  <2>7. Queue = << >>
    <3>1. Len(Queue) = 0
      BY <2>5, <2>6
    <3>2. QED
      BY <2>6, <3>1
  <2>8. State = "open"
    BY <2>1 DEF Init, State, Null, EmptyDummy, BlockedDummy
  <2>9. QED
    BY <2>1, <2>7, <2>8 DEF Init, Promise!Init
<1>2. IInv /\ [Next]_vars => [Promise!Next]_Promise!vars
  BY NextPromise
<1>3. QED
  BY <1>1, <1>2, MailboxSafe, PTL DEF Spec, MailboxPromise, Promise!Spec
==============================================================================
