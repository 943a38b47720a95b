-------------------------- MODULE HttpParseProofs --------------------------
(***************************************************************************)
(* Proofs about the parser, for any messages that MessagesAssumption       *)
(* allows: it stays inside its buffers, records no message cut off inside  *)
(* its head, records every whole exchange, and its fields are those of the *)
(* messages.  First how the text of a message is laid out, by induction    *)
(* over its header lines.                                                  *)
(***************************************************************************)
EXTENDS HttpParse, WellFoundedInduction, SequenceTheorems, TLAPS

(* A set of numbers that is not empty has a least member. *)
LEMMA MinFacts ==
    ASSUME NEW I, I \subseteq Nat, I # {}
    PROVE  Min(I) \in I /\ \A k \in I : Min(I) <= k
<1>1. PICK i \in I : \A k \in I : <<k, i>> \notin OpToRel(<, Nat)
  BY NatLessThanWellFounded, WFMin, Zenon
<1>2. ASSUME NEW k \in I, k < i PROVE FALSE
  <2>1. <<k, i>> \in Nat \X Nat /\ <<k, i>>[1] < <<k, i>>[2]
    BY <1>2
  <2>2. <<k, i>> \in OpToRel(<, Nat)
    BY <2>1, Zenon DEF OpToRel
  <2>. QED
    BY <1>1, <2>2, Zenon
<1>3. \A k \in I : i <= k
  BY <1>2
<1>. QED
  BY <1>3 DEF Min

(* The least member, when it is known. *)
LEMMA MinIs ==
    ASSUME NEW I, I \subseteq Int, NEW i \in I, \A k \in I : i <= k
    PROVE  Min(I) = i
<1>1. PICK k \in I : k = Min(I) /\ \A x \in I : k <= x
  BY DEF Min
<1>2. k <= i /\ i <= k /\ k \in Int /\ i \in Int
  BY <1>1
<1>. QED
  BY <1>1, <1>2

(* Induction up to n, over the numbers that have the property: K. *)
LEMMA UpTo ==
    ASSUME NEW n \in Nat, NEW K, 0 \in K, \A k \in 0 .. n - 1 : k \in K => k + 1 \in K
    PROVE  \A k \in 0 .. n : k \in K
<1> SUFFICES ASSUME {k \in 0 .. n : k \notin K} # {} PROVE FALSE
  OBVIOUS
<1> DEFINE I == {k \in 0 .. n : k \notin K}
<1>1. I \subseteq Nat
  OBVIOUS
<1>2. Min(I) \in I /\ \A k \in I : Min(I) <= k
  BY <1>1, MinFacts
<1>3. PICK i \in 0 .. n : i \notin K /\ \A k \in I : i <= k
  BY <1>2
<1>4. i # 0 /\ i - 1 \in 0 .. n - 1 /\ i - 1 \in 0 .. n /\ ~(i <= i - 1)
  BY <1>3
<1>5. i - 1 \in K
  BY <1>3, <1>4
<1>6. i - 1 + 1 \in K /\ i - 1 + 1 = i
  BY <1>4, <1>5
<1>. QED
  BY <1>3, <1>6

-----------------------------------------------------------------------------
(* FlattenSeq: the recursive function it is defined by exists, and what it *)
(* joins up to j begins what it joins up to n.                             *)

Joins(g, ss, n) == \A i \in 1 .. n : g[i] = IF i = 1 THEN ss[i] ELSE g[i - 1] \o ss[i]

LEMMA JoinsExists ==
    ASSUME NEW S, NEW ss \in Seq(Seq(S))
    PROVE  \E g : g \in [1 .. Len(ss) -> Seq(S)] /\ Joins(g, ss, Len(ss))
<1> DEFINE n == Len(ss)
           K == {k \in 0 .. n : \E g \in [1 .. k -> Seq(S)] : Joins(g, ss, k)}
<1>1. n \in Nat /\ \A i \in 1 .. n : ss[i] \in Seq(S)
  OBVIOUS
<1>2. 0 \in K
  <2> DEFINE e == [i \in 1 .. 0 |-> << >>]
  <2>1. e \in [1 .. 0 -> Seq(S)] /\ Joins(e, ss, 0) /\ 0 \in 0 .. n
    BY <1>1 DEF Joins
  <2>. HIDE DEF e
  <2>. QED
    BY <2>1
<1>3. ASSUME NEW k \in 0 .. n - 1, k \in K PROVE k + 1 \in K
  <2>1. PICK g \in [1 .. k -> Seq(S)] : Joins(g, ss, k)
    BY <1>3
  <2> DEFINE line == IF k = 0 THEN ss[1] ELSE g[k] \o ss[k + 1]
             h == [i \in 1 .. k + 1 |-> IF i <= k THEN g[i] ELSE line]
  <2>2. ss[k + 1] \in Seq(S) /\ k + 1 \in 0 .. n /\ k \in Nat /\ (k = 0 => ss[1] \in Seq(S))
    BY <1>1
  <2>3. line \in Seq(S)
    <3>1. CASE k = 0
      BY <2>2, <3>1
    <3>2. CASE k # 0
      <4>1. k \in 1 .. k
        BY <2>2, <3>2
      <4>2. g[k] \in Seq(S)
        BY <4>1
      <4>3. g[k] \o ss[k + 1] \in Seq(S)
        BY ONLY <2>2, <4>2, ConcatProperties
      <4>. QED
        BY <3>2, <4>3
    <3>. QED
      BY <3>1, <3>2
  <2>. HIDE DEF line
  <2>4. h \in [1 .. k + 1 -> Seq(S)]
    BY <2>2, <2>3
  <2>5. ASSUME NEW i \in 1 .. k + 1 PROVE h[i] = IF i = 1 THEN ss[i] ELSE h[i - 1] \o ss[i]
    <3>1. CASE i <= k
      <4>1. i \in 1 .. k /\ (i # 1 => i - 1 \in 1 .. k + 1 /\ i - 1 <= k)
        BY <2>2, <3>1
      <4>2. h[i] = g[i] /\ (i # 1 => h[i - 1] = g[i - 1])
        BY <3>1, <4>1
      <4>3. g[i] = IF i = 1 THEN ss[i] ELSE g[i - 1] \o ss[i]
        BY <2>1, <4>1 DEF Joins
      <4>. HIDE DEF h
      <4>. QED
        BY <4>2, <4>3
    <3>2. CASE ~(i <= k)
      <4>1. i = k + 1 /\ (k # 0 => k \in 1 .. k + 1 /\ k <= k) /\ (i = 1 <=> k = 0) /\ k + 1 - 1 = k
        BY <2>2, <3>2
      <4>2. h[i] = line
        BY <3>2
      <4>. QED
        BY <4>1, <4>2 DEF line
    <3>. QED
      BY <3>1, <3>2
  <2>. HIDE DEF h
  <2>6. Joins(h, ss, k + 1)
    BY <2>5 DEF Joins
  <2>. QED
    BY <2>2, <2>4, <2>6
<1>. HIDE DEF K
<1>4. n \in K
  <2>1. \A k \in 0 .. n : k \in K
    BY <1>1, <1>2, <1>3, UpTo
  <2>. QED
    BY <1>1, <2>1
<1>. QED
  BY <1>4 DEF K

LEMMA FlattenFacts ==
    ASSUME NEW S, NEW ss \in Seq(Seq(S))
    PROVE  \E g \in [0 .. Len(ss) -> Seq(S)] :
              /\ g[0] = << >>
              /\ \A i \in 1 .. Len(ss) : g[i] = g[i - 1] \o ss[i]
              /\ FlattenSeq(ss) = g[Len(ss)]
<1> DEFINE n == Len(ss)
<1>1. n \in Nat /\ \A i \in 1 .. n : ss[i] \in Seq(S)
  OBVIOUS
<1> DEFINE F(f) == [i \in 1 .. n |-> IF i = 1 THEN ss[i] ELSE f[i - 1] \o ss[i]]
           flatten == CHOOSE f : f = F(f)
<1>2. PICK h : h \in [1 .. n -> Seq(S)] /\ Joins(h, ss, n)
  BY JoinsExists
<1>3. h = F(h)
  BY <1>2 DEF Joins
<1>4. flatten = F(flatten)
  <2>1. \E f : f = F(f)
    BY <1>3
  <2>. HIDE DEF F
  <2>. QED
    BY <2>1, Zenon
<1>. HIDE DEF flatten
<1>12. \A i \in 1 .. n : flatten[i] = IF i = 1 THEN ss[i] ELSE flatten[i - 1] \o ss[i]
  <2>1. ASSUME NEW i \in 1 .. n PROVE F(flatten)[i] = IF i = 1 THEN ss[i] ELSE flatten[i - 1] \o ss[i]
    OBVIOUS
  <2>. HIDE DEF F
  <2>. QED
    BY <1>4, <2>1
<1>13. \A i \in 1 .. n : h[i] = IF i = 1 THEN ss[i] ELSE h[i - 1] \o ss[i]
  BY <1>2 DEF Joins
<1> DEFINE K == {k \in 0 .. n : k = 0 \/ flatten[k] = h[k]}
<1>5. ASSUME NEW k \in 0 .. n - 1, k \in K PROVE k + 1 \in K
  <2>1. k + 1 \in 1 .. n /\ k + 1 - 1 = k /\ (k + 1 = 1 <=> k = 0) /\ k + 1 \in 0 .. n
    BY <1>1
  <2>. HIDE DEF F
  <2>2. flatten[k + 1] = IF k + 1 = 1 THEN ss[k + 1] ELSE flatten[k + 1 - 1] \o ss[k + 1]
    BY ONLY <1>12, <2>1
  <2>3. h[k + 1] = IF k + 1 = 1 THEN ss[k + 1] ELSE h[k + 1 - 1] \o ss[k + 1]
    BY ONLY <1>13, <2>1
  <2>. QED
    BY <1>5, <2>1, <2>2, <2>3
<1>6. n # 0 => flatten[n] = h[n]
  <2>1. 0 \in K
    BY <1>1
  <2>. HIDE DEF K
  <2>2. \A k \in 0 .. n : k \in K
    BY <1>1, <1>5, <2>1, UpTo
  <2>. QED
    BY <1>1, <2>2 DEF K
<1>7. FlattenSeq(ss) = IF n = 0 THEN ss ELSE flatten[n]
  BY DEF FlattenSeq, flatten
<1> DEFINE g == [i \in 0 .. n |-> IF i = 0 THEN << >> ELSE h[i]]
<1>8. g \in [0 .. n -> Seq(S)]
  BY <1>1, <1>2
<1>9. ASSUME NEW i \in 1 .. n PROVE g[i] = g[i - 1] \o ss[i]
  <2>1. h[i] = IF i = 1 THEN ss[i] ELSE h[i - 1] \o ss[i]
    BY <1>2 DEF Joins
  <2>2. i - 1 \in 0 .. n /\ i \in 0 .. n /\ i # 0 /\ (i - 1 = 0 <=> i = 1)
    BY <1>1
  <2>3. << >> \o ss[i] = ss[i]
    BY <1>1, ConcatEmptySeq
  <2>. QED
    BY <2>1, <2>2, <2>3
<1>10. FlattenSeq(ss) = g[n]
  <2>1. n = 0 => ss = << >>
    OBVIOUS
  <2>. QED
    BY <1>1, <1>6, <1>7, <2>1
<1>11. g[0] = << >>
  BY <1>1
<1>. HIDE DEF g
<1>. QED
  BY <1>8, <1>9, <1>10, <1>11

(* w begins with u. *)
Begins(u, w) == Len(u) <= Len(w) /\ \A x \in 1 .. Len(u) : w[x] = u[x]

LEMMA BeginsConcat ==
    ASSUME NEW S, NEW u \in Seq(S), NEW w \in Seq(S), NEW v \in Seq(S), Begins(u, w)
    PROVE  Begins(u, w \o v)
<1>1. /\ Len(w \o v) = Len(w) + Len(v)
      /\ \A i \in 1 .. Len(w) + Len(v) : (w \o v)[i] = IF i <= Len(w) THEN w[i] ELSE v[i - Len(w)]
  BY ConcatProperties
<1>2. Len(u) \in Nat /\ Len(w) \in Nat /\ Len(v) \in Nat
  OBVIOUS
<1> DEFINE c == w \o v
<1>3. Len(c) = Len(w) + Len(v)
  BY <1>1
<1>4. ASSUME NEW x \in 1 .. Len(u) PROVE c[x] = u[x]
  <2>1. x \in 1 .. Len(w) + Len(v) /\ x <= Len(w)
    BY <1>2 DEF Begins
  <2>. QED
    BY <1>1, <2>1 DEF Begins
<1>. HIDE DEF c
<1>5. Begins(u, c)
  BY <1>2, <1>3, <1>4 DEF Begins
<1>. QED
  BY <1>5 DEF c

LEMMA JoinedPrefix ==
    ASSUME NEW S, NEW n \in Nat, NEW ss \in [1 .. n -> Seq(S)], NEW g \in [0 .. n -> Seq(S)],
           \A i \in 1 .. n : g[i] = g[i - 1] \o ss[i], NEW j \in 0 .. n
    PROVE  Begins(g[j], g[n])
<1> DEFINE K == {k \in 0 .. n : k < j \/ Begins(g[j], g[k])}
<1>1. \A k \in 0 .. n : g[k] \in Seq(S) /\ Len(g[k]) \in Nat
  OBVIOUS
<1>2. Begins(g[j], g[j])
  BY <1>1 DEF Begins
<1>3. 0 \in K
  BY <1>2
<1>4. ASSUME NEW k \in 0 .. n - 1, k \in K PROVE k + 1 \in K
  <2>1. k + 1 \in 1 .. n /\ k + 1 \in 0 .. n /\ k \in 0 .. n /\ k + 1 - 1 = k
    OBVIOUS
  <2>2. CASE k + 1 < j
    BY <2>1, <2>2
  <2>3. CASE k + 1 = j
    BY <1>2, <2>1, <2>3
  <2>4. CASE k >= j
    <3>1. Begins(g[j], g[k])
      BY <1>4, <2>1, <2>4
    <3>2. g[k + 1] = g[k] \o ss[k + 1]
      <4>1. g[k + 1] = g[k + 1 - 1] \o ss[k + 1]
        BY <2>1
      <4>. QED
        BY <2>1, <4>1
    <3>3. g[k] \in Seq(S) /\ ss[k + 1] \in Seq(S) /\ g[j] \in Seq(S)
      BY <1>1, <2>1
    <3>4. Begins(g[j], g[k] \o ss[k + 1])
      BY ONLY <3>1, <3>3, BeginsConcat
    <3>. QED
      BY <2>1, <3>2, <3>4
  <2>. QED
    BY <2>1, <2>2, <2>3, <2>4
<1>. HIDE DEF K
<1>5. n \in K
  <2>1. \A k \in 0 .. n : k \in K
    BY <1>3, <1>4, UpTo
  <2>. QED
    BY <2>1
<1>. QED
  BY <1>5 DEF K

-----------------------------------------------------------------------------
(* The text of a message, and where its lines stand in it. *)

Text(m) == HeadOf(m) \o m.body
FieldLine(m, i) == <<m.headers[i].key, COLON>> \o m.headers[i].value \o m.eol

(* w stands in t from p on. *)
At(t, p, w) == \A i \in 1 .. Len(w) : t[p + i - 1] = w[i]

LEMMA AtConcat ==
    ASSUME NEW S, NEW t, NEW p \in Int, NEW u \in Seq(S), NEW w \in Seq(S), At(t, p, u \o w)
    PROVE  At(t, p, u) /\ At(t, p + Len(u), w)
<1>1. /\ Len(u \o w) = Len(u) + Len(w)
      /\ \A i \in 1 .. Len(u) + Len(w) : (u \o w)[i] = IF i <= Len(u) THEN u[i] ELSE w[i - Len(u)]
      /\ Len(u) \in Nat /\ Len(w) \in Nat
  BY ConcatProperties
<1> DEFINE v == u \o w
<1>. HIDE DEF v
<1>2. ASSUME NEW i \in 1 .. Len(u) PROVE t[p + i - 1] = u[i]
  <2>1. i \in 1 .. Len(u) + Len(w)
    BY <1>1
  <2>2. t[p + i - 1] = (u \o w)[i] /\ (u \o w)[i] = u[i]
    BY <1>1, <2>1 DEF At
  <2>. QED
    BY <2>2
<1>3. ASSUME NEW i \in 1 .. Len(w) PROVE t[p + Len(u) + i - 1] = w[i]
  <2>1. /\ Len(u) + i \in 1 .. Len(u) + Len(w) /\ ~(Len(u) + i <= Len(u)) /\ Len(u) + i - Len(u) = i
        /\ p + (Len(u) + i) - 1 = p + Len(u) + i - 1
    BY <1>1
  <2>2. (u \o w)[Len(u) + i] = w[Len(u) + i - Len(u)]
    BY <1>1, <2>1
  <2>3. t[p + (Len(u) + i) - 1] = (u \o w)[Len(u) + i]
    <3>1. \A x \in 1 .. Len(u) + Len(w) : t[p + x - 1] = (u \o w)[x]
      BY <1>1 DEF At
    <3>. QED
      BY ONLY <2>1, <3>1
  <2>. QED
    BY <2>1, <2>2, <2>3
<1>. QED
  BY <1>2, <1>3 DEF At

(* s[j] is where the line behind the j-th header line begins. *)
Layout(m, s) ==
    LET n == Len(m.headers)
        t == Text(m)
    IN  /\ s \in [0 .. n -> Nat]
        /\ s[0] = Len(m.line) + Len(m.eol) + 1
        /\ \A j \in 1 .. n : s[j] = s[j - 1] + Len(FieldLine(m, j))
        /\ \A j \in 0 .. n : s[0] <= s[j] /\ s[j] <= s[n]
        /\ Len(HeadOf(m)) = s[n] + Len(m.eol) - 1
        /\ At(t, 1, m.line) /\ At(t, Len(m.line) + 1, m.eol)
        /\ \A j \in 1 .. n : At(t, s[j - 1], FieldLine(m, j))
        /\ At(t, s[n], m.eol)

(* What a line is made of.  A text has the separators of lines, too. *)
Words == STRING \ {LF, CR}
Tokens == STRING \cup {LF, CR, COLON}

LEMMA FieldLineIn ==
    ASSUME NEW m, WellFormed(m), NEW S, Words \cup {COLON} \subseteq S, m.eol \in Seq(S),
           NEW i \in 1 .. Len(m.headers)
    PROVE  /\ FieldLine(m, i) \in Seq(S)
           /\ <<m.headers[i].key, COLON>> \in Seq(S)
           /\ m.headers[i].value \in Seq(S)
           /\ m.headers[i].value \in Seq(Words)
           /\ m.headers[i].key \in STRING \ {SP, LF, CR, COLON}
<1> DEFINE key == m.headers[i].key
           value == m.headers[i].value
<1>1. m.headers \in Seq([key : STRING \ {SP, LF, CR, COLON}, value : Seq(STRING \ {LF, CR})])
  BY DEF WellFormed
<1>2. m.headers[i] \in [key : STRING \ {SP, LF, CR, COLON}, value : Seq(STRING \ {LF, CR})]
  BY <1>1, ElementOfSeq
<1>3. key \in STRING \ {SP, LF, CR, COLON} /\ value \in Seq(Words)
  BY <1>2 DEF Words
<1>4. value \in Seq(S)
  BY <1>3, SeqMonotonic
<1>5. key \in S /\ COLON \in S
  BY <1>3 DEF Words
<1>6. <<key, COLON>> \in Seq(S)
  BY <1>5
<1>. HIDE DEF key, value
<1>7. <<key, COLON>> \o value \in Seq(S)
  BY ONLY <1>4, <1>6, ConcatProperties
<1>8. (<<key, COLON>> \o value) \o m.eol \in Seq(S)
  BY ONLY <1>7, m.eol \in Seq(S), ConcatProperties
<1>. QED
  BY <1>3, <1>4, <1>6, <1>8 DEF FieldLine, key, value

LEMMA HeaderLinesIn ==
    ASSUME NEW m, WellFormed(m), NEW S, Words \cup {COLON} \subseteq S, m.eol \in Seq(S)
    PROVE  /\ Len(m.headers) \in Nat /\ DOMAIN m.headers = 1 .. Len(m.headers)
           /\ \E g \in [0 .. Len(m.headers) -> Seq(S)] :
                 /\ g[0] = << >>
                 /\ \A i \in 1 .. Len(m.headers) : g[i] = g[i - 1] \o FieldLine(m, i)
                 /\ HeaderLines(m) = g[Len(m.headers)]
<1> DEFINE n == Len(m.headers)
           ss == [i \in 1 .. n |-> FieldLine(m, i)]
<1>1. n \in Nat /\ DOMAIN m.headers = 1 .. n
  BY DEF WellFormed
<1>2. \A i \in 1 .. n : FieldLine(m, i) \in Seq(S)
  BY FieldLineIn
<1>3. ss \in Seq(Seq(S)) /\ Len(ss) = n /\ \A i \in 1 .. n : ss[i] = FieldLine(m, i)
  BY <1>1, <1>2
<1>4. HeaderLines(m) = FlattenSeq(ss)
  BY <1>1 DEF HeaderLines, FieldLine
<1>. HIDE DEF ss
<1>5. PICK g \in [0 .. Len(ss) -> Seq(S)] :
              /\ g[0] = << >>
              /\ \A i \in 1 .. Len(ss) : g[i] = g[i - 1] \o ss[i]
              /\ FlattenSeq(ss) = g[Len(ss)]
  BY <1>3, FlattenFacts
<1>6. \A i \in 1 .. n : g[i] = g[i - 1] \o FieldLine(m, i)
  BY <1>3, <1>5
<1>. QED
  BY <1>1, <1>3, <1>4, <1>5, <1>6

LEMMA PartsIn ==
    ASSUME NEW m, WellFormed(m), NEW S, Words \cup {COLON} \subseteq S, m.eol \in Seq(S)
    PROVE  /\ m.line \in Seq(S) /\ HeaderLines(m) \in Seq(S) /\ HeadOf(m) \in Seq(S)
           /\ m.body \in Seq(S) => Text(m) \in Seq(S)
<1>1. m.line \in Seq(S)
  <2>1. m.line \in Seq(Words)
    BY DEF WellFormed, Words
  <2>. QED
    BY <2>1, SeqMonotonic
<1>2. HeaderLines(m) \in Seq(S)
  BY HeaderLinesIn
<1>3. m.line \o m.eol \in Seq(S)
  BY ONLY <1>1, m.eol \in Seq(S), ConcatProperties
<1>4. m.line \o m.eol \o HeaderLines(m) \in Seq(S)
  BY ONLY <1>2, <1>3, ConcatProperties
<1>5. m.line \o m.eol \o HeaderLines(m) \o m.eol \in Seq(S)
  BY ONLY <1>4, m.eol \in Seq(S), ConcatProperties
<1>6. HeadOf(m) \in Seq(S)
  BY <1>5 DEF HeadOf
<1>7. ASSUME m.body \in Seq(S) PROVE HeadOf(m) \o m.body \in Seq(S)
  BY ONLY <1>6, <1>7, ConcatProperties
<1>. QED
  BY <1>1, <1>2, <1>6, <1>7 DEF Text

LEMMA TextTokens ==
    ASSUME NEW m, WellFormed(m)
    PROVE  /\ m.eol \in Seq(Tokens) /\ m.line \in Seq(Tokens) /\ HeaderLines(m) \in Seq(Tokens)
           /\ m.body \in Seq(Tokens) /\ HeadOf(m) \in Seq(Tokens) /\ Text(m) \in Seq(Tokens)
           /\ Words \cup {COLON} \subseteq Tokens
           /\ Len(m.eol) \in Nat /\ Len(m.eol) \in 1 .. 2 /\ m.eol[Len(m.eol)] = LF
<1>1. Words \cup {COLON} \subseteq Tokens /\ STRING \subseteq Tokens
  BY DEF Words, Tokens
<1>2. m.eol \in Seq(Tokens) /\ Len(m.eol) \in Nat /\ Len(m.eol) \in 1 .. 2 /\ m.eol[Len(m.eol)] = LF
  <2>1. LF \in Tokens /\ CR \in Tokens
    BY DEF Tokens
  <2>2. m.eol = <<LF>> \/ m.eol = <<CR, LF>>
    BY DEF WellFormed
  <2>3. CASE m.eol = <<LF>>
    BY <2>1, <2>3
  <2>4. CASE m.eol = <<CR, LF>>
    BY <2>1, <2>4
  <2>. QED
    BY <2>2, <2>3, <2>4
<1>3. m.body \in Seq(Tokens)
  BY <1>1, SeqMonotonic DEF WellFormed
<1>. QED
  BY <1>1, <1>2, <1>3, PartsIn

LEMMA LayoutExists ==
    ASSUME NEW m, WellFormed(m)
    PROVE  \E s : Layout(m, s)
<1> DEFINE n == Len(m.headers)
           t == Text(m)
           H1 == m.line \o m.eol
           H2 == H1 \o HeaderLines(m)
<1>1. /\ m.eol \in Seq(Tokens) /\ m.line \in Seq(Tokens) /\ HeaderLines(m) \in Seq(Tokens)
      /\ m.body \in Seq(Tokens) /\ HeadOf(m) \in Seq(Tokens) /\ t \in Seq(Tokens)
      /\ Words \cup {COLON} \subseteq Tokens
  BY TextTokens
<1>2. n \in Nat /\ \A i \in 1 .. n : FieldLine(m, i) \in Seq(Tokens)
  BY <1>1, HeaderLinesIn, FieldLineIn
<1>3. PICK g \in [0 .. n -> Seq(Tokens)] :
          /\ g[0] = << >>
          /\ \A i \in 1 .. n : g[i] = g[i - 1] \o FieldLine(m, i)
          /\ HeaderLines(m) = g[n]
  BY <1>1, HeaderLinesIn
<1>4. /\ H1 \in Seq(Tokens) /\ Len(H1) = Len(m.line) + Len(m.eol)
      /\ H2 \in Seq(Tokens) /\ Len(H2) = Len(H1) + Len(HeaderLines(m))
      /\ HeadOf(m) = H2 \o m.eol /\ Len(HeadOf(m)) = Len(H2) + Len(m.eol)
      /\ t = HeadOf(m) \o m.body
  <2>1. H1 \in Seq(Tokens) /\ Len(H1) = Len(m.line) + Len(m.eol)
    BY <1>1, ConcatProperties
  <2>. HIDE DEF H1
  <2>2. H2 \in Seq(Tokens) /\ Len(H2) = Len(H1) + Len(HeaderLines(m))
    BY <1>1, <2>1, ConcatProperties
  <2>3. HeadOf(m) = H2 \o m.eol
    BY DEF HeadOf, H1
  <2>. HIDE DEF H2
  <2>4. Len(H2 \o m.eol) = Len(H2) + Len(m.eol)
    <3>1. H2 \in Seq(Tokens) /\ m.eol \in Seq(Tokens)
      BY <1>1, <2>2
    <3>. QED
      BY ONLY <3>1, ConcatProperties
  <2>5. t = HeadOf(m) \o m.body
    BY DEF Text
  <2>. QED
    BY <2>1, <2>2, <2>3, <2>4, <2>5
<1>5. H2 = H1 \o HeaderLines(m) /\ H1 = m.line \o m.eol
  OBVIOUS
<1>. HIDE DEF t, H1, H2, n
<1>6. /\ Len(m.line) \in Nat /\ Len(m.eol) \in Nat /\ Len(H1) \in Int /\ Len(H2) \in Int
      /\ 1 + Len(m.line) \in Int /\ 1 + Len(H1) \in Int /\ 1 + Len(H2) \in Int /\ 1 \in Int
  BY <1>1, <1>4
<1>7. At(t, 1, HeadOf(m))
  <2>1. At(t, 1, HeadOf(m) \o m.body)
    <3>1. Len(t) \in Nat /\ \A i \in 1 .. Len(t) : 1 + i - 1 = i
      BY <1>1
    <3>2. At(t, 1, t)
      BY <3>1 DEF At
    <3>. QED
      BY <1>4, <3>2
  <2>. QED
    BY ONLY <1>1, <1>6, <2>1, AtConcat
<1>8. At(t, 1, H2) /\ At(t, 1 + Len(H2), m.eol)
  <2>1. At(t, 1, H2 \o m.eol)
    BY <1>4, <1>7
  <2>. QED
    BY ONLY <1>1, <1>4, <1>6, <2>1, AtConcat
<1>9. At(t, 1, H1) /\ At(t, 1 + Len(H1), HeaderLines(m))
  <2>1. At(t, 1, H1 \o HeaderLines(m))
    BY <1>5, <1>8
  <2>. QED
    BY ONLY <1>1, <1>4, <1>6, <2>1, AtConcat
<1>10. At(t, 1, m.line) /\ At(t, 1 + Len(m.line), m.eol)
  <2>1. At(t, 1, m.line \o m.eol)
    BY <1>5, <1>9
  <2>. QED
    BY ONLY <1>1, <1>6, <2>1, AtConcat
<1>11. \A j \in 0 .. n : g[j] \in Seq(Tokens) /\ Len(g[j]) \in Nat
  BY ONLY <1>3
<1>18. PICK h \in Nat : h = Len(H1)
  <2>1. Len(H1) \in Nat
    <3>1. H1 \in Seq(Tokens)
      BY <1>4
    <3>. QED
      BY ONLY <3>1
  <2>. QED
    BY <2>1
<1> DEFINE s == [j \in 0 .. n |-> h + 1 + Len(g[j])]
<1>12. s \in [0 .. n -> Nat] /\ \A j \in 0 .. n : s[j] = h + 1 + Len(g[j])
  BY <1>11, <1>18
<1>. HIDE DEF s
<1>13. s[0] = Len(m.line) + Len(m.eol) + 1
  <2>1. 0 \in 0 .. n /\ Len(g[0]) = 0
    BY <1>2, <1>3
  <2>2. s[0] = h + 1 + Len(g[0])
    BY <1>12, <2>1
  <2>3. h = Len(m.line) + Len(m.eol) /\ h + 1 + 0 = h + 1
    BY <1>4, <1>18
  <2>. QED
    BY ONLY <2>1, <2>2, <2>3
<1>14. ASSUME NEW j \in 1 .. n
       PROVE  s[j] = s[j - 1] + Len(FieldLine(m, j)) /\ At(t, s[j - 1], FieldLine(m, j))
  <2>1. j \in 0 .. n /\ j - 1 \in 0 .. n
    BY <1>2
  <2>2. g[j] = g[j - 1] \o FieldLine(m, j) /\ g[j - 1] \in Seq(Tokens) /\ FieldLine(m, j) \in Seq(Tokens)
    BY <1>2, <1>3, <2>1
  <2>3. Len(g[j - 1] \o FieldLine(m, j)) = Len(g[j - 1]) + Len(FieldLine(m, j))
    BY ONLY <2>2, ConcatProperties
  <2>4. Len(g[j - 1]) \in Nat /\ Len(FieldLine(m, j)) \in Nat
    BY <2>2
  <2>5. s[j] = h + 1 + Len(g[j]) /\ s[j - 1] = h + 1 + Len(g[j - 1])
    BY <1>12, <2>1
  <2>6. s[j] = s[j - 1] + Len(FieldLine(m, j))
    <3>1. PICK x \in Nat, y \in Nat : x = Len(g[j - 1]) /\ y = Len(FieldLine(m, j))
      BY <2>4
    <3>2. Len(g[j]) = x + y
      BY <2>2, <2>3, <3>1
    <3>3. h + 1 + (x + y) = h + 1 + x + y
      BY ONLY h \in Nat, x \in Nat, y \in Nat
    <3>. QED
      BY ONLY <2>5, <3>1, <3>2, <3>3
  <2>7. Begins(g[j], g[n])
    <3> DEFINE ss == [i \in 1 .. n |-> FieldLine(m, i)]
    <3>1. ss \in [1 .. n -> Seq(Tokens)] /\ \A i \in 1 .. n : g[i] = g[i - 1] \o ss[i]
      BY <1>2, <1>3
    <3>. HIDE DEF ss
    <3>. QED
      BY ONLY <1>2, <1>3, <2>1, <3>1, JoinedPrefix
  <2>8. At(t, 1 + Len(H1), g[j])
    <3>1. \A i \in 1 .. Len(HeaderLines(m)) : t[1 + Len(H1) + i - 1] = HeaderLines(m)[i]
      BY <1>9 DEF At
    <3>2. HeaderLines(m) = g[n] /\ Len(g[j]) \in Nat /\ Len(g[n]) \in Nat
      BY <1>2, <1>3, <1>11, <2>1
    <3>3. Len(g[j]) <= Len(g[n]) /\ \A i \in 1 .. Len(g[j]) : g[n][i] = g[j][i]
      BY <2>7 DEF Begins
    <3>4. \A i \in 1 .. Len(g[j]) : i \in 1 .. Len(g[n])
      BY <3>2, <3>3
    <3>5. \A i \in 1 .. Len(g[j]) : t[1 + Len(H1) + i - 1] = g[j][i]
      BY ONLY <3>1, <3>2, <3>3, <3>4
    <3>. QED
      BY <3>5 DEF At
  <2>9. At(t, 1 + Len(H1) + Len(g[j - 1]), FieldLine(m, j))
    <3>1. At(t, 1 + Len(H1), g[j - 1] \o FieldLine(m, j))
      BY <2>2, <2>8
    <3>. QED
      BY ONLY <1>6, <2>2, <3>1, AtConcat
  <2>10. s[j - 1] = 1 + Len(H1) + Len(g[j - 1])
    <3>1. 1 + h = h + 1
      BY <1>18
    <3>. QED
      BY ONLY <1>18, <2>5, <3>1
  <2>. QED
    BY <2>6, <2>9, <2>10
<1>15. ASSUME NEW j \in 0 .. n PROVE s[0] <= s[j] /\ s[j] <= s[n]
  <2> DEFINE ss == [i \in 1 .. n |-> FieldLine(m, i)]
  <2>1. ss \in [1 .. n -> Seq(Tokens)] /\ \A i \in 1 .. n : g[i] = g[i - 1] \o ss[i]
    BY <1>2, <1>3
  <2>. HIDE DEF ss
  <2>2. Begins(g[j], g[n])
    BY ONLY <1>2, <1>3, <2>1, JoinedPrefix
  <2>3. Len(g[j]) <= Len(g[n])
    BY <2>2 DEF Begins
  <2>4. n \in 0 .. n /\ 0 \in 0 .. n /\ Len(g[0]) = 0
    BY <1>2, <1>3
  <2>5. PICK x \in Nat, y \in Nat : x = Len(g[j]) /\ y = Len(g[n])
    BY <1>11, <2>4
  <2>6. s[0] = h + 1 + 0 /\ s[j] = h + 1 + x /\ s[n] = h + 1 + y /\ x <= y
    BY <1>12, <2>3, <2>4, <2>5
  <2>. QED
    BY ONLY <1>18, <2>5, <2>6
<1>16. /\ 1 + Len(H2) = s[n] /\ Len(HeadOf(m)) = s[n] + Len(m.eol) - 1
       /\ 1 + Len(m.line) = Len(m.line) + 1
  <2>1. n \in 0 .. n
    BY <1>2
  <2>2. PICK x \in Nat, y \in Nat : x = Len(g[n]) /\ y = Len(m.eol)
    BY <1>6, <1>11, <2>1
  <2>3. s[n] = h + 1 + x
    BY <1>12, <2>1, <2>2
  <2>4. HeaderLines(m) = g[n] /\ Len(H2) = h + x
    BY <1>3, <1>4, <1>18, <2>2
  <2>5. Len(HeadOf(m)) = h + x + y
    BY <1>4, <2>2, <2>4
  <2>6. 1 + (h + x) = h + 1 + x /\ h + x + y = h + 1 + x + y - 1
    BY ONLY h \in Nat, x \in Nat, y \in Nat
  <2>7. 1 + Len(m.line) = Len(m.line) + 1
    BY ONLY <1>6
  <2>. QED
    BY ONLY <2>2, <2>3, <2>4, <2>5, <2>6, <2>7
<1>17. Layout(m, s)
  BY <1>8, <1>10, <1>12, <1>13, <1>14, <1>15, <1>16 DEF Layout, t, n
<1>. QED
  BY <1>17

-----------------------------------------------------------------------------
(* What stands where in the text of a message.  A value keeps the CR that  *)
(* its line ends with.                                                     *)

Start(m) == CHOOSE s : Layout(m, s)
Kept(m) == IF m.eol = <<LF>> THEN << >> ELSE <<CR>>
Value(m, i) == m.headers[i].value \o Kept(m)

LEMMA StartLayout ==
    ASSUME NEW m, WellFormed(m)
    PROVE  Layout(m, Start(m)) /\ Len(m.headers) \in Nat
<1>1. Layout(m, Start(m))
  BY LayoutExists, Zenon DEF Start
<1>2. Len(m.headers) \in Nat
  BY TextTokens, HeaderLinesIn
<1>. QED
  BY <1>1, <1>2

LEMMA EolFacts ==
    ASSUME NEW m, WellFormed(m)
    PROVE  /\ m.eol \in {<<LF>>, <<CR, LF>>}
           /\ m.eol = <<LF>> => Len(m.eol) = 1 /\ m.eol[1] = LF /\ Kept(m) = << >>
           /\ m.eol # <<LF>> => Len(m.eol) = 2 /\ m.eol[1] = CR /\ m.eol[2] = LF /\ Kept(m) = <<CR>>
           /\ LF # CR /\ LF # SP /\ CR # SP /\ LF # COLON /\ CR # COLON
<1>1. m.eol \in {<<LF>>, <<CR, LF>>}
  BY DEF WellFormed
<1>2. LF # CR /\ LF # SP /\ CR # SP /\ LF # COLON /\ CR # COLON
  BY DEF LF, CR, SP, COLON
<1>3. <<LF>> # <<CR, LF>>
  BY <1>2
<1>4. CASE m.eol = <<LF>>
  BY <1>1, <1>2, <1>4 DEF Kept
<1>5. CASE m.eol = <<CR, LF>>
  BY <1>1, <1>2, <1>3, <1>5 DEF Kept
<1>. QED
  BY <1>1, <1>4, <1>5

LEMMA ValueFacts ==
    ASSUME NEW m, WellFormed(m), NEW i \in 1 .. Len(m.headers)
    PROVE  LET value == m.headers[i].value
           IN  /\ Value(m, i) \in Seq(Tokens) /\ Len(Value(m, i)) \in Nat /\ Len(value) \in Nat
               /\ Len(Value(m, i)) = Len(value) + Len(m.eol) - 1
               /\ \A x \in 1 .. Len(Value(m, i)) :
                     /\ Value(m, i)[x] # LF
                     /\ Value(m, i)[x] = IF x <= Len(value) THEN value[x] ELSE m.eol[x - Len(value)]
<1> DEFINE value == m.headers[i].value
<1>1. value \in Seq(Tokens) /\ value \in Seq(Words)
  BY TextTokens, FieldLineIn
<1>. HIDE DEF value
<1>2. Len(value) \in Nat /\ \A x \in 1 .. Len(value) : value[x] \in Words /\ value[x] # LF
  <2>1. Len(value) \in Nat /\ \A x \in 1 .. Len(value) : value[x] \in Words
    BY <1>1
  <2>2. LF \notin Words
    BY DEF Words
  <2>. QED
    BY <2>1, <2>2
<1>3. CASE m.eol = <<LF>>
  <2>1. Kept(m) = << >> /\ Len(m.eol) = 1
    BY <1>3, EolFacts
  <2>2. Value(m, i) = value
    BY <1>1, <2>1, ConcatEmptySeq DEF Value, value
  <2>3. Len(value) = Len(value) + 1 - 1
    BY <1>2
  <2>. QED
    BY <1>1, <1>2, <2>1, <2>2, <2>3 DEF value
<1>4. CASE m.eol # <<LF>>
  <2>1. Kept(m) = <<CR>> /\ Len(m.eol) = 2 /\ m.eol[1] = CR /\ CR # LF
    BY <1>4, EolFacts
  <2>2. <<CR>> \in Seq(Tokens) /\ Len(<<CR>>) = 1 /\ <<CR>>[1] = CR
    BY DEF Tokens
  <2>3. Value(m, i) = value \o <<CR>>
    BY <2>1 DEF Value, value
  <2>4. /\ value \o <<CR>> \in Seq(Tokens)
        /\ Len(value \o <<CR>>) = Len(value) + Len(<<CR>>)
        /\ \A x \in 1 .. Len(value) + Len(<<CR>>) :
              (value \o <<CR>>)[x] = IF x <= Len(value) THEN value[x] ELSE <<CR>>[x - Len(value)]
    BY ONLY <1>1, <2>2, ConcatProperties
  <2>5. ASSUME NEW x \in 1 .. Len(value) + 1
        PROVE  /\ Value(m, i)[x] # LF
               /\ Value(m, i)[x] = IF x <= Len(value) THEN value[x] ELSE m.eol[x - Len(value)]
    <3>1. CASE x <= Len(value)
      <4>1. x \in 1 .. Len(value)
        BY <1>2, <3>1
      <4>2. Value(m, i)[x] = value[x]
        BY <2>2, <2>3, <2>4, <3>1
      <4>. QED
        BY <1>2, <3>1, <4>1, <4>2
    <3>2. CASE ~(x <= Len(value))
      <4>1. x - Len(value) = 1
        BY <1>2, <3>2
      <4>2. Value(m, i)[x] = <<CR>>[1]
        BY <2>2, <2>3, <2>4, <3>2, <4>1
      <4>. QED
        BY <2>1, <2>2, <3>2, <4>1, <4>2
    <3>. QED
      BY <3>1, <3>2
  <2>6. Len(value) + 1 = Len(value) + 2 - 1 /\ Len(value) + 1 \in Nat
    BY <1>2
  <2>. QED
    BY <1>2, <2>1, <2>2, <2>3, <2>4, <2>5, <2>6 DEF value
<1>. QED
  BY <1>3, <1>4

LEMMA LayoutFacts ==
    ASSUME NEW m, WellFormed(m), NEW j \in 0 .. Len(m.headers)
    PROVE  LET s == Start(m)
               n == Len(m.headers)
           IN  /\ s[j] \in Nat /\ s[j] >= 1 /\ s[j] <= s[n] /\ n \in Nat /\ s[n] \in Nat
               /\ s[0] = Len(m.line) + Len(m.eol) + 1
               /\ Len(HeadOf(m)) = s[n] + Len(m.eol) - 1
               /\ j < n => s[j + 1] \in Nat /\ s[j + 1] = s[j] + Len(FieldLine(m, j + 1))
                           /\ At(Text(m), s[j], FieldLine(m, j + 1))
<1> DEFINE n == Len(m.headers)
<1>1. PICK s : s = Start(m)
  OBVIOUS
<1>2. Layout(m, s) /\ n \in Nat
  BY <1>1, StartLayout
<1>3. /\ s \in [0 .. n -> Nat] /\ s[0] = Len(m.line) + Len(m.eol) + 1
      /\ Len(HeadOf(m)) = s[n] + Len(m.eol) - 1
  BY <1>2 DEF Layout
<1>4. \A i \in 0 .. n : s[0] <= s[i] /\ s[i] <= s[n]
  BY <1>2 DEF Layout
<1>5. \A i \in 1 .. n : s[i] = s[i - 1] + Len(FieldLine(m, i)) /\ At(Text(m), s[i - 1], FieldLine(m, i))
  BY <1>2 DEF Layout
<1>. HIDE DEF n
<1>6. j \in 0 .. n /\ n \in 0 .. n /\ 0 \in 0 .. n
  BY <1>2 DEF n
<1>7. s[j] \in Nat /\ s[n] \in Nat /\ s[0] \in Nat /\ s[0] <= s[j] /\ s[j] <= s[n]
  BY ONLY <1>3, <1>4, <1>6
<1>8. s[0] >= 1
  <2>1. Len(m.line) \in Nat /\ Len(m.eol) \in Nat
    BY TextTokens
  <2>2. PICK a \in Nat, b \in Nat : a = Len(m.line) /\ b = Len(m.eol)
    BY ONLY <2>1
  <2>3. a + b + 1 = s[0]
    BY <1>3, <2>2
  <2>4. a + b + 1 >= 1
    BY ONLY a \in Nat, b \in Nat
  <2>. QED
    BY <2>3, <2>4
<1>9. ASSUME j < n
      PROVE  s[j + 1] \in Nat /\ s[j + 1] = s[j] + Len(FieldLine(m, j + 1)) /\ At(Text(m), s[j], FieldLine(m, j + 1))
  <2>1. j + 1 \in 1 .. n /\ j + 1 \in 0 .. n /\ j + 1 - 1 = j
    BY <1>2, <1>6, <1>9
  <2>2. s[j + 1] \in Nat
    BY ONLY <1>3, <2>1
  <2>3. s[j + 1] = s[j + 1 - 1] + Len(FieldLine(m, j + 1)) /\ At(Text(m), s[j + 1 - 1], FieldLine(m, j + 1))
    BY ONLY <1>5, <2>1
  <2>. QED
    BY <2>1, <2>2, <2>3
<1>10. s[j] >= 1
  BY ONLY <1>7, <1>8
<1>. QED
  BY <1>1, <1>2, <1>3, <1>7, <1>9, <1>10 DEF n

LEMMA FieldText ==
    ASSUME NEW m, WellFormed(m), NEW j \in 0 .. Len(m.headers) - 1
    PROVE  LET p == Start(m)[j]
               q == Start(m)[j + 1]
               w == Value(m, j + 1)
               t == Text(m)
           IN  /\ p \in Nat /\ q \in Nat /\ p >= 1 /\ q = p + 3 + Len(w)
               /\ t[p] = m.headers[j + 1].key /\ t[p + 1] = COLON /\ t[q - 1] = LF
               /\ \A x \in 1 .. Len(w) : t[p + 1 + x] = w[x]
<1> DEFINE n == Len(m.headers)
           p == Start(m)[j]
           q == Start(m)[j + 1]
           t == Text(m)
           head == <<m.headers[j + 1].key, COLON>>
           value == m.headers[j + 1].value
           w == Value(m, j + 1)
<1>1. j \in 0 .. n /\ j < n /\ n \in Nat
  <2>1. n \in Nat
    BY StartLayout
  <2>. QED
    BY <2>1
<1>2. j + 1 \in 1 .. n
  BY <1>1
<1>3. p \in Nat /\ q \in Nat /\ q = p + Len(FieldLine(m, j + 1)) /\ At(t, p, FieldLine(m, j + 1))
  BY <1>1, LayoutFacts
<1>4. p >= 1
  BY <1>1, LayoutFacts
<1>5. /\ head \in Seq(Tokens) /\ value \in Seq(Tokens) /\ m.eol \in Seq(Tokens)
      /\ FieldLine(m, j + 1) = head \o value \o m.eol
  <2>1. m.eol \in Seq(Tokens) /\ Words \cup {COLON} \subseteq Tokens
    BY TextTokens
  <2>2. head \in Seq(Tokens) /\ value \in Seq(Tokens)
    BY <1>2, <2>1, FieldLineIn
  <2>. QED
    BY <2>1, <2>2 DEF FieldLine
<1>6. Len(head) = 2 /\ head[1] = m.headers[j + 1].key /\ head[2] = COLON
  OBVIOUS
<1>7. /\ w \in Seq(Tokens) /\ Len(w) \in Nat /\ Len(value) \in Nat
      /\ Len(w) = Len(value) + Len(m.eol) - 1
      /\ \A x \in 1 .. Len(w) : w[x] = IF x <= Len(value) THEN value[x] ELSE m.eol[x - Len(value)]
  BY <1>2, ValueFacts
<1>8. Len(m.eol) \in 1 .. 2 /\ m.eol[Len(m.eol)] = LF
  BY TextTokens
<1>. HIDE DEF p, q, t, head, value, w
<1>9. /\ head \o value \in Seq(Tokens) /\ Len(head \o value) = 2 + Len(value)
      /\ Len(FieldLine(m, j + 1)) = 2 + Len(value) + Len(m.eol)
  <2>1. head \o value \in Seq(Tokens) /\ Len(head \o value) = Len(head) + Len(value)
    BY ONLY <1>5, ConcatProperties
  <2> DEFINE hv == head \o value
  <2>2. FieldLine(m, j + 1) = hv \o m.eol
    BY <1>5
  <2>. HIDE DEF hv
  <2>3. hv \in Seq(Tokens) /\ m.eol \in Seq(Tokens)
    BY <1>5, <2>1 DEF hv
  <2>4. Len(hv \o m.eol) = Len(hv) + Len(m.eol)
    BY ONLY <2>3, ConcatProperties
  <2>5. Len(hv) = 2 + Len(value)
    BY <1>6, <2>1 DEF hv
  <2>. QED
    BY <2>1, <2>2, <2>4, <2>5, <1>6
<1>10. PICK v \in Nat, e \in 1 .. 2, l \in Nat : v = Len(value) /\ e = Len(m.eol) /\ l = Len(w)
  BY <1>7, <1>8
<1>11. l = v + e - 1 /\ q = p + (2 + v + e) /\ Len(head \o value) = 2 + v
  BY <1>3, <1>7, <1>9, <1>10
<1>12. q = p + 3 + l /\ q - 1 = p + (2 + v) + e - 1
  BY ONLY <1>3, <1>11, v \in Nat, e \in 1 .. 2, l \in Nat
<1>13. At(t, p, head) /\ At(t, p + 2, value) /\ At(t, p + (2 + v), m.eol)
  <2>1. At(t, p, (head \o value) \o m.eol)
    BY <1>3, <1>5, Zenon
  <2>4. p \in Int
    BY <1>3
  <2>2. At(t, p, head \o value) /\ At(t, p + Len(head \o value), m.eol)
    <3>1. head \o value \in Seq(Tokens) /\ m.eol \in Seq(Tokens)
      BY <1>5, <1>9
    <3>. QED
      BY ONLY <2>1, <2>4, <3>1, AtConcat
  <2>3. At(t, p, head) /\ At(t, p + Len(head), value)
    BY ONLY <1>5, <2>2, <2>4, AtConcat
  <2>. QED
    BY <1>6, <1>11, <2>2, <2>3
<1>14. t[p] = m.headers[j + 1].key /\ t[p + 1] = COLON
  <2>1. 1 \in 1 .. Len(head) /\ 2 \in 1 .. Len(head) /\ p + 1 - 1 = p /\ p + 2 - 1 = p + 1
    BY <1>3, <1>6
  <2>2. t[p + 1 - 1] = head[1] /\ t[p + 2 - 1] = head[2]
    BY <1>13, <2>1 DEF At
  <2>. QED
    BY <1>6, <2>1, <2>2
<1>15. \A i \in 1 .. e : t[p + (2 + v) + i - 1] = m.eol[i]
  BY <1>10, <1>13 DEF At
<1>16. t[q - 1] = LF
  <2>1. e \in 1 .. e /\ m.eol[e] = LF
    <3>1. e \in 1 .. e
      BY ONLY e \in 1 .. 2
    <3>. QED
      BY <1>8, <1>10, <3>1
  <2>. QED
    BY <1>12, <1>15, <2>1
<1>17. \A i \in 1 .. v : t[p + 2 + i - 1] = value[i]
  BY <1>10, <1>13 DEF At
<1>18. ASSUME NEW x \in 1 .. l PROVE t[p + 1 + x] = w[x]
  <2>0. w[x] = IF x <= v THEN value[x] ELSE m.eol[x - v]
    BY <1>7, <1>10
  <2>1. CASE x <= v
    <3>1. x \in 1 .. v /\ p + 2 + x - 1 = p + 1 + x
      BY <1>3, <1>10, <2>1
    <3>2. t[p + 2 + x - 1] = value[x]
      BY <1>17, <3>1
    <3>. QED
      BY <2>0, <2>1, <3>1, <3>2
  <2>2. CASE ~(x <= v)
    <3>1. x - v \in 1 .. e /\ p + (2 + v) + (x - v) - 1 = p + 1 + x
      BY ONLY <1>3, <1>11, <2>2, v \in Nat, e \in 1 .. 2, l \in Nat, x \in 1 .. l
    <3>2. t[p + (2 + v) + (x - v) - 1] = m.eol[x - v]
      BY <1>15, <3>1
    <3>. QED
      BY <2>0, <2>2, <3>1, <3>2
  <2>. QED
    BY <2>1, <2>2
<1>. QED
  BY <1>3, <1>4, <1>10, <1>12, <1>14, <1>16, <1>18 DEF p, q, t, w

LEMMA LineText ==
    ASSUME NEW m, WellFormed(m)
    PROVE  /\ Len(m.line) \in Nat /\ Len(m.line) >= 4
           /\ \A i \in 1 .. Len(m.line) : Text(m)[i] = m.line[i] /\ m.line[i] # LF /\ m.line[i] # CR
           /\ \A i \in 1 .. Len(m.eol) : Text(m)[Len(m.line) + i] = m.eol[i]
<1> DEFINE t == Text(m)
           l == Len(m.line)
<1>1. Layout(m, Start(m))
  BY StartLayout
<1>2. At(t, 1, m.line) /\ At(t, Len(m.line) + 1, m.eol)
  BY <1>1 DEF Layout
<1>3. m.line \in Seq(Words) /\ Len(m.line) >= 4
  BY DEF WellFormed, Words
<1>4. \A i \in 1 .. Len(m.line) : m.line[i] \in Words
  BY <1>3
<1>5. LF \notin Words /\ CR \notin Words
  BY DEF Words
<1>6. l \in Nat /\ Len(m.eol) \in Nat
  BY <1>3, TextTokens
<1>. HIDE DEF t
<1>7. \A i \in 1 .. l : t[1 + i - 1] = m.line[i]
  BY <1>2 DEF At
<1>8. \A i \in 1 .. Len(m.eol) : t[l + 1 + i - 1] = m.eol[i]
  BY <1>2 DEF At
<1>. HIDE DEF l
<1>9. \A i \in 1 .. l : 1 + i - 1 = i
  BY <1>6
<1>10. \A i \in 1 .. Len(m.eol) : l + 1 + i - 1 = l + i
  BY <1>6
<1>. QED
  BY <1>3, <1>4, <1>5, <1>6, <1>7, <1>8, <1>9, <1>10 DEF t, l

LEMMA EndText ==
    ASSUME NEW m, WellFormed(m)
    PROVE  LET e == Start(m)[Len(m.headers)]
           IN  /\ e \in Nat /\ e >= 1 /\ Text(m)[e] = m.eol[1]
               /\ m.eol # <<LF>> => Text(m)[e + 1] = LF
               /\ Len(HeadOf(m)) = IF m.eol = <<LF>> THEN e ELSE e + 1
<1> DEFINE e == Start(m)[Len(m.headers)]
           t == Text(m)
<1>1. Layout(m, Start(m)) /\ Len(m.headers) \in Nat
  BY StartLayout
<1>2. At(t, e, m.eol)
  BY <1>1 DEF Layout
<1>3. Len(m.headers) \in 0 .. Len(m.headers)
  BY <1>1
<1>4. e \in Nat /\ e >= 1 /\ Len(HeadOf(m)) = e + Len(m.eol) - 1
  BY <1>3, LayoutFacts
<1>. HIDE DEF e, t
<1>5. \A i \in 1 .. Len(m.eol) : t[e + i - 1] = m.eol[i]
  BY <1>2 DEF At
<1>6. CASE m.eol = <<LF>>
  <2>1. Len(m.eol) = 1
    BY <1>6, EolFacts
  <2>2. e + 1 - 1 = e /\ 1 \in 1 .. 1
    BY <1>4
  <2>. QED
    BY <1>4, <1>5, <1>6, <2>1, <2>2 DEF e, t
<1>7. CASE m.eol # <<LF>>
  <2>1. Len(m.eol) = 2 /\ m.eol[2] = LF
    BY <1>7, EolFacts
  <2>2. e + 1 - 1 = e /\ e + 2 - 1 = e + 1 /\ 1 \in 1 .. 2 /\ 2 \in 1 .. 2
    BY <1>4
  <2>. QED
    BY <1>4, <1>5, <1>7, <2>1, <2>2 DEF e, t
<1>. QED
  BY <1>6, <1>7

(* b is a beginning of the text of m. *)
Cut(m, b) ==
    /\ b \in Seq(Tokens) /\ Len(b) \in Nat /\ Len(b) >= 1 /\ Len(b) <= Len(Text(m))
    /\ \A i \in 1 .. Len(b) : b[i] = Text(m)[i]

LEMMA BufferFacts ==
    ASSUME NEW m, WellFormed(m), NEW b \in Buffers(m)
    PROVE  Cut(m, b) /\ (Whole(m, b) <=> Len(HeadOf(m)) <= Len(b))
<1> DEFINE t == Text(m)
           h == HeadOf(m)
<1>1. t \in Seq(Tokens) /\ h \in Seq(Tokens) /\ m.body \in Seq(Tokens) /\ t = h \o m.body
  BY TextTokens DEF Text
<1>2. PICK l \in 0 .. Len(t) : b = SubSeq(t, 1, l)
  BY DEF Buffers, Prefixes, Text
<1>3. b # << >>
  BY DEF Buffers
<1>. HIDE DEF t, h
<1>4. Len(t) \in Nat /\ \A i \in 1 .. Len(t) : t[i] \in Tokens
  BY <1>1
<1>5. b \in Seq(Tokens) /\ Len(b) = (IF 1 <= l THEN l - 1 + 1 ELSE 0) /\ \A i \in 1 .. l - 1 + 1 : b[i] = t[1 + i - 1]
  <2>1. 1 \in Int /\ l \in Int /\ \A i \in 1 .. l : t[i] \in Tokens
    BY <1>4
  <2>. QED
    BY ONLY <1>2, <2>1, SubSeqProperties
<1>6. Len(b) = l /\ l \in Nat /\ l >= 1 /\ l <= Len(t)
  <2>1. l # 0
    <3>1. b = << >> <=> Len(b) = 0
      BY ONLY <1>5, EmptySeq
    <3>. QED
      BY <1>3, <1>5, <3>1
  <2>. QED
    BY <1>4, <1>5, <2>1
<1>7. ASSUME NEW i \in 1 .. l PROVE b[i] = t[i]
  <2>1. i \in 1 .. l - 1 + 1 /\ 1 + i - 1 = i
    BY <1>6
  <2>2. b[i] = t[1 + i - 1]
    BY <1>5, <2>1
  <2>. QED
    BY <2>1, <2>2
<1>8. Cut(m, b)
  BY <1>5, <1>6, <1>7 DEF Cut, t
<1>9. Len(h) \in Nat /\ \A i \in 1 .. Len(h) : t[i] = h[i]
  <2>1. Len(h) \in Nat /\ Len(m.body) \in Nat
    BY <1>1
  <2>2. \A i \in 1 .. Len(h) + Len(m.body) : (h \o m.body)[i] = IF i <= Len(h) THEN h[i] ELSE m.body[i - Len(h)]
    BY ONLY <1>1, ConcatProperties
  <2>3. \A i \in 1 .. Len(h) : i \in 1 .. Len(h) + Len(m.body) /\ i <= Len(h)
    BY <2>1
  <2>. QED
    BY <1>1, <2>1, <2>2, <2>3
<1>10. ASSUME Len(h) <= Len(b) PROVE SubSeq(h, 1, Len(h)) = SubSeq(b, 1, Len(h))
  <2> DEFINE u == SubSeq(b, 1, Len(h))
             k == Len(h)
  <2>1. k \in Nat /\ k <= l
    BY <1>6, <1>9, <1>10
  <2>. HIDE DEF k
  <2>2. 1 \in Int /\ k \in Int /\ (\A i \in 1 .. k : b[i] \in Tokens) /\ \A i \in 1 .. k : i \in 1 .. l
    BY <1>5, <1>6, <2>1
  <2>3. /\ SubSeq(b, 1, k) \in Seq(Tokens) /\ Len(SubSeq(b, 1, k)) = IF 1 <= k THEN k - 1 + 1 ELSE 0
        /\ \A i \in 1 .. k - 1 + 1 : SubSeq(b, 1, k)[i] = b[1 + i - 1]
    BY ONLY <2>2, SubSeqProperties
  <2>4. u \in Seq(Tokens) /\ Len(u) = k
    BY <2>1, <2>3 DEF k
  <2>5. ASSUME NEW i \in 1 .. k PROVE u[i] = h[i]
    <3>1. i \in 1 .. k - 1 + 1 /\ 1 + i - 1 = i
      BY <2>1
    <3>2. SubSeq(b, 1, k)[i] = b[i]
      BY <2>3, <3>1
    <3>3. b[i] = t[i] /\ t[i] = h[i]
      BY <1>7, <1>9, <2>2 DEF k
    <3>. QED
      BY <3>2, <3>3 DEF k
  <2>. HIDE DEF u
  <2>6. u = h
    BY ONLY <1>1, <2>4, <2>5, SeqEqual DEF k
  <2>7. SubSeq(h, 1, Len(h)) = h
    BY ONLY <1>1, SubSeqFull
  <2>. QED
    BY <2>6, <2>7 DEF u
<1>11. Whole(m, b) <=> Len(h) <= Len(b)
  BY <1>10 DEF Whole, IsPrefix, h
<1>. QED
  BY <1>8, <1>11 DEF h

-----------------------------------------------------------------------------
(* What GetBufByTag finds. *)

LEMMA MatchOne ==
    ASSUME NEW b, NEW k \in 1 .. Len(b), NEW c, Len(b) \in Nat
    PROVE  MatchAt(b, k, <<c>>) <=> b[k] = c
<1>1. DOMAIN <<c>> = {1} /\ <<c>>[1] = c /\ k + 1 - 1 = k /\ k <= Len(b)
  OBVIOUS
<1>2. MatchAt(b, k, <<c>>) <=> <<c>>[1] = IF k + 1 - 1 <= Len(b) THEN b[k + 1 - 1] ELSE stale
  BY <1>1 DEF MatchAt
<1>. QED
  BY <1>1, <1>2

LEMMA MatchTwo ==
    ASSUME NEW b, NEW k \in 1 .. Len(b), NEW c, NEW d, Len(b) \in Nat
    PROVE  MatchAt(b, k, <<c, d>>) <=>
              b[k] = c /\ d = IF k + 1 <= Len(b) THEN b[k + 1] ELSE stale
<1>1. /\ DOMAIN <<c, d>> = {1, 2} /\ <<c, d>>[1] = c /\ <<c, d>>[2] = d
      /\ k + 1 - 1 = k /\ k <= Len(b) /\ k + 2 - 1 = k + 1
  OBVIOUS
<1>2. MatchAt(b, k, <<c, d>>) <=>
         /\ <<c, d>>[1] = IF k + 1 - 1 <= Len(b) THEN b[k + 1 - 1] ELSE stale
         /\ <<c, d>>[2] = IF k + 2 - 1 <= Len(b) THEN b[k + 2 - 1] ELSE stale
  BY <1>1 DEF MatchAt
<1>. QED
  BY <1>1, <1>2

LEMMA Found ==
    ASSUME NEW b, NEW tag, NEW i \in Nat, NEW k \in i .. Len(b), Len(b) \in Nat, MatchAt(b, k, tag),
           \A x \in i .. k - 1 : ~MatchAt(b, x, tag)
    PROVE  TagsFrom(b, i, tag) # {} /\ NextTag(b, i, tag) = k
<1> DEFINE T == TagsFrom(b, i, tag)
<1>1. k \in T /\ T \subseteq Int
  BY DEF TagsFrom
<1>2. ASSUME NEW x \in T PROVE k <= x
  <2>1. x \in i .. Len(b) /\ MatchAt(b, x, tag)
    BY DEF TagsFrom
  <2>2. x \notin i .. k - 1
    BY <2>1
  <2>. QED
    BY <2>1, <2>2
<1>. HIDE DEF T
<1>3. Min(T) = k
  BY <1>1, <1>2, MinIs
<1>. QED
  BY <1>1, <1>3 DEF NextTag, T

(* From i on, c is first at k in the text. *)
FirstAt(m, i, k, c) ==
    /\ i \in Nat /\ i >= 1 /\ k \in Nat /\ i <= k
    /\ Text(m)[k] = c /\ \A x \in i .. k - 1 : Text(m)[x] # c

LEMMA Search ==
    ASSUME NEW m, NEW b, Cut(m, b), NEW i, NEW k, NEW c, FirstAt(m, i, k, c)
    PROVE  IF k <= Len(b) THEN TagsFrom(b, i, <<c>>) # {} /\ NextTag(b, i, <<c>>) = k
                          ELSE TagsFrom(b, i, <<c>>) = {}
<1>. i \in Nat /\ i >= 1 /\ k \in Nat /\ i <= k /\ Text(m)[k] = c /\ \A x \in i .. k - 1 : Text(m)[x] # c
  BY DEF FirstAt
<1>1. Len(b) \in Nat /\ \A x \in 1 .. Len(b) : b[x] = Text(m)[x]
  BY DEF Cut
<1>2. \A x \in 1 .. Len(b) : MatchAt(b, x, <<c>>) <=> Text(m)[x] = c
  BY <1>1, MatchOne
<1>3. \A x \in i .. k - 1 : x <= Len(b) => ~MatchAt(b, x, <<c>>)
  BY <1>1, <1>2
<1>4. CASE k <= Len(b)
  <2>1. k \in i .. Len(b) /\ MatchAt(b, k, <<c>>)
    BY <1>1, <1>2, <1>4
  <2>2. \A x \in i .. k - 1 : ~MatchAt(b, x, <<c>>)
    BY <1>1, <1>3, <1>4
  <2>. QED
    BY <1>1, <1>4, <2>1, <2>2, Found
<1>5. CASE ~(k <= Len(b))
  <2>1. \A x \in i .. Len(b) : x \in i .. k - 1 /\ x <= Len(b)
    BY <1>1, <1>5
  <2>. QED
    BY <1>3, <1>5, <2>1 DEF TagsFrom
<1>. QED
  BY <1>4, <1>5

(* The text from i to k is w. *)
PieceAt(m, i, k, w) ==
    /\ i \in Nat /\ i >= 1 /\ w \in Seq(Tokens) /\ k + 1 = i + Len(w) /\ k \in Int
    /\ At(Text(m), i, w)

LEMMA Piece ==
    ASSUME NEW m, NEW b, Cut(m, b), NEW i, NEW k0, NEW w, PieceAt(m, i, k0, w), k0 <= Len(b)
    PROVE  SubSeq(b, i, k0) = w
<1> DEFINE k == k0 + 1
<1>. i \in Nat /\ i >= 1 /\ w \in Seq(Tokens) /\ k0 \in Int
  BY DEF PieceAt
<1>0. k = i + Len(w) /\ k - 1 = k0 /\ \A x \in 1 .. Len(w) : Text(m)[i + x - 1] = w[x]
  BY DEF PieceAt, At
<1>. k \in Nat /\ k <= Len(b) + 1
  <2>1. Len(b) \in Nat /\ Len(w) \in Nat
    BY DEF Cut
  <2>. QED
    BY <1>0, <2>1
<1>. HIDE DEF k
<1>1. b \in Seq(Tokens) /\ Len(b) \in Nat /\ \A x \in 1 .. Len(b) : b[x] = Text(m)[x]
  BY DEF Cut
<1>2. PICK l \in Nat : l = Len(w)
  OBVIOUS
<1>9. k = i + l
  BY <1>0, <1>2
<1>3. k - 1 \in Int /\ i \in Int /\ k - 1 - i + 1 = l /\ (i <= k - 1 <=> 1 <= l)
      /\ \A x \in i .. k - 1 : x \in 1 .. Len(b)
  <2>1. PICK n \in Nat : n = Len(b)
    BY <1>1
  <2>2. k <= n + 1
    BY <2>1
  <2>3. k - 1 \in Int /\ i \in Int /\ k - 1 - i + 1 = l /\ (i <= k - 1 <=> 1 <= l)
        /\ \A x \in i .. k - 1 : x \in 1 .. n
    BY ONLY <1>9, <2>2, n \in Nat, l \in Nat, i \in Nat, i >= 1, k \in Nat
  <2>. QED
    BY <2>1, <2>3
<1>4. \A x \in i .. k - 1 : b[x] \in Tokens
  BY <1>1, <1>3
<1> DEFINE u == SubSeq(b, i, k - 1)
<1>5. /\ u \in Seq(Tokens) /\ Len(u) = IF i <= k - 1 THEN k - 1 - i + 1 ELSE 0
      /\ \A x \in 1 .. k - 1 - i + 1 : u[x] = b[i + x - 1]
  BY ONLY <1>3, <1>4, SubSeqProperties
<1>. HIDE DEF u
<1>6. Len(u) = l
  BY <1>2, <1>3, <1>5
<1>7. ASSUME NEW x \in 1 .. l PROVE u[x] = w[x]
  <2>1. i + x - 1 \in i .. k - 1 /\ x \in 1 .. k - 1 - i + 1
    BY ONLY <1>9, l \in Nat, i \in Nat, i >= 1, k \in Nat, x \in 1 .. l
  <2>2. u[x] = b[i + x - 1] /\ b[i + x - 1] = Text(m)[i + x - 1]
    BY <1>1, <1>3, <1>5, <2>1
  <2>. QED
    BY <1>0, <1>2, <2>2
<1>8. u = w
  BY ONLY <1>2, <1>5, <1>6, <1>7, w \in Seq(Tokens), SeqEqual
<1>. QED
  BY <1>0, <1>8 DEF u

-----------------------------------------------------------------------------
(* The header map after j lines. *)

MapUpTo(m, j) ==
    [k \in {<<m.headers[i].key>> : i \in 1 .. j} |->
        Value(m, Max({x \in 1 .. j : <<m.headers[x].key>> = k}))]

LEMMA MaxIs ==
    ASSUME NEW I, I \subseteq Int, NEW i \in I, \A k \in I : i >= k
    PROVE  Max(I) = i
<1>1. PICK k \in I : k = Max(I) /\ \A x \in I : k >= x
  BY DEF Max
<1>2. k <= i /\ i <= k /\ k \in Int /\ i \in Int
  BY <1>1
<1>. QED
  BY <1>1, <1>2

LEMMA MapGrows ==
    ASSUME NEW m, NEW j \in Nat
    PROVE  MapUpTo(m, j + 1) = Put(MapUpTo(m, j), <<m.headers[j + 1].key>>, Value(m, j + 1))
<1> DEFINE K(i) == <<m.headers[i].key>>
           D(i) == {K(x) : x \in 1 .. i}
           At1(i, k) == {x \in 1 .. i : K(x) = k}
           F == MapUpTo(m, j + 1)
           G == MapUpTo(m, j)
           H == Put(G, K(j + 1), Value(m, j + 1))
<1>1. /\ DOMAIN F = D(j + 1) /\ \A k \in D(j + 1) : F[k] = Value(m, Max(At1(j + 1, k)))
      /\ DOMAIN G = D(j) /\ \A k \in D(j) : G[k] = Value(m, Max(At1(j, k)))
  BY DEF MapUpTo
<1>2. F = [k \in D(j + 1) |-> Value(m, Max(At1(j + 1, k)))]
  BY DEF MapUpTo
<1>. HIDE DEF F, G
<1>4. H = [k \in (DOMAIN G) \cup {K(j + 1)} |-> IF k = K(j + 1) THEN Value(m, j + 1) ELSE G[k]]
  BY DEF Put
<1>5. 1 .. j + 1 = (1 .. j) \cup {j + 1} /\ j + 1 \in 1 .. j + 1
  OBVIOUS
<1>6. (DOMAIN G) \cup {K(j + 1)} = D(j + 1)
  BY <1>1, <1>5
<1>. HIDE DEF H
<1>7. ASSUME NEW k \in D(j + 1) PROVE F[k] = H[k]
  <2>1. H[k] = IF k = K(j + 1) THEN Value(m, j + 1) ELSE G[k]
    BY <1>4, <1>6
  <2>2. CASE k = K(j + 1)
    <3>1. j + 1 \in At1(j + 1, k) /\ At1(j + 1, k) \subseteq Int /\ \A x \in At1(j + 1, k) : j + 1 >= x
      BY <2>2
    <3> DEFINE I == At1(j + 1, k)
    <3>. HIDE DEF I
    <3>2. Max(I) = j + 1
      BY <3>1, MaxIs DEF I
    <3>. QED
      BY <1>1, <2>1, <2>2, <3>2 DEF I
  <2>3. CASE k # K(j + 1)
    <3>1. At1(j + 1, k) = At1(j, k)
      BY <1>5, <2>3
    <3>2. k \in D(j)
      BY <1>5, <2>3
    <3>3. F[k] = Value(m, Max(At1(j + 1, k))) /\ G[k] = Value(m, Max(At1(j, k)))
      BY <1>1, <3>2
    <3>. QED
      BY <2>1, <2>3, <3>1, <3>3
  <2>. QED
    BY <2>2, <2>3
<1>8. F = H
  <2>1. H = [k \in D(j + 1) |-> H[k]]
    BY <1>4, <1>6
  <2>2. F = [k \in D(j + 1) |-> F[k]]
    BY <1>2
  <2>. QED
    BY <1>7, <2>1, <2>2
<1>. QED
  BY <1>8 DEF F, G, H

LEMMA MapEmpty ==
    ASSUME NEW m
    PROVE  MapUpTo(m, 0) = << >>
<1>1. {<<m.headers[i].key>> : i \in 1 .. 0} = {}
  OBVIOUS
<1>2. DOMAIN MapUpTo(m, 0) = {}
  BY <1>1 DEF MapUpTo
<1>3. MapUpTo(m, 0) = [k \in {} |-> MapUpTo(m, 0)[k]]
  BY <1>1, <1>2 DEF MapUpTo
<1>4. [k \in {} |-> MapUpTo(m, 0)[k]] = << >>
  OBVIOUS
<1>. QED
  BY <1>3, <1>4

LEMMA MapFull ==
    ASSUME NEW m, WellFormed(m)
    PROVE  MapUpTo(m, Len(m.headers)) = HeaderMap(m, Kept(m))
<1>1. DOMAIN m.headers = 1 .. Len(m.headers)
  BY TextTokens, HeaderLinesIn
<1>. QED
  BY <1>1 DEF MapUpTo, HeaderMap, Value

-----------------------------------------------------------------------------
(* One round of ParseHeader's loop, at the beginning of a line. *)

(* A header line, key and value, from p to q - 1. *)
LineAt(m, p, q, key, w) ==
    /\ p \in Nat /\ p >= 1 /\ q \in Nat /\ w \in Seq(Tokens) /\ q = p + 3 + Len(w)
    /\ key \in Tokens /\ key # LF /\ key # CR /\ key # COLON
    /\ Text(m)[p] = key /\ Text(m)[p + 1] = COLON /\ Text(m)[q - 1] = LF
    /\ \A x \in 1 .. Len(w) : Text(m)[p + 1 + x] = w[x] /\ w[x] # LF

(* Where the searches for its colon and its end may stop. *)
LEMMA LineStops ==
    ASSUME NEW m, NEW p, NEW q, NEW key, NEW w, LineAt(m, p, q, key, w)
    PROVE  /\ FirstAt(m, p, p + 1, COLON) /\ FirstAt(m, p + 2, q - 1, LF)
           /\ PieceAt(m, p, p, <<key>>) /\ PieceAt(m, p + 2, q - 2, w)
<1> DEFINE t == Text(m)
<1>1. /\ p \in Nat /\ p >= 1 /\ q \in Nat /\ w \in Seq(Tokens) /\ q = p + 3 + Len(w)
      /\ key \in Tokens /\ key # LF /\ key # CR /\ key # COLON
      /\ t[p] = key /\ t[p + 1] = COLON /\ t[q - 1] = LF
      /\ \A x \in 1 .. Len(w) : t[p + 1 + x] = w[x] /\ w[x] # LF
  BY DEF LineAt
<1>. HIDE DEF t
<1>2. PICK l \in Nat : l = Len(w)
  BY <1>1
<1>3. p \in Nat /\ p >= 1 /\ q \in Nat /\ q = p + 3 + l
  BY <1>1, <1>2
<1>4. /\ p + 1 \in Nat /\ p <= p + 1 /\ p + 2 \in Nat /\ p + 2 >= 1
      /\ q - 1 \in Nat /\ p + 2 <= q - 1 /\ q - 2 + 1 = p + 2 + l /\ p + 1 - 1 = p
      /\ q - 2 \in Int
  BY ONLY <1>3, l \in Nat
<1>5. FirstAt(m, p, p + 1, COLON)
  <2>1. \A x \in p .. p + 1 - 1 : x = p
    BY ONLY <1>3
  <2>2. \A x \in p .. p + 1 - 1 : t[x] # COLON
    BY <1>1, <2>1
  <2>. QED
    BY <1>1, <1>4, <2>2 DEF FirstAt, t
<1>6. FirstAt(m, p + 2, q - 1, LF)
  <2>1. ASSUME NEW x \in p + 2 .. q - 1 - 1 PROVE t[x] # LF
    <3>1. x - p - 1 \in 1 .. l /\ p + 1 + (x - p - 1) = x
      BY ONLY <1>3, l \in Nat, x \in p + 2 .. q - 1 - 1
    <3>2. t[p + 1 + (x - p - 1)] = w[x - p - 1] /\ w[x - p - 1] # LF
      BY <1>1, <1>2, <3>1
    <3>. QED
      BY <3>1, <3>2
  <2>. QED
    BY <1>1, <1>4, <2>1 DEF FirstAt, t
<1>7. PieceAt(m, p, p, <<key>>)
  <2>1. <<key>> \in Seq(Tokens) /\ Len(<<key>>) = 1 /\ <<key>>[1] = key
    BY <1>1
  <2>2. At(t, p, <<key>>)
    <3>1. \A x \in 1 .. 1 : x = 1
      OBVIOUS
    <3>2. \A x \in 1 .. 1 : t[p + x - 1] = <<key>>[x]
      BY <1>1, <1>4, <2>1, <3>1
    <3>. QED
      BY <2>1, <3>2 DEF At
  <2>3. p + 1 = p + Len(<<key>>) /\ p \in Int
    BY <1>1, <2>1
  <2>. QED
    BY <1>3, <2>1, <2>2, <2>3 DEF PieceAt, t
<1>8. PieceAt(m, p + 2, q - 2, w)
  <2>1. \A x \in 1 .. l : p + 2 + x - 1 = p + 1 + x
    BY ONLY <1>3, l \in Nat
  <2>2. At(t, p + 2, w)
    BY <1>1, <1>2, <2>1 DEF At
  <2>3. q - 2 + 1 = p + 2 + Len(w)
    BY <1>2, <1>4
  <2>. QED
    BY <1>1, <1>4, <2>2, <2>3 DEF PieceAt, t
<1>. QED
  BY <1>5, <1>6, <1>7, <1>8

LEMMA LineSearch ==
    ASSUME NEW m, NEW b, Cut(m, b), NEW p, NEW q, NEW key, NEW w, LineAt(m, p, q, key, w), p <= Len(b)
    PROVE  /\ ~MatchAt(b, p, <<LF>>) /\ ~MatchAt(b, p, <<CR, LF>>)
           /\ IF p + 1 <= Len(b) THEN TagsFrom(b, p, <<COLON>>) # {} /\ NextTag(b, p, <<COLON>>) = p + 1
                                 ELSE TagsFrom(b, p, <<COLON>>) = {}
           /\ IF q - 1 <= Len(b)
              THEN /\ TagsFrom(b, p + 2, <<LF>>) # {} /\ NextTag(b, p + 2, <<LF>>) = q - 1
                   /\ SubSeq(b, p, p) = <<key>> /\ SubSeq(b, p + 2, q - 2) = w
              ELSE TagsFrom(b, p + 2, <<LF>>) = {}
<1>1. Len(b) \in Nat /\ \A x \in 1 .. Len(b) : b[x] = Text(m)[x]
  BY DEF Cut
<1>2. p \in 1 .. Len(b) /\ q \in Nat /\ key # LF /\ key # CR /\ Text(m)[p] = key
  BY <1>1 DEF LineAt
<1>3. ~MatchAt(b, p, <<LF>>) /\ ~MatchAt(b, p, <<CR, LF>>)
  <2>1. b[p] = key
    BY <1>1, <1>2
  <2>2. ~MatchAt(b, p, <<LF>>)
    BY <1>1, <1>2, <2>1, MatchOne
  <2>3. ~MatchAt(b, p, <<CR, LF>>)
    BY <1>1, <1>2, <2>1, MatchTwo
  <2>. QED
    BY <2>2, <2>3
<1>4. /\ FirstAt(m, p, p + 1, COLON) /\ FirstAt(m, p + 2, q - 1, LF)
      /\ PieceAt(m, p, p, <<key>>) /\ PieceAt(m, p + 2, q - 2, w)
  BY LineStops
<1>5. IF p + 1 <= Len(b) THEN TagsFrom(b, p, <<COLON>>) # {} /\ NextTag(b, p, <<COLON>>) = p + 1
                         ELSE TagsFrom(b, p, <<COLON>>) = {}
  BY ONLY Cut(m, b), <1>4, Search
<1>6. IF q - 1 <= Len(b) THEN TagsFrom(b, p + 2, <<LF>>) # {} /\ NextTag(b, p + 2, <<LF>>) = q - 1
                         ELSE TagsFrom(b, p + 2, <<LF>>) = {}
  BY ONLY Cut(m, b), <1>4, Search
<1>7. SubSeq(b, p, p) = <<key>>
  BY ONLY Cut(m, b), <1>4, p <= Len(b), Piece
<1>8. ASSUME q - 1 <= Len(b) PROVE SubSeq(b, p + 2, q - 2) = w
  <2>1. q - 2 <= Len(b)
    BY <1>1, <1>2, <1>8
  <2>. QED
    BY ONLY Cut(m, b), <1>4, <2>1, Piece
<1>. QED
  BY <1>3, <1>5, <1>6, <1>7, <1>8

LEMMA RoundField ==
    ASSUME NEW m, WellFormed(m), NEW b, Cut(m, b), NEW j \in 0 .. Len(m.headers) - 1,
           pos = Start(m)[j], pos <= Len(b)
    PROVE  /\ ~EndOfHeader(b)
           /\ IF Start(m)[j + 1] <= Len(b) + 1
                THEN /\ IsField(b) /\ NextLine(b) = Start(m)[j + 1]
                     /\ SubSeq(b, pos, Colon(b) - 1) = <<m.headers[j + 1].key>>
                     /\ SubSeq(b, Colon(b) + 1, LineEnd(b) - 1) = Value(m, j + 1)
                ELSE ~IsField(b)
<1> DEFINE t == Text(m)
           key == m.headers[j + 1].key
<1>1. PICK p, q, w : p = Start(m)[j] /\ q = Start(m)[j + 1] /\ w = Value(m, j + 1)
  OBVIOUS
<1>2. /\ p \in Nat /\ q \in Nat /\ p >= 1 /\ q = p + 3 + Len(w)
      /\ t[p] = key /\ t[p + 1] = COLON /\ t[q - 1] = LF
      /\ \A x \in 1 .. Len(w) : t[p + 1 + x] = w[x]
  BY <1>1, FieldText
<1>3. j + 1 \in 1 .. Len(m.headers)
  <2>1. Len(m.headers) \in Nat
    BY StartLayout
  <2>. QED
    BY <2>1
<1>4. key # LF /\ key # CR /\ key # COLON /\ key \in Tokens
  <2>1. m.eol \in Seq(Tokens) /\ Words \cup {COLON} \subseteq Tokens
    BY TextTokens
  <2>2. key \in STRING \ {SP, LF, CR, COLON}
    BY <1>3, <2>1, FieldLineIn
  <2>. QED
    BY <2>2 DEF Tokens
<1>5. w \in Seq(Tokens) /\ Len(w) \in Nat /\ \A x \in 1 .. Len(w) : w[x] # LF
  BY <1>1, <1>3, ValueFacts
<1>6. PICK l \in Nat, n \in Nat : l = Len(w) /\ n = Len(b)
  BY <1>5 DEF Cut
<1>7. p = pos /\ p <= n
  BY <1>1, <1>6
<1>. HIDE DEF t, key
<1>8. /\ ~MatchAt(b, p, <<LF>>) /\ ~MatchAt(b, p, <<CR, LF>>)
      /\ IF p + 1 <= n THEN TagsFrom(b, p, <<COLON>>) # {} /\ NextTag(b, p, <<COLON>>) = p + 1
                       ELSE TagsFrom(b, p, <<COLON>>) = {}
      /\ IF q - 1 <= n
         THEN /\ TagsFrom(b, p + 2, <<LF>>) # {} /\ NextTag(b, p + 2, <<LF>>) = q - 1
              /\ SubSeq(b, p, p) = <<key>> /\ SubSeq(b, p + 2, q - 2) = w
         ELSE TagsFrom(b, p + 2, <<LF>>) = {}
  <2>1. LineAt(m, p, q, key, w)
    BY <1>2, <1>4, <1>5 DEF LineAt, t
  <2>2. p <= Len(b)
    BY <1>6, <1>7
  <2>3. n = Len(b)
    BY <1>6
  <2>. QED
    BY ONLY Cut(m, b), <2>1, <2>2, <2>3, LineSearch
<1>9. /\ p \in Nat /\ q \in Nat /\ p + 1 + 1 = p + 2 /\ p + 1 - 1 = p /\ q - 1 + 1 = q /\ q - 1 - 1 = q - 2
      /\ (q <= n + 1 => q - 1 <= n /\ p + 1 <= n) /\ (~(q <= n + 1) => ~(q - 1 <= n))
  <2>1. q = p + 3 + l /\ p \in Nat /\ q \in Nat
    BY <1>2, <1>6
  <2>. QED
    BY ONLY <2>1, l \in Nat, n \in Nat
<1>10. ~EndOfHeader(b)
  BY <1>7, <1>8 DEF EndOfHeader
<1>11. p + 1 <= n => ~Lacks(b, <<COLON>>) /\ Colon(b) = p + 1
  BY <1>7, <1>8 DEF Lacks, Colon
<1>12. ~(p + 1 <= n) => Lacks(b, <<COLON>>)
  BY <1>7, <1>8 DEF Lacks
<1>13. CASE q <= n + 1
  <2>1. Colon(b) = p + 1 /\ ~Lacks(b, <<COLON>>) /\ Colon(b) + 1 = p + 2 /\ Colon(b) - 1 = p
    BY <1>9, <1>11, <1>13
  <2>2. TagsFrom(b, Colon(b) + 1, <<LF>>) # {} /\ LineEnd(b) = q - 1
    BY <1>8, <1>9, <1>13, <2>1 DEF LineEnd
  <2>3. IsField(b) /\ NextLine(b) = q
    BY <1>9, <2>1, <2>2 DEF IsField, NextLine
  <2>4. SubSeq(b, p, Colon(b) - 1) = <<key>> /\ SubSeq(b, Colon(b) + 1, LineEnd(b) - 1) = w
    BY <1>8, <1>9, <1>13, <2>1, <2>2
  <2>. QED
    BY <1>1, <1>6, <1>7, <1>10, <1>13, <2>3, <2>4 DEF key
<1>14. CASE ~(q <= n + 1)
  <2>1. TagsFrom(b, p + 2, <<LF>>) = {}
    BY <1>8, <1>9, <1>14
  <2>2. ~IsField(b)
    BY <1>9, <1>11, <1>12, <2>1 DEF IsField
  <2>. QED
    BY <1>1, <1>6, <1>10, <1>14, <2>2
<1>. QED
  BY <1>13, <1>14

LEMMA RoundEnd ==
    ASSUME NEW m, WellFormed(m), NEW b, Cut(m, b), pos = Start(m)[Len(m.headers)], pos <= Len(b)
    PROVE  IF m.eol = <<LF>> THEN EndOfHeader(b) /\ SkipBlank(b) = 1
           ELSE /\ SkipBlank(b) = 2
                /\ EndOfHeader(b) <=> pos + 1 <= Len(b) \/ stale = LF
                /\ pos + 1 > Len(b) => ~IsField(b) /\ b[Len(b)] = CR
<1>1. /\ pos \in Nat /\ pos >= 1 /\ Text(m)[pos] = m.eol[1]
      /\ m.eol # <<LF>> => Text(m)[pos + 1] = LF
  BY EndText
<1>2. b \in Seq(Tokens) /\ Len(b) \in Nat /\ \A x \in 1 .. Len(b) : b[x] = Text(m)[x]
  BY DEF Cut
<1>3. pos \in 1 .. Len(b) /\ b[pos] = m.eol[1]
  BY <1>1, <1>2
<1>4. CASE m.eol = <<LF>>
  <2>1. b[pos] = LF
    BY <1>3, <1>4
  <2>2. MatchAt(b, pos, <<LF>>)
    BY <1>2, <1>3, <2>1, MatchOne
  <2>. QED
    BY <1>4, <2>2 DEF EndOfHeader, SkipBlank
<1>5. CASE m.eol # <<LF>>
  <2>1. b[pos] = CR /\ CR # LF /\ CR # COLON
    BY <1>3, <1>5, EolFacts
  <2>2. ~MatchAt(b, pos, <<LF>>)
    BY <1>2, <1>3, <2>1, MatchOne
  <2>3. pos + 1 <= Len(b) => b[pos + 1] = LF
    <3>1. pos + 1 <= Len(b) => pos + 1 \in 1 .. Len(b)
      BY <1>1, <1>2
    <3>. QED
      BY <1>1, <1>2, <1>5, <3>1
  <2>4. MatchAt(b, pos, <<CR, LF>>) <=> pos + 1 <= Len(b) \/ stale = LF
    <3>1. MatchAt(b, pos, <<CR, LF>>) <=>
             b[pos] = CR /\ LF = IF pos + 1 <= Len(b) THEN b[pos + 1] ELSE stale
      BY <1>2, <1>3, MatchTwo
    <3>. QED
      BY <2>1, <2>3, <3>1
  <2>5. ASSUME pos + 1 > Len(b) PROVE ~IsField(b) /\ b[Len(b)] = CR
    <3>1. pos = Len(b)
      BY <1>1, <1>2, <1>3, <2>5
    <3>2. \A x \in pos .. Len(b) : x = pos
      BY <1>1, <3>1
    <3>3. ~MatchAt(b, pos, <<COLON>>)
      BY <1>2, <1>3, <2>1, MatchOne
    <3>4. TagsFrom(b, pos, <<COLON>>) = {}
      BY <3>2, <3>3 DEF TagsFrom
    <3>. QED
      BY <2>1, <3>1, <3>4 DEF IsField, Lacks
  <2>. QED
    BY <1>5, <2>2, <2>4, <2>5 DEF EndOfHeader, SkipBlank
<1>. QED
  BY <1>4, <1>5

(* The loop over the lines of m in b stands at the beginning of one. *)
AtHeader(m, b, field) ==
    \E j \in 0 .. Len(m.headers) :
        pos = Start(m)[j] /\ pos <= Len(b) + 1 /\ result[field] = MapUpTo(m, j)

(* The CR that b ends with is taken for a "\r\n". *)
StaleRead(m, b) == ~Whole(m, b) /\ stale = LF /\ Last(b) = CR

LEMMA HeaderStep ==
    ASSUME NEW m, WellFormed(m), NEW b \in Buffers(m), NEW field, NEW next,
           AtHeader(m, b, field), HeaderRound(b, field, next)
    PROVE  \/ pc' = "reset" /\ UNCHANGED <<pos, result>> /\ ~Whole(m, b)
           \/ \E j \in 1 .. Len(m.headers) :
                 /\ Store(pc, field, MapUpTo(m, j))
                 /\ pos' = Start(m)[j] /\ pos' <= Len(b) + 1
           \/ /\ pc' = next /\ UNCHANGED result /\ pos' \in Nat /\ pos' <= Len(b) + 1
              /\ Whole(m, b) /\ result[field] = HeaderMap(m, Kept(m))
           \/ /\ pc' = next /\ UNCHANGED result /\ pos' = Len(b) + 2
              /\ m.eol # <<LF>> /\ StaleRead(m, b)
<1> DEFINE n == Len(m.headers)
           h == Len(HeadOf(m))
<1>1. PICK j \in 0 .. n : pos = Start(m)[j] /\ pos <= Len(b) + 1 /\ result[field] = MapUpTo(m, j)
  BY DEF AtHeader
<1>2. Cut(m, b) /\ (Whole(m, b) <=> h <= Len(b))
  BY BufferFacts
<1>3. PICK p \in Nat, e \in Nat, l \in Nat : p = pos /\ e = Start(m)[n] /\ l = Len(b)
  <2>1. Start(m)[j] \in Nat /\ Start(m)[n] \in Nat
    BY LayoutFacts
  <2>2. Len(b) \in Nat
    BY <1>2 DEF Cut
  <2>. QED
    BY <1>1, <2>1, <2>2
<1>4. p <= e /\ p <= l + 1 /\ h = (IF m.eol = <<LF>> THEN e ELSE e + 1) /\ n \in Nat
  <2>1. Start(m)[j] <= Start(m)[n] /\ n \in Nat
    BY LayoutFacts
  <2>. QED
    BY <1>1, <1>3, <2>1, EndText
<1>. HIDE DEF h
<1>5. h \in Nat /\ (m.eol = <<LF>> => h = e) /\ (m.eol # <<LF>> => h = e + 1)
  BY <1>4
<1>6. CASE pos > Len(b) + 1
  <2>1. p > l + 1
    BY <1>3, <1>6
  <2>. QED
    BY ONLY <2>1, <1>4, p \in Nat, l \in Nat
<1>7. CASE pos = Len(b) + 1
  <2>1. p = l + 1
    BY <1>3, <1>7
  <2>2. ~(h <= l) /\ ~(p <= l) /\ ~(p > l + 1)
    BY ONLY <2>1, <1>4, <1>5, p \in Nat, l \in Nat, e \in Nat
  <2>3. ~(pos <= Len(b)) /\ ~(pos > Len(b) + 1) /\ ~Whole(m, b)
    BY <1>2, <1>3, <2>2
  <2>4. pc' = "reset" /\ UNCHANGED <<pos, result>>
    BY <2>3 DEF HeaderRound, WithoutBytes
  <2>. QED
    BY <2>3, <2>4
<1>8. CASE pos <= Len(b) /\ j < n
  <2>1. j \in 0 .. n - 1 /\ j + 1 \in 1 .. n /\ j + 1 \in 0 .. n
    BY <1>4, <1>8
  <2>2. /\ ~EndOfHeader(b)
        /\ IF Start(m)[j + 1] <= Len(b) + 1
             THEN /\ IsField(b) /\ NextLine(b) = Start(m)[j + 1]
                  /\ SubSeq(b, pos, Colon(b) - 1) = <<m.headers[j + 1].key>>
                  /\ SubSeq(b, Colon(b) + 1, LineEnd(b) - 1) = Value(m, j + 1)
             ELSE ~IsField(b)
    BY <1>1, <1>2, <1>8, <2>1, RoundField
  <2>3. ~(pos > Len(b) + 1) /\ ~(pos = Len(b) + 1)
    <3>1. p <= l
      BY <1>3, <1>8
    <3>2. ~(p > l + 1) /\ ~(p = l + 1)
      BY ONLY <3>1, p \in Nat, l \in Nat
    <3>. QED
      BY <1>3, <3>2
  <2>4. CASE Start(m)[j + 1] <= Len(b) + 1
    <3>1. /\ pos' = NextLine(b)
          /\ LET key == SubSeq(b, pos, Colon(b) - 1)
                 value == SubSeq(b, Colon(b) + 1, LineEnd(b) - 1)
             IN  Store(pc, field, Put(result[field], key, value))
      BY <2>2, <2>3, <2>4 DEF HeaderRound
    <3>2. Store(pc, field, Put(MapUpTo(m, j), <<m.headers[j + 1].key>>, Value(m, j + 1)))
      BY <1>1, <2>2, <2>4, <3>1
    <3>3. j \in Nat
      BY <1>4
    <3>4. Store(pc, field, MapUpTo(m, j + 1))
      BY <3>2, <3>3, MapGrows
    <3>. QED
      BY <2>1, <2>2, <2>4, <3>1, <3>4
  <2>5. CASE ~(Start(m)[j + 1] <= Len(b) + 1)
    <3>1. pc' = "reset" /\ UNCHANGED <<pos, result>>
      BY <2>2, <2>3, <2>5 DEF HeaderRound, Fail
    <3>2. PICK q \in Nat : q = Start(m)[j + 1] /\ q <= e
      BY <1>3, <2>1, LayoutFacts
    <3>3. ~(q <= l + 1)
      BY <1>3, <2>5, <3>2
    <3>4. ~(h <= l)
      <4>1. (h = e \/ h = e + 1) /\ q <= e
        BY <1>5, <3>2
      <4>. QED
        BY ONLY <3>3, <4>1, q \in Nat, e \in Nat, l \in Nat
    <3>. QED
      BY <1>2, <1>3, <3>1, <3>4
  <2>. QED
    BY <2>4, <2>5
<1>9. CASE pos <= Len(b) /\ ~(j < n)
  <2>1. j = n
    BY <1>4, <1>9
  <2>2. IF m.eol = <<LF>> THEN EndOfHeader(b) /\ SkipBlank(b) = 1
        ELSE /\ SkipBlank(b) = 2
             /\ EndOfHeader(b) <=> pos + 1 <= Len(b) \/ stale = LF
             /\ pos + 1 > Len(b) => ~IsField(b) /\ b[Len(b)] = CR
    BY <1>1, <1>2, <1>9, <2>1, RoundEnd
  <2>3. ~(pos > Len(b) + 1) /\ ~(pos = Len(b) + 1)
    <3>1. p <= l
      BY <1>3, <1>9
    <3>2. ~(p > l + 1) /\ ~(p = l + 1)
      BY ONLY <3>1, p \in Nat, l \in Nat
    <3>. QED
      BY <1>3, <3>2
  <2>4. result[field] = HeaderMap(m, Kept(m))
    BY <1>1, <2>1, MapFull
  <2>5. p = e /\ p <= l
    BY <1>1, <1>3, <1>9, <2>1
  <2>6. CASE m.eol = <<LF>>
    <3>1. pos' = pos + 1 /\ pc' = next /\ UNCHANGED result
      BY <1>9, <2>2, <2>3, <2>6 DEF HeaderRound
    <3>2. p + 1 \in Nat /\ p + 1 <= l + 1 /\ h <= l
      BY ONLY <1>5, <2>5, <2>6, p \in Nat, l \in Nat
    <3>. QED
      BY <1>2, <1>3, <2>4, <3>1, <3>2
  <2>7. CASE m.eol # <<LF>> /\ pos + 1 <= Len(b)
    <3>1. pos' = pos + 2 /\ pc' = next /\ UNCHANGED result
      BY <1>9, <2>2, <2>3, <2>7 DEF HeaderRound
    <3>2. p + 1 <= l
      BY <1>3, <2>7
    <3>3. p + 2 \in Nat /\ p + 2 <= l + 1 /\ h <= l
      BY ONLY <1>5, <2>5, <2>7, <3>2, p \in Nat, l \in Nat
    <3>. QED
      BY <1>2, <1>3, <2>4, <3>1, <3>3
  <2>8. CASE m.eol # <<LF>> /\ ~(pos + 1 <= Len(b))
    <3>1. ~(p + 1 <= l)
      BY <1>3, <2>8
    <3>2. p = l /\ ~(h <= l) /\ p + 2 = l + 2 /\ p + 1 > l
      BY ONLY <1>5, <2>5, <2>8, <3>1, p \in Nat, l \in Nat
    <3>3. ~IsField(b) /\ b[Len(b)] = CR /\ ~Whole(m, b)
      BY <1>2, <1>3, <2>2, <2>8, <3>2
    <3>4. CASE EndOfHeader(b)
      <4>1. pos' = pos + 2 /\ pc' = next /\ UNCHANGED result
        BY <1>9, <2>2, <2>3, <2>8, <3>4 DEF HeaderRound
      <4>2. stale = LF
        BY <2>2, <2>8, <3>4
      <4>3. pos' = Len(b) + 2
        BY <1>3, <3>2, <4>1
      <4>. QED
        BY <2>8, <3>3, <4>1, <4>2, <4>3 DEF StaleRead, Last
    <3>5. CASE ~EndOfHeader(b)
      <4>1. pc' = "reset" /\ UNCHANGED <<pos, result>>
        BY <2>3, <3>3, <3>5 DEF HeaderRound, Fail
      <4>. QED
        BY <3>3, <4>1
    <3>. QED
      BY <3>4, <3>5
  <2>. QED
    BY <2>6, <2>7, <2>8
<1>10. pos > Len(b) + 1 \/ pos = Len(b) + 1 \/ pos <= Len(b)
  <2>1. p > l + 1 \/ p = l + 1 \/ p <= l
    BY ONLY p \in Nat, l \in Nat
  <2>. QED
    BY <1>3, <2>1
<1>. QED
  BY <1>6, <1>7, <1>8, <1>9, <1>10

-----------------------------------------------------------------------------
(* The first line: its words, and what a search for the end of one finds. *)

(* From i on, the word w ends at the c at k. *)
Word(m, i, k, c, w) == FirstAt(m, i, k, c) /\ PieceAt(m, i, k - 1, w)

LEMMA WordSearch ==
    ASSUME NEW m, NEW b, Cut(m, b), NEW k, NEW c, NEW w, Word(m, pos, k, c, w)
    PROVE  IF k <= Len(b) THEN /\ ~Lacks(b, <<c>>) /\ Upto(b, <<c>>) = w
                               /\ NextTag(b, pos, <<c>>) = k
                          ELSE Lacks(b, <<c>>)
<1>1. FirstAt(m, pos, k, c) /\ PieceAt(m, pos, k - 1, w) /\ k \in Nat /\ Len(b) \in Nat
  BY DEF Word, FirstAt, Cut
<1>2. IF k <= Len(b) THEN TagsFrom(b, pos, <<c>>) # {} /\ NextTag(b, pos, <<c>>) = k
                     ELSE TagsFrom(b, pos, <<c>>) = {}
  BY ONLY Cut(m, b), <1>1, Search
<1>3. ASSUME k <= Len(b) PROVE SubSeq(b, pos, k - 1) = w
  <2>1. k - 1 <= Len(b)
    BY <1>1, <1>3
  <2>. QED
    BY ONLY Cut(m, b), <1>1, <2>1, Piece
<1>. QED
  BY <1>2, <1>3 DEF Lacks, Upto

LEMMA OneWord ==
    ASSUME NEW m, NEW i \in Nat, i >= 1, NEW c, NEW w \in Tokens, w # c,
           Text(m)[i] = w, Text(m)[i + 1] = c
    PROVE  Word(m, i, i + 1, c, <<w>>)
<1>1. i + 1 \in Nat /\ i <= i + 1 /\ i + 1 - 1 = i /\ i \in Int /\ \A x \in i .. i + 1 - 1 : x = i
  OBVIOUS
<1>2. FirstAt(m, i, i + 1, c)
  BY <1>1 DEF FirstAt
<1>3. <<w>> \in Seq(Tokens) /\ Len(<<w>>) = 1 /\ <<w>>[1] = w
  OBVIOUS
<1>4. At(Text(m), i, <<w>>)
  <2>1. \A x \in 1 .. 1 : x = 1
    OBVIOUS
  <2>2. \A x \in 1 .. 1 : Text(m)[i + x - 1] = <<w>>[x]
    BY <1>1, <1>3, <2>1
  <2>. QED
    BY <1>3, <2>2 DEF At
<1>5. PieceAt(m, i, i + 1 - 1, <<w>>)
  <2>1. i + 1 = i + Len(<<w>>)
    BY <1>3
  <2>. QED
    BY <1>1, <1>3, <1>4, <2>1 DEF PieceAt
<1>. QED
  BY <1>2, <1>5 DEF Word

LEMMA LineWords ==
    ASSUME NEW m, WellFormed(m)
    PROVE  /\ Word(m, 1, 2, SP, <<m.line[1]>>) /\ Word(m, 3, 4, SP, <<m.line[3]>>)
           /\ Len(m.line) = 5 /\ m.eol = <<LF>> => Word(m, 5, 6, LF, <<m.line[5]>>)
           /\ Len(m.line) = 5 /\ m.eol # <<LF>> => Word(m, 5, 7, LF, <<m.line[5], CR>>)
<1> DEFINE t == Text(m)
<1>1. /\ Len(m.line) \in Nat /\ Len(m.line) >= 4
      /\ \A i \in 1 .. Len(m.line) : t[i] = m.line[i] /\ m.line[i] # LF /\ m.line[i] # CR
      /\ \A i \in 1 .. Len(m.eol) : t[Len(m.line) + i] = m.eol[i]
  BY LineText
<1>2. PICK l \in Nat : l = Len(m.line)
  BY <1>1
<1>3. l >= 4 /\ \A i \in 1 .. l : t[i] = m.line[i] /\ m.line[i] # LF /\ m.line[i] \in Tokens
  <2>1. m.line \in Seq(Tokens)
    BY TextTokens
  <2>2. \A i \in 1 .. l : m.line[i] \in Tokens
    BY <1>2, <2>1
  <2>. QED
    BY <1>1, <1>2, <2>2
<1>4. m.line[1] # SP /\ m.line[2] = SP /\ m.line[3] # SP /\ m.line[4] = SP
  BY DEF WellFormed
<1>. HIDE DEF t
<1>5. 1 \in 1 .. l /\ 2 \in 1 .. l /\ 3 \in 1 .. l /\ 4 \in 1 .. l /\ (l = 5 => 5 \in 1 .. l)
  BY <1>3
<1>6. /\ t[1] = m.line[1] /\ t[2] = SP /\ t[3] = m.line[3] /\ t[4] = SP
      /\ m.line[1] \in Tokens /\ m.line[3] \in Tokens
  BY <1>3, <1>4, <1>5
<1>7. Word(m, 1, 1 + 1, SP, <<m.line[1]>>)
  <2>1. t[1 + 1] = SP
    BY <1>6
  <2>. QED
    BY <1>4, <1>6, <2>1, OneWord DEF t
<1>8. Word(m, 3, 3 + 1, SP, <<m.line[3]>>)
  <2>1. t[3 + 1] = SP
    BY <1>6
  <2>. QED
    BY <1>4, <1>6, <2>1, OneWord DEF t
<1>9. ASSUME l = 5 PROVE t[5] = m.line[5] /\ m.line[5] \in Tokens /\ m.line[5] # LF
  BY <1>3, <1>5, <1>9
<1>10. ASSUME l = 5, m.eol = <<LF>> PROVE Word(m, 5, 5 + 1, LF, <<m.line[5]>>)
  <2>1. Len(m.eol) = 1 /\ m.eol[1] = LF /\ 1 \in 1 .. 1
    BY <1>10, EolFacts
  <2>2. t[5 + 1] = LF
    BY <1>1, <1>2, <1>10, <2>1
  <2>. QED
    BY <1>9, <1>10, <2>2, OneWord DEF t
<1>11. ASSUME l = 5, m.eol # <<LF>> PROVE Word(m, 5, 7, LF, <<m.line[5], CR>>)
  <2>1. Len(m.eol) = 2 /\ m.eol[1] = CR /\ m.eol[2] = LF /\ 1 \in 1 .. 2 /\ 2 \in 1 .. 2 /\ CR # LF
    BY <1>11, EolFacts
  <2>2. t[l + 1] = CR /\ t[l + 2] = LF
    BY <1>1, <1>2, <2>1
  <2>3. t[6] = CR /\ t[7] = LF
    BY <1>11, <2>2
  <2> DEFINE w == <<m.line[5], CR>>
  <2>4. w \in Seq(Tokens) /\ Len(w) = 2 /\ w[1] = m.line[5] /\ w[2] = CR
    <3>1. CR \in Tokens
      BY DEF Tokens
    <3>. QED
      BY <1>9, <1>11, <3>1
  <2>. HIDE DEF w
  <2>5. FirstAt(m, 5, 7, LF)
    <3>1. \A x \in 5 .. 7 - 1 : x = 5 \/ x = 6
      OBVIOUS
    <3>2. \A x \in 5 .. 7 - 1 : t[x] # LF
      BY <1>9, <1>11, <2>1, <2>3, <3>1
    <3>. QED
      BY <2>3, <3>2 DEF FirstAt, t
  <2>6. PieceAt(m, 5, 7 - 1, w)
    <3>1. \A x \in 1 .. 2 : x = 1 \/ x = 2
      OBVIOUS
    <3>2. 5 + 1 - 1 = 5 /\ 5 + 2 - 1 = 6
      OBVIOUS
    <3>3. \A x \in 1 .. 2 : t[5 + x - 1] = w[x]
      BY <1>9, <1>11, <2>3, <2>4, <3>1, <3>2
    <3>4. At(t, 5, w)
      BY <2>4, <3>3 DEF At
    <3>. QED
      BY <2>4, <3>4 DEF PieceAt, t
  <2>. QED
    BY <2>5, <2>6 DEF Word, w
<1>12. 1 + 1 = 2 /\ 3 + 1 = 4 /\ 5 + 1 = 6
  OBVIOUS
<1>. QED
  BY <1>2, <1>7, <1>8, <1>10, <1>11, <1>12

(* A message of lines that end in "\n" has no CR anywhere. *)
LEMMA NoCR ==
    ASSUME NEW m, WellFormed(m), m.eol = <<LF>>, \A i \in DOMAIN m.body : m.body[i] # CR,
           NEW b, Cut(m, b), pos \in Nat, pos >= 1
    PROVE  Lacks(b, <<CR, LF>>)
<1> DEFINE S == Words \cup {COLON, LF}
<1>1. CR \notin S /\ Words \cup {COLON} \subseteq S /\ LF \in S
  BY EolFacts DEF Words
<1>2. \A x \in STRING : x # CR => x \in S
  BY DEF Words
<1>. HIDE DEF S
<1>3. m.eol \in Seq(S)
  BY <1>1
<1>4. m.body \in Seq(S)
  <2>1. m.body \in Seq(STRING)
    BY DEF WellFormed
  <2>2. DOMAIN m.body = 1 .. Len(m.body) /\ Len(m.body) \in Nat /\ m.body = [i \in 1 .. Len(m.body) |-> m.body[i]]
    BY <2>1
  <2>3. ASSUME NEW i \in 1 .. Len(m.body) PROVE m.body[i] \in S
    <3>1. m.body[i] \in STRING
      BY ONLY <2>1, i \in 1 .. Len(m.body), ElementOfSeq
    <3>2. m.body[i] # CR
      BY <2>2
    <3>. QED
      BY <1>2, <3>1, <3>2
  <2>. QED
    BY ONLY <2>1, <2>2, <2>3
<1>5. Text(m) \in Seq(S)
  BY <1>1, <1>3, <1>4, PartsIn
<1>6. Len(b) \in Nat /\ \A x \in 1 .. Len(b) : b[x] = Text(m)[x]
  BY DEF Cut
<1>7. ASSUME NEW x \in 1 .. Len(b) PROVE ~MatchAt(b, x, <<CR, LF>>)
  <2>1. Len(Text(m)) \in Nat /\ Len(b) <= Len(Text(m)) /\ \A y \in 1 .. Len(Text(m)) : Text(m)[y] \in S
    BY <1>5 DEF Cut
  <2>2. x \in 1 .. Len(Text(m))
    BY <1>6, <2>1
  <2>3. b[x] # CR
    BY <1>1, <1>6, <2>1, <2>2
  <2>. QED
    BY <1>6, <2>3, MatchTwo
<1>8. \A x \in pos .. Len(b) : x \in 1 .. Len(b)
  BY <1>6
<1>. QED
  BY <1>7, <1>8 DEF Lacks, TagsFrom

(* Where the head ends at the earliest. *)
LEMMA HeadLength ==
    ASSUME NEW m, WellFormed(m), m.eol # <<LF>>
    PROVE  /\ Start(m)[0] = Len(m.line) + 3 /\ Len(m.line) \in Nat
           /\ Len(HeadOf(m)) \in Nat /\ Len(HeadOf(m)) >= Len(m.line) + 4
<1>1. Start(m)[0] = Len(m.line) + Len(m.eol) + 1 /\ Len(m.headers) \in Nat
  BY StartLayout DEF Layout
<1>2. Len(m.line) \in Nat /\ Len(m.eol) = 2
  BY LineText, EolFacts
<1>3. 0 \in 0 .. Len(m.headers)
  BY <1>1
<1>4. Start(m)[0] \in Nat /\ Start(m)[0] <= Start(m)[Len(m.headers)]
  BY <1>3, LayoutFacts
<1>5. PICK l \in Nat, e \in Nat : l = Len(m.line) /\ e = Start(m)[Len(m.headers)]
  BY <1>2, EndText
<1>6. Start(m)[0] = l + 2 + 1 /\ Start(m)[0] <= e /\ Len(HeadOf(m)) = e + 1
  BY <1>1, <1>2, <1>4, <1>5, EndText
<1>7. l + 2 + 1 <= e
  BY <1>6
<1>8. l + 2 + 1 = l + 3 /\ e + 1 >= l + 4 /\ e + 1 \in Nat
  BY ONLY <1>7, l \in Nat, e \in Nat
<1>. QED
  BY <1>5, <1>6, <1>8

(* The note of a status line goes up to the first "\r\n". *)
LEMMA NoteSearch ==
    ASSUME NEW m, WellFormed(m), m.eol # <<LF>>, NEW b \in Buffers(m), pos = 5
    PROVE  \/ Lacks(b, <<CR, LF>>) /\ ~Whole(m, b)
           \/ /\ ~Lacks(b, <<CR, LF>>) /\ Upto(b, <<CR, LF>>) = SubSeq(m.line, 5, Len(m.line))
              /\ LET p == NextTag(b, pos, <<CR, LF>>) + 2
                 IN  \/ p = Start(m)[0] /\ p <= Len(b) + 1
                     \/ p = Len(b) + 2 /\ StaleRead(m, b)
<1> DEFINE t == Text(m)
           tag == <<CR, LF>>
           note == SubSeq(m.line, 5, Len(m.line))
<1>1. Cut(m, b) /\ (Whole(m, b) <=> Len(HeadOf(m)) <= Len(b))
  BY BufferFacts
<1>2. PICK l \in Nat, n \in Nat, h \in Nat : l = Len(m.line) /\ n = Len(b) /\ h = Len(HeadOf(m))
  BY <1>1, HeadLength DEF Cut
<1>3. Start(m)[0] = l + 3 /\ h >= l + 4
  BY <1>2, HeadLength
<1>4. l >= 4 /\ \A i \in 1 .. l : t[i] = m.line[i] /\ m.line[i] # CR
  BY <1>2, LineText
<1>5. t[l + 1] = CR /\ t[l + 2] = LF
  <2>1. Len(m.eol) = 2 /\ m.eol[1] = CR /\ m.eol[2] = LF /\ 1 \in 1 .. 2 /\ 2 \in 1 .. 2
    BY EolFacts
  <2>. QED
    BY <1>2, <2>1, LineText
<1>6. b \in Seq(Tokens) /\ \A i \in 1 .. n : b[i] = t[i]
  BY <1>1, <1>2 DEF Cut
<1>. HIDE DEF t, tag
<1>7. \A x \in 5 .. l : x \in 1 .. n => ~MatchAt(b, x, tag)
  <2>1. \A x \in 5 .. l : x \in 1 .. l
    OBVIOUS
  <2>. QED
    BY <1>2, <1>4, <1>6, <2>1, MatchTwo DEF tag
<1>8. CASE n <= l
  <2>1. \A x \in 5 .. n : x \in 5 .. l /\ x \in 1 .. n
    BY ONLY <1>8, l \in Nat, n \in Nat
  <2>2. TagsFrom(b, 5, tag) = {}
    BY <1>2, <1>7, <2>1 DEF TagsFrom
  <2>3. ~(h <= n)
    BY ONLY <1>3, <1>8, l \in Nat, n \in Nat, h \in Nat
  <2>. QED
    BY <1>1, <1>2, <2>2, <2>3 DEF Lacks, tag
<1>9. CASE n > l
  <2>1. l + 1 \in 1 .. n /\ l + 1 \in 5 .. n /\ l + 1 - 1 = l /\ \A x \in 5 .. l : x \in 1 .. n
    BY ONLY <1>4, <1>9, l \in Nat, n \in Nat
  <2>2. MatchAt(b, l + 1, tag) <=> LF = IF l + 1 + 1 <= n THEN b[l + 1 + 1] ELSE stale
    <3>1. b[l + 1] = CR
      BY <1>5, <1>6, <2>1
    <3>. QED
      BY <1>2, <2>1, <3>1, MatchTwo DEF tag
  <2>3. l + 1 + 1 <= n => b[l + 1 + 1] = LF
    <3>1. l + 1 + 1 <= n => l + 2 \in 1 .. n /\ l + 1 + 1 = l + 2
      BY ONLY l \in Nat, n \in Nat
    <3>. QED
      BY <1>5, <1>6, <3>1
  <2>4. CASE MatchAt(b, l + 1, tag)
    <3>1. \A x \in 5 .. l + 1 - 1 : ~MatchAt(b, x, tag)
      BY <1>7, <2>1
    <3>2. TagsFrom(b, 5, tag) # {} /\ NextTag(b, 5, tag) = l + 1
      BY <1>2, <2>1, <2>4, <3>1, Found
    <3>3. PieceAt(m, 5, l, note)
      <4>1. m.line \in Seq(Tokens) /\ \A i \in 1 .. l : m.line[i] \in Tokens
        BY <1>2, TextTokens
      <4>2. 5 \in Int /\ l \in Int /\ \A i \in 5 .. l : i \in 1 .. l
        BY ONLY l \in Nat
      <4>3. \A i \in 5 .. l : m.line[i] \in Tokens
        BY <4>1, <4>2
      <4>4. /\ note \in Seq(Tokens) /\ Len(note) = IF 5 <= l THEN l - 5 + 1 ELSE 0
            /\ \A i \in 1 .. l - 5 + 1 : note[i] = m.line[5 + i - 1]
        BY ONLY <1>2, <4>2, <4>3, SubSeqProperties
      <4>. HIDE DEF note
      <4>5. PICK k \in Nat : k = Len(note)
        BY <4>4
      <4>6. l + 1 = 5 + k /\ k = l - 5 + 1
        <5>1. k = IF 5 <= l THEN l - 5 + 1 ELSE 0
          BY <4>4, <4>5
        <5>. QED
          BY ONLY <1>4, <5>1, l \in Nat, k \in Nat
      <4>7. \A i \in 1 .. k : 5 + i - 1 \in 1 .. l
        BY ONLY <4>6, l \in Nat, k \in Nat
      <4>8. \A i \in 1 .. k : t[5 + i - 1] = note[i]
        BY <1>4, <4>4, <4>6, <4>7
      <4>. QED
        BY <4>4, <4>5, <4>6, <4>8 DEF PieceAt, At, t
    <3>4. SubSeq(b, 5, l) = note
      <4>1. l <= Len(b)
        BY <1>2, <1>9
      <4>. QED
        BY ONLY <1>1, <3>3, <4>1, Piece
    <3>5. ~Lacks(b, tag) /\ Upto(b, tag) = note /\ NextTag(b, pos, tag) + 2 = l + 1 + 2
      <4> DEFINE k == NextTag(b, pos, tag)
      <4>1. TagsFrom(b, pos, tag) # {} /\ k = l + 1
        BY <3>2
      <4>. HIDE DEF note, k
      <4>2. k - 1 = l /\ k + 2 = l + 1 + 2
        BY <4>1
      <4>3. SubSeq(b, pos, k - 1) = note
        BY <3>4, <4>2
      <4>. QED
        BY <4>1, <4>2, <4>3 DEF Lacks, Upto, k
    <3>6. CASE l + 1 + 1 <= n
      <4>1. l + 1 + 2 = l + 3 /\ l + 1 + 2 <= n + 1
        BY ONLY <3>6, l \in Nat, n \in Nat
      <4>. QED
        BY <1>2, <1>3, <3>5, <4>1 DEF tag
    <3>7. CASE ~(l + 1 + 1 <= n)
      <4>1. l + 1 = n /\ l + 1 + 2 = n + 2 /\ ~(h <= n)
        BY ONLY <1>3, <1>9, <3>7, l \in Nat, n \in Nat, h \in Nat
      <4>2. stale = LF /\ b[n] = CR
        BY <1>5, <1>6, <2>1, <2>2, <2>4, <3>7, <4>1
      <4>3. StaleRead(m, b)
        BY <1>1, <1>2, <4>1, <4>2 DEF StaleRead, Last
      <4>. QED
        BY <1>2, <3>5, <4>1, <4>3 DEF tag
    <3>. QED
      BY <3>6, <3>7
  <2>5. CASE ~MatchAt(b, l + 1, tag)
    <3>1. \A x \in 5 .. n : x \in 5 .. l \/ x = l + 1
      <4>1. ~(l + 1 + 1 <= n)
        BY <2>2, <2>3, <2>5
      <4>. QED
        BY ONLY <4>1, l \in Nat, n \in Nat
    <3>2. TagsFrom(b, 5, tag) = {}
      BY <1>2, <1>7, <2>1, <2>5, <3>1 DEF TagsFrom
    <3>3. ~(h <= n)
      <4>1. ~(l + 1 + 1 <= n)
        BY <2>2, <2>3, <2>5
      <4>. QED
        BY ONLY <1>3, <4>1, l \in Nat, n \in Nat, h \in Nat
    <3>. QED
      BY <1>1, <1>2, <3>2, <3>3 DEF Lacks, tag
  <2>. QED
    BY <2>4, <2>5
<1>10. n <= l \/ n > l
  BY ONLY l \in Nat, n \in Nat
<1>. QED
  BY <1>8, <1>9, <1>10

-----------------------------------------------------------------------------
(* The inductive invariant: what is read at each step of the parser, where *)
(* it stands, and that an exchange worth sending is never dropped.         *)

FieldNames == {"method", "url", "version", "code", "note", "reqHeader", "rspHeader"}

MethodRead == request.line[1] \in Methods => result.method = request.line[1]
UrlRead == result.url = <<request.line[3]>>
VersionRead == result.version = <<request.line[5]>>
RequestLineRead == MethodRead /\ UrlRead /\ VersionRead
RequestRead ==
    /\ request.eol = <<LF>> /\ Whole(request, reqBuf)
    /\ RequestLineRead /\ result.reqHeader = HeaderMap(request, Kept(request))

(* A request of at most ten bytes is skipped. *)
RequestPart == Bytes(reqBuf) > 10 => RequestRead

CodeRead == result.code = <<response.line[3]>>
NoteRead == result.note = SubSeq(response.line, 5, Len(response.line))
ResponseRead ==
    /\ response.eol # <<LF>> /\ Whole(response, rspBuf) /\ CodeRead /\ NoteRead
    /\ result.rspHeader = HeaderMap(response, Kept(response))
ResponsePart == Bytes(rspBuf) > 10 => ResponseRead \/ StaleRead(response, rspBuf)

NoHeaders == result.reqHeader = << >> /\ result.rspHeader = << >>

AtStart == pos = 1 /\ NoHeaders
AtUrl == pos = 3 /\ pos <= Len(reqBuf) + 1 /\ NoHeaders /\ MethodRead
AtVersion == pos = 5 /\ pos <= Len(reqBuf) + 1 /\ NoHeaders /\ MethodRead /\ UrlRead
AtReqHeader ==
    /\ request.eol = <<LF>> /\ RequestLineRead /\ result.rspHeader = << >>
    /\ AtHeader(request, reqBuf, "reqHeader")
AtRspBegin == pos \in Nat /\ pos <= Len(reqBuf) + 1 /\ RequestRead /\ result.rspHeader = << >>
AtRsp(p) == pos = p /\ pos <= Len(rspBuf) + 1 /\ RequestPart /\ result.rspHeader = << >>
AtRspHeader ==
    /\ response.eol # <<LF>> /\ RequestPart /\ CodeRead /\ NoteRead
    /\ \/ AtHeader(response, rspBuf, "rspHeader")
       \/ pos = Len(rspBuf) + 2 /\ StaleRead(response, rspBuf)
AtSent ==
    /\ RequestPart /\ ResponsePart
    /\ pos \in Nat /\ (pos <= Len(rspBuf) + 1 \/ StaleEnd)

Inputs ==
    /\ request \in Requests /\ reqBuf \in Buffers(request)
    /\ response \in Responses /\ rspBuf \in Buffers(response)

Sendable == Answerable /\ request.eol = <<LF>> /\ response.eol = <<CR, LF>>

Stage ==
    \/ pc = "begin" /\ AtStart
    \/ pc = "method" /\ AtStart
    \/ pc = "url" /\ AtUrl
    \/ pc = "version" /\ AtVersion
    \/ pc = "reqHeader" /\ AtReqHeader
    \/ pc = "rspBegin" /\ AtRspBegin
    \/ pc = "rspVersion" /\ AtRsp(1)
    \/ pc = "code" /\ AtRsp(3)
    \/ pc = "note" /\ AtRsp(5) /\ CodeRead
    \/ pc = "rspHeader" /\ AtRspHeader
    \/ pc = "sent" /\ AtSent
    \/ pc = "reset" /\ ~Sendable

IInv == Inputs /\ DOMAIN result = FieldNames /\ Stage

LEMMA StoreFacts ==
    ASSUME NEW step, NEW f \in FieldNames, NEW v, DOMAIN result = FieldNames, Store(step, f, v)
    PROVE  /\ pc' = step /\ DOMAIN result' = FieldNames /\ result'[f] = v
           /\ \A g \in FieldNames : g # f => result'[g] = result[g]
  BY DEF Store

(* A whole head is longer than its first line. *)
LEMMA LongEnough ==
    ASSUME NEW m, WellFormed(m), NEW b \in Buffers(m)
    PROVE  /\ Len(b) \in Nat /\ Len(b) >= 1 /\ Len(m.line) \in Nat
           /\ Whole(m, b) => Len(b) >= Len(m.line) + 2
<1>1. Cut(m, b) /\ (Whole(m, b) <=> Len(HeadOf(m)) <= Len(b)) /\ Len(b) \in Nat /\ Len(b) >= 1
  BY BufferFacts DEF Cut
<1>2. Len(m.line) \in Nat
  BY LineText
<1>3. PICK l \in Nat, n \in Nat : l = Len(m.line) /\ n = Len(b)
  BY <1>1, <1>2
<1>4. Len(HeadOf(m)) \in Nat /\ Len(HeadOf(m)) >= l + 2
  <2>1. CASE m.eol = <<LF>>
    <3>1. Start(m)[0] = Len(m.line) + Len(m.eol) + 1 /\ Len(m.headers) \in Nat /\ Len(m.eol) = 1
      BY <2>1, StartLayout, EolFacts DEF Layout
    <3>2. 0 \in 0 .. Len(m.headers)
      BY <3>1
    <3>3. Start(m)[0] <= Start(m)[Len(m.headers)]
      BY <3>2, LayoutFacts
    <3>4. PICK e \in Nat : e = Start(m)[Len(m.headers)] /\ Len(HeadOf(m)) = e
      BY <2>1, EndText
    <3>5. l + 1 + 1 <= e
      BY <1>3, <3>1, <3>3, <3>4
    <3>6. e >= l + 2
      BY ONLY <3>5, l \in Nat, e \in Nat
    <3>. QED
      BY <3>4, <3>6
  <2>2. CASE m.eol # <<LF>>
    <3>1. PICK h \in Nat : h = Len(HeadOf(m)) /\ h >= l + 4
      BY <1>3, <2>2, HeadLength
    <3>2. h >= l + 2
      BY ONLY <3>1, l \in Nat, h \in Nat
    <3>. QED
      BY <3>1, <3>2
  <2>. QED
    BY <2>1, <2>2
<1>5. PICK h \in Nat : h = Len(HeadOf(m)) /\ h >= l + 2
  BY <1>4
<1>6. h <= n => n >= l + 2
  BY ONLY <1>5, l \in Nat, n \in Nat, h \in Nat
<1>. QED
  BY <1>1, <1>2, <1>3, <1>5, <1>6

(* What the inputs are, and that a whole message is never skipped. *)
LEMMA InputFacts ==
    ASSUME Inputs
    PROVE  /\ WellFormed(request) /\ Len(request.line) = 5 /\ request.line[5] \in Versions
           /\ reqBuf \in Buffers(request) /\ Cut(request, reqBuf)
           /\ Len(reqBuf) \in Nat /\ Len(reqBuf) >= 1
           /\ Whole(request, reqBuf) => Bytes(reqBuf) > 10 /\ Len(reqBuf) >= 7
           /\ WellFormed(response) /\ rspBuf \in Buffers(response) /\ Cut(response, rspBuf)
           /\ Len(rspBuf) \in Nat /\ Len(rspBuf) >= 1
           /\ Whole(response, rspBuf) => Bytes(rspBuf) > 10 /\ Len(rspBuf) >= 6
           /\ response.eol = <<LF>> => \A i \in DOMAIN response.body : response.body[i] # CR
<1>1. request \in Requests /\ reqBuf \in Buffers(request) /\ response \in Responses /\ rspBuf \in Buffers(response)
  BY DEF Inputs
<1>2. WellFormed(request) /\ WellFormed(response) /\ Len(request.line) = 5 /\ request.line[5] \in Versions
  BY <1>1, MessagesAssumption
<1>3. /\ Whole(request, reqBuf) => Bytes(reqBuf) > 10
      /\ Whole(response, rspBuf) => Bytes(rspBuf) > 10
  BY <1>1, MessagesAssumption DEF Whole
<1>4. Cut(request, reqBuf) /\ Cut(response, rspBuf)
  BY <1>1, <1>2, BufferFacts
<1>5. /\ Len(reqBuf) \in Nat /\ Len(reqBuf) >= 1 /\ Len(rspBuf) \in Nat /\ Len(rspBuf) >= 1
      /\ Whole(request, reqBuf) => Len(reqBuf) >= Len(request.line) + 2
      /\ Whole(response, rspBuf) => Len(rspBuf) >= Len(response.line) + 2
      /\ Len(response.line) \in Nat
  BY <1>1, <1>2, LongEnough
<1>6. Whole(request, reqBuf) => Len(reqBuf) >= 7
  BY <1>2, <1>5
<1>7. Whole(response, rspBuf) => Len(rspBuf) >= 6
  <2>1. PICK l \in Nat, n \in Nat : l = Len(response.line) /\ n = Len(rspBuf)
    BY <1>5
  <2>2. l >= 4
    BY <1>2, <2>1, LineText
  <2>3. n >= l + 2 => n >= 6
    BY ONLY <2>2, l \in Nat, n \in Nat
  <2>. QED
    BY <1>5, <2>1, <2>3
<1>8. response.eol = <<LF>> => \A i \in DOMAIN response.body : response.body[i] # CR
  BY <1>1, MessagesAssumption
<1>. QED
  BY <1>1, <1>2, <1>3, <1>4, <1>5, <1>6, <1>7, <1>8

LEMMA InputsStay ==
    ASSUME Inputs, UNCHANGED inputs
    PROVE  /\ Inputs' /\ (Sendable' <=> Sendable)
           /\ request' = request /\ reqBuf' = reqBuf /\ response' = response /\ rspBuf' = rspBuf /\ stale' = stale
<1>1. request' = request /\ reqBuf' = reqBuf /\ response' = response /\ rspBuf' = rspBuf /\ stale' = stale
  BY DEF inputs
<1>. QED
  BY <1>1 DEF Inputs, Sendable, Answerable

-----------------------------------------------------------------------------
(* The invariant holds at first, and every action keeps it. *)

LEMMA InitIInv == Init => IInv
<1>. SUFFICES ASSUME Init PROVE IInv
  OBVIOUS
<1>1. Inputs
  BY DEF Init, Inputs
<1>2. DOMAIN result = FieldNames /\ result.reqHeader = << >> /\ result.rspHeader = << >>
  BY DEF Init, EmptyResult, FieldNames
<1>3. pc = "begin" /\ AtStart
  BY <1>2 DEF Init, AtStart, NoHeaders
<1>. QED
  BY <1>1, <1>2, <1>3 DEF IInv, Stage

(* ToResponse, with what was read of the request. *)
LEMMA ToResponseKeeps ==
    ASSUME Inputs, UNCHANGED inputs, ToResponse, UNCHANGED result, RequestPart, result.rspHeader = << >>
    PROVE  Stage'
<1>1. /\ request' = request /\ reqBuf' = reqBuf /\ response' = response /\ rspBuf' = rspBuf
      /\ pos' = 1 /\ result' = result
  BY InputsStay DEF ToResponse
<1>2. RequestPart'
  BY <1>1 DEF RequestPart, RequestRead, RequestLineRead, MethodRead, UrlRead, VersionRead
<1>3. Len(rspBuf) \in Nat /\ 1 <= Len(rspBuf) + 1
  BY InputFacts
<1>4. CASE Bytes(rspBuf) > 10
  <2>1. pc' = "rspVersion"
    BY <1>4 DEF ToResponse
  <2>2. AtRsp(1)'
    BY <1>1, <1>2, <1>3 DEF AtRsp
  <2>. QED
    BY <2>1, <2>2 DEF Stage
<1>5. CASE ~(Bytes(rspBuf) > 10)
  <2>1. pc' = "sent"
    BY <1>5 DEF ToResponse
  <2>2. AtSent'
    BY <1>1, <1>2, <1>3, <1>5 DEF AtSent, ResponsePart
  <2>. QED
    BY <2>1, <2>2 DEF Stage
<1>. QED
  BY <1>4, <1>5

LEMMA BeginKeeps ==
    ASSUME IInv, Begin
    PROVE  IInv'
<1>1. Inputs /\ DOMAIN result = FieldNames /\ pc = "begin" /\ UNCHANGED inputs /\ result' = result
  BY DEF IInv, Begin
<1>2. AtStart
  BY <1>1 DEF IInv, Stage
<1>3. Inputs' /\ DOMAIN result' = FieldNames
  BY <1>1, InputsStay
<1>4. CASE Bytes(reqBuf) > 10
  <2>1. pc' = "method" /\ pos' = pos
    BY <1>4 DEF Begin
  <2>2. AtStart'
    BY <1>1, <1>2, <2>1 DEF AtStart, NoHeaders
  <2>. QED
    BY <1>3, <2>1, <2>2 DEF IInv, Stage
<1>5. CASE ~(Bytes(reqBuf) > 10)
  <2>1. ToResponse /\ RequestPart /\ result.rspHeader = << >>
    BY <1>2, <1>5 DEF Begin, RequestPart, AtStart, NoHeaders
  <2>2. Stage'
    BY <1>1, <2>1, ToResponseKeeps
  <2>. QED
    BY <1>3, <2>2 DEF IInv
<1>. QED
  BY <1>4, <1>5

LEMMA RequestDoneKeeps ==
    ASSUME IInv, RequestDone
    PROVE  IInv'
<1>1. /\ Inputs /\ DOMAIN result = FieldNames /\ pc = "rspBegin" /\ UNCHANGED inputs /\ result' = result
      /\ ToResponse
  BY DEF IInv, RequestDone
<1>2. AtRspBegin
  BY <1>1 DEF IInv, Stage
<1>3. RequestPart /\ result.rspHeader = << >>
  BY <1>2 DEF AtRspBegin, RequestPart
<1>4. Stage'
  BY <1>1, <1>3, ToResponseKeeps
<1>. QED
  BY <1>1, <1>4, InputsStay DEF IInv

(* A failed search, in an exchange that need not be sent. *)
LEMMA FailKeeps ==
    ASSUME IInv, UNCHANGED <<inputs, pos, result>>, pc' = "reset", ~Sendable
    PROVE  IInv'
<1>1. Inputs' /\ ~Sendable' /\ DOMAIN result' = FieldNames
  BY InputsStay DEF IInv
<1>. QED
  BY <1>1 DEF IInv, Stage

LEMMA ParseMethodKeeps ==
    ASSUME IInv, ParseMethod
    PROVE  IInv'
<1>1. Inputs /\ DOMAIN result = FieldNames /\ pc = "method" /\ UNCHANGED inputs
  BY DEF IInv, ParseMethod
<1>2. AtStart
  BY <1>1 DEF IInv, Stage
<1> DEFINE b == reqBuf
           w == <<request.line[1]>>
<1>3. Len(b) \in Nat /\ (Whole(request, b) => Len(b) >= 7)
  BY <1>1, InputFacts
<1>4. IF 2 <= Len(b) THEN ~Lacks(b, <<SP>>) /\ Upto(b, <<SP>>) = w /\ NextTag(b, pos, <<SP>>) = 2
                     ELSE Lacks(b, <<SP>>)
  <2>1. Cut(request, b) /\ WellFormed(request)
    BY <1>1, InputFacts
  <2>2. Word(request, pos, 2, SP, w)
    BY <1>2, <2>1, LineWords DEF AtStart
  <2>. QED
    BY ONLY <2>1, <2>2, WordSearch
<1>5. CASE ~(2 <= Len(b))
  <2>1. ~Sendable
    BY <1>3, <1>5 DEF Sendable, Answerable
  <2>2. pc' = "reset" /\ UNCHANGED <<pos, result>>
    BY <1>4, <1>5 DEF ParseMethod, Fail
  <2>. QED
    BY <1>1, <2>1, <2>2, FailKeeps
<1>6. CASE 2 <= Len(b)
  <2>1. PICK x \in GetMethod(w) : Store("url", "method", x) /\ pos' = 2 + Len(<<SP>>)
    BY <1>4, <1>6 DEF ParseMethod, Skip
  <2>2. request.line[1] \in Methods => x = request.line[1]
    <3>1. Len(w) = 1 /\ w[1] = request.line[1]
      OBVIOUS
    <3>. QED
      BY <2>1, <3>1 DEF GetMethod
  <2>3. /\ pc' = "url" /\ DOMAIN result' = FieldNames /\ result'.method = x
        /\ result'.reqHeader = result.reqHeader /\ result'.rspHeader = result.rspHeader
    <3>1. "method" \in FieldNames /\ "reqHeader" \in FieldNames /\ "rspHeader" \in FieldNames
      BY DEF FieldNames
    <3>. QED
      BY <1>1, <2>1, <3>1, StoreFacts
  <2>4. pos' = 3 /\ 3 <= Len(b) + 1 /\ reqBuf' = reqBuf /\ request' = request
    <3>1. Len(<<SP>>) = 1
      OBVIOUS
    <3>. QED
      BY <1>1, <1>3, <1>6, <2>1, <3>1, InputsStay
  <2>5. AtUrl'
    BY <1>2, <2>2, <2>3, <2>4 DEF AtUrl, AtStart, NoHeaders, MethodRead
  <2>. QED
    BY <1>1, <2>3, <2>5, InputsStay DEF IInv, Stage
<1>. QED
  BY <1>5, <1>6

LEMMA ParseUrlKeeps ==
    ASSUME IInv, ParseUrl
    PROVE  IInv'
<1>1. Inputs /\ DOMAIN result = FieldNames /\ pc = "url" /\ UNCHANGED inputs
  BY DEF IInv, ParseUrl
<1>2. AtUrl
  BY <1>1 DEF IInv, Stage
<1> DEFINE b == reqBuf
           w == <<request.line[3]>>
<1>3. Len(b) \in Nat /\ (Whole(request, b) => Len(b) >= 7)
  BY <1>1, InputFacts
<1>4. IF 4 <= Len(b) THEN ~Lacks(b, <<SP>>) /\ Upto(b, <<SP>>) = w /\ NextTag(b, pos, <<SP>>) = 4
                     ELSE Lacks(b, <<SP>>)
  <2>1. Cut(request, b) /\ WellFormed(request)
    BY <1>1, InputFacts
  <2>2. Word(request, pos, 4, SP, w)
    BY <1>2, <2>1, LineWords DEF AtUrl
  <2>. QED
    BY ONLY <2>1, <2>2, WordSearch
<1>5. CASE ~(4 <= Len(b))
  <2>1. ~Sendable
    BY <1>3, <1>5 DEF Sendable, Answerable
  <2>2. pc' = "reset" /\ UNCHANGED <<pos, result>>
    BY <1>4, <1>5 DEF ParseUrl, Fail
  <2>. QED
    BY <1>1, <2>1, <2>2, FailKeeps
<1>6. CASE 4 <= Len(b)
  <2>1. Store("version", "url", w) /\ pos' = 4 + Len(<<SP>>)
    BY <1>4, <1>6 DEF ParseUrl, Skip
  <2>2. /\ pc' = "version" /\ DOMAIN result' = FieldNames /\ result'.url = w
        /\ result'.method = result.method
        /\ result'.reqHeader = result.reqHeader /\ result'.rspHeader = result.rspHeader
    <3>1. "method" \in FieldNames /\ "url" \in FieldNames /\ "reqHeader" \in FieldNames /\ "rspHeader" \in FieldNames
      BY DEF FieldNames
    <3>. QED
      BY <1>1, <2>1, <3>1, StoreFacts
  <2>3. pos' = 5 /\ 5 <= Len(b) + 1 /\ reqBuf' = reqBuf /\ request' = request
    <3>1. Len(<<SP>>) = 1
      OBVIOUS
    <3>. QED
      BY <1>1, <1>3, <1>6, <2>1, <3>1, InputsStay
  <2>4. AtVersion'
    BY <1>2, <2>2, <2>3 DEF AtUrl, AtVersion, NoHeaders, MethodRead, UrlRead
  <2>. QED
    BY <1>1, <2>2, <2>4, InputsStay DEF IInv, Stage
<1>. QED
  BY <1>5, <1>6

LEMMA ParseVersionKeeps ==
    ASSUME IInv, ParseVersion
    PROVE  IInv'
<1>1. Inputs /\ DOMAIN result = FieldNames /\ pc = "version" /\ UNCHANGED inputs
  BY DEF IInv, ParseVersion
<1>2. AtVersion
  BY <1>1 DEF IInv, Stage
<1> DEFINE b == reqBuf
           w == <<request.line[5]>>
<1>3. /\ Len(b) \in Nat /\ (Whole(request, b) => Len(b) >= 7)
      /\ Cut(request, b) /\ WellFormed(request) /\ Len(request.line) = 5 /\ request.line[5] \in Versions
  BY <1>1, InputFacts
<1>4. ASSUME pc' = "reset" /\ UNCHANGED <<pos, result>>, ~Sendable PROVE IInv'
  BY <1>1, <1>4, FailKeeps
<1>5. CASE request.eol # <<LF>>
  <2>1. ~Sendable
    BY <1>5 DEF Sendable
  <2>2. Word(request, pos, 7, LF, <<request.line[5], CR>>)
    BY <1>2, <1>3, <1>5, LineWords DEF AtVersion
  <2>3. Lacks(b, <<LF>>) \/ Upto(b, <<LF>>) = <<request.line[5], CR>>
    BY <1>3, <2>2, WordSearch
  <2>4. ~IsVersion(<<request.line[5], CR>>)
    BY DEF IsVersion
  <2>5. Lacks(b, <<LF>>) \/ ~IsVersion(Upto(b, <<LF>>))
    BY <2>3, <2>4
  <2>6. pc' = "reset" /\ UNCHANGED <<pos, result>>
    BY <2>5 DEF ParseVersion, Fail
  <2>. QED
    BY <1>4, <2>1, <2>6
<1>6. CASE request.eol = <<LF>>
  <2>1. Word(request, pos, 6, LF, w)
    BY <1>2, <1>3, <1>6, LineWords DEF AtVersion
  <2>2. IF 6 <= Len(b) THEN ~Lacks(b, <<LF>>) /\ Upto(b, <<LF>>) = w /\ NextTag(b, pos, <<LF>>) = 6
                       ELSE Lacks(b, <<LF>>)
    BY ONLY <1>3, <2>1, WordSearch
  <2>3. CASE ~(6 <= Len(b))
    <3>1. ~Sendable
      BY <1>3, <2>3 DEF Sendable, Answerable
    <3>2. pc' = "reset" /\ UNCHANGED <<pos, result>>
      BY <2>2, <2>3 DEF ParseVersion, Fail
    <3>. QED
      BY <1>4, <3>1, <3>2
  <2>4. CASE 6 <= Len(b)
    <3>1. IsVersion(w)
      BY <1>3 DEF IsVersion
    <3>2. Store("reqHeader", "version", w) /\ pos' = 6 + Len(<<LF>>)
      BY <2>2, <2>4, <3>1 DEF ParseVersion, Skip
    <3>3. /\ pc' = "reqHeader" /\ DOMAIN result' = FieldNames /\ result'.version = w
          /\ result'.method = result.method /\ result'.url = result.url
          /\ result'.reqHeader = result.reqHeader /\ result'.rspHeader = result.rspHeader
          /\ result'["reqHeader"] = result["reqHeader"]
      <4>1. /\ "method" \in FieldNames /\ "url" \in FieldNames /\ "version" \in FieldNames
            /\ "reqHeader" \in FieldNames /\ "rspHeader" \in FieldNames
        BY DEF FieldNames
      <4>. HIDE DEF w
      <4>2. /\ pc' = "reqHeader" /\ DOMAIN result' = FieldNames /\ result'["version"] = w
            /\ \A g \in FieldNames : g # "version" => result'[g] = result[g]
        BY <1>1, <3>2, <4>1, StoreFacts
      <4>3. result'.method = result.method /\ result'.url = result.url
        BY <4>1, <4>2
      <4>4. result'.reqHeader = result.reqHeader /\ result'.rspHeader = result.rspHeader
        BY <4>1, <4>2
      <4>. QED
        BY <4>2, <4>3, <4>4
    <3>4. pos' = 7 /\ 7 <= Len(b) + 1 /\ reqBuf' = reqBuf /\ request' = request
      <4>1. Len(<<LF>>) = 1
        OBVIOUS
      <4>. QED
        BY <1>1, <1>3, <2>4, <3>2, <4>1, InputsStay
    <3>5. Start(request)[0] = 7 /\ Len(request.headers) \in Nat
      <4>1. Start(request)[0] = Len(request.line) + Len(request.eol) + 1 /\ Len(request.headers) \in Nat
        BY <1>3, StartLayout DEF Layout
      <4>2. Len(request.eol) = 1
        BY <1>3, <1>6, EolFacts
      <4>. QED
        BY <1>3, <4>1, <4>2
    <3>6. 0 \in 0 .. Len(request.headers)
      BY <3>5
    <3>7. result'["reqHeader"] = MapUpTo(request, 0)
      BY <1>2, <3>3, MapEmpty DEF AtVersion, NoHeaders
    <3>8. AtHeader(request, reqBuf, "reqHeader")'
      BY <3>4, <3>5, <3>6, <3>7 DEF AtHeader
    <3>9. AtReqHeader'
      BY <1>2, <1>6, <3>3, <3>4, <3>8
         DEF AtVersion, AtReqHeader, NoHeaders, RequestLineRead, MethodRead, UrlRead, VersionRead
    <3>. QED
      BY <1>1, <3>3, <3>9, InputsStay DEF IInv, Stage
  <2>. QED
    BY <2>3, <2>4
<1>. QED
  BY <1>5, <1>6

LEMMA ParseReqHeaderKeeps ==
    ASSUME IInv, ParseReqHeader
    PROVE  IInv'
<1>1. /\ Inputs /\ DOMAIN result = FieldNames /\ pc = "reqHeader" /\ UNCHANGED inputs
      /\ HeaderRound(reqBuf, "reqHeader", "rspBegin")
  BY DEF IInv, ParseReqHeader
<1>2. AtReqHeader
  BY <1>1 DEF IInv, Stage
<1>3. WellFormed(request) /\ reqBuf \in Buffers(request)
  BY <1>1, InputFacts
<1>4. /\ Inputs' /\ request' = request /\ reqBuf' = reqBuf
  BY <1>1, InputsStay
<1> DEFINE m == request
           b == reqBuf
<1>5. \/ pc' = "reset" /\ UNCHANGED <<pos, result>> /\ ~Whole(m, b)
      \/ \E j \in 1 .. Len(m.headers) :
            /\ Store(pc, "reqHeader", MapUpTo(m, j))
            /\ pos' = Start(m)[j] /\ pos' <= Len(b) + 1
      \/ /\ pc' = "rspBegin" /\ UNCHANGED result /\ pos' \in Nat /\ pos' <= Len(b) + 1
         /\ Whole(m, b) /\ result["reqHeader"] = HeaderMap(m, Kept(m))
      \/ m.eol # <<LF>>
  <2>1. AtHeader(m, b, "reqHeader")
    BY <1>2 DEF AtReqHeader
  <2>. QED
    BY <1>1, <1>3, <2>1, HeaderStep
<1>6. CASE pc' = "reset" /\ UNCHANGED <<pos, result>> /\ ~Whole(m, b)
  <2>1. ~Sendable
    BY <1>6 DEF Sendable, Answerable
  <2>. QED
    BY <1>1, <1>6, <2>1, FailKeeps
<1>7. ASSUME NEW j \in 1 .. Len(m.headers), Store(pc, "reqHeader", MapUpTo(m, j)),
             pos' = Start(m)[j] /\ pos' <= Len(b) + 1
      PROVE  IInv'
  <2>1. /\ pc' = "reqHeader" /\ DOMAIN result' = FieldNames /\ result'["reqHeader"] = MapUpTo(m, j)
        /\ result'.method = result.method /\ result'.url = result.url /\ result'.version = result.version
        /\ result'.rspHeader = result.rspHeader
    <3>1. /\ "method" \in FieldNames /\ "url" \in FieldNames /\ "version" \in FieldNames
          /\ "reqHeader" \in FieldNames /\ "rspHeader" \in FieldNames
      BY DEF FieldNames
    <3>. QED
      BY <1>1, <1>7, <3>1, StoreFacts
  <2>2. j \in 0 .. Len(m.headers)
    BY <1>3, StartLayout
  <2>3. AtHeader(request, reqBuf, "reqHeader")'
    BY <1>4, <1>7, <2>1, <2>2 DEF AtHeader
  <2>4. AtReqHeader'
    BY <1>2, <1>4, <2>1, <2>3 DEF AtReqHeader, RequestLineRead, MethodRead, UrlRead, VersionRead
  <2>. QED
    BY <1>4, <2>1, <2>4 DEF IInv, Stage
<1>8. CASE /\ pc' = "rspBegin" /\ UNCHANGED result /\ pos' \in Nat /\ pos' <= Len(b) + 1
           /\ Whole(m, b) /\ result["reqHeader"] = HeaderMap(m, Kept(m))
  <2>1. AtRspBegin'
    BY <1>2, <1>4, <1>8
       DEF AtReqHeader, AtRspBegin, RequestRead, RequestLineRead, MethodRead, UrlRead, VersionRead
  <2>. QED
    BY <1>1, <1>4, <1>8, <2>1 DEF IInv, Stage
<1>9. m.eol = <<LF>>
  BY <1>2 DEF AtReqHeader
<1>. QED
  BY <1>5, <1>6, <1>7, <1>8, <1>9

LEMMA ParseRspVersionKeeps ==
    ASSUME IInv, ParseRspVersion
    PROVE  IInv'
<1>1. Inputs /\ DOMAIN result = FieldNames /\ pc = "rspVersion" /\ UNCHANGED inputs
  BY DEF IInv, ParseRspVersion
<1>2. AtRsp(1)
  BY <1>1 DEF IInv, Stage
<1> DEFINE b == rspBuf
           w == <<response.line[1]>>
<1>3. /\ Len(b) \in Nat /\ (Whole(response, b) => Len(b) >= 6)
      /\ request.line[5] \in Versions /\ (Whole(request, reqBuf) => Bytes(reqBuf) > 10)
  BY <1>1, InputFacts
<1>4. IF 2 <= Len(b) THEN ~Lacks(b, <<SP>>) /\ Upto(b, <<SP>>) = w /\ NextTag(b, pos, <<SP>>) = 2
                     ELSE Lacks(b, <<SP>>)
  <2>1. Cut(response, b) /\ WellFormed(response)
    BY <1>1, InputFacts
  <2>2. Word(response, pos, 2, SP, w)
    BY <1>2, <2>1, LineWords DEF AtRsp
  <2>. QED
    BY ONLY <2>1, <2>2, WordSearch
<1>5. CASE ~(2 <= Len(b)) \/ ~IsVersion(w) \/ w # result.version
  <2>1. Lacks(b, <<SP>>) \/ ~IsVersion(Upto(b, <<SP>>)) \/ Upto(b, <<SP>>) # result.version
    BY <1>4, <1>5
  <2>2. pc' = "reset" /\ UNCHANGED <<pos, result>>
    BY <2>1 DEF ParseRspVersion, Fail
  <2>3. ASSUME Sendable PROVE FALSE
    <3>1. /\ Whole(request, reqBuf) /\ Whole(response, b) /\ request.line[5] = response.line[1]
      BY <2>3 DEF Sendable, Answerable
    <3>2. 2 <= Len(b)
      BY <1>3, <3>1
    <3>3. IsVersion(w)
      BY <1>3, <3>1 DEF IsVersion
    <3>4. result.version = <<request.line[5]>>
      BY <1>2, <1>3, <3>1 DEF AtRsp, RequestPart, RequestRead, RequestLineRead, VersionRead
    <3>. QED
      BY <1>5, <3>1, <3>2, <3>3, <3>4
  <2>. QED
    BY <1>1, <2>2, <2>3, FailKeeps
<1>6. CASE 2 <= Len(b) /\ IsVersion(w) /\ w = result.version
  <2>1. pc' = "code" /\ UNCHANGED result /\ pos' = 2 + Len(<<SP>>)
    BY <1>4, <1>6 DEF ParseRspVersion, Skip
  <2>2. Len(<<SP>>) = 1
    OBVIOUS
  <2>3. pos' = 3 /\ 3 <= Len(b) + 1
    BY <1>3, <1>6, <2>1, <2>2
  <2>4. Inputs' /\ request' = request /\ reqBuf' = reqBuf /\ rspBuf' = rspBuf
    BY <1>1, InputsStay
  <2>5. AtRsp(3)'
    BY <1>2, <2>1, <2>3, <2>4
       DEF AtRsp, RequestPart, RequestRead, RequestLineRead, MethodRead, UrlRead, VersionRead
  <2>. QED
    BY <1>1, <2>1, <2>4, <2>5 DEF IInv, Stage
<1>. QED
  BY <1>5, <1>6

(* What was read of the request stays when a field of the response is      *)
(* stored.                                                                 *)
LEMMA RequestPartStays ==
    ASSUME NEW step, NEW f \in {"code", "note", "rspHeader"}, NEW v, Inputs, UNCHANGED inputs,
           DOMAIN result = FieldNames, Store(step, f, v), RequestPart
    PROVE  RequestPart'
<1>1. f \in FieldNames
  BY DEF FieldNames
<1>2. \A g \in FieldNames : g # f => result'[g] = result[g]
  BY <1>1, StoreFacts
<1>3. result'.method = result.method /\ result'.url = result.url
  <2>1. "method" \in FieldNames /\ "url" \in FieldNames /\ "method" # f /\ "url" # f
    BY DEF FieldNames
  <2>. QED
    BY <1>2, <2>1
<1>4. result'.version = result.version /\ result'.reqHeader = result.reqHeader
  <2>1. "version" \in FieldNames /\ "reqHeader" \in FieldNames /\ "version" # f /\ "reqHeader" # f
    BY DEF FieldNames
  <2>. QED
    BY <1>2, <2>1
<1>5. request' = request /\ reqBuf' = reqBuf
  BY InputsStay
<1>. QED
  BY <1>3, <1>4, <1>5 DEF RequestPart, RequestRead, RequestLineRead, MethodRead, UrlRead, VersionRead

LEMMA ParseCodeKeeps ==
    ASSUME IInv, ParseCode
    PROVE  IInv'
<1>1. Inputs /\ DOMAIN result = FieldNames /\ pc = "code" /\ UNCHANGED inputs
  BY DEF IInv, ParseCode
<1>2. AtRsp(3)
  BY <1>1 DEF IInv, Stage
<1> DEFINE b == rspBuf
           w == <<response.line[3]>>
<1>3. Len(b) \in Nat /\ (Whole(response, b) => Len(b) >= 6)
  BY <1>1, InputFacts
<1>4. IF 4 <= Len(b) THEN ~Lacks(b, <<SP>>) /\ Upto(b, <<SP>>) = w /\ NextTag(b, pos, <<SP>>) = 4
                     ELSE Lacks(b, <<SP>>)
  <2>1. Cut(response, b) /\ WellFormed(response)
    BY <1>1, InputFacts
  <2>2. Word(response, pos, 4, SP, w)
    BY <1>2, <2>1, LineWords DEF AtRsp
  <2>. QED
    BY ONLY <2>1, <2>2, WordSearch
<1>5. CASE ~(4 <= Len(b)) \/ ~IsCode(w)
  <2>1. Lacks(b, <<SP>>) \/ ~IsCode(Upto(b, <<SP>>))
    BY <1>4, <1>5
  <2>2. pc' = "reset" /\ UNCHANGED <<pos, result>>
    BY <2>1 DEF ParseCode, Fail
  <2>3. ~Sendable
    BY <1>3, <1>5 DEF Sendable, Answerable, IsCode
  <2>. QED
    BY <1>1, <2>2, <2>3, FailKeeps
<1>6. CASE 4 <= Len(b) /\ IsCode(w)
  <2>1. Store("note", "code", w) /\ pos' = 4 + Len(<<SP>>)
    BY <1>4, <1>6 DEF ParseCode, Skip
  <2>2. Len(<<SP>>) = 1
    OBVIOUS
  <2>3. pos' = 5 /\ 5 <= Len(b) + 1
    BY <1>3, <1>6, <2>1, <2>2
  <2>4. Inputs' /\ response' = response /\ rspBuf' = rspBuf
    BY <1>1, InputsStay
  <2>5. pc' = "note" /\ DOMAIN result' = FieldNames /\ result'.code = w /\ result'.rspHeader = result.rspHeader
    <3>1. "code" \in FieldNames /\ "rspHeader" \in FieldNames
      BY DEF FieldNames
    <3>. QED
      BY <1>1, <2>1, <3>1, StoreFacts
  <2>6. RequestPart'
    BY <1>1, <1>2, <2>1, RequestPartStays DEF AtRsp
  <2>7. AtRsp(5)' /\ CodeRead'
    BY <1>2, <2>3, <2>4, <2>5, <2>6 DEF AtRsp, CodeRead
  <2>. QED
    BY <2>4, <2>5, <2>7 DEF IInv, Stage
<1>. QED
  BY <1>5, <1>6

LEMMA ParseNoteKeeps ==
    ASSUME IInv, ParseNote
    PROVE  IInv'
<1>1. Inputs /\ DOMAIN result = FieldNames /\ pc = "note" /\ UNCHANGED inputs
  BY DEF IInv, ParseNote
<1>2. AtRsp(5) /\ CodeRead
  BY <1>1 DEF IInv, Stage
<1> DEFINE m == response
           b == rspBuf
           w == SubSeq(response.line, 5, Len(response.line))
           tag == <<CR, LF>>
<1>3. /\ Len(b) \in Nat /\ WellFormed(m) /\ b \in Buffers(m) /\ Cut(m, b)
      /\ m.eol = <<LF>> => \A i \in DOMAIN m.body : m.body[i] # CR
  BY <1>1, InputFacts
<1>4. pos = 5 /\ RequestPart /\ result.rspHeader = << >>
  BY <1>2 DEF AtRsp
<1>5. CASE Lacks(b, tag) /\ ~Sendable
  <2>1. pc' = "reset" /\ UNCHANGED <<pos, result>>
    BY <1>5 DEF ParseNote, Fail
  <2>. QED
    BY <1>1, <1>5, <2>1, FailKeeps
<1>6. CASE m.eol = <<LF>>
  <2>1. Lacks(b, tag)
    <3>1. pos \in Nat /\ pos >= 1
      BY <1>4
    <3>. QED
      BY <1>3, <1>6, <3>1, NoCR
  <2>2. ~Sendable
    <3>1. <<LF>> # <<CR, LF>>
      OBVIOUS
    <3>. QED
      BY <1>6, <3>1 DEF Sendable
  <2>. QED
    BY <1>5, <2>1, <2>2
<1>7. CASE m.eol # <<LF>>
  <2>1. \/ Lacks(b, tag) /\ ~Whole(m, b)
        \/ /\ ~Lacks(b, tag) /\ Upto(b, tag) = w
           /\ LET p == NextTag(b, pos, tag) + 2
              IN  \/ p = Start(m)[0] /\ p <= Len(b) + 1
                  \/ p = Len(b) + 2 /\ StaleRead(m, b)
    BY <1>3, <1>4, <1>7, NoteSearch
  <2>2. CASE Lacks(b, tag) /\ ~Whole(m, b)
    <3>1. ~Sendable
      BY <2>2 DEF Sendable, Answerable
    <3>. QED
      BY <1>5, <2>2, <3>1
  <2>3. ASSUME ~Lacks(b, tag), Upto(b, tag) = w,
               LET p == NextTag(b, pos, tag) + 2
               IN  \/ p = Start(m)[0] /\ p <= Len(b) + 1
                   \/ p = Len(b) + 2 /\ StaleRead(m, b)
        PROVE  IInv'
    <3>1. Len(tag) = 2
      OBVIOUS
    <3>2. Store("rspHeader", "note", w) /\ pos' = NextTag(b, pos, tag) + Len(tag)
      BY <2>3 DEF ParseNote, Skip
    <3>3. \/ pos' = Start(m)[0] /\ pos' <= Len(b) + 1
          \/ pos' = Len(b) + 2 /\ StaleRead(m, b)
      BY <2>3, <3>1, <3>2
    <3>. HIDE DEF w
    <3>4. /\ pc' = "rspHeader" /\ DOMAIN result' = FieldNames /\ result'.note = w
          /\ result'.code = result.code /\ result'.rspHeader = result.rspHeader
          /\ result'["rspHeader"] = result.rspHeader
      <4>1. "code" \in FieldNames /\ "rspHeader" \in FieldNames /\ "note" \in FieldNames
        BY DEF FieldNames
      <4>. QED
        BY <1>1, <3>2, <4>1, StoreFacts
    <3>5. RequestPart'
      BY <1>1, <1>4, <3>2, RequestPartStays
    <3>6. Inputs' /\ response' = response /\ rspBuf' = rspBuf /\ stale' = stale
      BY <1>1, InputsStay
    <3>7. pos' = Start(m)[0] /\ pos' <= Len(b) + 1 => AtHeader(response, rspBuf, "rspHeader")'
      <4>1. 0 \in 0 .. Len(m.headers)
        BY <1>3, StartLayout
      <4>2. result'["rspHeader"] = MapUpTo(m, 0)
        BY <1>4, <3>4, MapEmpty
      <4>. QED
        BY <3>6, <4>1, <4>2 DEF AtHeader
    <3>8. AtRspHeader'
      BY <1>2, <1>7, <3>3, <3>4, <3>5, <3>6, <3>7 DEF AtRspHeader, CodeRead, NoteRead, StaleRead, w
    <3>. QED
      BY <3>4, <3>6, <3>8 DEF IInv, Stage
  <2>. QED
    BY <2>1, <2>2, <2>3
<1>. QED
  BY <1>6, <1>7

LEMMA ParseRspHeaderKeeps ==
    ASSUME IInv, ParseRspHeader
    PROVE  IInv'
<1>1. /\ Inputs /\ DOMAIN result = FieldNames /\ pc = "rspHeader" /\ UNCHANGED inputs
      /\ HeaderRound(rspBuf, "rspHeader", "sent")
  BY DEF IInv, ParseRspHeader
<1>2. AtRspHeader
  BY <1>1 DEF IInv, Stage
<1> DEFINE m == response
           b == rspBuf
<1>3. WellFormed(m) /\ b \in Buffers(m) /\ Len(b) \in Nat
  BY <1>1, InputFacts
<1>4. /\ Inputs' /\ request' = request /\ reqBuf' = reqBuf
      /\ response' = response /\ rspBuf' = rspBuf /\ stale' = stale
  BY <1>1, InputsStay
<1>5. CASE pc' = "reset" /\ UNCHANGED <<pos, result>> /\ ~Whole(m, b)
  <2>1. ~Sendable
    BY <1>5 DEF Sendable, Answerable
  <2>. QED
    BY <1>1, <1>5, <2>1, FailKeeps
<1>6. ASSUME UNCHANGED result PROVE (RequestPart /\ CodeRead /\ NoteRead)'
  BY <1>2, <1>4, <1>6
     DEF AtRspHeader, RequestPart, RequestRead, RequestLineRead, MethodRead, UrlRead, VersionRead,
         CodeRead, NoteRead
<1>7. ASSUME pc' = "sent", UNCHANGED result, pos' = Len(b) + 2, StaleRead(m, b)
      PROVE  IInv'
  <2>1. StaleEnd' /\ StaleRead(response, rspBuf)'
    BY <1>4, <1>7 DEF StaleEnd, StaleRead
  <2>2. pos' \in Nat
    BY <1>3, <1>7
  <2>3. AtSent'
    BY <1>6, <1>7, <2>1, <2>2 DEF AtSent, ResponsePart
  <2>. QED
    BY <1>1, <1>4, <1>7, <2>3 DEF IInv, Stage
<1>8. CASE AtHeader(m, b, "rspHeader")
  <2>1. \/ pc' = "reset" /\ UNCHANGED <<pos, result>> /\ ~Whole(m, b)
        \/ \E j \in 1 .. Len(m.headers) :
              /\ Store(pc, "rspHeader", MapUpTo(m, j))
              /\ pos' = Start(m)[j] /\ pos' <= Len(b) + 1
        \/ /\ pc' = "sent" /\ UNCHANGED result /\ pos' \in Nat /\ pos' <= Len(b) + 1
           /\ Whole(m, b) /\ result["rspHeader"] = HeaderMap(m, Kept(m))
        \/ /\ pc' = "sent" /\ UNCHANGED result /\ pos' = Len(b) + 2
           /\ m.eol # <<LF>> /\ StaleRead(m, b)
    BY <1>1, <1>3, <1>8, HeaderStep
  <2>2. ASSUME NEW j \in 1 .. Len(m.headers), Store(pc, "rspHeader", MapUpTo(m, j)),
               pos' = Start(m)[j] /\ pos' <= Len(b) + 1
        PROVE  IInv'
    <3>1. /\ pc' = "rspHeader" /\ DOMAIN result' = FieldNames /\ result'["rspHeader"] = MapUpTo(m, j)
          /\ result'.code = result.code /\ result'.note = result.note
      <4>1. "code" \in FieldNames /\ "note" \in FieldNames /\ "rspHeader" \in FieldNames
        BY DEF FieldNames
      <4>. QED
        BY <1>1, <2>2, <4>1, StoreFacts
    <3>2. RequestPart'
      BY <1>1, <1>2, <2>2, RequestPartStays DEF AtRspHeader
    <3>3. j \in 0 .. Len(m.headers)
      BY <1>3, StartLayout
    <3>4. AtHeader(response, rspBuf, "rspHeader")'
      BY <1>4, <2>2, <3>1, <3>3 DEF AtHeader
    <3>5. AtRspHeader'
      BY <1>2, <1>4, <3>1, <3>2, <3>4 DEF AtRspHeader, CodeRead, NoteRead
    <3>. QED
      BY <1>4, <3>1, <3>5 DEF IInv, Stage
  <2>3. CASE /\ pc' = "sent" /\ UNCHANGED result /\ pos' \in Nat /\ pos' <= Len(b) + 1
             /\ Whole(m, b) /\ result["rspHeader"] = HeaderMap(m, Kept(m))
    <3>1. ResponseRead'
      BY <1>2, <1>4, <1>6, <2>3 DEF AtRspHeader, ResponseRead
    <3>2. AtSent'
      BY <1>4, <1>6, <2>3, <3>1 DEF AtSent, ResponsePart
    <3>. QED
      BY <1>1, <1>4, <2>3, <3>2 DEF IInv, Stage
  <2>. QED
    BY <1>5, <1>7, <2>1, <2>2, <2>3
<1>9. CASE pos = Len(b) + 2 /\ StaleRead(m, b)
  <2>1. pos > Len(b) + 1 /\ ~(pos = Len(b) + 1) /\ ~(pos <= Len(b))
    BY <1>3, <1>9
  <2>2. pc' \in {"sent", "reset"} /\ UNCHANGED <<pos, result>>
    BY <1>1, <2>1 DEF HeaderRound
  <2>3. ~Whole(m, b)
    BY <1>9 DEF StaleRead
  <2>. QED
    BY <1>5, <1>7, <1>9, <2>2, <2>3
<1>. QED
  BY <1>2, <1>8, <1>9 DEF AtRspHeader

LEMMA NextIInv == IInv /\ [Next]_vars => IInv'
<1>. SUFFICES ASSUME IInv, [Next]_vars PROVE IInv'
  OBVIOUS
<1>1. CASE UNCHANGED vars
  <2>1. UNCHANGED <<inputs, pc, pos, result>>
    BY <1>1 DEF vars
  <2>2. Inputs' /\ (Sendable' <=> Sendable) /\ request' = request /\ reqBuf' = reqBuf
        /\ response' = response /\ rspBuf' = rspBuf /\ stale' = stale
    BY <2>1, InputsStay DEF IInv
  <2>3. /\ AtStart' = AtStart /\ AtUrl' = AtUrl /\ AtVersion' = AtVersion /\ AtReqHeader' = AtReqHeader
        /\ AtRspBegin' = AtRspBegin
    BY <2>1, <2>2
       DEF AtStart, AtUrl, AtVersion, AtReqHeader, AtRspBegin, NoHeaders, RequestRead, RequestLineRead,
           MethodRead, UrlRead, VersionRead, AtHeader
  <2>4. RequestPart' = RequestPart
    BY <2>1, <2>2 DEF RequestPart, RequestRead, RequestLineRead, MethodRead, UrlRead, VersionRead
  <2>5. /\ AtRsp(1)' = AtRsp(1) /\ AtRsp(3)' = AtRsp(3) /\ AtRsp(5)' = AtRsp(5) /\ CodeRead' = CodeRead
        /\ AtRspHeader' = AtRspHeader /\ AtSent' = AtSent
    BY <2>1, <2>2, <2>4
       DEF AtRsp, CodeRead, NoteRead, AtRspHeader, AtHeader, AtSent, StaleRead, StaleEnd, ResponsePart,
           ResponseRead
  <2>. QED
    BY <2>1, <2>2, <2>3, <2>5 DEF IInv, Stage
<1>. QED
  BY <1>1, BeginKeeps, ParseMethodKeeps, ParseUrlKeeps, ParseVersionKeeps, ParseReqHeaderKeeps,
     RequestDoneKeeps, ParseRspVersionKeeps, ParseCodeKeeps, ParseNoteKeeps, ParseRspHeaderKeeps DEF Next

LEMMA ParseIInv == Spec => []IInv
<1>1. Init => IInv
  BY InitIInv
<1>2. IInv /\ [Next]_vars => IInv'
  BY NextIInv
<1>. QED
  BY <1>1, <1>2, PTL DEF Spec

-----------------------------------------------------------------------------
(* The theorems. *)

(* The parser's position never leaves a buffer, but for the "\r\n" that a  *)
(* stale byte completes: the unsigned lengths of ParseHeader do not wrap.  *)
THEOREM HttpParseStaysInside == Spec => []StaysInside
<1>1. IInv => StaysInside
  <2>. SUFFICES ASSUME IInv PROVE StaysInside
    OBVIOUS
  <2>1. Len(reqBuf) \in Nat /\ Len(reqBuf) >= 1 /\ Len(rspBuf) \in Nat
    BY InputFacts DEF IInv
  <2>2. ASSUME pc \in {"method", "url", "version", "reqHeader", "rspBegin"} PROVE pos <= Len(reqBuf) + 1
    <3>1. \/ AtStart \/ AtUrl \/ AtVersion \/ AtReqHeader \/ AtRspBegin
      BY <2>2 DEF IInv, Stage
    <3>2. AtStart => pos <= Len(reqBuf) + 1
      BY <2>1 DEF AtStart
    <3>. QED
      BY <3>1, <3>2 DEF AtUrl, AtVersion, AtReqHeader, AtHeader, AtRspBegin
  <2>3. ASSUME pc \in {"rspVersion", "code", "note", "rspHeader", "sent"}
        PROVE  pos <= Len(rspBuf) + 1 \/ StaleEnd
    <3>1. \/ AtRsp(1) \/ AtRsp(3) \/ AtRsp(5) \/ AtRspHeader \/ AtSent
      BY <2>3 DEF IInv, Stage
    <3>. QED
      BY <3>1 DEF AtRsp, AtRspHeader, AtHeader, AtSent, StaleRead, StaleEnd
  <2>. QED
    BY <2>2, <2>3 DEF StaysInside
<1>. QED
  BY <1>1, ParseIInv, PTL

(* No record is made of a message cut off inside its head, unless it has   *)
(* ten bytes or less, which Parse does not look at: the time-outs and FINs *)
(* that flush a session too early make Parse fail.                         *)
THEOREM HttpParseNoPartialMessage == Spec => []NoPartialMessage
<1>1. IInv => NoPartialMessage
  <2>. SUFFICES ASSUME IInv, pc = "sent"
                PROVE  /\ Bytes(reqBuf) > 10 => Whole(request, reqBuf)
                       /\ Bytes(rspBuf) > 10 => Whole(response, rspBuf) \/ StaleEnd
    BY DEF NoPartialMessage
  <2>1. RequestPart /\ ResponsePart
    BY DEF IInv, Stage, AtSent
  <2>. QED
    BY <2>1 DEF RequestPart, RequestRead, ResponsePart, ResponseRead, StaleRead, StaleEnd
<1>. QED
  BY <1>1, ParseIInv, PTL

(* No search of the parser fails on a whole exchange, whatever its headers *)
(* are and wherever the buffers end behind the heads.                      *)
THEOREM HttpParseWholeExchangeSent == Spec => []WholeExchangeSent
<1>1. IInv => WholeExchangeSent
  BY DEF IInv, Stage, WholeExchangeSent, Sendable
<1>. QED
  BY <1>1, ParseIInv, PTL

(* A record of two whole heads has their methods, URLs, versions, codes,   *)
(* notes and headers: the header maps of ParseHeader's loop are those of   *)
(* the messages, the last line with a name winning.                        *)
THEOREM HttpParseFieldsFaithful == Spec => []FieldsFaithful
<1>1. IInv => FieldsFaithful
  <2>. SUFFICES ASSUME IInv, pc = "sent", Whole(request, reqBuf), Whole(response, rspBuf)
                PROVE  /\ request.line[1] \in Methods => result.method = request.line[1]
                       /\ result.url = <<request.line[3]>>
                       /\ result.version = <<request.line[5]>>
                       /\ result.reqHeader = HeaderMap(request, << >>)
                       /\ result.code = <<response.line[3]>>
                       /\ result.note = SubSeq(response.line, 5, Len(response.line))
                       /\ result.rspHeader = HeaderMap(response, <<CR>>)
    BY DEF FieldsFaithful
  <2>1. Bytes(reqBuf) > 10 /\ Bytes(rspBuf) > 10 /\ WellFormed(request) /\ WellFormed(response)
    BY InputFacts DEF IInv
  <2>2. RequestPart /\ ResponsePart
    BY DEF IInv, Stage, AtSent
  <2>3. RequestRead /\ ResponseRead
    BY <2>1, <2>2 DEF RequestPart, ResponsePart, StaleRead
  <2>4. Kept(request) = << >> /\ Kept(response) = <<CR>>
    BY <2>1, <2>3, EolFacts DEF RequestRead, ResponseRead
  <2>. QED
    BY <2>3, <2>4
       DEF RequestRead, RequestLineRead, MethodRead, UrlRead, VersionRead, ResponseRead, CodeRead, NoteRead
<1>. QED
  BY <1>1, ParseIInv, PTL
=============================================================================
