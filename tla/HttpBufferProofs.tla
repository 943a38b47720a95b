-------------------------- MODULE HttpBufferProofs --------------------------
(***************************************************************************)
(* Proofs about CBuffer for every block size, every segment and any number *)
(* of appends, failed growths and resets.                                  *)
(***************************************************************************)
EXTENDS HttpBuffer, SequenceTheorems, TLAPS

(* Reset sets _free to BUFFER_SIZE without knowing how large the block is: *)
(* that is safe only because the block never becomes smaller than the      *)
(* default, although Append may shrink it.  What len and free account for  *)
(* together never falls below BUFFER_SIZE.  The last conjunct names the    *)
(* two causes of a large block: its content, or an exchange Reset found    *)
(* small enough to keep.                                                   *)
IInv ==
    /\ TypeOK
    /\ MemorySafe
    /\ TerminatorFits
    /\ BUFFER_SIZE <= len + free
    /\ cap <= 2 * BUFFER_SIZE + 1 \/ cap <= len + 1

(* What memcpy leaves in the block: the segment where it was copied, the   *)
(* old bytes elsewhere.                                                    *)
LEMMA WriteFacts ==
    ASSUME NEW n \in Nat, NEW block \in [1 .. n -> Byte],
           NEW at \in Nat, NEW p \in Seq(Byte), at + Len(p) <= n
    PROVE  /\ Write(block, at, p) \in [1 .. n -> Byte]
           /\ \A i \in 1 .. at : Write(block, at, p)[i] = block[i]
           /\ \A i \in 1 .. Len(p) : Write(block, at, p)[at + i] = p[i]
<1>1. (DOMAIN block) \cup (at + 1 .. at + Len(p)) = 1 .. n
  OBVIOUS
<1>2. \A i \in at + 1 .. at + Len(p) : i - at \in 1 .. Len(p)
  OBVIOUS
<1>3. Write(block, at, p) \in [1 .. n -> Byte]
  BY <1>1, <1>2 DEF Write
<1>4. \A i \in 1 .. at : Write(block, at, p)[i] = block[i]
  BY <1>1 DEF Write
<1>5. \A i \in 1 .. Len(p) : Write(block, at, p)[at + i] = p[i]
  BY <1>1 DEF Write
<1>6. QED
  BY <1>3, <1>4, <1>5

LEMMA InitIInv == Init => IInv
BY BufferAssumption DEF Init, IInv, TypeOK, MemorySafe, TerminatorFits

LEMMA NextIInv == IInv /\ [Next]_vars => IInv'
<1>. SUFFICES ASSUME IInv, [Next]_vars PROVE IInv'
  OBVIOUS
<1>. USE BufferAssumption DEF IInv, TypeOK, MemorySafe, TerminatorFits
<1>0. buf \in [1 .. cap -> Byte]
  OBVIOUS
<1>1. ASSUME NEW p \in Segment, len + Len(p) <= MaxLen, AppendInPlace(p)
      PROVE  IInv'
  <2>1. p \in Seq(Byte) /\ Len(p) \in Nat
    OBVIOUS
  <2>2. len + Len(p) <= cap
    BY <1>1, <2>1 DEF AppendInPlace
  <2>3. buf' \in [1 .. cap -> Byte]
    BY <1>0, <1>1, <2>1, <2>2, WriteFacts DEF AppendInPlace
  <2>4. QED
    BY <1>1, <2>1, <2>2, <2>3 DEF AppendInPlace
<1>2. ASSUME NEW p \in Segment, len + Len(p) <= MaxLen, AppendGrow(p)
      PROVE  IInv'
  <2>1. p \in Seq(Byte) /\ Len(p) \in Nat
    OBVIOUS
  <2>2. p \o <<NUL>> \in Seq(Byte) /\ Len(p \o <<NUL>>) = Len(p) + 1
    BY <2>1
  <2>3. PICK grown \in [1 .. len + Len(p) + 1 -> Byte] :
            buf' = Write(grown, len, p \o <<NUL>>)
    BY <1>2 DEF AppendGrow, Reallocated
  <2> DEFINE n == len + Len(p) + 1
             s == p \o <<NUL>>
  <2>4. n \in Nat /\ len \in Nat /\ len + Len(s) <= n
    BY <2>1, <2>2
  <2>5. buf' \in [1 .. n -> Byte]
    <3>1. s \in Seq(Byte) /\ grown \in [1 .. n -> Byte] /\ buf' = Write(grown, len, s)
      BY <2>2, <2>3
    <3> HIDE DEF n, s
    <3>2. QED
      BY <2>4, <3>1, WriteFacts
  <2>6. DOMAIN buf' = 1 .. cap' /\ buf' \in [DOMAIN buf' -> Byte]
    BY <1>2, <2>1, <2>5 DEF AppendGrow
  <2>7. cap' = len' + 1 /\ len' = len + Len(p) /\ free' = 1 /\ len' <= MaxLen
    BY <1>2 DEF AppendGrow
  <2>8. len' \in 0 .. MaxLen /\ free' \in 0 .. BUFFER_SIZE /\ cap' \in Nat \ {0}
    BY <2>1, <2>7
  <2>9. BUFFER_SIZE <= len' + free'
    BY <1>2, <2>1, <2>7 DEF AppendGrow
  <2>10. QED
    BY <2>6, <2>7, <2>8, <2>9
<1>3. ASSUME Reset PROVE IInv'
  <2>1. CASE len > 2 * BUFFER_SIZE
    <3>1. buf' \in [1 .. BUFFER_SIZE -> Byte] /\ cap' = BUFFER_SIZE
      BY <1>3, <2>1 DEF Reset, Reallocated
    <3>2. DOMAIN buf' = 1 .. cap' /\ buf' \in [DOMAIN buf' -> Byte]
      BY <3>1
    <3>3. QED
      BY <1>3, <2>1, <3>1, <3>2 DEF Reset
  <2>2. CASE ~(len > 2 * BUFFER_SIZE)
    BY <1>3, <2>2 DEF Reset
  <2>3. QED
    BY <2>1, <2>2
<1>4. CASE UNCHANGED vars
  BY <1>4 DEF vars
<1>5. QED
  BY <1>1, <1>2, <1>3, <1>4 DEF Next, Append_, AppendFail

(* Every reachable buffer keeps its writes inside the block, has room for  *)
(* the terminator, and is well typed.                                      *)
THEOREM BufferSafe == Spec => []IInv
<1>1. IInv /\ [Next]_vars => IInv'
  BY NextIInv
<1>2. QED
  BY InitIInv, <1>1, PTL DEF Spec

(* The block is as long as cap says, and len and _free stay in range. *)
THEOREM BufferTyped == Spec => []TypeOK
<1>1. IInv => TypeOK
  BY DEF IInv
<1>2. QED
  BY BufferSafe, <1>1, PTL

(* CBuffer::Append never writes outside its block. *)
THEOREM BufferMemorySafe == Spec => [](TypeOK /\ MemorySafe)
<1>1. IInv => TypeOK /\ MemorySafe
  BY DEF IInv
<1>2. QED
  BY BufferSafe, <1>1, PTL

(* The terminator Append writes after growing always has a byte to go to.  *)
THEOREM BufferTerminatorFits == Spec => []TerminatorFits
<1>1. IInv => TerminatorFits
  BY DEF IInv
<1>2. QED
  BY BufferSafe, <1>1, PTL

(* An emptied buffer holds at most 2 * BUFFER_SIZE + 1 bytes. *)
THEOREM BufferRetainedMemoryBounded == Spec => []RetainedMemoryBounded
<1>1. IInv => RetainedMemoryBounded
  BY BufferAssumption DEF IInv, TypeOK, RetainedMemoryBounded
<1>2. QED
  BY BufferSafe, <1>1, PTL

-----------------------------------------------------------------------------
(* A block that kept its first bytes and holds the segment behind them is  *)
(* read as the old content followed by the segment.                        *)
LEMMA ContentsAppended ==
    ASSUME NEW n \in Nat, NEW block \in [1 .. n -> Byte],
           NEW m \in Nat, NEW new \in [1 .. m -> Byte],
           NEW at \in Nat, NEW p \in Seq(Byte),
           at <= n, at + Len(p) <= m,
           \A i \in 1 .. at : new[i] = block[i],
           \A i \in 1 .. Len(p) : new[at + i] = p[i]
    PROVE  [i \in 1 .. at + Len(p) |-> new[i]] = [i \in 1 .. at |-> block[i]] \o p
<1> DEFINE kept == [i \in 1 .. at |-> block[i]]
           lhs == [i \in 1 .. at + Len(p) |-> new[i]]
<1>1. /\ kept \in Seq(Byte) /\ Len(kept) = at
      /\ \A i \in 1 .. at : kept[i] = block[i]
  OBVIOUS
<1> HIDE DEF kept
<1>2. /\ kept \o p \in Seq(Byte)
      /\ Len(kept \o p) = at + Len(p)
      /\ \A i \in 1 .. at + Len(p) :
            (kept \o p)[i] = IF i <= at THEN kept[i] ELSE p[i - at]
  BY <1>1, ConcatProperties
<1>3. lhs \in Seq(Byte) /\ Len(lhs) = at + Len(p)
  OBVIOUS
<1>4. ASSUME NEW i \in 1 .. at + Len(p) PROVE lhs[i] = (kept \o p)[i]
  <2>1. CASE i <= at
    BY <1>1, <1>2, <2>1
  <2>2. CASE ~(i <= at)
    <3>1. i - at \in 1 .. Len(p) /\ at + (i - at) = i
      BY <2>2
    <3>2. new[i] = p[i - at]
      BY <3>1
    <3>3. QED
      BY <1>2, <2>2, <3>2
  <2>3. QED
    BY <2>1, <2>2
<1> HIDE DEF lhs
<1>5. lhs = kept \o p
  BY <1>2, <1>3, <1>4, SeqEqual
<1>6. QED
  BY <1>5 DEF lhs, kept

(* One step of CBuffer is one step of the log: an append that succeeds, a  *)
(* clearing, or nothing.                                                   *)
LEMMA NextLog == IInv /\ [Next]_vars => [Log!Next]_Contents
<1>. SUFFICES ASSUME IInv, [Next]_vars
              PROVE  Log!Next \/ UNCHANGED Contents
  OBVIOUS
<1>0. /\ cap \in Nat /\ len \in Nat /\ len <= cap
      /\ buf \in [1 .. cap -> Byte]
      /\ \A p \in Segment : p \in Seq(Byte)
      /\ NUL \in Byte
  BY BufferAssumption DEF IInv, TypeOK, MemorySafe, TerminatorFits
<1>1. ASSUME NEW p \in Segment, AppendInPlace(p) PROVE Contents' = Contents \o p
  <2>1. p \in Seq(Byte) /\ len + Len(p) <= cap
    BY <1>0, <1>1 DEF AppendInPlace, IInv, TypeOK, TerminatorFits
  <2>2. /\ buf' \in [1 .. cap -> Byte]
        /\ \A i \in 1 .. len : buf'[i] = buf[i]
        /\ \A i \in 1 .. Len(p) : buf'[len + i] = p[i]
    BY <1>0, <1>1, <2>1, WriteFacts DEF AppendInPlace
  <2>3. [i \in 1 .. len + Len(p) |-> buf'[i]] = [i \in 1 .. len |-> buf[i]] \o p
    BY <1>0, <2>1, <2>2, ContentsAppended
  <2>4. QED
    BY <1>1, <2>3 DEF AppendInPlace, Contents
<1>2. ASSUME NEW p \in Segment, AppendGrow(p) PROVE Contents' = Contents \o p
  <2> DEFINE n == len + Len(p) + 1
             s == p \o <<NUL>>
  <2>1. PICK grown \in [1 .. n -> Byte] :
            /\ \A i \in (1 .. n) \cap (1 .. cap) : grown[i] = buf[i]
            /\ buf' = Write(grown, len, s)
    BY <1>0, <1>2 DEF AppendGrow, Reallocated
  <2>2. p \in Seq(Byte) /\ Len(p) \in Nat
    BY <1>0
  <2>3. /\ s \in Seq(Byte) /\ Len(s) = Len(p) + 1
        /\ \A i \in 1 .. Len(p) : s[i] = p[i]
    BY <1>0, <2>2
  <2>4. n \in Nat /\ len + Len(s) <= n /\ len + Len(p) <= n
    BY <1>0, <2>2, <2>3
  <2>5. \A i \in 1 .. len : grown[i] = buf[i]
    BY <1>0, <2>1, <2>2
  <2>6. 1 .. Len(p) \subseteq 1 .. Len(s)
    BY <2>2, <2>3
  <2> HIDE DEF n, s
  <2>7. /\ buf' \in [1 .. n -> Byte]
        /\ \A i \in 1 .. len : buf'[i] = buf[i]
        /\ \A i \in 1 .. Len(p) : buf'[len + i] = p[i]
    <3>1. /\ Write(grown, len, s) \in [1 .. n -> Byte]
          /\ \A i \in 1 .. len : Write(grown, len, s)[i] = grown[i]
          /\ \A i \in 1 .. Len(s) : Write(grown, len, s)[len + i] = s[i]
      BY <1>0, <2>3, <2>4, WriteFacts
    <3>2. QED
      BY <2>1, <2>3, <2>5, <2>6, <3>1
  <2>8. [i \in 1 .. len + Len(p) |-> buf'[i]] = [i \in 1 .. len |-> buf[i]] \o p
    BY <1>0, <2>2, <2>4, <2>7, ContentsAppended
  <2>9. QED
    BY <1>2, <2>8 DEF AppendGrow, Contents
<1>3. ASSUME Reset PROVE Contents' = << >>
  BY <1>3 DEF Reset, Contents
<1>4. ASSUME UNCHANGED vars PROVE UNCHANGED Contents
  BY <1>4 DEF vars, Contents
<1>5. QED
  BY <1>1, <1>2, <1>3, <1>4 DEF Next, Append_, AppendFail, Log!Next, Log!Accept, Log!Clear

(* Whatever the block went through - growth, shrinking, failed growth, a   *)
(* kept or a trimmed block - the parser reads the segments appended since  *)
(* the last reset, whole and in order.                                     *)
THEOREM BufferImplementsLog == Spec => LogSpec
<1>1. Init => Log!Init
  BY DEF Init, Log!Init, Contents
<1>2. IInv /\ [Next]_vars => [Log!Next]_Contents
  BY NextLog
<1>3. QED
  BY <1>1, <1>2, BufferSafe, PTL DEF Spec, LogSpec, Log!Spec
=============================================================================
