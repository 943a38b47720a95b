----------------------------- MODULE HttpBuffer -----------------------------
(***************************************************************************)
(* CBuffer (Buffer.h, Buffer.cpp): the growing byte buffer every session   *)
(* keeps for each direction.  buf is the heap block; its bytes are numbered *)
(* from 1 here (offset i of the code is buf[i + 1]) and cap is the size    *)
(* the allocator last granted.  A byte written outside the block shows as  *)
(* a domain of buf larger than 1..cap.                                     *)
(*                                                                         *)
(* malloc in the constructor and the shrinking realloc in Reset are taken  *)
(* to succeed; the growing realloc of Append may fail, which Append        *)
(* handles.                                                                *)
(***************************************************************************)
EXTENDS Integers, Sequences

CONSTANTS
    Byte,          \* what one byte of the buffer may hold
    NUL,           \* the terminator Append writes after growing
    Segment,       \* the byte sequences one packet may carry
    BUFFER_SIZE,   \* default size of the block
    MaxLen         \* bound on the bytes held at once (2^32 in the code)

ASSUME BufferAssumption ==
    /\ NUL \in Byte
    /\ Segment \subseteq Seq(Byte)
    /\ BUFFER_SIZE \in Nat \ {0}
    /\ MaxLen \in Nat

VARIABLES buf, cap, len, free

vars == <<buf, cap, len, free>>

-----------------------------------------------------------------------------
(* memcpy(block + at, p, size). *)
Write(block, at, p) ==
    [i \in (DOMAIN block) \cup (at + 1 .. at + Len(p)) |->
        IF i \in at + 1 .. at + Len(p) THEN p[i - at] ELSE block[i]]

(* realloc(block, size): keeps what fits; the fresh bytes, if any, are     *)
(* whatever the heap held.                                                 *)
Reallocated(block, size) ==
    {b \in [1 .. size -> Byte] :
        \A i \in (1 .. size) \cap DOMAIN block : b[i] = block[i]}

(* The constructor: Reset allocates the block, and its memset clears       *)
(* _free = 0 bytes of it, so the block holds whatever the heap held.       *)
Init ==
    /\ cap = BUFFER_SIZE
    /\ buf \in [1 .. BUFFER_SIZE -> Byte]
    /\ len = 0
    /\ free = BUFFER_SIZE

(* Mutants (operators named M_...) are plausible bugs that take the place  *)
(* of an operator when the properties are tested.                          *)
M_InPlaceUnaccounted(p) ==           \* _free is not reduced
    /\ p # << >> /\ Len(p) < free
    /\ buf' = Write(buf, len, p) /\ len' = len + Len(p)
    /\ UNCHANGED <<cap, free>>

M_InPlaceFills(p) ==                 \* <= for <: no room for the terminator
    /\ p # << >> /\ Len(p) <= free
    /\ buf' = Write(buf, len, p) /\ len' = len + Len(p)
    /\ free' = free - Len(p)
    /\ UNCHANGED cap

(* Append returns true at once for an empty segment (UNCHANGED); here the  *)
(* segment fits: no terminator is written.                                 *)
AppendInPlace(p) ==
    /\ p # << >>
    /\ Len(p) < free
    /\ buf' = Write(buf, len, p)
    /\ len' = len + Len(p)
    /\ free' = free - Len(p)
    /\ UNCHANGED cap

M_GrowFresh(p) ==                    \* malloc in place of realloc
    /\ p # << >> /\ Len(p) >= free
    /\ cap' = len + Len(p) + 1
    /\ \E grown \in [1 .. len + Len(p) + 1 -> Byte] :
          buf' = Write(grown, len, p \o <<NUL>>)
    /\ len' = len + Len(p) /\ free' = 1

(* It does not fit: the block becomes exactly the bytes, the segment and a *)
(* terminator.  This may shrink a block an earlier exchange left large.    *)
AppendGrow(p) ==
    /\ p # << >>
    /\ Len(p) >= free
    /\ cap' = len + Len(p) + 1
    /\ \E grown \in Reallocated(buf, len + Len(p) + 1) :
          buf' = Write(grown, len, p \o <<NUL>>)
    /\ len' = len + Len(p)
    /\ free' = 1

(* The growing realloc returned NULL: Append returns false. *)
AppendFail(p) ==
    /\ p # << >>
    /\ Len(p) >= free
    /\ UNCHANGED vars

Append_(p) ==
    /\ len + Len(p) <= MaxLen
    /\ AppendInPlace(p) \/ AppendGrow(p) \/ AppendFail(p)

M_ResetNeverTrims == len' = 0 /\ free' = BUFFER_SIZE /\ UNCHANGED <<cap, buf>>

M_ResetFreesAll ==                   \* _free taken from the size of the block
    /\ len' = 0 /\ free' = cap
    /\ UNCHANGED <<cap, buf>>

(* Reset keeps a block whose content was at most twice the default. *)
Reset ==
    /\ IF len > 2 * BUFFER_SIZE
          THEN cap' = BUFFER_SIZE /\ buf' \in Reallocated(buf, BUFFER_SIZE)
          ELSE UNCHANGED <<cap, buf>>
    /\ len' = 0
    /\ free' = BUFFER_SIZE

Next == (\E p \in Segment : Append_(p)) \/ Reset

Spec == Init /\ [][Next]_vars

-----------------------------------------------------------------------------
(* Type invariant of CBuffer's fields and of the block behind them. *)
TypeOK ==
    /\ cap \in Nat \ {0}
    /\ len \in 0 .. MaxLen
    /\ free \in 0 .. BUFFER_SIZE
    /\ buf \in [DOMAIN buf -> Byte]

(* No Append ever writes outside the block the allocator granted, however  *)
(* appends, growths, failed growths and resets follow one another.         *)
MemorySafe == DOMAIN buf = 1 .. cap

(* len and _free are kept apart from the block's size, which they never    *)
(* record: together they stay inside it, and one byte is always left for   *)
(* the terminator (the strict comparison in Append, the "+ 1" of realloc). *)
TerminatorFits == len + free <= cap /\ free >= 1 /\ len < cap

(* Between exchanges a session retains at most one byte more than twice    *)
(* the default, although Reset decides from len and not from the size of   *)
(* the block.                                                              *)
RetainedMemoryBounded == len = 0 => cap <= 2 * BUFFER_SIZE + 1

(* GetBuf: the bytes handed to the parser and to the record. *)
Contents == [i \in 1 .. len |-> buf[i]]
Log == INSTANCE ByteLog WITH log <- Contents

(* CBuffer implements the byte log: what GetBuf hands to the parser is     *)
(* what was appended since the last Reset.                                 *)
LogSpec == Log!Spec
=============================================================================
