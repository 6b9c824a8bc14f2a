--------------------------- MODULE TaggedCounter ---------------------------
(***************************************************************************)
(* The 64-bit word of one counter shard (src/src/tagged_counter.rs).  The  *)
(* upper 63 bits are a signed reference count, the lowest bit is a tag     *)
(* that every decrement sets and only the collector clears.  The word is   *)
(* an unbounded integer here: the source argues (line 64) that 2^62       *)
(* increments are out of reach, and every use in this project bounds the   *)
(* count by a named constant.                                              *)
(***************************************************************************)
EXTENDS Integers

\* A fresh counter: reference count 0, tag unset.
NewCounter == 0

\* self.0 >> 1, an arithmetic shift: \div rounds towards minus infinity.
RefCount(v) == v \div 2

\* self.0 & 1 != 0
Tag(v) == v % 2 = 1

\* fetch_add(2)
IncrementRefCount(v) == v + 2

\* v | 1
SetTag(v) == IF Tag(v) THEN v ELSE v + 1

\* Mutant: the decrement forgets to set the tag.
DecrementRefCount(v) == v - 2

\* The word a successful compare_exchange writes: (v | 1) - 2.
DecrementRefCountAndSetTag(v) == SetTag(v) - 2

\* Mutant: the tag is read and not cleared.
KeepTag(v) == v

\* fetch_and(!1)
ClearTag(v) == v - (v % 2)
=============================================================================
