-------------------------- MODULE RootComplexProofs --------------------------
(***************************************************************************)
(* The split of a fetch at the end of the submission queue, for every size *)
(* of the queue.                                                           *)
(***************************************************************************)
EXTENDS RootComplex, TLAPS

\* The entry i places after "first" in a ring of SqSize entries.
RingEntry(first, i) == IF first + i < SqSize THEN first + i ELSE first + i - SqSize

\* CheckNumOfSq never asks for more entries than the fetch has, nor for none,
\* and stops at the end of the queue; what is left fits before "first".
LEMMA SplitFits ==
  ASSUME NEW first \in 0 .. SqSize - 1, NEW len \in 1 .. SqSize
  PROVE  LET n == CheckNumOfSq(first, len).num
         IN n \in 1 .. len /\ first + n <= SqSize /\ len - n <= first
<1>1. CASE first + len >= SqSize
  BY <1>1, RootComplexAssumption DEF CheckNumOfSq
<1>2. CASE first + len < SqSize
  BY <1>2, RootComplexAssumption DEF CheckNumOfSq
<1>. QED
  BY <1>1, <1>2, RootComplexAssumption

\* A fetch of len entries is answered with len entries in the order of the
\* ring, whether or not it crosses the end of the queue (pcieRC's two reads
\* and their merging).
THEOREM FetchWraps ==
  ASSUME NEW first \in 0 .. SqSize - 1, NEW len \in 1 .. SqSize
  PROVE  FetchedEntries(first, len) = [i \in 1 .. len |-> RingEntry(first, i - 1)]
<1>1. ASSUME NEW i \in 1 .. len
      PROVE  FetchedEntries(first, len)[i] = RingEntry(first, i - 1)
  <2>1. CASE first + len >= SqSize
    BY <2>1, RootComplexAssumption DEF FetchedEntries, CheckNumOfSq, RingEntry
  <2>2. CASE first + len < SqSize
    BY <2>2, RootComplexAssumption DEF FetchedEntries, CheckNumOfSq, RingEntry
  <2>. QED
    BY <2>1, <2>2, RootComplexAssumption
<1>. QED
  BY <1>1 DEF FetchedEntries
==============================================================================
