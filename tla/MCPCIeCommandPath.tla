------------------------- MODULE MCPCIeCommandPath -------------------------
(***************************************************************************)
(* Workloads for the model checker.                                        *)
(***************************************************************************)
EXTENDS PCIeCommandPath

\* Two writes around a read; the second and third command reuse tags.
MixedKind == [c \in 1 .. 3 |-> IF c = 2 THEN "READ" ELSE "WRITE"]
MixedCnt == [c \in 1 .. 3 |-> IF c = 3 THEN 1 ELSE 2]

\* Commands of one kind.
AllWrites4 == [c \in 1 .. 4 |-> "WRITE"]
AllReads4 == [c \in 1 .. 4 |-> "READ"]
OneTwoOneOne == [c \in 1 .. 4 |-> IF c = 2 THEN 2 ELSE 1]

\* Both completing threads compete for a small completion queue.
Alternating4 == [c \in 1 .. 4 |-> IF c \in {1, 3} THEN "WRITE" ELSE "READ"]
OneEach4 == [c \in 1 .. 4 |-> 1]

\* One write of more code words than the PCMDQ holds.
LongWriteKind == [c \in 1 .. 2 |-> "WRITE"]
LongWriteCnt == [c \in 1 .. 2 |-> IF c = 1 THEN 3 ELSE 1]

\* Single code words, so that tags and PCMDQ entries can be few.
ShortMixedKind == [c \in 1 .. 3 |-> IF c = 2 THEN "WRITE" ELSE "READ"]
ShortCnt == [c \in 1 .. 3 |-> 1]
=============================================================================
