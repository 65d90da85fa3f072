------------------------ MODULE PCIeCommandPathProofs ------------------------
(***************************************************************************)
(* Proofs about PCIeCommandPath, for all values of its constants: types,   *)
(* the fetch and its guards, and the submission ring.                      *)
(***************************************************************************)
EXTENDS PCIeCommandPath, TLAPS, WellFoundedInduction, SequenceTheorems, FiniteSetTheorems

(***************************************************************************)
(* Arithmetic and the choice of tags.                                      *)
(***************************************************************************)

\* The remainder of a division is an index of the ring.
LEMMA ModInRing ==
  ASSUME NEW a \in Int, NEW n \in Nat \ {0}
  PROVE  a % n \in 0 .. n - 1
  OBVIOUS

\* What is taken modulo its size is an index of the submission queue.
LEMMA SQIdxOfInt == \A a \in Int : a % SQSize \in SQIdx
BY ModInRing, SizesAssumption DEF SQIdx

\* A 16-bit count stays one when it wraps around.
LEMMA Count16OfInt ==
  /\ 0 \in Count16 /\ Count16 \subseteq Int
  /\ \A a \in Int : a % Width16 \in Count16
<1>1. Width16 \in Nat \ {0}
  BY DEF Width16
<1> QED BY <1>1, ModInRing DEF Count16

\* The index after i in a ring of n entries.
LEMMA NextInRing ==
  ASSUME NEW n \in Nat \ {0}, NEW i \in 0 .. n - 1
  PROVE  (i + 1) % n \in 0 .. n - 1
BY ModInRing

\* What fitted still fits beside less.
LEMMA RoomStays ==
  ASSUME NEW x \in Int, NEW a \in Int, NEW b \in Int, NEW n \in Int,
         b <= a, x + a <= n
  PROVE  x + b <= n
OBVIOUS

\* A nonempty sequence of at most one element.
LEMMA OneLong ==
  ASSUME NEW S, NEW s \in Seq(S), s # <<>>, Len(s) <= 1
  PROVE  Len(s) = 1 /\ Head(s) \in S /\ Tail(s) = <<>>
<1>1. Len(s) = 1
  <2>1. Len(s) \in Nat \ {0}
    BY EmptySeq
  <2> QED BY <2>1
<1>2. Head(s) \in S /\ Tail(s) \in Seq(S) /\ Len(Tail(s)) = 0
  BY <1>1, HeadTailProperties
<1> QED BY <1>1, <1>2, EmptySeq

\* Counting up one entry of a table, which may be none of the table's.
LEMMA IncrementIn ==
  ASSUME NEW D, NEW f \in [D -> Nat], NEW i
  PROVE  [f EXCEPT ![i] = @ + 1] \in [D -> Nat]
<1>1. CASE i \in D
  <2>1. f[i] + 1 \in Nat
    BY <1>1
  <2> QED BY <1>1, <2>1
<1>2. CASE i \notin D
  BY <1>2
<1> QED BY <1>1, <1>2

\* Every nonempty set of natural numbers has a least element.
LEMMA LeastExists ==
  ASSUME NEW S \in SUBSET Nat, S # {}
  PROVE  \E x \in S : \A y \in S : x <= y
<1> DEFINE R == OpToRel(<, Nat)
<1>1. IsWellFoundedOn(R, Nat)
  BY NatLessThanWellFounded
<1>2. \A x, y \in Nat : y < x => <<y, x>> \in R
  BY DEF OpToRel
<1> HIDE DEF R
<1>3. PICK x \in S : \A y \in S : ~(<<y, x>> \in R)
  BY <1>1, WFMin
<1>4. ASSUME NEW y \in S  PROVE x <= y
  <2>1. ~(y < x)
    BY <1>2, <1>3
  <2> QED BY <2>1
<1> QED BY <1>4

\* getFreeTag returns a tag, and a free one if there is any (iTagManager).
LEMMA GetFreeTagIsTag ==
  /\ getFreeTag \in Tag
  /\ FreeTags # {} => getFreeTag \in FreeTags
<1>1. FreeTags \in SUBSET Tag /\ Tag \in SUBSET Nat /\ 0 \in Tag
  BY SizesAssumption DEF FreeTags, Tag
<1>2. CASE FreeTags = {}
  BY <1>1, <1>2 DEF getFreeTag
<1>3. CASE FreeTags # {}
  <2>1. \E t \in FreeTags : \A u \in FreeTags : t <= u
    BY <1>1, <1>3, LeastExists
  <2>2. getFreeTag \in FreeTags
    BY <1>3, <2>1 DEF getFreeTag
  <2> QED BY <1>1, <2>2
<1> QED BY <1>2, <1>3
(***************************************************************************)
(* Types.  One lemma per group of variables: the actions that change the   *)
(* group, and the rest.                                                    *)
(***************************************************************************)

\* The initial values are in their types.
LEMMA InitTypeOK == Init => TypeOK
<1> SUFFICES ASSUME Init  PROVE TypeOK
  OBVIOUS
<1>0. NoCmd \in CmdOrNone /\ 0 \in SQIdx /\ 0 \in CQIdx /\ 0 \in Tag /\ 0 \in Count16
  BY SizesAssumption, Count16OfInt DEF NoCmd, CmdOrNone, SQIdx, CQIdx, Tag
<1>1. HostTypeOK
  <2>1. 0 \in 0 .. NumCmds
    BY SizesAssumption
  <2> QED BY <1>0, <2>1 DEF Init, HostInit, HostTypeOK, NoFetch
<1>2. FetchTypeOK
  BY <1>0 DEF Init, FetchTypeOK
<1>3. TLPTypeOK
  BY DEF Init, TLPInit, TLPTypeOK
<1>4. TableTypeOK
  BY <1>0 DEF Init, TableInit, TableTypeOK
<1>5. PcmdTypeOK
  BY <1>0 DEF Init, PcmdInit, PcmdTypeOK, NoJob, FreeEntry, SubState
<1>6. DoneTypeOK
  BY <1>0, EmptySeq DEF Init, DoneInit, DoneTypeOK
<1>7. KernelTypeOK
  <2>1. \A p \in Thread : FirstWait(p) \in DeltaEvent \cup TimedEvent \cup {"none"}
    BY DEF FirstWait, TimedEvent, DeltaEvent
  <2> QED BY <2>1 DEF Init, KernelInit, KernelTypeOK
<1> QED BY <1>1, <1>2, <1>3, <1>4, <1>5, <1>6, <1>7 DEF TypeOK

\* Which actions change which group of variables.
LEMMA WhoChanges ==
  ASSUME [Next]_vars
  PROVE
  /\ \/ HostSubmit \/ HostReapCQ \/ writeSQ1TDBLReg \/ writeCQ1HDBLReg
     \/ processCompletionTLPCmd \/ ArbiterSendsRdCmd \/ ArbiterSendsRdData
     \/ ArbiterSendsWrData \/ ArbiterSendsComp \/ UNCHANGED hostVars
  /\ \/ writeSQ1TDBLReg \/ MemReadReqCmdWaits \/ MemReadReqCmdFetches
     \/ UNCHANGED fetchVars
  /\ \/ MemReadReqCmdFetches
     \/ \E q \in Slot : RequestWriteData(q) \/ MemReadCompletion(q)
     \/ WriteCmdDone \/ ReadDone \/ ArbiterSkips \/ ArbiterSendsRdCmd
     \/ ArbiterSendsRdData \/ ArbiterSendsWrData \/ ArbiterSendsComp
     \/ UNCHANGED tlpVars
  /\ \/ processCompletionTLPCmd
     \/ \E q \in Slot : PendingWriteCmd(q) \/ MemReadCompletion(q)
     \/ ArbiterSendsComp \/ UNCHANGED tableVars
  /\ \/ processCompletionTLPCmd \/ PcmdQInsertTakes \/ PcmdQInsertStrips
     \/ \E q \in Slot : SubCmdNext(q)
     \/ ArbiterSendsRdData \/ Delta \/ TimePasses \/ UNCHANGED pcmdVars
  /\ \/ writeCQ1HDBLReg
     \/ \E q \in Slot : PendingWriteCmd(q) \/ MemReadCompletion(q)
     \/ WriteCmdDone \/ ReadDone \/ ArbiterSendsComp \/ UNCHANGED doneVars
BY DEF Next, HostNext, FetchNext, InsertNext, SubCmdNext, WriteDoneNext,
   ReadDoneNext, ArbiterNext, HostSubmit, HostReapCQ, writeSQ1TDBLReg,
   writeCQ1HDBLReg, MemReadReqCmdWaits, MemReadReqCmdFetches,
   processCompletionTLPCmd, PcmdQInsertIdles, PcmdQInsertTakes,
   PcmdQInsertBlocks, PcmdQInsertStrips, RequestWriteData, WriteDataArrives,
   PendingWriteCmd, MemReadCompletionWaits, MemReadCompletion,
   WriteCmdDoneWaits, WriteCmdDone, ReadDoneWaits, ReadDoneIdles, ReadDone,
   ArbiterIdles, ArbiterSkips, ArbiterSendsRdCmd, ArbiterSendsRdData,
   ArbiterSendsWrData, ArbiterSendsComp, ArbiterSent, Delta, TimePasses, Tick,
   Finished, vars, fetchVars, tlpVars, tableVars, pcmdVars, doneVars

\* What the arbiter finds at the front of the queue its token points to.
LEMMA ArbiterFindsTLP ==
  ASSUME NEW e
  PROVE  /\ ArbiterTurn(RD_CMD, e) => rdCmdQ # <<>>
         /\ ArbiterTurn(RD_DATA, e) => rdDataQ # <<>>
         /\ ArbiterTurn(WR_DATA, e) => wrDataQ # <<>>
         /\ ArbiterTurn(WR_COMP, e) => compQ # <<>>
BY DEF ArbiterTurn, QueueOf, RD_CMD, RD_DATA, WR_DATA, WR_COMP

\* The host's side: submission and completion queues in host memory.
LEMMA HostTypeStep ==
  ASSUME TypeOK, [Next]_vars
  PROVE  HostTypeOK'
<1>0. \/ HostSubmit \/ HostReapCQ \/ writeSQ1TDBLReg \/ writeCQ1HDBLReg
      \/ processCompletionTLPCmd \/ ArbiterSendsRdCmd \/ ArbiterSendsRdData
      \/ ArbiterSendsWrData \/ ArbiterSendsComp \/ UNCHANGED hostVars
  BY WhoChanges
<1>1. HostTypeOK /\ TLPTypeOK
  BY DEF TypeOK
<1>2. CASE HostSubmit
  <2>1. submitted + 1 \in CmdOrNone /\ submitted + 1 \in 0 .. NumCmds
    BY <1>1, <1>2, SizesAssumption DEF HostSubmit, HostTypeOK, CmdOrNone
  <2> QED BY <1>1, <1>2, <2>1 DEF HostSubmit, HostTypeOK
<1>3. CASE HostReapCQ
  <2>1. (hostCqHead + 1) % CQSize \in CQIdx
    BY <1>1, SizesAssumption, NextInRing DEF HostTypeOK, CQIdx
  <2>2. completed' \in [Cmd -> Nat]
    BY <1>1, <1>3, IncrementIn DEF HostReapCQ, HostTypeOK
  <2>3. hostCqHead' \in CQIdx /\ hostPhase' \in BOOLEAN /\ reaped' \in BOOLEAN
    BY <1>1, <1>3, <2>1 DEF HostReapCQ, HostTypeOK
  <2>4. UNCHANGED <<submitted, rung, sqMem, fetchResp, cqMem, moved>>
    BY <1>3 DEF HostReapCQ
  <2> QED BY <1>1, <2>2, <2>3, <2>4 DEF HostTypeOK
<1>4. CASE writeSQ1TDBLReg
  BY <1>1, <1>4 DEF writeSQ1TDBLReg, HostTypeOK
<1>5. CASE writeCQ1HDBLReg
  BY <1>1, <1>5 DEF writeCQ1HDBLReg, HostTypeOK
<1>6. CASE processCompletionTLPCmd
  <2>1. fetchResp.addr \in SQIdx /\ fetchResp.left \in Nat
    BY <1>1 DEF HostTypeOK
  <2>2. (fetchResp.addr + 1) % SQSize \in SQIdx
    BY <2>1, SizesAssumption, NextInRing DEF SQIdx
  <2>3. fetchResp.left - 1 \in Nat
    BY <1>6, <2>1 DEF processCompletionTLPCmd
  <2> QED BY <1>1, <1>6, <2>2, <2>3 DEF processCompletionTLPCmd, HostTypeOK
<1>7. CASE ArbiterSendsRdCmd
  <2>1. Head(rdCmdQ) \in [addr : SQIdx, n : Nat]
    BY <1>1, <1>7, ArbiterFindsTLP, HeadTailProperties
    DEF ArbiterSendsRdCmd, TLPTypeOK
  <2> QED BY <1>1, <1>7, <2>1 DEF ArbiterSendsRdCmd, HostTypeOK
<1>8. CASE ArbiterSendsRdData
  <2>1. Head(rdDataQ) \in [slot : Slot, cmd : CmdOrNone, off : Nat]
    BY <1>1, <1>8, ArbiterFindsTLP, HeadTailProperties
    DEF ArbiterSendsRdData, TLPTypeOK
  <2> QED BY <1>1, <1>8, <2>1 DEF ArbiterSendsRdData, HostTypeOK
<1>9. CASE ArbiterSendsWrData
  <2>1. Head(wrDataQ) \in [slot : Slot, cmd : CmdOrNone, off : Nat]
    BY <1>1, <1>9, ArbiterFindsTLP, HeadTailProperties
    DEF ArbiterSendsWrData, TLPTypeOK
  <2> QED BY <1>1, <1>9, <2>1 DEF ArbiterSendsWrData, HostTypeOK
<1>10. CASE ArbiterSendsComp
  <2>1. Head(compQ) \in [slot : CQIdx, cid : CmdOrNone, phase : BOOLEAN]
    BY <1>1, <1>10, ArbiterFindsTLP, HeadTailProperties
    DEF ArbiterSendsComp, TLPTypeOK
  <2> QED BY <1>1, <1>10, <2>1 DEF ArbiterSendsComp, HostTypeOK
<1>11. CASE UNCHANGED hostVars
  BY <1>1, <1>11 DEF hostVars, HostTypeOK
<1> QED BY <1>0, <1>2, <1>3, <1>4, <1>5, <1>6, <1>7, <1>8, <1>9, <1>10, <1>11

(***************************************************************************)
(* What a fetch asks for.                                                  *)
(***************************************************************************)

\* The doorbells memReadReqCmdThread still has to serve.
LEMMA TailQNowType ==
  ASSUME FetchTypeOK
  PROVE  /\ TailQNow \in Seq(SQIdx)
         /\ TailQNow # <<>> => Head(TailQNow) \in SQIdx
<1>1. TailQNow \in Seq(SQIdx)
  BY HeadTailProperties DEF FetchTypeOK, TailQNow
<1> QED BY <1>1, HeadTailProperties

\* A doorbell always leaves something to fetch: an empty queue and a full
\* one look the same to memReadReqCmdThread.
LEMMA NumToFetchPositive ==
  ASSUME FetchTypeOK, NEW tail \in SQIdx
  PROVE  NumToFetch(tail) \in 1 .. SQSize
BY SizesAssumption DEF FetchTypeOK, NumToFetch, SQIdx

\* memReadReqCmdThread asks for at least one entry and for no more than the
\* host command queue has room for.
LEMMA FetchCountFits ==
  ASSUME TypeOK, FetchFits, FetchBlocksOn = "none"
  PROVE  FetchCount \in 1 .. QueueSize - hCmdQSize
<1>1. FetchTypeOK /\ HostTypeOK /\ TLPTypeOK /\ hCmdQSize \in Int
  BY DEF TypeOK, TableTypeOK
<1>2. TailQNow # <<>> /\ getQSpaceLeft # 0
  BY DEF FetchBlocksOn
<1>3. NumToFetch(Head(TailQNow)) \in Nat \ {0}
  <2>1. Head(TailQNow) \in SQIdx
    BY <1>1, <1>2, TailQNowType
  <2> QED BY <1>1, <2>1, NumToFetchPositive, SizesAssumption
<1>4. getQSpaceLeft \in Nat \ {0}
  <2>1. InFetch \in Nat
    <3>1. rdCmdQ # <<>> => Head(rdCmdQ) \in [addr : SQIdx, n : Nat]
      BY <1>1, HeadTailProperties DEF TLPTypeOK
    <3>2. fetchResp.left \in Nat
      BY <1>1 DEF HostTypeOK
    <3> QED BY <3>1, <3>2 DEF InFetch
  <2>2. InFetch + hCmdQSize <= QueueSize
    BY DEF FetchFits
  <2> QED BY <1>1, <1>2, <2>1, <2>2, SizesAssumption DEF getQSpaceLeft
<1> QED BY <1>1, <1>3, <1>4, SizesAssumption DEF FetchCount, getQSpaceLeft

\* The fetcher: the head of SQ1 and the queued doorbells.
LEMMA FetchTypeStep ==
  ASSUME TypeOK, FetchFits, [Next]_vars
  PROVE  FetchTypeOK'
<1>1. \/ writeSQ1TDBLReg \/ MemReadReqCmdWaits \/ MemReadReqCmdFetches
      \/ UNCHANGED fetchVars
  BY WhoChanges
<1>2. FetchTypeOK /\ HostTypeOK
  BY DEF TypeOK
<1>3. CASE writeSQ1TDBLReg
  <2>1. submitted % SQSize \in SQIdx
    <3>1. submitted \in Int
      BY <1>2 DEF HostTypeOK
    <3> QED BY <3>1, SQIdxOfInt
  <2> QED BY <1>2, <1>3, <2>1, AppendProperties DEF writeSQ1TDBLReg, FetchTypeOK
<1>4. CASE MemReadReqCmdWaits
  BY <1>2, <1>4, TailQNowType DEF MemReadReqCmdWaits, FetchTypeOK
<1>5. CASE MemReadReqCmdFetches
  <2>1. FetchCount \in Nat
    BY <1>5, FetchCountFits DEF MemReadReqCmdFetches, TypeOK, TableTypeOK
  <2>2. (sqHead + FetchCount) % SQSize \in SQIdx
    <3>1. sqHead + FetchCount \in Int
      BY <1>2, <2>1, SizesAssumption DEF FetchTypeOK, SQIdx
    <3> QED BY <3>1, SQIdxOfInt
  <2> QED BY <1>2, <1>5, <2>2, TailQNowType DEF MemReadReqCmdFetches, FetchTypeOK
<1>6. CASE UNCHANGED fetchVars
  BY <1>2, <1>6 DEF fetchVars, FetchTypeOK
<1> QED BY <1>1, <1>3, <1>4, <1>5, <1>6

(***************************************************************************)
(* TLP queues, tables, PCMDQ and completion.                               *)
(***************************************************************************)

\* A data TLP names its PCMDQ entry, a command or none, and an offset.
LEMMA DataTLPType ==
  ASSUME TypeOK, NEW q \in Slot
  PROVE  DataTLP(q) \in [slot : Slot, cmd : CmdOrNone, off : Nat]
<1>1. pcmdq[q].tag \in Tag /\ pcmdq[q].off \in Nat
  BY DEF TypeOK, PcmdTypeOK
<1>2. hostCmd[pcmdq[q].tag] \in CmdOrNone
  BY <1>1 DEF TypeOK, TableTypeOK
<1> QED BY <1>1, <1>2 DEF DataTLP

\* What posting a completion entry leaves in CQ1's and the TLP's fields.
LEMMA PostCompletionType ==
  ASSUME TypeOK, NEW t \in Tag, PostCompletion(t)
  PROVE  /\ compQ' \in Seq([slot : CQIdx, cid : CmdOrNone, phase : BOOLEAN])
         /\ cmdDoneTagQ' \in Seq(Tag)
         /\ cqTail' \in CQIdx
         /\ phaseTag' \in BOOLEAN
<1>1. DoneTypeOK /\ TLPTypeOK /\ param[t] \in CmdOrNone
  BY DEF TypeOK, TableTypeOK
<1>2. phaseTag' \in BOOLEAN
  BY <1>1 DEF PostCompletion, DoneTypeOK
<1>3. cqTail' \in CQIdx
  <2>1. (cqTail + 1) % CQSize \in CQIdx
    BY <1>1, SizesAssumption, NextInRing DEF DoneTypeOK, CQIdx
  <2> QED BY <2>1 DEF PostCompletion
<1>4. compQ' \in Seq([slot : CQIdx, cid : CmdOrNone, phase : BOOLEAN])
  <2>1. [slot |-> cqTail, cid |-> param[t], phase |-> phaseTag']
           \in [slot : CQIdx, cid : CmdOrNone, phase : BOOLEAN]
    BY <1>1, <1>2 DEF DoneTypeOK
  <2> QED BY <1>1, <2>1, AppendProperties DEF PostCompletion, TLPTypeOK
<1>5. cmdDoneTagQ' \in Seq(Tag)
  BY <1>1, AppendProperties DEF PostCompletion, DoneTypeOK
<1> QED BY <1>2, <1>3, <1>4, <1>5

\* The TLP queues hold well-formed requests.
LEMMA TLPTypeStep ==
  ASSUME TypeOK, FetchFits, [Next]_vars
  PROVE  TLPTypeOK'
<1>1. \/ MemReadReqCmdFetches
      \/ \E q \in Slot : RequestWriteData(q) \/ MemReadCompletion(q)
      \/ WriteCmdDone \/ ReadDone \/ ArbiterSkips \/ ArbiterSendsRdCmd
      \/ ArbiterSendsRdData \/ ArbiterSendsWrData \/ ArbiterSendsComp
      \/ UNCHANGED tlpVars
  BY WhoChanges
<1>2. FetchTypeOK /\ TLPTypeOK /\ DoneTypeOK
  BY DEF TypeOK
<1>3. CASE MemReadReqCmdFetches
  <2>1. FetchCount \in Nat
    BY <1>3, FetchCountFits DEF MemReadReqCmdFetches, TypeOK, TableTypeOK
  <2>2. [addr |-> sqHead, n |-> FetchCount] \in [addr : SQIdx, n : Nat]
    BY <1>2, <2>1 DEF FetchTypeOK
  <2> QED BY <1>2, <1>3, <2>2, AppendProperties DEF MemReadReqCmdFetches, TLPTypeOK
<1>4. ASSUME NEW q \in Slot, RequestWriteData(q) \/ MemReadCompletion(q)
      PROVE  TLPTypeOK'
  <2>1. CASE RequestWriteData(q)
    BY <1>2, <2>1, DataTLPType, AppendProperties DEF RequestWriteData, TLPTypeOK
  <2>2. CASE MemReadCompletion(q)
    <3>1. wrDataQ' = Append(wrDataQ, DataTLP(q))
      BY <2>2 DEF MemReadCompletion
    <3>2. UNCHANGED <<rdCmdQ, rdDataQ, compQ, token>>
      BY <2>2 DEF MemReadCompletion
    <3> QED BY <1>2, <3>1, <3>2, DataTLPType, AppendProperties DEF TLPTypeOK
  <2> QED BY <1>4, <2>1, <2>2
<1>5. CASE WriteCmdDone
  <2>1. Head(tagQ) \in Tag
    BY <1>2, <1>5, HeadTailProperties DEF WriteCmdDone, DoneTypeOK
  <2> QED BY <1>2, <1>5, <2>1, PostCompletionType DEF WriteCmdDone, TLPTypeOK
<1>6. CASE ReadDone
  <2>1. Head(dmaActive) \in Tag
    BY <1>2, <1>6, HeadTailProperties DEF ReadDone, DoneTypeOK
  <2> QED BY <1>2, <1>6, <2>1, PostCompletionType DEF ReadDone, TLPTypeOK
<1>7. (token + 1) % 4 \in 0 .. 3
  <2>1. token + 1 \in Int
    BY <1>2 DEF TLPTypeOK
  <2> QED BY <2>1
<1>8. CASE ArbiterSkips
  BY <1>2, <1>7, <1>8 DEF ArbiterSkips, TLPTypeOK
<1>9. CASE ArbiterSendsRdCmd
  BY <1>2, <1>7, <1>9, ArbiterFindsTLP, HeadTailProperties
  DEF ArbiterSendsRdCmd, ArbiterTurn, TLPTypeOK
<1>10. CASE ArbiterSendsRdData
  BY <1>2, <1>7, <1>10, ArbiterFindsTLP, HeadTailProperties
  DEF ArbiterSendsRdData, ArbiterTurn, TLPTypeOK
<1>11. CASE ArbiterSendsWrData
  BY <1>2, <1>7, <1>11, ArbiterFindsTLP, HeadTailProperties
  DEF ArbiterSendsWrData, ArbiterTurn, TLPTypeOK
<1>12. CASE ArbiterSendsComp
  BY <1>2, <1>7, <1>12, ArbiterFindsTLP, HeadTailProperties
  DEF ArbiterSendsComp, ArbiterTurn, TLPTypeOK
<1>13. CASE UNCHANGED tlpVars
  BY <1>2, <1>13 DEF tlpVars, TLPTypeOK
<1> QED BY <1>1, <1>3, <1>4, <1>5, <1>6, <1>8, <1>9, <1>10, <1>11, <1>12, <1>13

\* The tables indexed by tag: processCompletionTLPCmd fills the entries of
\* the tag it got, FinishSubCmd counts down, ArbiterSendsComp clears.
LEMMA TableTypeStep ==
  ASSUME TypeOK, [Next]_vars
  PROVE  TableTypeOK'
<1>1. \/ processCompletionTLPCmd
      \/ \E q \in Slot : PendingWriteCmd(q) \/ MemReadCompletion(q)
      \/ ArbiterSendsComp \/ UNCHANGED tableVars
  BY WhoChanges
<1>2. HostTypeOK /\ TableTypeOK /\ PcmdTypeOK /\ DoneTypeOK
  BY DEF TypeOK
<1>3. CASE processCompletionTLPCmd
  <2> DEFINE c == sqMem[fetchResp.addr]
             t == getFreeTag
  <2>1. c \in CmdOrNone
    BY <1>2 DEF HostTypeOK
  <2>2. CmdCnt(c) \in Count16
    BY <2>1, CommandsAssumption, Count16OfInt, SizesAssumption
    DEF CmdCnt, CmdOrNone, Cmd, NoCmd
  <2>3. FillTables(t, c) /\ SetRunCnt(t, c)
    BY <1>3 DEF processCompletionTLPCmd
  <2> HIDE DEF c, t
  <2>4. hCmdQSize + 1 \in Int
    BY <1>2 DEF TableTypeOK
  <2> QED BY <1>2, <2>1, <2>2, <2>3, <2>4 DEF FillTables, SetRunCnt, TableTypeOK
<1>4. ASSUME NEW q \in Slot, PendingWriteCmd(q) \/ MemReadCompletion(q)
      PROVE  TableTypeOK'
  <2> DEFINE t == pcmdq[q].tag
  <2>1. t \in Tag
    BY <1>2 DEF PcmdTypeOK
  <2>2. (runCnt[t] - 1) % Width16 \in Count16
    <3>1. runCnt[t] \in Int
      BY <1>2, <2>1, Count16OfInt DEF TableTypeOK
    <3> QED BY <3>1, Count16OfInt
  <2>3. runCnt' = [runCnt EXCEPT ![t] = (@ - 1) % Width16]
    BY <1>4 DEF PendingWriteCmd, MemReadCompletion, FinishSubCmd
  <2>4. UNCHANGED <<hostCmd, hCmdQSize, tagTable, param>>
    BY <1>4 DEF PendingWriteCmd, MemReadCompletion
  <2> HIDE DEF t
  <2> QED BY <1>2, <2>1, <2>2, <2>3, <2>4 DEF TableTypeOK
<1>5. CASE ArbiterSendsComp
  <2>1. ReleaseTag(Head(cmdDoneTagQ)) /\ runCnt' = runCnt
    BY <1>5 DEF ArbiterSendsComp
  <2>2. NoCmd \in CmdOrNone
    BY SizesAssumption DEF NoCmd, CmdOrNone
  <2>3. hCmdQSize - 1 \in Int
    BY <1>2 DEF TableTypeOK
  <2> QED BY <1>2, <2>1, <2>2, <2>3 DEF ReleaseTag, TableTypeOK
<1>6. CASE UNCHANGED tableVars
  BY <1>2, <1>6 DEF tableVars, TableTypeOK
<1> QED BY <1>1, <1>3, <1>4, <1>5, <1>6

\* The insert queue, the command being stripped and the PCMDQ entries.
LEMMA PcmdTypeStep ==
  ASSUME TypeOK, [Next]_vars
  PROVE  PcmdTypeOK'
<1>1. \/ processCompletionTLPCmd \/ PcmdQInsertTakes \/ PcmdQInsertStrips
      \/ \E q \in Slot : SubCmdNext(q)
      \/ ArbiterSendsRdData \/ Delta \/ TimePasses \/ UNCHANGED pcmdVars
  BY WhoChanges
<1>2. HostTypeOK /\ PcmdTypeOK
  BY DEF TypeOK
<1> DEFINE Entry == [st : SubState, cmd : CmdOrNone, idx : Nat, off : Nat, tag : Tag]
<1>3. pcmdq \in [Slot -> Entry]
  BY <1>2 DEF PcmdTypeOK
<1>4. ASSUME NEW q, NEW s \in SubState, SetState(q, s)
      PROVE  pcmdq' \in [Slot -> Entry]
  BY <1>3, <1>4 DEF SetState
<1>5. CASE processCompletionTLPCmd
  <2> DEFINE e == [cmd |-> sqMem[fetchResp.addr], tag |-> getFreeTag]
  <2>1. e \in [cmd : CmdOrNone, tag : Tag]
    BY <1>2, GetFreeTagIsTag DEF HostTypeOK
  <2>2. insertQ' = Append(insertQ, e) /\ UNCHANGED <<job, pcmdq>>
    BY <1>5 DEF processCompletionTLPCmd
  <2> HIDE DEF e
  <2> QED BY <1>2, <2>1, <2>2, AppendProperties DEF PcmdTypeOK
<1>6. CASE PcmdQInsertTakes
  <2>1. Head(insertQ) \in [cmd : CmdOrNone, tag : Tag]
        /\ Tail(insertQ) \in Seq([cmd : CmdOrNone, tag : Tag])
    BY <1>2, <1>6, HeadTailProperties DEF PcmdQInsertTakes, PcmdTypeOK
  <2> QED BY <1>2, <1>6, <2>1 DEF PcmdQInsertTakes, PcmdTypeOK
<1>7. CASE PcmdQInsertStrips
  <2>1. OffsetNow \in Nat /\ OffsetNow + 1 \in Nat /\ job.idx + 1 \in Nat
    BY <1>2 DEF OffsetNow, PcmdTypeOK
  <2>2. [st |-> "linked", cmd |-> job.cmd, idx |-> job.idx, off |-> OffsetNow,
         tag |-> job.tag] \in Entry
    BY <1>2, <2>1 DEF PcmdTypeOK, SubState
  <2>3. pcmdq' \in [Slot -> Entry]
    BY <1>3, <1>7, <2>2 DEF PcmdQInsertStrips
  <2>4. job' \in [cmd : CmdOrNone, tag : Tag, idx : Nat, off : Nat]
    BY <1>2, <1>7, <2>1 DEF PcmdQInsertStrips, PcmdTypeOK
  <2>5. insertQ' = insertQ
    BY <1>7 DEF PcmdQInsertStrips
  <2> QED BY <1>2, <2>3, <2>4, <2>5 DEF PcmdTypeOK
<1>8. ASSUME NEW q \in Slot, SubCmdNext(q)
      PROVE  PcmdTypeOK'
  <2>1. UNCHANGED <<insertQ, job>>
    BY <1>8 DEF SubCmdNext, RequestWriteData, WriteDataArrives, PendingWriteCmd,
       MemReadCompletionWaits, MemReadCompletion
  <2>2. \/ \E s \in SubState : SetState(q, s)
        \/ pcmdq' = [pcmdq EXCEPT ![q] = FreeEntry]
    BY <1>8 DEF SubCmdNext, RequestWriteData, WriteDataArrives, PendingWriteCmd,
       MemReadCompletionWaits, MemReadCompletion, FinishSubCmd, SubState
  <2>3. FreeEntry \in Entry
    BY SizesAssumption DEF FreeEntry, SubState, CmdOrNone, NoCmd, Tag
  <2>4. pcmdq' \in [Slot -> Entry]
    BY <1>3, <1>4, <2>2, <2>3
  <2> QED BY <1>2, <2>1, <2>4 DEF PcmdTypeOK
<1>9. CASE ArbiterSendsRdData
  BY <1>2, <1>4, <1>9 DEF ArbiterSendsRdData, PcmdTypeOK, SubState
<1>10. CASE Delta \/ TimePasses
  <2>1. UNCHANGED <<insertQ, job>>
    BY <1>10 DEF Delta, TimePasses, Tick
  <2>2. \A e \in Entry : /\ [e EXCEPT !.st = "dmaWoken"] \in Entry
                        /\ [e EXCEPT !.st = "due"] \in Entry
    <3>1. ASSUME NEW e \in Entry, NEW s \in SubState
          PROVE  [e EXCEPT !.st = s] \in Entry
      OBVIOUS
    <3>2. "dmaWoken" \in SubState /\ "due" \in SubState
      BY DEF SubState
    <3> HIDE DEF Entry
    <3> QED BY <3>1, <3>2, Zenon
  <2>3. \A q \in Slot : pcmdq[q] \in Entry
    BY <1>3
  <2> HIDE DEF Entry
  <2>4. pcmdq' \in [Slot -> Entry]
    <3>1. CASE Delta
      BY <2>2, <2>3, <3>1, Zenon DEF Delta
    <3>2. CASE TimePasses
      BY <2>2, <2>3, <3>2, Zenon DEF TimePasses, Tick
    <3> QED BY <1>10, <3>1, <3>2
  <2> USE DEF Entry
  <2> QED BY <1>2, <2>1, <2>4 DEF PcmdTypeOK
<1>11. CASE UNCHANGED pcmdVars
  BY <1>2, <1>11 DEF pcmdVars, PcmdTypeOK
<1> QED BY <1>1, <1>5, <1>6, <1>7, <1>8, <1>9, <1>10, <1>11

\* The tags on their way to a completion entry, and the completion queue.
LEMMA DoneTypeStep ==
  ASSUME TypeOK, [Next]_vars
  PROVE  DoneTypeOK'
<1>1. \/ writeCQ1HDBLReg
      \/ \E q \in Slot : PendingWriteCmd(q) \/ MemReadCompletion(q)
      \/ WriteCmdDone \/ ReadDone \/ ArbiterSendsComp \/ UNCHANGED doneVars
  BY WhoChanges
<1>2. HostTypeOK /\ PcmdTypeOK /\ DoneTypeOK
  BY DEF TypeOK
<1>3. CASE writeCQ1HDBLReg
  BY <1>2, <1>3 DEF writeCQ1HDBLReg, HostTypeOK, DoneTypeOK
<1>4. ASSUME NEW q \in Slot, PendingWriteCmd(q) \/ MemReadCompletion(q)
      PROVE  DoneTypeOK'
  <2> DEFINE t == pcmdq[q].tag
  <2>1. t \in Tag
    BY <1>2 DEF PcmdTypeOK
  <2>2. /\ tagQ' = tagQ \/ tagQ' = Append(tagQ, t)
        /\ dmaActive' = dmaActive \/ dmaActive' = Append(dmaActive, t)
        /\ UNCHANGED <<cmdDoneTagQ, cqHead, cqTail, phaseTag>>
    BY <1>4 DEF PendingWriteCmd, MemReadCompletion
  <2> HIDE DEF t
  <2>3. Append(tagQ, t) \in Seq(Tag) /\ Append(dmaActive, t) \in Seq(Tag)
    BY <1>2, <2>1, AppendProperties DEF DoneTypeOK
  <2> QED BY <1>2, <2>2, <2>3 DEF DoneTypeOK
<1>5. CASE WriteCmdDone
  <2>1. Head(tagQ) \in Tag /\ Tail(tagQ) \in Seq(Tag)
    BY <1>2, <1>5, HeadTailProperties DEF WriteCmdDone, DoneTypeOK
  <2>2. /\ cmdDoneTagQ' \in Seq(Tag)
        /\ cqTail' \in CQIdx /\ phaseTag' \in BOOLEAN
    BY <1>5, <2>1, PostCompletionType DEF WriteCmdDone
  <2>3. tagQ' = Tail(tagQ) /\ UNCHANGED <<dmaActive, cqHead>>
    BY <1>5 DEF WriteCmdDone
  <2> QED BY <1>2, <2>1, <2>2, <2>3 DEF DoneTypeOK
<1>6. CASE ReadDone
  <2>1. Head(dmaActive) \in Tag /\ Tail(dmaActive) \in Seq(Tag)
    BY <1>2, <1>6, HeadTailProperties DEF ReadDone, DoneTypeOK
  <2>2. /\ cmdDoneTagQ' \in Seq(Tag)
        /\ cqTail' \in CQIdx /\ phaseTag' \in BOOLEAN
    BY <1>6, <2>1, PostCompletionType DEF ReadDone
  <2>3. dmaActive' = Tail(dmaActive) /\ UNCHANGED <<tagQ, cqHead>>
    BY <1>6 DEF ReadDone
  <2> QED BY <1>2, <2>1, <2>2, <2>3 DEF DoneTypeOK
<1>7. CASE ArbiterSendsComp
  <2>1. Tail(cmdDoneTagQ) \in Seq(Tag)
    BY <1>2, <1>7, HeadTailProperties DEF ArbiterSendsComp, DoneTypeOK
  <2> QED BY <1>2, <1>7, <2>1 DEF ArbiterSendsComp, DoneTypeOK
<1>8. CASE UNCHANGED doneVars
  BY <1>2, <1>8 DEF doneVars, DoneTypeOK
<1> QED BY <1>1, <1>3, <1>4, <1>5, <1>6, <1>7, <1>8

(***************************************************************************)
(* The SystemC kernel's variables.                                         *)
(***************************************************************************)
WaitMark == DeltaEvent \cup TimedEvent \cup {"none"}

\* A thread waits for, and is continued with, events of the kernel only.
LEMMA ThreadStepType ==
  ASSUME KernelTypeOK, NEW p \in Thread, NEW e \in WaitMark,
         WaitFor(p, e) \/ Continue(p)
  PROVE  run' \in SUBSET Thread /\ waits' \in [Thread -> WaitMark]
<1>1. waits \in [Thread -> WaitMark] /\ run \in SUBSET Thread /\ "none" \in WaitMark
  BY DEF KernelTypeOK, WaitMark
<1> QED BY <1>1 DEF WaitFor, Continue

\* What each action does to the waits of the threads and to the runnable
\* threads.
LEMMA ThreadsStep ==
  ASSUME TypeOK, [Next]_vars
  PROVE  run' \in SUBSET Thread /\ waits' \in [Thread -> WaitMark]
<1>1. \/ UNCHANGED <<run, waits>>
      \/ waits' = waits /\ \E E : run' = Woken(E)
      \/ \E p \in Thread, e \in WaitMark : WaitFor(p, e) \/ Continue(p)
  <2>1. CASE HostNext
    BY <2>1 DEF HostNext, HostSubmit, HostReapCQ, writeSQ1TDBLReg,
       writeCQ1HDBLReg, kernelVars
  <2>2. CASE FetchNext
    <3>1. FetchBlocksOn \in WaitMark /\ "mCompletionTLPRx" \in WaitMark
          /\ "memReadReqCmd" \in Thread
      BY DEF FetchBlocksOn, WaitMark, DeltaEvent, TimedEvent, Thread
    <3> QED BY <2>2, <3>1 DEF FetchNext, MemReadReqCmdWaits,
               MemReadReqCmdFetches, processCompletionTLPCmd
  <2>3. CASE InsertNext
    <3>1. {"mTrigPcmdQ", "mCmdQNotFull", "insertZeroTime"} \subseteq WaitMark
          /\ "pcmdQInsert" \in Thread
      BY DEF WaitMark, DeltaEvent, TimedEvent, Thread
    <3> QED BY <2>3, <3>1 DEF InsertNext, PcmdQInsertIdles, PcmdQInsertTakes,
               PcmdQInsertBlocks, PcmdQInsertStrips
  <2>4. CASE \E q \in Slot : SubCmdNext(q)
    BY <2>4 DEF SubCmdNext, RequestWriteData, WriteDataArrives,
       PendingWriteCmd, MemReadCompletionWaits, MemReadCompletion, kernelVars
  <2>5. CASE WriteDoneNext
    <3>1. DoneBlocksOn("writeCmdDone") \in WaitMark
          /\ "mWriteCmdDone" \in WaitMark /\ "writeCmdDone" \in Thread
      BY DEF DoneBlocksOn, WaitMark, DeltaEvent, Thread
    <3> QED BY <2>5, <3>1 DEF WriteDoneNext, WriteCmdDoneWaits, WriteCmdDone,
               NextRound
  <2>6. CASE ReadDoneNext
    <3>1. DoneBlocksOn("readDone") \in WaitMark
          /\ "mReadDone" \in WaitMark /\ "readDone" \in Thread
      BY DEF DoneBlocksOn, WaitMark, DeltaEvent, Thread
    <3> QED BY <2>6, <3>1 DEF ReadDoneNext, ReadDoneWaits, ReadDoneIdles,
               ReadDone, NextRound
  <2>7. CASE ArbiterNext
    <3>1. {"mArbitrate", "arbiterZeroTime", "tlpSent", "compSent"} \subseteq WaitMark
          /\ "arbiter" \in Thread
      BY DEF WaitMark, DeltaEvent, TimedEvent, Thread
    <3> QED BY <2>7, <3>1 DEF ArbiterNext, ArbiterIdles, ArbiterSkips,
               ArbiterSendsRdCmd, ArbiterSendsRdData, ArbiterSendsWrData,
               ArbiterSendsComp, ArbiterSent, ArbiterTurn
  <2>8. CASE Delta \/ TimePasses
    BY <2>8 DEF Delta, TimePasses, Tick
  <2>9. CASE Finished \/ UNCHANGED vars
    BY <2>9 DEF Finished, vars, kernelVars
  <2> QED BY <2>1, <2>2, <2>3, <2>4, <2>5, <2>6, <2>7, <2>8, <2>9 DEF Next
<1>2. KernelTypeOK
  BY DEF TypeOK
<1>3. CASE UNCHANGED <<run, waits>>
  BY <1>2, <1>3 DEF KernelTypeOK, WaitMark
<1>4. CASE waits' = waits /\ \E E : run' = Woken(E)
  BY <1>2, <1>4 DEF KernelTypeOK, WaitMark, Woken
<1>5. CASE \E p \in Thread, e \in WaitMark : WaitFor(p, e) \/ Continue(p)
  BY <1>2, <1>5, ThreadStepType
<1> QED BY <1>1, <1>3, <1>4, <1>5

\* The pending notifications are events of their kind.
LEMMA EventsStep ==
  ASSUME TypeOK, [Next]_vars
  PROVE  notified' \in SUBSET DeltaEvent /\ timed' \in SUBSET TimedEvent
<1>1. KernelTypeOK
  BY DEF TypeOK
<1>2. \/ notified' = notified \/ notified' = {}
      \/ \E E \in SUBSET DeltaEvent : notified' = notified \cup E
  <2>1. CASE HostNext
    BY <2>1 DEF HostNext, HostSubmit, HostReapCQ, writeSQ1TDBLReg,
       writeCQ1HDBLReg, kernelVars, Notify, DeltaEvent
  <2>2. CASE FetchNext
    BY <2>2 DEF FetchNext, MemReadReqCmdWaits, MemReadReqCmdFetches,
       processCompletionTLPCmd, Notify, FetchEvents, DeltaEvent
  <2>3. CASE InsertNext
    BY <2>3 DEF InsertNext, PcmdQInsertIdles, PcmdQInsertTakes,
       PcmdQInsertBlocks, PcmdQInsertStrips, Notify, DeltaEvent
  <2>4. CASE \E q \in Slot : SubCmdNext(q)
    BY <2>4 DEF SubCmdNext, RequestWriteData, WriteDataArrives,
       PendingWriteCmd, MemReadCompletionWaits, MemReadCompletion, kernelVars,
       Notify, DeltaEvent
  <2>5. CASE WriteDoneNext \/ ReadDoneNext
    BY <2>5 DEF WriteDoneNext, WriteCmdDoneWaits, WriteCmdDone, ReadDoneNext,
       ReadDoneWaits, ReadDoneIdles, ReadDone, PostCompletion, Notify, DeltaEvent
  <2>6. CASE ArbiterNext
    BY <2>6 DEF ArbiterNext, ArbiterIdles, ArbiterSkips, ArbiterSendsRdCmd,
       ArbiterSendsRdData, ArbiterSendsWrData, ArbiterSendsComp, ArbiterSent,
       ArbiterTurn, SentEvents, Notify, DeltaEvent
  <2>7. CASE Delta \/ TimePasses
    BY <2>7 DEF Delta, TimePasses, Tick
  <2>8. CASE Finished \/ UNCHANGED vars
    BY <2>8 DEF Finished, vars, kernelVars
  <2> QED BY <2>1, <2>2, <2>3, <2>4, <2>5, <2>6, <2>7, <2>8 DEF Next
<1>3. \/ timed' = timed \/ \E S : timed' = timed \ S
      \/ \E e \in TimedEvent : timed' = timed \cup {e}
  <2>1. CASE HostNext
    BY <2>1 DEF HostNext, HostSubmit, HostReapCQ, writeSQ1TDBLReg,
       writeCQ1HDBLReg, kernelVars, TimedEvent
  <2>2. CASE FetchNext
    BY <2>2 DEF FetchNext, MemReadReqCmdWaits, MemReadReqCmdFetches,
       processCompletionTLPCmd, TimedEvent
  <2>3. CASE InsertNext
    BY <2>3 DEF InsertNext, PcmdQInsertIdles, PcmdQInsertTakes,
       PcmdQInsertBlocks, PcmdQInsertStrips
  <2>4. CASE \E q \in Slot : SubCmdNext(q)
    BY <2>4 DEF SubCmdNext, RequestWriteData, WriteDataArrives,
       PendingWriteCmd, MemReadCompletionWaits, MemReadCompletion, kernelVars
  <2>5. CASE WriteDoneNext \/ ReadDoneNext
    BY <2>5 DEF WriteDoneNext, WriteCmdDoneWaits, WriteCmdDone, ReadDoneNext,
       ReadDoneWaits, ReadDoneIdles, ReadDone
  <2>6. CASE ArbiterNext
    BY <2>6 DEF ArbiterNext, ArbiterIdles, ArbiterSkips, ArbiterSendsRdCmd,
       ArbiterSendsRdData, ArbiterSendsWrData, ArbiterSendsComp, ArbiterSent,
       ArbiterTurn, TimedEvent
  <2>7. CASE Delta \/ TimePasses
    BY <2>7 DEF Delta, TimePasses, Tick
  <2>8. CASE Finished \/ UNCHANGED vars
    BY <2>8 DEF Finished, vars, kernelVars
  <2> QED BY <2>1, <2>2, <2>3, <2>4, <2>5, <2>6, <2>7, <2>8 DEF Next
<1> QED BY <1>1, <1>2, <1>3 DEF KernelTypeOK

\* Every step keeps every variable in its type, as long as no fetch asks for
\* more than there is room for.
LEMMA TypeStep ==
  ASSUME TypeOK, FetchFits, [Next]_vars
  PROVE  TypeOK'
<1>1. KernelTypeOK'
  BY ThreadsStep, EventsStep DEF KernelTypeOK, WaitMark
<1> QED BY <1>1, HostTypeStep, FetchTypeStep, TLPTypeStep, TableTypeStep,
        PcmdTypeStep, DoneTypeStep DEF TypeOK

(***************************************************************************)
(* One fetch at a time, and never more than fits.                          *)
(***************************************************************************)

\* TypeOK alone is not inductive: what a fetch asks for is a natural number
\* only because the fetches before it left room in the host command queue.
IInv == TypeOK /\ FetchFits /\ FetchThreadSleeps

\* The actions that neither fetch nor answer a fetch, and are not steps of
\* the kernel, give room at most and do not wake memReadReqCmdThread.
LEMMA OthersLeaveFetch ==
  ASSUME TypeOK, [Next]_vars,
         ~FetchNext, ~ArbiterSendsRdCmd, ~Delta, ~TimePasses
  PROVE  /\ UNCHANGED <<rdCmdQ, fetchResp>>
         /\ hCmdQSize' <= hCmdQSize
         /\ waits'["memReadReqCmd"] = waits["memReadReqCmd"]
         /\ "memReadReqCmd" \in run' => "memReadReqCmd" \in run
         /\ "mCompletionTLPRx" \in notified' => "mCompletionTLPRx" \in notified
<1>1. hCmdQSize \in Int /\ waits \in [Thread -> WaitMark] /\ "memReadReqCmd" \in Thread
  BY DEF TypeOK, TableTypeOK, KernelTypeOK, WaitMark, Thread
<1>2. ASSUME NEW p \in Thread \ {"memReadReqCmd"}, NEW e,
             WaitFor(p, e) \/ Continue(p)
      PROVE  /\ waits'["memReadReqCmd"] = waits["memReadReqCmd"]
             /\ "memReadReqCmd" \in run' => "memReadReqCmd" \in run
  BY <1>1, <1>2 DEF WaitFor, Continue
<1>3. {"pcmdQInsert", "writeCmdDone", "readDone", "arbiter"}
         \subseteq Thread \ {"memReadReqCmd"}
  BY DEF Thread
<1>4. CASE HostNext
  BY <1>1, <1>4 DEF HostNext, HostSubmit, HostReapCQ, writeSQ1TDBLReg,
     writeCQ1HDBLReg, tlpVars, tableVars, kernelVars, Notify
<1>5. CASE InsertNext
  BY <1>1, <1>2, <1>3, <1>5 DEF InsertNext, PcmdQInsertIdles, PcmdQInsertTakes,
     PcmdQInsertBlocks, PcmdQInsertStrips, hostVars, tlpVars, tableVars, Notify
<1>6. CASE \E q \in Slot : SubCmdNext(q)
  BY <1>1, <1>6 DEF SubCmdNext, RequestWriteData, WriteDataArrives,
     PendingWriteCmd, MemReadCompletionWaits, MemReadCompletion,
     hostVars, tlpVars, tableVars, kernelVars, Notify
<1>7. CASE WriteDoneNext
  <2>1. \E e : WaitFor("writeCmdDone", e) \/ Continue("writeCmdDone")
    BY <1>7 DEF WriteDoneNext, WriteCmdDoneWaits, WriteCmdDone, NextRound
  <2>2. "mCompletionTLPRx" \in notified' => "mCompletionTLPRx" \in notified
    BY <1>7 DEF WriteDoneNext, WriteCmdDoneWaits, WriteCmdDone, PostCompletion, Notify
  <2>3. UNCHANGED <<rdCmdQ, fetchResp, hCmdQSize>>
    BY <1>7 DEF WriteDoneNext, WriteCmdDoneWaits, WriteCmdDone,
       hostVars, tlpVars, tableVars
  <2> QED BY <1>1, <1>2, <1>3, <2>1, <2>2, <2>3
<1>8. CASE ReadDoneNext
  <2>1. \E e : WaitFor("readDone", e) \/ Continue("readDone")
    BY <1>8 DEF ReadDoneNext, ReadDoneWaits, ReadDoneIdles, ReadDone, NextRound
  <2>2. "mCompletionTLPRx" \in notified' => "mCompletionTLPRx" \in notified
    BY <1>8 DEF ReadDoneNext, ReadDoneWaits, ReadDoneIdles, ReadDone, PostCompletion, Notify
  <2>3. UNCHANGED <<rdCmdQ, fetchResp, hCmdQSize>>
    BY <1>8 DEF ReadDoneNext, ReadDoneWaits, ReadDoneIdles, ReadDone,
       hostVars, tlpVars, tableVars
  <2> QED BY <1>1, <1>2, <1>3, <2>1, <2>2, <2>3
<1>9. CASE ArbiterNext
  <2>1. \E e : WaitFor("arbiter", e)
    BY <1>9 DEF ArbiterNext, ArbiterIdles, ArbiterSkips, ArbiterSendsRdCmd,
       ArbiterSendsRdData, ArbiterSendsWrData, ArbiterSendsComp, ArbiterSent,
       ArbiterTurn
  <2>2. "mCompletionTLPRx" \in notified' => "mCompletionTLPRx" \in notified
    BY <1>9 DEF ArbiterNext, ArbiterIdles, ArbiterSkips, ArbiterSendsRdCmd,
       ArbiterSendsRdData, ArbiterSendsWrData, ArbiterSendsComp, ArbiterSent,
       Notify, SentEvents
  <2>3. UNCHANGED <<rdCmdQ, fetchResp>>
    BY <1>9 DEF ArbiterNext, ArbiterIdles, ArbiterSkips,
       ArbiterSendsRdData, ArbiterSendsWrData, ArbiterSendsComp, ArbiterSent,
       hostVars, tlpVars
  <2>4. hCmdQSize' = hCmdQSize \/ hCmdQSize' = hCmdQSize - 1
    BY <1>9 DEF ArbiterNext, ArbiterIdles, ArbiterSkips, ArbiterSendsRdCmd,
       ArbiterSendsRdData, ArbiterSendsWrData, ArbiterSendsComp, ArbiterSent,
       ReleaseTag, tableVars
  <2> QED BY <1>1, <1>2, <1>3, <2>1, <2>2, <2>3, <2>4
<1>10. CASE Finished \/ UNCHANGED vars
  BY <1>1, <1>10 DEF Finished, vars, hostVars, tlpVars, tableVars, kernelVars
<1> QED BY <1>4, <1>5, <1>6, <1>7, <1>8, <1>9, <1>10 DEF Next

\* The inductive step.
LEMMA FetchStep ==
  ASSUME IInv, [Next]_vars
  PROVE  FetchFits' /\ FetchThreadSleeps'
<1> DEFINE asleep == /\ waits["memReadReqCmd"] = "mCompletionTLPRx"
                     /\ "memReadReqCmd" \notin run
           answered == "mCompletionTLPRx" \in notified
<1>1. /\ TypeOK /\ FetchFits
      /\ waits \in [Thread -> WaitMark] /\ "memReadReqCmd" \in Thread
      /\ hCmdQSize \in Int /\ fetchResp \in [addr : SQIdx, left : Nat]
      /\ rdCmdQ \in Seq([addr : SQIdx, n : Nat])
  BY DEF IInv, TypeOK, HostTypeOK, TLPTypeOK, TableTypeOK, KernelTypeOK,
     WaitMark, Thread
<1>2. /\ rdCmdQ # <<>> \/ fetchResp.left > 0 \/ answered => asleep
      /\ answered => rdCmdQ = <<>> /\ fetchResp.left = 0
  BY DEF IInv, FetchThreadSleeps
<1>3. /\ Len(rdCmdQ) \in Nat
      /\ rdCmdQ = <<>> <=> Len(rdCmdQ) = 0
      /\ rdCmdQ # <<>> => Len(rdCmdQ) = 1 /\ fetchResp.left = 0
      /\ rdCmdQ # <<>> => Head(rdCmdQ).n \in Nat /\ Tail(rdCmdQ) = <<>>
  <2>1. Len(rdCmdQ) \in Nat /\ (rdCmdQ = <<>> <=> Len(rdCmdQ) = 0)
    BY <1>1, EmptySeq, LenProperties
  <2>2. Len(rdCmdQ) <= 1 /\ (Len(rdCmdQ) = 1 => fetchResp.left = 0)
    BY <1>1 DEF FetchFits
  <2>3. ASSUME rdCmdQ # <<>>
        PROVE  Len(rdCmdQ) = 1 /\ Head(rdCmdQ).n \in Nat /\ Tail(rdCmdQ) = <<>>
    <3>1. /\ Len(rdCmdQ) = 1 /\ Tail(rdCmdQ) = <<>>
          /\ Head(rdCmdQ) \in [addr : SQIdx, n : Nat]
      <4> DEFINE Request == [addr : SQIdx, n : Nat]
      <4>1. rdCmdQ \in Seq(Request)
        BY <1>1
      <4> HIDE DEF Request
      <4>2. Len(rdCmdQ) = 1 /\ Tail(rdCmdQ) = <<>> /\ Head(rdCmdQ) \in Request
        BY <2>2, <2>3, <4>1, OneLong
      <4> QED BY <4>2 DEF Request
    <3> QED BY <3>1
  <2> QED BY <2>1, <2>2, <2>3
<1>4. CASE MemReadReqCmdWaits
  <2>1. rdCmdQ = <<>> /\ fetchResp.left = 0 /\ ~answered
    BY <1>1, <1>2, <1>4 DEF MemReadReqCmdWaits
  <2>2. UNCHANGED <<rdCmdQ, fetchResp, notified, hCmdQSize>>
    BY <1>4 DEF MemReadReqCmdWaits, hostVars, tlpVars, tableVars
  <2> QED BY <1>1, <2>1, <2>2 DEF FetchFits, FetchThreadSleeps, InFetch
<1>5. CASE MemReadReqCmdFetches
  <2> DEFINE tlp == [addr |-> sqHead, n |-> FetchCount]
  <2>1. rdCmdQ = <<>> /\ fetchResp.left = 0 /\ ~answered
    BY <1>1, <1>2, <1>5 DEF MemReadReqCmdFetches
  <2>2. FetchCount \in 1 .. QueueSize - hCmdQSize
    BY <1>1, <1>5, FetchCountFits DEF MemReadReqCmdFetches
  <2>3. rdCmdQ' = <<tlp>>
    BY <1>5, <2>1 DEF MemReadReqCmdFetches
  <2>4. Len(rdCmdQ') = 1 /\ Head(rdCmdQ') = tlp
    BY <2>3
  <2>5. UNCHANGED <<fetchResp, hCmdQSize>>
    BY <1>5 DEF MemReadReqCmdFetches, hostVars, tableVars
  <2>6. FetchFits'
    BY <1>1, <2>1, <2>2, <2>3, <2>4, <2>5, SizesAssumption DEF FetchFits, InFetch
  <2>7. asleep' /\ ~answered'
    BY <1>1, <1>5, <2>1 DEF MemReadReqCmdFetches, WaitFor, Notify
  <2> QED BY <2>6, <2>7 DEF FetchThreadSleeps
<1>6. CASE processCompletionTLPCmd
  <2>1. fetchResp.left > 0 /\ rdCmdQ = <<>> /\ asleep /\ ~answered
    BY <1>1, <1>2, <1>3, <1>6 DEF processCompletionTLPCmd
  <2>2. fetchResp'.left = fetchResp.left - 1 /\ hCmdQSize' = hCmdQSize + 1
    BY <1>6 DEF processCompletionTLPCmd, FillTables
  <2>3. UNCHANGED <<rdCmdQ, waits, run>>
    BY <1>6 DEF processCompletionTLPCmd, tlpVars
  <2>4. answered' => fetchResp.left = 1
    BY <1>6, <2>1 DEF processCompletionTLPCmd, Notify, FetchEvents
  <2>5. FetchFits'
    BY <1>1, <1>3, <2>1, <2>2, <2>3, SizesAssumption DEF FetchFits, InFetch
  <2>6. FetchThreadSleeps'
    BY <1>1, <2>1, <2>2, <2>3, <2>4 DEF FetchThreadSleeps
  <2> QED BY <2>5, <2>6
<1>7. CASE ArbiterSendsRdCmd
  <2>1. rdCmdQ # <<>> /\ rdCmdQ' = <<>> /\ fetchResp'.left = Head(rdCmdQ).n
    BY <1>3, <1>7, ArbiterFindsTLP DEF ArbiterSendsRdCmd
  <2>2. hCmdQSize' = hCmdQSize
    BY <1>7 DEF ArbiterSendsRdCmd, tableVars
  <2>3. asleep /\ ~answered
    BY <1>2, <2>1
  <2>4. asleep' /\ ~answered'
    BY <1>1, <1>7, <2>3 DEF ArbiterSendsRdCmd, ArbiterTurn, WaitFor, Notify
  <2>5. FetchFits'
    BY <1>1, <1>3, <2>1, <2>2, SizesAssumption DEF FetchFits, InFetch
  <2> QED BY <2>4, <2>5 DEF FetchThreadSleeps
<1>8. CASE Delta \/ TimePasses
  <2>1. UNCHANGED <<rdCmdQ, fetchResp, hCmdQSize, waits>>
    BY <1>8 DEF Delta, TimePasses, Tick, hostVars, tlpVars, tableVars
  <2>2. ~answered'
    BY <1>8 DEF Delta, TimePasses, Tick
  <2>3. asleep /\ ~answered => asleep'
    <3>1. CASE Delta
      BY <3>1 DEF Delta, Woken
    <3>2. CASE TimePasses
      <4>1. "mCompletionTLPRx" \notin timed
        BY <1>1 DEF TypeOK, KernelTypeOK, TimedEvent
      <4> QED BY <3>2, <4>1 DEF TimePasses, Tick, Woken
    <3> QED BY <1>8, <3>1, <3>2
  <2>4. FetchFits'
    BY <1>1, <2>1 DEF FetchFits, InFetch
  <2> QED BY <1>2, <2>1, <2>2, <2>3, <2>4 DEF FetchThreadSleeps
<1>9. CASE ~FetchNext /\ ~ArbiterSendsRdCmd /\ ~Delta /\ ~TimePasses
  <2>1. /\ UNCHANGED <<rdCmdQ, fetchResp>>
        /\ hCmdQSize' <= hCmdQSize /\ hCmdQSize' \in Int
        /\ asleep => asleep'
        /\ answered' => answered
    <3>1. hCmdQSize' \in Int
      BY <1>1, TypeStep DEF TypeOK, TableTypeOK
    <3> QED BY <1>1, <1>9, <3>1, OthersLeaveFetch
  <2>2. FetchFits'
    <3>1. InFetch \in Int
      BY <1>1, <1>3 DEF InFetch
    <3>2. InFetch' = InFetch
      BY <2>1 DEF InFetch
    <3>3. /\ Len(rdCmdQ) <= 1 /\ (Len(rdCmdQ) = 1 => fetchResp.left = 0)
          /\ InFetch + hCmdQSize <= QueueSize
      BY <1>1 DEF FetchFits
    <3>4. InFetch' + hCmdQSize' <= QueueSize
      <4>1. /\ hCmdQSize \in Int /\ hCmdQSize' \in Int /\ hCmdQSize' <= hCmdQSize
            /\ QueueSize \in Int
        BY <1>1, <2>1, SizesAssumption
      <4>2. InFetch + hCmdQSize <= QueueSize
        BY <3>3
      <4>3. InFetch + hCmdQSize' <= QueueSize
        BY <3>1, <4>1, <4>2, RoomStays
      <4> QED BY <3>2, <4>3
    <3> QED BY <2>1, <3>3, <3>4 DEF FetchFits
  <2> QED BY <1>2, <2>1, <2>2 DEF FetchThreadSleeps
<1> QED BY <1>4, <1>5, <1>6, <1>7, <1>8, <1>9 DEF FetchNext

(***************************************************************************)
(* The theorems.                                                           *)
(***************************************************************************)

\* The inductive invariant holds in every reachable state.
THEOREM Invariance == Spec => []IInv
<1>1. Init => IInv
  <2>1. Init => FetchFits /\ FetchThreadSleeps
    BY SizesAssumption, EmptySeq DEF Init, HostInit, TLPInit, TableInit, KernelInit,
       NoFetch, FetchFits, InFetch, FetchThreadSleeps
  <2> QED BY <2>1, InitTypeOK DEF IInv
<1>2. IInv /\ [Next]_vars => IInv'
  BY TypeStep, FetchStep DEF IInv
<1> QED BY <1>1, <1>2, PTL DEF Spec

\* Every variable of the command path stays in its type: the tags in all
\* queues, the ring indices, the 16-bit running counts.
THEOREM TypeCorrect == Spec => []TypeOK
<1>1. IInv => TypeOK
  BY DEF IInv
<1> QED BY <1>1, Invariance, PTL

\* What is being fetched always fits beside what mHCmdQSize counts: the host
\* command queue is never overfilled, and processCompletionTLPCmd calls
\* getFreeTag, whose result it ignores, only while mHCmdQSize is below
\* QueueSize.
THEOREM FetchNeverOvercommits == Spec => []FetchFits
<1>1. IInv => FetchFits
  BY DEF IInv
<1> QED BY <1>1, Invariance, PTL

\* memReadReqCmdThread sleeps from asking for entries until the last of
\* them was processed.
THEOREM OneFetchAtATime == Spec => []FetchThreadSleeps
<1>1. IInv => FetchThreadSleeps
  BY DEF IInv
<1> QED BY <1>1, Invariance, PTL

(***************************************************************************)
(* The submission ring: the controller takes over the commands in the      *)
(* order of their submission, each once, for all values of the constants.  *)
(*                                                                         *)
(* Commands are numbered as they are submitted, and command p + 1 lies at  *)
(* place p % SQSize.  Three positions chase each other round the ring:     *)
(* Accepted (taken over) <= Fetched (asked for) <= submitted, less than a  *)
(* round apart; sqHead is the place of Fetched, and the addresses in the   *)
(* read request and its answer are the place of Accepted.                  *)
(***************************************************************************)

(***************************************************************************)
(* Arithmetic of rings.                                                    *)
(***************************************************************************)

\* m is a number of whole rounds of a ring of n places.
Multiple(m, n) == m \in Int /\ \E q \in Int : m = n * q

\* Where the multiple of n below x is known, so is the place of x.
LEMMA PlaceAfterMultiple ==
  ASSUME NEW n \in Nat \ {0}, NEW m, Multiple(m, n), NEW r \in 0 .. n - 1
  PROVE  (m + r) % n = r
  BY DEF Multiple

\* One more round is a multiple, too.
LEMMA NextMultiple ==
  ASSUME NEW n \in Nat \ {0}, NEW m, Multiple(m, n)
  PROVE  Multiple(m + n, n)
<1>1. PICK q \in Int : m = n * q
  BY DEF Multiple
<1>2. n * (q + 1) = n * q + n
  OBVIOUS
<1>3. m + n = n * (q + 1) /\ q + 1 \in Int /\ m + n \in Int
  BY <1>1, <1>2 DEF Multiple
<1>. QED BY <1>3 DEF Multiple

\* Every position is a multiple and its place.
LEMMA MultipleBelow ==
  ASSUME NEW n \in Nat \ {0}, NEW x \in Int
  PROVE  \E m \in Int, r \in 0 .. n - 1 :
           Multiple(m, n) /\ x = m + r /\ x % n = r
<1>1. /\ x = n * (x \div n) + (x % n)
      /\ (x \div n) \in Int /\ x % n \in 0 .. n - 1
  OBVIOUS
<1>2. PICK q \in Int, r \in 0 .. n - 1 : x = n * q + r /\ x % n = r
  BY <1>1
<1>3. n * q \in Int /\ Multiple(n * q, n)
  BY DEF Multiple
<1>. QED BY <1>2, <1>3

\* The place d steps further on.
LEMMA StepsOn ==
  ASSUME NEW n \in Nat \ {0}, NEW x \in Int, NEW d \in 0 .. n - 1
  PROVE  (x + d) % n = IF (x % n) + d < n THEN (x % n) + d ELSE (x % n) + d - n
<1>1. PICK m \in Int, r \in 0 .. n - 1 :
        Multiple(m, n) /\ x = m + r /\ x % n = r
  BY MultipleBelow
<1>2. CASE r + d < n
  <2>1. r + d \in 0 .. n - 1 /\ m + (r + d) = (m + r) + d
    BY <1>2
  <2>2. (m + (r + d)) % n = r + d
    BY <1>1, <2>1, PlaceAfterMultiple
  <2>. QED BY <1>1, <2>1, <2>2, <1>2
<1>3. CASE ~(r + d < n)
  <2>1. r + d - n \in 0 .. n - 1 /\ (m + n) + (r + d - n) = (m + r) + d
    BY <1>3
  <2>2. ((m + n) + (r + d - n)) % n = r + d - n
    BY <1>1, <2>1, NextMultiple, PlaceAfterMultiple
  <2>. QED BY <1>1, <2>1, <2>2, <1>3
<1>. QED BY <1>2, <1>3

\* The last position up to x that has the place of b is b, if x is less than a
\* round ahead.
LEMMA LastAtPlace ==
  ASSUME NEW n \in Nat \ {0}, NEW x \in Int, NEW b \in Int, 0 <= x - b, x - b < n
  PROVE  x - ((x - (b % n)) % n) = b
<1>1. PICK m \in Int, r \in 0 .. n - 1 :
        Multiple(m, n) /\ b = m + r /\ b % n = r
  BY MultipleBelow
<1>2. x - b \in 0 .. n - 1 /\ m + (x - b) = x - r
  BY <1>1
<1>3. (m + (x - b)) % n = x - b
  BY <1>1, <1>2, PlaceAfterMultiple
<1>4. (x - (b % n)) % n = x - b
  BY <1>1, <1>2, <1>3
<1>. QED BY <1>4

\* It has this place, and x is less than a round ahead.
LEMMA LastHasPlace ==
  ASSUME NEW n \in Nat \ {0}, NEW x \in Int, NEW h \in 0 .. n - 1
  PROVE  \E b \in Int : /\ x - ((x - h) % n) = b
                        /\ b % n = h /\ 0 <= x - b /\ x - b < n
<1>. DEFINE y == x - h
<1>0. y \in Int
  OBVIOUS
<1>. HIDE DEF y
<1>1. PICK m \in Int, r \in 0 .. n - 1 :
        Multiple(m, n) /\ y = m + r /\ y % n = r
  BY <1>0, MultipleBelow
<1>2. (m + h) % n = h
  BY <1>1, PlaceAfterMultiple
<1>3. x - r = m + h /\ 0 <= x - (m + h) /\ x - (m + h) < n /\ m + h \in Int
  BY <1>1 DEF y
<1>4. x - (y % n) = m + h
  BY <1>1, <1>3
<1>. QED BY <1>2, <1>3, <1>4 DEF y
\* A step from the place of x is the place of the step from x.
LEMMA StepFromPlace ==
  ASSUME NEW n \in Nat \ {0}, NEW x \in Int, NEW d \in 0 .. n - 1
  PROVE  ((x % n) + d) % n = (x + d) % n
<1>1. PICK m \in Int, r \in 0 .. n - 1 :
        Multiple(m, n) /\ x = m + r /\ x % n = r
  BY MultipleBelow
<1>2. Multiple(0, n) /\ 0 + r = r
  <2>1. 0 = n * 0
    OBVIOUS
  <2>. QED BY <2>1 DEF Multiple
<1>3. r % n = r
  <2>1. (0 + r) % n = r
    BY <1>2, PlaceAfterMultiple
  <2>. QED BY <2>1, <1>2
<1>4. (r + d) % n = IF r + d < n THEN r + d ELSE r + d - n
  BY <1>3, StepsOn
<1>5. (x + d) % n = IF r + d < n THEN r + d ELSE r + d - n
  BY <1>1, StepsOn
<1>. QED BY <1>1, <1>4, <1>5

\* Positions less than a round apart have different places.
LEMMA DifferentPlaces ==
  ASSUME NEW n \in Nat \ {0}, NEW x \in Int, NEW y \in Int, x < y, y - x < n
  PROVE  x % n # y % n
<1>1. PICK r \in 0 .. n - 1 : x % n = r
  BY MultipleBelow
<1>. DEFINE d == y - x
<1>2. d \in 0 .. n - 1 /\ d # 0 /\ y = x + d
  OBVIOUS
<1>. HIDE DEF d
<1>3. y % n = IF r + d < n THEN r + d ELSE r + d - n
  BY <1>1, <1>2, StepsOn
<1>. QED BY <1>1, <1>2, <1>3

\* The elements of a sequence after one is appended.
LEMMA AppendElements ==
  ASSUME NEW S, NEW s \in Seq(S), NEW x
  PROVE  /\ DOMAIN s = 1 .. Len(s) /\ Len(s) \in Nat
         /\ DOMAIN Append(s, x) = 1 .. Len(s) + 1
         /\ \A i \in 1 .. Len(s) : Append(s, x)[i] = s[i]
         /\ Append(s, x)[Len(s) + 1] = x
         /\ \A i \in DOMAIN Append(s, x) :
              \/ Append(s, x)[i] = x
              \/ i \in DOMAIN s /\ Append(s, x)[i] = s[i]
<1>1. s \in Seq(S \cup {x}) /\ x \in S \cup {x}
  BY SeqMonotonic
<1>2. /\ DOMAIN s = 1 .. Len(s) /\ Len(s) \in Nat
      /\ Append(s, x) \in Seq(S \cup {x})
      /\ Len(Append(s, x)) = Len(s) + 1
      /\ \A i \in 1 .. Len(s) : Append(s, x)[i] = s[i]
      /\ Append(s, x)[Len(s) + 1] = x
  BY <1>1, AppendProperties, LenProperties
<1>3. DOMAIN Append(s, x) = 1 .. Len(s) + 1
  BY <1>2, LenProperties
<1>. QED BY <1>2, <1>3

(***************************************************************************)
(* The invariant.                                                          *)
(***************************************************************************)

\* Commands memReadReqCmdThread has asked for.
Fetched == submitted - ((submitted - sqHead) % SQSize)

\* How many entries from sqHead on come before place i.
Ahead(i) == IF i >= sqHead THEN i - sqHead ELSE i - sqHead + SQSize

SubmissionRing ==
  /\ Accepted \in Nat /\ submitted - Accepted < SQSize
  /\ Fetched <= rung /\ rung <= submitted
  /\ \A p \in Accepted .. submitted - 1 : sqMem[p % SQSize] = p + 1
  /\ fetchResp.left > 0 => fetchResp.addr = Accepted % SQSize
  /\ rdCmdQ # <<>> => Head(rdCmdQ).addr = Accepted % SQSize

\* The queued doorbells are ever further ahead, none beyond what was
\* submitted when the last one was rung; and the one memReadReqCmdThread
\* serves is ahead of sqHead, except right after a fetch.
Doorbells ==
  /\ \A i \in DOMAIN tailQ : Ahead(tailQ[i]) <= rung - Fetched
  /\ \A i, j \in DOMAIN tailQ : i < j => Ahead(tailQ[i]) < Ahead(tailQ[j])
  /\ tailQ # <<>> /\ waits["memReadReqCmd"] # "mCompletionTLPRx"
       => Ahead(Head(tailQ)) > 0

\* Only accepted commands are in the tables, in completions and completed.
OnlyAccepted ==
  /\ \A t \in Tag : hostCmd[t] <= Accepted /\ param[t] <= Accepted
  /\ \A i \in DOMAIN compQ : compQ[i].cid <= Accepted
  /\ \A i \in CQIdx : cqMem[i].cid <= Accepted
  /\ \A c \in Cmd : completed[c] > 0 => c <= Accepted

RingInv == SubmissionRing /\ Doorbells /\ OnlyAccepted


(***************************************************************************)
(* Facts about one state.                                                  *)
(***************************************************************************)

\* sqHead is the place of Fetched, less than a round behind submitted.
LEMMA FetchedPlace ==
  ASSUME TypeOK
  PROVE  /\ Fetched \in Int /\ Fetched % SQSize = sqHead
         /\ 0 <= submitted - Fetched /\ submitted - Fetched < SQSize
<1>1. submitted \in Int /\ sqHead \in 0 .. SQSize - 1 /\ SQSize \in Nat \ {0}
  BY SizesAssumption DEF TypeOK, HostTypeOK, FetchTypeOK, SQIdx
<1>. HIDE DEF Fetched
<1>2. PICK b \in Int : /\ submitted - ((submitted - sqHead) % SQSize) = b
                       /\ b % SQSize = sqHead
                       /\ 0 <= submitted - b /\ submitted - b < SQSize
  BY <1>1, LastHasPlace
<1>3. Fetched = b
  BY <1>2 DEF Fetched
<1>. QED BY <1>2, <1>3

\* The numbers the positions are made of, and the one request under way.
LEMMA FetchNumbers ==
  ASSUME IInv
  PROVE  /\ SQSize \in Nat \ {0} /\ submitted \in Nat /\ rung \in Nat
         /\ sqHead \in 0 .. SQSize - 1
         /\ fetchResp \in [addr : SQIdx, left : Nat]
         /\ rdCmdQ # <<>> => /\ Len(rdCmdQ) = 1 /\ Tail(rdCmdQ) = <<>>
                             /\ fetchResp.left = 0
                             /\ Head(rdCmdQ) \in [addr : SQIdx, n : Nat]
         /\ InFetch \in Nat
         /\ Fetched \in Int /\ Accepted = Fetched - InFetch /\ Accepted \in Int
<1>1. /\ SQSize \in Nat \ {0} /\ submitted \in Nat /\ rung \in Nat
      /\ sqHead \in 0 .. SQSize - 1
      /\ fetchResp \in [addr : SQIdx, left : Nat]
      /\ Fetched \in Int
  BY SizesAssumption, FetchedPlace
  DEF IInv, TypeOK, HostTypeOK, FetchTypeOK, SQIdx
<1>2. ASSUME rdCmdQ # <<>>
      PROVE  /\ Len(rdCmdQ) = 1 /\ Tail(rdCmdQ) = <<>>
             /\ fetchResp.left = 0
             /\ Head(rdCmdQ) \in [addr : SQIdx, n : Nat]
  <2>. DEFINE Request == [addr : SQIdx, n : Nat]
  <2>1. rdCmdQ \in Seq(Request) /\ Len(rdCmdQ) <= 1
    BY DEF IInv, TypeOK, TLPTypeOK, FetchFits
  <2>. HIDE DEF Request
  <2>2. Len(rdCmdQ) = 1 /\ Tail(rdCmdQ) = <<>> /\ Head(rdCmdQ) \in Request
    BY <1>2, <2>1, OneLong
  <2>. QED BY <2>2 DEF Request, IInv, FetchFits
<1>3. InFetch \in Nat
  BY <1>1, <1>2 DEF InFetch
<1>4. Accepted = Fetched - InFetch
  BY DEF Accepted, Fetched
<1>. QED BY <1>1, <1>2, <1>3, <1>4

\* No more commands were completed than accepted.
LEMMA CompletedBound ==
  ASSUME IInv, OnlyAccepted, Accepted \in Nat
  PROVE  Cardinality({c \in Cmd : completed[c] > 0}) \in 0 .. Accepted
<1>. DEFINE Done == {c \in Cmd : completed[c] > 0}
<1>1. Done \in SUBSET (1 .. Accepted)
  BY SizesAssumption DEF OnlyAccepted, Cmd
<1>. HIDE DEF Done
<1>2. IsFiniteSet(1 .. Accepted) /\ Cardinality(1 .. Accepted) = Accepted
  BY FS_Interval
<1>3. IsFiniteSet(Done) /\ Cardinality(Done) <= Accepted
  BY <1>1, <1>2, FS_Subset
<1>4. Cardinality(Done) \in Nat
  BY <1>3, FS_CardinalityType
<1>. QED BY <1>3, <1>4 DEF Done

(***************************************************************************)
(* The doorbells.                                                          *)
(***************************************************************************)

\* A place of the ring is less than a round ahead of sqHead; sqHead itself is
\* not ahead.
LEMMA AheadInRing ==
  ASSUME IInv, NEW i \in SQIdx
  PROVE  /\ Ahead(i) \in 0 .. SQSize - 1
         /\ Ahead(i) = 0 <=> i = sqHead
         /\ i # sqHead => NumToFetch(i) = Ahead(i)
  BY FetchNumbers DEF Ahead, NumToFetch, SQIdx

\* What memReadReqCmdThread finds when it looks at the doorbells again: the
\* one it has caught up with is dropped, the next one is ahead.
LEMMA DoorbellsNow ==
  ASSUME IInv, Doorbells
  PROVE  /\ \A i \in DOMAIN TailQNow : Ahead(TailQNow[i]) <= rung - Fetched
         /\ \A i, j \in DOMAIN TailQNow :
              i < j => Ahead(TailQNow[i]) < Ahead(TailQNow[j])
         /\ TailQNow # <<>> => /\ Head(TailQNow) = TailQNow[1]
                               /\ Ahead(Head(TailQNow)) > 0
<1>1. tailQ \in Seq(SQIdx)
  BY DEF IInv, TypeOK, FetchTypeOK
<1>2. CASE TailQNow = tailQ
  <2>1. ASSUME tailQ # <<>>
        PROVE  Head(tailQ) = tailQ[1] /\ Ahead(Head(tailQ)) > 0
    <3>1. Head(tailQ) = tailQ[1] /\ Head(tailQ) \in SQIdx
      BY <1>1, <2>1, HeadTailProperties
    <3>2. CASE waits["memReadReqCmd"] # "mCompletionTLPRx"
      BY <2>1, <3>1, <3>2 DEF Doorbells
    <3>3. CASE waits["memReadReqCmd"] = "mCompletionTLPRx"
      <4>1. Head(tailQ) # sqHead
        <5>1. sqHead = Head(tailQ) => tailQ = Tail(tailQ)
          BY <1>2, <2>1, <3>3 DEF TailQNow
        <5>2. Len(Tail(tailQ)) = Len(tailQ) - 1 /\ Len(tailQ) \in Nat
          BY <1>1, <2>1, HeadTailProperties, LenProperties
        <5>. QED BY <5>1, <5>2
      <4>. QED BY <3>1, <4>1, AheadInRing, FetchNumbers
    <3>. QED BY <3>2, <3>3
  <2>. QED BY <1>2, <2>1 DEF Doorbells
<1>3. CASE TailQNow # tailQ
  <2>1. tailQ # <<>> /\ sqHead = Head(tailQ) /\ TailQNow = Tail(tailQ)
    BY <1>3 DEF TailQNow
  <2>2. /\ Tail(tailQ) \in Seq(SQIdx) /\ Head(tailQ) = tailQ[1] /\ Len(tailQ) \in Nat
        /\ Len(Tail(tailQ)) = Len(tailQ) - 1
        /\ DOMAIN tailQ = 1 .. Len(tailQ)
        /\ DOMAIN Tail(tailQ) = 1 .. Len(tailQ) - 1
        /\ \A i \in 1 .. Len(tailQ) - 1 : Tail(tailQ)[i] = tailQ[i + 1]
    BY <1>1, <2>1, HeadTailProperties, LenProperties
  <2>3. ASSUME Tail(tailQ) # <<>>
        PROVE  /\ Head(Tail(tailQ)) = Tail(tailQ)[1]
               /\ Ahead(Head(Tail(tailQ))) > 0
    <3>1. Head(Tail(tailQ)) = Tail(tailQ)[1] /\ Len(tailQ) > 1
      BY <2>2, <2>3, HeadTailProperties, EmptySeq
    <3>2. Head(Tail(tailQ)) = tailQ[2] /\ 1 \in DOMAIN tailQ /\ 2 \in DOMAIN tailQ
      BY <2>2, <3>1
    <3>3. Ahead(tailQ[1]) < Ahead(tailQ[2])
      BY <3>2 DEF Doorbells
    <3>4. Ahead(tailQ[1]) = 0 /\ tailQ[2] \in SQIdx
      BY <1>1, <2>1, <2>2, <3>2, AheadInRing, ElementOfSeq
    <3>. QED BY <3>1, <3>2, <3>3, <3>4
  <2>. QED BY <2>1, <2>2, <2>3 DEF Doorbells
<1>. QED BY <1>2, <1>3

(***************************************************************************)
(* Steps.                                                                  *)
(***************************************************************************)

\* The state before a step, as the lemmas below need it.
LEMMA RingNumbers ==
  ASSUME IInv, RingInv
  PROVE  /\ Accepted \in Nat /\ Accepted <= Fetched
         /\ Fetched \in Nat /\ Fetched <= rung /\ rung <= submitted
         /\ submitted - Accepted < SQSize
<1>1. Accepted \in Nat /\ submitted - Accepted < SQSize /\ Fetched <= rung /\ rung <= submitted
  BY DEF RingInv, SubmissionRing
<1>2. Fetched \in Int /\ InFetch \in Nat /\ Accepted = Fetched - InFetch
  BY FetchNumbers
<1>. QED BY <1>1, <1>2

\* HostSubmit fills the next free place: the host keeps one of the ring's
\* places free of commands that were not completed.
LEMMA SubmitInRing ==
  ASSUME IInv, RingInv, HostSubmit
  PROVE  SubmissionRing' /\ Doorbells' /\ Accepted' = Accepted
<1>. DEFINE n == SQSize
            place == submitted % n
<1>1. /\ submitted' = submitted + 1
      /\ sqMem' = [sqMem EXCEPT ![submitted % SQSize] = submitted + 1]
      /\ UNCHANGED <<rung, fetchResp, sqHead, tailQ, rdCmdQ, waits>>
      /\ Outstanding < SQSize - 1
  BY DEF HostSubmit, fetchVars, tlpVars, kernelVars
<1>2. sqMem \in [SQIdx -> CmdOrNone] /\ place \in SQIdx
  BY FetchNumbers, SQIdxOfInt DEF IInv, TypeOK, HostTypeOK
<1>3. submitted - Accepted < n - 1
  <2>1. Cardinality({c \in Cmd : completed[c] > 0}) \in 0 .. Accepted
    BY RingNumbers, CompletedBound DEF RingInv
  <2>. QED BY <1>1, <2>1, FetchNumbers, RingNumbers DEF Outstanding
<1>4. Fetched' = Fetched
  <2>1. /\ n \in Nat \ {0} /\ submitted + 1 \in Int /\ Fetched \in Int
        /\ 0 <= (submitted + 1) - Fetched /\ (submitted + 1) - Fetched < n
    BY <1>3, FetchNumbers, RingNumbers
  <2>2. (submitted + 1) - (((submitted + 1) - (Fetched % n)) % n) = Fetched
    BY <2>1, LastAtPlace
  <2>3. Fetched % n = sqHead
    BY FetchedPlace DEF IInv
  <2>4. Fetched' = (submitted + 1) - (((submitted + 1) - sqHead) % n)
    BY <1>1 DEF Fetched
  <2>. QED BY <2>2, <2>3, <2>4, Zenon
<1>5. InFetch' = InFetch
  BY <1>1 DEF InFetch
<1>6. Accepted' = Accepted
  BY <1>4, <1>5, FetchNumbers DEF Accepted, Fetched
<1>7. ASSUME NEW p \in Accepted .. submitted
      PROVE  sqMem'[p % n] = p + 1
  <2>0. p \in Int /\ p % n \in SQIdx
    BY <1>7, FetchNumbers, SQIdxOfInt
  <2>1. CASE p = submitted
    BY <1>1, <1>2, <2>1
  <2>2. CASE p # submitted
    <3>1. p \in Accepted .. submitted - 1 /\ p < submitted /\ submitted - p < n
      BY <2>0, <2>2, <1>3, <1>7, FetchNumbers, RingNumbers
    <3>2. p % n # place
      BY <2>0, <3>1, FetchNumbers, DifferentPlaces
    <3>3. sqMem[p % n] = p + 1
      BY <3>1 DEF RingInv, SubmissionRing
    <3>. QED BY <1>1, <1>2, <2>0, <3>2, <3>3
  <2>. QED BY <2>1, <2>2
<1>8. SubmissionRing'
  <2>1. \A p \in Accepted' .. submitted' - 1 : sqMem'[p % SQSize] = p + 1
    <3>1. Accepted' .. submitted' - 1 = Accepted .. submitted
      BY <1>1, <1>6, FetchNumbers
    <3>. QED BY <1>7, <3>1
  <2>2. Accepted' \in Nat /\ submitted' - Accepted' < SQSize
    BY <1>1, <1>3, <1>6, FetchNumbers, RingNumbers
  <2>3. Fetched' <= rung' /\ rung' <= submitted'
    BY <1>1, <1>4, FetchNumbers, RingNumbers
  <2>. QED BY <1>1, <1>6, <2>1, <2>2, <2>3 DEF SubmissionRing, RingInv
<1>9. Doorbells'
  <2>1. \A i : Ahead(i)' = Ahead(i)
    BY <1>1 DEF Ahead
  <2>. QED BY <1>1, <1>4, <2>1 DEF Doorbells, RingInv
<1>. QED BY <1>6, <1>8, <1>9

\* A tail doorbell names the place of submitted, further ahead than all before.
LEMMA RingDoorbell ==
  ASSUME IInv, RingInv, writeSQ1TDBLReg
  PROVE  SubmissionRing' /\ Doorbells' /\ Accepted' = Accepted
<1>. DEFINE n == SQSize
            tail == submitted % n
<1>1. /\ rung < submitted /\ rung' = submitted
      /\ tailQ' = Append(tailQ, tail)
      /\ UNCHANGED <<submitted, sqMem, fetchResp, sqHead, rdCmdQ, waits>>
  BY DEF writeSQ1TDBLReg, tlpVars
<1>2. Fetched' = Fetched /\ InFetch' = InFetch /\ Accepted' = Accepted
  BY <1>1 DEF Fetched, InFetch, Accepted
<1>3. SubmissionRing'
  BY <1>1, <1>2, FetchNumbers, RingNumbers DEF SubmissionRing, RingInv
<1>4. tail \in SQIdx /\ Ahead(tail) = submitted - Fetched
  <2>. DEFINE d == submitted - Fetched
  <2>1. d \in 0 .. n - 1 /\ Fetched + d = submitted
    BY FetchNumbers, FetchedPlace DEF IInv
  <2>2. (Fetched + d) % n = IF (Fetched % n) + d < n THEN (Fetched % n) + d
                                                     ELSE (Fetched % n) + d - n
    BY <2>1, FetchNumbers, StepsOn
  <2>. HIDE DEF d
  <2>3. tail = IF sqHead + d < n THEN sqHead + d ELSE sqHead + d - n
    BY <2>1, <2>2, FetchedPlace DEF IInv
  <2>4. tail \in SQIdx
    BY FetchNumbers, SQIdxOfInt
  <2>5. Ahead(tail) = d
    BY <2>1, <2>3, FetchNumbers DEF Ahead
  <2>. QED BY <2>4, <2>5 DEF d
<1>5. /\ tailQ \in Seq(SQIdx) /\ Len(tailQ) \in Nat
      /\ DOMAIN tailQ = 1 .. Len(tailQ)
      /\ DOMAIN tailQ' = 1 .. Len(tailQ) + 1
      /\ \A i \in 1 .. Len(tailQ) : tailQ'[i] = tailQ[i]
      /\ tailQ'[Len(tailQ) + 1] = tail
      /\ Head(tailQ') = tailQ'[1]
      /\ tailQ = <<>> <=> Len(tailQ) = 0
  <2>1. tailQ \in Seq(SQIdx)
    BY DEF IInv, TypeOK, FetchTypeOK
  <2>2. tailQ' \in Seq(SQIdx) /\ tailQ' # <<>>
    BY <1>1, <1>4, <2>1, AppendProperties
  <2>. QED BY <1>1, <1>4, <2>1, <2>2, AppendProperties, LenProperties, EmptySeq, HeadTailProperties
<1>6. \A i \in 1 .. Len(tailQ) : Ahead(tailQ[i]) <= rung - Fetched /\ Ahead(tailQ[i]) \in Int
  <2>1. \A i \in 1 .. Len(tailQ) : tailQ[i] \in SQIdx
    BY <1>5
  <2>2. \A i \in 1 .. Len(tailQ) : Ahead(tailQ[i]) \in 0 .. SQSize - 1
    BY <2>1, AheadInRing
  <2>3. \A i \in 1 .. Len(tailQ) : Ahead(tailQ[i]) <= rung - Fetched
    BY <1>5 DEF RingInv, Doorbells
  <2>. QED BY <2>2, <2>3, FetchNumbers
<1>. HIDE DEF tail
<1>7. \A i : Ahead(i)' = Ahead(i)
  BY <1>1 DEF Ahead
<1>8. ASSUME NEW i \in DOMAIN tailQ'
      PROVE  Ahead(tailQ'[i]) <= submitted - Fetched
  BY <1>1, <1>4, <1>5, <1>6, FetchNumbers
<1>9. ASSUME NEW i \in DOMAIN tailQ', NEW j \in DOMAIN tailQ', i < j
      PROVE  Ahead(tailQ'[i]) < Ahead(tailQ'[j])
  <2>1. i \in 1 .. Len(tailQ)
    BY <1>5, <1>9
  <2>2. CASE j = Len(tailQ) + 1
    BY <1>1, <1>4, <1>5, <1>6, <2>1, <2>2, FetchNumbers
  <2>3. CASE j # Len(tailQ) + 1
    <3>1. j \in DOMAIN tailQ
      BY <1>5, <2>3
    <3>. QED BY <1>5, <1>9, <2>1, <3>1 DEF RingInv, Doorbells
  <2>. QED BY <2>2, <2>3
<1>10. ASSUME waits["memReadReqCmd"] # "mCompletionTLPRx"
       PROVE  Ahead(Head(tailQ')) > 0
  <2>1. CASE tailQ = <<>>
    BY <1>1, <1>4, <1>5, <2>1, FetchNumbers, RingNumbers
  <2>2. CASE tailQ # <<>>
    <3>1. Ahead(Head(tailQ)) > 0 /\ Head(tailQ) = tailQ[1]
      BY <1>5, <1>10, <2>2, HeadTailProperties DEF RingInv, Doorbells
    <3>2. 1 \in 1 .. Len(tailQ)
      BY <1>5, <2>2
    <3>. QED BY <1>5, <3>1, <3>2
  <2>. QED BY <2>1, <2>2
<1>11. Doorbells'
  BY <1>1, <1>2, <1>7, <1>8, <1>9, <1>10 DEF Doorbells
<1>. QED BY <1>2, <1>3, <1>11

\* memReadReqCmdThread looks at the doorbells and waits.
LEMMA RingWaits ==
  ASSUME IInv, RingInv, MemReadReqCmdWaits
  PROVE  SubmissionRing' /\ Doorbells' /\ Accepted' = Accepted
<1>1. /\ tailQ' = TailQNow
      /\ UNCHANGED <<submitted, rung, sqMem, fetchResp, sqHead, rdCmdQ>>
  BY DEF MemReadReqCmdWaits, hostVars, tlpVars
<1>2. Fetched' = Fetched /\ InFetch' = InFetch /\ Accepted' = Accepted
  BY <1>1 DEF Fetched, InFetch, Accepted
<1>3. SubmissionRing'
  BY <1>1, <1>2 DEF SubmissionRing, RingInv
<1>4. \A i : Ahead(i)' = Ahead(i)
  BY <1>1 DEF Ahead
<1>5. Doorbells'
  BY <1>1, <1>2, <1>4, DoorbellsNow DEF Doorbells, RingInv
<1>. QED BY <1>2, <1>3, <1>5

\* A fetch starts where the last one ended, asks for entries up to a doorbell
\* at most, and takes sqHead as far as it asks.
LEMMA RingFetch ==
  ASSUME IInv, RingInv, MemReadReqCmdFetches
  PROVE  SubmissionRing' /\ Doorbells' /\ Accepted' = Accepted
<1>. DEFINE n == SQSize
            k == FetchCount
            tail == Head(TailQNow)
            b == Fetched + k
<1>1. /\ tailQ' = TailQNow /\ TailQNow # <<>>
      /\ rdCmdQ' = Append(rdCmdQ, [addr |-> sqHead, n |-> k])
      /\ sqHead' = (sqHead + k) % n
      /\ UNCHANGED <<submitted, rung, sqMem, fetchResp>>
      /\ "memReadReqCmd" \in run /\ waits' = [waits EXCEPT !["memReadReqCmd"] = "mCompletionTLPRx"]
  BY DEF MemReadReqCmdFetches, FetchBlocksOn, WaitFor, hostVars
<1>2. rdCmdQ = <<>> /\ fetchResp.left = 0
  BY <1>1, FetchNumbers DEF IInv, FetchThreadSleeps
<1>3. InFetch = 0 /\ Accepted = Fetched
  <2>1. InFetch = 0
    BY <1>2 DEF InFetch
  <2>. QED BY <2>1, FetchNumbers
<1>4. k \in 1 .. n - 1 /\ k <= Ahead(tail) /\ k <= rung - Fetched
  <2>1. TailQNow \in Seq(SQIdx) /\ tail \in SQIdx
    BY <1>1, TailQNowType DEF IInv, TypeOK
  <2>2. Ahead(tail) > 0 /\ tail = TailQNow[1]
    BY <1>1, DoorbellsNow DEF RingInv
  <2>3. 1 \in DOMAIN TailQNow
    BY <1>1, <2>1, LenProperties, EmptySeq
  <2>4. Ahead(tail) <= rung - Fetched
    BY <2>2, <2>3, DoorbellsNow DEF RingInv
  <2>5. Ahead(tail) \in 1 .. n - 1 /\ NumToFetch(tail) = Ahead(tail)
    BY <2>1, <2>2, AheadInRing
  <2>6. k \in Int /\ 1 <= k
    <3>1. k \in 1 .. QueueSize - hCmdQSize /\ hCmdQSize \in Int
      BY FetchCountFits DEF MemReadReqCmdFetches, IInv, TypeOK, TableTypeOK
    <3>. QED BY <3>1, SizesAssumption
  <2>7. k <= Ahead(tail)
    <3>1. hCmdQSize \in Int
      BY DEF IInv, TypeOK, TableTypeOK
    <3>. QED BY <2>5, <3>1, SizesAssumption DEF FetchCount, getQSpaceLeft
  <2>. QED BY <2>4, <2>5, <2>6, <2>7, FetchNumbers
<1>. HIDE DEF k
<1>5. b = Fetched + k /\ b \in Nat /\ b <= rung /\ 0 <= submitted - b /\ submitted - b < n
  BY <1>4, FetchNumbers, RingNumbers
<1>6. sqHead' = b % n
  <2>1. Fetched % n = sqHead
    BY FetchedPlace DEF IInv
  <2>2. ((Fetched % n) + k) % n = (Fetched + k) % n
    <3>1. k \in 0 .. n - 1
      BY <1>4, FetchNumbers
    <3>. QED BY <3>1, FetchNumbers, StepFromPlace
  <2>. QED BY <1>1, <2>1, <2>2
<1>. HIDE DEF b
<1>7. Fetched' = b
  <2>1. submitted - ((submitted - (b % n)) % n) = b
    BY <1>5, FetchNumbers, LastAtPlace
  <2>2. submitted' = submitted
    BY <1>1
  <2>3. Fetched' = submitted - ((submitted - (b % n)) % n)
    BY <1>6, <2>2, Zenon DEF Fetched
  <2>. QED BY <2>1, <2>3, Zenon
<1>8. rdCmdQ' = <<[addr |-> sqHead, n |-> k]>>
  BY <1>1, <1>2
<1>9. InFetch' = k
  <2>1. rdCmdQ' # <<>> /\ Head(rdCmdQ').n = k
    BY <1>8
  <2>. QED BY <1>1, <1>2, <1>4, <2>1, FetchNumbers DEF InFetch
<1>10. Accepted' = Accepted
  <2>1. Accepted' = Fetched' - InFetch'
    BY DEF Accepted, Fetched
  <2>. QED BY <1>3, <1>4, <1>5, <1>7, <1>9, <2>1, FetchNumbers
<1>11. SubmissionRing'
  <2>1. Head(rdCmdQ').addr = sqHead
    BY <1>8
  <2>2. sqHead = Accepted' % n
    BY <1>3, <1>10, FetchedPlace DEF IInv
  <2>. QED BY <1>1, <1>2, <1>5, <1>7, <1>10, <2>1, <2>2, RingNumbers
       DEF SubmissionRing, RingInv
<1>12. sqHead' = IF sqHead + k < n THEN sqHead + k ELSE sqHead + k - n
  <2>1. (Fetched + k) % n = IF (Fetched % n) + k < n THEN (Fetched % n) + k
                                                     ELSE (Fetched % n) + k - n
    <3>1. k \in 0 .. n - 1
      BY <1>4, FetchNumbers
    <3>. QED BY <3>1, FetchNumbers, StepsOn
  <2>2. Fetched % n = sqHead
    BY FetchedPlace DEF IInv
  <2>. QED BY <1>5, <1>6, <2>1, <2>2
<1>. DEFINE Now(j) == IF j >= sqHead' THEN j - sqHead' ELSE j - sqHead' + n
<1>13. ASSUME NEW j \in 0 .. n - 1, k <= Ahead(j)
       PROVE  Now(j) = Ahead(j) - k
  <2>1. k \in Int /\ k >= 1 /\ sqHead \in 0 .. n - 1 /\ n \in Nat
    BY <1>4, FetchNumbers
  <2>2. CASE j >= sqHead
    BY <1>12, <1>13, <2>1, <2>2 DEF Ahead
  <2>3. CASE ~(j >= sqHead)
    BY <1>12, <1>13, <2>1, <2>3 DEF Ahead
  <2>. QED BY <2>2, <2>3
<1>14. ASSUME NEW i \in DOMAIN TailQNow
       PROVE  /\ TailQNow[i] \in 0 .. n - 1 /\ Ahead(TailQNow[i]) \in 0 .. n - 1
              /\ k <= Ahead(TailQNow[i])
  <2>1. TailQNow \in Seq(SQIdx)
    BY TailQNowType DEF IInv, TypeOK
  <2>2. TailQNow[i] \in SQIdx /\ 1 \in DOMAIN TailQNow /\ i \in Nat \ {0}
    BY <2>1, LenProperties
  <2>3. tail = TailQNow[1] /\ tail \in SQIdx
    BY <1>1, <2>1, <2>2, DoorbellsNow DEF RingInv
  <2>4. Ahead(TailQNow[i]) \in 0 .. n - 1 /\ Ahead(tail) \in 0 .. n - 1
    BY <2>2, <2>3, AheadInRing
  <2>5. k <= Ahead(TailQNow[i])
    <3>1. CASE i = 1
      BY <1>4, <2>3, <3>1
    <3>2. CASE i # 1
      <4>1. Ahead(tail) < Ahead(TailQNow[i])
        BY <2>2, <2>3, <3>2, DoorbellsNow DEF RingInv
      <4>. QED BY <1>4, <2>4, <4>1, FetchNumbers
    <3>. QED BY <3>1, <3>2
  <2>. QED BY <2>2, <2>4, <2>5 DEF SQIdx
<1>15. Doorbells'
  <2>1. rung' - Fetched' = (rung - Fetched) - k
    BY <1>1, <1>4, <1>5, <1>7, FetchNumbers
  <2>2. \A i \in DOMAIN TailQNow : Ahead(TailQNow[i]) <= rung - Fetched
    BY DoorbellsNow DEF RingInv
  <2>3. \A i, j \in DOMAIN TailQNow :
          i < j => Ahead(TailQNow[i]) < Ahead(TailQNow[j])
    BY DoorbellsNow DEF RingInv
  <2>4. \A i \in DOMAIN TailQNow : Now(TailQNow[i]) = Ahead(TailQNow[i]) - k
    BY <1>13, <1>14
  <2>5. \A i \in DOMAIN TailQNow : Now(TailQNow[i]) <= rung' - Fetched'
    BY <1>4, <1>14, <2>1, <2>2, <2>4, FetchNumbers
  <2>6. \A i, j \in DOMAIN TailQNow :
          i < j => Now(TailQNow[i]) < Now(TailQNow[j])
    BY <1>4, <1>14, <2>3, <2>4, FetchNumbers
  <2>7. waits'["memReadReqCmd"] = "mCompletionTLPRx"
    BY <1>1 DEF IInv, TypeOK, KernelTypeOK, Thread
  <2>. QED BY <1>1, <2>5, <2>6, <2>7 DEF Doorbells, Ahead
<1>. QED BY <1>10, <1>11, <1>15

\* The request goes to the root complex as it is.
LEMMA RingRequestSent ==
  ASSUME IInv, RingInv, ArbiterSendsRdCmd
  PROVE  SubmissionRing' /\ Doorbells' /\ Accepted' = Accepted
<1>1. /\ rdCmdQ' = Tail(rdCmdQ) /\ rdCmdQ # <<>>
      /\ fetchResp' = [addr |-> Head(rdCmdQ).addr, left |-> Head(rdCmdQ).n]
      /\ UNCHANGED <<submitted, rung, sqMem, sqHead, tailQ>>
      /\ waits' = [waits EXCEPT !["arbiter"] = "tlpSent"]
  BY ArbiterFindsTLP DEF ArbiterSendsRdCmd, ArbiterTurn, WaitFor, fetchVars
<1>2. rdCmdQ' = <<>> /\ fetchResp.left = 0 /\ Head(rdCmdQ).n \in Nat
  BY <1>1, FetchNumbers
<1>3. InFetch' = InFetch
  BY <1>1, <1>2 DEF InFetch
<1>4. Fetched' = Fetched /\ Accepted' = Accepted
  BY <1>1, <1>3 DEF Fetched, Accepted
<1>5. SubmissionRing'
  BY <1>1, <1>2, <1>4 DEF SubmissionRing, RingInv
<1>6. waits'["memReadReqCmd"] = waits["memReadReqCmd"]
  BY <1>1 DEF IInv, TypeOK, KernelTypeOK
<1>7. \A i : Ahead(i)' = Ahead(i)
  BY <1>1 DEF Ahead
<1>8. Doorbells'
  BY <1>1, <1>4, <1>6, <1>7 DEF Doorbells, RingInv
<1>. QED BY <1>4, <1>5, <1>8

\* processCompletionTLPCmd takes over the next command in the order of
\* submission.
LEMMA RingAccept ==
  ASSUME IInv, RingInv, processCompletionTLPCmd
  PROVE  /\ SubmissionRing' /\ Doorbells' /\ Accepted' = Accepted + 1
         /\ Accepted < submitted
         /\ sqMem[fetchResp.addr] = Accepted + 1
<1>. DEFINE n == SQSize
<1>1. /\ fetchResp.left > 0
      /\ fetchResp' = [addr |-> (fetchResp.addr + 1) % n,
                       left |-> fetchResp.left - 1]
      /\ UNCHANGED <<submitted, rung, sqMem, sqHead, tailQ, rdCmdQ, waits>>
  BY DEF processCompletionTLPCmd, fetchVars, tlpVars
<1>2. rdCmdQ = <<>> /\ InFetch = fetchResp.left
  <2>1. rdCmdQ = <<>>
    BY <1>1, FetchNumbers
  <2>. QED BY <2>1, FetchNumbers DEF InFetch
<1>3. InFetch' = InFetch - 1
  BY <1>1, <1>2, FetchNumbers DEF InFetch
<1>4. Fetched' = Fetched
  BY <1>1 DEF Fetched
<1>5. Accepted' = Accepted + 1
  <2>1. Accepted' = Fetched' - InFetch'
    BY DEF Accepted, Fetched
  <2>. QED BY <1>3, <1>4, <2>1, FetchNumbers
<1>6. Accepted < submitted
  BY <1>1, <1>2, FetchNumbers, RingNumbers
<1>7. fetchResp.addr = Accepted % n
  BY <1>1 DEF RingInv, SubmissionRing
<1>8. sqMem[fetchResp.addr] = Accepted + 1
  <2>1. Accepted \in Accepted .. submitted - 1
    BY <1>6, FetchNumbers
  <2>2. sqMem[Accepted % n] = Accepted + 1
    BY <2>1 DEF RingInv, SubmissionRing
  <2>. QED BY <1>7, <2>2
<1>9. fetchResp'.addr = (Accepted + 1) % n
  <2>1. 1 \in 0 .. n - 1
    BY SizesAssumption
  <2>2. ((Accepted % n) + 1) % n = (Accepted + 1) % n
    BY <2>1, FetchNumbers, StepFromPlace
  <2>. QED BY <1>1, <1>7, <2>2
<1>10. SubmissionRing'
  <2>1. Accepted + 1 \in Nat /\ submitted - (Accepted + 1) < n
    BY FetchNumbers, RingNumbers
  <2>2. \A p \in Accepted + 1 .. submitted - 1 : sqMem[p % n] = p + 1
    <3>1. Accepted + 1 .. submitted - 1 \subseteq Accepted .. submitted - 1
      BY FetchNumbers
    <3>. QED BY <3>1 DEF RingInv, SubmissionRing
  <2>3. Fetched' <= rung' /\ rung' <= submitted'
    BY <1>1, <1>4, RingNumbers
  <2>4. sqMem' = sqMem /\ submitted' = submitted /\ rdCmdQ' = <<>>
    BY <1>1, <1>2
  <2>. QED BY <1>5, <1>9, <2>1, <2>2, <2>3, <2>4 DEF SubmissionRing
<1>11. \A i : Ahead(i)' = Ahead(i)
  BY <1>1 DEF Ahead
<1>12. Doorbells'
  BY <1>1, <1>4, <1>11 DEF Doorbells, RingInv
<1>. QED BY <1>5, <1>6, <1>8, <1>10, <1>12

\* No other step moves a position or a doorbell.
LEMMA RingOthers ==
  ASSUME IInv, RingInv, [Next]_vars,
         ~HostSubmit, ~writeSQ1TDBLReg, ~FetchNext, ~ArbiterSendsRdCmd
  PROVE  /\ UNCHANGED <<submitted, rung, sqMem, fetchResp, sqHead, tailQ, rdCmdQ>>
         /\ SubmissionRing' /\ Doorbells' /\ Accepted' = Accepted
<1>1. UNCHANGED <<submitted, rung, sqMem, fetchResp>>
  <2>1. \/ HostReapCQ \/ writeCQ1HDBLReg \/ ArbiterSendsRdData
        \/ ArbiterSendsWrData \/ ArbiterSendsComp \/ UNCHANGED hostVars
    BY WhoChanges DEF FetchNext
  <2>. QED BY <2>1 DEF HostReapCQ, writeCQ1HDBLReg, ArbiterSendsRdData,
       ArbiterSendsWrData, ArbiterSendsComp, hostVars
<1>2. UNCHANGED <<sqHead, tailQ>>
  BY WhoChanges DEF FetchNext, fetchVars
<1>3. rdCmdQ' = rdCmdQ
  <2>1. \/ \E q \in Slot : RequestWriteData(q) \/ MemReadCompletion(q)
        \/ WriteCmdDone \/ ReadDone \/ ArbiterSkips
        \/ ArbiterSendsRdData \/ ArbiterSendsWrData \/ ArbiterSendsComp
        \/ UNCHANGED tlpVars
    BY WhoChanges DEF FetchNext
  <2>. QED BY <2>1 DEF RequestWriteData, MemReadCompletion, WriteCmdDone,
       ReadDone, ArbiterSkips, ArbiterSendsRdData, ArbiterSendsWrData,
       ArbiterSendsComp, tlpVars
<1>4. waits'["memReadReqCmd"] = waits["memReadReqCmd"]
  <2>1. CASE Delta \/ TimePasses
    BY <2>1 DEF Delta, TimePasses, Tick
  <2>2. CASE ~(Delta \/ TimePasses)
    BY <2>2, OthersLeaveFetch DEF IInv
  <2>. QED BY <2>1, <2>2
<1>5. Fetched' = Fetched /\ InFetch' = InFetch /\ Accepted' = Accepted
  BY <1>1, <1>2, <1>3 DEF Fetched, InFetch, Accepted
<1>6. SubmissionRing'
  BY <1>1, <1>3, <1>5 DEF SubmissionRing, RingInv
<1>7. \A i : Ahead(i)' = Ahead(i)
  BY <1>2 DEF Ahead
<1>8. Doorbells'
  BY <1>1, <1>2, <1>4, <1>5, <1>7 DEF Doorbells, RingInv
<1>. QED BY <1>1, <1>2, <1>3, <1>5, <1>6, <1>8

\* What a step does to the positions.
LEMMA PositionsStep ==
  ASSUME IInv, RingInv, [Next]_vars
  PROVE  /\ SubmissionRing' /\ Doorbells'
         /\ Accepted' = IF processCompletionTLPCmd THEN Accepted + 1 ELSE Accepted
<1>1. CASE processCompletionTLPCmd
  BY <1>1, RingAccept
<1>2. CASE ~processCompletionTLPCmd
  BY <1>2, SubmitInRing, RingDoorbell, RingWaits, RingFetch, RingRequestSent,
     RingOthers DEF FetchNext
<1>. QED BY <1>1, <1>2

\* Commands get into the tables when they are accepted, and from there into
\* completions.
LEMMA OnlyAcceptedStep ==
  ASSUME IInv, RingInv, [Next]_vars
  PROVE  OnlyAccepted'
<1>1. /\ hostCmd \in [Tag -> CmdOrNone] /\ param \in [Tag -> CmdOrNone]
      /\ compQ \in Seq([slot : CQIdx, cid : CmdOrNone, phase : BOOLEAN])
      /\ cqMem \in [CQIdx -> [cid : CmdOrNone, phase : BOOLEAN]]
      /\ completed \in [Cmd -> Nat] /\ hostCqHead \in CQIdx
      /\ tagQ \in Seq(Tag) /\ dmaActive \in Seq(Tag)
      /\ CmdOrNone \subseteq Int
  BY DEF IInv, TypeOK, HostTypeOK, TLPTypeOK, TableTypeOK, DoneTypeOK, CmdOrNone
<1>2. /\ Accepted \in Nat /\ Accepted' \in Nat /\ Accepted <= Accepted'
      /\ processCompletionTLPCmd => Accepted' = Accepted + 1
  BY PositionsStep, RingNumbers
<1>3. /\ OnlyAccepted
      /\ \A t \in Tag : /\ hostCmd[t] \in Int /\ hostCmd[t] <= Accepted'
                        /\ param[t] \in Int /\ param[t] <= Accepted'
      /\ \A i \in DOMAIN compQ : /\ compQ[i].cid \in Int
                                 /\ compQ[i].cid <= Accepted'
  <2>1. OnlyAccepted
    BY DEF RingInv
  <2>2. \A t \in Tag : hostCmd[t] \in CmdOrNone /\ param[t] \in CmdOrNone
    BY <1>1
  <2>3. \A t \in Tag : hostCmd[t] \in Int /\ param[t] \in Int
    BY <1>1, <2>2
  <2>4. \A i \in DOMAIN compQ : compQ[i].cid \in Int
    <3>. DEFINE TLP == [slot : CQIdx, cid : CmdOrNone, phase : BOOLEAN]
    <3>1. compQ \in Seq(TLP)
      BY <1>1
    <3>2. \A x \in TLP : x.cid \in Int
      BY <1>1
    <3>. HIDE DEF TLP
    <3>3. \A i \in DOMAIN compQ : compQ[i] \in TLP
      BY <3>1
    <3>. QED BY <3>2, <3>3
  <2>5. \A x \in Int : x <= Accepted => x <= Accepted'
    BY <1>2
  <2>. QED BY <2>1, <2>3, <2>4, <2>5 DEF OnlyAccepted
<1>4. \A t \in Tag : hostCmd'[t] <= Accepted' /\ param'[t] <= Accepted'
  <2>1. CASE processCompletionTLPCmd
    <3>1. /\ hostCmd' = [hostCmd EXCEPT ![getFreeTag] = Accepted + 1]
          /\ param' = [param EXCEPT ![getFreeTag] = Accepted + 1]
      BY <2>1, RingAccept DEF processCompletionTLPCmd, FillTables
    <3>2. Accepted + 1 <= Accepted'
      BY <1>2, <2>1
    <3>. QED BY <1>1, <1>3, <3>1, <3>2
  <2>2. CASE ArbiterSendsComp
    <3>1. PICK t \in {Head(cmdDoneTagQ)} :
            /\ hostCmd' = [hostCmd EXCEPT ![t] = NoCmd]
            /\ param' = [param EXCEPT ![t] = NoCmd]
      BY <2>2 DEF ArbiterSendsComp, ReleaseTag
    <3>. QED BY <1>1, <1>2, <1>3, <3>1 DEF NoCmd
  <2>3. CASE ~processCompletionTLPCmd /\ ~ArbiterSendsComp
    <3>1. UNCHANGED <<hostCmd, param>>
      <4>1. \/ \E q \in Slot : PendingWriteCmd(q) \/ MemReadCompletion(q)
            \/ UNCHANGED tableVars
        BY <2>3, WhoChanges
      <4>. QED BY <4>1 DEF PendingWriteCmd, MemReadCompletion, tableVars
    <3>. QED BY <1>3, <3>1
  <2>. QED BY <2>1, <2>2, <2>3
<1>5. \A i \in DOMAIN compQ' : compQ'[i].cid <= Accepted'
  <2>. DEFINE TLP == [slot : CQIdx, cid : CmdOrNone, phase : BOOLEAN]
  <2>1. ASSUME NEW t \in Tag, PostCompletion(t)
        PROVE  \A i \in DOMAIN compQ' : compQ'[i].cid <= Accepted'
    <3>1. PICK tlp : compQ' = Append(compQ, tlp) /\ tlp.cid = param[t]
      BY <2>1 DEF PostCompletion
    <3>2. tlp.cid <= Accepted'
      BY <1>3, <3>1
    <3>3. compQ \in Seq(TLP)
      BY <1>1
    <3>. HIDE DEF TLP
    <3>4. \A i \in DOMAIN compQ' :
            \/ compQ'[i] = tlp
            \/ i \in DOMAIN compQ /\ compQ'[i] = compQ[i]
      BY <3>1, <3>3, AppendElements
    <3>. QED BY <1>3, <3>2, <3>4
  <2>2. CASE WriteCmdDone
    <3>1. Head(tagQ) \in Tag /\ PostCompletion(Head(tagQ))
      BY <1>1, <2>2, HeadTailProperties DEF WriteCmdDone
    <3>. QED BY <2>1, <3>1
  <2>3. CASE ReadDone
    <3>1. Head(dmaActive) \in Tag /\ PostCompletion(Head(dmaActive))
      BY <1>1, <2>3, HeadTailProperties DEF ReadDone
    <3>. QED BY <2>1, <3>1
  <2>4. CASE ArbiterSendsComp
    <3>1. compQ' = Tail(compQ) /\ compQ # <<>>
      BY <2>4, ArbiterFindsTLP DEF ArbiterSendsComp
    <3>2. \A i \in DOMAIN compQ' : i + 1 \in DOMAIN compQ /\ compQ'[i] = compQ[i + 1]
      <4>1. compQ \in Seq(TLP)
        BY <1>1
      <4>. HIDE DEF TLP
      <4>. QED BY <3>1, <4>1, HeadTailProperties, LenProperties
    <3>. QED BY <1>3, <3>2
  <2>5. CASE ~WriteCmdDone /\ ~ReadDone /\ ~ArbiterSendsComp
    <3>1. compQ' = compQ
      <4>1. \/ MemReadReqCmdFetches
            \/ \E q \in Slot : RequestWriteData(q) \/ MemReadCompletion(q)
            \/ ArbiterSkips \/ ArbiterSendsRdCmd \/ ArbiterSendsRdData
            \/ ArbiterSendsWrData \/ UNCHANGED tlpVars
        BY <2>5, WhoChanges
      <4>. QED BY <4>1 DEF MemReadReqCmdFetches, RequestWriteData,
           MemReadCompletion, ArbiterSkips, ArbiterSendsRdCmd,
           ArbiterSendsRdData, ArbiterSendsWrData, tlpVars
    <3>. QED BY <1>3, <3>1
  <2>. QED BY <2>2, <2>3, <2>4, <2>5
<1>6. \A i \in CQIdx : cqMem'[i].cid <= Accepted'
  <2>1. CASE ArbiterSendsComp
    <3>1. compQ # <<>> /\ cqMem' = [cqMem EXCEPT ![Head(compQ).slot] =
                                      [cid |-> Head(compQ).cid, phase |-> Head(compQ).phase]]
      BY <2>1, ArbiterFindsTLP DEF ArbiterSendsComp
    <3>2. Head(compQ) = compQ[1] /\ 1 \in DOMAIN compQ
      BY <1>1, <3>1, HeadTailProperties, LenProperties, EmptySeq
    <3>3. Head(compQ).cid <= Accepted
      BY <1>3, <3>2 DEF OnlyAccepted
    <3>4. Head(compQ).cid \in Int
      BY <1>3, <3>2
    <3>5. \A i \in CQIdx : cqMem[i].cid \in Int /\ cqMem[i].cid <= Accepted
      BY <1>1, <1>3 DEF OnlyAccepted
    <3>. QED BY <1>1, <1>2, <3>1, <3>3, <3>4, <3>5
  <2>2. CASE ~ArbiterSendsComp
    <3>1. cqMem' = cqMem
      <4>1. \/ HostSubmit \/ HostReapCQ \/ writeSQ1TDBLReg \/ writeCQ1HDBLReg
            \/ processCompletionTLPCmd \/ ArbiterSendsRdCmd
            \/ ArbiterSendsRdData \/ ArbiterSendsWrData \/ UNCHANGED hostVars
        BY <2>2, WhoChanges
      <4>. QED BY <4>1 DEF HostSubmit, HostReapCQ, writeSQ1TDBLReg,
           writeCQ1HDBLReg, processCompletionTLPCmd, ArbiterSendsRdCmd,
           ArbiterSendsRdData, ArbiterSendsWrData, hostVars
    <3>2. \A i \in CQIdx : cqMem[i].cid \in Int
      BY <1>1
    <3>. QED BY <1>2, <1>3, <3>1, <3>2 DEF OnlyAccepted
  <2>. QED BY <2>1, <2>2
<1>7. \A c \in Cmd : completed'[c] > 0 => c <= Accepted'
  <2>1. CASE HostReapCQ
    <3>. DEFINE cid == cqMem[hostCqHead].cid
    <3>1. completed' = [completed EXCEPT ![cid] = @ + 1]
      BY <2>1 DEF HostReapCQ
    <3>2. cid <= Accepted
      BY <1>1, <1>3 DEF OnlyAccepted
    <3>. HIDE DEF cid
    <3>. QED BY <1>1, <1>2, <1>3, <3>1, <3>2, SizesAssumption DEF OnlyAccepted, Cmd
  <2>2. CASE ~HostReapCQ
    <3>1. completed' = completed
      <4>1. \/ HostSubmit \/ writeSQ1TDBLReg \/ writeCQ1HDBLReg
            \/ processCompletionTLPCmd \/ ArbiterSendsRdCmd
            \/ ArbiterSendsRdData \/ ArbiterSendsWrData \/ ArbiterSendsComp
            \/ UNCHANGED hostVars
        BY <2>2, WhoChanges
      <4>. QED BY <4>1 DEF HostSubmit, writeSQ1TDBLReg,
           writeCQ1HDBLReg, processCompletionTLPCmd, ArbiterSendsRdCmd,
           ArbiterSendsRdData, ArbiterSendsWrData, ArbiterSendsComp, hostVars
    <3>. QED BY <1>2, <1>3, <3>1, SizesAssumption DEF OnlyAccepted, Cmd
  <2>. QED BY <2>1, <2>2
<1>. QED BY <1>4, <1>5, <1>6, <1>7 DEF OnlyAccepted

(***************************************************************************)
(* The theorem.                                                            *)
(***************************************************************************)

\* HostCmdQueueMgr and the doorbells: the ring the controller reads is always
\* the host's, each fetched place holds the next command in the order of
\* submission, and no command reaches the tables or the host's completions
\* before it was taken over.
THEOREM RingInvariance == Spec => []RingInv
<1>1. Init => RingInv
  <2>. SUFFICES ASSUME Init PROVE RingInv
    OBVIOUS
  <2>1. TypeOK
    BY InitTypeOK
  <2>2. Fetched = 0
    <3>1. submitted = 0 /\ sqHead = 0
      BY DEF Init, HostInit
    <3>2. 0 % SQSize = 0
      BY SizesAssumption
    <3>. QED BY <3>1, <3>2 DEF Fetched
  <2>3. InFetch = 0
    BY DEF Init, HostInit, TLPInit, NoFetch, InFetch
  <2>4. Accepted = 0
    <3>1. Accepted = Fetched - InFetch
      BY DEF Accepted, Fetched
    <3>. QED BY <2>2, <2>3, <3>1
  <2>5. SubmissionRing
    BY <2>2, <2>4, SizesAssumption DEF Init, HostInit, TLPInit, NoFetch, SubmissionRing
  <2>6. Doorbells
    BY DEF Init, Doorbells
  <2>7. OnlyAccepted
    BY <2>4 DEF Init, HostInit, TLPInit, TableInit, NoCmd, OnlyAccepted, Cmd
  <2>. QED BY <2>5, <2>6, <2>7 DEF RingInv
<1>2. IInv /\ RingInv /\ [Next]_vars => RingInv'
  BY PositionsStep, OnlyAcceptedStep DEF RingInv
<1>. QED BY <1>1, <1>2, Invariance, PTL DEF Spec
===============================================================================
