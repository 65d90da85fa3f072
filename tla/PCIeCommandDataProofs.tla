------------------------- MODULE PCIeCommandDataProofs -------------------------
(***************************************************************************)
(* A write is reported only after its data crossed the link, every code    *)
(* word of it, if the PCMDQ has room for all that may be under way.        *)
(*                                                                         *)
(* The hypothesis is needed: pcmdQInsertThread starts again at the base    *)
(* address of the command after it had to wait for space, and some code    *)
(* words are then read from the places of others.                          *)
(***************************************************************************)
EXTENDS PCIeCommandServiceProofs

\* The PCMDQ (its size is set by queueFactor) holds all code words of any
\* commands that may be in the host command queue together.
CodeWords(S) == {w \in S \X Count16 : w[2] < Cnt[w[1]]}
RoomyPCMDQ ==
  \A S \in SUBSET Cmd :
    Cardinality(S) <= QueueSize => Cardinality(CodeWords(S)) <= PcmdqSize

(***************************************************************************)
(* The PCMDQ is never full when a sub-command is to be inserted.           *)
(***************************************************************************)

\* What the command itself says of its count and its kind.
LEMMA CommandItself ==
  ASSUME NEW c \in Cmd
  PROVE  CmdCnt(c) = Cnt[c] /\ Cnt[c] \in Count16 /\ Cnt[c] \in Nat /\ CmdKind(c) = Kind[c]
<1>1. c # NoCmd
  BY DEF Cmd, NoCmd
<1>2. CmdCnt(c) = Cnt[c] /\ CmdKind(c) = Kind[c]
  BY <1>1 DEF CmdCnt, CmdKind
<1>3. CmdCnt(c) \in Count16 /\ Count16 \subseteq Nat
  BY CommandCounts
<1>. QED BY <1>2, <1>3

\* A code word that is under way is one of a command that holds a tag.
LEMMA CodeWordUnderWay ==
  ASSUME TypeOK, TagInv, NEW t \in Tag, tagTable[t], NEW i \in Nat,
         i < CmdCnt(hostCmd[t])
  PROVE  <<hostCmd[t], i>> \in CodeWords(ActiveCmds)
<1>1. hostCmd[t] \in ActiveCmds /\ ActiveCmds \subseteq Cmd
  BY ActiveCount DEF TagInv, TagAccounting, ActiveCmds, BusyTags
<1>2. PICK c \in Cmd : c = hostCmd[t]
  BY <1>1
<1>3. i < Cnt[c] /\ Cnt[c] \in Count16
  BY <1>2, CommandItself
<1>4. i \in Count16
  <2>1. Width16 \in Nat
    BY DEF Width16
  <2>. QED BY <1>3, <2>1 DEF Count16
<1>. QED BY <1>1, <1>2, <1>3, <1>4 DEF CodeWords

\* The live entries are code words of the commands that hold a tag, each
\* another one, and the sub-command to be inserted is one more.
LEMMA NeverFull ==
  ASSUME RoomyPCMDQ, TypeOK, TagInv, JobActive
  PROVE  ~PcmdqFull
<1>. SUFFICES ASSUME PcmdqFull PROVE FALSE
  OBVIOUS
<1>. DEFINE next == <<job.cmd, job.idx>>
            f == [q \in Slot |-> <<pcmdq[q].cmd, pcmdq[q].idx>>]
            Words == CodeWords(ActiveCmds)
<1>1. next \in Words
  BY CodeWordUnderWay, TagTypes DEF TagInv, InsertOwned, JobActive
<1>2. ASSUME NEW q \in Slot
      PROVE  f[q] \in Words \ {next}
  <2>1. /\ Live(q) /\ tagTable[pcmdq[q].tag]
        /\ hostCmd[pcmdq[q].tag] = pcmdq[q].cmd
        /\ pcmdq[q].idx < CmdCnt(pcmdq[q].cmd)
    BY DEF PcmdqFull, TagInv, LiveSubCmdsOwned
  <2>2. f[q] \in Words
    BY <2>1, CodeWordUnderWay, TagTypes
  <2>3. pcmdq[q].cmd = job.cmd => pcmdq[q].tag = job.tag
    BY <2>1, TagTypes DEF TagInv, InsertOwned, TagAccounting, BusyTags
  <2>4. pcmdq[q].cmd = job.cmd => pcmdq[q].idx < job.idx
    BY <2>1, <2>3 DEF TagInv, InsertOwned
  <2>5. pcmdq[q].cmd = job.cmd => pcmdq[q].idx # job.idx
    BY <2>4, TagTypes
  <2>. QED BY <2>2, <2>5
<1>3. ASSUME NEW q \in Slot, NEW r \in Slot, f[q] = f[r]
      PROVE  q = r
  BY <1>3 DEF PcmdqFull, TagInv, LiveSubCmdsOwned
<1>4. f \in Injection(Slot, Words \ {next})
  <2>1. f \in [Slot -> Words \ {next}]
    BY <1>2
  <2>. QED BY <1>3, <2>1 DEF Injection, IsInjective
<1>. HIDE DEF next, f
<1>5. IsFiniteSet(Words) /\ Cardinality(Words) <= PcmdqSize
  <2>1. ActiveCmds \in SUBSET Cmd /\ Cardinality(ActiveCmds) <= QueueSize
    BY ActiveCount, SizesAssumption
  <2>2. IsFiniteSet(Cmd) /\ IsFiniteSet(Count16)
    <3>1. Width16 \in Nat
      BY DEF Width16
    <3>. QED BY <3>1, SizesAssumption, FS_Interval DEF Cmd, Count16
  <2>3. IsFiniteSet(Cmd \X Count16)
    BY <2>2, FS_Product
  <2>4. Words \subseteq Cmd \X Count16
    BY <2>1 DEF CodeWords
  <2>. QED BY <2>1, <2>3, <2>4, FS_Subset DEF RoomyPCMDQ
<1>. HIDE DEF Words
<1>6. /\ IsFiniteSet(Words \ {next})
      /\ Cardinality(Words \ {next}) = Cardinality(Words) - 1
  BY <1>1, <1>5, FS_RemoveElement
<1>7. Cardinality(Slot) = PcmdqSize /\ PcmdqSize \in Nat
  <2>1. Cardinality(0 .. PcmdqSize - 1) = PcmdqSize
    BY SizesAssumption, FS_Interval
  <2>. QED BY <2>1, SizesAssumption DEF Slot
<1>8. PcmdqSize <= Cardinality(Words) - 1
  BY <1>4, <1>6, <1>7, FS_Injection
<1>9. Cardinality(Words) \in Nat
  BY <1>5, FS_CardinalityType
<1>. QED BY <1>5, <1>7, <1>8, <1>9

(***************************************************************************)
(* What a step does to one entry of the PCMDQ.                             *)
(***************************************************************************)
Kept(r) ==
  /\ pcmdq'[r].cmd = pcmdq[r].cmd /\ pcmdq'[r].idx = pcmdq[r].idx
  /\ pcmdq'[r].off = pcmdq[r].off /\ pcmdq'[r].tag = pcmdq[r].tag

\* An entry is filled once, goes on from state to state by the steps of its
\* sub-command, and is emptied once.
LEMMA EntryStep ==
  ASSUME TypeOK, [Next]_vars, NEW r \in Slot
  PROVE  \/ PcmdQInsertStrips /\ r = getFreeQueueAddr
         \/ PendingWriteCmd(r) \/ MemReadCompletion(r)
         \/ /\ Kept(r)
            /\ \/ pcmdq'[r].st = pcmdq[r].st
               \/ RequestWriteData(r) \/ WriteDataArrives(r)
               \/ MemReadCompletionWaits(r)
               \/ ArbiterSendsRdData /\ r = Head(rdDataQ).slot
               \/ Delta /\ pcmdq[r].st = "dmaWait"
               \/ TimePasses /\ pcmdq[r].st = "programming"
<1>1. pcmdq \in [Slot -> [st : SubState, cmd : CmdOrNone, idx : Nat,
                          off : Nat, tag : Tag]]
  BY DEF TypeOK, PcmdTypeOK
<1>2. \/ processCompletionTLPCmd \/ PcmdQInsertTakes \/ PcmdQInsertStrips
      \/ \E q \in Slot : SubCmdNext(q)
      \/ ArbiterSendsRdData \/ Delta \/ TimePasses \/ UNCHANGED pcmdVars
  BY WhoChanges
<1>3. CASE processCompletionTLPCmd \/ PcmdQInsertTakes \/ UNCHANGED pcmdVars
  BY <1>3 DEF processCompletionTLPCmd, PcmdQInsertTakes, pcmdVars, Kept
<1>4. CASE PcmdQInsertStrips
  <2>1. r # getFreeQueueAddr => pcmdq'[r] = pcmdq[r]
    BY <1>1, <1>4 DEF PcmdQInsertStrips
  <2>. QED BY <1>4, <2>1 DEF Kept
<1>5. ASSUME NEW q, NEW s, SetState(q, s)
      PROVE  Kept(r) /\ (r # q => pcmdq'[r].st = pcmdq[r].st)
  BY <1>1, <1>5 DEF SetState, Kept
<1>6. ASSUME NEW q \in Slot, SubCmdNext(q)
      PROVE  \/ PendingWriteCmd(r) \/ MemReadCompletion(r)
             \/ /\ Kept(r)
                /\ \/ pcmdq'[r].st = pcmdq[r].st
                   \/ RequestWriteData(r) \/ WriteDataArrives(r)
                   \/ MemReadCompletionWaits(r)
  <2>1. CASE RequestWriteData(q) \/ WriteDataArrives(q) \/ MemReadCompletionWaits(q)
    <3>1. \E s : SetState(q, s)
      BY <2>1 DEF RequestWriteData, WriteDataArrives, MemReadCompletionWaits
    <3>2. Kept(r) /\ (r # q => pcmdq'[r].st = pcmdq[r].st)
      BY <1>5, <3>1
    <3>. QED BY <2>1, <3>2
  <2>2. CASE PendingWriteCmd(q) \/ MemReadCompletion(q)
    <3>1. r # q => pcmdq'[r] = pcmdq[r]
      BY <1>1, <2>2 DEF PendingWriteCmd, MemReadCompletion, FinishSubCmd
    <3>2. r # q => Kept(r) /\ pcmdq'[r].st = pcmdq[r].st
      BY <3>1 DEF Kept
    <3>. QED BY <2>2, <3>2
  <2>. QED BY <1>6, <2>1, <2>2 DEF SubCmdNext
<1>7. CASE ArbiterSendsRdData
  <2>1. SetState(Head(rdDataQ).slot, "fetching")
    BY <1>7 DEF ArbiterSendsRdData
  <2>2. Kept(r) /\ (r # Head(rdDataQ).slot => pcmdq'[r].st = pcmdq[r].st)
    BY <1>5, <2>1
  <2>. QED BY <1>7, <2>2
<1>8. CASE Delta \/ TimePasses
  <2>1. pcmdq'[r].off = pcmdq[r].off
    BY <1>1, <1>8 DEF Delta, TimePasses, Tick
  <2>2. /\ pcmdq'[r].cmd = pcmdq[r].cmd /\ pcmdq'[r].idx = pcmdq[r].idx
        /\ pcmdq'[r].tag = pcmdq[r].tag
        /\ \/ pcmdq'[r].st = pcmdq[r].st
           \/ Delta /\ pcmdq[r].st = "dmaWait"
           \/ TimePasses /\ pcmdq[r].st = "programming"
    BY <1>8, KernelKeepsEntries
  <2>. QED BY <2>1, <2>2 DEF Kept
<1>. QED BY <1>2, <1>3, <1>4, <1>6, <1>7, <1>8

(***************************************************************************)
(* The invariant.                                                          *)
(***************************************************************************)

\* A command whose completion is in the completion queue, or was seen by the
\* host, has given its tag back.
Released ==
  /\ \A i \in CQIdx : cqMem[i].cid \notin ActiveCmds
  /\ \A c \in Cmd : completed[c] > 0 => c \notin ActiveCmds

\* Sub-commands, and the requests and data made for them, have the offsets of
\* their code words: pcmdQInsertThread never waited for space.
OffsetsRight ==
  /\ waits["pcmdQInsert"] # "mCmdQNotFull"
  /\ job.off = job.idx
  /\ \A q \in Slot : Live(q) => pcmdq[q].off = pcmdq[q].idx
  /\ \A i \in DOMAIN rdDataQ :
       /\ rdDataQ[i].cmd = pcmdq[rdDataQ[i].slot].cmd
       /\ rdDataQ[i].off = pcmdq[rdDataQ[i].slot].idx
  /\ \A i \in DOMAIN wrDataQ : CmdKind(wrDataQ[i].cmd) = "READ"

\* Code word i of write c is still to be asked for: c waits to be stripped,
\* is being stripped and has not come to i, or the sub-command is in the PCMDQ
\* and its data has not left the host.
StillToAsk(c, i) ==
  \/ \E k \in DOMAIN insertQ : insertQ[k].cmd = c
  \/ job.cmd = c /\ job.idx <= i
  \/ \E q \in Slot : /\ pcmdq[q].cmd = c /\ pcmdq[q].idx = i
                     /\ pcmdq[q].st \in {"linked", "requested"}

\* Of a write the controller has taken over each code word was moved or is
\* still to be asked for, and no data but its own code words is moved for it.
DataAsked ==
  \A c \in Cmd : Kind[c] = "WRITE" =>
    /\ moved[c] \subseteq 0 .. Cnt[c] - 1
    /\ c <= Accepted =>
         \A i \in 0 .. Cnt[c] - 1 : i \in moved[c] \/ StillToAsk(c, i)

DataInv == Released /\ OffsetsRight /\ DataAsked

(***************************************************************************)
(* Steps.                                                                  *)
(***************************************************************************)

\* A tag is given back before the completion is written, and a command is
\* accepted only once.
LEMMA ReleasedStep ==
  ASSUME IInv, RingInv, TagInv, Released, [Next]_vars
  PROVE  Released'
<1>1. TypeOK
  BY DEF IInv
<1>2. /\ cqMem \in [CQIdx -> [cid : CmdOrNone, phase : BOOLEAN]]
      /\ completed \in [Cmd -> Nat] /\ hostCqHead \in CQIdx
  BY <1>1 DEF TypeOK, HostTypeOK
<1>3. ~ArbiterSendsComp => cqMem' = cqMem
  BY WhoChanges DEF HostSubmit, HostReapCQ, writeSQ1TDBLReg, writeCQ1HDBLReg,
     processCompletionTLPCmd, ArbiterSendsRdCmd, ArbiterSendsRdData,
     ArbiterSendsWrData, hostVars
<1>4. CASE processCompletionTLPCmd
  <2>1. ActiveCmds' = ActiveCmds \cup {Accepted + 1} /\ Accepted \in Nat
    BY <1>4, AcceptActive, RingNumbers
  <2>2. UNCHANGED <<cqMem, completed>>
    BY <1>4 DEF processCompletionTLPCmd
  <2>3. \A i \in CQIdx : cqMem[i].cid <= Accepted /\ cqMem[i].cid \in Int
    BY <1>2 DEF RingInv, OnlyAccepted, CmdOrNone
  <2>4. \A i \in CQIdx : cqMem[i].cid # Accepted + 1
    BY <2>1, <2>3
  <2>5. \A c \in Cmd : completed[c] > 0 => c # Accepted + 1
    BY <2>1 DEF RingInv, OnlyAccepted, Cmd
  <2>. QED BY <2>1, <2>2, <2>4, <2>5 DEF Released
<1>5. CASE ArbiterSendsComp
  <2>1. ActiveCmds' = ActiveCmds \ {Head(compQ).cid}
    BY <1>1, <1>5, ReleaseActive
  <2>2. cqMem' = [cqMem EXCEPT ![Head(compQ).slot] =
                    [cid |-> Head(compQ).cid, phase |-> Head(compQ).phase]]
    BY <1>5 DEF ArbiterSendsComp
  <2>3. completed' = completed
    BY <1>5 DEF ArbiterSendsComp
  <2>4. \A i \in CQIdx : cqMem'[i].cid \in {cqMem[i].cid, Head(compQ).cid}
    BY <1>2, <2>2
  <2>. QED BY <2>1, <2>3, <2>4 DEF Released
<1>6. CASE HostReapCQ
  <2>1. UNCHANGED <<tagTable, param, cqMem>>
    BY <1>6 DEF HostReapCQ, tableVars
  <2>2. ActiveCmds' = ActiveCmds
    BY <2>1 DEF ActiveCmds, BusyTags
  <2>3. \A c \in Cmd : completed'[c] > 0 =>
          completed[c] > 0 \/ c = cqMem[hostCqHead].cid
    BY <1>2, <1>6 DEF HostReapCQ
  <2>. QED BY <1>2, <2>1, <2>2, <2>3 DEF Released
<1>7. CASE ~processCompletionTLPCmd /\ ~ArbiterSendsComp /\ ~HostReapCQ
  <2>1. ActiveCmds' = ActiveCmds /\ UNCHANGED <<cqMem, completed>>
    BY <1>1, <1>3, <1>7, OthersActive, OnlyHostReaps
  <2>. QED BY <2>1 DEF Released
<1>. QED BY <1>4, <1>5, <1>6, <1>7

\* Only its own thread changes what pcmdQInsertThread waits for, and it waits
\* for space only when it finds none.
LEMMA InsertWaits ==
  ASSUME TypeOK, [Next]_vars, ~PcmdQInsertBlocks,
         waits["pcmdQInsert"] # "mCmdQNotFull"
  PROVE  waits'["pcmdQInsert"] # "mCmdQNotFull"
<1>1. waits \in [Thread -> WaitMark] /\ "pcmdQInsert" \in Thread
  BY DEF TypeOK, KernelTypeOK, WaitMark, Thread
<1>2. ASSUME NEW p \in Thread \ {"pcmdQInsert"}, NEW e,
             WaitFor(p, e) \/ Continue(p)
      PROVE  waits'["pcmdQInsert"] = waits["pcmdQInsert"]
  BY <1>1, <1>2 DEF WaitFor, Continue
<1>3. {"memReadReqCmd", "writeCmdDone", "readDone", "arbiter"}
         \subseteq Thread \ {"pcmdQInsert"}
  BY DEF Thread
<1>4. CASE HostNext \/ (\E q \in Slot : SubCmdNext(q)) \/ Delta \/ TimePasses
           \/ processCompletionTLPCmd \/ Finished \/ UNCHANGED vars
  <2>1. waits' = waits
    BY <1>4 DEF HostNext, HostSubmit, HostReapCQ, writeSQ1TDBLReg,
       writeCQ1HDBLReg, SubCmdNext, RequestWriteData, WriteDataArrives,
       PendingWriteCmd, MemReadCompletionWaits, MemReadCompletion, Delta,
       TimePasses, Tick, processCompletionTLPCmd, Finished, vars, kernelVars
  <2>. QED BY <2>1
<1>5. CASE MemReadReqCmdWaits \/ MemReadReqCmdFetches
  <2>1. \E e : WaitFor("memReadReqCmd", e)
    BY <1>5 DEF MemReadReqCmdWaits, MemReadReqCmdFetches
  <2>. QED BY <1>2, <1>3, <2>1
<1>6. CASE InsertNext
  BY <1>1, <1>6 DEF InsertNext, PcmdQInsertIdles, PcmdQInsertTakes,
     PcmdQInsertStrips, WaitFor, Continue
<1>7. CASE WriteDoneNext
  <2>1. \E e : WaitFor("writeCmdDone", e) \/ Continue("writeCmdDone")
    BY <1>7 DEF WriteDoneNext, WriteCmdDoneWaits, WriteCmdDone, NextRound
  <2>. QED BY <1>2, <1>3, <2>1
<1>8. CASE ReadDoneNext
  <2>1. \E e : WaitFor("readDone", e) \/ Continue("readDone")
    BY <1>8 DEF ReadDoneNext, ReadDoneWaits, ReadDoneIdles, ReadDone, NextRound
  <2>. QED BY <1>2, <1>3, <2>1
<1>9. CASE ArbiterNext
  <2>1. \E e : WaitFor("arbiter", e)
    BY <1>9 DEF ArbiterNext, ArbiterIdles, ArbiterSkips, ArbiterSendsRdCmd,
       ArbiterSendsRdData, ArbiterSendsWrData, ArbiterSendsComp, ArbiterSent,
       ArbiterTurn
  <2>. QED BY <1>2, <1>3, <2>1
<1>. QED BY <1>4, <1>5, <1>6, <1>7, <1>8, <1>9 DEF Next, FetchNext

\* The TLP queues of the data: what is pushed and what is sent.
LEMMA DataQueues ==
  ASSUME [Next]_vars
  PROVE  /\ \/ \E q \in Slot : RequestWriteData(q)
            \/ ArbiterSendsRdData
            \/ rdDataQ' = rdDataQ
         /\ \/ \E q \in Slot : MemReadCompletion(q)
            \/ ArbiterSendsWrData
            \/ wrDataQ' = wrDataQ
<1>1. \/ MemReadReqCmdFetches
      \/ \E q \in Slot : RequestWriteData(q) \/ MemReadCompletion(q)
      \/ WriteCmdDone \/ ReadDone \/ ArbiterSkips \/ ArbiterSendsRdCmd
      \/ ArbiterSendsRdData \/ ArbiterSendsWrData \/ ArbiterSendsComp
      \/ UNCHANGED tlpVars
  BY WhoChanges
<1>. QED BY <1>1 DEF MemReadReqCmdFetches, RequestWriteData, MemReadCompletion,
     WriteCmdDone, ReadDone, ArbiterSkips, ArbiterSendsRdCmd,
     ArbiterSendsRdData, ArbiterSendsWrData, ArbiterSendsComp, tlpVars

\* What a data TLP is made of.
LEMMA DataTLPOwned ==
  ASSUME TagInv, OffsetsRight, NEW q \in Slot, Live(q)
  PROVE  /\ DataTLP(q).slot = q /\ DataTLP(q).cmd = pcmdq[q].cmd
         /\ DataTLP(q).off = pcmdq[q].idx
  BY DEF DataTLP, TagInv, LiveSubCmdsOwned, OffsetsRight

\* An entry whose data was requested stays as it is until the data is sent.
LEMMA RequestedKept ==
  ASSUME TypeOK, [Next]_vars, NEW r \in Slot, pcmdq[r].st = "requested"
  PROVE  Kept(r)
<1>1. Live(r) /\ (PcmdQInsertStrips => r # getFreeQueueAddr)
  BY FreeQueueAddr DEF Live, PcmdQInsertStrips
<1>2. ~PendingWriteCmd(r) /\ ~MemReadCompletion(r)
  BY DEF PendingWriteCmd, MemReadCompletion
<1>. QED BY <1>1, <1>2, EntryStep

\* The offsets stay right: there is always room, so OffsetNow is what the
\* thread counted.
LEMMA OffsetsStep ==
  ASSUME RoomyPCMDQ, TypeOK, TagInv, RequestsOwned, OffsetsRight, [Next]_vars
  PROVE  OffsetsRight'
<1>. DEFINE TLP == [slot : Slot, cmd : CmdOrNone, off : Nat]
<1>1. /\ rdDataQ \in Seq(TLP) /\ wrDataQ \in Seq(TLP) /\ \A x \in TLP : x.slot \in Slot
      /\ job \in [cmd : CmdOrNone, tag : Tag, idx : Nat, off : Nat]
      /\ pcmdq \in [Slot -> [st : SubState, cmd : CmdOrNone, idx : Nat,
                             off : Nat, tag : Tag]]
  BY DEF TypeOK, TLPTypeOK, PcmdTypeOK
<1>. HIDE DEF TLP
<1>2. waits'["pcmdQInsert"] # "mCmdQNotFull"
  <2>1. ~PcmdQInsertBlocks
    BY NeverFull DEF PcmdQInsertBlocks
  <2>. QED BY <2>1, InsertWaits DEF OffsetsRight
<1>3. OffsetNow = job.idx
  BY DEF OffsetNow, OffsetsRight
<1>4. job'.off = job'.idx
  <2>1. PcmdQInsertTakes \/ PcmdQInsertStrips \/ job' = job
    BY WhoChanges DEF processCompletionTLPCmd, SubCmdNext, RequestWriteData,
       WriteDataArrives, PendingWriteCmd, MemReadCompletionWaits,
       MemReadCompletion, ArbiterSendsRdData, Delta, TimePasses, Tick, pcmdVars
  <2>. QED BY <1>3, <2>1 DEF PcmdQInsertTakes, PcmdQInsertStrips, OffsetsRight
<1>5. ASSUME NEW r \in Slot, pcmdq'[r].st # "free"
      PROVE  pcmdq'[r].off = pcmdq'[r].idx
  <2>1. CASE PcmdQInsertStrips /\ r = getFreeQueueAddr
    <3>1. pcmdq'[r] = [st |-> "linked", cmd |-> job.cmd, idx |-> job.idx,
                       off |-> OffsetNow, tag |-> job.tag]
      BY <1>1, <2>1 DEF PcmdQInsertStrips
    <3>. QED BY <1>3, <3>1
  <2>2. CASE PendingWriteCmd(r) \/ MemReadCompletion(r)
    <3>1. pcmdq'[r] = FreeEntry
      BY <1>1, <2>2 DEF PendingWriteCmd, MemReadCompletion, FinishSubCmd
    <3>. QED BY <1>5, <3>1 DEF FreeEntry
  <2>3. CASE /\ Kept(r)
             /\ \/ pcmdq'[r].st = pcmdq[r].st
                \/ RequestWriteData(r) \/ WriteDataArrives(r)
                \/ MemReadCompletionWaits(r)
                \/ ArbiterSendsRdData /\ r = Head(rdDataQ).slot
                \/ Delta /\ pcmdq[r].st = "dmaWait"
                \/ TimePasses /\ pcmdq[r].st = "programming"
    <3>1. ArbiterSendsRdData /\ r = Head(rdDataQ).slot => pcmdq[r].st = "requested"
      BY <1>1, ArbiterFindsTLP, PopElements DEF ArbiterSendsRdData, RequestsOwned
    <3>2. pcmdq[r].st # "free"
      BY <1>5, <2>3, <3>1 DEF RequestWriteData, WriteDataArrives,
         MemReadCompletionWaits
    <3>. QED BY <2>3, <3>2 DEF OffsetsRight, Live, Kept
  <2>. QED BY <2>1, <2>2, <2>3, EntryStep
<1>6. ASSUME NEW x \in TLP, pcmdq[x.slot].st = "requested",
             x.cmd = pcmdq[x.slot].cmd, x.off = pcmdq[x.slot].idx
      PROVE  x.cmd = pcmdq'[x.slot].cmd /\ x.off = pcmdq'[x.slot].idx
  BY <1>1, <1>6, RequestedKept DEF Kept
<1>7. ASSUME NEW i \in DOMAIN rdDataQ
      PROVE  /\ rdDataQ[i].cmd = pcmdq'[rdDataQ[i].slot].cmd
             /\ rdDataQ[i].off = pcmdq'[rdDataQ[i].slot].idx
  <2>1. rdDataQ[i] \in TLP
    BY <1>1, ElementOfSeq
  <2>. QED BY <1>6, <2>1 DEF OffsetsRight, RequestsOwned
<1>8. ASSUME NEW i \in DOMAIN rdDataQ'
      PROVE  /\ rdDataQ'[i].cmd = pcmdq'[rdDataQ'[i].slot].cmd
             /\ rdDataQ'[i].off = pcmdq'[rdDataQ'[i].slot].idx
  <2>1. CASE rdDataQ' = rdDataQ
    BY <1>7, <1>8, <2>1
  <2>2. ASSUME NEW q \in Slot, RequestWriteData(q)
        PROVE  /\ rdDataQ'[i].cmd = pcmdq'[rdDataQ'[i].slot].cmd
               /\ rdDataQ'[i].off = pcmdq'[rdDataQ'[i].slot].idx
    <3>1. /\ Live(q) /\ rdDataQ' = Append(rdDataQ, DataTLP(q))
          /\ SetState(q, "requested")
      BY <2>2 DEF RequestWriteData, Live
    <3>2. rdDataQ'[i] = DataTLP(q) \/ (i \in DOMAIN rdDataQ /\ rdDataQ'[i] = rdDataQ[i])
      BY <1>1, <1>8, <3>1, AppendElements
    <3>3. /\ DataTLP(q).slot = q
          /\ DataTLP(q).cmd = pcmdq'[q].cmd /\ DataTLP(q).off = pcmdq'[q].idx
      BY <3>1, DataTLPOwned, SetStateEffect
    <3>. QED BY <1>7, <3>2, <3>3
  <2>3. CASE ArbiterSendsRdData
    <3>1. rdDataQ # <<>> /\ rdDataQ' = Tail(rdDataQ)
      BY <2>3, ArbiterFindsTLP DEF ArbiterSendsRdData
    <3>2. i + 1 \in DOMAIN rdDataQ /\ rdDataQ'[i] = rdDataQ[i + 1]
      BY <1>1, <1>8, <3>1, PopElements
    <3>. QED BY <1>7, <3>2
  <2>. QED BY <2>1, <2>2, <2>3, DataQueues
<1>9. ASSUME NEW i \in DOMAIN wrDataQ'
      PROVE  CmdKind(wrDataQ'[i].cmd) = "READ"
  <2>1. CASE wrDataQ' = wrDataQ
    BY <1>9, <2>1 DEF OffsetsRight
  <2>2. ASSUME NEW q \in Slot, MemReadCompletion(q)
        PROVE  CmdKind(wrDataQ'[i].cmd) = "READ"
    <3>1. /\ Live(q) /\ wrDataQ' = Append(wrDataQ, DataTLP(q))
          /\ CmdKind(pcmdq[q].cmd) = "READ"
      BY <2>2 DEF MemReadCompletion, Live
    <3>2. wrDataQ'[i] = DataTLP(q) \/ (i \in DOMAIN wrDataQ /\ wrDataQ'[i] = wrDataQ[i])
      BY <1>1, <1>9, <3>1, AppendElements
    <3>3. DataTLP(q).cmd = pcmdq[q].cmd
      BY <3>1, DataTLPOwned
    <3>. QED BY <3>1, <3>2, <3>3 DEF OffsetsRight
  <2>3. CASE ArbiterSendsWrData
    <3>1. wrDataQ # <<>> /\ wrDataQ' = Tail(wrDataQ)
      BY <2>3, ArbiterFindsTLP DEF ArbiterSendsWrData
    <3>2. i + 1 \in DOMAIN wrDataQ /\ wrDataQ'[i] = wrDataQ[i + 1]
      BY <1>1, <1>9, <3>1, PopElements
    <3>. QED BY <3>2 DEF OffsetsRight
  <2>. QED BY <2>1, <2>2, <2>3, DataQueues
<1>. QED BY <1>2, <1>4, <1>5, <1>8, <1>9 DEF OffsetsRight, Live

\* The data the arbiter fetches from the host is that of the entry which asked
\* for it.
LEMMA ReadSent ==
  ASSUME TypeOK, RequestsOwned, OffsetsRight, ArbiterSendsRdData
  PROVE  /\ Head(rdDataQ).slot \in Slot
         /\ pcmdq[Head(rdDataQ).slot].st = "requested"
         /\ moved' = [moved EXCEPT ![pcmdq[Head(rdDataQ).slot].cmd] =
                        @ \cup {pcmdq[Head(rdDataQ).slot].idx}]
<1>. DEFINE TLP == [slot : Slot, cmd : CmdOrNone, off : Nat]
<1>1. rdDataQ \in Seq(TLP) /\ \A x \in TLP : x.slot \in Slot
  BY DEF TypeOK, TLPTypeOK
<1>. HIDE DEF TLP
<1>2. rdDataQ # <<>>
  BY ArbiterFindsTLP DEF ArbiterSendsRdData
<1>3. Head(rdDataQ) \in TLP /\ Head(rdDataQ) = rdDataQ[1] /\ 1 \in DOMAIN rdDataQ
  BY <1>1, <1>2, PopElements
<1>4. /\ pcmdq[Head(rdDataQ).slot].st = "requested"
      /\ Head(rdDataQ).cmd = pcmdq[Head(rdDataQ).slot].cmd
      /\ Head(rdDataQ).off = pcmdq[Head(rdDataQ).slot].idx
  BY <1>3 DEF RequestsOwned, OffsetsRight
<1>5. moved' = [moved EXCEPT ![Head(rdDataQ).cmd] = @ \cup {Head(rdDataQ).off}]
  BY DEF ArbiterSendsRdData
<1>. QED BY <1>1, <1>3, <1>4, <1>5

\* For a write no data crosses the link but the code words it asked for.
LEMMA MovedStep ==
  ASSUME TypeOK, TagInv, RequestsOwned, OffsetsRight, [Next]_vars,
         NEW c \in Cmd, Kind[c] = "WRITE"
  PROVE  \/ moved'[c] = moved[c]
         \/ \E q \in Slot : /\ Live(q) /\ pcmdq[q].cmd = c
                            /\ moved'[c] = moved[c] \cup {pcmdq[q].idx}
<1>1. moved \in [Cmd -> SUBSET Nat]
  BY DEF TypeOK, HostTypeOK
<1>2. ArbiterSendsRdData \/ ArbiterSendsWrData \/ moved' = moved
  BY WhoChanges DEF HostSubmit, HostReapCQ, writeSQ1TDBLReg, writeCQ1HDBLReg,
     processCompletionTLPCmd, ArbiterSendsRdCmd, ArbiterSendsComp, hostVars
<1>3. CASE ArbiterSendsRdData
  <2>1. PICK q \in Slot : /\ pcmdq[q].st = "requested"
                          /\ moved' = [moved EXCEPT ![pcmdq[q].cmd] =
                                         @ \cup {pcmdq[q].idx}]
    BY <1>3, ReadSent
  <2>2. pcmdq[q].cmd # c => moved'[c] = moved[c]
    BY <1>1, <2>1
  <2>3. pcmdq[q].cmd = c => moved'[c] = moved[c] \cup {pcmdq[q].idx}
    BY <1>1, <2>1
  <2>4. Live(q)
    BY <2>1 DEF Live
  <2>. QED BY <2>2, <2>3, <2>4
<1>4. CASE ArbiterSendsWrData
  <2>. DEFINE TLP == [slot : Slot, cmd : CmdOrNone, off : Nat]
  <2>1. wrDataQ \in Seq(TLP)
    BY DEF TypeOK, TLPTypeOK
  <2>. HIDE DEF TLP
  <2>2. wrDataQ # <<>>
    BY <1>4, ArbiterFindsTLP DEF ArbiterSendsWrData
  <2>3. Head(wrDataQ) = wrDataQ[1] /\ 1 \in DOMAIN wrDataQ
    BY <2>1, <2>2, PopElements
  <2>4. CmdKind(Head(wrDataQ).cmd) = "READ"
    BY <2>3 DEF OffsetsRight
  <2>5. Head(wrDataQ).cmd # c
    BY <2>4 DEF CmdKind, NoCmd, Cmd
  <2>6. moved' = [moved EXCEPT ![Head(wrDataQ).cmd] = @ \cup {Head(wrDataQ).off}]
    BY <1>4 DEF ArbiterSendsWrData
  <2>. QED BY <1>1, <2>5, <2>6
<1>. QED BY <1>2, <1>3, <1>4

\* A code word is to be asked for until its data was moved.
LEMMA AskedStays ==
  ASSUME TypeOK, TagInv, RequestsOwned, OffsetsRight, [Next]_vars,
         NEW c \in Cmd, Kind[c] = "WRITE", NEW i \in 0 .. Cnt[c] - 1,
         StillToAsk(c, i)
  PROVE  StillToAsk(c, i)' \/ i \in moved'[c]
<1>. DEFINE Entry == [cmd : CmdOrNone, tag : Tag]
<1>1. /\ insertQ \in Seq(Entry) /\ \A x \in Entry : x.cmd \in CmdOrNone
      /\ job \in [cmd : CmdOrNone, tag : Tag, idx : Nat, off : Nat]
      /\ pcmdq \in [Slot -> [st : SubState, cmd : CmdOrNone, idx : Nat,
                             off : Nat, tag : Tag]]
      /\ moved \in [Cmd -> SUBSET Nat]
      /\ i \in Nat /\ CmdCnt(c) = Cnt[c] /\ Cnt[c] \in Nat /\ i < Cnt[c]
      /\ CmdKind(c) = "WRITE"
  <2>1. CmdCnt(c) = Cnt[c] /\ Cnt[c] \in Nat /\ CmdKind(c) = "WRITE"
    BY CommandItself
  <2>. QED BY <2>1 DEF TypeOK, PcmdTypeOK, HostTypeOK
<1>. HIDE DEF Entry
<1>2. \/ processCompletionTLPCmd \/ PcmdQInsertTakes \/ PcmdQInsertStrips
      \/ UNCHANGED <<insertQ, job>>
  BY WhoChanges DEF SubCmdNext, RequestWriteData, WriteDataArrives,
     PendingWriteCmd, MemReadCompletionWaits, MemReadCompletion,
     ArbiterSendsRdData, Delta, TimePasses, Tick, pcmdVars
<1>3. ASSUME NEW k \in DOMAIN insertQ, insertQ[k].cmd = c
      PROVE  StillToAsk(c, i)'
  <2>1. CASE insertQ' = insertQ
    BY <1>3, <2>1 DEF StillToAsk
  <2>2. CASE processCompletionTLPCmd
    <3>1. PICK x : insertQ' = Append(insertQ, x)
      BY <2>2 DEF processCompletionTLPCmd
    <3>2. k \in DOMAIN insertQ' /\ insertQ'[k] = insertQ[k]
      BY <1>1, <3>1, AppendElements
    <3>. QED BY <1>3, <3>2 DEF StillToAsk
  <2>3. CASE PcmdQInsertTakes
    <3>1. /\ insertQ # <<>> /\ insertQ' = Tail(insertQ)
          /\ job'.cmd = Head(insertQ).cmd /\ job'.idx = 0
      BY <2>3 DEF PcmdQInsertTakes
    <3>2. CASE k = 1
      <4>1. job'.cmd = c
        BY <1>1, <1>3, <3>1, <3>2, PopElements
      <4>. QED BY <1>1, <3>1, <4>1 DEF StillToAsk
    <3>3. CASE k # 1
      <4>1. PICK j \in DOMAIN insertQ' : k = j + 1
        BY <1>1, <3>1, <3>3, PopElements
      <4>2. insertQ'[j] = insertQ[k]
        BY <1>1, <3>1, <4>1, PopElements
      <4>. QED BY <1>3, <4>2 DEF StillToAsk
    <3>. QED BY <3>2, <3>3
  <2>4. CASE PcmdQInsertStrips
    BY <2>1, <2>4 DEF PcmdQInsertStrips
  <2>. QED BY <1>2, <2>1, <2>2, <2>3, <2>4
<1>4. ASSUME job.cmd = c, job.idx <= i
      PROVE  StillToAsk(c, i)'
  <2>1. CASE job' = job
    BY <1>4, <2>1 DEF StillToAsk
  <2>2. CASE processCompletionTLPCmd
    BY <2>1, <2>2 DEF processCompletionTLPCmd
  <2>3. CASE PcmdQInsertTakes
    <3>1. JobActive
      BY <1>1, <1>4 DEF JobActive
    <3>. QED BY <2>3, <3>1 DEF PcmdQInsertTakes
  <2>4. CASE PcmdQInsertStrips
    <3>1. job'.cmd = c /\ job'.idx = job.idx + 1
      BY <1>4, <2>4 DEF PcmdQInsertStrips
    <3>2. CASE job.idx = i
      <4>1. PICK q \in Slot : q = getFreeQueueAddr
        BY <2>4, FreeQueueAddr DEF PcmdQInsertStrips
      <4>2. pcmdq'[q] = [st |-> "linked", cmd |-> job.cmd, idx |-> job.idx,
                         off |-> OffsetNow, tag |-> job.tag]
        BY <1>1, <2>4, <4>1 DEF PcmdQInsertStrips
      <4>3. /\ pcmdq'[q].cmd = c /\ pcmdq'[q].idx = i
            /\ pcmdq'[q].st \in {"linked", "requested"}
        BY <1>4, <3>2, <4>2
      <4>. QED BY <4>3 DEF StillToAsk
    <3>3. CASE job.idx # i
      <4>1. job'.idx <= i
        BY <1>1, <1>4, <3>1, <3>3
      <4>. QED BY <3>1, <4>1 DEF StillToAsk
    <3>. QED BY <3>2, <3>3
  <2>. QED BY <1>2, <2>1, <2>2, <2>3, <2>4
<1>5. ASSUME NEW q \in Slot, pcmdq[q].cmd = c, pcmdq[q].idx = i,
             pcmdq[q].st \in {"linked", "requested"}
      PROVE  StillToAsk(c, i)' \/ i \in moved'[c]
  <2>1. Live(q) /\ ~(PcmdQInsertStrips /\ q = getFreeQueueAddr)
    BY <1>5, FreeQueueAddr DEF Live, PcmdQInsertStrips
  <2>2. ~PendingWriteCmd(q) /\ ~MemReadCompletion(q) /\ ~MemReadCompletionWaits(q)
        /\ ~WriteDataArrives(q)
    BY <1>1, <1>5 DEF PendingWriteCmd, MemReadCompletion, MemReadCompletionWaits,
       WriteDataArrives
  <2>3. /\ Kept(q)
        /\ \/ pcmdq'[q].st = pcmdq[q].st \/ RequestWriteData(q)
           \/ ArbiterSendsRdData /\ q = Head(rdDataQ).slot
    BY <1>5, <2>1, <2>2, EntryStep
  <2>4. ASSUME pcmdq'[q].st \in {"linked", "requested"}
        PROVE  StillToAsk(c, i)'
    BY <1>5, <2>3, <2>4 DEF StillToAsk, Kept
  <2>5. CASE RequestWriteData(q)
    <3>1. pcmdq'[q].st = "requested"
      BY <1>1, <2>5 DEF RequestWriteData, SetState
    <3>. QED BY <2>4, <3>1
  <2>6. CASE ArbiterSendsRdData /\ q = Head(rdDataQ).slot
    <3>1. moved' = [moved EXCEPT ![c] = @ \cup {i}]
      BY <1>5, <2>6, ReadSent
    <3>. QED BY <1>1, <3>1
  <2>. QED BY <1>5, <2>3, <2>4, <2>5, <2>6
<1>. QED BY <1>3, <1>4, <1>5 DEF StillToAsk

\* The inductive step for the data.
LEMMA DataAskedStep ==
  ASSUME IInv, RingInv, TagInv, RequestsOwned, OffsetsRight, DataAsked,
         [Next]_vars
  PROVE  DataAsked'
<1>1. TypeOK
  BY DEF IInv
<1>2. ASSUME NEW c \in Cmd, Kind[c] = "WRITE"
      PROVE  moved[c] \subseteq moved'[c] /\ moved'[c] \subseteq 0 .. Cnt[c] - 1
  <2>1. CASE moved'[c] = moved[c]
    BY <1>2, <2>1 DEF DataAsked
  <2>2. ASSUME NEW q \in Slot, Live(q), pcmdq[q].cmd = c,
               moved'[c] = moved[c] \cup {pcmdq[q].idx}
        PROVE  moved[c] \subseteq moved'[c] /\ moved'[c] \subseteq 0 .. Cnt[c] - 1
    <3>1. pcmdq[q].idx < CmdCnt(c) /\ pcmdq[q].idx \in Nat
      BY <1>1, <2>2, TagTypes DEF TagInv, LiveSubCmdsOwned
    <3>2. CmdCnt(c) = Cnt[c] /\ Cnt[c] \in Nat
      BY CommandItself
    <3>3. pcmdq[q].idx \in 0 .. Cnt[c] - 1
      BY <3>1, <3>2
    <3>. QED BY <1>2, <2>2, <3>3 DEF DataAsked
  <2>. QED BY <1>1, <1>2, <2>1, <2>2, MovedStep
<1>3. ASSUME NEW c \in Cmd, Kind[c] = "WRITE", c <= Accepted',
             NEW i \in 0 .. Cnt[c] - 1
      PROVE  i \in moved'[c] \/ StillToAsk(c, i)'
  <2>1. CASE c <= Accepted
    <3>1. i \in moved[c] \/ StillToAsk(c, i)
      BY <1>3, <2>1 DEF DataAsked
    <3>. QED BY <1>1, <1>2, <1>3, <3>1, AskedStays
  <2>2. CASE ~(c <= Accepted)
    <3>1. processCompletionTLPCmd /\ Accepted' = Accepted + 1
      BY <1>3, <2>2, PositionsStep
    <3>2. Accepted \in Nat /\ sqMem[fetchResp.addr] = Accepted + 1
      BY <3>1, RingAccept, RingNumbers
    <3>3. c = Accepted + 1
      BY <1>3, <2>2, <3>1, <3>2 DEF Cmd
    <3>. DEFINE Entry == [cmd : CmdOrNone, tag : Tag]
    <3>4. insertQ \in Seq(Entry)
      BY <1>1 DEF TypeOK, PcmdTypeOK
    <3>. HIDE DEF Entry
    <3>5. PICK x : insertQ' = Append(insertQ, x) /\ x.cmd = c
      BY <3>1, <3>2, <3>3 DEF processCompletionTLPCmd
    <3>6. /\ Len(insertQ) + 1 \in DOMAIN insertQ'
          /\ insertQ'[Len(insertQ) + 1] = x
      BY <3>4, <3>5, AppendElements
    <3>. QED BY <3>5, <3>6 DEF StillToAsk
  <2>. QED BY <2>1, <2>2
<1>. QED BY <1>2, <1>3 DEF DataAsked

\* Nothing is accepted, asked for or completed in the beginning.
LEMMA DataInit == Init => DataInv
<1>. SUFFICES ASSUME Init PROVE DataInv
  OBVIOUS
<1>1. Released
  <2>1. BusyTags = {} /\ ActiveCmds = {}
    BY DEF Init, TableInit, BusyTags, ActiveCmds
  <2>. QED BY <2>1 DEF Released
<1>2. OffsetsRight
  <2>1. DOMAIN rdDataQ = {} /\ DOMAIN wrDataQ = {}
    <3>1. DOMAIN <<>> = {}
      OBVIOUS
    <3>. QED BY <3>1 DEF Init, TLPInit
  <2>2. waits["pcmdQInsert"] # "mCmdQNotFull"
    BY DEF Init, KernelInit, FirstWait, Thread
  <2>3. job.off = job.idx /\ \A q \in Slot : ~Live(q)
    BY DEF Init, PcmdInit, NoJob, FreeEntry, Live
  <2>. QED BY <2>1, <2>2, <2>3 DEF OffsetsRight
<1>3. DataAsked
  <2>1. \A c \in Cmd : moved[c] = {}
    BY DEF Init, HostInit
  <2>2. \A c \in Cmd : ~(c <= Accepted)
    <3>1. submitted = 0 /\ sqHead = 0 /\ rdCmdQ = <<>> /\ fetchResp.left = 0
      BY DEF Init, HostInit, TLPInit, NoFetch
    <3>2. (0 - 0) % SQSize = 0
      BY SizesAssumption
    <3>3. Accepted = 0
      BY <3>1, <3>2 DEF Accepted, InFetch
    <3>. QED BY <3>3 DEF Cmd
  <2>. QED BY <2>1, <2>2 DEF DataAsked
<1>. QED BY <1>1, <1>2, <1>3 DEF DataInv

(***************************************************************************)
(* The theorems.                                                           *)
(***************************************************************************)

\* The invariant of the data: offsets are right, each code word of an accepted
\* write is accounted for, and reported commands have no tag.
THEOREM DataInvariance ==
  ASSUME RoomyPCMDQ
  PROVE  Spec => []DataInv
<1>1. Init => DataInv
  BY DataInit
<1>2. IInv /\ RingInv /\ RequestsOwned /\ TagInv /\ DataInv /\ [Next]_vars
        => DataInv'
  <2>. SUFFICES ASSUME IInv, RingInv, RequestsOwned, TagInv, DataInv, [Next]_vars
                PROVE  DataInv'
    OBVIOUS
  <2>1. TypeOK /\ Released /\ OffsetsRight /\ DataAsked
    BY DEF IInv, DataInv
  <2>. QED BY <2>1, ReleasedStep, OffsetsStep, DataAskedStep DEF DataInv
<1>. QED BY <1>1, <1>2, Invariance, RingInvariance, RequestsInvariance,
         TagInvariance, PTL DEF Spec

\* A write the host sees as completed was read from the host's buffer
\* completely, each code word from its own place: once its tag is given back
\* nothing of it waits in mHCmdQueue, pcmdQInsertThread or the PCMDQ.
THEOREM WritesComplete ==
  ASSUME RoomyPCMDQ
  PROVE  Spec => []WriteDataComplete
<1>1. TypeOK /\ RingInv /\ TagInv /\ DataInv => WriteDataComplete
  <2>. SUFFICES ASSUME TypeOK, RingInv, TagInv, DataInv,
                       NEW c \in Cmd, completed[c] > 0, Kind[c] = "WRITE"
                PROVE  moved[c] = 0 .. Cnt[c] - 1
    BY DEF WriteDataComplete
  <2>1. c <= Accepted /\ c \notin ActiveCmds
    BY DEF RingInv, OnlyAccepted, DataInv, Released
  <2>2. ASSUME NEW t \in Tag, tagTable[t], hostCmd[t] = c
        PROVE  FALSE
    BY <2>1, <2>2 DEF TagInv, TagAccounting, ActiveCmds, BusyTags
  <2>3. ASSUME NEW i \in 0 .. Cnt[c] - 1
        PROVE  ~StillToAsk(c, i)
    <3>1. ASSUME NEW k \in DOMAIN insertQ, insertQ[k].cmd = c
          PROVE  FALSE
      BY <2>2, <3>1, TagTypes DEF TagInv, InsertOwned
    <3>2. ASSUME job.cmd = c, job.idx <= i
          PROVE  FALSE
      <4>1. CmdCnt(c) = Cnt[c] /\ Cnt[c] \in Nat /\ job.idx \in Nat
        BY CommandItself, TagTypes
      <4>2. JobActive
        BY <3>2, <4>1 DEF JobActive
      <4>. QED BY <2>2, <3>2, <4>2, TagTypes DEF TagInv, InsertOwned
    <3>3. ASSUME NEW q \in Slot, pcmdq[q].cmd = c,
                 pcmdq[q].st \in {"linked", "requested"}
          PROVE  FALSE
      <4>1. Live(q)
        BY <3>3 DEF Live
      <4>. QED BY <2>2, <3>3, <4>1, TagTypes DEF TagInv, LiveSubCmdsOwned
    <3>. QED BY <3>1, <3>2, <3>3 DEF StillToAsk
  <2>. QED BY <2>1, <2>3 DEF DataInv, DataAsked
<1>. QED BY <1>1, TypeCorrect, RingInvariance, TagInvariance, DataInvariance, PTL

================================================================================
