--------------------------- MODULE PCIeCommandPath ---------------------------
(***************************************************************************)
(* The life of an NVMe command in TeraSPCIeController: doorbell, fetch,    *)
(* host command table, tags, running counts, PCMDQ, completion queue, and  *)
(* the PCIe arbiter between the four TLP queues.                           *)
(*                                                                         *)
(* The threads are SystemC processes.  An action is what one process does  *)
(* between two calls of wait() (or one turn of a loop inside that); which  *)
(* process runs next is arbitrary.  When none is runnable the kernel       *)
(* delivers the pending delta notifications (Delta), and when there are    *)
(* none of these it lets time pass (Tick).  A notification nobody waits    *)
(* for at its delivery is lost, as in SystemC.                             *)
(*                                                                         *)
(* Abstracted: LBAs (a sub-command is a pair of a command and an index),   *)
(* payloads, the banks, channels and data buffers between PCMDQ and        *)
(* memory (a sub-command may finish at any time, each once), and the       *)
(* register set other than the two doorbells (the controller is ready).    *)
(***************************************************************************)
EXTENDS Integers, Sequences, FiniteSets

CONSTANTS
  NumCmds,     \* commands the host submits (bounds a behaviour)
  Kind,        \* Kind[c] \in {"READ", "WRITE"}
  Cnt,         \* Cnt[c]: code words (sub-commands) of command c
  QueueSize,   \* size of host command queue, tag, parameter and count tables
  SQSize,      \* entries of the submission queue SQ1
  CQSize,      \* entries of the completion queue CQ1
  PcmdqSize    \* entries of the physical command queue

Cmd   == 1 .. NumCmds
NoCmd == 0                       \* a slot of zeroed memory
CmdOrNone == 0 .. NumCmds
Tag   == 0 .. QueueSize - 1
Slot  == 0 .. PcmdqSize - 1
SQIdx == 0 .. SQSize - 1
CQIdx == 0 .. CQSize - 1
Width16 == 65536                 \* values of a uint16_t
Count16 == 0 .. Width16 - 1

ASSUME SizesAssumption ==
  /\ NumCmds \in Nat \ {0}
  /\ QueueSize \in Nat \ {0}
  /\ SQSize \in Nat /\ SQSize > 1
  /\ CQSize \in Nat /\ CQSize > 1
  /\ PcmdqSize \in Nat \ {0}

ASSUME CommandsAssumption ==
  /\ Kind \in [Cmd -> {"READ", "WRITE"}]
  /\ Cnt \in [Cmd -> Count16 \ {0}]

VARIABLES
  \* the host
  submitted,   \* commands 1..submitted are in the submission queue
  rung,        \* value of submitted at the last tail doorbell
  sqMem,       \* submission queue in host memory
  fetchResp,   \* the fetch request the root complex is answering
  cqMem,       \* completion queue in host memory
  hostCqHead, hostPhase,   \* where the host looks for the next completion
  reaped,      \* it took completions since its last head doorbell
  completed,   \* completions the host has seen, per command
  moved,       \* code words whose data crossed the link, per command
  \* fetching
  sqHead,      \* mSQ1Queue head
  tailQ,       \* mTailAddrQueue
  \* TLP queues and arbiter
  rdCmdQ, rdDataQ, wrDataQ, compQ, token,
  \* tables indexed by tag
  hostCmd, hCmdQSize, tagTable, param, runCnt,
  \* stripping commands into sub-commands
  insertQ,     \* mHCmdQueue, mCmdSize, mFreeTagQueue, mDelayQueue in step
  job,         \* locals of pcmdQInsertThread
  pcmdq,       \* PCMDQ entries and how far each sub-command is
  \* completing
  tagQ, dmaActive, cmdDoneTagQ, cqHead, cqTail, phaseTag,
  \* the SystemC kernel
  waits,       \* the event each thread waits for
  run,         \* runnable threads
  notified,    \* pending delta notifications
  timed        \* pending timed notifications

hostVars  == <<submitted, rung, sqMem, fetchResp, cqMem, hostCqHead,
               hostPhase, reaped, completed, moved>>
fetchVars == <<sqHead, tailQ>>
tlpVars   == <<rdCmdQ, rdDataQ, wrDataQ, compQ, token>>
tableVars == <<hostCmd, hCmdQSize, tagTable, param, runCnt>>
pcmdVars  == <<insertQ, job, pcmdq>>
doneVars  == <<tagQ, dmaActive, cmdDoneTagQ, cqHead, cqTail, phaseTag>>
kernelVars == <<waits, run, notified, timed>>
vars == <<hostVars, fetchVars, tlpVars, tableVars, pcmdVars, doneVars,
          kernelVars>>

(***************************************************************************)
(* Processes and events.  "none" is the mark of a thread in the middle of  *)
(* its loop; the zero-time and transfer events stand for wait(t).          *)
(***************************************************************************)
Thread == {"memReadReqCmd", "pcmdQInsert", "arbiter", "writeCmdDone",
           "readDone"}

DeltaEvent == {"mCompletionTLPRx", "mHCmdQNotFull", "mCmdQNotFull",
               "mMemReadCmdQNotFull", "mMemWriteCompQNotFull",
               "mMemWriteDataQNotFull", "mCQ1Hdbl", "mWriteCmdDone",
               "mReadDone", "mArbitrate", "arbiterZeroTime",
               "insertZeroTime"}
TimedEvent == {"mTrigMemReadCmd", "mTrigPcmdQ", "tlpSent", "compSent"}

SubState == {"free", "linked", "requested", "fetching", "programming",
             "due", "dmaWait", "dmaWoken"}

CmdCnt(c) == IF c = NoCmd THEN 0 ELSE Cnt[c]
CmdKind(c) == IF c = NoCmd THEN "WRITE" ELSE Kind[c]

FreeEntry == [st |-> "free", cmd |-> NoCmd, idx |-> 0, off |-> 0, tag |-> 0]
NoJob == [cmd |-> NoCmd, tag |-> 0, idx |-> 0, off |-> 0]
NoFetch == [addr |-> 0, left |-> 0]

Live(q) == pcmdq[q].st # "free"

\* The wait() each thread reaches first.
FirstWait(p) ==
  IF p = "memReadReqCmd" THEN "mTrigMemReadCmd"
  ELSE IF p = "pcmdQInsert" THEN "mTrigPcmdQ"
  ELSE IF p = "arbiter" THEN "mArbitrate"
  ELSE IF p = "writeCmdDone" THEN "mWriteCmdDone"
  ELSE "mReadDone"

HostInit ==
  /\ submitted = 0 /\ rung = 0
  /\ sqMem = [i \in SQIdx |-> NoCmd]
  /\ fetchResp = NoFetch
  /\ cqMem = [i \in CQIdx |-> [cid |-> NoCmd, phase |-> FALSE]]
  /\ hostCqHead = 0 /\ hostPhase = TRUE /\ reaped = FALSE
  /\ completed = [c \in Cmd |-> 0]
  /\ moved = [c \in Cmd |-> {}]

TLPInit ==
  /\ rdCmdQ = <<>> /\ rdDataQ = <<>> /\ wrDataQ = <<>> /\ compQ = <<>>
  /\ token = 0

TableInit ==
  /\ hostCmd = [t \in Tag |-> NoCmd]
  /\ hCmdQSize = 0
  /\ tagTable = [t \in Tag |-> FALSE]
  /\ param = [t \in Tag |-> NoCmd]
  /\ runCnt = [t \in Tag |-> 0]

PcmdInit ==
  /\ insertQ = <<>> /\ job = NoJob
  /\ pcmdq = [q \in Slot |-> FreeEntry]

DoneInit ==
  /\ tagQ = <<>> /\ dmaActive = <<>> /\ cmdDoneTagQ = <<>>
  /\ cqHead = 0 /\ cqTail = 0 /\ phaseTag = FALSE

KernelInit ==
  /\ waits = [p \in Thread |-> FirstWait(p)]
  /\ run = {} /\ notified = {} /\ timed = {}

Init ==
  /\ HostInit
  /\ sqHead = 0 /\ tailQ = <<>>
  /\ TLPInit /\ TableInit /\ PcmdInit /\ DoneInit /\ KernelInit

(***************************************************************************)
(* Kernel.                                                                 *)
(***************************************************************************)
Notify(E) == notified' = notified \cup E
WaitFor(p, e) == run' = run \ {p} /\ waits' = [waits EXCEPT ![p] = e]
Continue(p) == run' = run /\ waits' = [waits EXCEPT ![p] = "none"]

\* Every process of the current evaluation phase has run.
PhaseOver == run = {} /\ \A q \in Slot : pcmdq[q].st \notin {"due", "dmaWoken"}

Woken(E) == {p \in Thread : waits[p] \in E}

Delta ==
  /\ PhaseOver /\ notified # {}
  /\ run' = Woken(notified)
  /\ notified' = {}
  /\ pcmdq' = [q \in Slot |->
       IF "mMemWriteDataQNotFull" \in notified /\ pcmdq[q].st = "dmaWait"
       THEN [pcmdq[q] EXCEPT !.st = "dmaWoken"] ELSE pcmdq[q]]
  /\ UNCHANGED <<hostVars, fetchVars, tlpVars, tableVars, insertQ, job,
                 doneVars, waits, timed>>

Programming == {q \in Slot : pcmdq[q].st = "programming"}

\* Timed notifications S and the program times of the entries in W expire
\* together.
Tick(S, W) ==
  /\ PhaseOver /\ notified = {}
  /\ run' = Woken(S)
  /\ timed' = timed \ S
  /\ pcmdq' = [q \in Slot |->
       IF q \in W THEN [pcmdq[q] EXCEPT !.st = "due"] ELSE pcmdq[q]]
  /\ UNCHANGED <<hostVars, fetchVars, tlpVars, tableVars, insertQ, job,
                 doneVars, waits, notified>>

TimePasses ==
  \E S \in SUBSET timed, W \in SUBSET Programming :
    /\ S # {} \/ W # {}
    /\ Tick(S, W)

(***************************************************************************)
(* The host (external): submits commands in order, never more than its     *)
(* queue holds, rings the tail doorbell, finds completions by their phase  *)
(* tag and rings the head doorbell.                                        *)
(***************************************************************************)
Outstanding == submitted - Cardinality({c \in Cmd : completed[c] > 0})

HostSubmit ==
  /\ submitted < NumCmds
  /\ Outstanding < SQSize - 1
  /\ sqMem' = [sqMem EXCEPT ![submitted % SQSize] = submitted + 1]
  /\ submitted' = submitted + 1
  /\ UNCHANGED <<rung, fetchResp, cqMem, hostCqHead, hostPhase, reaped,
                 completed, moved, fetchVars, tlpVars, tableVars, pcmdVars,
                 doneVars, kernelVars>>

HostReapCQ ==
  LET entry == cqMem[hostCqHead] IN
  /\ entry.phase = hostPhase
  /\ completed' = [completed EXCEPT ![entry.cid] = @ + 1]
  /\ hostCqHead' = (hostCqHead + 1) % CQSize
  /\ hostPhase' = IF hostCqHead' = 0 THEN ~hostPhase ELSE hostPhase
  /\ reaped' = TRUE
  /\ UNCHANGED <<submitted, rung, sqMem, fetchResp, cqMem, moved, fetchVars,
                 tlpVars, tableVars, pcmdVars, doneVars, kernelVars>>

\* Tail doorbell: the controller queues it and wakes memReadReqCmdThread
\* after the transfer delay.
writeSQ1TDBLReg ==
  /\ rung < submitted
  /\ rung' = submitted
  /\ tailQ' = Append(tailQ, submitted % SQSize)
  /\ timed' = timed \cup {"mTrigMemReadCmd"}
  /\ UNCHANGED <<submitted, sqMem, fetchResp, cqMem, hostCqHead, hostPhase,
                 reaped, completed, moved, sqHead, tlpVars, tableVars,
                 pcmdVars, doneVars, waits, run, notified>>

\* Head doorbell.
writeCQ1HDBLReg ==
  /\ reaped /\ reaped' = FALSE
  /\ cqHead' = hostCqHead
  /\ Notify({"mCQ1Hdbl"})
  /\ UNCHANGED <<submitted, rung, sqMem, fetchResp, cqMem, hostCqHead,
                 hostPhase, completed, moved, fetchVars, tlpVars, tableVars,
                 pcmdVars, tagQ, dmaActive, cmdDoneTagQ, cqTail, phaseTag,
                 waits, run, timed>>

(***************************************************************************)
(* memReadReqCmdThread.  Back from a fetch it first drops the doorbell it  *)
(* has caught up with, then looks at the next one.                         *)
(***************************************************************************)
TailQNow ==
  IF waits["memReadReqCmd"] = "mCompletionTLPRx" /\ tailQ # <<>>
     /\ sqHead = Head(tailQ)
  THEN Tail(tailQ) ELSE tailQ

getQSpaceLeft == QueueSize - hCmdQSize

\* Mutants: the wrapped-around case forgotten; one entry too many.
NumToFetchNoWrap(tail) == tail - sqHead
NumToFetchOneMore(tail) ==
  IF tail > sqHead THEN tail - sqHead + 1 ELSE SQSize - (sqHead - tail) + 1

NumToFetch(tail) ==
  IF tail > sqHead THEN tail - sqHead ELSE SQSize - (sqHead - tail)

\* The wait() the thread reaches before it can fetch, "none" if it fetches.
FetchBlocksOn ==
  IF TailQNow = <<>> THEN "mTrigMemReadCmd"
  ELSE IF /\ Len(rdCmdQ) = QueueSize
          /\ waits["memReadReqCmd"] # "mMemReadCmdQNotFull"
  THEN "mMemReadCmdQNotFull"
  ELSE IF NumToFetch(Head(TailQNow)) = 0 \/ getQSpaceLeft = 0
  THEN "mHCmdQNotFull"
  ELSE "none"

\* Mutant: the space left in the host command queue is not consulted.
FetchCountAll == NumToFetch(Head(TailQNow))

FetchCount == IF getQSpaceLeft >= NumToFetch(Head(TailQNow))
              THEN NumToFetch(Head(TailQNow)) ELSE getQSpaceLeft

MemReadReqCmdWaits ==
  /\ "memReadReqCmd" \in run
  /\ FetchBlocksOn # "none"
  /\ tailQ' = TailQNow
  /\ WaitFor("memReadReqCmd", FetchBlocksOn)
  /\ UNCHANGED <<hostVars, sqHead, tlpVars, tableVars, pcmdVars, doneVars,
                 notified, timed>>

MemReadReqCmdFetches ==
  /\ "memReadReqCmd" \in run
  /\ FetchBlocksOn = "none"
  /\ tailQ' = TailQNow
  /\ rdCmdQ' = Append(rdCmdQ, [addr |-> sqHead, n |-> FetchCount])
  /\ sqHead' = (sqHead + FetchCount) % SQSize
  /\ WaitFor("memReadReqCmd", "mCompletionTLPRx")
  /\ Notify({"mArbitrate"})
  /\ UNCHANGED <<hostVars, rdDataQ, wrDataQ, compQ, token, tableVars,
                 pcmdVars, doneVars, timed>>

(***************************************************************************)
(* processCompletionTLPCmd, one submission queue entry at a time: a tag    *)
(* is taken, the tables are filled and the command is handed over.         *)
(***************************************************************************)
FreeTags == {t \in Tag : ~tagTable[t]}

\* The lowest free tag; without one the caller's tag stays what it was.
getFreeTag ==
  IF FreeTags = {} THEN 0
  ELSE CHOOSE t \in FreeTags : \A u \in FreeTags : t <= u

FillTables(t, c) ==
  /\ tagTable' = [tagTable EXCEPT ![t] = TRUE]
  /\ hostCmd' = [hostCmd EXCEPT ![t] = c]
  /\ hCmdQSize' = hCmdQSize + 1
  /\ param' = [param EXCEPT ![t] = c]

\* Mutant: the block count taken as zero-based when a longer one is stored.
RunCntZeroBased(t, c) ==
  runCnt' = [runCnt EXCEPT ![t] = IF CmdCnt(c) > 1 THEN CmdCnt(c) - 1 ELSE 1]

SetRunCnt(t, c) == runCnt' = [runCnt EXCEPT ![t] = CmdCnt(c)]

\* Mutant: the event is notified for each entry.
FetchEventsEach == {"mCompletionTLPRx"}

\* memReadReqCmdThread is woken when the last entry was processed.
FetchEvents == IF fetchResp.left = 1 THEN {"mCompletionTLPRx"} ELSE {}

processCompletionTLPCmd ==
  LET c == sqMem[fetchResp.addr]
      t == getFreeTag
  IN
  /\ fetchResp.left > 0
  /\ hCmdQSize # QueueSize
  /\ FillTables(t, c)
  /\ SetRunCnt(t, c)
  /\ insertQ' = Append(insertQ, [cmd |-> c, tag |-> t])
  /\ timed' = timed \cup {"mTrigPcmdQ"}
  /\ fetchResp' = [addr |-> (fetchResp.addr + 1) % SQSize,
                   left |-> fetchResp.left - 1]
  /\ Notify(FetchEvents)
  /\ UNCHANGED <<submitted, rung, sqMem, cqMem, hostCqHead, hostPhase, reaped,
                 completed, moved, fetchVars, tlpVars, job, pcmdq, doneVars,
                 waits, run>>

(***************************************************************************)
(* pcmdQInsertThread: strips commands into PCMDQ entries.                  *)
(***************************************************************************)
JobActive == job.idx < CmdCnt(job.cmd)
PcmdqFull == \A q \in Slot : Live(q)
getFreeQueueAddr ==
  CHOOSE q \in Slot : ~Live(q) /\ \A r \in Slot : ~Live(r) => q <= r

\* Mutant: every sub-command at the command's base address.
OffsetAlwaysZero == 0

\* The offset starts again from zero after a wait for space.
OffsetNow == IF waits["pcmdQInsert"] = "mCmdQNotFull" THEN 0 ELSE job.off

PcmdQInsertIdles ==
  /\ "pcmdQInsert" \in run
  /\ ~JobActive /\ insertQ = <<>>
  /\ WaitFor("pcmdQInsert", "mTrigPcmdQ")
  /\ UNCHANGED <<hostVars, fetchVars, tlpVars, tableVars, pcmdVars, doneVars,
                 notified, timed>>

PcmdQInsertTakes ==
  /\ "pcmdQInsert" \in run
  /\ ~JobActive /\ insertQ # <<>>
  /\ job' = [cmd |-> Head(insertQ).cmd, tag |-> Head(insertQ).tag,
             idx |-> 0, off |-> 0]
  /\ insertQ' = Tail(insertQ)
  /\ Continue("pcmdQInsert")
  /\ UNCHANGED <<hostVars, fetchVars, tlpVars, tableVars, pcmdq, doneVars,
                 notified, timed>>

PcmdQInsertBlocks ==
  /\ "pcmdQInsert" \in run
  /\ JobActive /\ PcmdqFull
  /\ WaitFor("pcmdQInsert", "mCmdQNotFull")
  /\ UNCHANGED <<hostVars, fetchVars, tlpVars, tableVars, pcmdVars, doneVars,
                 notified, timed>>

PcmdQInsertStrips ==
  /\ "pcmdQInsert" \in run
  /\ JobActive /\ ~PcmdqFull
  /\ pcmdq' = [pcmdq EXCEPT ![getFreeQueueAddr] =
                 [st |-> "linked", cmd |-> job.cmd, idx |-> job.idx,
                  off |-> OffsetNow, tag |-> job.tag]]
  /\ job' = [cmd |-> job.cmd, tag |-> job.tag,
             idx |-> job.idx + 1, off |-> OffsetNow + 1]
  /\ WaitFor("pcmdQInsert", "insertZeroTime")
  /\ Notify({"insertZeroTime"})
  /\ UNCHANGED <<hostVars, fetchVars, tlpVars, tableVars, insertQ, doneVars,
                 timed>>

(***************************************************************************)
(* A sub-command's way to memory and back.                                 *)
(***************************************************************************)
SetState(q, s) == pcmdq' = [pcmdq EXCEPT ![q].st = s]

\* The data of a sub-command lies at its command's host address + offset.
DataTLP(q) == [slot |-> q, cmd |-> hostCmd[pcmdq[q].tag], off |-> pcmdq[q].off]

\* longQueueThread asks the host for the data of a write.
RequestWriteData(q) ==
  /\ pcmdq[q].st = "linked" /\ CmdKind(pcmdq[q].cmd) = "WRITE"
  /\ rdDataQ' = Append(rdDataQ, DataTLP(q))
  /\ SetState(q, "requested")
  /\ Notify({"mArbitrate"})
  /\ UNCHANGED <<hostVars, fetchVars, rdCmdQ, wrDataQ, compQ, token,
                 tableVars, insertQ, job, doneVars, waits, run, timed>>

\* The host's data arrives and the code word is programmed.
WriteDataArrives(q) ==
  /\ pcmdq[q].st = "fetching"
  /\ SetState(q, "programming")
  /\ UNCHANGED <<hostVars, fetchVars, tlpVars, tableVars, insertQ, job,
                 doneVars, kernelVars>>

\* setQueueFree and updateCnt, common to both kinds of sub-commands.
FinishSubCmd(q) ==
  /\ pcmdq' = [pcmdq EXCEPT ![q] = FreeEntry]
  /\ runCnt' = [runCnt EXCEPT ![pcmdq[q].tag] = (@ - 1) % Width16]

\* Mutants: the count is tested before it is decremented; one too early.
LastSubCmdStale(t) == runCnt[t] = 0
LastSubCmdEarly(t) == runCnt'[t] <= 1

LastSubCmd(t) == runCnt'[t] = 0

PendingWriteCmd(q) ==
  LET t == pcmdq[q].tag IN
  /\ pcmdq[q].st = "due"
  /\ FinishSubCmd(q)
  /\ IF LastSubCmd(t)
     THEN /\ tagQ' = Append(tagQ, t)
          /\ Notify({"mCmdQNotFull", "mWriteCmdDone"})
     ELSE /\ tagQ' = tagQ
          /\ Notify({"mCmdQNotFull"})
  /\ UNCHANGED <<hostVars, fetchVars, tlpVars, hostCmd, hCmdQSize, tagTable,
                 param, insertQ, job, dmaActive, cmdDoneTagQ, cqHead, cqTail,
                 phaseTag, waits, run, timed>>

\* memReadCompletionThread finds MEM_WRITE_DATA_Q full and waits once.
MemReadCompletionWaits(q) ==
  /\ pcmdq[q].st = "linked" /\ CmdKind(pcmdq[q].cmd) = "READ"
  /\ Len(wrDataQ) = QueueSize
  /\ SetState(q, "dmaWait")
  /\ UNCHANGED <<hostVars, fetchVars, tlpVars, tableVars, insertQ, job,
                 doneVars, kernelVars>>

MemReadCompletion(q) ==
  LET t == pcmdq[q].tag IN
  /\ CmdKind(pcmdq[q].cmd) = "READ"
  /\ \/ pcmdq[q].st = "linked" /\ Len(wrDataQ) # QueueSize
     \/ pcmdq[q].st = "dmaWoken"
  /\ wrDataQ' = Append(wrDataQ, DataTLP(q))
  /\ FinishSubCmd(q)
  /\ IF LastSubCmd(t)
     THEN /\ dmaActive' = Append(dmaActive, t)
          /\ Notify({"mCmdQNotFull", "mArbitrate", "mReadDone"})
     ELSE /\ dmaActive' = dmaActive
          /\ Notify({"mCmdQNotFull", "mArbitrate"})
  /\ UNCHANGED <<hostVars, fetchVars, rdCmdQ, rdDataQ, compQ, token, hostCmd,
                 hCmdQSize, tagTable, param, insertQ, job, tagQ, cmdDoneTagQ,
                 cqHead, cqTail, phaseTag, waits, run, timed>>

(***************************************************************************)
(* writeCmdDoneThread and readDoneThread: one completion entry per         *)
(* finished command.  Each waits at most once for CQ1 and at most once for *)
(* the completion TLP queue, and does not look again afterwards.           *)
(***************************************************************************)
CQ1Full == (cqTail + 1) % CQSize = cqHead     \* CircularQueue::isFull

DoneBlocksOn(p) ==
  IF /\ CQ1Full
     /\ waits[p] \notin {"mCQ1Hdbl", "mMemWriteCompQNotFull"}
  THEN "mCQ1Hdbl"
  ELSE IF Len(compQ) = QueueSize /\ waits[p] # "mMemWriteCompQNotFull"
  THEN "mMemWriteCompQNotFull"
  ELSE "none"

\* Mutants: the inversion comes one entry early; the tag is pushed in front.
InvertsPhaseEarly == cqTail = CQSize - 1
PostCompletionFront(t) ==
  /\ cmdDoneTagQ' = <<t>> \o cmdDoneTagQ
  /\ phaseTag' = IF cqTail = 0 THEN ~phaseTag ELSE phaseTag
  /\ compQ' = Append(compQ, [slot |-> cqTail, cid |-> param[t],
                             phase |-> phaseTag'])
  /\ cqTail' = (cqTail + 1) % CQSize
  /\ Notify({"mArbitrate"})

InvertsPhase == cqTail = 0

\* The phase tag is inverted at the first entry of each cycle of CQ1.
PostCompletion(t) ==
  /\ cmdDoneTagQ' = Append(cmdDoneTagQ, t)
  /\ phaseTag' = IF InvertsPhase THEN ~phaseTag ELSE phaseTag
  /\ compQ' = Append(compQ, [slot |-> cqTail, cid |-> param[t],
                             phase |-> phaseTag'])
  /\ cqTail' = (cqTail + 1) % CQSize
  /\ Notify({"mArbitrate"})

\* Mutant: the queue is not tested before the next round.
NextRoundUntested(p, left, e) == Continue(p)

\* The wait() at the top of the loop, when nothing is left to complete.
NextRound(p, left, e) == IF left = <<>> THEN WaitFor(p, e) ELSE Continue(p)

WriteCmdDoneWaits ==
  /\ "writeCmdDone" \in run
  /\ DoneBlocksOn("writeCmdDone") # "none"
  /\ WaitFor("writeCmdDone", DoneBlocksOn("writeCmdDone"))
  /\ UNCHANGED <<hostVars, fetchVars, tlpVars, tableVars, pcmdVars, doneVars,
                 notified, timed>>

\* tagQ # <<>> is no guard of the code, which reads front() unchecked.
WriteCmdDone ==
  /\ "writeCmdDone" \in run
  /\ DoneBlocksOn("writeCmdDone") = "none"
  /\ tagQ # <<>>
  /\ tagQ' = Tail(tagQ)
  /\ PostCompletion(Head(tagQ))
  /\ NextRound("writeCmdDone", tagQ', "mWriteCmdDone")
  /\ UNCHANGED <<hostVars, fetchVars, rdCmdQ, rdDataQ, wrDataQ, token,
                 tableVars, pcmdVars, dmaActive, cqHead, timed>>

ReadDoneWaits ==
  /\ "readDone" \in run
  /\ dmaActive # <<>>
  /\ DoneBlocksOn("readDone") # "none"
  /\ WaitFor("readDone", DoneBlocksOn("readDone"))
  /\ UNCHANGED <<hostVars, fetchVars, tlpVars, tableVars, pcmdVars, doneVars,
                 notified, timed>>

ReadDoneIdles ==
  /\ "readDone" \in run
  /\ dmaActive = <<>>
  /\ WaitFor("readDone", "mReadDone")
  /\ UNCHANGED <<hostVars, fetchVars, tlpVars, tableVars, pcmdVars, doneVars,
                 notified, timed>>

ReadDone ==
  /\ "readDone" \in run
  /\ dmaActive # <<>>
  /\ DoneBlocksOn("readDone") = "none"
  /\ dmaActive' = Tail(dmaActive)
  /\ PostCompletion(Head(dmaActive))
  /\ NextRound("readDone", dmaActive', "mReadDone")
  /\ UNCHANGED <<hostVars, fetchVars, rdCmdQ, rdDataQ, wrDataQ, token,
                 tableVars, pcmdVars, tagQ, cqHead, timed>>

(***************************************************************************)
(* arbiterThread: the token goes round the four TLP queues, one queue per  *)
(* turn; a turn ends with a transfer (b_transport) or at once, and then    *)
(* with wait(SC_ZERO_TIME).                                                *)
(***************************************************************************)
RD_CMD == 0
RD_DATA == 1
WR_DATA == 2
WR_COMP == 3

AllTLPQEmpty == rdCmdQ = <<>> /\ rdDataQ = <<>> /\ wrDataQ = <<>> /\ compQ = <<>>

QueueOf(k) ==
  IF k = RD_CMD THEN rdCmdQ ELSE IF k = RD_DATA THEN rdDataQ
  ELSE IF k = WR_DATA THEN wrDataQ ELSE compQ

InTransfer == waits["arbiter"] \in {"tlpSent", "compSent"}

ArbiterIdles ==
  /\ "arbiter" \in run /\ ~InTransfer
  /\ AllTLPQEmpty
  /\ WaitFor("arbiter", "mArbitrate")
  /\ UNCHANGED <<hostVars, fetchVars, tlpVars, tableVars, pcmdVars, doneVars,
                 notified, timed>>

\* queueArbiter returns NONE.
ArbiterSkips ==
  /\ "arbiter" \in run /\ ~InTransfer
  /\ ~AllTLPQEmpty /\ QueueOf(token) = <<>>
  /\ token' = (token + 1) % 4
  /\ WaitFor("arbiter", "arbiterZeroTime")
  /\ Notify({"arbiterZeroTime"})
  /\ UNCHANGED <<hostVars, fetchVars, rdCmdQ, rdDataQ, wrDataQ, compQ,
                 tableVars, pcmdVars, doneVars, timed>>

\* queueArbiter returns k: what every such turn does.
ArbiterTurn(k, sent) ==
  /\ "arbiter" \in run /\ ~InTransfer
  /\ token = k
  /\ QueueOf(k) # <<>>
  /\ token' = (token + 1) % 4
  /\ WaitFor("arbiter", sent)
  /\ timed' = timed \cup {sent}

ArbiterSendsRdCmd ==
  /\ ArbiterTurn(RD_CMD, "tlpSent")
  /\ rdCmdQ' = Tail(rdCmdQ)
  /\ fetchResp' = [addr |-> Head(rdCmdQ).addr, left |-> Head(rdCmdQ).n]
  /\ Notify({"mMemReadCmdQNotFull"})
  /\ UNCHANGED <<submitted, rung, sqMem, cqMem, hostCqHead, hostPhase, reaped,
                 completed, moved, fetchVars, rdDataQ, wrDataQ, compQ,
                 tableVars, pcmdVars, doneVars>>

ArbiterSendsRdData ==
  LET tlp == Head(rdDataQ) IN
  /\ ArbiterTurn(RD_DATA, "tlpSent")
  /\ rdDataQ' = Tail(rdDataQ)
  /\ moved' = [moved EXCEPT ![tlp.cmd] = @ \cup {tlp.off}]
  /\ SetState(tlp.slot, "fetching")
  /\ UNCHANGED <<submitted, rung, sqMem, fetchResp, cqMem, hostCqHead,
                 hostPhase, reaped, completed, fetchVars, rdCmdQ, wrDataQ,
                 compQ, tableVars, insertQ, job, doneVars, notified>>

ArbiterSendsWrData ==
  LET tlp == Head(wrDataQ) IN
  /\ ArbiterTurn(WR_DATA, "tlpSent")
  /\ wrDataQ' = Tail(wrDataQ)
  /\ moved' = [moved EXCEPT ![tlp.cmd] = @ \cup {tlp.off}]
  /\ Notify({"mMemWriteDataQNotFull"})
  /\ UNCHANGED <<submitted, rung, sqMem, fetchResp, cqMem, hostCqHead,
                 hostPhase, reaped, completed, fetchVars, rdCmdQ, rdDataQ,
                 compQ, tableVars, pcmdVars, doneVars>>

\* Mutant: the parameter table entry is not reset.
ReleaseTagNoReset(t) ==
  /\ tagTable' = [tagTable EXCEPT ![t] = FALSE]
  /\ hostCmd' = [hostCmd EXCEPT ![t] = NoCmd]
  /\ hCmdQSize' = hCmdQSize - 1
  /\ param' = param

ReleaseTag(t) ==
  /\ tagTable' = [tagTable EXCEPT ![t] = FALSE]
  /\ hostCmd' = [hostCmd EXCEPT ![t] = NoCmd]
  /\ hCmdQSize' = hCmdQSize - 1
  /\ param' = [param EXCEPT ![t] = NoCmd]

\* The tag and its table entries are released before the transfer.
ArbiterSendsComp ==
  LET tlp == Head(compQ)
      t == Head(cmdDoneTagQ)
  IN
  /\ ArbiterTurn(WR_COMP, "compSent")
  /\ cmdDoneTagQ # <<>>      \* front() is read unchecked
  /\ compQ' = Tail(compQ)
  /\ cmdDoneTagQ' = Tail(cmdDoneTagQ)
  /\ ReleaseTag(t)
  /\ cqMem' = [cqMem EXCEPT ![tlp.slot] = [cid |-> tlp.cid, phase |-> tlp.phase]]
  /\ Notify({"mMemWriteCompQNotFull"})
  /\ UNCHANGED <<submitted, rung, sqMem, fetchResp, hostCqHead, hostPhase,
                 reaped, completed, moved, fetchVars, rdCmdQ, rdDataQ, wrDataQ,
                 runCnt, pcmdVars, tagQ, dmaActive, cqHead, cqTail, phaseTag>>

\* Mutant: a sent completion does not announce the free table entry.
SentEventsNoSpace == {"arbiterZeroTime"}

SentEvents ==
  IF waits["arbiter"] = "compSent" THEN {"arbiterZeroTime", "mHCmdQNotFull"}
  ELSE {"arbiterZeroTime"}

\* b_transport returned.
ArbiterSent ==
  /\ "arbiter" \in run /\ InTransfer
  /\ WaitFor("arbiter", "arbiterZeroTime")
  /\ Notify(SentEvents)
  /\ UNCHANGED <<hostVars, fetchVars, tlpVars, tableVars, pcmdVars, doneVars,
                 timed>>

(***************************************************************************)
(* Specification.                                                          *)
(***************************************************************************)
\* Nothing is left to do: every command was reported.
Finished ==
  /\ \A c \in Cmd : completed[c] > 0
  /\ UNCHANGED vars

HostNext == HostSubmit \/ HostReapCQ \/ writeSQ1TDBLReg \/ writeCQ1HDBLReg

FetchNext == MemReadReqCmdWaits \/ MemReadReqCmdFetches \/ processCompletionTLPCmd

InsertNext == \/ PcmdQInsertIdles \/ PcmdQInsertTakes
              \/ PcmdQInsertBlocks \/ PcmdQInsertStrips

SubCmdNext(q) == \/ RequestWriteData(q) \/ WriteDataArrives(q)
                 \/ PendingWriteCmd(q)
                 \/ MemReadCompletionWaits(q) \/ MemReadCompletion(q)

WriteDoneNext == WriteCmdDoneWaits \/ WriteCmdDone
ReadDoneNext == ReadDoneWaits \/ ReadDoneIdles \/ ReadDone

ArbiterNext == \/ ArbiterIdles \/ ArbiterSkips \/ ArbiterSendsRdCmd
               \/ ArbiterSendsRdData \/ ArbiterSendsWrData
               \/ ArbiterSendsComp \/ ArbiterSent

Next == \/ HostNext \/ FetchNext \/ InsertNext
        \/ \E q \in Slot : SubCmdNext(q)
        \/ WriteDoneNext \/ ReadDoneNext \/ ArbiterNext
        \/ Delta \/ TimePasses \/ Finished

Spec == Init /\ [][Next]_vars

(***************************************************************************)
(* Fairness.  A runnable process runs, a pending notification is           *)
(* delivered, the host answers requests, reads its completions and rings   *)
(* its doorbells.  Timed notifications need strong fairness: each has a    *)
(* finite delay, but those that expire earlier go first.                   *)
(***************************************************************************)
Expires(t) == \E S \in SUBSET timed, W \in SUBSET Programming : t \in S /\ Tick(S, W)
Programmed(q) == \E S \in SUBSET timed, W \in SUBSET Programming : q \in W /\ Tick(S, W)

Fairness ==
  /\ WF_vars(HostReapCQ) /\ WF_vars(writeSQ1TDBLReg) /\ WF_vars(writeCQ1HDBLReg)
  /\ WF_vars(MemReadReqCmdWaits \/ MemReadReqCmdFetches)
  /\ WF_vars(processCompletionTLPCmd)
  /\ WF_vars(InsertNext) /\ WF_vars(WriteDoneNext) /\ WF_vars(ReadDoneNext)
  /\ WF_vars(ArbiterNext) /\ WF_vars(Delta)
  /\ \A q \in Slot : WF_vars(SubCmdNext(q)) /\ SF_vars(Programmed(q))
  /\ \A t \in TimedEvent : SF_vars(Expires(t))

FairSpec == Spec /\ Fairness

(***************************************************************************)
(* Properties.                                                             *)
(***************************************************************************)
HostTypeOK ==
  /\ submitted \in 0 .. NumCmds /\ rung \in 0 .. NumCmds
  /\ sqMem \in [SQIdx -> CmdOrNone]
  /\ fetchResp \in [addr : SQIdx, left : Nat]
  /\ cqMem \in [CQIdx -> [cid : CmdOrNone, phase : BOOLEAN]]
  /\ hostCqHead \in CQIdx /\ hostPhase \in BOOLEAN
  /\ reaped \in BOOLEAN
  /\ completed \in [Cmd -> Nat] /\ moved \in [Cmd -> SUBSET Nat]

FetchTypeOK == sqHead \in SQIdx /\ tailQ \in Seq(SQIdx)

TLPTypeOK ==
  /\ rdCmdQ \in Seq([addr : SQIdx, n : Nat])
  /\ rdDataQ \in Seq([slot : Slot, cmd : CmdOrNone, off : Nat])
  /\ wrDataQ \in Seq([slot : Slot, cmd : CmdOrNone, off : Nat])
  /\ compQ \in Seq([slot : CQIdx, cid : CmdOrNone, phase : BOOLEAN])
  /\ token \in 0 .. 3

TableTypeOK ==
  /\ hostCmd \in [Tag -> CmdOrNone] /\ hCmdQSize \in Int
  /\ tagTable \in [Tag -> BOOLEAN] /\ param \in [Tag -> CmdOrNone]
  /\ runCnt \in [Tag -> Count16]

PcmdTypeOK ==
  /\ insertQ \in Seq([cmd : CmdOrNone, tag : Tag])
  /\ job \in [cmd : CmdOrNone, tag : Tag, idx : Nat, off : Nat]
  /\ pcmdq \in [Slot -> [st : SubState, cmd : CmdOrNone, idx : Nat,
                         off : Nat, tag : Tag]]

DoneTypeOK ==
  /\ tagQ \in Seq(Tag) /\ dmaActive \in Seq(Tag) /\ cmdDoneTagQ \in Seq(Tag)
  /\ cqHead \in CQIdx /\ cqTail \in CQIdx /\ phaseTag \in BOOLEAN

KernelTypeOK ==
  /\ waits \in [Thread -> DeltaEvent \cup TimedEvent \cup {"none"}]
  /\ run \in SUBSET Thread /\ notified \in SUBSET DeltaEvent
  /\ timed \in SUBSET TimedEvent

\* Every variable stays in its type: the 16-bit running counts, the ring
\* indices of SQ1 and CQ1, the tags in the queues (HostCmdQueueMgr,
\* iTagManager, CmdParamTable, RunningCntTable, TLPManager).
TypeOK ==
  /\ HostTypeOK /\ FetchTypeOK /\ TLPTypeOK /\ TableTypeOK
  /\ PcmdTypeOK /\ DoneTypeOK /\ KernelTypeOK

BusyTags == {t \in Tag : tagTable[t]}

\* A tag is busy exactly while the host command queue and the parameter
\* table hold one and the same command under it, no command is held twice,
\* and the counter mHCmdQSize, on which fetching relies, counts the busy
\* tags: four structures updated one after the other by two processes.
TagAccounting ==
  /\ \A t \in Tag : tagTable[t] <=> hostCmd[t] # NoCmd
  /\ param = hostCmd
  /\ hCmdQSize = Cardinality(BusyTags)
  /\ \A t, u \in BusyTags : hostCmd[t] = hostCmd[u] => t = u

InFetch == fetchResp.left + (IF rdCmdQ = <<>> THEN 0 ELSE Head(rdCmdQ).n)

\* A fetch never asks for more commands than there is room for when they
\* arrive, and only one is under way: so processCompletionTLPCmd never waits
\* inside b_transport, getFreeTag never fails (its result is ignored), and
\* the read command TLP queue is never full.
FetchFits ==
  /\ Len(rdCmdQ) <= 1
  /\ Len(rdCmdQ) = 1 => fetchResp.left = 0
  /\ InFetch + hCmdQSize <= QueueSize

\* From the moment it asks for entries until the last of them is processed,
\* memReadReqCmdThread sleeps on mCompletionTLPRx, which nothing else
\* notifies: the space it found in the host command queue is still there when
\* the entries arrive, and sqHead does not move under them.
FetchThreadSleeps ==
  /\ rdCmdQ # <<>> \/ fetchResp.left > 0 \/ "mCompletionTLPRx" \in notified
       => /\ waits["memReadReqCmd"] = "mCompletionTLPRx"
          /\ "memReadReqCmd" \notin run
  /\ "mCompletionTLPRx" \in notified => rdCmdQ = <<>> /\ fetchResp.left = 0

ToInsert(t) ==
  IF \E i \in DOMAIN insertQ : insertQ[i].tag = t THEN CmdCnt(hostCmd[t])
  ELSE IF job.tag = t /\ JobActive THEN CmdCnt(job.cmd) - job.idx
  ELSE 0

\* The running count of a busy tag is the number of its sub-commands that
\* are still to be inserted or are in the PCMDQ: a command neither completes
\* while pcmdQInsertThread is still stripping it nor is left incomplete.
RunningCountExact ==
  \A t \in BusyTags :
    runCnt[t] = ToInsert(t)
                + Cardinality({q \in Slot : Live(q) /\ pcmdq[q].tag = t})

DoneTags == tagQ \o dmaActive \o cmdDoneTagQ

\* A tag whose count reached zero is queued for completion once, in one of
\* the three queues, until its completion is sent; no other tag is.
CompletedOnce ==
  /\ \A t \in Tag :
       (t \in BusyTags /\ runCnt[t] = 0) <=>
         \E i \in DOMAIN DoneTags : DoneTags[i] = t
  /\ \A i, j \in DOMAIN DoneTags : DoneTags[i] = DoneTags[j] => i = j

\* mCmdDoneTagQueue and the completion TLP queue are pushed by two threads
\* and popped by a third; the arbiter relies on their fronts belonging
\* together when it releases a tag.
DoneTagsMatchTLPs ==
  /\ Len(cmdDoneTagQ) = Len(compQ)
  /\ \A i \in DOMAIN compQ : compQ[i].cid = param[cmdDoneTagQ[i]]

\* The tag of a PCMDQ entry still names the command the entry was stripped
\* from: a tag is not recycled under a live sub-command, and data moves
\* between that command's buffer and its own blocks.
LiveSubCmdsOwned ==
  /\ \A q \in Slot : Live(q) =>
       /\ tagTable[pcmdq[q].tag]
       /\ hostCmd[pcmdq[q].tag] = pcmdq[q].cmd
       /\ pcmdq[q].idx < CmdCnt(pcmdq[q].cmd)
  /\ \A q, r \in Slot : Live(q) /\ Live(r) /\ q # r =>
       <<pcmdq[q].cmd, pcmdq[q].idx>> # <<pcmdq[r].cmd, pcmdq[r].idx>>

\* writeCmdDoneThread tests mTagQueue.empty() once, waits, and then reads
\* front(): it is never woken with the queue empty, although one
\* notification may announce several tags and a tag may be taken before the
\* notification for it is delivered.
TagQueueNeverReadEmpty == "writeCmdDone" \in run => tagQ # <<>>

\* The tags bound the completion TLP queue: a done thread never finds it
\* full and never overfills it.
CompletionQueueHasRoom == Len(compQ) + Len(tagQ) + Len(dmaActive) <= QueueSize

Accepted == submitted - ((submitted - sqHead) % SQSize) - InFetch
ActiveCmds == {param[t] : t \in BusyTags}
Posted == {c \in Cmd : c <= Accepted /\ c \notin ActiveCmds /\ completed[c] = 0}

\* While some completion was sent and not yet seen, the entry at the host's
\* head carries the phase the host looks for: no entry is overwritten unread
\* and the phase tag is inverted once per cycle of CQ1.
PostedIsVisible == Posted # {} => cqMem[hostCqHead].phase = hostPhase

\* A write completes only after each of its code words was read from its own
\* place in the host's buffer.
WriteDataComplete ==
  \A c \in Cmd : completed[c] > 0 /\ Kind[c] = "WRITE" =>
                   moved[c] = 0 .. Cnt[c] - 1

\* The controller implements the command service: commands are accepted in
\* order, none is lost, duplicated or reported twice, at most QueueSize are
\* held, and each one is released before the host sees its completion.
Service == INSTANCE NvmeCommandService
             WITH accepted <- Accepted, active <- ActiveCmds,
                  delivered <- completed
ServiceSpec == Service!Spec

\* Every command the host submits is reported exactly once in the end.
EveryCommandCompletes ==
  \A c \in Cmd : c <= submitted ~> completed[c] = 1

=============================================================================
