---------------------------- MODULE PCIeDataPath ----------------------------
(***************************************************************************)
(* TeraSPCIeController from the bank lists down: per channel a dispatcher, *)
(* a thread that fetches the data of writes (longQueueThread), a channel   *)
(* manager, and the threads and methods that wait for the memory; over all *)
(* channels the two data buffers, the threads that hand them out, and the  *)
(* arbiter of the link.  It is composed with the memory device and with    *)
(* the root complex at the other end of the link.                          *)
(*                                                                         *)
(* A sub-command is known by its place in "load", which gives its type,    *)
(* channel and bank; the pointers of the bank lists are sequences here     *)
(* (DimmController has the same lists with their pointers).  Tags, running *)
(* counts and completions are the subject of PCIeCommandPath.              *)
(*                                                                         *)
(* The ONFI mutex is never contended: a channel's dispatchReadCmdThread    *)
(* works only while the channel manager waits for it.                      *)
(***************************************************************************)
EXTENDS RootComplex, SequencesExt

CONSTANTS
  Loads,       \* sequences of sub-commands [cmd, chan, bank]
  Fetches,     \* fetches of submission queue entries under way: [first, len]
  Credit,      \* mCredit: reads a channel may have under way
  WrBuffs,     \* wrBuffSize
  RdBuffs,     \* rdBuffSize
  QueueSize    \* capacity of a TLP queue

ASSUME DataPathAssumption ==
  /\ Credit \in Nat \ {0} /\ WrBuffs \in Nat \ {0} /\ RdBuffs \in Nat \ {0}
  /\ QueueSize \in Nat \ {0}
  /\ \A l \in Loads : \A i \in DOMAIN l :
       l[i].cmd \in {"READ", "WRITE"} /\ l[i].chan \in Chan /\ l[i].bank \in Bank
  /\ \A f \in Fetches : f.first \in 0 .. SqSize - 1 /\ f.len \in 1 .. SqSize

WrBuff == 0 .. WrBuffs - 1
RdBuff == 0 .. RdBuffs - 1

VARIABLES
  load,      \* the sub-commands of the test
  local,     \* local[p]: where thread p is, its sub-command and its buffer
  list,      \* list[c][b]: the list of bank b
  queue,     \* queues of each channel
  shared,    \* queues all channels share
  tlpQueue,  \* mTLPQueueMgr
  status,    \* mCwBankStatus (cw), mPhyDL1Status and mPhyDL2Status
  credit,    \* mAvailableCredit
  buffer,    \* status and content of the data buffers, and mWriteData
  link,      \* mArbiterToken, and chanIndex of parseData
  finished,  \* sub-commands whose PCMDQ entry was freed
  fetched    \* entries the controller has received

dataVars == <<local, list, queue, shared, tlpQueue, status, credit, buffer,
              link, finished, fetched>>
vars == <<load, kernelVars, deviceVars, rcVars, dataVars>>

Word == DOMAIN load
IsWrite(w) == load[w].cmd = "WRITE"
ChanOf(w)  == load[w].chan
BankOf(w)  == load[w].bank

Insert       == <<"pcmdQInsertThread", 0>>
Arbiter      == <<"arbiterThread", 0>>
Dispatcher(c) == <<"cmdDispatcherThread", c>>
Long(c)      == <<"longQueueThread", c>>
Sender(c)    == <<"sendWriteCmdThread", c>>
Reader(c)    == <<"dispatchReadCmdThread", c>>
Manager(c)   == <<"chanManagerThread", c>>
PendingR(c)  == <<"pendingReadCmdThread", c>>
PendingW(c)  == <<"pendingWriteCmdMethod", c>>
ReadDone(c)  == <<"memReadCompletionThread", c>>
ChipSel(c)   == <<"chipSelectMethod", c>>
CheckResp(c) == <<"checkResp", c>>
DataRx(c)    == <<"mCmplTLPDataRx", c>>

Threads ==
  {Insert, Arbiter} \cup UNION {{Dispatcher(c), Long(c), Sender(c), Reader(c),
                                 Manager(c), PendingR(c), ReadDone(c)} : c \in Chan}
Methods == UNION {{PendingW(c), ChipSel(c), CheckResp(c)} : c \in Chan}

\* Threads spawned without dont_initialize run at once.
FirstRun ==
  {Insert} \cup UNION {{Long(c), Sender(c), Reader(c), Manager(c)} : c \in Chan}

Event(name, c) == {<<name, c>>}
DispatchEvents(c) == {<<"mCmdDispatch", c>>, <<"mTrigCmdDisp", c>>}
ZeroTime(p) == {<<"zeroTime", p>>}

FirstWait(p) ==
  IF p \in FirstRun THEN {}
  ELSE IF p \in RcThread THEN RcFirstWait(p)
  ELSE IF p = Arbiter THEN Event("mArbitrate", 0)
  ELSE IF p[1] = "cmdDispatcherThread" THEN Event("mCmdDispatch", p[2])
  ELSE IF p[1] = "chipSelectMethod" THEN Event("mChipSelect", p[2])
  ELSE IF p[1] = "phyDl2Write" THEN Event("mPhyDL2Write", p[2])
  ELSE {p}

AllProcs == Threads \cup Methods \cup RcThread \cup DeviceThreads
Peqs ==
  (DeviceProcs \X Chan) \cup RcThread \cup {Arbiter}
  \cup UNION {{PendingR(c), PendingW(c), ReadDone(c), CheckResp(c), DataRx(c),
               Sender(c), Reader(c)} : c \in Chan}

AllBanks(v) == [c \in Chan |-> [b \in Bank |-> v]]
PerChan(v)  == [c \in Chan |-> v]

Init ==
  /\ load \in Loads
  /\ DeviceInit /\ RcInit(DOMAIN load)
  /\ local = [p \in Threads |->
       [at |-> IF p[1] = "cmdDispatcherThread" THEN "check" ELSE "top",
        word |-> 0, buf |-> 0]]
  /\ list = AllBanks(<<>>)
  /\ queue = [mAscq |-> PerChan(<<>>), mAlcq |-> PerChan(<<>>),
              mAdcq |-> PerChan(<<>>), mDMADoneQueue |-> PerChan(<<>>),
              mDMAQueueData |-> PerChan(<<>>), mWriteBuffAddr |-> PerChan(<<>>)]
  /\ shared = [mActiveWriteCmdQueue |-> <<>>, mActiveDMACmdQueue |-> <<>>,
               mWrBuffAddr |-> <<>>, mRdBuffPtrQueue |-> <<>>]
  /\ \E f \in Fetches :
       tlpQueue = [q \in TlpQueue |-> IF q = "MEM_READ_CMD_Q" THEN <<f>> ELSE <<>>]
  /\ status = [cw |-> AllBanks("FREE"), dl1 |-> AllBanks("FREE"),
               dl2 |-> AllBanks("FREE")]
  /\ credit = PerChan(Credit)
  /\ buffer = [wr |-> [i \in WrBuff |-> [busy |-> FALSE, data |-> Free]],
               rd |-> [i \in RdBuff |-> [busy |-> FALSE, data |-> Free]],
               mWriteData |-> PerChan(Free)]
  /\ link = [token |-> 0, chanIndex |-> 0]
  /\ finished = {} /\ fetched = <<>>
  /\ waiting = [p \in AllProcs |-> FirstWait(p)]
  /\ runnable = FirstRun /\ running = Nobody
  /\ pending = Event("mArbitrate", 0)
  /\ peq = [q \in Peqs |-> EmptyPeq]

At(p, place) == Turn(p) /\ local[p].at = place
Goes(p, place) == local' = [local EXCEPT ![p].at = place]
GoesWith(p, place, w, b) ==
  local' = [local EXCEPT ![p] = [at |-> place, word |-> w, buf |-> b]]

\* Active queues hold as many entries as there are banks; pushQueue drops an
\* entry that does not fit.
IsFull(q) == Len(q) = NumBanks
pushQueue(q, x) == IF Len(q) < NumBanks THEN Append(q, x) ELSE q

NotFullEvent(q, name, c) == IF IsFull(q) THEN Event(name, c) ELSE {}

(***************************************************************************)
(* pcmdQInsertThread links the sub-commands one by one.                    *)
(***************************************************************************)
\* TeraSBankLLMethod: the sub-command joins the list of its bank.
TeraSBankLLMethod ==
  LET w == local[Insert].word + 1 IN
  /\ At(Insert, "top") /\ w \in Word
  /\ list' = [list EXCEPT ![ChanOf(w)][BankOf(w)] = Append(@, w)]
  /\ GoesWith(Insert, "top", w, 0)
  /\ Notify(Event("mCmdDispatch", ChanOf(w)) \cup ZeroTime(Insert))
  /\ Wait(Insert, ZeroTime(Insert))
  /\ UNCHANGED <<deviceVars, rcVars, queue, shared, tlpQueue, status, credit,
                 buffer, link, finished, fetched, peq>>

InsertEnds ==
  /\ At(Insert, "top") /\ local[Insert].word = Len(load)
  /\ Wait(Insert, Event("mTrigPcmdQ", 0))
  /\ UNCHANGED <<deviceVars, rcVars, dataVars, pending, peq>>

(***************************************************************************)
(* cmdDispatcherThread.                                                    *)
(***************************************************************************)
\* checkCmdDispatcherBankStatus: banks that count as busy.
DispBusy(c, b) == list[c][b] = <<>> \/ status.cw[c][b] = "BUSY"

\* The head of the list goes if its latch is free.
LatchOf(w) == IF IsWrite(w) THEN "dl2" ELSE "dl1"
CanDispatch(c, b) ==
  list[c][b] # <<>> /\ status[LatchOf(Head(list[c][b]))][c][b] = "FREE"

\* pollCmdDispatcherBankStatus waits if every bank is busy.
DispatcherPolls(c) ==
  LET p == Dispatcher(c) IN
  /\ At(p, "check")
  /\ GoesWith(p, "banks", 0, 0)
  /\ IF \A b \in Bank : DispBusy(c, b) THEN Wait(p, DispatchEvents(c)) ELSE GoOn(p)
  /\ UNCHANGED <<deviceVars, rcVars, list, queue, shared, tlpQueue, status,
                 credit, buffer, link, finished, fetched, pending, peq>>

\* Banks the pass, which is at bank local.buf, has yet to serve.
ReadyBanks(c) == {b \in Bank : b >= local[Dispatcher(c)].buf /\ CanDispatch(c, b)}

PassEnds(c) ==
  LET p == Dispatcher(c) IN
  /\ At(p, "banks") /\ ReadyBanks(c) = {}
  /\ GoesWith(p, "check", 0, 0)
  /\ GoOn(p)
  /\ UNCHANGED <<deviceVars, rcVars, list, queue, shared, tlpQueue, status,
                 credit, buffer, link, finished, fetched, pending, peq>>

ActiveQueueOf(w) == IF IsWrite(w) THEN "mAlcq" ELSE "mAscq"

Least(S) == CHOOSE x \in S : \A y \in S : x <= y

\* processBankLinkList: the head leaves its list; if its active queue is full
\* the dispatcher waits once.
DispatcherUnlinks(c) ==
  LET p == Dispatcher(c)
      b == Least(ReadyBanks(c))
      w == Head(list[c][b]) IN
  /\ At(p, "banks") /\ ReadyBanks(c) # {}
  /\ list' = [list EXCEPT ![c][b] = Tail(@)]
  /\ GoesWith(p, "push", w, b)
  /\ IF IsFull(queue[ActiveQueueOf(w)][c])
     THEN Wait(p, Event(ActiveQueueOf(w) \o "NotFull", c)) ELSE GoOn(p)
  /\ UNCHANGED <<deviceVars, rcVars, queue, shared, tlpQueue, status, credit,
                 buffer, link, finished, fetched, pending, peq>>

\* pushShortQueueCmd or pushLongQueueCmd (which notifies only if the queue was
\* empty); the bank and the latch become busy after the push.
DispatcherPushes(c) ==
  LET p == Dispatcher(c)
      w == local[p].word
      b == local[p].buf
      name == ActiveQueueOf(w) IN
  /\ At(p, "push")
  /\ queue' = [queue EXCEPT ![name][c] = pushQueue(@, w)]
  /\ Notify(IF ~IsWrite(w) \/ queue[name][c] = <<>>
            THEN Event(name \o "NotEmpty", c) ELSE {})
  /\ status' = [status EXCEPT !.cw[c][b] = "BUSY", ![LatchOf(w)][c][b] = "BUSY"]
  /\ GoesWith(p, "banks", 0, b + 1)
  /\ GoOn(p)
  /\ UNCHANGED <<deviceVars, rcVars, list, shared, tlpQueue, credit, buffer,
                 link, finished, fetched, peq>>

cmdDispatcherThread(c) ==
  DispatcherPolls(c) \/ PassEnds(c) \/ DispatcherUnlinks(c) \/ DispatcherPushes(c)

(***************************************************************************)
(* Writes: longQueueThread fetches the data of one sub-command at a time.  *)
(***************************************************************************)
LongSleeps(c) ==
  LET p == Long(c) IN
  /\ At(p, "top") /\ queue.mAlcq[c] = <<>>
  /\ Goes(p, "pop")
  /\ Wait(p, Event("mAlcqNotEmpty", c))
  /\ UNCHANGED <<deviceVars, rcVars, list, queue, shared, tlpQueue, status,
                 credit, buffer, link, finished, fetched, pending, peq>>

\* The command leaves the long queue; the thread waits once if the TLP queue
\* is full.
LongTakes(c) ==
  LET p == Long(c) IN
  /\ At(p, "top") \/ At(p, "pop")
  /\ queue.mAlcq[c] # <<>>
  /\ queue' = [queue EXCEPT !.mAlcq[c] = Tail(@)]
  /\ Notify(NotFullEvent(queue.mAlcq[c], "mAlcqNotFull", c))
  /\ GoesWith(p, "ask", Head(queue.mAlcq[c]), 0)
  /\ IF Len(tlpQueue["MEM_READ_DATA_Q"]) = QueueSize
     THEN Wait(p, Event("mMemReadDataQNotFull", 0)) ELSE GoOn(p)
  /\ UNCHANGED <<deviceVars, rcVars, list, shared, tlpQueue, status, credit,
                 buffer, link, finished, fetched, peq>>

\* It asks for a buffer.
LongAsks(c) ==
  LET p == Long(c) IN
  /\ At(p, "ask")
  /\ shared' = [shared EXCEPT !.mActiveWriteCmdQueue = Append(@, local[p].word)]
  /\ Notify(Event("mDispatchWriteCmd", c))
  /\ Goes(p, "buffer")
  /\ Wait(p, Event("mWriteDataSent", c))
  /\ UNCHANGED <<deviceVars, rcVars, list, queue, tlpQueue, status, credit,
                 buffer, link, finished, fetched, peq>>

\* Only now does the buffer become busy; a data read TLP with its number in
\* the tag goes to the host.
LongFetches(c) ==
  LET p == Long(c)
      buf == Head(shared.mWrBuffAddr)
      addrs == Append(queue.mWriteBuffAddr[c], buf) IN
  /\ At(p, "buffer") /\ shared.mWrBuffAddr # <<>>
  /\ shared' = [shared EXCEPT !.mWrBuffAddr = Tail(@)]
  /\ buffer' = [buffer EXCEPT !.wr[buf].busy = TRUE]
  /\ queue' = [queue EXCEPT !.mWriteBuffAddr[c] = addrs]
  /\ tlpQueue' = [tlpQueue EXCEPT !["MEM_READ_DATA_Q"] =
                    Append(@, [buf |-> Head(addrs), word |-> local[p].word])]
  /\ Notify(Event("mArbitrate", 0))
  /\ Goes(p, "data")
  /\ Wait(p, {DataRx(c)})
  /\ UNCHANGED <<deviceVars, rcVars, list, status, credit, link, finished,
                 fetched, peq>>

\* The data is there; the thread waits once if the DMA queue is full.
LongHasData(c) ==
  LET p == Long(c) IN
  /\ At(p, "data")
  /\ queue' = [queue EXCEPT !.mWriteBuffAddr[c] = Tail(@)]
  /\ GoesWith(p, "push", local[p].word, Head(queue.mWriteBuffAddr[c]))
  /\ peq' = Take(peq, DataRx(c))
  /\ IF IsFull(queue.mAdcq[c]) THEN Wait(p, Event("mAdcqNotFull", c)) ELSE GoOn(p)
  /\ UNCHANGED <<deviceVars, rcVars, list, shared, tlpQueue, status, credit,
                 buffer, link, finished, fetched, pending>>

\* An entry of the DMA queue.
Entry(p) == [word |-> local[p].word, buf |-> local[p].buf]

LongPushes(c) ==
  LET p == Long(c) IN
  /\ At(p, "push")
  /\ queue' = [queue EXCEPT !.mAdcq[c] = pushQueue(@, Entry(p))]
  /\ Notify(Event("mAdcqNotEmpty", c))
  /\ GoesWith(p, "top", 0, 0)
  /\ GoOn(p)
  /\ UNCHANGED <<deviceVars, rcVars, list, shared, tlpQueue, status, credit,
                 buffer, link, finished, fetched, peq>>

longQueueThread(c) ==
  \/ LongSleeps(c) \/ LongTakes(c) \/ LongAsks(c) \/ LongFetches(c)
  \/ LongHasData(c) \/ LongPushes(c)

(***************************************************************************)
(* sendWriteCmdThread and dispatchReadCmdThread: the heads of the shared   *)
(* queues get a buffer, in turn.  A thread whose channel is not at the     *)
(* head looks again 1 ns later.                                            *)
(***************************************************************************)
QueueOf(p) ==
  IF p[1] = "sendWriteCmdThread" THEN shared.mActiveWriteCmdQueue
  ELSE shared.mActiveDMACmdQueue
BuffersOf(p) == IF p[1] = "sendWriteCmdThread" THEN buffer.wr ELSE buffer.rd

\* Mutant: the event is not the channel's own.
AskedByAny(p) ==
  IF p[1] = "sendWriteCmdThread" THEN Event("mDispatchWriteCmd", p[2])
  ELSE {<<"mDispatchCmd", c>> : c \in Chan}

AskedBy(p) ==
  IF p[1] = "sendWriteCmdThread" THEN Event("mDispatchWriteCmd", p[2])
  ELSE Event("mDispatchCmd", p[2])
SpaceFor(p) ==
  IF p[1] = "sendWriteCmdThread" THEN Event("mWrBuffHasSpace", 0)
  ELSE Event("mRdBuffHasSpace", 0)

\* Mutant: the channel of the head is not looked at.
AnyEntry(p) == QueueOf(p) # <<>>

HeadIsOwn(p) == QueueOf(p) # <<>> /\ ChanOf(Head(QueueOf(p))) = p[2]

\* Mutant: the status of a buffer is not looked at.
AllBuffers(p) == DOMAIN BuffersOf(p)

FreeBuffers(p) == {i \in DOMAIN BuffersOf(p) : ~BuffersOf(p)[i].busy}

HandOutSleeps(p) ==
  /\ At(p, "top") /\ QueueOf(p) = <<>>
  /\ Goes(p, "front")
  /\ Wait(p, AskedBy(p))
  /\ UNCHANGED <<deviceVars, rcVars, list, queue, shared, tlpQueue, status,
                 credit, buffer, link, finished, fetched, pending, peq>>

HandOutLooks(p) ==
  /\ At(p, "top") \/ At(p, "front")
  /\ QueueOf(p) # <<>>
  /\ IF HeadIsOwn(p)
     THEN /\ Goes(p, "hand")
          /\ GoOn(p)
          /\ UNCHANGED peq
     ELSE /\ Goes(p, "top")
          /\ Sleep(p, "1 ns")
  /\ UNCHANGED <<deviceVars, rcVars, list, queue, shared, tlpQueue, status,
                 credit, buffer, link, finished, fetched, pending>>

\* No buffer is free: wait for one, and then a delta cycle longer.
HandOutWaits(p) ==
  /\ \/ /\ At(p, "hand") /\ FreeBuffers(p) = {}
        /\ Goes(p, "space")
        /\ Wait(p, SpaceFor(p))
        /\ UNCHANGED pending
     \/ /\ At(p, "space")
        /\ Goes(p, "hand")
        /\ Notify(ZeroTime(p))
        /\ Wait(p, ZeroTime(p))
  /\ UNCHANGED <<deviceVars, rcVars, list, queue, shared, tlpQueue, status,
                 credit, buffer, link, finished, fetched, peq>>

\* getFreeBuffPtr
getFreeBuffPtr(p) == Least(FreeBuffers(p))

\* A write's buffer is handed out and not yet marked busy.
SenderHandsOut(c) ==
  LET p == Sender(c) IN
  /\ At(p, "hand") /\ FreeBuffers(p) # {}
  /\ shared' = [shared EXCEPT !.mActiveWriteCmdQueue = Tail(@),
                              !.mWrBuffAddr = Append(@, getFreeBuffPtr(p))]
  /\ Notify(Event("mWriteDataSent", ChanOf(Head(QueueOf(p)))))
  /\ Goes(p, "top")
  /\ GoOn(p)
  /\ UNCHANGED <<deviceVars, rcVars, list, queue, tlpQueue, status, credit,
                 buffer, link, finished, fetched, peq>>

\* A read's buffer becomes busy at once, and the data is fetched.
ReaderHandsOut(c) ==
  LET p == Reader(c)
      buf == getFreeBuffPtr(p) IN
  /\ At(p, "hand") /\ FreeBuffers(p) # {}
  /\ shared' = [shared EXCEPT !.mActiveDMACmdQueue = Tail(@)]
  /\ buffer' = [buffer EXCEPT !.rd[buf].busy = TRUE]
  /\ GoesWith(p, "ONFI_BANK_SELECT_COMMAND", Head(QueueOf(p)), buf)
  /\ Notify(Event("mChipSelect", c))
  /\ Wait(p, Event("mChipSelectTx", c))
  /\ UNCHANGED <<deviceVars, rcVars, list, queue, tlpQueue, status, credit,
                 link, finished, fetched, peq>>

\* The data has come: DL2 is free, and the manager may go on.
ReaderHasData(c) ==
  LET p == Reader(c) IN
  /\ At(p, "sent")
  /\ status' = [status EXCEPT !.dl2[c][BankOf(local[p].word)] = "FREE"]
  /\ queue' = [queue EXCEPT !.mDMADoneQueue[c] = Append(@, Entry(p))]
  /\ Notify({<<"mCntrlPhyDL2Free", c>>, <<"mReadDataRx", c>>})
  /\ GoesWith(p, "top", 0, 0)
  /\ GoOn(p)
  /\ UNCHANGED <<deviceVars, rcVars, list, shared, tlpQueue, credit, buffer,
                 link, finished, fetched, peq>>

HandOut(p) == HandOutSleeps(p) \/ HandOutLooks(p) \/ HandOutWaits(p)
sendWriteCmdThread(c) == HandOut(Sender(c)) \/ SenderHandsOut(c)
dispatchReadCmdThread(c) ==
  HandOut(Reader(c)) \/ ReaderHandsOut(c) \/ ReaderHasData(c)

(***************************************************************************)
(* chanManagerThread.                                                      *)
(***************************************************************************)
\* RRAMInterfaceMethod: the die is selected, which takes chipSelectMethod two
\* delta cycles, then the request is sent.
Issue(p, code, w, buf) ==
  /\ GoesWith(p, code, w, buf)
  /\ Wait(p, Event("mChipSelectTx", p[2]))

chipSelectMethod(c) ==
  /\ Turn(ChipSel(c))
  /\ Notify(Event("mChipSelectTx", c))
  /\ Wait(ChipSel(c), Event("mChipSelect", c))
  /\ UNCHANGED <<deviceVars, rcVars, dataVars, peq>>

Codes == {"ONFI_READ_COMMAND", "ONFI_WRITE_COMMAND", "ONFI_BANK_SELECT_COMMAND"}
AnswerEvent(code) ==
  IF code = "ONFI_BANK_SELECT_COMMAND" THEN "mEndRead" ELSE "mEndReq"

RRAMInterfaceMethod(p) ==
  LET c == p[2]
      w == local[p].word
      code == local[p].at IN
  /\ Turn(p) /\ code \in Codes
  /\ peq' = nb_transport_fw(peq, code, c,
              [addr |-> w, bank |-> BankOf(w),
               data |-> IF IsWrite(w) THEN buffer.mWriteData[c] ELSE <<w>>])
  /\ Goes(p, IF code = "ONFI_BANK_SELECT_COMMAND" THEN "sent" ELSE
             IF IsWrite(w) THEN "writeSent" ELSE "readSent")
  /\ Wait(p, Event(AnswerEvent(code), c))
  /\ UNCHANGED <<deviceVars, rcVars, list, queue, shared, tlpQueue, status,
                 credit, buffer, link, finished, fetched, pending>>

ManagerLooks(c) ==
  LET p == Manager(c) IN
  /\ At(p, "top")
  /\ Goes(p, "arbitrate")
  /\ IF queue.mAscq[c] = <<>> /\ queue.mAdcq[c] = <<>>
     THEN Wait(p, {<<"mAdcqNotEmpty", c>>, <<"mAscqNotEmpty", c>>}) ELSE GoOn(p)
  /\ UNCHANGED <<deviceVars, rcVars, list, queue, shared, tlpQueue, status,
                 credit, buffer, link, finished, fetched, pending, peq>>

\* queueArbitration: reads first, as long as there is credit.  Without credit
\* the manager waits for the DMA queue and takes it when it wakes.
TakesShort(c) ==
  At(Manager(c), "arbitrate") /\ credit[c] # 0 /\ queue.mAscq[c] # <<>>
TakesDMA(c) ==
  \/ At(Manager(c), "dma")
  \/ At(Manager(c), "arbitrate") /\ (credit[c] = 0 \/ queue.mAscq[c] = <<>>)

ManagerWaitsForDMA(c) ==
  LET p == Manager(c) IN
  /\ At(p, "arbitrate") /\ credit[c] = 0 /\ queue.mAdcq[c] = <<>>
  /\ Goes(p, "dma")
  /\ Wait(p, Event("mAdcqNotEmpty", c))
  /\ UNCHANGED <<deviceVars, rcVars, list, queue, shared, tlpQueue, status,
                 credit, buffer, link, finished, fetched, pending, peq>>

\* dispatchShortCmd
ManagerTakesShort(c) ==
  /\ TakesShort(c)
  /\ credit' = [credit EXCEPT ![c] = @ - 1]
  /\ queue' = [queue EXCEPT !.mAscq[c] = Tail(@)]
  /\ Issue(Manager(c), "ONFI_READ_COMMAND", Head(queue.mAscq[c]), 0)
  /\ Notify(Event("mChipSelect", c)
            \cup NotFullEvent(queue.mAscq[c], "mAscqNotFull", c))
  /\ UNCHANGED <<deviceVars, rcVars, list, shared, tlpQueue, status, buffer,
                 link, finished, fetched, peq>>

ReadCommandSent(c) ==
  LET p == Manager(c) IN
  /\ At(p, "readSent")
  /\ peq' = Post(peq, PendingR(c), local[p].word)
  /\ GoesWith(p, "top", 0, 0)
  /\ GoOn(p)
  /\ UNCHANGED <<deviceVars, rcVars, list, queue, shared, tlpQueue, status,
                 credit, buffer, link, finished, fetched, pending>>

\* A write's data is copied from its buffer and sent; a read's data transfer
\* is left to dispatchReadCmdThread.
ManagerTakesDMA(c) ==
  LET p == Manager(c)
      e == Head(queue.mAdcq[c])
      notFull == NotFullEvent(queue.mAdcq[c], "mAdcqNotFull", c) IN
  /\ TakesDMA(c) /\ queue.mAdcq[c] # <<>>
  /\ queue' = [queue EXCEPT !.mAdcq[c] = Tail(@)]
  /\ IF IsWrite(e.word)
     THEN /\ buffer' = [buffer EXCEPT !.mWriteData[c] = buffer.wr[e.buf].data]
          /\ Issue(p, "ONFI_WRITE_COMMAND", e.word, e.buf)
          /\ Notify(notFull \cup Event("mChipSelect", c))
          /\ UNCHANGED shared
     ELSE /\ shared' = [shared EXCEPT !.mActiveDMACmdQueue = Append(@, e.word)]
          /\ GoesWith(p, "readData", 0, 0)
          /\ Notify(notFull \cup Event("mDispatchCmd", c))
          /\ Wait(p, Event("mReadDataRx", c))
          /\ UNCHANGED buffer
  /\ UNCHANGED <<deviceVars, rcVars, list, tlpQueue, status, credit, link,
                 finished, fetched, peq>>

\* The data of a read has come; it is passed on after the ECC delay.
ManagerHasReadData(c) ==
  LET p == Manager(c)
      e == Head(queue.mDMADoneQueue[c]) IN
  /\ At(p, "readData") /\ queue.mDMADoneQueue[c] # <<>>
  /\ queue' = [queue EXCEPT !.mDMADoneQueue[c] = Tail(@),
                            !.mDMAQueueData[c] = Append(@, e)]
  /\ peq' = Post(peq, ReadDone(c), "ECC delay")
  /\ GoesWith(p, "top", 0, 0)
  /\ GoOn(p)
  /\ UNCHANGED <<deviceVars, rcVars, list, shared, tlpQueue, status, credit,
                 buffer, link, finished, fetched, pending>>

\* dispatchWriteCmd, after the write command was accepted: waits while DL1 is
\* busy, which then takes over from DL2.
WriteWaitsForDL1(c) ==
  LET p == Manager(c) IN
  /\ At(p, "writeSent") /\ status.dl1[c][BankOf(local[p].word)] = "BUSY"
  /\ Wait(p, Event("mPhyDL1Free", c))
  /\ UNCHANGED <<deviceVars, rcVars, dataVars, pending, peq>>

WriteCommandSent(c) ==
  LET p == Manager(c)
      b == BankOf(local[p].word) IN
  /\ At(p, "writeSent") /\ status.dl1[c][b] = "FREE"
  /\ status' = [status EXCEPT !.dl2[c][b] = "FREE", !.cw[c][b] = "FREE",
                              !.dl1[c][b] = "BUSY"]
  /\ buffer' = [buffer EXCEPT !.wr[local[p].buf].busy = FALSE]
  /\ Notify({<<"mTrigCmdDisp", c>>, <<"mWrBuffHasSpace", 0>>})
  /\ peq' = Post(peq, PendingW(c), local[p].word)
  /\ GoesWith(p, "top", 0, 0)
  /\ GoOn(p)
  /\ UNCHANGED <<deviceVars, rcVars, list, queue, shared, tlpQueue, credit,
                 link, finished, fetched>>

chanManagerThread(c) ==
  \/ ManagerLooks(c) \/ ManagerWaitsForDMA(c) \/ ManagerTakesShort(c)
  \/ ReadCommandSent(c) \/ ManagerTakesDMA(c) \/ ManagerHasReadData(c)
  \/ WriteWaitsForDL1(c) \/ WriteCommandSent(c)

(***************************************************************************)
(* The end of read time and program time, responses, and read data on its  *)
(* way to the host.                                                        *)
(***************************************************************************)
\* pendingReadCmdThread waits for room in the DMA queue, then once for DL2.
PendingReadWaits(c) ==
  LET p == PendingR(c) IN
  /\ At(p, "top")
  /\ peq[p].due = <<>> \/ IsFull(queue.mAdcq[c])
  /\ Wait(p, IF peq[p].due = <<>> THEN {p} ELSE Event("mAdcqNotFull", c))
  /\ UNCHANGED <<deviceVars, rcVars, dataVars, pending, peq>>

PendingReadTakes(c) ==
  LET p == PendingR(c)
      w == Head(peq[p].due) IN
  /\ At(p, "top") /\ peq[p].due # <<>> /\ ~IsFull(queue.mAdcq[c])
  /\ peq' = Take(peq, p)
  /\ GoesWith(p, "push", w, 0)
  /\ IF status.dl2[c][BankOf(w)] = "BUSY"
     THEN Wait(p, Event("mCntrlPhyDL2Free", c)) ELSE GoOn(p)
  /\ UNCHANGED <<deviceVars, rcVars, list, queue, shared, tlpQueue, status,
                 credit, buffer, link, finished, fetched, pending>>

\* DL1 is handed on if DL2 is free now; the command goes to the DMA queue.
PendingReadPushes(c) ==
  LET p == PendingR(c)
      b == BankOf(local[p].word) IN
  /\ At(p, "push")
  /\ IF status.dl2[c][b] = "FREE"
     THEN /\ status' = [status EXCEPT !.dl1[c][b] = "FREE", !.cw[c][b] = "FREE",
                                      !.dl2[c][b] = "BUSY"]
          /\ Notify({<<"mTrigCmdDisp", c>>, <<"mAdcqNotEmpty", c>>})
     ELSE Notify(Event("mAdcqNotEmpty", c)) /\ UNCHANGED status
  /\ queue' = [queue EXCEPT !.mAdcq[c] = pushQueue(@, Entry(p))]
  /\ GoesWith(p, "top", 0, 0)
  /\ GoOn(p)
  /\ UNCHANGED <<deviceVars, rcVars, list, shared, tlpQueue, credit, buffer,
                 link, finished, fetched, peq>>

\* The program time of a write is over; the dispatcher is not told.
pendingWriteCmdMethod(c) ==
  LET p == PendingW(c)
      w == Head(peq[p].due) IN
  /\ Turn(p)
  /\ status' = [status EXCEPT !.cw[c][BankOf(w)] = "FREE",
                              !.dl1[c][BankOf(w)] = "FREE"]
  /\ finished' = finished \cup {w}
  /\ Notify({<<"mPhyDL1Free", c>>, <<"mCmdQNotFull", 0>>})
  /\ peq' = Take(peq, p)
  /\ EndOfLoop(p, peq')
  /\ UNCHANGED <<deviceVars, rcVars, local, list, queue, shared, tlpQueue,
                 credit, buffer, link, fetched>>

\* Mutant: every response returns a credit.
CreditForAny(response) == 1

CreditOf(response) == IF response = "READ" THEN 1 ELSE 0

\* Only the response of a read ends the wait for its data.
checkRespMethod(c) ==
  LET p == CheckResp(c)
      response == Head(peq[p].due) IN
  /\ Turn(p)
  /\ IF peq[p].due = <<>>
     THEN Wait(p, {p}) /\ UNCHANGED <<credit, pending, peq>>
     ELSE /\ credit' = [credit EXCEPT ![c] = @ + CreditOf(response)]
          /\ Notify(IF response = "READ" THEN Event("mEndRead", c) ELSE {})
          /\ peq' = Take(peq, p)
          /\ EndOfLoop(p, peq')
  /\ UNCHANGED <<deviceVars, rcVars, local, list, queue, shared, tlpQueue,
                 status, buffer, link, finished, fetched>>

\* memReadCompletionThread sleeps until an ECC delay is over, or waits once
\* for room in the TLP queue.
ReadDoneWaits(c) ==
  LET p == ReadDone(c) IN
  /\ At(p, "top")
  /\ IF queue.mDMAQueueData[c] = <<>>
     THEN /\ Wait(p, {p})
          /\ peq' = [peq EXCEPT ![p].due = <<>>]
          /\ UNCHANGED local
     ELSE /\ Goes(p, "go")
          /\ IF Len(tlpQueue["MEM_WRITE_DATA_Q"]) = QueueSize
             THEN Wait(p, Event("mMemWriteDataQNotFull", 0)) ELSE GoOn(p)
          /\ UNCHANGED peq
  /\ UNCHANGED <<deviceVars, rcVars, list, queue, shared, tlpQueue, status,
                 credit, buffer, link, finished, fetched, pending>>

\* What the channel's mReadData holds now is saved and sent.  Bank and DL1
\* become free, and the PCMDQ entry is given back.
ReadDoneSends(c) ==
  LET p == ReadDone(c)
      e == Head(queue.mDMAQueueData[c])
      b == BankOf(e.word) IN
  /\ At(p, "go")
  /\ queue' = [queue EXCEPT !.mDMAQueueData[c] = Tail(@)]
  /\ buffer' = [buffer EXCEPT !.rd[e.buf].data = readData[c]]
  /\ shared' = [shared EXCEPT !.mRdBuffPtrQueue = Append(@, e.buf)]
  /\ tlpQueue' = [tlpQueue EXCEPT !["MEM_WRITE_DATA_Q"] =
                    Append(@, [word |-> e.word, data |-> readData[c]])]
  /\ status' = [status EXCEPT !.cw[c][b] = "FREE", !.dl1[c][b] = "FREE"]
  /\ finished' = finished \cup {e.word}
  /\ Notify({<<"mArbitrate", 0>>, <<"mCmdQNotFull", 0>>, <<"mTrigCmdDisp", c>>})
  /\ Goes(p, "top")
  /\ GoOn(p)
  /\ UNCHANGED <<deviceVars, rcVars, list, credit, link, fetched, peq>>

pendingReadCmdThread(c) ==
  PendingReadWaits(c) \/ PendingReadTakes(c) \/ PendingReadPushes(c)
memReadCompletionThread(c) == ReadDoneWaits(c) \/ ReadDoneSends(c)

(***************************************************************************)
(* arbiterThread: the TLP queues have their turn one after the other.      *)
(***************************************************************************)
TurnOrder == <<"MEM_READ_CMD_Q", "MEM_READ_DATA_Q",
               "MEM_WRITE_DATA_Q", "MEM_WRITE_COMP_Q">>
SpaceEvent(q) ==
  CASE q = "MEM_READ_CMD_Q"   -> Event("mMemReadCmdQNotFull", 0)
    [] q = "MEM_READ_DATA_Q"  -> Event("mMemReadDataQNotFull", 0)
    [] q = "MEM_WRITE_DATA_Q" -> Event("mMemWriteDataQNotFull", 0)
    [] q = "MEM_WRITE_COMP_Q" -> Event("mMemWriteCompQNotFull", 0)

NoTLP == \A q \in TlpQueue : tlpQueue[q] = <<>>

ArbiterSleeps ==
  /\ At(Arbiter, "top") /\ NoTLP
  /\ Goes(Arbiter, "yield")
  /\ Wait(Arbiter, Event("mArbitrate", 0))
  /\ UNCHANGED <<deviceVars, rcVars, list, queue, shared, tlpQueue, status,
                 credit, buffer, link, finished, fetched, pending, peq>>

\* queueArbiter, and the transfer of a TLP if it is its queue's turn.
ArbiterTurn ==
  LET q == TurnOrder[link.token + 1] IN
  /\ At(Arbiter, "top") /\ ~NoTLP
  /\ link' = [link EXCEPT !.token = (@ + 1) % Len(TurnOrder)]
  /\ IF tlpQueue[q] = <<>>
     THEN /\ Goes(Arbiter, "yield")
          /\ GoOn(Arbiter)
          /\ UNCHANGED <<rcVars, tlpQueue, pending, peq>>
     ELSE /\ tlpQueue' = [tlpQueue EXCEPT ![q] = Tail(@)]
          /\ Notify(SpaceEvent(q))
          /\ cntrl_b_transport(q, Head(tlpQueue[q]))
          /\ GoesWith(Arbiter, q, 0, 0)
          /\ Sleep(Arbiter, "txTime")
  /\ UNCHANGED <<deviceVars, list, queue, shared, status, credit, buffer,
                 finished, fetched>>

\* The TLP has crossed the link; a data write gives its read buffer back.
ArbiterSent ==
  LET q == local[Arbiter].at IN
  /\ Turn(Arbiter) /\ q \in TlpQueue
  /\ Goes(Arbiter, "yield")
  /\ IF q = "MEM_WRITE_DATA_Q"
     THEN /\ buffer' = [buffer EXCEPT !.rd[Head(shared.mRdBuffPtrQueue)].busy = FALSE]
          /\ shared' = [shared EXCEPT !.mRdBuffPtrQueue = Tail(@)]
          /\ Notify({RcEvent(q), <<"mRdBuffHasSpace", 0>>})
     ELSE /\ Notify({RcEvent(q)})
          /\ UNCHANGED <<buffer, shared>>
  /\ GoOn(Arbiter)
  /\ UNCHANGED <<deviceVars, rcVars, list, queue, tlpQueue, status, credit,
                 link, finished, fetched, peq>>

ArbiterYields ==
  /\ At(Arbiter, "yield")
  /\ Goes(Arbiter, "top")
  /\ Notify(ZeroTime(Arbiter))
  /\ Wait(Arbiter, ZeroTime(Arbiter))
  /\ UNCHANGED <<deviceVars, rcVars, list, queue, shared, tlpQueue, status,
                 credit, buffer, link, finished, fetched, peq>>

arbiterThread == ArbiterSleeps \/ ArbiterTurn \/ ArbiterSent \/ ArbiterYields

(***************************************************************************)
(* Answers of the root complex: what was read goes to the controller.      *)
(***************************************************************************)
IsFetch(tlp) == "len" \in DOMAIN tlp

\* A fetch that passes the end of the submission queue reads memory twice.
RestAfterWrap(tlp) ==
  IsFetch(tlp) /\ CheckNumOfSq(tlp.first, tlp.len).num < tlp.len

RcReadsRest ==
  LET p == RcForDut IN
  /\ Turn(p) /\ rc[p].at = "memory" /\ RestAfterWrap(rc[p].tlp)
  /\ rc' = [rc EXCEPT ![p].at = "rest"]
  /\ Sleep(p, "send2Mem")
  /\ UNCHANGED <<deviceVars, dataVars, rcQueue, rcToken, hostData, pending>>

RcHasRead ==
  /\ Turn(RcForDut)
  /\ \/ rc[RcForDut].at = "memory" /\ ~RestAfterWrap(rc[RcForDut].tlp)
     \/ rc[RcForDut].at = "rest"

\* processCompletionTLPCmd
AnswersFetch ==
  LET tlp == rc[RcForDut].tlp IN
  /\ RcHasRead /\ IsFetch(tlp)
  /\ fetched' = fetched \o FetchedEntries(tlp.first, tlp.len)
  /\ rc' = [rc EXCEPT ![RcForDut].at = "answered"]
  /\ Sleep(RcForDut, "txTime")
  /\ UNCHANGED <<deviceVars, rcQueue, rcToken, hostData, local, list, queue, shared,
                 tlpQueue, status, credit, buffer, link, finished, pending>>

\* parseData looks for the tag's buffer at the head of the queue of one
\* channel after the other, from where it stopped the last time.
WaitsForBuffer(c, buf) ==
  queue.mWriteBuffAddr[c] # <<>> /\ Head(queue.mWriteBuffAddr[c]) = buf
Distance(c) == (c - link.chanIndex + NumChans) % NumChans
ChannelsOf(buf) == {c \in Chan : WaitsForBuffer(c, buf)}
parseData(buf) ==
  CHOOSE c \in ChannelsOf(buf) :
    \A d \in ChannelsOf(buf) : Distance(c) <= Distance(d)

\* The data is in the buffer at once; the channel hears of it, and the root
\* complex goes on, when the transfer has ended.
AnswersData ==
  LET tlp == rc[RcForDut].tlp
      c == parseData(tlp.buf) IN
  /\ RcHasRead /\ ~IsFetch(tlp) /\ ChannelsOf(tlp.buf) # {}
  /\ buffer' = [buffer EXCEPT !.wr[tlp.buf].data = <<tlp.word>>]
  /\ link' = [link EXCEPT !.chanIndex = (c + 1) % NumChans]
  /\ rc' = [rc EXCEPT ![RcForDut].at = "answered"]
  /\ peq' = [Post(peq, DataRx(c), "txTime") EXCEPT ![RcForDut] =
               [run |-> <<"txTime">>, due |-> <<>>]]
  /\ Wait(RcForDut, {RcForDut})
  /\ UNCHANGED <<deviceVars, rcQueue, rcToken, hostData, local, list, queue, shared,
                 tlpQueue, status, credit, finished, fetched, pending>>

RcAnswered ==
  /\ Turn(RcForDut) /\ rc[RcForDut].at = "answered"
  /\ rc' = [rc EXCEPT ![RcForDut] = [at |-> "top", tlp |-> <<>>]]
  /\ GoOn(RcForDut)
  /\ UNCHANGED <<deviceVars, dataVars, rcQueue, rcToken, hostData, pending, peq>>

RootComplexStep ==
  \/ /\ \/ \E p \in RcThread : RcSleeps(p) \/ RcTurn(p)
        \/ RcWritten
     /\ UNCHANGED <<deviceVars, dataVars>>
  \/ RcReadsRest \/ AnswersFetch \/ AnswersData \/ RcAnswered

(***************************************************************************)
(* Time.                                                                   *)
(***************************************************************************)
\* Controller and device wait the same read and program times from the same
\* instant on, and a data transfer ends for both its ends at once.  A poll
\* that finds what it found before changes nothing and is left out.
SameInstant(S) ==
  /\ \A c \in Chan :
       /\ PendingR(c) \in S <=> <<"accRead", c>> \in S
       /\ PendingW(c) \in S =>
            LET inDevice == {i \in 1 .. Len(peq[<<"accWrite", c>>].run) :
                  peq[<<"accWrite", c>>].run[i].addr = Head(peq[PendingW(c)].run)}
            IN inDevice = {} \/ (inDevice = {1} /\ <<"accWrite", c>> \in S)
       /\ peq[DataRx(c)].run # <<>> => (DataRx(c) \in S <=> RcForDut \in S)
       /\ \A p \in {Sender(c), Reader(c)} \cap S : QueueOf(p) = <<>> \/ HeadIsOwn(p)

TimePasses ==
  \E S \in SUBSET Timers :
    /\ S # {} /\ SameInstant(S)
    /\ Expire(S)
    /\ UNCHANGED <<deviceVars, rcVars, dataVars>>

ChannelStep(c) ==
  \/ cmdDispatcherThread(c) \/ longQueueThread(c) \/ sendWriteCmdThread(c)
  \/ dispatchReadCmdThread(c) \/ chanManagerThread(c) \/ chipSelectMethod(c)
  \/ RRAMInterfaceMethod(Manager(c)) \/ RRAMInterfaceMethod(Reader(c))
  \/ pendingReadCmdThread(c) \/ pendingWriteCmdMethod(c) \/ checkRespMethod(c)
  \/ memReadCompletionThread(c)
  \/ (DeviceStep(c) /\ UNCHANGED <<rcVars, dataVars>>)

Running ==
  /\ \/ TeraSBankLLMethod \/ InsertEnds \/ arbiterThread \/ RootComplexStep
     \/ \E c \in Chan : ChannelStep(c)
     \/ (Delta /\ UNCHANGED <<deviceVars, rcVars, dataVars>>)
     \/ TimePasses
  /\ UNCHANGED load

Quiet == runnable = {} /\ pending = {} /\ Timers = {}

AllDone ==
  /\ finished = Word /\ fetched # <<>>
  /\ \A w \in Word : IsWrite(w) \/ hostData[w] # Untouched

\* The test is over.
Ends == Quiet /\ AllDone /\ UNCHANGED vars

Next == Running \/ Ends

Spec == Init /\ [][Next]_vars
FairSpec == Spec /\ WF_vars(Running)

(***************************************************************************)
(* Properties.                                                             *)
(***************************************************************************)
Linked == {w \in Word : w <= local[Insert].word}

\* The sub-commands of a sequence of DMA queue entries.
WordsOf(entries) == [i \in DOMAIN entries |-> entries[i].word]

\* What is held by the threads that have a sub-command, and by the queues.
InHand(c) ==
  {p \in {Dispatcher(c), Long(c), Manager(c), Reader(c), PendingR(c)} :
     local[p].word # 0}
Timed(q) == peq[q].run \o peq[q].due
QueuedOf(c) ==
  FlattenSeq([b \in 1 .. NumBanks |-> list[c][b - 1]])
  \o queue.mAscq[c] \o queue.mAlcq[c] \o WordsOf(queue.mAdcq[c])
  \o WordsOf(queue.mDMADoneQueue[c]) \o WordsOf(queue.mDMAQueueData[c])
  \o Timed(PendingR(c)) \o Timed(PendingW(c))

Count(w, s) == Cardinality({i \in DOMAIN s : s[i] = w})
PlacesOf(w, c) ==
  Count(w, QueuedOf(c)) + Cardinality({p \in InHand(c) : local[p].word = w})

\* Every sub-command that was linked and is not finished is in exactly one
\* list, queue or thread of its own channel, or in the read dispatch queue all
\* channels share; none is dropped by a full queue or taken by another channel.
InOnePlace ==
  \A w \in Word :
    /\ PlacesOf(w, ChanOf(w)) + Count(w, shared.mActiveDMACmdQueue)
         = IF w \in Linked \ finished THEN 1 ELSE 0
    /\ \A c \in Chan \ {ChanOf(w)} : PlacesOf(w, c) = 0

Reads(s) == Cardinality({i \in DOMAIN s : ~IsWrite(s[i])})
ReadsInHand(c) ==
  {p \in InHand(c) : ~IsWrite(local[p].word) /\ p[1] # "cmdDispatcherThread"
                      /\ local[p].at # "sent"}
BankSelects(c) ==
  Len(Timed(<<"memRead", c>>)) + Count("READ", Timed(CheckResp(c)))

\* A channel's credit and the reads the memory has been asked for and has not
\* answered add up to mCredit: responses of writes return nothing, and every
\* read returns its credit once.
ReadCreditsConserved ==
  \A c \in Chan :
    credit[c] + Cardinality(ReadsInHand(c)) + Reads(Timed(PendingR(c)))
      + Reads(WordsOf(queue.mAdcq[c])) + BankSelects(c)
      + Cardinality({i \in DOMAIN shared.mActiveDMACmdQueue :
                       ChanOf(shared.mActiveDMACmdQueue[i]) = c})
    = Credit

BuffersIn(entries) == [i \in DOMAIN entries |-> entries[i].buf]
BuffersInUse ==
  shared.mRdBuffPtrQueue
  \o FlattenSeq([i \in 1 .. NumChans |->
       BuffersIn(queue.mDMADoneQueue[i - 1]) \o BuffersIn(queue.mDMAQueueData[i - 1])
       \o (IF local[Reader(i - 1)].word # 0 THEN <<local[Reader(i - 1)].buf>> ELSE <<>>)])

\* A read buffer is busy exactly while one read of one channel has it, from
\* before the bank select until its data has crossed the link.
ReadBuffersOwned ==
  \A i \in RdBuff : Count(i, BuffersInUse) = IF buffer.rd[i].busy THEN 1 ELSE 0

\* mReadData belongs to the channel: a second read of the channel may
\* overwrite it while the first waits for the ECC delay.  The bank queue of
\* phyDl2WriteThread is shared by the channels: a read of another channel may
\* take a read's bank.
OnlyRead(w) == \A v \in Word : ~IsWrite(v) <=> v = w

\* The data that a write sends to the memory is what was fetched for that
\* write, whatever buffer it went through; a read with no other read beside it
\* leaves its own data in the host's memory.
DataIsOwn ==
  /\ \A c \in Chan :
       local[Manager(c)].at = "ONFI_WRITE_COMMAND" =>
         buffer.mWriteData[c] = <<local[Manager(c)].word>>
  /\ \A w \in Word : OnlyRead(w) => hostData[w] \in {Untouched, <<w>>}

\* A thread that was woken because a queue has an entry finds one there: the
\* code takes the front of the queue without looking again.
WokenFor(p, place, q) ==
  p \in runnable /\ running \in {p, Nobody} /\ local[p].at = place => q # <<>>

FindsItsEntry ==
  /\ \A c \in Chan :
       /\ WokenFor(Long(c), "pop", queue.mAlcq[c])
       /\ WokenFor(Long(c), "buffer", shared.mWrBuffAddr)
       /\ WokenFor(Long(c), "data", queue.mWriteBuffAddr[c])
       /\ WokenFor(Sender(c), "front", shared.mActiveWriteCmdQueue)
       /\ WokenFor(Reader(c), "front", shared.mActiveDMACmdQueue)
       /\ WokenFor(Manager(c), "dma", queue.mAdcq[c])
       /\ WokenFor(Manager(c), "arbitrate", queue.mAdcq[c] \o queue.mAscq[c])
       /\ WokenFor(Manager(c), "readData", queue.mDMADoneQueue[c])
       /\ WokenFor(ReadDone(c), "go", queue.mDMAQueueData[c])
  /\ local[Arbiter].at = "MEM_WRITE_DATA_Q" => shared.mRdBuffPtrQueue # <<>>
  /\ \A i \in DOMAIN rcQueue["MEM_READ_DATA_Q"] :
       ChannelsOf(rcQueue["MEM_READ_DATA_Q"][i].buf) # {}

\* Every write is programmed, the data of every read reaches the host's
\* memory, and the fetch brings the entries it asked for in their order,
\* across the end of the submission queue too.
EverySubCommandDone ==
  \A f \in Fetches :
    tlpQueue["MEM_READ_CMD_Q"] = <<f>> ~>
      /\ AllDone
      /\ Len(fetched) = f.len
      /\ \A i \in 1 .. f.len : fetched[i] = (f.first + i - 1) % SqSize

\* What the comment above cmdDispatcherThread says (TeraSPCIeController.h:383):
\* a command goes to a bank that is free, and the dispatcher waits when all
\* banks are busy.  The code looks at the latch the command needs, not at the
\* bank, once it has been woken.
DispatchesToFreeBanks ==
  \A c \in Chan :
    local[Dispatcher(c)].at = "push" => status.cw[c][local[Dispatcher(c)].buf] = "FREE"
==============================================================================
