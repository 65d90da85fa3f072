--------------------------- MODULE DimmController ---------------------------
(***************************************************************************)
(* TeraSController: the DIMM memory controller on top of the memory        *)
(* device.  The host writes a command into a slot of the command queue;    *)
(* its code words are linked into lists per channel and bank               *)
(* (processPCMDQueue, TeraSBankLLMethod); per channel a dispatcher moves   *)
(* list heads into the active short (reads) and long (writes, second half  *)
(* of reads) command queues, a channel manager takes them to the device,   *)
(* two methods wait for the memory time, and the countdown of the slot     *)
(* says when the command is complete.                                      *)
(*                                                                         *)
(* A code word is known by its address in the command queue; where the     *)
(* code packs type, slot, bank and count into an entry, the model looks    *)
(* them up by the address.  Latency bookkeeping and reports are left out.  *)
(***************************************************************************)
EXTENDS RRAMDevice, SequencesExt

CONSTANTS
  NumSlots,   \* slots of the command queue
  SlotCws,    \* addresses of a slot: 2^mAddrShifter
  Credit,     \* mCredit: reads a channel may have under way
  Mode        \* mMode: 0 completion queue, 1 one status per slot

ASSUME ControllerAssumption ==
  /\ NumSlots \in Nat \ {0} /\ SlotCws \in Nat \ {0} /\ Credit \in Nat \ {0}
  /\ Mode \in {0, 1}

Slot == 0 .. NumSlots - 1
Addr == 0 .. NumSlots * SlotCws - 1
Nil  == -1

VARIABLES
  mCmdQueue,        \* entry at each address: command, lba, next address
  mSlotTable,       \* type, count and (for the model) name of a slot's command
  head, tail,       \* mBankLinkList
  dispatch,         \* locals of cmdDispatcherProcess
  mAscq, mAlcq,     \* active short and long command queue
  mCwBankStatus, mPhyDL1Status, mPhyDL2Status,
  mAvailableCredit,
  manager,          \* locals of chanManagerProcess
  mIntermediateQueue, mSlotNumQueue,
  mCompletionQueue, mCompletionQueue_mcore,
  mDataBuffer       \* what the buffer holds at each address

bankVars == <<mCmdQueue, mSlotTable, head, tail>>
statusVars == <<mCwBankStatus, mPhyDL1Status, mPhyDL2Status>>
doneVars == <<mIntermediateQueue, mSlotNumQueue, mCompletionQueue,
              mCompletionQueue_mcore, mDataBuffer>>
controllerVars == <<bankVars, dispatch, mAscq, mAlcq, statusVars,
                    mAvailableCredit, manager, doneVars>>

SlotOf(a) == a \div SlotCws
Kind(a)   == mSlotTable[SlotOf(a)].cmd
LbaChan(lba) == lba % NumChans
LbaBank(lba) == (lba \div NumChans) % NumBanks
BankOf(a) == LbaBank(mCmdQueue[a].lba)
\* The name of the code word at address a, for the data it carries.
Word(a) == <<mSlotTable[SlotOf(a)].id, a % SlotCws>>

Dispatcher(c) == <<"cmdDispatcher", c>>
Manager(c)    == <<"chanManager", c>>
PendingW(c)   == <<"pendingWrite", c>>
PendingR(c)   == <<"pendingRead", c>>
Completion    == <<"completion", 0>>

DispatchEvents(c) == {<<"mCmdDispatch", c>>, <<"mTrigCmdDisp", c>>}
QueueEvents(c) == {<<"mAlcqNotEmpty", c>>, <<"mAscqNotEmpty", c>>}

ControllerMethods == {"pendingWrite", "pendingRead", "checkResp"}

ControllerProcs ==
  ((ControllerMethods \cup {"cmdDispatcher", "chanManager"}) \X Chan)
  \cup {Completion} \cup DeviceThreads

\* The events each process is sensitive to when it starts.
FirstWait(p) ==
  IF p[1] = "cmdDispatcher" THEN DispatchEvents(p[2])
  ELSE IF p[1] = "chanManager" THEN QueueEvents(p[2])
  ELSE IF p[1] = "phyDl2Write" THEN {<<"mPhyDL2Write", p[2]>>}
  ELSE {p}

Peqs == ((ControllerMethods \cup DeviceProcs) \X Chan) \cup {Completion}

NoEntry == [lba |-> 0, next |-> Nil]
NoCommand == [cmd |-> "NONE", cnt |-> 0, id |-> 0]
AllBanks(v) == [c \in Chan |-> [b \in Bank |-> v]]

ControllerInit ==
  /\ DeviceInit
  /\ mCmdQueue = [a \in Addr |-> NoEntry]
  /\ mSlotTable = [s \in Slot |-> NoCommand]
  /\ head = AllBanks(Nil) /\ tail = AllBanks(Nil)
  /\ dispatch = [c \in Chan |-> [at |-> "check", bank |-> 0, addr |-> Nil]]
  /\ mAscq = [c \in Chan |-> <<>>] /\ mAlcq = [c \in Chan |-> <<>>]
  /\ mCwBankStatus = AllBanks("FREE")
  /\ mPhyDL1Status = AllBanks("FREE") /\ mPhyDL2Status = AllBanks("FREE")
  /\ mAvailableCredit = [c \in Chan |-> Credit]
  /\ manager = [c \in Chan |-> [at |-> "top", addr |-> Nil]]
  /\ mIntermediateQueue = [s \in Slot |-> 0]
  /\ mSlotNumQueue = <<>> /\ mCompletionQueue = <<>>
  /\ mCompletionQueue_mcore = [s \in Slot |-> FALSE]
  /\ mDataBuffer = [a \in Addr |-> Free]

(***************************************************************************)
(* b_transport from the host.                                              *)
(***************************************************************************)
\* insertCommand and replicateCommand: the code words of slot s.
WordsOf(s, cnt) == s * SlotCws .. s * SlotCws + cnt - 1

\* Addresses of the new code words that go to bank b of channel c.
NewWords(s, lba, cnt, c, b) ==
  {a \in WordsOf(s, cnt) :
     LET l == lba + (a - s * SlotCws) IN LbaChan(l) = c /\ LbaBank(l) = b}

Least(S) == CHOOSE a \in S : \A x \in S : a <= x
Greatest(S) == CHOOSE a \in S : \A x \in S : a >= x

\* TeraSBankLLMethod, for all code words of the command: the first one of a
\* bank becomes its head if the list is empty and follows the tail otherwise.
NextAfter(a, s, lba, cnt) ==
  LET mine == IF a \in WordsOf(s, cnt)
              THEN {x \in WordsOf(s, cnt) : x > a /\
                      \E c \in Chan, b \in Bank :
                        {a, x} \subseteq NewWords(s, lba, cnt, c, b)}
              ELSE UNION {NewWords(s, lba, cnt, x[1], x[2]) :
                     x \in {y \in Chan \X Bank :
                        head[y[1]][y[2]] # Nil /\ tail[y[1]][y[2]] = a}}
  IN IF mine = {} THEN Nil ELSE Least(mine)

LinkWords(s, lba, cnt) ==
  mCmdQueue' = [a \in Addr |->
    IF a \in WordsOf(s, cnt)
    THEN [lba |-> lba + (a - s * SlotCws), next |-> NextAfter(a, s, lba, cnt)]
    ELSE IF NextAfter(a, s, lba, cnt) # Nil
    THEN [mCmdQueue[a] EXCEPT !.next = NextAfter(a, s, lba, cnt)]
    ELSE mCmdQueue[a]]

NewHead(old, words) ==
  IF old = Nil /\ words # {} THEN Least(words) ELSE old
\* Mutant: a list that is not empty keeps its tail.
TailKept(old, words) ==
  IF old = Nil /\ words # {} THEN Greatest(words) ELSE old

NewTail(old, words) == IF words # {} THEN Greatest(words) ELSE old

\* processPCMDQueue: command id of the given type, start and length in slot s.
processPCMDQueue(s, id, cmd, lba, cnt) ==
  /\ LinkWords(s, lba, cnt)
  /\ mSlotTable' = [mSlotTable EXCEPT ![s] = [cmd |-> cmd, cnt |-> cnt, id |-> id]]
  /\ head' = [c \in Chan |-> [b \in Bank |->
                NewHead(head[c][b], NewWords(s, lba, cnt, c, b))]]
  /\ tail' = [c \in Chan |-> [b \in Bank |->
                NewTail(tail[c][b], NewWords(s, lba, cnt, c, b))]]
  /\ Notify({<<"mCmdDispatch", LbaChan(l)>> : l \in lba .. lba + cnt - 1})

\* Data of a write command arrives in the buffer of its slot.
WriteBlockData(s, id, cnt) ==
  mDataBuffer' = [a \in Addr |-> IF a \in WordsOf(s, cnt)
                                 THEN <<id, a % SlotCws>> ELSE mDataBuffer[a]]

(***************************************************************************)
(* cmdDispatcherProcess.                                                   *)
(***************************************************************************)
HasWork(c, b) == head[c][b] # Nil
\* checkCmdDispatcherBankStatus: banks that count as busy.
DispBusy(c, b) == ~HasWork(c, b) \/ mCwBankStatus[c][b] = "BUSY"

\* The location after bank b.
NextBank(b) ==
  IF b + 1 < NumBanks THEN [at |-> "bank", bank |-> b + 1, addr |-> Nil]
  ELSE [at |-> "check", bank |-> 0, addr |-> Nil]

\* Top of the loop: pollCmdDispatcherBankStatus waits if every bank is busy.
DispatcherPolls(c) ==
  /\ Turn(Dispatcher(c)) /\ dispatch[c].at = "check"
  /\ dispatch' = [dispatch EXCEPT ![c] = [at |-> "bank", bank |-> 0, addr |-> Nil]]
  /\ IF \A b \in Bank : DispBusy(c, b)
     THEN Wait(Dispatcher(c), DispatchEvents(c)) ELSE GoOn(Dispatcher(c))
  /\ UNCHANGED <<deviceVars, bankVars, mAscq, mAlcq, statusVars,
                 mAvailableCredit, manager, doneVars, pending, peq>>

\* Mutant: a write tests the wrong latch.
CanDispatchByDL1(c, b) == HasWork(c, b) /\ mPhyDL1Status[c][b] = "FREE"

CanDispatch(c, b) ==
  /\ HasWork(c, b)
  /\ CASE Kind(head[c][b]) = "READ" -> mPhyDL1Status[c][b] = "FREE"
       [] Kind(head[c][b]) = "WRITE" -> mPhyDL2Status[c][b] = "FREE"

DispatcherSkips(c) ==
  LET b == dispatch[c].bank IN
  /\ Turn(Dispatcher(c)) /\ dispatch[c].at = "bank"
  /\ ~HasWork(c, b)
  /\ dispatch' = [dispatch EXCEPT ![c] = NextBank(b)]
  /\ GoOn(Dispatcher(c))
  /\ UNCHANGED <<deviceVars, bankVars, mAscq, mAlcq, statusVars,
                 mAvailableCredit, manager, doneVars, pending, peq>>

\* The head cannot go yet: the dispatcher waits, and looks at the next bank
\* when it wakes.
DispatcherWaits(c) ==
  LET b == dispatch[c].bank IN
  /\ Turn(Dispatcher(c)) /\ dispatch[c].at = "bank"
  /\ HasWork(c, b) /\ ~CanDispatch(c, b)
  /\ dispatch' = [dispatch EXCEPT ![c] = NextBank(b)]
  /\ Wait(Dispatcher(c), DispatchEvents(c))
  /\ UNCHANGED <<deviceVars, bankVars, mAscq, mAlcq, statusVars,
                 mAvailableCredit, manager, doneVars, pending, peq>>

\* processBankLinkList: the head moves on to the next entry.
\* Mutant: the last entry stays.
HeadStays(c, b) ==
  LET a == head[c][b] IN IF a = tail[c][b] THEN a ELSE mCmdQueue[a].next

HeadAfter(c, b) ==
  LET a == head[c][b] IN IF a = tail[c][b] THEN Nil ELSE mCmdQueue[a].next

\* The head leaves its list, and the bank and the latch become busy.
DispatcherUnlinks(c) ==
  LET b == dispatch[c].bank
      a == head[c][b] IN
  /\ Turn(Dispatcher(c)) /\ dispatch[c].at = "bank"
  /\ CanDispatch(c, b)
  /\ head' = [head EXCEPT ![c][b] = HeadAfter(c, b)]
  /\ tail' = [tail EXCEPT ![c][b] = IF a = @ THEN Nil ELSE @]
  /\ mCwBankStatus' = [mCwBankStatus EXCEPT ![c][b] = "BUSY"]
  /\ IF Kind(a) = "READ"
     THEN /\ mPhyDL1Status' = [mPhyDL1Status EXCEPT ![c][b] = "BUSY"]
          /\ UNCHANGED mPhyDL2Status
     ELSE /\ mPhyDL2Status' = [mPhyDL2Status EXCEPT ![c][b] = "BUSY"]
          /\ UNCHANGED mPhyDL1Status
  /\ dispatch' = [dispatch EXCEPT ![c].at = "push", ![c].addr = a]
  /\ GoOn(Dispatcher(c))
  /\ UNCHANGED <<deviceVars, mCmdQueue, mSlotTable, mAscq, mAlcq,
                 mAvailableCredit, manager, doneVars, pending, peq>>

IsFull(queue) == Len(queue) = NumBanks

\* DispatchShortQueue and DispatchLongQueue wait while the queue is full.
DispatchShortQueue(c) ==
  LET a == dispatch[c].addr IN
  /\ Turn(Dispatcher(c)) /\ dispatch[c].at = "push" /\ Kind(a) = "READ"
  /\ IF IsFull(mAscq[c])
     THEN /\ Wait(Dispatcher(c), {<<"mAscqNotFull", c>>})
          /\ UNCHANGED <<mAscq, dispatch, pending>>
     ELSE /\ mAscq' = [mAscq EXCEPT ![c] = Append(@, a)]
          /\ Notify({<<"mAscqNotEmpty", c>>})
          /\ dispatch' = [dispatch EXCEPT ![c] = NextBank(dispatch[c].bank)]
          /\ GoOn(Dispatcher(c))
  /\ UNCHANGED <<deviceVars, bankVars, mAlcq, statusVars, mAvailableCredit,
                 manager, doneVars, peq>>

DispatchLongQueue(c) ==
  LET a == dispatch[c].addr IN
  /\ Turn(Dispatcher(c)) /\ dispatch[c].at = "push" /\ Kind(a) = "WRITE"
  /\ IF IsFull(mAlcq[c])
     THEN /\ Wait(Dispatcher(c), {<<"mAlcqNotFull", c>>})
          /\ UNCHANGED <<mAlcq, dispatch, pending>>
     ELSE /\ mAlcq' = [mAlcq EXCEPT ![c] = Append(@, a)]
          /\ Notify({<<"mAlcqNotEmpty", c>>})
          /\ dispatch' = [dispatch EXCEPT ![c] = NextBank(dispatch[c].bank)]
          /\ GoOn(Dispatcher(c))
  /\ UNCHANGED <<deviceVars, bankVars, mAscq, statusVars, mAvailableCredit,
                 manager, doneVars, peq>>

cmdDispatcherProcess(c) ==
  \/ DispatcherPolls(c) \/ DispatcherSkips(c) \/ DispatcherWaits(c)
  \/ DispatcherUnlinks(c) \/ DispatchShortQueue(c) \/ DispatchLongQueue(c)

(***************************************************************************)
(* chanManagerProcess.  queueArbitration prefers the short queue while     *)
(* there is credit.                                                        *)
(***************************************************************************)
NotFullEvent(queue, name, c) == IF IsFull(queue) THEN {<<name, c>>} ELSE {}

\* wait(SC_ZERO_TIME) in RRAMInterfaceMethod, before the request is sent.
Issue(c, at, a) ==
  /\ manager' = [manager EXCEPT ![c] = [at |-> at, addr |-> a]]
  /\ Wait(Manager(c), {<<"zeroTime", c>>})

ManagerTakesShort(c) ==
  /\ Turn(Manager(c)) /\ manager[c].at = "top"
  /\ mAvailableCredit[c] # 0 /\ mAscq[c] # <<>>
  /\ mAvailableCredit' = [mAvailableCredit EXCEPT ![c] = @ - 1]
  /\ mAscq' = [mAscq EXCEPT ![c] = Tail(@)]
  /\ Issue(c, "ONFI_READ_COMMAND", Head(mAscq[c]))
  /\ Notify({<<"zeroTime", c>>} \cup NotFullEvent(mAscq[c], "mAscqNotFull", c))
  /\ UNCHANGED <<deviceVars, bankVars, dispatch, mAlcq, statusVars, doneVars, peq>>

\* Without credit the manager waits for the long queue (at "long") and takes
\* it when it wakes.
PicksLong(c) ==
  \/ manager[c].at = "long"
  \/ manager[c].at = "top" /\ (mAvailableCredit[c] = 0 \/ mAscq[c] = <<>>)

ManagerTakesLong(c) ==
  /\ Turn(Manager(c)) /\ PicksLong(c) /\ mAlcq[c] # <<>>
  /\ mAlcq' = [mAlcq EXCEPT ![c] = Tail(@)]
  /\ Issue(c, IF Kind(Head(mAlcq[c])) = "WRITE" THEN "ONFI_WRITE_COMMAND"
              ELSE "ONFI_BANK_SELECT_COMMAND", Head(mAlcq[c]))
  /\ Notify({<<"zeroTime", c>>} \cup NotFullEvent(mAlcq[c], "mAlcqNotFull", c))
  /\ UNCHANGED <<deviceVars, bankVars, dispatch, mAscq, statusVars,
                 mAvailableCredit, doneVars, peq>>

\* End of the loop's body.
BackToTop(c) ==
  /\ manager' = [manager EXCEPT ![c] = [at |-> "top", addr |-> Nil]]
  /\ IF mAlcq[c] = <<>> /\ mAscq[c] = <<>>
     THEN Wait(Manager(c), QueueEvents(c)) ELSE GoOn(Manager(c))

\* Nothing to take: without credit the manager waits for the long queue.
ManagerWaits(c) ==
  /\ Turn(Manager(c)) /\ PicksLong(c) /\ mAlcq[c] = <<>>
  /\ IF manager[c].at = "top" /\ mAvailableCredit[c] = 0
     THEN /\ manager' = [manager EXCEPT ![c].at = "long"]
          /\ Wait(Manager(c), {<<"mAlcqNotEmpty", c>>})
     ELSE BackToTop(c)
  /\ UNCHANGED <<deviceVars, bankVars, dispatch, mAscq, mAlcq, statusVars,
                 mAvailableCredit, doneVars, pending, peq>>

\* RRAMInterfaceMethod sends the request and waits for its answer.
AnswerEvent(code) ==
  IF code = "ONFI_BANK_SELECT_COMMAND" THEN "mEndRead" ELSE "mEndReq"

Codes == {"ONFI_READ_COMMAND", "ONFI_WRITE_COMMAND", "ONFI_BANK_SELECT_COMMAND"}

RRAMInterfaceMethod(c) ==
  LET a == manager[c].addr
      code == manager[c].at IN
  /\ Turn(Manager(c)) /\ code \in Codes
  /\ peq' = nb_transport_fw(peq, code, c,
              [addr |-> a, bank |-> BankOf(a),
               data |-> IF code = "ONFI_WRITE_COMMAND" THEN mDataBuffer[a]
                        ELSE Word(a)])
  /\ manager' = [manager EXCEPT ![c].at =
       CASE code = "ONFI_READ_COMMAND" -> "readSent"
         [] code = "ONFI_WRITE_COMMAND" -> "writeSent"
         [] code = "ONFI_BANK_SELECT_COMMAND" -> "selectSent"]
  /\ Wait(Manager(c), {<<AnswerEvent(code), c>>})
  /\ UNCHANGED <<deviceVars, bankVars, dispatch, mAscq, mAlcq, statusVars,
                 mAvailableCredit, doneVars, pending>>

\* processShortQueueCmd, after the read command was accepted.
ProcessShortQueueCmd(c) ==
  /\ Turn(Manager(c)) /\ manager[c].at = "readSent"
  /\ peq' = Post(peq, PendingR(c), manager[c].addr)
  /\ BackToTop(c)
  /\ UNCHANGED <<deviceVars, bankVars, dispatch, mAscq, mAlcq, statusVars,
                 mAvailableCredit, doneVars, pending>>

\* processLongQueueCmd, write: waits for DL1, which then takes over from DL2.
WriteWaitsForDL1(c) ==
  LET b == BankOf(manager[c].addr) IN
  /\ Turn(Manager(c)) /\ manager[c].at = "writeSent"
  /\ mPhyDL1Status[c][b] = "BUSY"
  /\ Wait(Manager(c), {<<"mPhyDL1Free", c>>})
  /\ UNCHANGED <<deviceVars, controllerVars, pending, peq>>

ProcessWriteCmd(c) ==
  LET b == BankOf(manager[c].addr) IN
  /\ Turn(Manager(c)) /\ manager[c].at = "writeSent"
  /\ mPhyDL1Status[c][b] = "FREE"
  /\ mPhyDL2Status' = [mPhyDL2Status EXCEPT ![c][b] = "FREE"]
  /\ mCwBankStatus' = [mCwBankStatus EXCEPT ![c][b] = "FREE"]
  /\ mPhyDL1Status' = [mPhyDL1Status EXCEPT ![c][b] = "BUSY"]
  /\ Notify({<<"mTrigCmdDisp", c>>})
  /\ peq' = Post(peq, PendingW(c), manager[c].addr)
  /\ BackToTop(c)
  /\ UNCHANGED <<deviceVars, bankVars, dispatch, mAscq, mAlcq,
                 mAvailableCredit, doneVars>>

\* Mutants: the first code word is not counted, or is counted twice.
CountFromAll(s) ==
  IF mIntermediateQueue[s] = 0 THEN mSlotTable[s].cnt ELSE mIntermediateQueue[s] - 1
CountFirstTwice(s) ==
  IF mIntermediateQueue[s] = 0 THEN mSlotTable[s].cnt - 2 ELSE mIntermediateQueue[s] - 1

\* IntermediateCmdQueueManager::update: zero means not started.
UpdatedCount(s) ==
  IF mIntermediateQueue[s] = 0 THEN mSlotTable[s].cnt - 1
  ELSE mIntermediateQueue[s] - 1

\* processLongQueueCmd, read: the data has come (or so the event says).
ProcessReadData(c) ==
  LET a == manager[c].addr
      s == SlotOf(a)
      cnt == UpdatedCount(s) IN
  /\ Turn(Manager(c)) /\ manager[c].at = "selectSent"
  /\ mDataBuffer' = [mDataBuffer EXCEPT ![a] = readData[c]]
  /\ mPhyDL2Status' = [mPhyDL2Status EXCEPT ![c][BankOf(a)] = "FREE"]
  /\ Notify({<<"mTrigCmdDisp", c>>})
  /\ mIntermediateQueue' = [mIntermediateQueue EXCEPT ![s] = cnt]
  /\ IF cnt = 0
     THEN /\ mSlotNumQueue' = Append(mSlotNumQueue, s)
          /\ peq' = Post(peq, Completion, s)
     ELSE UNCHANGED <<mSlotNumQueue, peq>>
  /\ BackToTop(c)
  /\ UNCHANGED <<deviceVars, bankVars, dispatch, mAscq, mAlcq, mCwBankStatus,
                 mPhyDL1Status, mAvailableCredit, mCompletionQueue,
                 mCompletionQueue_mcore>>

chanManagerProcess(c) ==
  \/ ManagerTakesShort(c) \/ ManagerTakesLong(c) \/ ManagerWaits(c)
  \/ RRAMInterfaceMethod(c) \/ ProcessShortQueueCmd(c)
  \/ WriteWaitsForDL1(c) \/ ProcessWriteCmd(c) \/ ProcessReadData(c)

(***************************************************************************)
(* Methods.                                                                *)
(***************************************************************************)
\* A finished command: the completion queue or the status of its slot.
Complete(s) ==
  IF Mode = 0
  THEN /\ mCompletionQueue' = Append(mCompletionQueue, s)
       /\ UNCHANGED mCompletionQueue_mcore
  ELSE /\ mCompletionQueue_mcore' = [mCompletionQueue_mcore EXCEPT ![s] = TRUE]
       /\ UNCHANGED mCompletionQueue

\* The program time of a write is over.
pendingWriteCmdProcess(c) ==
  LET p == PendingW(c)
      a == Head(peq[p].due)
      b == BankOf(a)
      s == SlotOf(a)
      cnt == UpdatedCount(s) IN
  /\ Turn(p)
  /\ mCwBankStatus' = [mCwBankStatus EXCEPT ![c][b] = "FREE"]
  /\ mPhyDL1Status' = [mPhyDL1Status EXCEPT ![c][b] = "FREE"]
  /\ Notify({<<"mPhyDL1Free", c>>})
  /\ mIntermediateQueue' = [mIntermediateQueue EXCEPT ![s] = cnt]
  /\ IF cnt = 0 THEN Complete(s)
     ELSE UNCHANGED <<mCompletionQueue, mCompletionQueue_mcore>>
  /\ peq' = Take(peq, p)
  /\ EndOfLoop(p, peq')
  /\ UNCHANGED <<deviceVars, bankVars, dispatch, mAscq, mAlcq, mPhyDL2Status,
                 mAvailableCredit, manager, mSlotNumQueue, mDataBuffer>>

\* The read time is over: the code word goes to the long queue, and DL1 is
\* handed on if DL2 is free.
ReadTimeIsOver(c) ==
  LET p == PendingR(c)
      a == Head(peq[p].due)
      b == BankOf(a) IN
  /\ mAlcq' = [mAlcq EXCEPT ![c] = Append(@, a)]
  /\ IF mPhyDL2Status[c][b] = "FREE"
     THEN /\ mPhyDL1Status' = [mPhyDL1Status EXCEPT ![c][b] = "FREE"]
          /\ mCwBankStatus' = [mCwBankStatus EXCEPT ![c][b] = "FREE"]
          /\ mPhyDL2Status' = [mPhyDL2Status EXCEPT ![c][b] = "BUSY"]
          /\ Notify({<<"mAlcqNotEmpty", c>>, <<"mTrigCmdDisp", c>>})
     ELSE /\ Notify({<<"mAlcqNotEmpty", c>>})
          /\ UNCHANGED statusVars
  /\ peq' = Take(peq, p)
  /\ EndOfLoop(p, peq')

pendingReadCmdProcess(c) ==
  /\ Turn(PendingR(c))
  /\ IF IsFull(mAlcq[c])
     THEN /\ Wait(PendingR(c), {<<"mAlcqNotFull", c>>})
          /\ UNCHANGED <<mAlcq, statusVars, pending, peq>>
     ELSE ReadTimeIsOver(c)
  /\ UNCHANGED <<deviceVars, bankVars, dispatch, mAscq, mAvailableCredit,
                 manager, doneVars>>

\* Mutant: every response returns a credit.
CreditForAny(response) == 1

CreditOf(response) == IF response = "READ" THEN 1 ELSE 0

\* Responses of the device; both kinds notify mEndReadEvent.  A write's
\* response may have been taken when its own notification comes.
checkRespProcess(c) ==
  LET p == <<"checkResp", c>> IN
  /\ Turn(p)
  /\ IF peq[p].due = <<>>
     THEN Wait(p, {p}) /\ UNCHANGED <<mAvailableCredit, pending, peq>>
     ELSE /\ mAvailableCredit' = [mAvailableCredit EXCEPT
               ![c] = @ + CreditOf(Head(peq[p].due))]
          /\ Notify({<<"mEndRead", c>>})
          /\ peq' = Take(peq, p)
          /\ EndOfLoop(p, peq')
  /\ UNCHANGED <<deviceVars, bankVars, dispatch, mAscq, mAlcq, statusVars,
                 manager, doneVars>>

\* One activation for each notification of mCmdCompleteEvent.
completionMethod ==
  /\ Turn(Completion)
  /\ mSlotNumQueue' = Tail(mSlotNumQueue)
  /\ Complete(Head(mSlotNumQueue))
  /\ peq' = Take(peq, Completion)
  /\ Wait(Completion, {Completion})
  /\ UNCHANGED <<deviceVars, bankVars, dispatch, mAscq, mAlcq, statusVars,
                 mAvailableCredit, manager, mIntermediateQueue, mDataBuffer,
                 pending>>

ChannelStep(c) ==
  \/ cmdDispatcherProcess(c) \/ chanManagerProcess(c)
  \/ pendingWriteCmdProcess(c)
  \/ pendingReadCmdProcess(c) \/ checkRespProcess(c)

ControllerStep ==
  \/ completionMethod
  \/ \E c \in Chan : ChannelStep(c)
  \/ (\E c \in Chan : DeviceStep(c)) /\ UNCHANGED controllerVars

(***************************************************************************)
(* Time.  Controller and device have the same read and program times: a    *)
(* pending read expires together with the device's access, and the program *)
(* time of a code word ends in the device no later than in the controller, *)
(* whose timer starts later.                                               *)
(***************************************************************************)
FirstAddr(q) == Head(peq[q].run)
SameInstant(S) ==
  \A c \in Chan :
    /\ PendingR(c) \in S <=> <<"accRead", c>> \in S
    /\ PendingW(c) \in S =>
         LET inDevice == {i \in 1 .. Len(peq[<<"accWrite", c>>].run) :
               peq[<<"accWrite", c>>].run[i].addr = FirstAddr(PendingW(c))}
         IN inDevice = {} \/ (inDevice = {1} /\ <<"accWrite", c>> \in S)

(***************************************************************************)
(* Properties.                                                             *)
(***************************************************************************)
\* The list of bank b of channel c, following the next addresses of
\* mCmdQueue from the head until the tail or the end of a chain.
ListOf(c, b) ==
  LET walks[n \in 0 .. NumSlots * SlotCws] ==
        IF n = 0 THEN {<<head[c][b]>>}
        ELSE {IF w[Len(w)] \in {Nil, tail[c][b]} THEN w
              ELSE Append(w, mCmdQueue[w[Len(w)]].next) : w \in walks[n - 1]}
  IN IF HasWork(c, b) THEN CHOOSE w \in walks[NumSlots * SlotCws] : TRUE ELSE <<>>

\* Code words the manager, the dispatcher and the timed queues hold.
InHand(c) ==
  (IF dispatch[c].at = "push" THEN <<dispatch[c].addr>> ELSE <<>>)
  \o (IF manager[c].at \in {"top", "long"} THEN <<>> ELSE <<manager[c].addr>>)
Timed(q) == peq[q].run \o peq[q].due

\* The code words of channel h[1] that are on their way: the list of bank h[2],
\* or past the lists.
Homes == Chan \X (Bank \cup {Nil})
PastLists(c) ==
  InHand(c) \o mAscq[c] \o mAlcq[c] \o Timed(PendingW(c)) \o Timed(PendingR(c))
WordsAt(h) == IF h[2] = Nil THEN PastLists(h[1]) ELSE ListOf(h[1], h[2])
WordsLeft(s) == {a \in UNION {Range(WordsAt(h)) : h \in Homes} : SlotOf(a) = s}

\* The lists per bank are cut and extended by two processes through next
\* addresses that the slots' entries keep from earlier commands: every list
\* ends at its tail, has no entry twice and holds words of its own bank only.
ListsWellFormed ==
  \A c \in Chan, b \in Bank :
    LET l == ListOf(c, b) IN
    /\ (l = <<>>) = (tail[c][b] = Nil)
    /\ l # <<>> => l[Len(l)] = tail[c][b]
    /\ \A a \in Range(l) : a # Nil /\ BankOf(a) = b
                            /\ LbaChan(mCmdQueue[a].lba) = c

\* A code word is in one place: it is neither lost between the dispatcher,
\* the manager and the timed queues nor sent to the device twice.
OneHome ==
  \A h \in Homes :
    LET words == WordsAt(h) IN
    /\ IsInjective(words)
    /\ \A k \in Homes \ {h} : Range(words) \cap Range(WordsAt(k)) = {}

\* The countdown of a slot, where zero means both "not started" and
\* "finished", agrees with the code words that are still on their way.
CountdownExact ==
  \A s \in Slot :
    LET n == Cardinality(WordsLeft(s)) IN
    IF mIntermediateQueue[s] # 0 THEN n = mIntermediateQueue[s]
    ELSE n \in {0, mSlotTable[s].cnt}

\* A slot is reported once, and only when nothing of its command is left in
\* the controller, so that the host may reuse it.
CompletedSlotsAreIdle ==
  LET reported == mSlotNumQueue \o mCompletionQueue IN
  /\ IsInjective(reported)
  /\ \A s \in Slot :
       /\ s \in Range(reported) \/ mCompletionQueue_mcore[s] => WordsLeft(s) = {}
       /\ s \in Range(reported) => ~mCompletionQueue_mcore[s]

\* A read's credit is taken with the command and returned by the response to
\* its bank select; in between it is with exactly one read of the channel.
ReadsIn(q) == {i \in DOMAIN q : Kind(q[i]) = "READ"}
ReadResponses(q) == {i \in DOMAIN q : q[i] = "READ"}
ReadCredits(c) ==
  LET managed == IF manager[c].at \in {"ONFI_READ_COMMAND", "readSent",
                                      "ONFI_BANK_SELECT_COMMAND"} THEN 1 ELSE 0
  IN managed + Len(Timed(PendingR(c))) + Cardinality(ReadsIn(mAlcq[c]))
     + Len(Timed(<<"memRead", c>>))
     + Cardinality(ReadResponses(Timed(<<"checkResp", c>>)))
CreditsConserved ==
  \A c \in Chan : mAvailableCredit[c] + ReadCredits(c) = Credit

\* With writes alone, a latch is busy for exactly one code word: DL2 from the
\* dispatch until DL1 takes over, DL1 for the program time.
WordsOfBank(q, b) == {i \in DOMAIN q : BankOf(q[i]) = b}
WriteLatches ==
  \A c \in Chan, b \in Bank :
    /\ Cardinality(WordsOfBank(InHand(c) \o mAlcq[c], b)) =
         IF mPhyDL2Status[c][b] = "BUSY" THEN 1 ELSE 0
    /\ Cardinality(WordsOfBank(Timed(PendingW(c)), b)) =
         IF mPhyDL1Status[c][b] = "BUSY" THEN 1 ELSE 0

\* The data of a write stays in the buffer of its slot until it is sent.
BufferHeld ==
  \A c \in Chan :
    \A a \in Range(mAlcq[c] \o InHand(c)) \cup UNION {Range(ListOf(c, b)) : b \in Bank} :
      a # Nil /\ Kind(a) = "WRITE" => mDataBuffer[a] = Word(a)

\* When the manager stores the data of a read, it is the data of that read.
ReadDataIsOwn ==
  \A c \in Chan :
    manager[c].at = "selectSent" /\ Manager(c) \in runnable =>
      readData[c] = Word(manager[c].addr)

\* Data of a read leaves DL1 for DL2: when nothing else runs, DL1 of a bank
\* whose DL2 is free is busy only for a code word that has yet to reach it, or
\* a write that is being programmed.
DL1IsHandedOn ==
  runnable = {} /\ pending = {} =>
    \A c \in Chan, b \in Bank :
      mPhyDL1Status[c][b] = "BUSY" /\ mPhyDL2Status[c][b] = "FREE" =>
        WordsOfBank(InHand(c) \o mAscq[c] \o Timed(PendingR(c))
                    \o Timed(PendingW(c)), b) # {}

\* DL2 of the device is free when a write command reaches it.
DL2FreeWhenWriteArrives ==
  \A c \in Chan :
    peq[<<"ackWrite", c>>].due # <<>> =>
      dl2[c][Head(peq[<<"ackWrite", c>>].due).bank] = Free
==============================================================================
