------------------------------ MODULE QueueHost ------------------------------
(***************************************************************************)
(* TestBenchTop with one core (mMode = 0) driving the DIMM controller.     *)
(* submissionQueueThread keeps the submission queue filled;                *)
(* testCaseWriteReadThread cuts each command into sub-commands of one slot *)
(* each, sends them, polls the completion queue and frees the slots.  The  *)
(* two threads wait for each other through mTrigSubCmdEvent and            *)
(* mTrigCmdDispatchEvent.                                                  *)
(*                                                                         *)
(* A poll that finds nothing changes nothing: the model lets the poll      *)
(* timer expire only when there is something to read.  The batch limit of  *)
(* 31 entries is never reached.                                            *)
(***************************************************************************)
EXTENDS DimmBench

ASSUME QueueHostAssumption == Mode = 0

Submission == <<"submissionQueue", 0>>
Test       == <<"testCase", 0>>
SubEvent      == <<"mTrigSubCmd", 0>>
DispatchEvent == <<"mTrigCmdDispatch", 0>>

VARIABLES
  mSubQueue,         \* submission queue entries
  mSlotIndexQueue,   \* first slots of completed commands
  mCmdCount, mNumCmdInFlight, mIsCmdCompleted,
  slotBusy,          \* slotStatus: slots in use
  test               \* locals of testCaseWriteReadThread

submissionVars == <<mSubQueue, mSlotIndexQueue, mCmdCount>>
slotVars == <<slotBusy, tagVars>>
testVars == <<mNumCmdInFlight, mIsCmdCompleted, cmdIndex, test, completed>>
hostVars == <<submissionVars, slotVars, testVars>>
vars == <<load, kernelVars, deviceVars, controllerVars, hostVars>>

\* New commands of the traffic generator, numbered as they come.
NewEntry(id, k, l) ==
  [id |-> id, d |-> k, lba |-> l, isDispatched |-> FALSE, isCmdDone |-> FALSE,
   slotNum |-> 0]

HostInit ==
  /\ mSubQueue = <<>> /\ mSlotIndexQueue = <<>> /\ mCmdCount = 0
  /\ slotBusy = {} /\ mNumCmdInFlight = 0 /\ mIsCmdCompleted = FALSE
  /\ test = [at |-> "send", filling |-> TRUE, entry |-> 1, req |-> 0,
             tag |-> 0, slot |-> 0, batch |-> <<>>, slotNotFree |-> FALSE]
  /\ completed = [c \in Cmd |-> 0]

Init ==
  /\ ControllerInit /\ BenchInit /\ HostInit
  /\ waiting = [p \in ControllerProcs \cup {Submission, Test} |->
       IF p = Test THEN {DispatchEvent}
       ELSE IF p = Submission THEN {} ELSE FirstWait(p)]
  /\ runnable = {Submission} /\ running = Nobody /\ pending = {}
  /\ peq = [q \in Peqs \cup {Test} |-> EmptyPeq]

(***************************************************************************)
(* submissionQueueThread.                                                  *)
(***************************************************************************)
SubmissionFills ==
  /\ Turn(Submission) /\ mCmdCount = 0
  /\ \E k \in [1 .. QueueDepth -> load.kinds], l \in [1 .. QueueDepth -> Lbas] :
       mSubQueue' = [i \in 1 .. QueueDepth |-> NewEntry(i, k[i], l[i])]
  /\ mCmdCount' = QueueDepth
  /\ Notify({DispatchEvent})
  /\ Wait(Submission, {SubEvent})
  /\ UNCHANGED <<deviceVars, controllerVars, mSlotIndexQueue, slotVars,
                 testVars, peq>>

\* The entries that slot s completed.
DoneEntries(s) ==
  {i \in DOMAIN mSubQueue : /\ mSubQueue[i].slotNum = s
                            /\ mSubQueue[i].isDispatched
                            /\ mSubQueue[i].isCmdDone}

\* One turn of the inner loop: the entry of the oldest completed slot takes
\* a new command.  (The outer loop would spin for ever if it found
\* mSlotIndexQueue empty: see SubmissionHasWork.)
SubmissionRefills ==
  /\ Turn(Submission) /\ mCmdCount # 0 /\ mSlotIndexQueue # <<>>
  /\ LET entries == DoneEntries(Head(mSlotIndexQueue)) IN
     IF entries = {} THEN UNCHANGED <<mSubQueue, mCmdCount>>
     ELSE /\ mCmdCount' = mCmdCount + 1
          /\ \E k \in load.kinds, l \in Lbas :
               mSubQueue' = [mSubQueue EXCEPT ![Least(entries)] =
                 [NewEntry(mCmdCount + 1, k, l) EXCEPT !.slotNum = Head(mSlotIndexQueue)]]
  /\ mSlotIndexQueue' = Tail(mSlotIndexQueue)
  /\ Notify({DispatchEvent})
  /\ Wait(Submission, {SubEvent})
  /\ UNCHANGED <<deviceVars, controllerVars, slotVars, testVars, peq>>

(***************************************************************************)
(* testCaseWriteReadThread, sending: sendReadWriteCommands at first        *)
(* (test.filling), later one command for each completed one.               *)
(***************************************************************************)
Filled == test.filling /\ test.entry > Len(mSubQueue)
Sending == mSubQueue[test.entry]
SubLba == Sending.lba + test.req * Cws

\* Mutant: a busy slot is taken again.
AnySlot == Slot

FreeSlots == Slot \ slotBusy

\* getAvailableSlot, getFreeTags for the first slot of a command, and the
\* first transfer of sendWrite or sendRead.
TestSends ==
  LET s == Least(FreeSlots)
      t == IF test.req = 0 THEN Least(FreeTags) ELSE test.tag IN
  /\ Turn(Test) /\ test.at = "send" /\ ~Filled /\ FreeSlots # {}
  /\ slotBusy' = slotBusy \cup {s}
  /\ AddSlot(t, s, test.req = 0)
  /\ IF test.req = 0
     THEN /\ mNumCmdInFlight' = mNumCmdInFlight + 1
          /\ mSubQueue' = [mSubQueue EXCEPT ![test.entry].isDispatched = TRUE,
                                            ![test.entry].slotNum = s]
     ELSE UNCHANGED <<mNumCmdInFlight, mSubQueue>>
  /\ cmdIndex' = cmdIndex + 1
  /\ IF Sending.d = "WRITE" THEN sendData(s, cmdIndex + 1)
     ELSE sendCommand(s, cmdIndex + 1, Sending.d, SubLba)
  /\ test' = [test EXCEPT !.at = IF Sending.d = "WRITE" THEN "command" ELSE "sent",
                          !.tag = t, !.slot = s]
  /\ Transfer(Test)
  /\ UNCHANGED <<deviceVars, dispatch, mAscq, mAlcq, statusVars,
                 mAvailableCredit, manager, mIntermediateQueue, mSlotNumQueue,
                 mCompletionQueue, mCompletionQueue_mcore, mSlotIndexQueue,
                 mCmdCount, mIsCmdCompleted, completed>>

TestSendsCommand ==
  /\ Turn(Test) /\ test.at = "command"
  /\ sendCommand(test.slot, cmdIndex, Sending.d, SubLba)
  /\ test' = [test EXCEPT !.at = "sent"]
  /\ Transfer(Test)
  /\ UNCHANGED <<deviceVars, dispatch, mAscq, mAlcq, statusVars,
                 mAvailableCredit, manager, mIntermediateQueue, mSlotNumQueue,
                 mCompletionQueue, mCompletionQueue_mcore, submissionVars,
                 slotVars, mNumCmdInFlight, mIsCmdCompleted, cmdIndex, completed>>

\* Steps of the thread that change its own locals only.
TestMoves(locals) ==
  /\ test' = locals
  /\ GoOn(Test)
  /\ UNCHANGED <<deviceVars, controllerVars, submissionVars, slotVars,
                 mNumCmdInFlight, mIsCmdCompleted, cmdIndex, completed,
                 pending, peq>>

\* The transfer is over: next sub-command, next command or next completion.
TestSent ==
  /\ Turn(Test) /\ test.at = "sent"
  /\ TestMoves(
       IF test.req + 1 < NumSlotReq
       THEN [test EXCEPT !.at = "send", !.req = @ + 1]
       ELSE IF test.filling
       THEN [test EXCEPT !.at = "send", !.req = 0, !.entry = @ + 1]
       ELSE [test EXCEPT !.at = "batch", !.req = 0, !.entry = 0])

\* Out of slots: processCompletionQueue while filling; later slotNotFree is
\* set, and nothing is dispatched any more.
TestOutOfSlots ==
  /\ Turn(Test) /\ test.at = "send" /\ ~Filled /\ FreeSlots = {}
  /\ TestMoves(IF test.filling THEN [test EXCEPT !.at = "poll"]
               ELSE [test EXCEPT !.at = "batch", !.slotNotFree = TRUE])

TestFilled ==
  /\ Turn(Test) /\ test.at = "send" /\ Filled
  /\ TestMoves([test EXCEPT !.at = "poll", !.filling = FALSE, !.entry = 0])

(***************************************************************************)
(* testCaseWriteReadThread, completions.                                   *)
(***************************************************************************)
\* Nothing in flight: sc_stop.
TestStops ==
  /\ Turn(Test) /\ test.at = "poll" /\ ~test.filling /\ mNumCmdInFlight = 0
  /\ test' = [test EXCEPT !.at = "stopped"]
  /\ Wait(Test, {})
  /\ UNCHANGED <<deviceVars, controllerVars, submissionVars, slotVars,
                 mNumCmdInFlight, mIsCmdCompleted, cmdIndex, completed,
                 pending, peq>>

\* getCompletionQueue: readCompletionQueue_mode0 hands over all entries;
\* with none, wait(mPollWaitTime).
TestPolls ==
  /\ Turn(Test) /\ test.at = "poll" /\ (test.filling \/ mNumCmdInFlight # 0)
  /\ mCompletionQueue' = <<>>
  /\ IF mCompletionQueue = <<>>
     THEN Sleep(Test, "poll") /\ UNCHANGED test
     ELSE /\ Transfer(Test)
          /\ test' = [test EXCEPT !.at = "batch", !.batch = mCompletionQueue]
  /\ UNCHANGED <<deviceVars, bankVars, dispatch, mAscq, mAlcq, statusVars,
                 mAvailableCredit, manager, mIntermediateQueue, mSlotNumQueue,
                 mCompletionQueue_mcore, mDataBuffer, submissionVars, slotVars,
                 mNumCmdInFlight, mIsCmdCompleted, cmdIndex, completed, pending>>

\* readCompletionQueueData: the data of a read is fetched.
TestLoadsData ==
  /\ Turn(Test) /\ test.at = "batch" /\ test.batch # <<>>
  /\ mSlotTable[Head(test.batch)].cmd = "READ"
  /\ test' = [test EXCEPT !.at = "loaded"]
  /\ Transfer(Test)
  /\ UNCHANGED <<deviceVars, controllerVars, submissionVars, slotVars,
                 mNumCmdInFlight, mIsCmdCompleted, cmdIndex, completed, pending>>

\* findQueueEntry: the dispatched entry whose first slot this is.
OpenEntries(s) ==
  {i \in DOMAIN mSubQueue : /\ mSubQueue[i].slotNum = s
                            /\ mSubQueue[i].isDispatched
                            /\ ~mSubQueue[i].isCmdDone}

\* Wakes the submission thread if it has commands left.
RefillEvent == IF mCmdCount < NumCmds THEN {SubEvent} ELSE {}

\* emptySlot (filling) or freeSlot: slot s leaves the list of its command;
\* the last one completes it.
ReleaseSlot(s, finishes) ==
  LET first == firstSlotTags[TagOf(s)] IN
  /\ slotBusy' = slotBusy \ {s}
  /\ RemoveSlot(s, queueSlots[TagOf(s)] = {s})
  /\ IF finishes
     THEN /\ mSubQueue' = [mSubQueue EXCEPT ![Least(OpenEntries(first))].isCmdDone = TRUE]
          /\ completed' = [completed EXCEPT ![mSubQueue[Least(OpenEntries(first))].id] = @ + 1]
          /\ mSlotIndexQueue' = Append(mSlotIndexQueue, first)
          /\ mNumCmdInFlight' = mNumCmdInFlight - 1
     ELSE UNCHANGED <<mSubQueue, completed, mSlotIndexQueue, mNumCmdInFlight>>

\* Mutant: the first slot that comes back completes the command.
FirstOfCommand(s) == OpenEntries(firstSlotTags[TagOf(s)]) # {}

\* Whether slot s is the last of its command and the entry is found.
LastOfCommand(s) ==
  /\ queueSlots[TagOf(s)] = {s}
  /\ OpenEntries(firstSlotTags[TagOf(s)]) # {}

\* Mutants: sends whether or not a command is complete; stops one short.
SendsAlways(finishes) == cmdIndex < NumCmds * NumSlotReq
SendsOneLess(finishes) ==
  /\ cmdIndex + NumSlotReq < NumCmds * NumSlotReq
  /\ finishes \/ mIsCmdCompleted

\* After a completion there may be a sub-command to send, and the submission
\* thread is asked for a new command first if there are any left.
SendsAnother(finishes) ==
  /\ cmdIndex < NumCmds * NumSlotReq
  /\ finishes \/ mIsCmdCompleted

TestFrees ==
  LET s == Head(test.batch)
      finishes == LastOfCommand(s)
      sends == ~test.filling /\ SendsAnother(finishes)
      next == [test EXCEPT !.batch = Tail(@),
                           !.at = IF sends THEN "choose" ELSE "batch"] IN
  /\ Turn(Test) /\ test.batch # <<>>
  /\ test.at = "loaded" \/ (test.at = "batch" /\ mSlotTable[s].cmd = "WRITE")
  /\ ReleaseSlot(s, finishes)
  /\ mIsCmdCompleted' = IF test.filling \/ sends THEN FALSE
                        ELSE mIsCmdCompleted \/ finishes
  /\ test' = next
  /\ Notify(IF (test.filling /\ finishes) \/ sends THEN RefillEvent ELSE {})
  /\ IF sends /\ mCmdCount < NumCmds THEN Wait(Test, {DispatchEvent}) ELSE GoOn(Test)
  /\ UNCHANGED <<deviceVars, controllerVars, mCmdCount, cmdIndex, peq>>

\* The first entry that was not dispatched, if any.
TestChooses ==
  LET waitingEntries == {i \in DOMAIN mSubQueue :
        ~mSubQueue[i].isDispatched /\ ~mSubQueue[i].isCmdDone} IN
  /\ Turn(Test) /\ test.at = "choose"
  /\ TestMoves(IF waitingEntries = {} \/ test.slotNotFree THEN [test EXCEPT !.at = "batch"]
               ELSE [test EXCEPT !.at = "send", !.entry = Least(waitingEntries)])

TestBatchDone ==
  /\ Turn(Test) /\ test.at = "batch" /\ test.batch = <<>>
  /\ TestMoves([test EXCEPT !.at = IF test.filling THEN "send" ELSE "poll"])

TestStep ==
  \/ TestSends \/ TestSendsCommand \/ TestSent \/ TestOutOfSlots \/ TestFilled
  \/ TestStops \/ TestPolls \/ TestLoadsData \/ TestFrees \/ TestChooses
  \/ TestBatchDone

Stopped == test.at = "stopped"

TimePasses ==
  \E S \in SUBSET Timers :
    /\ S # {} /\ SameInstant(S)
    /\ Test \in S /\ Head(peq[Test].run) = "poll" => mCompletionQueue # <<>>
    /\ Expire(S)
    /\ UNCHANGED <<deviceVars, controllerVars, hostVars>>

KernelStep == Delta /\ UNCHANGED <<deviceVars, controllerVars, hostVars>>

\* After sc_stop nothing happens.
Ends == Stopped /\ UNCHANGED vars

Running ==
  /\ ~Stopped /\ UNCHANGED load
  /\ \/ SubmissionFills \/ SubmissionRefills \/ TestStep
     \/ ControllerStep /\ UNCHANGED hostVars
     \/ KernelStep \/ TimePasses

Next == Running \/ Ends

Spec == Init /\ [][Next]_vars

\* The kernel runs on as long as there is something to run or a timer.
FairSpec == Spec /\ WF_vars(Running)

(***************************************************************************)
(* Properties.                                                             *)
(***************************************************************************)
\* The main loop gives up dispatching if it finds no free slot, and the flag
\* it sets is never reset: a slot must always be free when it wants one.
NeverOutOfSlots ==
  test.at = "send" /\ ~test.filling => FreeSlots # {}

\* submissionQueueThread loops without waiting if it is woken with commands
\* left and no completed slot to refill.
SubmissionHasWork ==
  Submission \in runnable /\ 0 < mCmdCount /\ mCmdCount < NumCmds
    => mSlotIndexQueue # <<>>

LatchesOwned == load.kinds = {"WRITE"} => WriteLatches
ReadsReturnOwnData == load.kinds = {"READ"} => ReadDataIsOwn

\* Every command of the test is reported once, and the test stops.
AllCommandsComplete == <>(Stopped /\ \A c \in Cmd : completed[c] = 1)
=============================================================================
