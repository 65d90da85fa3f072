---------------------------- MODULE QueueHostProofs ----------------------------
(***************************************************************************)
(* The bench with one core, for every number of slots, channels and        *)
(* commands: what its two threads know of the slots they hand to the       *)
(* controller, and with it the controller as they use it.                  *)
(***************************************************************************)
EXTENDS QueueHost, DimmControllerProofs

(***************************************************************************)
(* Records and sequences that change in one place.                         *)
(***************************************************************************)
\* Assigning one field of a record leaves the others as they are.
LEMMA FieldSet ==
  ASSUME NEW t, IsFcn(t), NEW f, NEW x
  PROVE  /\ IsFcn([t EXCEPT ![f] = x]) /\ DOMAIN [t EXCEPT ![f] = x] = DOMAIN t
         /\ f \in DOMAIN t => [t EXCEPT ![f] = x][f] = x
         /\ \A g \in DOMAIN t \ {f} : [t EXCEPT ![f] = x][g] = t[g]
  BY DEF IsFcn

\* A function on 1 .. n is a sequence of length n.
LEMMA FunctionIsSequence ==
  ASSUME NEW q, IsFcn(q), NEW n \in Nat, DOMAIN q = 1 .. n
  PROVE  q \in Seq(Range(q)) /\ Len(q) = n
<1>1. q \in [1 .. n -> Range(q)]
  BY DEF IsFcn, Range
<1>2. q \in Seq(Range(q))
  BY <1>1, SeqDef
<1>. QED
  BY <1>2, LenProperties

\* Fields of the locals of testCaseWriteReadThread, and of a queue entry.
TestFields == {"at", "filling", "entry", "req", "slot", "batch"}
EntryFields == {"id", "d", "lba", "isDispatched", "isCmdDone", "slotNum"}

IsTest(t) ==
  /\ IsFcn(t) /\ TestFields \subseteq DOMAIN t
  /\ t.req \in Nat /\ t.entry \in Nat
  /\ t.filling => t.entry # 0
  /\ t.batch \in Seq(Slot)

IsEntry(e) ==
  /\ IsFcn(e) /\ EntryFields \subseteq DOMAIN e
  /\ e.d \in {"READ", "WRITE"} /\ e.lba \in Nat

IsSubQueue(q) == q \in Seq(Range(q)) /\ \A i \in DOMAIN q : IsEntry(q[i])

\* An entry changes.
LEMMA EntryChanges ==
  ASSUME NEW q, IsSubQueue(q), NEW i, NEW e, i \in DOMAIN q => IsEntry(e)
  PROVE  /\ IsSubQueue([q EXCEPT ![i] = e]) /\ DOMAIN [q EXCEPT ![i] = e] = DOMAIN q
         /\ i \in DOMAIN q => [q EXCEPT ![i] = e][i] = e
         /\ \A j \in DOMAIN q \ {i} : [q EXCEPT ![i] = e][j] = q[j]
<1>. PICK w : w = [q EXCEPT ![i] = e]
  OBVIOUS
<1>1. PICK n \in Nat : n = Len(q)
  BY LenProperties DEF IsSubQueue
<1>2. DOMAIN q = 1 .. n
  BY <1>1, LenProperties DEF IsSubQueue
<1>3. /\ IsFcn(w) /\ DOMAIN w = DOMAIN q
      /\ i \in DOMAIN q => w[i] = e
      /\ \A j \in DOMAIN q \ {i} : w[j] = q[j]
  BY DEF IsFcn
<1>4. w \in Seq(Range(w))
  BY <1>2, <1>3, FunctionIsSequence
<1>5. \A j \in DOMAIN w : IsEntry(w[j])
  BY <1>3 DEF IsSubQueue
<1>. QED
  BY <1>3, <1>4, <1>5 DEF IsSubQueue

\* One field of an entry changes.
LEMMA EntryFieldChanges ==
  ASSUME NEW e, IsEntry(e), NEW f \in EntryFields \ {"d", "lba"}, NEW x
  PROVE  /\ IsEntry([e EXCEPT ![f] = x]) /\ [e EXCEPT ![f] = x][f] = x
         /\ \A g \in EntryFields \ {f} : [e EXCEPT ![f] = x][g] = e[g]
<1>1. \A g \in EntryFields \ {f} : [e EXCEPT ![f] = x][g] = e[g]
  BY FieldSet DEF IsEntry, EntryFields
<1>. PICK u : u = [e EXCEPT ![f] = x]
  OBVIOUS
<1>2. IsFcn(u) /\ EntryFields \subseteq DOMAIN u /\ u[f] = x
  BY FieldSet DEF IsEntry, EntryFields
<1>3. "d" \in EntryFields \ {f} /\ "lba" \in EntryFields \ {f}
  BY DEF EntryFields
<1>4. u["d"] = e["d"] /\ u["lba"] = e["lba"]
  BY <1>1, <1>3
<1>. QED
  BY <1>1, <1>2, <1>4 DEF IsEntry

\* A new command of the traffic generator.
LEMMA NewEntryIs ==
  ASSUME NEW id, NEW k \in {"READ", "WRITE"}, NEW l \in Nat
  PROVE  IsEntry(NewEntry(id, k, l))
  BY DEF IsEntry, NewEntry, EntryFields, IsFcn

(***************************************************************************)
(* What the host knows of the controller.                                  *)
(***************************************************************************)
\* The slots the bench does not use, and those it was told of, are its own;
\* between the data of a write and its command the slot is the host's and the
\* buffer holds the data.
SlotsHeld(place) ==
  /\ slotBusy \subseteq Slot
  /\ \A s \in Slot \ slotBusy : Idle(place, s)
  /\ IsInjective(test.batch)
  /\ \A s \in Range(test.batch) : s \in slotBusy /\ Idle(place, s)
  /\ test.at = "command" =>
       /\ test.slot \in slotBusy \ Range(test.batch) /\ Idle(place, test.slot)
       /\ \A a \in WordsOf(test.slot, Cws) : mDataBuffer[a] = <<cmdIndex, a % SlotCws>>

\* The thread sends entries that exist.
EntriesFit ==
  /\ IsSubQueue(mSubQueue) /\ IsTest(test)
  /\ cmdIndex \in Nat /\ mCmdCount \in Nat /\ (mCmdCount = 0 => mSubQueue = <<>>)
  /\ test.at = "choose" => ~test.filling
  /\ test.at \in {"command", "sent"} => test.entry \in DOMAIN mSubQueue
  /\ test.at = "send" /\ ~test.filling => test.entry \in DOMAIN mSubQueue

\* Commands are numbered as they are sent.
IdsGrow ==
  /\ \A s \in Slot : mSlotTable[s].id <= cmdIndex
  /\ test.at = "command" => \A s \in Slot : mSlotTable[s].id < cmdIndex

HostHasTimer == Test \in DOMAIN waiting \cap DOMAIN peq

QueueInv(place, r, m) ==
  DimmInv(place, r, m) /\ SlotsHeld(place) /\ EntriesFit /\ IdsGrow /\ HostHasTimer

\* A step finds places for the code words with which the invariant holds, and is
\* one of the service.
QueueFollows == Served /\ \E place, r, m : QueueInv(place, r, m)'

\* The names of the two threads and of their events.
LEMMA HostThreads ==
  /\ Test[1] \in HostNames /\ Submission[1] \in HostNames /\ Test # Submission
  /\ SubEvent[1] \notin TimerNames /\ DispatchEvent[1] \notin TimerNames
  BY DEF Test, Submission, SubEvent, DispatchEvent, HostNames, TimerNames, TimedNames, DeviceProcs

\* The start.
LEMMA QueueInvInit ==
  ASSUME Init
  PROVE  \E place, r, m : QueueInv(place, r, m)
<1>1. \A p \in ControllerProcs : p # Test /\ p # Submission
  BY HostThreads, HostApart
<1>2. /\ waiting = [p \in ControllerProcs \cup {Submission, Test} |->
                     IF p = Test THEN {DispatchEvent}
                     ELSE IF p = Submission THEN {} ELSE FirstWait(p)]
      /\ runnable = {Submission} /\ pending = {}
      /\ peq = [q \in Peqs \cup {Test} |-> EmptyPeq]
      /\ ControllerInit /\ BenchInit /\ HostInit
  BY Zenon DEF Init
<1>3. Wakes /\ \A q \in Peqs : peq[q] = EmptyPeq
  <2>1. IsFcn(waiting) /\ IsFcn(peq) /\ \A q \in Peqs : peq[q] = EmptyPeq
    BY <1>2 DEF IsFcn
  <2>2. \A p \in ControllerProcs : waiting[p] = FirstWait(p)
    BY <1>1, <1>2
  <2>. QED
    BY <1>1, <1>2, <2>1, <2>2, WakesAtStart
<1>4. PICK place, r, m : DimmInv(place, r, m) /\ \A s \in Slot : Idle(place, s)
  BY <1>2, <1>3, InvAtStart
<1>5. HostHasTimer
  BY <1>2 DEF HostHasTimer
<1>6. /\ test.at = "send" /\ test.filling = TRUE /\ test.entry = 1 /\ test.req = 0
      /\ test.batch = <<>> /\ IsFcn(test) /\ TestFields \subseteq DOMAIN test
      /\ mSubQueue = <<>> /\ mCmdCount = 0 /\ slotBusy = {} /\ cmdIndex = 0
  BY <1>2 DEF HostInit, BenchInit, IsFcn, TestFields
<1>7. IsTest(test)
  BY <1>6 DEF IsTest
<1>8. EntriesFit
  <2>1. mSubQueue \in Seq(Range(mSubQueue)) /\ DOMAIN mSubQueue = {}
    BY <1>6
  <2>. QED
    BY <1>6, <1>7, <2>1 DEF EntriesFit, IsSubQueue
<1>9. SlotsHeld(place)
  <2>1. Range(test.batch) = {} /\ IsInjective(test.batch)
    BY <1>6 DEF Range, IsInjective
  <2>. QED
    BY <1>4, <1>6, <2>1 DEF SlotsHeld
<1>10. IdsGrow
  <2>1. \A s \in Slot : mSlotTable[s].id = 0
    BY <1>2 DEF ControllerInit, NoCommand
  <2>. QED
    BY <1>6, <2>1 DEF IdsGrow
<1>. QED
  BY <1>4, <1>5, <1>8, <1>9, <1>10 DEF QueueInv

\* How the two threads run.
LEMMA SubmissionRuns ==
  ASSUME SubmissionFills \/ SubmissionRefills
  PROVE  HostRuns(Submission)
<1>1. Wait(Submission, {SubEvent}) /\ Notify({DispatchEvent}) /\ UNCHANGED peq
  BY DEF SubmissionFills, SubmissionRefills
<1>2. Ran(Submission, {})
  BY <1>1 DEF Wait, Ran
<1>. QED
  BY <1>1, <1>2, HostThreads DEF HostRuns, Notify

LEMMA TestRuns ==
  ASSUME TestStep
  PROVE  HostRuns(Test)
<1>1. \A n : <<"mCmdDispatch", n>>[1] \notin TimerNames
  BY DEF TimerNames, TimedNames, DeviceProcs
<1>2. /\ \A E : Wait(Test, E) => Ran(Test, {})
      /\ GoOn(Test) => Ran(Test, {})
      /\ \A x : Sleep(Test, x) => Ran(Test, {}) /\ \E y : peq' = [peq EXCEPT ![Test] = y]
      /\ Transfer(Test) => Ran(Test, {}) /\ \E y : peq' = [peq EXCEPT ![Test] = y]
  BY DEF Wait, GoOn, Ran, Transfer, Sleep
<1>3. ASSUME Ran(Test, {}), \A e \in pending' : e \in pending \/ e[1] \notin TimerNames,
             peq' = peq \/ \E y : peq' = [peq EXCEPT ![Test] = y]
      PROVE  HostRuns(Test)
  BY <1>3, HostThreads DEF HostRuns
<1>4. ASSUME NEW s, NEW id, NEW cmd, NEW lba, sendCommand(s, id, cmd, lba), Transfer(Test)
      PROVE  HostRuns(Test)
  <2>1. \A e \in pending' : e \in pending \/ e[1] \notin TimerNames
    BY <1>1, <1>4 DEF sendCommand, processPCMDQueue, Notify
  <2>. QED
    BY <1>2, <1>3, <1>4, <2>1
<1>5. CASE TestSends
  <2>1. Transfer(Test)
    BY <1>5 DEF TestSends
  <2>2. CASE UNCHANGED pending
    BY <1>2, <1>3, <2>1, <2>2
  <2>3. \E s : sendData(s, cmdIndex + 1) \/ sendCommand(s, cmdIndex + 1, Sending.d, SubLba)
    BY <1>5 DEF TestSends
  <2>. QED
    BY <1>4, <2>1, <2>2, <2>3 DEF sendData
<1>6. CASE TestSendsCommand
  BY <1>4, <1>6 DEF TestSendsCommand
<1>7. ASSUME NEW t, TestMoves(t) PROVE HostRuns(Test)
  BY <1>2, <1>3, <1>7 DEF TestMoves
<1>8. CASE TestSent
  BY <1>7, <1>8 DEF TestSent
<1>9. CASE TestOutOfSlots
  BY <1>7, <1>9 DEF TestOutOfSlots
<1>10. CASE TestFilled
  BY <1>7, <1>10 DEF TestFilled
<1>11. CASE TestStops
  BY <1>2, <1>3, <1>11 DEF TestStops
<1>12. CASE TestPolls
  BY <1>2, <1>3, <1>12 DEF TestPolls
<1>13. CASE TestLoadsData
  BY <1>2, <1>3, <1>13 DEF TestLoadsData
<1>14. CASE TestFrees
  <2>1. \E E \in {{}, RefillEvent} : Notify(E)
    BY <1>14 DEF TestFrees
  <2>2. \A e \in pending' : e \in pending \/ e[1] \notin TimerNames
    BY <2>1, HostThreads DEF Notify, RefillEvent
  <2>3. Ran(Test, {}) /\ peq' = peq
    BY <1>2, <1>14 DEF TestFrees
  <2>. QED
    BY <1>3, <2>2, <2>3
<1>15. CASE TestChooses
  BY <1>7, <1>15 DEF TestChooses
<1>16. CASE TestBatchDone
  BY <1>7, <1>16 DEF TestBatchDone
<1>. QED
  BY <1>5, <1>6, <1>8, <1>9, <1>10, <1>11, <1>12, <1>13, <1>14, <1>15, <1>16 DEF TestStep

\* What a step of the bench leaves the controller: the threads the controller runs
\* sleep on and its queues stay.
LEMMA HostLeavesKernel ==
  ASSUME NEW place, NEW r, NEW m, QueueInv(place, r, m),
         SubmissionFills \/ SubmissionRefills \/ TestStep
  PROVE  /\ Wakes' /\ HostHasTimer' /\ \A q \in Peqs : peq'[q] = peq[q]
         /\ DimmInv(place, r, m) /\ SlotsHeld(place) /\ EntriesFit /\ IdsGrow
<1>1. Wakes /\ HostHasTimer
  BY DEF QueueInv, DimmInv, Typed
<1>2. PICK p : HostRuns(p)
  BY SubmissionRuns, TestRuns
<1>3. Wakes' /\ OthersRest(p)
  BY <1>1, <1>2, HostRunWakes
<1>. QED
  BY <1>1, <1>3 DEF OthersRest, QueueInv, HostHasTimer

(***************************************************************************)
(* The steps of the bench.                                                 *)
(***************************************************************************)
\* t with x in field f.
With(t, f, x) == [t EXCEPT ![f] = x]

\* One of the locals changes.
LEMMA LocalsKept ==
  ASSUME NEW t, IsTest(t), NEW f, NEW x, NEW u, u = With(t, f, x)
  PROVE  /\ IsFcn(u) /\ TestFields \subseteq DOMAIN u
         /\ f \in TestFields => u[f] = x
         /\ \A g \in TestFields \ {f} : u[g] = t[g]
  BY FieldSet DEF IsTest, With

\* The thread gets to another point of its program.
LEMMA AtSet ==
  ASSUME NEW t, IsTest(t), NEW x, NEW u, u = With(t, "at", x)
  PROVE  /\ IsTest(u) /\ u.at = x
         /\ u.req = t.req /\ u.entry = t.entry /\ u.batch = t.batch /\ u.filling = t.filling
         /\ u.slot = t.slot
<1>0. "at" \in TestFields
  BY DEF TestFields
<1>1. /\ IsFcn(u) /\ TestFields \subseteq DOMAIN u /\ u["at"] = x
      /\ \A g \in TestFields \ {"at"} : u[g] = t[g]
  BY <1>0, LocalsKept
<1>2. /\ u.req = t.req /\ u.entry = t.entry /\ u.batch = t.batch /\ u.filling = t.filling
      /\ u.slot = t.slot
  BY <1>1 DEF TestFields
<1>. QED
  BY <1>1, <1>2 DEF IsTest

\* The next sub-command.
LEMMA ReqSet ==
  ASSUME NEW t, IsTest(t), NEW x, x \in Nat, NEW u, u = With(t, "req", x)
  PROVE  /\ IsTest(u) /\ u.req = x
         /\ u.at = t.at /\ u.entry = t.entry /\ u.batch = t.batch
         /\ u.filling = t.filling /\ u.slot = t.slot
<1>0. "req" \in TestFields
  BY DEF TestFields
<1>1. /\ IsFcn(u) /\ TestFields \subseteq DOMAIN u /\ u["req"] = x
      /\ \A g \in TestFields \ {"req"} : u[g] = t[g]
  BY <1>0, LocalsKept
<1>2. /\ u.at = t.at /\ u.entry = t.entry /\ u.batch = t.batch
      /\ u.filling = t.filling /\ u.slot = t.slot
  BY <1>1 DEF TestFields
<1>. QED
  BY <1>1, <1>2 DEF IsTest

\* Another entry.
LEMMA EntrySet ==
  ASSUME NEW t, IsTest(t), NEW x, x \in Nat, t.filling => x # 0, NEW u, u = With(t, "entry", x)
  PROVE  /\ IsTest(u) /\ u.entry = x
         /\ u.at = t.at /\ u.req = t.req /\ u.batch = t.batch
         /\ u.filling = t.filling /\ u.slot = t.slot
<1>0. "entry" \in TestFields
  BY DEF TestFields
<1>1. /\ IsFcn(u) /\ TestFields \subseteq DOMAIN u /\ u["entry"] = x
      /\ \A g \in TestFields \ {"entry"} : u[g] = t[g]
  BY <1>0, LocalsKept
<1>2. /\ u.at = t.at /\ u.req = t.req /\ u.batch = t.batch
      /\ u.filling = t.filling /\ u.slot = t.slot
  BY <1>1 DEF TestFields
<1>. QED
  BY <1>1, <1>2 DEF IsTest

\* The queue is filled.
LEMMA FillingEnds ==
  ASSUME NEW t, IsTest(t), NEW x, ~x, NEW u, u = With(t, "filling", x)
  PROVE  /\ IsTest(u) /\ ~u.filling
         /\ u.at = t.at /\ u.req = t.req /\ u.entry = t.entry
         /\ u.batch = t.batch /\ u.slot = t.slot
<1>0. "filling" \in TestFields
  BY DEF TestFields
<1>1. /\ IsFcn(u) /\ TestFields \subseteq DOMAIN u /\ u["filling"] = x
      /\ \A g \in TestFields \ {"filling"} : u[g] = t[g]
  BY <1>0, LocalsKept
<1>2. /\ u.at = t.at /\ u.req = t.req /\ u.entry = t.entry
      /\ u.batch = t.batch /\ u.slot = t.slot
  BY <1>1 DEF TestFields
<1>3. ~u.filling
  BY <1>1
<1>. QED
  BY <1>1, <1>2, <1>3 DEF IsTest

\* Another slot.
LEMMA SlotSet ==
  ASSUME NEW t, IsTest(t), NEW x, NEW u, u = With(t, "slot", x)
  PROVE  /\ IsTest(u) /\ u.slot = x
         /\ u.at = t.at /\ u.req = t.req /\ u.entry = t.entry
         /\ u.batch = t.batch /\ u.filling = t.filling
<1>0. "slot" \in TestFields
  BY DEF TestFields
<1>1. /\ IsFcn(u) /\ TestFields \subseteq DOMAIN u /\ u["slot"] = x
      /\ \A g \in TestFields \ {"slot"} : u[g] = t[g]
  BY <1>0, LocalsKept
<1>2. /\ u.at = t.at /\ u.req = t.req /\ u.entry = t.entry
      /\ u.batch = t.batch /\ u.filling = t.filling
  BY <1>1 DEF TestFields
<1>. QED
  BY <1>1, <1>2 DEF IsTest

\* Other slots were reported.
LEMMA BatchSet ==
  ASSUME NEW t, IsTest(t), NEW x, x \in Seq(Slot), NEW u, u = With(t, "batch", x)
  PROVE  /\ IsTest(u) /\ u.batch = x
         /\ u.at = t.at /\ u.req = t.req /\ u.entry = t.entry
         /\ u.slot = t.slot /\ u.filling = t.filling
<1>0. "batch" \in TestFields
  BY DEF TestFields
<1>1. /\ IsFcn(u) /\ TestFields \subseteq DOMAIN u /\ u["batch"] = x
      /\ \A g \in TestFields \ {"batch"} : u[g] = t[g]
  BY <1>0, LocalsKept
<1>2. /\ u.at = t.at /\ u.req = t.req /\ u.entry = t.entry
      /\ u.slot = t.slot /\ u.filling = t.filling
  BY <1>1 DEF TestFields
<1>. QED
  BY <1>1, <1>2 DEF IsTest

\* A local the proofs do not follow.
LEMMA OtherSet ==
  ASSUME NEW t, IsTest(t), NEW f, f \notin TestFields, NEW x, NEW u, u = With(t, f, x)
  PROVE  /\ IsTest(u) /\ u.at = t.at /\ u.slot = t.slot
         /\ u.req = t.req /\ u.entry = t.entry /\ u.batch = t.batch /\ u.filling = t.filling
<1>1. /\ IsFcn(u) /\ TestFields \subseteq DOMAIN u
      /\ \A g \in TestFields \ {f} : u[g] = t[g]
  BY LocalsKept
<1>2. /\ u.req = t.req /\ u.entry = t.entry /\ u.batch = t.batch /\ u.filling = t.filling
      /\ u.slot = t.slot /\ u.at = t.at
  BY <1>1 DEF TestFields
<1>. QED
  BY <1>1, <1>2 DEF IsTest

\* The numbers of the commands in the controller.
LEMMA IdsKept ==
  ASSUME IdsGrow, UNCHANGED <<mSlotTable, cmdIndex>>,
         test'.at = "command" => test.at = "command"
  PROVE  IdsGrow'
  BY DEF IdsGrow

\* They are numbers.
LEMMA IdsAreNumbers ==
  ASSUME NEW place, NEW r, NEW m, DimmInv(place, r, m)
  PROVE  \A s \in Slot : mSlotTable[s].id \in Nat
  BY DEF DimmInv, Typed, TableTyped, Commands

\* The next sub-command has a new number.
LEMMA IdsNext ==
  ASSUME IdsGrow, \A s \in Slot : mSlotTable[s].id \in Nat, cmdIndex \in Nat,
         UNCHANGED mSlotTable, cmdIndex' = cmdIndex + 1
  PROVE  IdsGrow'
<1>1. \A s \in Slot : mSlotTable[s].id <= cmdIndex
  BY DEF IdsGrow
<1>2. \A s \in Slot : mSlotTable'[s].id < cmdIndex' /\ mSlotTable'[s].id <= cmdIndex'
  BY <1>1
<1>. QED
  BY <1>2 DEF IdsGrow

\* Its command goes into slot s.
LEMMA IdsSent ==
  ASSUME NEW place, NEW r, NEW m, DimmInv(place, r, m), IdsGrow, cmdIndex \in Nat,
         NEW s \in Slot, NEW id, NEW cmd, NEW lba, processPCMDQueue(s, id, cmd, lba, Cws),
         \/ id = cmdIndex + 1
         \/ id = cmdIndex /\ test.at = "command",
         cmdIndex' = id, test'.at # "command"
  PROVE  IdsGrow' /\ mSlotTable[s].id < id
<1>0. \A x \in Slot : mSlotTable[x].id \in Nat
  BY IdsAreNumbers
<1>1. \A x \in Slot : mSlotTable[x].id < id
  BY <1>0 DEF IdsGrow
<1>2. mSlotTable' = [mSlotTable EXCEPT ![s] = [cmd |-> cmd, cnt |-> Cws, id |-> id]]
  BY DEF processPCMDQueue
<1>3. mSlotTable \in [Slot -> Commands]
  BY DEF DimmInv, Typed, TableTyped
<1>4. mSlotTable'[s].id = id /\ \A x \in Slot \ {s} : mSlotTable'[x] = mSlotTable[x]
  BY <1>2, <1>3
<1>5. id \in Nat
  OBVIOUS
<1>6. \A x \in Slot : mSlotTable'[x].id <= id
  BY <1>0, <1>1, <1>4, <1>5
<1>. QED
  BY <1>1, <1>6 DEF IdsGrow

\* A step of the bench that leaves the controller and its slots alone.
LEMMA BenchAloneKeeps ==
  ASSUME NEW place, NEW r, NEW m, QueueInv(place, r, m),
         SubmissionFills \/ SubmissionRefills \/ TestStep,
         UNCHANGED controllerVars, EntriesFit', slotBusy' = slotBusy,
         test'.batch = test.batch,
         cmdIndex' = cmdIndex, test'.at = "command" => test' = test
  PROVE  QueueFollows
<1>1. /\ Wakes' /\ HostHasTimer' /\ \A q \in Peqs : peq'[q] = peq[q]
      /\ DimmInv(place, r, m) /\ SlotsHeld(place) /\ EntriesFit /\ IdsGrow
  BY HostLeavesKernel
<1>2. /\ DimmInv(place, r, m)' /\ \A s \in Slot : Idle(place, s) => Idle(place, s)'
      /\ Follows(place)
  BY <1>1, HostAloneKeepsInv
<1>3. mDataBuffer' = mDataBuffer /\ mSlotTable' = mSlotTable
  BY DEF controllerVars, bankVars, doneVars
<1>4. Range(test'.batch) = Range(test.batch) /\ IsInjective(test'.batch)
  BY <1>1 DEF SlotsHeld
<1>5. SlotsHeld(place)'
  BY <1>1, <1>2, <1>3, <1>4 DEF SlotsHeld
<1>6. IdsGrow'
  BY <1>1, <1>3, IdsKept
<1>7. QueueInv(place, r, m)'
  BY <1>1, <1>2, <1>5, <1>6 DEF QueueInv
<1>8. Served
  BY <1>1, <1>2, FollowsServes
<1>. QED
  BY <1>7, <1>8 DEF QueueFollows

\* The thread moves on: where it may go, with which entry.
LEMMA TestMovesKeeps ==
  ASSUME NEW place, NEW r, NEW m, QueueInv(place, r, m), TestStep, UNCHANGED controllerVars,
         UNCHANGED <<submissionVars, slotBusy, cmdIndex>>,
         NEW t, test' = t, IsTest(t), t.batch = test.batch, t.at # "command",
         t.at = "choose" => ~t.filling,
         t.at = "sent" => t.entry \in DOMAIN mSubQueue,
         t.at = "send" /\ ~t.filling => t.entry \in DOMAIN mSubQueue
  PROVE  QueueFollows
<1>1. EntriesFit
  BY DEF QueueInv
<1>2. EntriesFit'
  BY <1>1 DEF EntriesFit, submissionVars
<1>. QED
  BY <1>2, BenchAloneKeeps

\* The transfer of a command is over.
LEMMA TestSentKeeps ==
  ASSUME NEW place, NEW r, NEW m, QueueInv(place, r, m), TestSent
  PROVE  QueueFollows
<1>0. /\ TestStep /\ UNCHANGED controllerVars /\ UNCHANGED <<submissionVars, slotBusy, cmdIndex>>
  BY DEF TestStep, TestSent, TestMoves, slotVars
<1>1. IsTest(test) /\ test.at = "sent" /\ test.entry \in DOMAIN mSubQueue /\ test.req \in Nat
  BY DEF QueueInv, EntriesFit, TestSent, IsTest
<1>2. CASE test.req + 1 < NumSlotReq
  <2>. PICK t1 : t1 = With(test, "at", "send")
    OBVIOUS
  <2>. PICK t2 : t2 = With(t1, "req", test.req + 1)
    OBVIOUS
  <2>0. test.req + 1 \in Nat
    BY <1>1
  <2>1. test' = t2
    BY <1>2 DEF TestSent, TestMoves, With
  <2>2. IsTest(t1) /\ t1.at = "send" /\ t1.entry = test.entry /\ t1.batch = test.batch
    BY <1>1, AtSet
  <2>3. IsTest(t2) /\ t2.at = "send" /\ t2.entry = test.entry /\ t2.batch = test.batch
    BY <1>1, <2>0, <2>2, ReqSet
  <2>. QED
    BY <1>0, <1>1, <2>1, <2>3, TestMovesKeeps
<1>3. CASE ~(test.req + 1 < NumSlotReq) /\ test.filling
  <2>. PICK t1 : t1 = With(test, "at", "send")
    OBVIOUS
  <2>. PICK t2 : t2 = With(t1, "req", 0)
    OBVIOUS
  <2>. PICK t3 : t3 = With(t2, "entry", test.entry + 1)
    OBVIOUS
  <2>0. 0 \in Nat
    OBVIOUS
  <2>1. test' = t3
    BY <1>3 DEF TestSent, TestMoves, With
  <2>2. IsTest(t1) /\ t1.at = "send" /\ t1.batch = test.batch /\ t1.filling = test.filling
    BY <1>1, AtSet
  <2>3. IsTest(t2) /\ t2.at = "send" /\ t2.batch = test.batch /\ t2.filling = test.filling
    BY <1>1, <2>0, <2>2, ReqSet
  <2>4. test.entry + 1 \in Nat /\ test.entry + 1 # 0
    BY <1>1 DEF IsTest
  <2>5. IsTest(t3) /\ t3.at = "send" /\ t3.batch = test.batch /\ t3.filling = test.filling
    BY <2>3, <2>4, EntrySet
  <2>. QED
    BY <1>0, <1>3, <2>1, <2>5, TestMovesKeeps
<1>4. CASE ~(test.req + 1 < NumSlotReq) /\ ~test.filling
  <2>. PICK t1 : t1 = With(test, "at", "batch")
    OBVIOUS
  <2>. PICK t2 : t2 = With(t1, "req", 0)
    OBVIOUS
  <2>. PICK t3 : t3 = With(t2, "entry", 0)
    OBVIOUS
  <2>0. 0 \in Nat
    OBVIOUS
  <2>1. test' = t3
    BY <1>4 DEF TestSent, TestMoves, With
  <2>2. IsTest(t1) /\ t1.at = "batch" /\ t1.batch = test.batch /\ t1.filling = test.filling
    BY <1>1, AtSet
  <2>3. IsTest(t2) /\ t2.at = "batch" /\ t2.batch = test.batch /\ t2.filling = test.filling
    BY <1>1, <2>0, <2>2, ReqSet
  <2>4. IsTest(t3) /\ t3.at = "batch" /\ t3.batch = test.batch
    BY <1>4, <2>0, <2>3, EntrySet
  <2>. QED
    BY <1>0, <2>1, <2>4, TestMovesKeeps
<1>. QED
  BY <1>2, <1>3, <1>4

\* No slot is free.
LEMMA TestOutOfSlotsKeeps ==
  ASSUME NEW place, NEW r, NEW m, QueueInv(place, r, m), TestOutOfSlots
  PROVE  QueueFollows
<1>0. /\ TestStep /\ UNCHANGED controllerVars /\ UNCHANGED <<submissionVars, slotBusy, cmdIndex>>
  BY DEF TestStep, TestOutOfSlots, TestMoves, slotVars
<1>1. IsTest(test)
  BY DEF QueueInv, EntriesFit
<1>2. CASE test.filling
  <2>. PICK t1 : t1 = With(test, "at", "poll")
    OBVIOUS
  <2>1. test' = t1
    BY <1>2 DEF TestOutOfSlots, TestMoves, With
  <2>2. IsTest(t1) /\ t1.at = "poll" /\ t1.batch = test.batch
    BY <1>1, AtSet
  <2>. QED
    BY <1>0, <2>1, <2>2, TestMovesKeeps
<1>3. CASE ~test.filling
  <2>. PICK t1 : t1 = With(test, "at", "batch")
    OBVIOUS
  <2>0. PICK x : x = TRUE
    OBVIOUS
  <2>. PICK t2 : t2 = With(t1, "slotNotFree", x)
    OBVIOUS
  <2>1. test' = t2
    BY <1>3, <2>0 DEF TestOutOfSlots, TestMoves, With
  <2>2. IsTest(t1) /\ t1.at = "batch" /\ t1.batch = test.batch
    BY <1>1, AtSet
  <2>3. "slotNotFree" \notin TestFields
    BY DEF TestFields
  <2>4. IsTest(t2) /\ t2.at = "batch" /\ t2.batch = test.batch
    BY <2>2, <2>3, OtherSet
  <2>. QED
    BY <1>0, <2>1, <2>4, TestMovesKeeps
<1>. QED
  BY <1>2, <1>3

\* The queue is filled.
LEMMA TestFilledKeeps ==
  ASSUME NEW place, NEW r, NEW m, QueueInv(place, r, m), TestFilled
  PROVE  QueueFollows
<1>0. /\ 0 \in Nat
      /\ TestStep /\ UNCHANGED controllerVars /\ UNCHANGED <<submissionVars, slotBusy, cmdIndex>>
  BY DEF TestStep, TestFilled, TestMoves, slotVars
<1>1. IsTest(test)
  BY DEF QueueInv, EntriesFit
<1>. PICK t1 : t1 = With(test, "at", "poll")
  OBVIOUS
<1>7. PICK x : x = FALSE
  OBVIOUS
<1>. PICK t2 : t2 = With(t1, "filling", x)
  OBVIOUS
<1>. PICK t3 : t3 = With(t2, "entry", 0)
  OBVIOUS
<1>2. test' = t3
  BY <1>7 DEF TestFilled, TestMoves, With
<1>8. ~x
  BY <1>7
<1>3. IsTest(t1) /\ t1.at = "poll" /\ t1.batch = test.batch
  BY <1>1, AtSet
<1>4. IsTest(t2) /\ t2.at = "poll" /\ t2.batch = test.batch /\ ~t2.filling
  BY <1>3, <1>8, FillingEnds
<1>5. IsTest(t3) /\ t3.at = "poll" /\ t3.batch = test.batch
  BY <1>0, <1>4, EntrySet
<1>. QED
  BY <1>0, <1>2, <1>5, TestMovesKeeps

\* The entry the thread chooses is in the queue.
LEMMA TestChoosesKeeps ==
  ASSUME NEW place, NEW r, NEW m, QueueInv(place, r, m), TestChooses
  PROVE  QueueFollows
<1>0. /\ TestStep /\ UNCHANGED controllerVars /\ UNCHANGED <<submissionVars, slotBusy, cmdIndex>>
  BY DEF TestStep, TestChooses, TestMoves, slotVars
<1>1. IsTest(test) /\ IsSubQueue(mSubQueue) /\ ~test.filling
  BY DEF QueueInv, EntriesFit, TestChooses
<1>. PICK W : W = {i \in DOMAIN mSubQueue : ~mSubQueue[i].isDispatched /\ ~mSubQueue[i].isCmdDone}
  OBVIOUS
<1>2. CASE W = {} \/ test.slotNotFree
  <2>. PICK t1 : t1 = With(test, "at", "batch")
    OBVIOUS
  <2>1. test' = t1
    BY <1>2 DEF TestChooses, TestMoves, With
  <2>2. IsTest(t1) /\ t1.at = "batch" /\ t1.batch = test.batch
    BY <1>1, AtSet
  <2>. QED
    BY <1>0, <2>1, <2>2, TestMovesKeeps
<1>3. CASE ~(W = {} \/ test.slotNotFree)
  <2>1. DOMAIN mSubQueue \subseteq Nat
    BY <1>1, LenProperties DEF IsSubQueue
  <2>2. Least(W) \in W /\ Least(W) \in Nat
    <3>1. W # {} /\ W \in SUBSET Nat
      BY <1>3, <2>1
    <3>2. \E x \in W : \A y \in W : x <= y
      BY <3>1, LeastExists
    <3>3. Least(W) \in W
      BY <3>2 DEF Least
    <3>. QED
      BY <3>1, <3>3
  <2>. PICK e : e = Least(W)
    OBVIOUS
  <2>. PICK t1 : t1 = With(test, "at", "send")
    OBVIOUS
  <2>. PICK t2 : t2 = With(t1, "entry", e)
    OBVIOUS
  <2>3. test' = t2
    BY <1>3 DEF TestChooses, TestMoves, With
  <2>4. IsTest(t1) /\ t1.at = "send" /\ t1.batch = test.batch /\ t1.filling = test.filling
    BY <1>1, AtSet
  <2>5. e \in Nat /\ ~t1.filling
    BY <1>1, <2>2, <2>4
  <2>6. IsTest(t2) /\ t2.at = "send" /\ t2.batch = test.batch /\ t2.entry = e
    BY <2>4, <2>5, EntrySet
  <2>. QED
    BY <1>0, <2>2, <2>3, <2>6, TestMovesKeeps
<1>. QED
  BY <1>2, <1>3

\* The reported slots are served.
LEMMA TestBatchDoneKeeps ==
  ASSUME NEW place, NEW r, NEW m, QueueInv(place, r, m), TestBatchDone
  PROVE  QueueFollows
<1>0. /\ TestStep /\ UNCHANGED controllerVars /\ UNCHANGED <<submissionVars, slotBusy, cmdIndex>>
  BY DEF TestStep, TestBatchDone, TestMoves, slotVars
<1>1. IsTest(test)
  BY DEF QueueInv, EntriesFit
<1>. PICK t1 : t1 = With(test, "at", IF test.filling THEN "send" ELSE "poll")
  OBVIOUS
<1>2. test' = t1
  BY DEF TestBatchDone, TestMoves, With
<1>3. /\ IsTest(t1) /\ t1.batch = test.batch /\ t1.filling = test.filling
      /\ t1.at = IF test.filling THEN "send" ELSE "poll"
  BY <1>1, AtSet
<1>. QED
  BY <1>0, <1>2, <1>3, TestMovesKeeps

\* Data of a read is fetched, or the test stops.
LEMMA TestLoadsOrStopsKeeps ==
  ASSUME NEW place, NEW r, NEW m, QueueInv(place, r, m), TestLoadsData \/ TestStops
  PROVE  QueueFollows
<1>0. /\ TestStep /\ UNCHANGED controllerVars /\ UNCHANGED <<submissionVars, slotBusy, cmdIndex>>
  BY DEF TestStep, TestLoadsData, TestStops, slotVars
<1>1. IsTest(test)
  BY DEF QueueInv, EntriesFit
<1>2. PICK p \in {"loaded", "stopped"} : test' = [test EXCEPT !.at = p]
  BY DEF TestLoadsData, TestStops
<1>. PICK t1 : t1 = With(test, "at", p)
  OBVIOUS
<1>3. IsTest(t1) /\ t1.at = p /\ t1.batch = test.batch
  BY <1>1, AtSet
<1>4. test' = t1 /\ p # "command" /\ p # "choose" /\ p # "sent" /\ p # "send"
  BY <1>2 DEF With
<1>. QED
  BY <1>0, <1>3, <1>4, TestMovesKeeps

(***************************************************************************)
(* The steps that change the submission queue or the controller.           *)
(***************************************************************************)
\* The submission queue is filled at the start.
LEMMA SubmissionFillsKeeps ==
  ASSUME NEW place, NEW r, NEW m, QueueInv(place, r, m), SubmissionFills, load \in Loads
  PROVE  QueueFollows
<1>1. /\ UNCHANGED controllerVars /\ UNCHANGED <<slotBusy, cmdIndex, test>>
      /\ mCmdCount = 0 /\ mCmdCount' = QueueDepth /\ EntriesFit
  BY DEF SubmissionFills, slotVars, testVars, QueueInv
<1>2. /\ load.kinds \subseteq {"READ", "WRITE"} /\ Lbas \subseteq Nat
      /\ QueueDepth \in Nat \ {0}
  BY BenchAssumption DEF QueueDepth
<1>3. PICK k \in [1 .. QueueDepth -> load.kinds], l \in [1 .. QueueDepth -> Lbas] :
        mSubQueue' = [i \in 1 .. QueueDepth |-> NewEntry(i, k[i], l[i])]
  BY DEF SubmissionFills
<1>4. \A i \in 1 .. QueueDepth : IsEntry(NewEntry(i, k[i], l[i]))
  BY <1>2, NewEntryIs
<1>5. IsSubQueue(mSubQueue')
  <2>. PICK n : n = QueueDepth
    OBVIOUS
  <2>1. IsFcn(mSubQueue') /\ DOMAIN mSubQueue' = 1 .. n
    BY <1>3 DEF IsFcn
  <2>2. mSubQueue' \in Seq(Range(mSubQueue'))
    BY <1>2, <2>1, FunctionIsSequence
  <2>3. \A i \in 1 .. n : IsEntry(mSubQueue'[i])
    BY <1>3, <1>4
  <2>. QED
    BY <2>1, <2>2, <2>3 DEF IsSubQueue
<1>6. test.entry \notin DOMAIN mSubQueue
  BY <1>1 DEF EntriesFit
<1>7. EntriesFit'
  BY <1>1, <1>2, <1>5, <1>6 DEF EntriesFit
<1>. QED
  BY <1>1, <1>7, BenchAloneKeeps

\* A completed entry gets a new command.
LEMMA SubmissionRefillsKeeps ==
  ASSUME NEW place, NEW r, NEW m, QueueInv(place, r, m), SubmissionRefills, load \in Loads
  PROVE  QueueFollows
<1>1. /\ UNCHANGED controllerVars /\ UNCHANGED <<slotBusy, cmdIndex, test>>
      /\ mCmdCount # 0 /\ EntriesFit
  BY DEF SubmissionRefills, slotVars, testVars, QueueInv
<1>2. load.kinds \subseteq {"READ", "WRITE"} /\ Lbas \subseteq Nat
  BY BenchAssumption
<1>3. CASE UNCHANGED <<mSubQueue, mCmdCount>>
  <2>1. EntriesFit'
    BY <1>1, <1>3 DEF EntriesFit
  <2>. QED
    BY <1>1, <2>1, BenchAloneKeeps
<1>4. CASE ~UNCHANGED <<mSubQueue, mCmdCount>>
  <2>. PICK e : e = Least(DoneEntries(Head(mSlotIndexQueue)))
    OBVIOUS
  <2>1. PICK k \in load.kinds, l \in Lbas :
          mSubQueue' = [mSubQueue EXCEPT ![e] =
            [NewEntry(mCmdCount + 1, k, l) EXCEPT !.slotNum = Head(mSlotIndexQueue)]]
    BY <1>4 DEF SubmissionRefills
  <2>2. mCmdCount' = mCmdCount + 1
    BY <1>4 DEF SubmissionRefills
  <2>3. IsEntry(NewEntry(mCmdCount + 1, k, l))
    BY <1>2, NewEntryIs
  <2>. PICK x : x = [NewEntry(mCmdCount + 1, k, l) EXCEPT !.slotNum = Head(mSlotIndexQueue)]
    OBVIOUS
  <2>4. IsEntry(x)
    BY <2>3, EntryFieldChanges DEF EntryFields
  <2>5. mSubQueue' = [mSubQueue EXCEPT ![e] = x]
    BY <2>1
  <2>. PICK q : q = mSubQueue
    OBVIOUS
  <2>9. IsSubQueue(q) /\ mSubQueue' = [q EXCEPT ![e] = x]
    BY <1>1, <2>5 DEF EntriesFit
  <2>6. IsSubQueue(mSubQueue') /\ DOMAIN mSubQueue' = DOMAIN mSubQueue
    BY <2>4, <2>9, EntryChanges
  <2>7. mCmdCount' \in Nat /\ mCmdCount' # 0
    BY <1>1, <2>2 DEF EntriesFit
  <2>8. EntriesFit'
    BY <1>1, <2>6, <2>7 DEF EntriesFit
  <2>. QED
    BY <1>1, <2>8, BenchAloneKeeps
<1>. QED
  BY <1>3, <1>4

\* The second of two lists joined has each element once if both together do.
LEMMA SecondInjective ==
  ASSUME NEW T, NEW p \in Seq(T), NEW q \in Seq(T), IsInjective(p \o q)
  PROVE  IsInjective(q)
<1>. PICK w : w = p \o q
  OBVIOUS
<1>. PICK n \in Nat : n = Len(p)
  BY LenProperties
<1>1. \A i \in DOMAIN q : n + i \in DOMAIN w /\ w[n + i] = q[i] /\ i \in Nat
  BY ConcatProperties, LenProperties
<1>2. \A i, j \in DOMAIN w : w[i] = w[j] => i = j
  BY DEF IsInjective
<1>3. ASSUME NEW i \in DOMAIN q, NEW j \in DOMAIN q, q[i] = q[j]
      PROVE  i = j
  <2>1. n + i = n + j /\ i \in Nat /\ j \in Nat
    BY <1>1, <1>2, <1>3
  <2>. QED
    BY <2>1
<1>. QED
  BY <1>3 DEF IsInjective

\* The slots that were reported and are read are used and idle.
LEMMA TestPollsKeeps ==
  ASSUME NEW place, NEW r, NEW m, QueueInv(place, r, m), TestPolls
  PROVE  QueueFollows
<1>0. /\ Wakes' /\ HostHasTimer' /\ \A q \in Peqs : peq'[q] = peq[q]
      /\ DimmInv(place, r, m) /\ SlotsHeld(place) /\ EntriesFit /\ IdsGrow
  BY HostLeavesKernel DEF TestStep
<1>1. /\ UNCHANGED innerVars /\ UNCHANGED <<mSlotNumQueue, mCompletionQueue_mcore, mDataBuffer>>
      /\ mCompletionQueue' = <<>> /\ test.at = "poll"
      /\ UNCHANGED <<submissionVars, slotBusy, cmdIndex>>
  BY DEF TestPolls, innerVars, slotVars
<1>2. /\ DimmInv(place, r, m)'
      /\ \A x \in Range(mCompletionQueue) : x \in Slot /\ Idle(place, x)'
      /\ \A x \in Slot : Idle(place, x) => Idle(place, x)'
      /\ Collects(place)
  BY <1>0, <1>1, QueueReadKeepsInv
<1>3. mSlotTable' = mSlotTable
  BY <1>1 DEF innerVars, bankVars
<1>4. Served
  BY <1>0, <1>2, <1>3, CollectServes
<1>5. CASE test' = test
  <2>1. EntriesFit' /\ SlotsHeld(place)'
    BY <1>0, <1>1, <1>2, <1>5 DEF EntriesFit, SlotsHeld, submissionVars
  <2>2. IdsGrow'
    BY <1>0, <1>1, <1>5, <1>3, IdsKept
  <2>. QED
    BY <1>0, <1>2, <1>4, <2>1, <2>2 DEF QueueInv, QueueFollows
<1>6. CASE test' = [test EXCEPT !.at = "batch", !.batch = mCompletionQueue]
  <2>1. mSlotNumQueue \in Seq(Slot) /\ mCompletionQueue \in Seq(Slot)
    BY <1>0 DEF DimmInv, Typed, DoneTyped
  <2>2. IsInjective(mCompletionQueue)
    <3>1. IsInjective(mSlotNumQueue \o mCompletionQueue)
      BY <1>0 DEF DimmInv, Finished, Reports, reported
    <3>. QED
      BY <2>1, <3>1, SecondInjective
  <2>3. \A s \in Range(mCompletionQueue) : s \in slotBusy
    <3>1. \A s \in Range(mCompletionQueue) : s \in Range(reported)
      <4>1. Range(mSlotNumQueue \o mCompletionQueue) =
              Range(mSlotNumQueue) \cup Range(mCompletionQueue)
        BY <2>1, RangeConcatenation
      <4>. QED
        BY <4>1 DEF reported
    <3>. QED
      BY <1>0, <1>2, <3>1 DEF SlotsHeld, Idle
  <2>. PICK t1 : t1 = With(test, "at", "batch")
    OBVIOUS
  <2>. PICK t2 : t2 = With(t1, "batch", mCompletionQueue)
    OBVIOUS
  <2>4. test' = t2
    BY <1>6 DEF With
  <2>5. IsTest(t1) /\ t1.at = "batch"
    BY <1>0, AtSet DEF EntriesFit
  <2>6. IsTest(t2) /\ t2.at = "batch" /\ t2.batch = mCompletionQueue
    BY <2>1, <2>5, BatchSet
  <2>7. EntriesFit'
    BY <1>0, <1>1, <2>4, <2>6 DEF EntriesFit, submissionVars
  <2>8. SlotsHeld(place)'
    BY <1>0, <1>1, <1>2, <2>2, <2>3, <2>4, <2>6 DEF SlotsHeld
  <2>9. IdsGrow'
    BY <1>0, <1>1, <1>3, <2>4, <2>6, IdsKept
  <2>. QED
    BY <1>0, <1>2, <1>4, <2>7, <2>8, <2>9 DEF QueueInv, QueueFollows
<1>. QED
  BY <1>5, <1>6 DEF TestPolls

\* The first of the reported slots is freed.
LEMMA HeadLeaves ==
  ASSUME NEW q \in Seq(Slot), q # <<>>, IsInjective(q)
  PROVE  /\ Tail(q) \in Seq(Slot) /\ IsInjective(Tail(q)) /\ Head(q) \in Range(q)
         /\ \A s \in Range(Tail(q)) : s \in Range(q) /\ s # Head(q)
<1>. PICK w : w = Tail(q)
  OBVIOUS
<1>. PICK n \in Nat : n = Len(q)
  BY LenProperties
<1>1. n # 0 /\ w \in Seq(Slot) /\ Len(w) = n - 1 /\ \A i \in 1 .. n - 1 : w[i] = q[i + 1]
  BY HeadTailProperties, EmptySeq
<1>2. DOMAIN q = 1 .. n /\ DOMAIN w = 1 .. n - 1 /\ Head(q) = q[1]
  BY <1>1, LenProperties
<1>3. \A i, j \in 1 .. n : q[i] = q[j] => i = j
  BY <1>2 DEF IsInjective
<1>4. IsInjective(w)
  <2>1. ASSUME NEW i \in 1 .. n - 1, NEW j \in 1 .. n - 1, w[i] = w[j]
        PROVE  i = j
    <3>1. i + 1 \in 1 .. n /\ j + 1 \in 1 .. n /\ q[i + 1] = q[j + 1]
      BY <1>1, <2>1
    <3>2. i + 1 = j + 1
      BY <1>3, <3>1
    <3>. QED
      BY <3>2
  <2>. QED
    BY <1>2, <2>1 DEF IsInjective
<1>5. ASSUME NEW s \in Range(w)
      PROVE  s \in Range(q) /\ s # q[1]
  <2>1. PICK i \in 1 .. n - 1 : s = w[i]
    BY <1>2, <1>5 DEF Range
  <2>2. i + 1 \in 1 .. n /\ i + 1 # 1 /\ s = q[i + 1] /\ 1 \in 1 .. n
    BY <1>1, <2>1
  <2>. QED
    BY <1>2, <1>3, <2>2 DEF Range
<1>6. q[1] \in Range(q)
  BY <1>1, <1>2 DEF Range
<1>. QED
  BY <1>1, <1>2, <1>4, <1>5, <1>6

LEMMA TestFreesKeeps ==
  ASSUME NEW place, NEW r, NEW m, QueueInv(place, r, m), TestFrees
  PROVE  QueueFollows
<1>0. /\ Wakes' /\ HostHasTimer' /\ \A q \in Peqs : peq'[q] = peq[q]
      /\ DimmInv(place, r, m) /\ SlotsHeld(place) /\ EntriesFit /\ IdsGrow
  BY HostLeavesKernel DEF TestStep
<1>. PICK q : q = test.batch
  OBVIOUS
<1>1. /\ UNCHANGED controllerVars /\ q # <<>> /\ q \in Seq(Slot) /\ IsInjective(q)
      /\ slotBusy' = slotBusy \ {Head(q)} /\ UNCHANGED <<mCmdCount, cmdIndex>>
  BY <1>0 DEF TestFrees, ReleaseSlot, SlotsHeld, EntriesFit, IsTest
<1>2. /\ DimmInv(place, r, m)' /\ \A s \in Slot : Idle(place, s) => Idle(place, s)'
      /\ Follows(place)
  BY <1>0, <1>1, HostAloneKeepsInv
<1>3. /\ Tail(q) \in Seq(Slot) /\ IsInjective(Tail(q)) /\ Head(q) \in Range(q)
      /\ \A s \in Range(Tail(q)) : s \in Range(q) /\ s # Head(q)
  BY <1>1, HeadLeaves
<1>4. /\ IsSubQueue(mSubQueue') /\ DOMAIN mSubQueue' = DOMAIN mSubQueue
      /\ mSubQueue = <<>> => mSubQueue' = <<>>
  <2>1. CASE mSubQueue' = mSubQueue
    BY <1>0, <2>1 DEF EntriesFit
  <2>2. CASE mSubQueue' # mSubQueue
    <3>1. PICK i : mSubQueue' = [mSubQueue EXCEPT ![i].isCmdDone = TRUE]
      BY <2>2, Zenon DEF TestFrees, ReleaseSlot
    <3>. PICK x : x = [mSubQueue[i] EXCEPT !.isCmdDone = TRUE]
      OBVIOUS
    <3>2. mSubQueue' = [mSubQueue EXCEPT ![i] = x]
      BY <3>1
    <3>3. i \in DOMAIN mSubQueue => IsEntry(x)
      BY <1>0, EntryFieldChanges DEF EntriesFit, IsSubQueue, EntryFields
    <3>4. IsSubQueue(mSubQueue') /\ DOMAIN mSubQueue' = DOMAIN mSubQueue
      BY <1>0, <3>2, <3>3, EntryChanges DEF EntriesFit
    <3>5. mSubQueue = <<>> => mSubQueue' = <<>>
      BY <3>4, EmptySeq DEF IsSubQueue
    <3>. QED
      BY <3>4, <3>5
  <2>. QED
    BY <2>1, <2>2
<1>5. PICK p \in {"choose", "batch"} :
        /\ test' = [test EXCEPT !.batch = Tail(q), !.at = p]
        /\ p = "choose" => ~test.filling
  BY DEF TestFrees
<1>6. PICK w : w = Tail(q)
  OBVIOUS
<1>. PICK t1 : t1 = With(test, "batch", w)
  OBVIOUS
<1>. PICK t2 : t2 = With(t1, "at", p)
  OBVIOUS
<1>7. test' = t2
  BY <1>5, <1>6 DEF With
<1>8. IsTest(test) /\ w \in Seq(Slot)
  BY <1>0, <1>3, <1>6 DEF EntriesFit
<1>9. IsTest(t1) /\ t1.batch = w /\ t1.filling = test.filling
  BY <1>8, BatchSet
<1>10. IsTest(t2) /\ t2.batch = w /\ t2.filling = test.filling /\ t2.at = p
  BY <1>9, AtSet
<1>11. EntriesFit'
  BY <1>0, <1>1, <1>4, <1>5, <1>7, <1>10 DEF EntriesFit
<1>12. SlotsHeld(place)'
  BY <1>0, <1>1, <1>2, <1>3, <1>5, <1>7, <1>10, <1>6 DEF SlotsHeld
<1>13. IdsGrow'
  <2>1. mSlotTable' = mSlotTable
    BY <1>1 DEF controllerVars, bankVars
  <2>. QED
    BY <1>0, <1>1, <1>5, <1>7, <1>10, <2>1, IdsKept
<1>14. Served
  BY <1>0, <1>2, FollowsServes
<1>. QED
  BY <1>0, <1>2, <1>11, <1>12, <1>13, <1>14 DEF QueueInv, QueueFollows

\* getAvailableSlot finds a free slot, which is idle.
LEMMA FreeSlotIs ==
  ASSUME NEW place, SlotsHeld(place), FreeSlots # {}
  PROVE  /\ Least(FreeSlots) \in Slot \ slotBusy
         /\ Idle(place, Least(FreeSlots))
<1>1. FreeSlots \in SUBSET Nat
  BY ControllerAssumption DEF FreeSlots, Slot
<1>2. \E x \in FreeSlots : \A y \in FreeSlots : x <= y
  BY <1>1, LeastExists
<1>3. Least(FreeSlots) \in FreeSlots
  BY <1>2 DEF Least
<1>. QED
  BY <1>3 DEF FreeSlots, SlotsHeld

\* The entry that is sent is in the queue.
LEMMA SendingIs ==
  ASSUME EntriesFit, test.at = "command" \/ (test.at = "send" /\ ~Filled)
  PROVE  /\ test.entry \in DOMAIN mSubQueue /\ IsEntry(mSubQueue[test.entry])
         /\ Sending.d \in {"READ", "WRITE"} /\ SubLba \in Nat
<1>. PICK n \in Nat : n = Len(mSubQueue)
  BY LenProperties DEF EntriesFit, IsSubQueue
<1>. PICK e \in Nat : e = test.entry /\ (test.filling => e # 0)
  BY DEF EntriesFit, IsTest
<1>1. DOMAIN mSubQueue = 1 .. n
  BY LenProperties DEF EntriesFit, IsSubQueue
<1>2. test.at = "send" /\ test.filling => e \in 1 .. n
  BY DEF Filled
<1>3. e \in DOMAIN mSubQueue
  BY <1>1, <1>2 DEF EntriesFit
<1>4. IsEntry(mSubQueue[e])
  BY <1>3 DEF EntriesFit, IsSubQueue
<1>5. SubLba \in Nat
  <2>. PICK l \in Nat : l = mSubQueue[e].lba
    BY <1>4 DEF IsEntry
  <2>. PICK x \in Nat : x = test.req * Cws
    BY BenchAssumption DEF EntriesFit, IsTest
  <2>1. SubLba = l + x
    BY DEF SubLba, Sending
  <2>. QED
    BY <2>1
<1>. QED
  BY <1>3, <1>4, <1>5 DEF Sending, IsEntry

\* The command of a write follows its data.
LEMMA TestSendsCommandKeeps ==
  ASSUME NEW place, NEW r, NEW m, QueueInv(place, r, m), TestSendsCommand
  PROVE  QueueFollows
<1>0. /\ Wakes' /\ HostHasTimer' /\ \A q \in Peqs : peq'[q] = peq[q]
      /\ DimmInv(place, r, m) /\ SlotsHeld(place) /\ EntriesFit /\ IdsGrow
  BY HostLeavesKernel DEF TestStep
<1>. PICK s : s = test.slot
  OBVIOUS
<1>1. /\ test.at = "command" /\ sendCommand(s, cmdIndex, Sending.d, SubLba)
      /\ test' = [test EXCEPT !.at = "sent"]
      /\ UNCHANGED <<dispatch, mAscq, mAlcq, mAvailableCredit, manager, doneVars>>
      /\ UNCHANGED <<submissionVars, slotBusy, cmdIndex>>
  BY DEF TestSendsCommand, sendCommand, doneVars, slotVars
<1>2. /\ s \in slotBusy \ Range(test.batch) /\ s \in Slot /\ Idle(place, s)
      /\ \A a \in WordsOf(s, Cws) : mDataBuffer[a] = <<cmdIndex, a % SlotCws>>
  BY <1>0, <1>1 DEF SlotsHeld
<1>3. /\ test.entry \in DOMAIN mSubQueue /\ Sending.d \in {"READ", "WRITE"} /\ SubLba \in Nat
  BY <1>0, <1>1, SendingIs
<1>. PICK d, l, id : d = Sending.d /\ l = SubLba /\ id = cmdIndex
  OBVIOUS
<1>4. processPCMDQueue(s, id, d, l, Cws) /\ id \in Nat /\ Cws \in 1 .. SlotCws
  BY <1>0, <1>1, BenchAssumption DEF sendCommand, EntriesFit
<1>5. PICK place2, r2, m2 : /\ DimmInv(place2, r2, m2)' /\ StateOf(place2, s)' = "busy"
                            /\ \A x \in Slot \ {s} : StateOf(place2, x)' = StateOf(place, x)
  BY <1>0, <1>1, <1>2, <1>3, <1>4, CommandKeepsInv
<1>. PICK t1 : t1 = With(test, "at", "sent")
  OBVIOUS
<1>6. test' = t1
  BY <1>1 DEF With
<1>7. /\ IsTest(t1) /\ t1.at = "sent" /\ t1.batch = test.batch /\ t1.entry = test.entry
  BY <1>0, AtSet DEF EntriesFit
<1>8. EntriesFit'
  BY <1>0, <1>1, <1>3, <1>6, <1>7 DEF EntriesFit, submissionVars
<1>9. \A x \in Slot \ {s} : Idle(place, x) => Idle(place2, x)'
  BY <1>5, IdleIsIdle
<1>10. SlotsHeld(place2)'
  BY <1>0, <1>1, <1>2, <1>6, <1>7, <1>9 DEF SlotsHeld
<1>11. IdsGrow' /\ mSlotTable[s].id < id
  BY <1>0, <1>1, <1>2, <1>4, <1>6, <1>7, IdsSent
<1>12. Served
  BY <1>0, <1>2, <1>4, <1>5, <1>11, AcceptServes
<1>. QED
  BY <1>0, <1>5, <1>8, <1>10, <1>11, <1>12 DEF QueueInv, QueueFollows

\* The first transfer of a sub-command.
LEMMA TestSendsKeeps ==
  ASSUME NEW place, NEW r, NEW m, QueueInv(place, r, m), TestSends
  PROVE  QueueFollows
<1>0. /\ Wakes' /\ HostHasTimer' /\ \A q \in Peqs : peq'[q] = peq[q]
      /\ DimmInv(place, r, m) /\ SlotsHeld(place) /\ EntriesFit /\ IdsGrow
  BY HostLeavesKernel DEF TestStep
<1>. PICK s : s = Least(FreeSlots)
  OBVIOUS
<1>. PICK id : id = cmdIndex + 1
  OBVIOUS
<1>. PICK d, l : d = Sending.d /\ l = SubLba
  OBVIOUS
<1>. PICK e : e = test.entry
  OBVIOUS
<1>1. /\ test.at = "send" /\ ~Filled /\ FreeSlots # {} /\ slotBusy' = slotBusy \cup {s}
      /\ cmdIndex' = id
      /\ IF d = "WRITE" THEN sendData(s, id) ELSE sendCommand(s, id, d, l)
      /\ UNCHANGED <<dispatch, mAscq, mAlcq, mAvailableCredit, manager, mIntermediateQueue>>
      /\ UNCHANGED <<mSlotNumQueue, mCompletionQueue, mCompletionQueue_mcore, mCmdCount>>
  BY DEF TestSends
<1>2. s \in Slot \ slotBusy /\ Idle(place, s) /\ id \in Nat /\ Cws \in 1 .. SlotCws
  BY <1>0, <1>1, FreeSlotIs, BenchAssumption DEF EntriesFit
<1>3. /\ e \in DOMAIN mSubQueue /\ IsEntry(mSubQueue[e])
      /\ d \in {"READ", "WRITE"} /\ l \in Nat
  BY <1>0, <1>1, SendingIs
<1>4. PICK p, t : /\ p = IF d = "WRITE" THEN "command" ELSE "sent"
                  /\ test' = [test EXCEPT !.at = p, !.tag = t, !.slot = s]
  BY DEF TestSends
<1>. PICK t1 : t1 = With(test, "at", p)
  OBVIOUS
<1>. PICK t2 : t2 = With(t1, "tag", t)
  OBVIOUS
<1>. PICK t3 : t3 = With(t2, "slot", s)
  OBVIOUS
<1>5. test' = t3
  BY <1>4 DEF With
<1>6. IsTest(t1) /\ t1.at = p /\ t1.batch = test.batch /\ t1.entry = e
  BY <1>0, AtSet DEF EntriesFit
<1>7. "tag" \notin TestFields
  BY DEF TestFields
<1>8. IsTest(t2) /\ t2.at = p /\ t2.batch = test.batch /\ t2.entry = e
  BY <1>6, <1>7, OtherSet
<1>9. IsTest(t3) /\ t3.at = p /\ t3.batch = test.batch /\ t3.entry = e /\ t3.slot = s
  BY <1>8, SlotSet
<1>10. IsSubQueue(mSubQueue') /\ DOMAIN mSubQueue' = DOMAIN mSubQueue
  <2>1. CASE mSubQueue' = mSubQueue
    BY <1>0, <2>1 DEF EntriesFit
  <2>2. CASE mSubQueue' = [mSubQueue EXCEPT ![e].isDispatched = TRUE, ![e].slotNum = s]
    <3>. PICK q : q = mSubQueue
      OBVIOUS
    <3>. PICK x : x = [q[e] EXCEPT !.isDispatched = TRUE]
      OBVIOUS
    <3>. PICK y : y = [x EXCEPT !.slotNum = s]
      OBVIOUS
    <3>1. IsSubQueue(q) /\ IsEntry(q[e])
      BY <1>0, <1>3 DEF EntriesFit
    <3>2. IsFcn(q)
      BY <3>1 DEF IsSubQueue, IsFcn
    <3>3. mSubQueue' = [q EXCEPT ![e] = y]
      BY <2>2, <3>2 DEF IsFcn
    <3>4. IsEntry(x)
      BY <3>1, EntryFieldChanges DEF EntryFields
    <3>5. IsEntry(y)
      BY <3>4, EntryFieldChanges DEF EntryFields
    <3>. QED
      BY <3>1, <3>3, <3>5, EntryChanges
  <2>. QED
    BY <2>1, <2>2 DEF TestSends
<1>11. EntriesFit'
  <2>1. mCmdCount # 0
    BY <1>0, <1>3 DEF EntriesFit
  <2>2. p \in {"command", "sent"}
    BY <1>4
  <2>. QED
    BY <1>0, <1>1, <1>2, <1>3, <1>5, <1>9, <1>10, <2>1, <2>2 DEF EntriesFit
<1>12. CASE d = "WRITE"
  <2>1. WriteBlockData(s, id, Cws) /\ UNCHANGED innerVars
    BY <1>1, <1>12 DEF sendData, innerVars
  <2>2. /\ DimmInv(place, r, m)' /\ \A x \in Slot : Idle(place, x) => Idle(place, x)'
        /\ \A a \in WordsOf(s, Cws) : mDataBuffer'[a] = <<id, a % SlotCws>>
        /\ \A x \in Slot : StateOf(place, x)' = StateOf(place, x)
    BY <1>0, <1>1, <1>2, <2>1, DataWrittenKeepsInv
  <2>3. SlotsHeld(place)'
    BY <1>0, <1>1, <1>2, <1>5, <1>9, <2>2 DEF SlotsHeld
  <2>4. mSlotTable' = mSlotTable
    BY <2>1 DEF innerVars, bankVars
  <2>5. IdsGrow'
    <3>1. \A x \in Slot : mSlotTable[x].id \in Nat
      BY <1>0, IdsAreNumbers
    <3>. QED
      BY <1>0, <1>1, <2>4, <3>1, IdsNext DEF EntriesFit
  <2>6. Served
    BY <1>0, <2>2, <2>4, StutterServes
  <2>. QED
    BY <1>0, <1>11, <2>2, <2>3, <2>5, <2>6 DEF QueueInv, QueueFollows
<1>13. CASE d # "WRITE"
  <2>1. /\ processPCMDQueue(s, id, d, l, Cws) /\ UNCHANGED doneVars
        /\ p = "sent"
    BY <1>1, <1>4, <1>13 DEF sendCommand, doneVars
  <2>2. PICK place2, r2, m2 : /\ DimmInv(place2, r2, m2)' /\ StateOf(place2, s)' = "busy"
                              /\ \A x \in Slot \ {s} : StateOf(place2, x)' = StateOf(place, x)
    BY <1>0, <1>1, <1>2, <1>3, <1>13, <2>1, CommandKeepsInv
  <2>3. \A x \in Slot \ {s} : Idle(place, x) => Idle(place2, x)'
    BY <2>2, IdleIsIdle
  <2>4. SlotsHeld(place2)'
    BY <1>0, <1>1, <1>2, <1>5, <1>9, <2>1, <2>3 DEF SlotsHeld
  <2>5. IdsGrow' /\ mSlotTable[s].id < id
    <3>1. cmdIndex \in Nat /\ test'.at # "command"
      BY <1>0, <1>5, <1>9, <2>1 DEF EntriesFit
    <3>. QED
      BY <1>0, <1>1, <1>2, <2>1, <3>1, IdsSent
  <2>6. Served
    BY <1>0, <1>2, <2>1, <2>2, <2>5, AcceptServes
  <2>. QED
    BY <1>0, <1>11, <2>2, <2>4, <2>5, <2>6 DEF QueueInv, QueueFollows
<1>. QED
  BY <1>12, <1>13

(***************************************************************************)
(* Every step.                                                             *)
(***************************************************************************)
\* Every step of the test.
LEMMA TestStepKeeps ==
  ASSUME NEW place, NEW r, NEW m, QueueInv(place, r, m), TestStep
  PROVE  QueueFollows
  BY TestSendsKeeps, TestSendsCommandKeeps, TestSentKeeps, TestOutOfSlotsKeeps, TestFilledKeeps,
     TestLoadsOrStopsKeeps, TestPollsKeeps, TestFreesKeeps, TestChoosesKeeps, TestBatchDoneKeeps
     DEF TestStep

\* The controller and the kernel, while the bench rests.
LEMMA BenchRests ==
  ASSUME NEW place, NEW r, NEW m, QueueInv(place, r, m), UNCHANGED hostVars, Follows(place),
         DOMAIN waiting' = DOMAIN waiting /\ DOMAIN peq' = DOMAIN peq,
         \A s \in Slot, a \in Addr :
           Idle(place, s) /\ SlotOf(a) = s => mDataBuffer'[a] = mDataBuffer[a]
  PROVE  QueueFollows
<1>1. PICK place2, r2, m2 : /\ DimmInv(place2, r2, m2)'
                            /\ \A s \in Slot : Idle(place, s) => Idle(place2, s)'
  BY FollowsKeepsIdle
<1>2. SlotsHeld(place) /\ EntriesFit /\ IdsGrow /\ HostHasTimer
  BY DEF QueueInv
<1>3. UNCHANGED <<mSubQueue, mCmdCount, slotBusy, cmdIndex, test>>
  BY DEF hostVars, submissionVars, slotVars, testVars
<1>4. EntriesFit' /\ HostHasTimer'
  BY <1>2, <1>3 DEF EntriesFit, HostHasTimer
<1>5. ASSUME test.at = "command", NEW a \in WordsOf(test.slot, Cws)
      PROVE  mDataBuffer'[a] = mDataBuffer[a]
  <2>1. test.slot \in Slot /\ Idle(place, test.slot)
    BY <1>2, <1>5 DEF SlotsHeld
  <2>2. a \in Addr /\ SlotOf(a) = test.slot
    BY <1>5, <2>1, WordsAreInSlot, BenchAssumption
  <2>. QED
    BY <2>1, <2>2
<1>6. SlotsHeld(place2)'
  BY <1>1, <1>2, <1>3, <1>5 DEF SlotsHeld
<1>7. IdsGrow'
  BY <1>2, <1>3, FollowsKeepsIdle, IdsKept
<1>8. QueueInv(place2, r2, m2)'
  BY <1>1, <1>4, <1>6, <1>7 DEF QueueInv
<1>9. Served
  BY FollowsServes DEF QueueInv
<1>. QED
  BY <1>8, <1>9 DEF QueueFollows

\* Every step of the system.
LEMMA QueueInvStep ==
  ASSUME NEW place, NEW r, NEW m, QueueInv(place, r, m), load \in Loads, [Next]_vars
  PROVE  QueueFollows
<1>0. DimmInv(place, r, m) /\ Wakes /\ DoneTyped
  BY DEF QueueInv, DimmInv, Typed
<1>1. CASE SubmissionFills \/ SubmissionRefills \/ TestStep
  BY <1>1, SubmissionFillsKeeps, SubmissionRefillsKeeps, TestStepKeeps
<1>2. CASE ControllerStep /\ UNCHANGED hostVars
  <2>1. Follows(place) /\ HostKept
    BY <1>0, <1>2, ControllerKeepsInv, ControllerKeepsHost
  <2>2. \A s \in Slot, a \in Addr :
          Idle(place, s) /\ SlotOf(a) = s => mDataBuffer'[a] = mDataBuffer[a]
    BY <1>0, <1>2, IdleDataStays
  <2>3. DOMAIN waiting' = DOMAIN waiting /\ DOMAIN peq' = DOMAIN peq
    BY <2>1 DEF HostKept
  <2>. QED
    BY <1>2, <2>1, <2>2, <2>3, BenchRests
<1>3. UNCHANGED controllerVars => UNCHANGED mDataBuffer
  BY DEF controllerVars, doneVars
<1>4. CASE KernelStep
  <2>1. Delta /\ UNCHANGED controllerVars /\ UNCHANGED hostVars
    BY <1>4 DEF KernelStep
  <2>2. Follows(place)
    BY <1>0, <2>1, DeltaKeepsInv
  <2>3. UNCHANGED <<waiting, peq>>
    BY <2>1 DEF Delta
  <2>. QED
    BY <1>3, <2>1, <2>2, <2>3, BenchRests
<1>5. CASE TimePasses
  <2>1. PICK S \in SUBSET Timers :
          Expire(S) /\ UNCHANGED controllerVars /\ UNCHANGED hostVars
    BY <1>5 DEF TimePasses
  <2>2. Follows(place)
    BY <1>0, <2>1, ExpireKeepsInv
  <2>3. DOMAIN waiting' = DOMAIN waiting /\ DOMAIN peq' = DOMAIN peq
    BY <2>1 DEF Expire
  <2>. QED
    BY <1>3, <2>1, <2>2, <2>3, BenchRests
<1>6. CASE UNCHANGED vars
  <2>1. /\ UNCHANGED <<waiting, runnable, running, pending, peq>> /\ UNCHANGED controllerVars
        /\ UNCHANGED hostVars
    BY <1>6 DEF vars, kernelVars
  <2>2. Wakes'
    BY <1>0, <2>1 DEF Wakes, QueuesTyped, Asleep
  <2>3. Follows(place)
    BY <1>0, <2>1, <2>2, HostAloneKeepsInv
  <2>. QED
    BY <1>3, <2>1, <2>3, BenchRests
<1>. QED
  BY <1>1, <1>2, <1>4, <1>5, <1>6 DEF Next, Running, Ends

\* Somewhere there are places for all code words, at any time.
DimmOfQueue == load \in Loads /\ \E place, r, m : QueueInv(place, r, m)
LEMMA QueueKeepsDimm == Spec => []DimmOfQueue
<1>1. Init => DimmOfQueue
  BY QueueInvInit DEF DimmOfQueue, Init, BenchInit
<1>2. DimmOfQueue /\ [Next]_vars => DimmOfQueue'
  <2>1. [Next]_vars => UNCHANGED load
    BY DEF Next, Running, Ends, vars
  <2>2. DimmOfQueue /\ [Next]_vars => \E place, r, m : QueueInv(place, r, m)'
    BY QueueInvStep DEF DimmOfQueue, QueueFollows
  <2>. QED
    BY <2>1, <2>2 DEF DimmOfQueue
<1>. QED
  BY <1>1, <1>2, PTL DEF Spec

\* A code word is in one place, whatever the order the processes run in.
THEOREM QueueOneHome == Spec => []OneHome
<1>1. DimmOfQueue => OneHome
  BY InvGivesOneHome DEF DimmOfQueue, QueueInv
<1>. QED
  BY <1>1, QueueKeepsDimm, PTL

\* The bank lists end, hold code words of their bank and channel, and head and
\* tail are Nil together.
THEOREM QueueLists == Spec => []ListsWellFormed
<1>1. DimmOfQueue => ListsWellFormed
  BY InvGivesLists DEF DimmOfQueue, QueueInv
<1>. QED
  BY <1>1, QueueKeepsDimm, PTL

\* The countdown of a slot agrees with the code words that are on their way.
THEOREM QueueCountdown == Spec => []CountdownExact
<1>1. DimmOfQueue => CountdownExact
  BY InvGivesCountdown DEF DimmOfQueue, QueueInv
<1>. QED
  BY <1>1, QueueKeepsDimm, PTL

\* A slot is reported when no code word of it is left, and only once.
THEOREM QueueCompletions == Spec => []CompletedSlotsAreIdle
<1>1. DimmOfQueue => CompletedSlotsAreIdle
  BY InvGivesIdle DEF DimmOfQueue, QueueInv
<1>. QED
  BY <1>1, QueueKeepsDimm, PTL

\* The controller implements DimmService for its host: a slot is given a command
\* only when it is idle, the command is worked on and becomes done once, and
\* the slot is idle again only after the host has read that.
THEOREM QueueServes == Spec => ServiceSpec
<1>1. Init => SlotService!Init
  <2>1. ASSUME Init
        PROVE  SlotService!Init
    <3>1. PICK place, r, m : QueueInv(place, r, m)
      BY <2>1, QueueInvInit
    <3>2. slotBusy = {} /\ ControllerInit
      BY <2>1 DEF Init, HostInit
    <3>3. DimmInv(place, r, m) /\ \A s \in Slot : Idle(place, s)
      BY <3>1, <3>2 DEF QueueInv, SlotsHeld
    <3>. QED
      BY <3>2, <3>3, ServiceStarts
  <2>. QED
    BY <2>1
<1>2. DimmOfQueue /\ [Next]_vars => [SlotService!Next]_SlotsSeen
  BY QueueInvStep DEF DimmOfQueue, QueueFollows, Served
<1>. QED
  BY <1>1, <1>2, QueueKeepsDimm, PTL DEF Spec, ServiceSpec, SlotService!Spec

\* The data of a write stays in the buffer until the channel has sent it.
THEOREM QueueBuffers == Spec => []BufferHeld
<1>1. DimmOfQueue => BufferHeld
  BY InvGivesData DEF DimmOfQueue, QueueInv
<1>. QED
  BY <1>1, QueueKeepsDimm, PTL

(***************************************************************************)
(* The two threads wait for each other.                                    *)
(***************************************************************************)
\* Turns of submissionQueueThread that are owed: one if it is awake, one if it
\* was notified and will be.
Owed ==
  (IF Submission \in runnable /\ mCmdCount # 0 THEN 1 ELSE 0)
  + (IF SubEvent \in pending THEN 1 ELSE 0)

\* There is a completed slot for each of them.  A command that was completed
\* when there was nothing left to send does not cause one, and the test case
\* sleeps until the submission queue is filled.
WorkInv ==
  /\ mCmdCount \in Nat /\ cmdIndex \in Nat
  /\ \E S : mSlotIndexQueue \in Seq(S)
  /\ Owed <= Len(mSlotIndexQueue)
  /\ {Submission, Test} \subseteq DOMAIN waiting /\ waiting[Submission] \subseteq {SubEvent}
  /\ {SubEvent, DispatchEvent} \cap DOMAIN peq = {}
  /\ mIsCmdCompleted => ~(cmdIndex < NumCmds * NumSlotReq)
  /\ mCmdCount = 0 =>
       /\ Test \notin runnable /\ waiting[Test] = {DispatchEvent}
       /\ {SubEvent, DispatchEvent} \cap pending = {}

\* The end of the test does not move.
LEMMA EndOfTest ==
  ASSUME load \in Loads
  PROVE  \E n \in Nat : n = NumCmds * NumSlotReq
<1>1. NumCmds \in Nat /\ NumSlotReq \in Nat
  BY BenchAssumption, ControllerAssumption DEF NumSlotReq
<1>2. \A i, j \in Nat : i * j \in Nat
  OBVIOUS
<1>. QED
  BY <1>1, <1>2

\* The start.
LEMMA WorkAtStart ==
  ASSUME Init
  PROVE  WorkInv
<1>1. /\ waiting = [p \in ControllerProcs \cup {Submission, Test} |->
                     IF p = Test THEN {DispatchEvent}
                     ELSE IF p = Submission THEN {} ELSE FirstWait(p)]
      /\ runnable = {Submission} /\ pending = {}
      /\ peq = [q \in Peqs \cup {Test} |-> EmptyPeq]
      /\ mSlotIndexQueue = <<>> /\ mCmdCount = 0 /\ cmdIndex = 0 /\ mIsCmdCompleted = FALSE
  BY Zenon DEF Init, HostInit, BenchInit
<1>2. SubEvent \notin Peqs \cup {Test} /\ DispatchEvent \notin Peqs \cup {Test}
  BY DEF SubEvent, DispatchEvent, Test, Peqs, ControllerProcs, ControllerMethods, DeviceThreads,
         DeviceProcs, Completion
<1>3. Submission # Test
  BY HostThreads
<1>4. Owed = 0 /\ Len(mSlotIndexQueue) = 0 /\ mSlotIndexQueue \in Seq({})
  BY <1>1 DEF Owed
<1>5. /\ {Submission, Test} \subseteq DOMAIN waiting /\ waiting[Submission] = {}
      /\ waiting[Test] = {DispatchEvent}
  BY <1>1, <1>3
<1>. QED
  BY <1>1, <1>2, <1>3, <1>4, <1>5 DEF WorkInv

\* A step of another thread that wakes neither of the two at once.
LEMMA WorkKept ==
  ASSUME WorkInv, load \in Loads, IsFcn(waiting), NEW p, p # Submission, Turn(p), Ran(p, {}),
         \A e \in {SubEvent, DispatchEvent} : e \in pending' => e \in pending,
         DOMAIN peq' = DOMAIN peq,
         UNCHANGED <<load, mCmdCount, mSlotIndexQueue, mIsCmdCompleted>>,
         cmdIndex' \in {cmdIndex, cmdIndex + 1}
  PROVE  WorkInv'
<1>1. PICK n \in Nat : n = NumCmds * NumSlotReq
  BY EndOfTest
<1>2. n = (NumCmds * NumSlotReq)'
  BY <1>1 DEF NumSlotReq
<1>3. /\ runnable' \subseteq runnable /\ DOMAIN waiting' = DOMAIN waiting
      /\ \A q \in DOMAIN waiting \ {p} : waiting'[q] = waiting[q]
  BY DEF Ran, WaitAfter, GoOnAfter, Woken, IsFcn
<1>4. /\ cmdIndex' \in Nat
      /\ mIsCmdCompleted' => ~(cmdIndex' < (NumCmds * NumSlotReq)')
  BY <1>1, <1>2 DEF WorkInv
<1>5. mCmdCount = 0 => p # Test
  BY DEF WorkInv, Turn
<1>6. /\ Submission \in runnable' => Submission \in runnable
      /\ Owed' <= Owed /\ Owed \in Nat /\ Owed' \in Nat
      /\ Owed' <= Len(mSlotIndexQueue')
  <2>1. Submission \in runnable' => Submission \in runnable
    BY <1>3
  <2>2. Owed' <= Owed /\ Owed \in Nat /\ Owed' \in Nat
    BY <2>1 DEF Owed
  <2>3. Len(mSlotIndexQueue) \in Nat
    BY LenProperties DEF WorkInv
  <2>. QED
    BY <2>1, <2>2, <2>3 DEF WorkInv
<1>. QED
  BY <1>3, <1>4, <1>5, <1>6 DEF WorkInv

\* submissionQueueThread fills the queue, or takes a completed slot off.
LEMMA SubmissionKeepsWork ==
  ASSUME WorkInv, load \in Loads, IsFcn(waiting), UNCHANGED load,
         SubmissionFills \/ SubmissionRefills
  PROVE  WorkInv'
<1>1. /\ Turn(Submission) /\ pending' = pending \cup {DispatchEvent}
      /\ waiting' = [waiting EXCEPT ![Submission] = {SubEvent}]
      /\ runnable' = runnable \ {Submission} /\ UNCHANGED peq
      /\ UNCHANGED <<cmdIndex, mIsCmdCompleted>>
  <2>1. Woken({}) = {}
    BY DEF Woken
  <2>2. Turn(Submission) /\ Notify({DispatchEvent}) /\ Wait(Submission, {SubEvent}) /\ UNCHANGED peq
    BY DEF SubmissionFills, SubmissionRefills
  <2>3. UNCHANGED <<cmdIndex, mIsCmdCompleted>>
    BY DEF SubmissionFills, SubmissionRefills, testVars
  <2>. QED
    BY <2>1, <2>2, <2>3 DEF Notify, Wait, WaitAfter
<1>2. /\ {Submission, Test} \subseteq DOMAIN waiting' /\ waiting'[Submission] = {SubEvent}
      /\ {SubEvent, DispatchEvent} \cap DOMAIN peq' = {}
  BY <1>1 DEF WorkInv, IsFcn
<1>3. mIsCmdCompleted' => ~(cmdIndex' < (NumCmds * NumSlotReq)')
  <2>1. (NumCmds * NumSlotReq)' = NumCmds * NumSlotReq
    BY DEF NumSlotReq
  <2>. QED
    BY <1>1, <2>1 DEF WorkInv
<1>4. SubEvent \in pending' => SubEvent \in pending
  BY <1>1 DEF SubEvent, DispatchEvent
<1>5. CASE SubmissionFills
  <2>1. mCmdCount = 0 /\ mCmdCount' = QueueDepth /\ UNCHANGED mSlotIndexQueue
    BY <1>5 DEF SubmissionFills
  <2>2. mCmdCount' \in Nat /\ mCmdCount' # 0
    BY <2>1, BenchAssumption DEF QueueDepth
  <2>3. Owed' = 0
    BY <1>1, <1>4, <2>1 DEF WorkInv, Owed
  <2>4. Len(mSlotIndexQueue') \in Nat
    BY <2>1, LenProperties DEF WorkInv
  <2>. QED
    BY <1>1, <1>2, <1>3, <2>1, <2>2, <2>3, <2>4 DEF WorkInv
<1>6. CASE SubmissionRefills
  <2>1. /\ mCmdCount # 0 /\ mCmdCount' \in {mCmdCount, mCmdCount + 1}
        /\ mSlotIndexQueue # <<>> /\ mSlotIndexQueue' = Tail(mSlotIndexQueue)
    BY <1>6 DEF SubmissionRefills
  <2>2. mCmdCount' \in Nat /\ mCmdCount' # 0
    BY <2>1 DEF WorkInv
  <2>3. PICK S : mSlotIndexQueue \in Seq(S)
    BY DEF WorkInv
  <2>4. mSlotIndexQueue' \in Seq(S) /\ Len(mSlotIndexQueue') = Len(mSlotIndexQueue) - 1
    BY <2>1, <2>3, HeadTailProperties
  <2>5. Owed' = Owed - 1
    BY <1>1, <1>4, <2>1, <2>2 DEF Owed, Turn
  <2>6. Owed \in Nat /\ Len(mSlotIndexQueue) \in Nat
    BY <2>3, LenProperties DEF Owed
  <2>. QED
    BY <1>1, <1>2, <1>3, <2>2, <2>4, <2>5, <2>6 DEF WorkInv
<1>. QED
  BY <1>5, <1>6

\* A slot is freed: the submission thread is asked for a command if one was
\* completed and there are sub-commands left.
LEMMA FreeKeepsWork ==
  ASSUME WorkInv, load \in Loads, IsFcn(waiting), UNCHANGED load, TestFrees
  PROVE  WorkInv'
<1>. PICK finishes \in BOOLEAN : finishes = LastOfCommand(Head(test.batch))
  BY DEF LastOfCommand
<1>. PICK sends \in BOOLEAN : sends = (~test.filling /\ SendsAnother(finishes))
  BY DEF SendsAnother
<1>. PICK E : E = IF (test.filling /\ finishes) \/ sends THEN RefillEvent ELSE {}
  OBVIOUS
<1>1. /\ Turn(Test) /\ Ran(Test, {}) /\ UNCHANGED <<peq, mCmdCount, cmdIndex>>
      /\ pending' = pending \cup E
      /\ ReleaseSlot(Head(test.batch), finishes)
      /\ mIsCmdCompleted' = IF test.filling \/ sends THEN FALSE
                            ELSE mIsCmdCompleted \/ finishes
  BY DEF TestFrees, Ran, Wait, GoOn, Notify
<1>2. mCmdCount # 0
  BY <1>1 DEF WorkInv, Turn
<1>3. /\ runnable' \subseteq runnable /\ DOMAIN waiting' = DOMAIN waiting
      /\ \A q \in DOMAIN waiting \ {Test} : waiting'[q] = waiting[q]
  BY <1>1 DEF Ran, WaitAfter, GoOnAfter, Woken, IsFcn
<1>4. /\ {Submission, Test} \subseteq DOMAIN waiting' /\ waiting'[Submission] \subseteq {SubEvent}
      /\ {SubEvent, DispatchEvent} \cap DOMAIN peq' = {}
  <2>1. waiting'[Submission] = waiting[Submission]
    BY <1>3, HostThreads DEF WorkInv
  <2>. QED
    BY <1>1, <1>3, <2>1 DEF WorkInv
<1>5. /\ mIsCmdCompleted' => ~(cmdIndex' < (NumCmds * NumSlotReq)')
      /\ ~finishes => ~sends
  <2>1. (NumCmds * NumSlotReq)' = NumCmds * NumSlotReq
    BY DEF NumSlotReq
  <2>2. ~finishes => ~sends
    BY DEF WorkInv, SendsAnother
  <2>3. /\ mIsCmdCompleted' /\ ~mIsCmdCompleted => ~sends /\ finishes /\ ~test.filling
        /\ mIsCmdCompleted /\ mIsCmdCompleted' => ~(cmdIndex < NumCmds * NumSlotReq)
    BY <1>1 DEF WorkInv
  <2>. QED
    BY <1>1, <2>1, <2>2, <2>3 DEF SendsAnother
<1>6. PICK S : mSlotIndexQueue \in Seq(S)
  BY DEF WorkInv
<1>7. Owed \in Nat /\ Owed' \in Nat /\ Len(mSlotIndexQueue) \in Nat /\ Owed <= Len(mSlotIndexQueue)
  <2>1. Owed \in Nat /\ Owed' \in Nat
    BY DEF Owed
  <2>. QED
    BY <2>1, <1>6, LenProperties DEF WorkInv
<1>8. CASE finishes
  <2>. PICK first : first = firstSlotTags[TagOf(Head(test.batch))]
    OBVIOUS
  <2>1. mSlotIndexQueue' = Append(mSlotIndexQueue, first)
    BY <1>1, <1>8 DEF ReleaseSlot
  <2>2. mSlotIndexQueue \in Seq(S \cup {first})
    BY <1>6
  <2>3. /\ mSlotIndexQueue' \in Seq(S \cup {first})
        /\ Len(mSlotIndexQueue') = Len(mSlotIndexQueue) + 1
    BY <2>1, <2>2, AppendProperties
  <2>4. Owed' <= Owed + 1
    BY <1>1, <1>2, <1>3 DEF Owed
  <2>5. Owed' <= Len(mSlotIndexQueue')
    BY <1>7, <2>3, <2>4
  <2>. QED
    BY <1>1, <1>2, <1>4, <1>5, <2>3, <2>5 DEF WorkInv
<1>9. CASE ~finishes
  <2>1. UNCHANGED mSlotIndexQueue /\ E = {}
    BY <1>1, <1>5, <1>9 DEF ReleaseSlot
  <2>2. Owed' <= Owed
    BY <1>1, <1>2, <1>3, <2>1 DEF Owed
  <2>3. Owed' <= Len(mSlotIndexQueue') /\ mSlotIndexQueue' \in Seq(S)
    BY <1>6, <1>7, <2>1, <2>2
  <2>. QED
    BY <1>1, <1>2, <1>4, <1>5, <2>3 DEF WorkInv
<1>. QED
  BY <1>8, <1>9

\* The other steps of testCaseWriteReadThread.
LEMMA TestKeepsWork ==
  ASSUME WorkInv, load \in Loads, IsFcn(waiting), UNCHANGED load, TestStep
  PROVE  WorkInv'
<1>1. Test # Submission /\ \A n : <<"mCmdDispatch", n>> \notin {SubEvent, DispatchEvent}
  BY HostThreads DEF SubEvent, DispatchEvent
<1>2. /\ \A E : Wait(Test, E) => Ran(Test, {})
      /\ GoOn(Test) => Ran(Test, {})
      /\ \A x : Sleep(Test, x) => Ran(Test, {}) /\ DOMAIN peq' = DOMAIN peq
      /\ Transfer(Test) => Ran(Test, {}) /\ DOMAIN peq' = DOMAIN peq
  BY DEF Wait, GoOn, Ran, Transfer, Sleep
<1>3. ASSUME Turn(Test), Ran(Test, {}), DOMAIN peq' = DOMAIN peq,
             \A e \in {SubEvent, DispatchEvent} : e \in pending' => e \in pending,
             UNCHANGED <<mCmdCount, mSlotIndexQueue, mIsCmdCompleted>>,
             cmdIndex' \in {cmdIndex, cmdIndex + 1}
      PROVE  WorkInv'
  BY <1>1, <1>3, WorkKept
<1>4. ASSUME NEW s, NEW id, NEW cmd, NEW lba, sendCommand(s, id, cmd, lba)
      PROVE  \A e \in {SubEvent, DispatchEvent} : e \in pending' => e \in pending
  BY <1>1, <1>4 DEF sendCommand, processPCMDQueue, Notify
<1>5. CASE TestSends
  <2>1. /\ Turn(Test) /\ Transfer(Test) /\ cmdIndex' = cmdIndex + 1
        /\ UNCHANGED <<mCmdCount, mSlotIndexQueue, mIsCmdCompleted>>
    BY <1>5 DEF TestSends
  <2>2. UNCHANGED pending \/ \E s : sendCommand(s, cmdIndex + 1, Sending.d, SubLba)
    BY <1>5 DEF TestSends, sendData
  <2>3. \A e \in {SubEvent, DispatchEvent} : e \in pending' => e \in pending
    BY <1>4, <2>2
  <2>. QED
    BY <1>2, <1>3, <2>1, <2>3
<1>6. CASE TestSendsCommand
  <2>1. /\ Turn(Test) /\ Transfer(Test) /\ UNCHANGED cmdIndex
        /\ UNCHANGED <<mCmdCount, mSlotIndexQueue, mIsCmdCompleted>>
        /\ sendCommand(test.slot, cmdIndex, Sending.d, SubLba)
    BY <1>6 DEF TestSendsCommand, submissionVars
  <2>. QED
    BY <1>2, <1>3, <1>4, <2>1
<1>7. ASSUME NEW t, Turn(Test), TestMoves(t) PROVE WorkInv'
  BY <1>2, <1>3, <1>7 DEF TestMoves, submissionVars
<1>8. CASE TestSent
  BY <1>7, <1>8 DEF TestSent
<1>9. CASE TestOutOfSlots
  BY <1>7, <1>9 DEF TestOutOfSlots
<1>10. CASE TestFilled
  BY <1>7, <1>10 DEF TestFilled
<1>11. CASE TestStops
  BY <1>2, <1>3, <1>11 DEF TestStops, submissionVars
<1>12. CASE TestPolls
  BY <1>2, <1>3, <1>12 DEF TestPolls, submissionVars
<1>13. CASE TestLoadsData
  BY <1>2, <1>3, <1>13 DEF TestLoadsData, submissionVars
<1>14. CASE TestFrees
  BY <1>14, FreeKeepsWork
<1>15. CASE TestChooses
  BY <1>7, <1>15 DEF TestChooses
<1>16. CASE TestBatchDone
  BY <1>7, <1>16 DEF TestBatchDone
<1>. QED
  BY <1>5, <1>6, <1>8, <1>9, <1>10, <1>11, <1>12, <1>13, <1>14, <1>15, <1>16 DEF TestStep

\* The kernel: only its own event wakes submissionQueueThread, and it is taken off.
LEMMA KernelKeepsWork ==
  ASSUME WorkInv, UNCHANGED <<load, mCmdCount, mSlotIndexQueue, mIsCmdCompleted, cmdIndex>>,
         UNCHANGED waiting, runnable = {}, DOMAIN peq' = DOMAIN peq,
         \/ runnable' = Woken(pending) /\ pending' = {}
         \/ pending = {} /\ pending' = {} /\ \E S \in SUBSET (DOMAIN peq) : runnable' = Woken(S)
  PROVE  WorkInv'
<1>1. /\ Submission \in runnable' => SubEvent \in pending
      /\ mCmdCount = 0 => Test \notin runnable'
      /\ SubEvent \notin pending' /\ DispatchEvent \notin pending'
  BY DEF WorkInv, Woken
<1>2. (NumCmds * NumSlotReq)' = NumCmds * NumSlotReq
  BY DEF NumSlotReq
<1>3. Owed' <= Owed /\ Owed \in Nat /\ Owed' \in Nat
  BY <1>1 DEF Owed
<1>4. Len(mSlotIndexQueue) \in Nat
  BY LenProperties DEF WorkInv
<1>. QED
  BY <1>1, <1>2, <1>3, <1>4 DEF WorkInv

\* Every step of the system.
LEMMA WorkStep ==
  ASSUME DimmOfQueue, WorkInv, [Next]_vars
  PROVE  WorkInv'
<1>. USE DEF hostVars, submissionVars, testVars
<1>0. /\ IsFcn(waiting) /\ load \in Loads /\ UNCHANGED load
      /\ Wakes /\ DoneTyped
  <2>1. UNCHANGED load
    BY DEF Next, Running, Ends, vars
  <2>. QED
    BY <2>1 DEF DimmOfQueue, QueueInv, DimmInv, Typed, Wakes
<1>1. CASE SubmissionFills \/ SubmissionRefills
  BY <1>0, <1>1, SubmissionKeepsWork
<1>2. CASE TestStep
  BY <1>0, <1>2, TestKeepsWork
<1>3. CASE ControllerStep /\ UNCHANGED hostVars
  <2>1. PICK p : p[1] \notin HostNames /\ Runs(p)
    BY <1>3, ControllerRuns
  <2>2. HostKept
    <3>1. PICK place, r, m : QueueInv(place, r, m)
      BY DEF DimmOfQueue
    <3>2. DimmInv(place, r, m)
      BY <3>1 DEF QueueInv
    <3>. QED
      BY <1>0, <1>3, <3>2, ControllerKeepsHost
  <2>3. \A e \in {SubEvent, DispatchEvent} : e \in pending' => e \in pending
    BY <2>1 DEF Runs, HostEvents, SubEvent, DispatchEvent
  <2>4. p # Submission
    BY <2>1, HostThreads
  <2>. QED
    BY <1>0, <1>3, <2>1, <2>2, <2>3, <2>4, WorkKept DEF Runs, HostKept
<1>4. CASE KernelStep
  BY <1>0, <1>4, KernelKeepsWork DEF KernelStep, Delta
<1>5. CASE TimePasses
  <2>1. PICK S \in SUBSET Timers : Expire(S) /\ UNCHANGED hostVars
    BY <1>5 DEF TimePasses
  <2>2. S \in SUBSET (DOMAIN peq)
    BY <2>1 DEF Timers
  <2>3. DOMAIN peq' = DOMAIN peq
    BY <2>1 DEF Expire
  <2>. QED
    BY <1>0, <2>1, <2>2, <2>3, KernelKeepsWork DEF Expire
<1>6. CASE UNCHANGED vars
  <2>1. UNCHANGED <<waiting, runnable, pending, peq>> /\ UNCHANGED hostVars
    BY <1>6 DEF vars, kernelVars
  <2>. QED
    BY <1>0, <2>1 DEF WorkInv, Owed, NumSlotReq
<1>. QED
  BY <1>1, <1>2, <1>3, <1>4, <1>5, <1>6 DEF Next, Running, Ends

\* submissionQueueThread is never woken with commands left and no completed slot
\* to refill: it would spin for ever.
THEOREM QueueHasWork == Spec => []SubmissionHasWork
<1>1. Init => WorkInv
  BY WorkAtStart
<1>2. DimmOfQueue /\ WorkInv /\ [Next]_vars => WorkInv'
  BY WorkStep
<1>3. WorkInv => SubmissionHasWork
  <2>1. ASSUME WorkInv, Submission \in runnable, 0 < mCmdCount
        PROVE  mSlotIndexQueue # <<>>
    <3>1. 1 <= Owed /\ Owed \in Nat
      BY <2>1 DEF Owed
    <3>2. Len(mSlotIndexQueue) \in Nat
      BY <2>1, LenProperties DEF WorkInv
    <3>3. 1 <= Len(mSlotIndexQueue)
      BY <2>1, <3>1, <3>2 DEF WorkInv
    <3>. QED
      BY <3>3
  <2>. QED
    BY <2>1 DEF SubmissionHasWork
<1>. QED
  BY <1>1, <1>2, <1>3, QueueKeepsDimm, PTL DEF Spec

(***************************************************************************)
(* The latches of the banks, when the generator makes writes only.         *)
(***************************************************************************)
\* Every entry is one of the kinds of the load.
KindsInv == \A i \in DOMAIN mSubQueue : mSubQueue[i].d \in load.kinds

QueueLatchInv ==
  /\ KindsInv
  /\ load.kinds = {"WRITE"} => WritesOnly /\ LatchInv

\* An entry changes, its kind does not.
LEMMA KindStays ==
  ASSUME NEW q, IsSubQueue(q), NEW e, NEW x, NEW K, \A i \in DOMAIN q : q[i].d \in K,
         e \in DOMAIN q => IsEntry(x) /\ x.d \in K
  PROVE  \A i \in DOMAIN [q EXCEPT ![e] = x] : [q EXCEPT ![e] = x][i].d \in K
<1>. PICK w : w = [q EXCEPT ![e] = x]
  OBVIOUS
<1>1. /\ DOMAIN w = DOMAIN q /\ e \in DOMAIN q => w[e] = x
      /\ \A j \in DOMAIN q \ {e} : w[j] = q[j]
  BY EntryChanges
<1>. QED
  BY <1>1

\* The entry notes its first slot.
LEMMA SlotNoted ==
  ASSUME NEW e, IsEntry(e), NEW s
  PROVE  IsEntry([e EXCEPT !.slotNum = s]) /\ [e EXCEPT !.slotNum = s].d = e.d
<1>. PICK y : y = [e EXCEPT !["slotNum"] = s]
  OBVIOUS
<1>1. IsFcn(e) /\ EntryFields \subseteq DOMAIN e
  BY DEF IsEntry
<1>2. IsFcn(y) /\ DOMAIN y = DOMAIN e /\ \A g \in DOMAIN e \ {"slotNum"} : y[g] = e[g]
  BY <1>1, FieldSet
<1>3. y["d"] = e["d"] /\ y["lba"] = e["lba"]
  BY <1>1, <1>2 DEF EntryFields
<1>. QED
  BY <1>1, <1>2, <1>3 DEF IsEntry

\* The bench fills its queue with entries of the load, and they keep their kind.
LEMMA KindsKept ==
  ASSUME KindsInv, EntriesFit, load \in Loads, UNCHANGED load,
         SubmissionFills \/ SubmissionRefills \/ TestStep
  PROVE  KindsInv'
<1>. PICK q, K : q = mSubQueue /\ K = load.kinds
  OBVIOUS
<1>1. /\ IsSubQueue(q) /\ \A i \in DOMAIN q : q[i].d \in K
      /\ K \subseteq {"READ", "WRITE"} /\ Lbas \subseteq Nat
  BY BenchAssumption DEF KindsInv, EntriesFit
<1>2. ASSUME NEW e, NEW x, e \in DOMAIN q => IsEntry(x) /\ x.d \in K,
             mSubQueue' = [q EXCEPT ![e] = x]
      PROVE  KindsInv'
  BY <1>1, <1>2, KindStays DEF KindsInv
<1>3. CASE SubmissionFills
  <2>1. PICK k \in [1 .. QueueDepth -> load.kinds], l \in [1 .. QueueDepth -> Lbas] :
          mSubQueue' = [i \in 1 .. QueueDepth |-> NewEntry(i, k[i], l[i])]
    BY <1>3 DEF SubmissionFills
  <2>2. \A i \in 1 .. QueueDepth : NewEntry(i, k[i], l[i]).d \in load.kinds
    BY DEF NewEntry
  <2>. QED
    BY <2>1, <2>2 DEF KindsInv
<1>4. CASE SubmissionRefills /\ mSubQueue' # mSubQueue
  <2>. PICK e : e = Least(DoneEntries(Head(mSlotIndexQueue)))
    OBVIOUS
  <2>1. PICK k \in K, l \in Lbas :
          mSubQueue' = [mSubQueue EXCEPT ![e] =
            [NewEntry(mCmdCount + 1, k, l) EXCEPT !.slotNum = Head(mSlotIndexQueue)]]
    BY <1>4 DEF SubmissionRefills
  <2>. PICK n, x : /\ n = NewEntry(mCmdCount + 1, k, l)
                   /\ x = [n EXCEPT !.slotNum = Head(mSlotIndexQueue)]
    OBVIOUS
  <2>2. IsEntry(n) /\ n.d = k
    BY <1>1, NewEntryIs DEF NewEntry
  <2>3. IsEntry(x) /\ x.d = k
    BY <2>2, EntryFieldChanges DEF EntryFields
  <2>4. mSubQueue' = [q EXCEPT ![e] = x]
    BY <2>1
  <2>. QED
    BY <1>2, <2>3, <2>4
<1>5. CASE TestSends /\ mSubQueue' # mSubQueue
  <2>. PICK e, s : e = test.entry /\ s = Least(FreeSlots)
    OBVIOUS
  <2>. PICK x : x = [q[e] EXCEPT !.isDispatched = TRUE]
    OBVIOUS
  <2>. PICK y : y = [x EXCEPT !.slotNum = s]
    OBVIOUS
  <2>1. mSubQueue' = [mSubQueue EXCEPT ![e].isDispatched = TRUE, ![e].slotNum = s]
    BY <1>5 DEF TestSends
  <2>2. mSubQueue' = [q EXCEPT ![e] = y]
    <3>1. IsFcn(q)
      BY <1>1 DEF IsSubQueue, IsFcn
    <3>2. mSubQueue' = [q EXCEPT ![e].isDispatched = TRUE, ![e].slotNum = s]
      BY <2>1
    <3>. QED
      BY <3>1, <3>2 DEF IsFcn
  <2>3. ASSUME e \in DOMAIN q PROVE IsEntry(y) /\ y.d \in K
    <3>1. IsEntry(q[e]) /\ q[e].d \in K
      BY <1>1, <2>3 DEF IsSubQueue
    <3>2. IsEntry(x) /\ x.d \in K
      BY <3>1, EntryFieldChanges DEF EntryFields
    <3>. QED
      BY <3>2, SlotNoted
  <2>. QED
    BY <1>2, <2>2, <2>3
<1>6. CASE TestFrees /\ mSubQueue' # mSubQueue
  <2>1. PICK i : mSubQueue' = [mSubQueue EXCEPT ![i].isCmdDone = TRUE]
    BY <1>6, Zenon DEF TestFrees, ReleaseSlot
  <2>. PICK x : x = [q[i] EXCEPT !.isCmdDone = TRUE]
    OBVIOUS
  <2>2. mSubQueue' = [q EXCEPT ![i] = x]
    BY <2>1
  <2>3. ASSUME i \in DOMAIN q PROVE IsEntry(x) /\ x.d \in K
    <3>1. IsEntry(q[i]) /\ q[i].d \in K
      BY <1>1, <2>3 DEF IsSubQueue
    <3>. QED
      BY <3>1, EntryFieldChanges DEF EntryFields
  <2>. QED
    BY <1>2, <2>2, <2>3
<1>7. CASE mSubQueue' = mSubQueue
  BY <1>7 DEF KindsInv
<1>8. \/ SubmissionFills \/ SubmissionRefills \/ TestSends \/ TestFrees
      \/ mSubQueue' = mSubQueue
  <2>1. (\E t : TestMoves(t)) => mSubQueue' = mSubQueue
    BY DEF TestMoves, submissionVars
  <2>2. TestSent \/ TestOutOfSlots \/ TestFilled \/ TestChooses \/ TestBatchDone
        => \E t : TestMoves(t)
    BY DEF TestSent, TestOutOfSlots, TestFilled, TestChooses, TestBatchDone
  <2>3. TestSendsCommand \/ TestStops \/ TestPolls \/ TestLoadsData => mSubQueue' = mSubQueue
    BY DEF TestSendsCommand, TestStops, TestPolls, TestLoadsData, submissionVars
  <2>. QED
    BY <2>1, <2>2, <2>3 DEF TestStep
<1>. QED
  BY <1>3, <1>4, <1>5, <1>6, <1>7, <1>8

\* A step of the bench that sends no command does not touch the latches.
LEMMA BenchLeavesLatches ==
  ASSUME LatchInv, WritesOnly, \A q \in Peqs : peq'[q] = peq[q],
         UNCHANGED <<bankVars, dispatch, mAlcq, manager, statusVars>>
  PROVE  WritesOnly' /\ LatchInv'
<1>1. ASSUME NEW c \in Chan PROVE Programmed(c)' = Programmed(c)
  <2>1. peq'[PendingW(c)] = peq[PendingW(c)]
    BY Names
  <2>. QED
    BY <2>1, TimedSame DEF Programmed
<1>2. UNCHANGED <<mCmdQueue, mSlotTable, dispatch, mAlcq, manager, statusVars>>
  BY DEF bankVars
<1>. QED
  BY <1>1, <1>2, LatchesSame

\* The command of a write follows its data.
LEMMA WriteSentKeepsLatches ==
  ASSUME NEW place, NEW r, NEW m, QueueInv(place, r, m), KindsInv, load.kinds = {"WRITE"},
         WritesOnly, LatchInv, TestSendsCommand
  PROVE  WritesOnly' /\ LatchInv'
<1>0. /\ \A q \in Peqs : peq'[q] = peq[q]
      /\ DimmInv(place, r, m) /\ SlotsHeld(place) /\ EntriesFit
  BY HostLeavesKernel DEF TestStep
<1>. PICK s : s = test.slot
  OBVIOUS
<1>1. /\ test.at = "command" /\ sendCommand(s, cmdIndex, Sending.d, SubLba)
      /\ UNCHANGED <<dispatch, mAscq, mAlcq, mAvailableCredit, manager, statusVars, doneVars>>
  BY DEF TestSendsCommand, sendCommand, doneVars
<1>2. s \in Slot /\ Idle(place, s)
  BY <1>0, <1>1 DEF SlotsHeld
<1>3. test.entry \in DOMAIN mSubQueue /\ SubLba \in Nat
  BY <1>0, <1>1, SendingIs
<1>4. Sending.d = "WRITE"
  BY <1>3 DEF KindsInv, Sending
<1>. PICK l, id : l = SubLba /\ id = cmdIndex
  OBVIOUS
<1>5. processPCMDQueue(s, id, "WRITE", l, Cws) /\ Cws \in 1 .. SlotCws
  BY <1>1, <1>4, BenchAssumption DEF sendCommand
<1>. QED
  BY <1>0, <1>1, <1>2, <1>3, <1>5, CommandKeepsLatches

\* Every step of the bench.
LEMMA TestKeepsLatches ==
  ASSUME NEW place, NEW r, NEW m, QueueInv(place, r, m), KindsInv, load.kinds = {"WRITE"},
         WritesOnly, LatchInv, SubmissionFills \/ SubmissionRefills \/ TestStep
  PROVE  WritesOnly' /\ LatchInv'
<1>0. (\A q \in Peqs : peq'[q] = peq[q]) /\ EntriesFit
  BY HostLeavesKernel
<1>1. ASSUME UNCHANGED <<bankVars, dispatch, mAlcq, manager, statusVars>>
      PROVE  WritesOnly' /\ LatchInv'
  BY <1>0, <1>1, BenchLeavesLatches
<1>2. CASE UNCHANGED controllerVars
  BY <1>1, <1>2 DEF controllerVars
<1>3. CASE TestSends
  <2>1. test.entry \in DOMAIN mSubQueue
    BY <1>0, <1>3, SendingIs DEF TestSends
  <2>2. Sending.d = "WRITE"
    BY <2>1 DEF KindsInv, Sending
  <2>3. UNCHANGED bankVars
    BY <1>3, <2>2 DEF TestSends, sendData
  <2>4. UNCHANGED <<dispatch, mAlcq, manager, statusVars>>
    BY <1>3 DEF TestSends
  <2>. QED
    BY <1>1, <2>3, <2>4
<1>4. CASE TestSendsCommand
  BY <1>4, WriteSentKeepsLatches
<1>5. CASE TestPolls
  BY <1>1, <1>5 DEF TestPolls
<1>6. \/ TestSends \/ TestSendsCommand \/ TestPolls
      \/ UNCHANGED controllerVars
  <2>1. (\E t : TestMoves(t)) => UNCHANGED controllerVars
    BY DEF TestMoves
  <2>2. TestSent \/ TestOutOfSlots \/ TestFilled \/ TestChooses \/ TestBatchDone
        => \E t : TestMoves(t)
    BY DEF TestSent, TestOutOfSlots, TestFilled, TestChooses, TestBatchDone
  <2>3. TestStops \/ TestLoadsData \/ TestFrees \/ SubmissionFills \/ SubmissionRefills
        => UNCHANGED controllerVars
    BY DEF TestStops, TestLoadsData, TestFrees, SubmissionFills, SubmissionRefills
  <2>. QED
    BY <2>1, <2>2, <2>3 DEF TestStep
<1>. QED
  BY <1>2, <1>3, <1>4, <1>5, <1>6

\* Every step of the system.
LEMMA QueueLatchStep ==
  ASSUME DimmOfQueue, QueueLatchInv, [Next]_vars
  PROVE  QueueLatchInv'
<1>0. UNCHANGED load /\ load \in Loads
  BY DEF Next, Running, Ends, vars, DimmOfQueue
<1>. PICK place, r, m : QueueInv(place, r, m)
  BY DEF DimmOfQueue
<1>1. DimmInv(place, r, m) /\ EntriesFit
  BY DEF QueueInv
<1>2. CASE SubmissionFills \/ SubmissionRefills \/ TestStep
  <2>1. KindsInv'
    BY <1>0, <1>1, <1>2, KindsKept DEF QueueLatchInv
  <2>2. load.kinds = {"WRITE"} => WritesOnly' /\ LatchInv'
    BY <1>2, TestKeepsLatches DEF QueueLatchInv
  <2>. QED
    BY <1>0, <2>1, <2>2 DEF QueueLatchInv
<1>3. ASSUME UNCHANGED mSubQueue PROVE KindsInv'
  BY <1>0, <1>3 DEF QueueLatchInv, KindsInv
<1>4. UNCHANGED hostVars => UNCHANGED mSubQueue
  BY DEF hostVars, submissionVars
<1>5. CASE ControllerStep /\ UNCHANGED hostVars
  <2>1. load.kinds = {"WRITE"} => WritesOnly' /\ LatchInv'
    BY <1>1, <1>5, ControllerKeepsLatches DEF QueueLatchInv
  <2>. QED
    BY <1>0, <1>3, <1>4, <1>5, <2>1 DEF QueueLatchInv
<1>6. CASE KernelStep \/ TimePasses
  <2>1. /\ UNCHANGED controllerVars /\ UNCHANGED hostVars
        /\ Delta \/ \E S \in SUBSET Timers : Expire(S)
    BY <1>6 DEF KernelStep, TimePasses
  <2>2. load.kinds = {"WRITE"} => WritesOnly' /\ LatchInv'
    BY <1>1, <2>1, KernelKeepsLatches DEF QueueLatchInv
  <2>. QED
    BY <1>0, <1>3, <1>4, <2>1, <2>2 DEF QueueLatchInv
<1>7. CASE UNCHANGED vars
  <2>1. /\ UNCHANGED peq /\ UNCHANGED hostVars
        /\ UNCHANGED <<bankVars, dispatch, mAlcq, manager, statusVars>>
    BY <1>7 DEF vars, kernelVars, controllerVars
  <2>2. load.kinds = {"WRITE"} => WritesOnly' /\ LatchInv'
    BY <2>1, BenchLeavesLatches DEF QueueLatchInv
  <2>. QED
    BY <1>0, <1>3, <1>4, <2>1, <2>2 DEF QueueLatchInv
<1>. QED
  BY <1>2, <1>5, <1>6, <1>7 DEF Next, Running, Ends

\* With writes only a bank's first latch is busy exactly for the one code word
\* that is programmed, and its second for the one that was dispatched after it.
THEOREM QueueLatches == Spec => []LatchesOwned
<1>1. Init => QueueLatchInv
  <2>1. ASSUME Init PROVE QueueLatchInv
    <3>1. /\ peq = [q \in Peqs \cup {Test} |-> EmptyPeq] /\ ControllerInit /\ mSubQueue = <<>>
      BY <2>1, Zenon DEF Init, HostInit
    <3>2. \A c \in Chan : peq[PendingW(c)] = EmptyPeq
      BY <3>1, Names
    <3>3. WritesOnly /\ LatchInv
      BY <3>1, <3>2, LatchesAtStart
    <3>. QED
      BY <3>1, <3>3 DEF QueueLatchInv, KindsInv
  <2>. QED
    BY <2>1
<1>2. DimmOfQueue /\ QueueLatchInv /\ [Next]_vars => QueueLatchInv'
  BY QueueLatchStep
<1>3. DimmOfQueue /\ QueueLatchInv => LatchesOwned
  BY InvGivesLatches DEF DimmOfQueue, QueueInv, QueueLatchInv, LatchesOwned
<1>. QED
  BY <1>1, <1>2, <1>3, QueueKeepsDimm, PTL DEF Spec

(***************************************************************************)
(* A slot for each sub-command.                                            *)
(***************************************************************************)
\* The slots are enough for what the submission queue can ask for, or a command
\* needs only the one that the completion before it gave back.  (Otherwise the
\* thread may run out of slots in the middle of a command.)
SlotsSuffice == \A l \in Loads : l.req = 1 \/ l.depth * l.req <= NumSlots

Room == QueueDepth * NumSlotReq <= NumSlots

\* Every slot in use is one sub-command, n[s], of the open entry e[s], which has
\* a tag of its own, g[s].
IsOpen(i) == mSubQueue[i].isDispatched /\ ~mSubQueue[i].isCmdDone
IsNew(i) == ~mSubQueue[i].isDispatched /\ ~mSubQueue[i].isCmdDone
Req == 0 .. NumSlotReq - 1

SlotUse(e, n, g) ==
  /\ e \in [slotBusy -> DOMAIN mSubQueue] /\ n \in [slotBusy -> Req] /\ g \in [slotBusy -> Tag]
  /\ \A s, x \in slotBusy : e[s] = e[x] /\ n[s] = n[x] => s = x
  /\ \A s, x \in slotBusy : e[s] = e[x] <=> g[s] = g[x]
  /\ \A s \in slotBusy : IsOpen(e[s]) /\ mSubQueue[e[s]].slotNum = firstSlotTags[g[s]]

TagUse(g) ==
  /\ queueSlots \in [Tag -> SUBSET Slot]
  /\ \A t \in Tag : queueSlots[t] = {s \in slotBusy : g[s] = t}
  /\ slotTags = {t \in Tag : queueSlots[t] # {}}
  /\ IsFcn(firstSlotTags) /\ Tag \subseteq DOMAIN firstSlotTags

\* k sub-commands of the entry the thread sends have a slot.
Partial(e, n, g, k) ==
  /\ IsOpen(test.entry)
  /\ \E s \in slotBusy : e[s] = test.entry /\ g[s] = test.tag
  /\ \A s \in slotBusy : e[s] = test.entry => n[s] < k

Sends == test.at \in {"send", "command", "sent"}
InTurn(e, n, g) ==
  /\ "tag" \in DOMAIN test /\ DOMAIN mSubQueue \subseteq 1 .. QueueDepth
  /\ test.req \in Req
  /\ ~Sends => ~test.filling /\ test.req = 0
  /\ test.filling => \A i \in DOMAIN mSubQueue : /\ ~mSubQueue[i].isCmdDone
                                                 /\ i > test.entry => IsNew(i)
  /\ mCmdCount = 0 =>
       test.at = "send" /\ test.filling /\ test.entry = 1 /\ test.req = 0
  /\ test.at = "send" /\ test.req = 0 /\ ~Filled => IsNew(test.entry)
  /\ test.at = "send" /\ test.req # 0 => Partial(e, n, g, test.req)
  /\ test.at \in {"command", "sent"} => Partial(e, n, g, test.req + 1)

RoomInv == \E e, n, g : SlotUse(e, n, g) /\ TagUse(g) /\ InTurn(e, n, g)

\* The sizes as numbers.
LEMMA Sizes ==
  ASSUME load \in Loads
  PROVE  /\ \E d, k \in Nat : /\ d = QueueDepth /\ k = NumSlotReq /\ k # 0
                              /\ d * k = QueueDepth * NumSlotReq
         /\ 0 \in Req /\ Req \subseteq Nat
<1>1. PICK d, k \in Nat : d = load.depth /\ k = load.req /\ k # 0
  BY BenchAssumption
<1>2. d * k = QueueDepth * NumSlotReq
  BY <1>1 DEF QueueDepth, NumSlotReq
<1>3. 0 \in Req /\ Req \subseteq Nat
  BY <1>1 DEF Req, NumSlotReq
<1>. QED
  BY <1>1, <1>2, <1>3 DEF QueueDepth, NumSlotReq

LEMMA PairsOf ==
  ASSUME NEW d \in Nat, NEW k \in Nat
  PROVE  \E w \in Nat : /\ w = d * k
                        /\ IsFiniteSet((1 .. d) \X (0 .. k - 1))
                        /\ Cardinality((1 .. d) \X (0 .. k - 1)) = w
<1>. PICK D, R : D = 1 .. d /\ R = 0 .. k - 1
  OBVIOUS
<1>1. IsFiniteSet(D) /\ Cardinality(D) = d
  BY FS_Interval
<1>2. IsFiniteSet(R) /\ Cardinality(R) = k
  BY FS_Interval
<1>3. IsFiniteSet(D \X R) /\ Cardinality(D \X R) = Cardinality(D) * Cardinality(R)
  BY <1>1, <1>2, FS_Product
<1>4. d * k \in Nat
  OBVIOUS
<1>. QED
  BY <1>1, <1>2, <1>3, <1>4, Zenon

\* With room, there is a slot for the next sub-command: the one it will take in
\* the numbering of SlotUse is not taken.
LEMMA RoomForNext ==
  ASSUME load \in Loads, Room, RoomInv, slotBusy \subseteq Slot, EntriesFit,
         test.at = "send", ~Filled
  PROVE  FreeSlots # {}
<1>. SUFFICES ASSUME slotBusy = Slot PROVE FALSE
  BY DEF FreeSlots
<1>. PICK e, n, g : SlotUse(e, n, g) /\ TagUse(g) /\ InTurn(e, n, g)
  BY DEF RoomInv
<1>. PICK i, q : i = test.entry /\ q = test.req
  OBVIOUS
<1>1. i \in DOMAIN mSubQueue /\ i \in 1 .. QueueDepth /\ q \in Req
  BY SendingIs DEF InTurn
<1>2. \A s \in Slot : ~(e[s] = i /\ n[s] = q)
  <2>1. CASE q = 0
    BY <2>1 DEF InTurn, SlotUse, IsNew, IsOpen
  <2>2. CASE q # 0
    <3>1. \A s \in Slot : e[s] = i => n[s] < q
      BY <2>2 DEF InTurn, Partial
    <3>2. \A s \in Slot : n[s] \in Nat
      BY Sizes DEF SlotUse
    <3>. QED
      BY <1>1, <3>1, <3>2, Sizes
  <2>. QED
    BY <2>1, <2>2
<1>0. PICK d, k \in Nat : /\ d = QueueDepth /\ k = NumSlotReq /\ k # 0
                          /\ d * k = QueueDepth * NumSlotReq
  BY Sizes
<1>3. PICK w \in Nat : /\ w = d * k
                        /\ IsFiniteSet((1 .. d) \X (0 .. k - 1))
                        /\ Cardinality((1 .. d) \X (0 .. k - 1)) = w
  BY PairsOf, Zenon
<1>. PICK D, R : D = 1 .. d /\ R = 0 .. k - 1
  OBVIOUS
<1>. PICK P, z : P = D \X R /\ z = <<i, q>>
  OBVIOUS
<1>4. IsFiniteSet(P) /\ Cardinality(P) = w
  BY <1>3, Zenon
<1>5. z \in P
  <2>1. i \in D /\ q \in R
    BY <1>0, <1>1 DEF Req
  <2>. QED
    BY <2>1
<1>6. IsFiniteSet(P \ {z}) /\ Cardinality(P \ {z}) = w - 1
  BY <1>4, <1>5, FS_RemoveElement
<1>. PICK f : f = [s \in Slot |-> <<e[s], n[s]>>]
  OBVIOUS
<1>7. \A s \in Slot : e[s] \in D /\ n[s] \in R
  BY <1>0 DEF SlotUse, InTurn, Req
<1>8. f \in [Slot -> P \ {z}]
  BY <1>2, <1>7
<1>9. \A s, x \in Slot : f[s] = f[x] => s = x
  BY DEF SlotUse
<1>10. IsFiniteSet(Slot) /\ Cardinality(Slot) = NumSlots
  BY FS_Interval, ControllerAssumption DEF Slot
<1>11. w <= NumSlots
  BY <1>0, <1>3, Zenon DEF Room
<1>12. Cardinality(P \ {z}) < Cardinality(Slot)
  <2>1. w - 1 < NumSlots
    BY <1>11, ControllerAssumption
  <2>. QED
    BY <1>6, <1>10, <2>1, Zenon
<1>. QED
  BY <1>6, <1>8, <1>9, <1>10, <1>12, FS_PigeonHole

\* The start: no slot is used.
LEMMA RoomAtStart ==
  ASSUME Init
  PROVE  RoomInv
<1>1. /\ mSubQueue = <<>> /\ mCmdCount = 0 /\ slotBusy = {} /\ load \in Loads
      /\ test = [at |-> "send", filling |-> TRUE, entry |-> 1, req |-> 0,
                 tag |-> 0, slot |-> 0, batch |-> <<>>, slotNotFree |-> FALSE]
      /\ queueSlots = [t \in Tag |-> {}] /\ slotTags = {}
      /\ firstSlotTags = [t \in Tag |-> 0]
  BY Zenon DEF Init, HostInit, BenchInit
<1>2. /\ test.at = "send" /\ test.filling /\ test.entry = 1 /\ test.req = 0
      /\ "tag" \in DOMAIN test /\ Filled /\ DOMAIN mSubQueue = {}
  BY <1>1 DEF Filled
<1>3. 0 \in Req
  BY <1>1, Sizes
<1>. PICK f : f = [s \in {} |-> 0]
  OBVIOUS
<1>4. SlotUse(f, f, f)
  BY <1>1 DEF SlotUse
<1>5. TagUse(f)
  BY <1>1 DEF TagUse, IsFcn
<1>6. InTurn(f, f, f)
  BY <1>2, <1>3 DEF InTurn, Sends
<1>. QED
  BY <1>4, <1>5, <1>6 DEF RoomInv

\* A step that leaves slots, tags and queue alone.
LEMMA RoomKept ==
  ASSUME NEW e, NEW n, NEW g, SlotUse(e, n, g), TagUse(g),
         UNCHANGED <<mSubQueue, slotBusy, load>>, UNCHANGED tagVars, InTurn(e, n, g)'
  PROVE  RoomInv'
<1>1. SlotUse(e, n, g)'
  BY DEF SlotUse, IsOpen, Req, NumSlotReq, tagVars
<1>2. TagUse(g)'
  BY DEF TagUse, tagVars
<1>. QED
  BY <1>1, <1>2 DEF RoomInv

LEMMA RoomRests ==
  ASSUME RoomInv, UNCHANGED load, UNCHANGED hostVars
  PROVE  RoomInv'
<1>. PICK e, n, g : SlotUse(e, n, g) /\ TagUse(g) /\ InTurn(e, n, g)
  BY DEF RoomInv
<1>1. UNCHANGED <<mSubQueue, slotBusy, load, mCmdCount, test>> /\ UNCHANGED tagVars
  BY DEF hostVars, submissionVars, slotVars, testVars
<1>2. InTurn(e, n, g)'
  BY <1>1 DEF InTurn, Partial, IsOpen, IsNew, Sends, Filled, Req, NumSlotReq, QueueDepth
<1>. QED
  BY <1>1, <1>2, RoomKept

\* The thread is not sending, before and after.
LEMMA RoomBesides ==
  ASSUME NEW e, NEW n, NEW g, SlotUse(e, n, g), TagUse(g), InTurn(e, n, g),
         UNCHANGED <<mSubQueue, slotBusy, load, mCmdCount>>, UNCHANGED tagVars, mCmdCount # 0,
         ~Sends, ~Sends', ~test'.filling, test'.req = test.req, "tag" \in DOMAIN test'
  PROVE  RoomInv'
<1>1. InTurn(e, n, g)'
  BY DEF InTurn, Sends, Req, NumSlotReq, QueueDepth
<1>. QED
  BY <1>1, RoomKept

\* A local the thread sets keeps its tag.
LEMMA TagKept ==
  ASSUME NEW t, IsFcn(t), "tag" \in DOMAIN t, NEW f, f # "tag", NEW x, NEW u, u = With(t, f, x)
  PROVE  IsFcn(u) /\ "tag" \in DOMAIN u /\ u.tag = t.tag
<1>1. IsFcn(u) /\ DOMAIN u = DOMAIN t /\ \A y \in DOMAIN t \ {f} : u[y] = t[y]
  BY FieldSet DEF With
<1>. QED
  BY <1>1

\* The transfer of a sub-command is over: the entry's next one, the next entry of
\* the first filling, or back to the completions.
LEMMA RoomSent ==
  ASSUME NEW e, NEW n, NEW g, SlotUse(e, n, g), TagUse(g), InTurn(e, n, g),
         UNCHANGED load, load \in Loads, EntriesFit, mCmdCount # 0, TestSent
  PROVE  RoomInv'
<1>0. /\ UNCHANGED <<mSubQueue, slotBusy, mCmdCount>> /\ UNCHANGED tagVars
      /\ test.at = "sent" /\ IsTest(test) /\ IsFcn(test) /\ "tag" \in DOMAIN test
  BY DEF TestSent, TestMoves, submissionVars, slotVars, EntriesFit, IsTest, InTurn
<1>. PICK q, k, i : q = test.req /\ k = NumSlotReq /\ i = test.entry
  OBVIOUS
<1>1. /\ Partial(e, n, g, q + 1) /\ q \in Req /\ q \in Nat /\ k \in Nat /\ 0 \in Req
      /\ \A x \in Nat : x \in Req <=> x < k
  <2>1. q \in Req /\ Partial(e, n, g, q + 1)
    BY <1>0 DEF InTurn
  <2>2. k \in Nat /\ Req \subseteq Nat /\ 0 \in Req
    BY Sizes
  <2>3. \A x \in Nat : x \in Req <=> x < k
    BY <2>2 DEF Req
  <2>. QED
    BY <2>1, <2>2, <2>3
<1>2. Req' = Req /\ QueueDepth' = QueueDepth
  BY DEF Req, NumSlotReq, QueueDepth
<1>3. CASE q + 1 < k
  <2>. PICK y : y = q + 1
    OBVIOUS
  <2>. PICK t1 : t1 = With(test, "at", "send")
    OBVIOUS
  <2>. PICK t2 : t2 = With(t1, "req", y)
    OBVIOUS
  <2>0. y \in Nat /\ y # 0 /\ y \in Req
    BY <1>1, <1>3
  <2>1. test' = t2
    BY <1>3 DEF TestSent, TestMoves, With
  <2>2. IsTest(t1) /\ t1.at = "send" /\ t1.entry = i /\ t1.filling = test.filling
    BY <1>0, AtSet
  <2>3. t2.at = "send" /\ t2.entry = i /\ t2.filling = test.filling /\ t2.req = y
    BY <2>0, <2>2, ReqSet
  <2>4. "tag" \in DOMAIN t2 /\ t2.tag = test.tag
    <3>1. IsFcn(t1) /\ "tag" \in DOMAIN t1 /\ t1.tag = test.tag
      BY <1>0, TagKept
    <3>. QED
      BY <3>1, TagKept
  <2>5. InTurn(e, n, g)'
    <3>1. Partial(e, n, g, y)'
      BY <1>0, <1>1, <2>1, <2>3, <2>4 DEF Partial, IsOpen
    <3>2. test'.filling => test.filling /\ \A x \in DOMAIN mSubQueue' : x > test'.entry => IsNew(x)'
      BY <1>0, <2>1, <2>3 DEF InTurn, IsNew
    <3>3. \A x \in DOMAIN mSubQueue' : test'.filling => ~mSubQueue'[x].isCmdDone
      BY <1>0, <3>2 DEF InTurn
    <3>. QED
      BY <1>0, <1>2, <2>0, <2>1, <2>3, <2>4, <3>1, <3>2, <3>3 DEF InTurn, Sends
  <2>. QED
    BY <1>0, <2>5, RoomKept
<1>4. CASE ~(q + 1 < k) /\ test.filling
  <2>. PICK y : y = test.entry + 1
    OBVIOUS
  <2>. PICK t1 : t1 = With(test, "at", "send")
    OBVIOUS
  <2>. PICK t2 : t2 = With(t1, "req", 0)
    OBVIOUS
  <2>. PICK t3 : t3 = With(t2, "entry", y)
    OBVIOUS
  <2>1. test' = t3
    BY <1>4 DEF TestSent, TestMoves, With
  <2>2. IsTest(t1) /\ t1.at = "send" /\ t1.filling = test.filling
    BY <1>0, AtSet
  <2>0. 0 \in Nat
    OBVIOUS
  <2>3. IsTest(t2) /\ t2.at = "send" /\ t2.filling = test.filling /\ t2.req = 0
    BY <2>0, <2>2, ReqSet
  <2>4. i \in Nat /\ y \in Nat /\ y # 0 /\ y = i + 1
    BY <1>0 DEF IsTest
  <2>5. t3.at = "send" /\ t3.filling = test.filling /\ t3.req = 0 /\ t3.entry = y
    BY <2>3, <2>4, EntrySet
  <2>6. "tag" \in DOMAIN t3
    <3>1. IsFcn(t1) /\ "tag" \in DOMAIN t1
      BY <1>0, TagKept
    <3>2. IsFcn(t2) /\ "tag" \in DOMAIN t2
      BY <3>1, TagKept
    <3>. QED
      BY <3>2, TagKept
  <2>7. \A x \in DOMAIN mSubQueue : ~mSubQueue[x].isCmdDone /\ (x > i => IsNew(x))
    BY <1>4 DEF InTurn
  <2>8. DOMAIN mSubQueue \subseteq Nat
    <3>1. DOMAIN mSubQueue \subseteq 1 .. QueueDepth
      BY DEF InTurn
    <3>. QED
      BY <3>1
  <2>9. ~Filled' => y \in DOMAIN mSubQueue
    <3>. PICK l \in Nat : l = Len(mSubQueue)
      BY LenProperties DEF EntriesFit, IsSubQueue
    <3>1. DOMAIN mSubQueue = 1 .. l
      BY LenProperties DEF EntriesFit, IsSubQueue
    <3>2. test'.filling /\ test'.entry = y /\ Len(mSubQueue') = l
      BY <1>0, <1>4, <2>1, <2>5
    <3>3. ~Filled' => ~(y > l)
      BY <3>2, Zenon DEF Filled
    <3>. QED
      BY <2>4, <3>1, <3>3
  <2>10. InTurn(e, n, g)'
    <3>1. \A x \in DOMAIN mSubQueue' : ~mSubQueue'[x].isCmdDone /\ (x > y => IsNew(x)')
      BY <1>0, <2>4, <2>7, <2>8 DEF IsNew
    <3>2. ~Filled' => IsNew(y)'
      BY <1>0, <2>4, <2>7, <2>9 DEF IsNew
    <3>. QED
      BY <1>0, <1>1, <1>2, <2>1, <2>5, <2>6, <3>1, <3>2 DEF InTurn, Sends
  <2>. QED
    BY <1>0, <2>10, RoomKept
<1>5. CASE ~(q + 1 < k) /\ ~test.filling
  <2>. PICK t1 : t1 = With(test, "at", "batch")
    OBVIOUS
  <2>. PICK t2 : t2 = With(t1, "req", 0)
    OBVIOUS
  <2>. PICK t3 : t3 = With(t2, "entry", 0)
    OBVIOUS
  <2>0. 0 \in Nat
    OBVIOUS
  <2>1. test' = t3
    BY <1>5 DEF TestSent, TestMoves, With
  <2>2. IsTest(t1) /\ t1.at = "batch" /\ t1.filling = test.filling
    BY <1>0, AtSet
  <2>3. IsTest(t2) /\ t2.at = "batch" /\ t2.filling = test.filling /\ t2.req = 0
    BY <2>0, <2>2, ReqSet
  <2>4. t3.at = "batch" /\ t3.filling = test.filling /\ t3.req = 0
    BY <1>5, <2>0, <2>3, EntrySet
  <2>5. "tag" \in DOMAIN t3
    <3>1. IsFcn(t1) /\ "tag" \in DOMAIN t1
      BY <1>0, TagKept
    <3>2. IsFcn(t2) /\ "tag" \in DOMAIN t2
      BY <3>1, TagKept
    <3>. QED
      BY <3>2, TagKept
  <2>6. InTurn(e, n, g)'
    BY <1>0, <1>1, <1>2, <1>5, <2>1, <2>4, <2>5 DEF InTurn, Sends
  <2>. QED
    BY <1>0, <2>6, RoomKept
<1>. QED
  BY <1>3, <1>4, <1>5

\* The queue is filled for the first time.
LEMMA RoomFilled ==
  ASSUME NEW e, NEW n, NEW g, SlotUse(e, n, g), TagUse(g), InTurn(e, n, g),
         UNCHANGED load, EntriesFit, mCmdCount # 0, TestFilled
  PROVE  RoomInv'
<1>0. /\ UNCHANGED <<mSubQueue, slotBusy, mCmdCount>> /\ UNCHANGED tagVars
      /\ test.at = "send" /\ Filled /\ IsTest(test) /\ IsFcn(test) /\ "tag" \in DOMAIN test
  BY DEF TestFilled, TestMoves, submissionVars, slotVars, EntriesFit, IsTest, InTurn
<1>. PICK t1 : t1 = With(test, "at", "poll")
  OBVIOUS
<1>1. PICK x : x = FALSE
  OBVIOUS
<1>. PICK t2 : t2 = With(t1, "filling", x)
  OBVIOUS
<1>. PICK t3 : t3 = With(t2, "entry", 0)
  OBVIOUS
<1>2. test' = t3
  BY <1>1 DEF TestFilled, TestMoves, With
<1>3. ~x /\ 0 \in Nat
  BY <1>1
<1>4. IsTest(t1) /\ t1.at = "poll" /\ t1.req = test.req
  BY <1>0, AtSet
<1>5. IsTest(t2) /\ t2.at = "poll" /\ t2.req = test.req /\ ~t2.filling
  BY <1>3, <1>4, FillingEnds
<1>6. t3.at = "poll" /\ t3.req = test.req /\ ~t3.filling
  BY <1>3, <1>5, EntrySet
<1>7. "tag" \in DOMAIN t3
  <2>1. IsFcn(t1) /\ "tag" \in DOMAIN t1
    BY <1>0, TagKept
  <2>2. IsFcn(t2) /\ "tag" \in DOMAIN t2
    BY <2>1, TagKept
  <2>. QED
    BY <2>2, TagKept
<1>8. test.req = 0
  <2>. SUFFICES ASSUME test.req # 0 PROVE FALSE
    OBVIOUS
  <2>1. PICK s \in slotBusy : e[s] = test.entry
    BY <1>0 DEF InTurn, Partial
  <2>2. test.entry \in DOMAIN mSubQueue
    BY <2>1 DEF SlotUse
  <2>3. PICK l, i : l = Len(mSubQueue) /\ i = test.entry
    OBVIOUS
  <2>4. l \in Nat /\ DOMAIN mSubQueue = 1 .. l
    BY <2>3, LenProperties DEF EntriesFit, IsSubQueue
  <2>5. i > l
    BY <1>0, <2>3 DEF Filled
  <2>. QED
    BY <2>2, <2>3, <2>4, <2>5
<1>9. InTurn(e, n, g)'
  BY <1>0, <1>2, <1>6, <1>7, <1>8 DEF InTurn, Sends, Req, NumSlotReq, QueueDepth
<1>. QED
  BY <1>0, <1>9, RoomKept

\* The thread chooses an entry that was not sent.
LEMMA RoomChooses ==
  ASSUME NEW e, NEW n, NEW g, SlotUse(e, n, g), TagUse(g), InTurn(e, n, g),
         UNCHANGED load, EntriesFit, mCmdCount # 0, TestChooses
  PROVE  RoomInv'
<1>0. /\ UNCHANGED <<mSubQueue, slotBusy, mCmdCount>> /\ UNCHANGED tagVars
      /\ test.at = "choose" /\ IsTest(test) /\ IsFcn(test) /\ "tag" \in DOMAIN test
  BY DEF TestChooses, TestMoves, submissionVars, slotVars, EntriesFit, IsTest, InTurn
<1>1. ~Sends /\ ~test.filling /\ test.req = 0
  BY <1>0 DEF InTurn, Sends
<1>. PICK W : W = {i \in DOMAIN mSubQueue : ~mSubQueue[i].isDispatched /\ ~mSubQueue[i].isCmdDone}
  OBVIOUS
<1>2. CASE W = {} \/ test.slotNotFree
  <2>. PICK t1 : t1 = With(test, "at", "batch")
    OBVIOUS
  <2>1. test' = t1
    BY <1>2 DEF TestChooses, TestMoves, With
  <2>2. t1.at = "batch" /\ t1.filling = test.filling /\ t1.req = test.req
    BY <1>0, AtSet
  <2>3. "tag" \in DOMAIN t1
    BY <1>0, TagKept
  <2>4. ~Sends'
    BY <2>1, <2>2 DEF Sends
  <2>. QED
    BY <1>0, <1>1, <2>1, <2>2, <2>3, <2>4, RoomBesides
<1>3. CASE ~(W = {} \/ test.slotNotFree)
  <2>1. Least(W) \in W /\ Least(W) \in Nat
    <3>1. W # {} /\ W \in SUBSET Nat
      BY <1>3, LenProperties DEF EntriesFit, IsSubQueue
    <3>2. \E x \in W : \A y \in W : x <= y
      BY <3>1, LeastExists
    <3>3. Least(W) \in W
      BY <3>2 DEF Least
    <3>. QED
      BY <3>1, <3>3
  <2>. PICK i : i = Least(W)
    OBVIOUS
  <2>. PICK t1 : t1 = With(test, "at", "send")
    OBVIOUS
  <2>. PICK t2 : t2 = With(t1, "entry", i)
    OBVIOUS
  <2>2. test' = t2
    BY <1>3 DEF TestChooses, TestMoves, With
  <2>3. IsTest(t1) /\ t1.at = "send" /\ t1.filling = test.filling /\ t1.req = test.req
    BY <1>0, AtSet
  <2>4. i \in Nat /\ ~t1.filling
    BY <1>1, <2>1, <2>3
  <2>5. t2.at = "send" /\ ~t2.filling /\ t2.req = test.req /\ t2.entry = i
    BY <2>3, <2>4, EntrySet
  <2>6. "tag" \in DOMAIN t2
    <3>1. IsFcn(t1) /\ "tag" \in DOMAIN t1
      BY <1>0, TagKept
    <3>. QED
      BY <3>1, TagKept
  <2>7. IsNew(i)'
    BY <1>0, <2>1 DEF IsNew
  <2>8. InTurn(e, n, g)'
    BY <1>0, <1>1, <2>2, <2>5, <2>6, <2>7 DEF InTurn, Sends, Req, NumSlotReq, QueueDepth
  <2>. QED
    BY <1>0, <2>8, RoomKept
<1>. QED
  BY <1>2, <1>3

\* The command of a write follows its data.
LEMMA RoomCommand ==
  ASSUME NEW e, NEW n, NEW g, SlotUse(e, n, g), TagUse(g), InTurn(e, n, g),
         UNCHANGED load, EntriesFit, mCmdCount # 0, TestSendsCommand
  PROVE  RoomInv'
<1>0. /\ UNCHANGED <<mSubQueue, slotBusy, mCmdCount>> /\ UNCHANGED tagVars
      /\ test.at = "command" /\ IsTest(test) /\ IsFcn(test) /\ "tag" \in DOMAIN test
      /\ test' = [test EXCEPT !.at = "sent"]
  BY DEF TestSendsCommand, submissionVars, slotVars, EntriesFit, IsTest, InTurn
<1>. PICK t1 : t1 = With(test, "at", "sent")
  OBVIOUS
<1>1. test' = t1
  BY <1>0 DEF With
<1>2. /\ t1.at = "sent" /\ t1.filling = test.filling /\ t1.req = test.req
      /\ t1.entry = test.entry
  BY <1>0, AtSet
<1>3. "tag" \in DOMAIN t1 /\ t1.tag = test.tag
  BY <1>0, TagKept
<1>4. Partial(e, n, g, test.req + 1)'
  BY <1>0, <1>1, <1>2, <1>3 DEF InTurn, Partial, IsOpen
<1>5. InTurn(e, n, g)'
  BY <1>0, <1>1, <1>2, <1>3, <1>4 DEF InTurn, Sends, Req, NumSlotReq, QueueDepth, IsNew
<1>. QED
  BY <1>0, <1>5, RoomKept

\* The completions are read.
LEMMA RoomReads ==
  ASSUME NEW e, NEW n, NEW g, SlotUse(e, n, g), TagUse(g), InTurn(e, n, g),
         UNCHANGED load, EntriesFit, mCmdCount # 0, mCompletionQueue \in Seq(Slot),
         TestStops \/ TestPolls \/ TestLoadsData \/ TestBatchDone
  PROVE  RoomInv'
<1>0. /\ UNCHANGED <<mSubQueue, slotBusy, mCmdCount>> /\ UNCHANGED tagVars
      /\ test.at \in {"poll", "batch"} /\ IsTest(test) /\ IsFcn(test) /\ "tag" \in DOMAIN test
  <2>1. test.at \in {"poll", "batch"}
    BY DEF TestStops, TestPolls, TestLoadsData, TestBatchDone
  <2>2. UNCHANGED <<mSubQueue, slotBusy, mCmdCount>> /\ UNCHANGED tagVars
    BY DEF TestStops, TestPolls, TestLoadsData, TestBatchDone, TestMoves, submissionVars, slotVars
  <2>. QED
    BY <2>1, <2>2 DEF EntriesFit, IsTest, InTurn
<1>1. ~Sends /\ ~test.filling /\ test.req = 0
  BY <1>0 DEF InTurn, Sends
<1>2. ASSUME NEW t, IsTest(t), "tag" \in DOMAIN t, t.filling = test.filling, t.req = test.req,
             t.at \in {"poll", "batch", "loaded", "stopped"}, test' = t
      PROVE  RoomInv'
  <2>1. ~Sends'
    BY <1>2 DEF Sends
  <2>. QED
    BY <1>0, <1>1, <1>2, <2>1, RoomBesides
<1>3. ASSUME NEW x \in {"poll", "batch", "loaded", "stopped"}, test' = [test EXCEPT !.at = x]
      PROVE  RoomInv'
  <2>. PICK t1 : t1 = With(test, "at", x)
    OBVIOUS
  <2>1. test' = t1
    BY <1>3 DEF With
  <2>2. IsTest(t1) /\ t1.at = x /\ t1.filling = test.filling /\ t1.req = test.req
    BY <1>0, AtSet
  <2>3. "tag" \in DOMAIN t1
    BY <1>0, TagKept
  <2>. QED
    BY <1>2, <2>1, <2>2, <2>3
<1>4. CASE test' = test
  BY <1>0, <1>2, <1>4
<1>5. ASSUME NEW b \in Seq(Slot), test' = [test EXCEPT !.at = "batch", !.batch = b]
      PROVE  RoomInv'
  <2>. PICK t1 : t1 = With(test, "at", "batch")
    OBVIOUS
  <2>. PICK t2 : t2 = With(t1, "batch", b)
    OBVIOUS
  <2>1. test' = t2
    BY <1>5 DEF With
  <2>2. IsTest(t1) /\ t1.at = "batch" /\ t1.filling = test.filling /\ t1.req = test.req
    BY <1>0, AtSet
  <2>3. IsTest(t2) /\ t2.at = "batch" /\ t2.filling = test.filling /\ t2.req = test.req
    BY <2>2, BatchSet
  <2>4. "tag" \in DOMAIN t2
    <3>1. IsFcn(t1) /\ "tag" \in DOMAIN t1
      BY <1>0, TagKept
    <3>. QED
      BY <3>1, TagKept
  <2>. QED
    BY <1>2, <2>1, <2>3, <2>4
<1>6. CASE TestStops
  BY <1>3, <1>6 DEF TestStops
<1>7. CASE TestLoadsData
  BY <1>3, <1>7 DEF TestLoadsData
<1>8. CASE TestBatchDone
  <2>1. test' = [test EXCEPT !.at = "poll"]
    BY <1>1, <1>8 DEF TestBatchDone, TestMoves
  <2>. QED
    BY <1>3, <2>1
<1>9. CASE TestPolls
  BY <1>4, <1>5, <1>9 DEF TestPolls
<1>. QED
  BY <1>6, <1>7, <1>8, <1>9

\* The queue is filled: no slot is in use yet.
LEMMA RoomFills ==
  ASSUME NEW e, NEW n, NEW g, SlotUse(e, n, g), TagUse(g), InTurn(e, n, g),
         UNCHANGED load, load \in Loads, EntriesFit, SubmissionFills
  PROVE  RoomInv'
<1>0. /\ UNCHANGED <<slotBusy, test>> /\ UNCHANGED tagVars /\ mCmdCount = 0
      /\ mCmdCount' = QueueDepth
  BY DEF SubmissionFills, slotVars, testVars
<1>1. slotBusy = {}
  <2>1. DOMAIN mSubQueue = {}
    BY <1>0 DEF EntriesFit
  <2>. QED
    BY <2>1 DEF SlotUse
<1>2. PICK d \in Nat : d = QueueDepth /\ d # 0
  BY BenchAssumption DEF QueueDepth
<1>3. PICK k, l : mSubQueue' = [i \in 1 .. QueueDepth |-> NewEntry(i, k[i], l[i])]
  BY DEF SubmissionFills
<1>4. DOMAIN mSubQueue' = 1 .. d /\ \A i \in 1 .. d : IsNew(i)'
  BY <1>2, <1>3 DEF IsNew, NewEntry
<1>5. SlotUse(e, n, g)'
  BY <1>0, <1>1 DEF SlotUse, Req, NumSlotReq
<1>6. TagUse(g)'
  BY <1>0 DEF TagUse, tagVars
<1>7. /\ test.at = "send" /\ test.filling /\ test.entry = 1 /\ test.req = 0
      /\ "tag" \in DOMAIN test /\ 0 \in Req
  BY <1>0 DEF InTurn
<1>8. InTurn(e, n, g)'
  <2>1. Req' = Req /\ QueueDepth' = d /\ mCmdCount' # 0
    BY <1>0, <1>2 DEF Req, NumSlotReq, QueueDepth
  <2>2. IsNew(1)' /\ \A i \in DOMAIN mSubQueue' : ~mSubQueue'[i].isCmdDone /\ IsNew(i)'
    BY <1>2, <1>4 DEF IsNew
  <2>. QED
    BY <1>0, <1>4, <1>7, <2>1, <2>2 DEF InTurn, Sends
<1>. QED
  BY <1>5, <1>6, <1>8 DEF RoomInv

\* A command that is over makes place for a new one.
LEMMA RoomRefills ==
  ASSUME NEW e, NEW n, NEW g, SlotUse(e, n, g), TagUse(g), InTurn(e, n, g),
         UNCHANGED load, EntriesFit, SubmissionRefills
  PROVE  RoomInv'
<1>0. /\ UNCHANGED <<slotBusy, test>> /\ UNCHANGED tagVars /\ mCmdCount # 0
  BY DEF SubmissionRefills, slotVars, testVars
<1>. PICK h : h = Head(mSlotIndexQueue)
  OBVIOUS
<1>1. CASE DoneEntries(h) = {}
  <2>1. UNCHANGED <<mSubQueue, mCmdCount>>
    BY <1>1 DEF SubmissionRefills
  <2>2. InTurn(e, n, g)'
    BY <1>0, <2>1 DEF InTurn, Partial, IsOpen, IsNew, Sends, Filled, Req, NumSlotReq, QueueDepth
  <2>. QED
    BY <1>0, <2>1, <2>2, RoomKept
<1>2. CASE DoneEntries(h) # {}
  <2>. PICK k : k = Least(DoneEntries(h))
    OBVIOUS
  <2>1. /\ k \in DOMAIN mSubQueue /\ mSubQueue[k].isDispatched /\ mSubQueue[k].isCmdDone
    <3>1. DoneEntries(h) \in SUBSET Nat
      BY LenProperties DEF EntriesFit, IsSubQueue, DoneEntries
    <3>2. \E x \in DoneEntries(h) : \A y \in DoneEntries(h) : x <= y
      BY <1>2, <3>1, LeastExists
    <3>3. k \in DoneEntries(h)
      BY <3>2 DEF Least
    <3>. QED
      BY <3>3 DEF DoneEntries
  <2>2. ~test.filling
    BY <2>1 DEF InTurn
  <2>3. PICK x : /\ mSubQueue' = [mSubQueue EXCEPT ![k] = x]
                 /\ ~x.isDispatched /\ ~x.isCmdDone
    <3>1. PICK c, l : mSubQueue' = [mSubQueue EXCEPT ![k] =
                        [NewEntry(mCmdCount + 1, c, l) EXCEPT !.slotNum = h]]
      BY <1>2 DEF SubmissionRefills
    <3>. PICK x : x = [NewEntry(mCmdCount + 1, c, l) EXCEPT !.slotNum = h]
      OBVIOUS
    <3>2. ~x.isDispatched /\ ~x.isCmdDone
      BY DEF NewEntry
    <3>. QED
      BY <3>1, <3>2
  <2>4. IsSubQueue(mSubQueue)
    BY DEF EntriesFit
  <2>5. /\ DOMAIN mSubQueue' = DOMAIN mSubQueue
        /\ mSubQueue'[k] = x /\ \A j \in DOMAIN mSubQueue \ {k} : mSubQueue'[j] = mSubQueue[j]
    BY <2>1, <2>3, <2>4 DEF IsSubQueue
  <2>6. mCmdCount' # 0
    BY <1>2 DEF SubmissionRefills, EntriesFit
  <2>7. /\ IsNew(k)' /\ ~IsOpen(k)
        /\ \A j \in DOMAIN mSubQueue \ {k} : (IsNew(j)' <=> IsNew(j)) /\ (IsOpen(j)' <=> IsOpen(j))
    BY <2>1, <2>3, <2>5 DEF IsNew, IsOpen
  <2>8. \A s \in slotBusy : e[s] \in DOMAIN mSubQueue \ {k}
    BY <2>7 DEF SlotUse
  <2>9. SlotUse(e, n, g)'
    BY <1>0, <2>5, <2>7, <2>8 DEF SlotUse, Req, NumSlotReq, tagVars
  <2>10. TagUse(g)'
    BY <1>0 DEF TagUse, tagVars
  <2>11. ASSUME NEW y, Partial(e, n, g, y) PROVE Partial(e, n, g, y)'
    <3>1. test.entry \in DOMAIN mSubQueue \ {k}
      BY <2>8, <2>11 DEF Partial
    <3>. QED
      BY <1>0, <2>7, <2>11, <3>1 DEF Partial
  <2>12. test.at = "send" => test.entry \in DOMAIN mSubQueue
    BY <2>2 DEF EntriesFit
  <2>13. InTurn(e, n, g)'
    <3>1. test'.at = "send" /\ test'.req = 0 /\ ~Filled' => IsNew(test.entry)'
      BY <1>0, <2>2, <2>7, <2>12 DEF InTurn, Filled
    <3>2. Req' = Req /\ QueueDepth' = QueueDepth
      BY DEF Req, NumSlotReq, QueueDepth
    <3>. QED
      BY <1>0, <2>2, <2>5, <2>6, <2>11, <3>1, <3>2 DEF InTurn, Sends
  <2>. QED
    BY <2>9, <2>10, <2>13 DEF RoomInv
<1>. QED
  BY <1>1, <1>2

\* A tag is free when a slot is: every tag in use has a slot of its own.
LEMMA TagIsFree ==
  ASSUME NEW g, TagUse(g), slotBusy \subseteq Slot, FreeSlots # {}
  PROVE  Least(FreeTags) \in Tag \ slotTags
<1>1. FreeTags # {}
  <2>. SUFFICES ASSUME Tag \subseteq slotTags PROVE FALSE
    BY DEF FreeTags
  <2>1. \A t \in Tag : \E s \in slotBusy : g[s] = t
    BY DEF TagUse
  <2>. PICK f : f = [t \in Tag |-> CHOOSE s \in slotBusy : g[s] = t]
    OBVIOUS
  <2>2. \A t \in Tag : f[t] \in slotBusy /\ g[f[t]] = t
    BY <2>1
  <2>3. f \in [Tag -> slotBusy] /\ \A t, u \in Tag : f[t] = f[u] => t = u
    BY <2>2
  <2>4. IsFiniteSet(Slot) /\ Cardinality(Slot) \in Nat
    BY FS_Interval, ControllerAssumption DEF Slot
  <2>5. /\ IsFiniteSet(slotBusy) /\ Cardinality(slotBusy) < Cardinality(Slot)
    <3>1. slotBusy # Slot
      BY DEF FreeSlots
    <3>2. IsFiniteSet(slotBusy) /\ Cardinality(slotBusy) <= Cardinality(Slot)
          /\ (Cardinality(slotBusy) = Cardinality(Slot) => slotBusy = Slot)
      BY <2>4, FS_Subset
    <3>3. Cardinality(slotBusy) \in Nat
      BY <3>2, FS_CardinalityType
    <3>. QED
      BY <2>4, <3>1, <3>2, <3>3
  <2>6. f \in [Slot -> slotBusy] /\ \A t, u \in Slot : f[t] = f[u] => t = u
    BY <2>3 DEF Tag
  <2>. QED
    BY <2>4, <2>5, <2>6, FS_PigeonHole
<1>2. FreeTags \in SUBSET Nat
  BY ControllerAssumption DEF FreeTags, Tag, Slot
<1>3. \E x \in FreeTags : \A y \in FreeTags : x <= y
  BY <1>1, <1>2, LeastExists
<1>4. Least(FreeTags) \in FreeTags
  BY <1>3 DEF Least
<1>. QED
  BY <1>4 DEF FreeTags

\* The sub-command takes slot s as number q of entry i, under tag t.
Takes(e, n, g, s, i, q, t) ==
  /\ SlotUse(e, n, g) /\ TagUse(g) /\ load' = load
  /\ s \in Slot \ slotBusy /\ i \in DOMAIN mSubQueue /\ q \in Req /\ t \in Tag
  /\ slotBusy' = slotBusy \cup {s} /\ DOMAIN mSubQueue' = DOMAIN mSubQueue
  /\ queueSlots' = [queueSlots EXCEPT ![t] = @ \cup {s}]
  /\ slotTags' = slotTags \cup {t}
  /\ IsFcn(firstSlotTags') /\ Tag \subseteq DOMAIN firstSlotTags'
  /\ \A x \in slotBusy : e[x] = i <=> g[x] = t
  /\ \A x \in slotBusy : e[x] = i => n[x] # q
  /\ IsOpen(i)' /\ mSubQueue'[i].slotNum = firstSlotTags'[t]
  /\ \A x \in slotBusy : /\ IsOpen(e[x])'
                          /\ mSubQueue'[e[x]].slotNum = firstSlotTags'[g[x]]

LEMMA SlotTaken ==
  ASSUME NEW e, NEW n, NEW g, NEW s, NEW i, NEW q, NEW t, Takes(e, n, g, s, i, q, t)
  PROVE  \E e2, n2, g2 : /\ SlotUse(e2, n2, g2)' /\ TagUse(g2)'
                         /\ \A x \in slotBusy : e2[x] = e[x] /\ n2[x] = n[x] /\ g2[x] = g[x]
                         /\ e2[s] = i /\ n2[s] = q /\ g2[s] = t
<1>. PICK B : B = slotBusy'
  OBVIOUS
<1>. PICK e2 : e2 = [x \in B |-> IF x = s THEN i ELSE e[x]]
  OBVIOUS
<1>. PICK n2 : n2 = [x \in B |-> IF x = s THEN q ELSE n[x]]
  OBVIOUS
<1>. PICK g2 : g2 = [x \in B |-> IF x = s THEN t ELSE g[x]]
  OBVIOUS
<1>0. /\ SlotUse(e, n, g) /\ TagUse(g) /\ UNCHANGED load
      /\ s \in Slot \ slotBusy /\ i \in DOMAIN mSubQueue /\ q \in Req /\ t \in Tag
      /\ slotBusy' = slotBusy \cup {s} /\ DOMAIN mSubQueue' = DOMAIN mSubQueue
      /\ queueSlots' = [queueSlots EXCEPT ![t] = @ \cup {s}]
      /\ slotTags' = slotTags \cup {t}
      /\ IsFcn(firstSlotTags') /\ Tag \subseteq DOMAIN firstSlotTags'
  BY DEF Takes
<1>1. B = slotBusy \cup {s} /\ s \in B /\ s \notin slotBusy
  BY <1>0
<1>2. /\ \A x \in slotBusy : e2[x] = e[x] /\ n2[x] = n[x] /\ g2[x] = g[x]
      /\ e2[s] = i /\ n2[s] = q /\ g2[s] = t
  BY <1>1
<1>3. /\ e2 \in [B -> DOMAIN mSubQueue'] /\ n2 \in [B -> Req'] /\ g2 \in [B -> Tag]
  <2>1. Req' = Req
    BY <1>0 DEF Req, NumSlotReq
  <2>2. /\ \A x \in slotBusy : e[x] \in DOMAIN mSubQueue /\ n[x] \in Req /\ g[x] \in Tag
    BY <1>0 DEF SlotUse
  <2>. QED
    BY <1>0, <1>1, <2>1, <2>2
<1>4. \A x, y \in B : e2[x] = e2[y] /\ n2[x] = n2[y] => x = y
  <2>1. \A x \in slotBusy : e2[x] = i => n2[x] # q
    BY <1>2 DEF Takes
  <2>2. \A x, y \in slotBusy : e2[x] = e2[y] /\ n2[x] = n2[y] => x = y
    BY <1>0, <1>2 DEF SlotUse
  <2>. QED
    BY <1>1, <1>2, <2>1, <2>2
<1>5. \A x, y \in B : e2[x] = e2[y] <=> g2[x] = g2[y]
  <2>1. \A x \in slotBusy : e2[x] = i <=> g2[x] = t
    BY <1>2 DEF Takes
  <2>2. \A x, y \in slotBusy : e2[x] = e2[y] <=> g2[x] = g2[y]
    BY <1>0, <1>2 DEF SlotUse
  <2>. QED
    BY <1>1, <1>2, <2>1, <2>2
<1>6. \A x \in B : IsOpen(e2[x])' /\ mSubQueue'[e2[x]].slotNum = firstSlotTags'[g2[x]]
  BY <1>0, <1>1, <1>2 DEF Takes
<1>7. SlotUse(e2, n2, g2)'
  BY <1>3, <1>4, <1>5, <1>6 DEF SlotUse, IsOpen
<1>8. TagUse(g2)'
  <2>1. queueSlots' \in [Tag -> SUBSET Slot]
    BY <1>0 DEF TagUse
  <2>2. \A u \in Tag : queueSlots'[u] = {x \in B : g2[x] = u}
    <3>1. \A u \in Tag : queueSlots'[u] = IF u = t THEN queueSlots[u] \cup {s} ELSE queueSlots[u]
      BY <1>0 DEF TagUse
    <3>2. \A u \in Tag : queueSlots[u] = {x \in slotBusy : g[x] = u}
      BY <1>0 DEF TagUse
    <3>3. {x \in B : g2[x] = t} = {x \in slotBusy : g[x] = t} \cup {s}
      BY <1>1, <1>2
    <3>4. \A u \in Tag \ {t} : {x \in B : g2[x] = u} = {x \in slotBusy : g[x] = u}
      BY <1>1, <1>2
    <3>5. ASSUME NEW u \in Tag PROVE queueSlots'[u] = {x \in B : g2[x] = u}
      <4>1. CASE u = t
        BY <3>1, <3>2, <3>3, <4>1, Zenon
      <4>2. CASE u # t
        <5>1. queueSlots'[u] = queueSlots[u] /\ u \in Tag \ {t}
          BY <3>1, <4>2
        <5>. QED
          BY <3>2, <3>4, <5>1, Zenon
      <4>. QED
        BY <4>1, <4>2
    <3>. QED
      BY <3>5
  <2>3. slotTags' = {u \in Tag : queueSlots'[u] # {}}
    <3>1. queueSlots'[t] # {} /\ \A u \in Tag \ {t} : queueSlots'[u] = queueSlots[u]
      BY <1>0 DEF TagUse
    <3>. QED
      BY <1>0, <3>1 DEF TagUse
  <2>. QED
    BY <1>0, <2>1, <2>2, <2>3 DEF TagUse
<1>. QED
  BY <1>2, <1>7, <1>8

\* An entry is dispatched: it notes its first slot.
LEMMA EntryStarts ==
  ASSUME NEW i \in DOMAIN mSubQueue, NEW s, IsSubQueue(mSubQueue),
         mSubQueue' = [mSubQueue EXCEPT ![i].isDispatched = TRUE, ![i].slotNum = s]
  PROVE  /\ DOMAIN mSubQueue' = DOMAIN mSubQueue
         /\ \A j \in DOMAIN mSubQueue \ {i} : mSubQueue'[j] = mSubQueue[j]
         /\ mSubQueue'[i].isDispatched /\ mSubQueue'[i].slotNum = s
         /\ mSubQueue'[i].isCmdDone = mSubQueue[i].isCmdDone
<1>. PICK q, w, b : q = mSubQueue /\ w = mSubQueue' /\ b = TRUE
  OBVIOUS
<1>. PICK u : u = q[i]
  OBVIOUS
<1>. PICK x : x = [u EXCEPT !["isDispatched"] = b]
  OBVIOUS
<1>. PICK y : y = [x EXCEPT !["slotNum"] = s]
  OBVIOUS
<1>1. IsFcn(q) /\ IsFcn(u) /\ EntryFields \subseteq DOMAIN u
  BY DEF IsSubQueue, IsFcn, IsEntry
<1>2. w = [q EXCEPT ![i] = y]
  BY <1>1 DEF IsFcn
<1>3. /\ IsFcn(x) /\ DOMAIN x = DOMAIN u /\ x["isDispatched"] = b
      /\ \A g \in DOMAIN u \ {"isDispatched"} : x[g] = u[g]
  BY <1>1, FieldSet DEF EntryFields
<1>4. /\ y["slotNum"] = s /\ \A g \in DOMAIN x \ {"slotNum"} : y[g] = x[g]
  BY <1>1, <1>3, FieldSet DEF EntryFields
<1>5. y["isDispatched"] = b /\ y["isCmdDone"] = u["isCmdDone"]
  BY <1>1, <1>3, <1>4 DEF EntryFields
<1>6. DOMAIN w = DOMAIN q /\ w[i] = y /\ \A j \in DOMAIN q \ {i} : w[j] = q[j]
  BY <1>1, <1>2 DEF IsFcn
<1>. QED
  BY <1>4, <1>5, <1>6

\* A sub-command takes a slot.
LEMMA RoomSends ==
  ASSUME NEW e, NEW n, NEW g, SlotUse(e, n, g), TagUse(g), InTurn(e, n, g),
         UNCHANGED load, load \in Loads, EntriesFit, slotBusy \subseteq Slot, mCmdCount # 0,
         TestSends
  PROVE  RoomInv'
<1>. PICK s, i, q : s = Least(FreeSlots) /\ i = test.entry /\ q = test.req
  OBVIOUS
<1>. PICK t : t = IF q = 0 THEN Least(FreeTags) ELSE test.tag
  OBVIOUS
<1>. PICK p : p = IF Sending.d = "WRITE" THEN "command" ELSE "sent"
  OBVIOUS
<1>0. /\ test.at = "send" /\ ~Filled /\ FreeSlots # {} /\ slotBusy' = slotBusy \cup {s}
      /\ AddSlot(t, s, q = 0) /\ UNCHANGED mCmdCount
      /\ IF q = 0 THEN mSubQueue' = [mSubQueue EXCEPT ![i].isDispatched = TRUE, ![i].slotNum = s]
         ELSE UNCHANGED mSubQueue
      /\ test' = [test EXCEPT !.at = p, !.tag = t, !.slot = s]
  BY DEF TestSends
<1>1. /\ s \in Slot \ slotBusy /\ i \in DOMAIN mSubQueue /\ q \in Req /\ IsSubQueue(mSubQueue)
  <2>1. FreeSlots \in SUBSET Nat
    BY ControllerAssumption DEF FreeSlots, Slot
  <2>2. \E x \in FreeSlots : \A y \in FreeSlots : x <= y
    BY <1>0, <2>1, LeastExists
  <2>3. s \in FreeSlots
    BY <2>2 DEF Least
  <2>. QED
    BY <1>0, <2>3, SendingIs DEF FreeSlots, InTurn, EntriesFit
<1>2. /\ DOMAIN mSubQueue' = DOMAIN mSubQueue
      /\ \A j \in DOMAIN mSubQueue \ {i} : mSubQueue'[j] = mSubQueue[j]
      /\ mSubQueue'[i].isCmdDone = mSubQueue[i].isCmdDone
  BY <1>0, <1>1, EntryStarts
<1>12. slotBusy' = slotBusy \cup {s}
  BY <1>0
<1>3. Takes(e, n, g, s, i, q, t)
  <2>1. CASE q = 0
    <3>1. t \in Tag \ slotTags
      BY <1>0, <2>1, TagIsFree
    <3>2. IsNew(i)
      BY <1>0, <2>1 DEF InTurn
    <3>3. \A x \in slotBusy : e[x] # i /\ g[x] # t
      <4>1. \A x \in slotBusy : e[x] # i
        BY <3>2 DEF SlotUse, IsOpen, IsNew
      <4>2. \A x \in slotBusy : g[x] # t
        BY <3>1 DEF TagUse
      <4>. QED
        BY <4>1, <4>2
    <3>4. /\ queueSlots' = [queueSlots EXCEPT ![t] = @ \cup {s}]
          /\ slotTags' = slotTags \cup {t}
          /\ firstSlotTags' = [firstSlotTags EXCEPT ![t] = s]
      BY <1>0, <2>1 DEF AddSlot
    <3>5. /\ IsFcn(firstSlotTags') /\ Tag \subseteq DOMAIN firstSlotTags'
          /\ firstSlotTags'[t] = s /\ \A u \in Tag \ {t} : firstSlotTags'[u] = firstSlotTags[u]
      BY <3>1, <3>4 DEF TagUse, IsFcn
    <3>6. IsOpen(i)' /\ mSubQueue'[i].slotNum = firstSlotTags'[t]
      <4>1. mSubQueue'[i].isDispatched /\ mSubQueue'[i].slotNum = s
        BY <1>0, <1>1, <2>1, EntryStarts
      <4>. QED
        BY <1>2, <3>2, <3>5, <4>1 DEF IsOpen, IsNew
    <3>7. \A x \in slotBusy : /\ IsOpen(e[x])'
                              /\ mSubQueue'[e[x]].slotNum = firstSlotTags'[g[x]]
      <4>1. \A x \in slotBusy : e[x] \in DOMAIN mSubQueue \ {i} /\ g[x] \in Tag \ {t}
        BY <3>3 DEF SlotUse
      <4>. QED
        BY <1>2, <3>5, <4>1 DEF SlotUse, IsOpen
    <3>. QED
      <4>1. /\ \A x \in slotBusy : e[x] = i <=> g[x] = t
            /\ \A x \in slotBusy : e[x] = i => n[x] # q
        BY <3>3
      <4>. QED
        BY <1>1, <1>2, <1>12, <3>1, <3>4, <3>5, <3>6, <3>7, <4>1 DEF Takes
  <2>2. CASE q # 0
    <3>1. t = test.tag /\ Partial(e, n, g, q)
      BY <1>0, <2>2 DEF InTurn
    <3>2. PICK z \in slotBusy : e[z] = i /\ g[z] = t
      BY <3>1 DEF Partial
    <3>3. t \in Tag /\ t \in slotTags
      <4>1. t \in Tag
        BY <3>2 DEF SlotUse
      <4>2. z \in queueSlots[t]
        BY <3>2, <4>1 DEF TagUse
      <4>. QED
        BY <4>1, <4>2 DEF TagUse
    <3>4. /\ queueSlots' = [queueSlots EXCEPT ![t] = @ \cup {s}]
          /\ UNCHANGED <<slotTags, firstSlotTags, mSubQueue>>
      BY <1>0, <2>2 DEF AddSlot
    <3>5. slotTags' = slotTags \cup {t}
      BY <3>3, <3>4
    <3>6. \A x \in slotBusy : e[x] = i <=> g[x] = t
      BY <3>2 DEF SlotUse
    <3>7. \A x \in slotBusy : e[x] = i => n[x] # q
      <4>1. \A x \in slotBusy : n[x] \in Nat
        BY Sizes DEF SlotUse
      <4>2. q \in Nat
        BY <1>1, Sizes
      <4>. QED
        BY <3>1, <4>1, <4>2 DEF Partial
    <3>8. \A x \in slotBusy : /\ IsOpen(e[x])'
                              /\ mSubQueue'[e[x]].slotNum = firstSlotTags'[g[x]]
      BY <3>4 DEF SlotUse, IsOpen
    <3>9. IsOpen(i)' /\ mSubQueue'[i].slotNum = firstSlotTags'[t]
      BY <3>2, <3>8
    <3>10. IsFcn(firstSlotTags') /\ Tag \subseteq DOMAIN firstSlotTags'
      BY <3>4 DEF TagUse
    <3>. QED
      BY <1>1, <1>2, <1>12, <3>3, <3>4, <3>5, <3>6, <3>7, <3>8, <3>9, <3>10 DEF Takes
  <2>. QED
    BY <2>1, <2>2
<1>. PICK e2, n2, g2 : /\ SlotUse(e2, n2, g2)' /\ TagUse(g2)'
                       /\ \A x \in slotBusy : e2[x] = e[x] /\ n2[x] = n[x] /\ g2[x] = g[x]
                       /\ e2[s] = i /\ n2[s] = q /\ g2[s] = t
  BY <1>3, SlotTaken
<1>. PICK t1 : t1 = With(test, "at", p)
  OBVIOUS
<1>. PICK t2 : t2 = With(t1, "tag", t)
  OBVIOUS
<1>. PICK t3 : t3 = With(t2, "slot", s)
  OBVIOUS
<1>4. test' = t3
  BY <1>0 DEF With
<1>5. IsTest(test) /\ IsFcn(test) /\ "tag" \in DOMAIN test /\ "tag" \notin TestFields
  BY DEF EntriesFit, IsTest, InTurn, TestFields
<1>6. IsTest(t1) /\ t1.at = p /\ t1.entry = i /\ t1.req = q /\ t1.filling = test.filling
  BY <1>5, AtSet
<1>7. IsTest(t2) /\ t2.at = p /\ t2.entry = i /\ t2.req = q /\ t2.filling = test.filling
  BY <1>5, <1>6, OtherSet
<1>8. t3.at = p /\ t3.entry = i /\ t3.req = q /\ t3.filling = test.filling
  BY <1>7, SlotSet
<1>9. "tag" \in DOMAIN t3 /\ t3.tag = t
  <2>1. IsFcn(t1) /\ "tag" \in DOMAIN t1
    BY <1>5, TagKept
  <2>2. IsFcn(t2) /\ "tag" \in DOMAIN t2 /\ t2["tag"] = t
    BY <2>1, FieldSet DEF With
  <2>. QED
    BY <2>2, TagKept
<1>10. Partial(e2, n2, g2, q + 1)'
  <2>1. IsOpen(i)'
    <3>1. s \in slotBusy'
      BY <1>0
    <3>. QED
      BY <3>1 DEF SlotUse
  <2>2. \A x \in slotBusy : n[x] \in Nat /\ q \in Nat
    BY <1>1, Sizes DEF SlotUse
  <2>3. \A x \in slotBusy : e[x] = i => n[x] < q + 1
    <3>1. CASE q = 0
      BY <1>0, <3>1 DEF InTurn, SlotUse, IsOpen, IsNew
    <3>2. CASE q # 0
      <4>1. \A x \in slotBusy : e[x] = i => n[x] < q
        BY <1>0, <3>2 DEF InTurn, Partial
      <4>. QED
        BY <2>2, <4>1
    <3>. QED
      BY <3>1, <3>2
  <2>4. q < q + 1
    BY <1>1, Sizes
  <2>. QED
    BY <1>0, <1>4, <1>8, <1>9, <2>1, <2>3, <2>4 DEF Partial
<1>11. InTurn(e2, n2, g2)'
  <2>1. p \in {"command", "sent"}
    OBVIOUS
  <2>2. ASSUME test.filling, NEW j \in DOMAIN mSubQueue
        PROVE  ~mSubQueue'[j].isCmdDone /\ (j > i => IsNew(j)')
    <3>1. ~mSubQueue[j].isCmdDone /\ (j > i => IsNew(j))
      BY <2>2 DEF InTurn
    <3>2. i \in Nat
      BY <1>5 DEF IsTest
    <3>3. j > i => j # i
      BY <3>2
    <3>. QED
      BY <1>2, <3>1, <3>3 DEF IsNew
  <2>3. Req' = Req /\ QueueDepth' = QueueDepth
    BY DEF Req, NumSlotReq, QueueDepth
  <2>. QED
    BY <1>0, <1>1, <1>2, <1>4, <1>8, <1>9, <1>10, <2>1, <2>2, <2>3 DEF InTurn, Sends
<1>. QED
  BY <1>11 DEF RoomInv

\* The slots of a tag are those in use under it: removeSlotFromList finds slot s
\* under its own.
LEMMA TagOfSlot ==
  ASSUME NEW g, TagUse(g), NEW s \in slotBusy, s \in Slot, g[s] \in Tag
  PROVE  TagOf(s) = g[s]
<1>. PICK T : T = {t \in Tag : s \in queueSlots[t]}
  OBVIOUS
<1>1. T = {g[s]}
  BY DEF TagUse
<1>2. g[s] \in Nat
  BY ControllerAssumption DEF Tag, Slot
<1>3. \E x \in T : \A y \in T : x <= y
  BY <1>1, <1>2
<1>4. Least(T) \in T
  BY <1>3 DEF Least
<1>. QED
  BY <1>1, <1>4 DEF TagOf

\* A slot leaves its tag, which is free again if it was the last.
LEMMA TagReleased ==
  ASSUME NEW g, TagUse(g), NEW s \in slotBusy, NEW t \in Tag, g[s] = t,
         queueSlots' = [queueSlots EXCEPT ![t] = @ \ {s}], UNCHANGED firstSlotTags,
         slotTags' = IF queueSlots[t] = {s} THEN slotTags \ {t} ELSE slotTags,
         slotBusy' = slotBusy \ {s},
         NEW h, \A x \in slotBusy \ {s} : h[x] = g[x]
  PROVE  TagUse(h)'
<1>. PICK B : B = slotBusy'
  OBVIOUS
<1>1. \A u \in Tag : queueSlots[u] = {x \in slotBusy : g[x] = u}
  BY DEF TagUse
<1>2. /\ queueSlots' \in [Tag -> SUBSET Slot] /\ queueSlots'[t] = queueSlots[t] \ {s}
      /\ \A u \in Tag \ {t} : queueSlots'[u] = queueSlots[u]
  BY DEF TagUse
<1>3. ASSUME NEW u \in Tag PROVE queueSlots'[u] = {x \in B : h[x] = u}
  <2>1. {x \in B : h[x] = u} = {x \in slotBusy : g[x] = u} \ {s}
    OBVIOUS
  <2>2. CASE u = t
    BY <1>1, <1>2, <2>1, <2>2, Zenon
  <2>3. CASE u # t
    <3>1. queueSlots'[u] = queueSlots[u] /\ s \notin queueSlots[u]
      BY <1>1, <1>2, <2>3
    <3>2. {x \in B : h[x] = u} = queueSlots[u] \ {s}
      BY <1>1, <2>1, Zenon
    <3>. QED
      BY <3>1, <3>2
  <2>. QED
    BY <2>2, <2>3
<1>4. slotTags' = {u \in Tag : queueSlots'[u] # {}}
  <2>1. s \in queueSlots[t]
    BY <1>1
  <2>2. queueSlots'[t] = {} <=> queueSlots[t] = {s}
    BY <1>2, <2>1
  <2>. QED
    BY <1>2, <2>1, <2>2 DEF TagUse
<1>. QED
  BY <1>2, <1>3, <1>4 DEF TagUse

\* A slot is released.  If it is the last of its tag, the entry that is found to
\* be done is an open one with the same first slot: the entry of the slot itself,
\* or one that now stands for it.
LEMMA SlotReleased ==
  ASSUME NEW e, NEW n, NEW g, SlotUse(e, n, g), TagUse(g), UNCHANGED load, EntriesFit,
         NEW s \in slotBusy, s \in Slot,
         ReleaseSlot(s, LastOfCommand(s))
  PROVE  \E e2, n2, g2 : SlotUse(e2, n2, g2)' /\ TagUse(g2)'
<1>. PICK t : t = g[s]
  OBVIOUS
<1>. PICK c : c = firstSlotTags[t]
  OBVIOUS
<1>. PICK O : O = OpenEntries(c)
  OBVIOUS
<1>. PICK k : k = Least(O)
  OBVIOUS
<1>1. t \in Tag /\ TagOf(s) = t /\ e[s] \in O
  <2>1. t \in Tag /\ e[s] \in O
    BY DEF SlotUse, OpenEntries, IsOpen
  <2>. QED
    BY <2>1, TagOfSlot
<1>2. k \in O
  <2>1. O \in SUBSET Nat
    BY LenProperties DEF EntriesFit, IsSubQueue, OpenEntries
  <2>2. \E x \in O : \A y \in O : x <= y
    BY <1>1, <2>1, LeastExists
  <2>. QED
    BY <2>2 DEF Least
<1>3. k \in DOMAIN mSubQueue /\ IsOpen(k) /\ mSubQueue[k].slotNum = c
  BY <1>2 DEF OpenEntries, IsOpen
<1>4. LastOfCommand(s) <=> queueSlots[t] = {s}
  BY <1>1 DEF LastOfCommand
<1>5. /\ queueSlots' = [queueSlots EXCEPT ![t] = @ \ {s}] /\ UNCHANGED firstSlotTags
      /\ slotTags' = IF queueSlots[t] = {s} THEN slotTags \ {t} ELSE slotTags
      /\ slotBusy' = slotBusy \ {s}
  BY <1>1 DEF ReleaseSlot, RemoveSlot
<1>. PICK B : B = slotBusy'
  OBVIOUS
<1>. PICK n2, g2 : n2 = [x \in B |-> n[x]] /\ g2 = [x \in B |-> g[x]]
  OBVIOUS
<1>6. TagUse(g2)'
  BY <1>1, <1>5, TagReleased
<1>7. /\ \A x \in B : x \in slotBusy /\ x # s /\ n2[x] = n[x] /\ g2[x] = g[x]
      /\ n2 \in [B -> Req'] /\ g2 \in [B -> Tag]
  <2>1. Req' = Req
    BY DEF Req, NumSlotReq
  <2>. QED
    BY <1>5, <2>1 DEF SlotUse
<1>8. CASE queueSlots[t] # {s}
  <2>. PICK e2 : e2 = [x \in B |-> e[x]]
    OBVIOUS
  <2>1. mSubQueue' = mSubQueue
    BY <1>4, <1>8 DEF ReleaseSlot
  <2>2. e2 \in [B -> DOMAIN mSubQueue'] /\ \A x \in B : e2[x] = e[x]
    BY <1>7, <2>1 DEF SlotUse
  <2>3. \A x \in B : IsOpen(e2[x])' /\ mSubQueue'[e2[x]].slotNum = firstSlotTags'[g2[x]]
    BY <1>5, <1>7, <2>1, <2>2 DEF SlotUse, IsOpen
  <2>4. SlotUse(e2, n2, g2)'
    BY <1>7, <2>2, <2>3 DEF SlotUse, IsOpen
  <2>. QED
    BY <1>6, <2>4
<1>9. CASE queueSlots[t] = {s}
  <2>. PICK e2 : e2 = [x \in B |-> IF e[x] = k THEN e[s] ELSE e[x]]
    OBVIOUS
  <2>1. mSubQueue' = [mSubQueue EXCEPT ![k].isCmdDone = TRUE]
    BY <1>1, <1>4, <1>9 DEF ReleaseSlot
  <2>2. /\ DOMAIN mSubQueue' = DOMAIN mSubQueue
        /\ \A j \in DOMAIN mSubQueue \ {k} : mSubQueue'[j] = mSubQueue[j]
    BY <2>1 DEF EntriesFit, IsSubQueue
  <2>3. \A x \in B : e[x] # e[s]
    <3>1. \A x \in B : g[x] # g[s]
      <4>1. queueSlots[t] = {x \in slotBusy : g[x] = t}
        BY <1>1 DEF TagUse
      <4>. QED
        BY <1>7, <1>9, <4>1
    <3>. QED
      BY <1>7, <3>1 DEF SlotUse
  <2>4. \A x \in B : e2[x] = IF e[x] = k THEN e[s] ELSE e[x]
    OBVIOUS
  <2>5. \A x \in B : e2[x] \in DOMAIN mSubQueue \ {k} /\ IsOpen(e2[x])
                     /\ mSubQueue[e2[x]].slotNum = firstSlotTags[g[x]]
    <3>1. ASSUME NEW x \in B
          PROVE  /\ e2[x] \in DOMAIN mSubQueue \ {k} /\ IsOpen(e2[x])
                 /\ mSubQueue[e2[x]].slotNum = firstSlotTags[g[x]]
      <4>1. /\ e[x] \in DOMAIN mSubQueue /\ IsOpen(e[x])
            /\ mSubQueue[e[x]].slotNum = firstSlotTags[g[x]]
        BY <1>7 DEF SlotUse
      <4>2. /\ e[s] \in DOMAIN mSubQueue /\ IsOpen(e[s]) /\ mSubQueue[e[s]].slotNum = c
        BY DEF SlotUse
      <4>3. CASE e[x] = k
        BY <1>3, <2>3, <2>4, <4>1, <4>2, <4>3
      <4>4. CASE e[x] # k
        BY <2>4, <4>1, <4>4
      <4>. QED
        BY <4>3, <4>4
    <3>. QED
      BY <3>1
  <2>6. e2 \in [B -> DOMAIN mSubQueue']
    BY <2>2, <2>5
  <2>7. \A x, y \in B : e2[x] = e2[y] <=> e[x] = e[y]
    BY <2>3, <2>4
  <2>8. \A x \in B : IsOpen(e2[x])' /\ mSubQueue'[e2[x]].slotNum = firstSlotTags'[g2[x]]
    BY <1>5, <1>7, <2>2, <2>5 DEF IsOpen
  <2>9. /\ \A x, y \in B : e2[x] = e2[y] /\ n2[x] = n2[y] => x = y
        /\ \A x, y \in B : e2[x] = e2[y] <=> g2[x] = g2[y]
    BY <1>7, <2>7 DEF SlotUse
  <2>10. SlotUse(e2, n2, g2)'
    BY <1>7, <2>6, <2>8, <2>9 DEF SlotUse, IsOpen
  <2>. QED
    BY <1>6, <2>10
<1>. QED
  BY <1>8, <1>9

\* A completion gives a slot back.
LEMMA RoomFrees ==
  ASSUME NEW e, NEW n, NEW g, SlotUse(e, n, g), TagUse(g), InTurn(e, n, g),
         UNCHANGED load, EntriesFit, slotBusy \subseteq Slot, Range(test.batch) \subseteq slotBusy,
         mCmdCount # 0, TestFrees
  PROVE  RoomInv'
<1>. PICK q, s : q = test.batch /\ s = Head(q)
  OBVIOUS
<1>0. /\ q # <<>> /\ ReleaseSlot(s, LastOfCommand(s)) /\ UNCHANGED mCmdCount
      /\ test.at \in {"loaded", "batch"}
  BY DEF TestFrees
<1>1. s \in slotBusy /\ Tail(q) \in Seq(Slot)
  <2>1. q \in Seq(Slot)
    BY DEF EntriesFit, IsTest
  <2>2. Tail(q) \in Seq(Slot) /\ s = q[1] /\ 1 \in DOMAIN q
    <3>. PICK l \in Nat : l = Len(q)
      BY <2>1, LenProperties
    <3>1. l # 0 /\ DOMAIN q = 1 .. l
      BY <1>0, <2>1, LenProperties, EmptySeq
    <3>. QED
      BY <1>0, <2>1, <3>1, HeadTailProperties
  <2>. QED
    BY <2>2 DEF Range
<1>2. PICK e2, n2, g2 : SlotUse(e2, n2, g2)' /\ TagUse(g2)'
  BY <1>0, <1>1, SlotReleased
<1>3. PICK p \in {"choose", "batch"} : test' = [test EXCEPT !.batch = Tail(q), !.at = p]
  BY DEF TestFrees
<1>12. PICK w : w = Tail(q)
  OBVIOUS
<1>. PICK t1 : t1 = With(test, "batch", w)
  OBVIOUS
<1>. PICK t2 : t2 = With(t1, "at", p)
  OBVIOUS
<1>4. test' = t2
  BY <1>3, <1>12 DEF With
<1>5. IsTest(test) /\ IsFcn(test) /\ "tag" \in DOMAIN test /\ w \in Seq(Slot)
  BY <1>1, <1>12 DEF EntriesFit, IsTest, InTurn
<1>6. IsTest(t1) /\ t1.req = test.req /\ t1.filling = test.filling
  BY <1>5, BatchSet
<1>7. t2.at = p /\ t2.req = test.req /\ t2.filling = test.filling
  BY <1>6, AtSet
<1>8. "tag" \in DOMAIN t2
  <2>1. IsFcn(t1) /\ "tag" \in DOMAIN t1
    BY <1>5, TagKept
  <2>. QED
    BY <2>1, TagKept
<1>9. ~test.filling /\ test.req = 0 /\ test.req \in Req
  BY <1>0 DEF InTurn, Sends
<1>10. DOMAIN mSubQueue' = DOMAIN mSubQueue
  <2>1. mSubQueue' = mSubQueue \/ \E i : mSubQueue' = [mSubQueue EXCEPT ![i].isCmdDone = TRUE]
    BY <1>0 DEF ReleaseSlot
  <2>. QED
    BY <2>1
<1>11. InTurn(e2, n2, g2)'
  <2>1. Req' = Req /\ QueueDepth' = QueueDepth
    BY DEF Req, NumSlotReq, QueueDepth
  <2>. QED
    BY <1>0, <1>4, <1>7, <1>8, <1>9, <1>10, <2>1 DEF InTurn, Sends
<1>. QED
  BY <1>2, <1>11 DEF RoomInv

\* Every step of the two threads, with room.
LEMMA BenchKeepsRoom ==
  ASSUME NEW place, NEW r, NEW m, QueueInv(place, r, m), WorkInv, load \in Loads, UNCHANGED load,
         Room, RoomInv, SubmissionFills \/ SubmissionRefills \/ TestStep
  PROVE  RoomInv'
<1>0. /\ EntriesFit /\ slotBusy \subseteq Slot /\ Range(test.batch) \subseteq slotBusy
      /\ mCompletionQueue \in Seq(Slot)
  BY DEF QueueInv, SlotsHeld, DimmInv, Typed, DoneTyped
<1>. PICK e, n, g : SlotUse(e, n, g) /\ TagUse(g) /\ InTurn(e, n, g)
  BY DEF RoomInv
<1>1. CASE SubmissionFills
  BY <1>0, <1>1, RoomFills
<1>2. CASE SubmissionRefills
  BY <1>0, <1>2, RoomRefills
<1>3. CASE TestStep
  <2>1. mCmdCount # 0
    <3>1. Turn(Test)
      BY <1>3, Zenon DEF TestStep, TestSends, TestSendsCommand, TestSent, TestOutOfSlots, TestFilled,
                         TestStops, TestPolls, TestLoadsData, TestFrees, TestChooses, TestBatchDone
    <3>. QED
      BY <3>1 DEF WorkInv, Turn
  <2>2. CASE TestSends
    BY <1>0, <2>1, <2>2, RoomSends
  <2>3. CASE TestSendsCommand
    BY <1>0, <2>1, <2>3, RoomCommand
  <2>4. CASE TestSent
    BY <1>0, <2>1, <2>4, RoomSent
  <2>5. CASE TestOutOfSlots
    <3>1. test.at = "send" /\ ~Filled /\ FreeSlots = {}
      BY <2>5 DEF TestOutOfSlots
    <3>. QED
      BY <1>0, <3>1, RoomForNext
  <2>6. CASE TestFilled
    BY <1>0, <2>1, <2>6, RoomFilled
  <2>7. CASE TestFrees
    BY <1>0, <2>1, <2>7, RoomFrees
  <2>8. CASE TestChooses
    BY <1>0, <2>1, <2>8, RoomChooses
  <2>9. CASE TestStops \/ TestPolls \/ TestLoadsData \/ TestBatchDone
    BY <1>0, <2>1, <2>9, RoomReads
  <2>. QED
    BY <1>3, <2>2, <2>3, <2>4, <2>5, <2>6, <2>7, <2>8, <2>9 DEF TestStep
<1>. QED
  BY <1>1, <1>2, <1>3

\* A command of one slot is sent only after a completion gave one back.
OneSlotInv ==
  /\ test.req = 0
  /\ ~test.filling /\ test.at \in {"choose", "send"} => FreeSlots # {}

\* The thread, with commands of one slot.
LEMMA TestKeepsOneSlot ==
  ASSUME NEW place, NEW r, NEW m, QueueInv(place, r, m), NumSlotReq = 1, OneSlotInv, TestStep
  PROVE  OneSlotInv'
<1>0. /\ IsTest(test) /\ slotBusy \subseteq Slot /\ Range(test.batch) \subseteq slotBusy
      /\ IsFcn(test) /\ {"at", "req", "filling", "entry", "batch"} \subseteq DOMAIN test
  BY DEF QueueInv, EntriesFit, SlotsHeld, IsTest, TestFields
<1>1. ASSUME NEW t, test' = t, t.req = 0, t.at \notin {"choose", "send"} \/ t.filling
      PROVE  OneSlotInv'
  BY <1>1 DEF OneSlotInv
<1>2. ASSUME NEW x, NEW t, t = With(test, "at", x)
      PROVE  t.req = 0 /\ t.at = x /\ t.filling = test.filling /\ IsTest(t)
  BY <1>0, <1>2, AtSet DEF OneSlotInv
<1>3. CASE TestSends
  <2>. PICK d, p, s : /\ d = Sending.d /\ s = Least(FreeSlots)
                      /\ p = IF d = "WRITE" THEN "command" ELSE "sent"
    OBVIOUS
  <2>1. PICK t : test' = [test EXCEPT !.at = p, !.tag = t, !.slot = s]
    BY <1>3 DEF TestSends
  <2>. PICK t1 : t1 = With(test, "at", p)
    OBVIOUS
  <2>. PICK t2 : t2 = With(t1, "tag", t)
    OBVIOUS
  <2>. PICK t3 : t3 = With(t2, "slot", s)
    OBVIOUS
  <2>2. test' = t3
    BY <2>1 DEF With
  <2>3. IsTest(t1) /\ t1.at = p /\ t1.req = 0
    BY <1>2
  <2>4. "tag" \notin TestFields
    BY DEF TestFields
  <2>5. IsTest(t2) /\ t2.at = p /\ t2.req = 0
    BY <2>3, <2>4, OtherSet
  <2>6. t3.at = p /\ t3.req = 0
    BY <2>5, SlotSet
  <2>. QED
    BY <1>1, <2>2, <2>6
<1>4. ASSUME NEW x, test' = [test EXCEPT !.at = x], x \notin {"choose", "send"} \/ test.filling
      PROVE  OneSlotInv'
  <2>. PICK t1 : t1 = With(test, "at", x)
    OBVIOUS
  <2>1. test' = t1
    BY <1>4 DEF With
  <2>. QED
    BY <1>1, <1>2, <1>4, <2>1
<1>5. CASE TestSendsCommand \/ TestStops \/ TestLoadsData
  BY <1>4, <1>5 DEF TestSendsCommand, TestStops, TestLoadsData
<1>6. CASE TestBatchDone
  <2>1. CASE test.filling
    BY <1>4, <1>6, <2>1 DEF TestBatchDone, TestMoves
  <2>2. CASE ~test.filling
    BY <1>4, <1>6, <2>2 DEF TestBatchDone, TestMoves
  <2>. QED
    BY <2>1, <2>2
<1>7. CASE TestOutOfSlots
  <2>1. test.filling
    BY <1>7 DEF TestOutOfSlots, OneSlotInv
  <2>. QED
    BY <1>4, <1>7, <2>1 DEF TestOutOfSlots, TestMoves
<1>8. CASE TestPolls
  <2>1. CASE test' = test
    BY <1>1, <1>8, <2>1 DEF TestPolls, OneSlotInv
  <2>2. CASE test' # test
    <3>1. PICK b : test' = [test EXCEPT !.at = "batch", !.batch = b]
      BY <1>8, <2>2 DEF TestPolls
    <3>. PICK t1 : t1 = With(test, "at", "batch")
      OBVIOUS
    <3>. PICK t2 : t2 = With(t1, "batch", b)
      OBVIOUS
    <3>2. test' = t2
      BY <3>1 DEF With
    <3>3. IsTest(t1) /\ t1.at = "batch" /\ t1.req = 0
      BY <1>2
    <3>4. "batch" \in TestFields /\ "at" \in TestFields \ {"batch"} /\ "req" \in TestFields \ {"batch"}
      BY DEF TestFields
    <3>5. t2.at = "batch" /\ t2.req = 0
      BY <3>3, <3>4, LocalsKept
    <3>. QED
      BY <1>1, <3>2, <3>5
  <2>. QED
    BY <2>1, <2>2
<1>9. CASE TestSent
  <2>1. ~(test.req + 1 < NumSlotReq)
    BY DEF OneSlotInv
  <2>2. ASSUME NEW x, NEW z, test' = With(With(With(test, "at", x), "req", 0), "entry", z),
               x \notin {"choose", "send"} \/ test.filling
        PROVE  OneSlotInv'
    <3>. PICK t1 : t1 = With(test, "at", x)
      OBVIOUS
    <3>. PICK t2 : t2 = With(t1, "req", 0)
      OBVIOUS
    <3>. PICK t3 : t3 = With(t2, "entry", z)
      OBVIOUS
    <3>1. test' = t3
      BY <2>2
    <3>2. IsTest(t1) /\ t1.at = x /\ t1.filling = test.filling
      BY <1>2
    <3>3. 0 \in Nat
      OBVIOUS
    <3>4. IsTest(t2) /\ t2.at = x /\ t2.filling = test.filling /\ t2.req = 0
      BY <3>2, <3>3, ReqSet
    <3>5. /\ "entry" \in TestFields
          /\ {"at", "req", "filling"} \subseteq TestFields \ {"entry"}
      BY DEF TestFields
    <3>6. t3.at = x /\ t3.filling = test.filling /\ t3.req = 0
      BY <3>4, <3>5, LocalsKept
    <3>. QED
      BY <1>1, <2>2, <3>1, <3>6
  <2>3. CASE test.filling
    <3>. PICK z : z = test.entry + 1
      OBVIOUS
    <3>1. test' = With(With(With(test, "at", "send"), "req", 0), "entry", z)
      BY <1>9, <2>1, <2>3 DEF TestSent, TestMoves, With
    <3>. QED
      BY <2>2, <2>3, <3>1
  <2>4. CASE ~test.filling
    <3>1. test' = With(With(With(test, "at", "batch"), "req", 0), "entry", 0)
      BY <1>9, <2>1, <2>4 DEF TestSent, TestMoves, With
    <3>. QED
      BY <2>2, <3>1
  <2>. QED
    BY <2>3, <2>4
<1>10. CASE TestFilled
  <2>1. PICK b : test' = [test EXCEPT !.at = "poll", !.filling = b, !.entry = 0]
    BY <1>10 DEF TestFilled, TestMoves
  <2>. PICK t1 : t1 = With(test, "at", "poll")
    OBVIOUS
  <2>. PICK t2 : t2 = With(t1, "filling", b)
    OBVIOUS
  <2>. PICK t3 : t3 = With(t2, "entry", 0)
    OBVIOUS
  <2>2. test' = t3
    BY <2>1 DEF With
  <2>3. IsFcn(t1) /\ {"at", "req"} \subseteq DOMAIN t1 /\ t1["at"] = "poll" /\ t1["req"] = 0
    BY <1>2 DEF IsTest, TestFields
  <2>4. IsFcn(t2) /\ {"at", "req"} \subseteq DOMAIN t2 /\ t2["at"] = "poll" /\ t2["req"] = 0
    BY <2>3, FieldSet DEF With
  <2>5. t3["at"] = "poll" /\ t3["req"] = 0
    BY <2>4, FieldSet DEF With
  <2>. QED
    BY <1>1, <2>2, <2>5
<1>11. CASE TestChooses
  <2>1. UNCHANGED slotBusy
    BY <1>11 DEF TestChooses, TestMoves, slotVars
  <2>2. FreeSlots' = FreeSlots
    BY <2>1 DEF FreeSlots
  <2>3. CASE test' = [test EXCEPT !.at = "batch"]
    BY <1>4, <2>3
  <2>4. CASE test' # [test EXCEPT !.at = "batch"]
    <3>1. PICK i : test' = [test EXCEPT !.at = "send", !.entry = i]
      BY <1>11, <2>4 DEF TestChooses, TestMoves
    <3>. PICK t1 : t1 = With(test, "at", "send")
      OBVIOUS
    <3>. PICK t2 : t2 = With(t1, "entry", i)
      OBVIOUS
    <3>2. test' = t2
      BY <3>1 DEF With
    <3>3. IsTest(t1) /\ t1.req = 0 /\ t1.filling = test.filling
      BY <1>2
    <3>4. "entry" \in TestFields /\ {"req", "filling"} \subseteq TestFields \ {"entry"}
      BY DEF TestFields
    <3>5. t2.req = 0 /\ t2.filling = test.filling
      BY <3>3, <3>4, LocalsKept
    <3>6. ~test.filling => FreeSlots # {}
      BY <1>11 DEF TestChooses, OneSlotInv
    <3>. QED
      BY <2>2, <3>2, <3>5, <3>6 DEF OneSlotInv
  <2>. QED
    BY <2>3, <2>4
<1>12. CASE TestFrees
  <2>. PICK q, s : q = test.batch /\ s = Head(q)
    OBVIOUS
  <2>1. q # <<>> /\ slotBusy' = slotBusy \ {s}
    BY <1>12 DEF TestFrees, ReleaseSlot
  <2>2. s \in Slot
    <3>1. q \in Seq(Slot)
      BY <1>0 DEF IsTest
    <3>. QED
      BY <2>1, <3>1, HeadTailProperties
  <2>3. FreeSlots' # {}
    BY <2>1, <2>2 DEF FreeSlots
  <2>4. PICK p, w : test' = [test EXCEPT !.batch = w, !.at = p]
    BY <1>12 DEF TestFrees
  <2>. PICK t1 : t1 = With(test, "batch", w)
    OBVIOUS
  <2>. PICK t2 : t2 = With(t1, "at", p)
    OBVIOUS
  <2>5. test' = t2
    BY <2>4 DEF With
  <2>6. IsFcn(t1) /\ "req" \in DOMAIN t1 /\ t1["req"] = 0
    BY <1>0, FieldSet DEF With, OneSlotInv
  <2>7. t2["req"] = 0
    BY <2>6, FieldSet DEF With
  <2>. QED
    BY <2>3, <2>5, <2>7 DEF OneSlotInv
<1>. QED
  BY <1>3, <1>5, <1>6, <1>7, <1>8, <1>9, <1>10, <1>11, <1>12 DEF TestStep

SlotsInv == (NumSlotReq = 1 => OneSlotInv) /\ (Room => RoomInv)

\* Every step of the system.
LEMMA SlotsStep ==
  ASSUME DimmOfQueue, WorkInv, SlotsInv, [Next]_vars
  PROVE  SlotsInv'
<1>0. UNCHANGED load /\ load \in Loads
  BY DEF Next, Running, Ends, vars, DimmOfQueue
<1>. PICK place, r, m : QueueInv(place, r, m)
  BY DEF DimmOfQueue
<1>1. (NumSlotReq' = 1 <=> NumSlotReq = 1) /\ (Room' <=> Room)
  BY <1>0 DEF Room, NumSlotReq, QueueDepth
<1>2. CASE SubmissionFills \/ SubmissionRefills
  <2>1. UNCHANGED <<slotBusy, test>>
    BY <1>2 DEF SubmissionFills, SubmissionRefills, slotVars, testVars
  <2>2. OneSlotInv => OneSlotInv'
    BY <2>1 DEF OneSlotInv, FreeSlots
  <2>3. Room => RoomInv'
    BY <1>0, <1>2, BenchKeepsRoom DEF SlotsInv
  <2>. QED
    BY <1>1, <2>2, <2>3 DEF SlotsInv
<1>3. CASE TestStep
  <2>1. NumSlotReq = 1 => OneSlotInv'
    BY <1>3, TestKeepsOneSlot DEF SlotsInv
  <2>2. Room => RoomInv'
    BY <1>0, <1>3, BenchKeepsRoom DEF SlotsInv
  <2>. QED
    BY <1>1, <2>1, <2>2 DEF SlotsInv
<1>4. CASE UNCHANGED hostVars
  <2>1. RoomInv => RoomInv'
    BY <1>0, <1>4, RoomRests
  <2>2. UNCHANGED <<slotBusy, test>>
    BY <1>4 DEF hostVars, slotVars, testVars
  <2>3. OneSlotInv => OneSlotInv'
    BY <2>2 DEF OneSlotInv, FreeSlots
  <2>. QED
    BY <1>1, <2>1, <2>3 DEF SlotsInv
<1>5. \/ SubmissionFills \/ SubmissionRefills \/ TestStep \/ UNCHANGED hostVars
  BY DEF Next, Running, Ends, vars, KernelStep, TimePasses
<1>. QED
  BY <1>2, <1>3, <1>4, <1>5

\* The test never wants a slot when none is free, if commands need one slot or
\* the slots are enough for all the queue holds: it would give up sending for good.
THEOREM QueueSlots ==
  ASSUME SlotsSuffice
  PROVE  Spec => []NeverOutOfSlots
<1>1. Init => WorkInv /\ SlotsInv
  <2>1. ASSUME Init PROVE OneSlotInv
    <3>1. test = [at |-> "send", filling |-> TRUE, entry |-> 1, req |-> 0,
                  tag |-> 0, slot |-> 0, batch |-> <<>>, slotNotFree |-> FALSE]
      BY <2>1, Zenon DEF Init, HostInit
    <3>. QED
      BY <3>1 DEF OneSlotInv
  <2>. QED
    BY <2>1, WorkAtStart, RoomAtStart DEF SlotsInv
<1>2. DimmOfQueue /\ WorkInv /\ SlotsInv /\ [Next]_vars => WorkInv' /\ SlotsInv'
  BY WorkStep, SlotsStep
<1>3. DimmOfQueue /\ SlotsInv => NeverOutOfSlots
  <2>1. ASSUME DimmOfQueue, SlotsInv, test.at = "send", ~test.filling
        PROVE  FreeSlots # {}
    <3>1. load \in Loads /\ EntriesFit /\ slotBusy \subseteq Slot
      BY <2>1 DEF DimmOfQueue, QueueInv, SlotsHeld
    <3>2. CASE NumSlotReq = 1
      BY <2>1, <3>2 DEF SlotsInv, OneSlotInv
    <3>3. CASE NumSlotReq # 1
      <4>1. Room
        BY <3>1, <3>3 DEF SlotsSuffice, Room, NumSlotReq, QueueDepth
      <4>2. ~Filled
        BY <2>1 DEF Filled
      <4>. QED
        BY <2>1, <3>1, <4>1, <4>2, RoomForNext DEF SlotsInv
    <3>. QED
      BY <3>2, <3>3
  <2>. QED
    BY <2>1 DEF NeverOutOfSlots
<1>. QED
  BY <1>1, <1>2, <1>3, QueueKeepsDimm, PTL DEF Spec
============================================================================
