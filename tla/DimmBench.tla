------------------------------ MODULE DimmBench ------------------------------
(***************************************************************************)
(* What the two drivers of TestBenchTop share: the traffic of a test, the  *)
(* slot manager, and the transfers over the DDR bus into the controller.   *)
(*                                                                         *)
(* A command is NumSlotReq sub-commands of Cws code words; a sub-command   *)
(* occupies a slot.  Sub-commands are numbered in the order they are sent, *)
(* which names their data.                                                 *)
(***************************************************************************)
EXTENDS DimmController

CONSTANTS
  NumCmds,      \* mNumCmd
  Cws,          \* code words of a sub-command: mBlockSize / mCwSize
  Loads,        \* the tests: types of command, NumSlotReq and QueueDepth
  Lbas          \* start addresses the traffic generator emits

ASSUME BenchAssumption ==
  /\ NumCmds \in Nat \ {0} /\ Cws \in 1 .. SlotCws /\ Lbas \subseteq Nat
  /\ \A l \in Loads : /\ l.kinds \subseteq {"READ", "WRITE"}
                       /\ l.req \in 1 .. NumSlots /\ l.depth \in 1 .. NumCmds

VARIABLES
  load,          \* the test that runs
  cmdIndex,      \* sub-commands sent
  queueSlots,    \* slots of the command with a tag
  slotTags, firstSlotTags,
  completed      \* how often each command was reported (not in the code)

tagVars == <<queueSlots, slotTags, firstSlotTags>>

NumSlotReq == load.req    \* sub-commands of a command: mIoSize / mBlockSize
QueueDepth == load.depth  \* mQueueDepth

Cmd == 1 .. NumCmds
Tag == Slot

BenchInit ==
  /\ load \in Loads
  /\ cmdIndex = 0
  /\ queueSlots = [t \in Tag |-> {}]
  /\ slotTags = {} /\ firstSlotTags = [t \in Tag |-> 0]

\* getFreeTags: the first free tag (there is one for each slot).
FreeTags == Tag \ slotTags

\* addSlotToList, with getFreeTags and addFirstSlotNum for the first slot.
AddSlot(t, s, isFirst) ==
  /\ queueSlots' = [queueSlots EXCEPT ![t] = @ \cup {s}]
  /\ IF isFirst
     THEN /\ slotTags' = slotTags \cup {t}
          /\ firstSlotTags' = [firstSlotTags EXCEPT ![t] = s]
     ELSE UNCHANGED <<slotTags, firstSlotTags>>

\* The tag removeSlotFromList finds slot s under.
TagOf(s) == Least({t \in Tag : s \in queueSlots[t]})

\* removeSlotFromList, and resetTags if the command is over.
RemoveSlot(s, isLast) ==
  /\ queueSlots' = [queueSlots EXCEPT ![TagOf(s)] = @ \ {s}]
  /\ slotTags' = IF isLast THEN slotTags \ {TagOf(s)} ELSE slotTags
  /\ UNCHANGED firstSlotTags

\* b_transport to the data buffer, or to the command queue.
sendData(s, id) ==
  /\ WriteBlockData(s, id, Cws)
  /\ UNCHANGED <<bankVars, pending>>

sendCommand(s, id, cmd, lba) ==
  /\ processPCMDQueue(s, id, cmd, lba, Cws)
  /\ UNCHANGED mDataBuffer

\* A bus transfer takes time.
Transfer(p) == Sleep(p, "bus")

\* The controller as the service it offers: a slot is busy while code words of
\* its command are left, and done until the host has read the completion.
SlotState == [s \in Slot |->
  IF s \in Range(mSlotNumQueue \o mCompletionQueue) \/ mCompletionQueue_mcore[s]
  THEN "done"
  ELSE IF WordsLeft(s) # {} THEN "busy" ELSE "idle"]

\* What the host sees of a slot: number of its command and what became of it.
SlotsSeen == [s \in Slot |-> [id |-> mSlotTable[s].id, state |-> SlotState[s]]]

SlotService == INSTANCE DimmService WITH Slots <- Slot, slot <- SlotsSeen

\* The controller implements DimmService: a slot is not given a new command
\* while it is busy or done, and no command is dropped or reported twice.
ServiceSpec == SlotService!Spec
==============================================================================
