------------------------------- MODULE CoreHost -------------------------------
(***************************************************************************)
(* TestBenchTop with several cores (mMode = 1): mcore_thread for each core *)
(* takes the next command of the traffic generator, sends its sub-commands *)
(* one by one through the slot with the core's number and polls the status *)
(* of that slot.  The cores share the DDR bus under bus_arbiter, an        *)
(* sc_mutex: unlock notifies at once, and who of the waiting cores gets    *)
(* the lock is decided by the kernel.                                      *)
(*                                                                         *)
(* A poll that finds nothing changes nothing but the time: the model lets  *)
(* the poll timer expire only when there is a status to read.              *)
(*                                                                         *)
(* residualCmd is set for the first cores only: what the others read is    *)
(* arbitrary, here up to MaxResidual.                                      *)
(*                                                                         *)
(* The number of commands, mNumCmd, is here part of a test; NumCmds bounds *)
(* it.                                                                     *)
(***************************************************************************)
EXTENDS DimmBench

CONSTANTS
  NumCores,      \* mNumCore
  MaxResidual    \* bound on the value of an uninitialised residualCmd

ASSUME CoreHostAssumption ==
  /\ Mode = 1 /\ NumCores \in 1 .. NumSlots
  /\ MaxResidual \in Nat
  /\ \A l \in Loads : l.cmds \in NumCores .. NumCmds

Core == 0 .. NumCores - 1
CoreThread(c) == <<"mcore_thread", c>>
BusFree == <<"bus_arbiter", 0>>
NoCore == -1

VARIABLES
  busOwner,     \* owner of bus_arbiter
  quota,        \* numCmdPerThread + residualCmd
  core,         \* locals of mcore_thread
  cmdCounter,
  issued,       \* commands read from the traffic generator
  ended         \* sc_stop was called

coreVars == <<busOwner, quota, core, cmdCounter, issued, ended>>
benchVars == <<cmdIndex, tagVars, completed>>
hostVars == <<benchVars, coreVars>>
vars == <<load, kernelVars, deviceVars, controllerVars, hostVars>>

mNumCmd == load.cmds
numCmdPerThread == mNumCmd \div NumCores

CoreInit ==
  /\ busOwner = NoCore
  /\ quota \in {f \in [Core -> numCmdPerThread .. numCmdPerThread + 1 + MaxResidual] :
       \A c \in Core : f[c] - numCmdPerThread \in
         IF c < mNumCmd % NumCores THEN {1} ELSE 0 .. MaxResidual}
  /\ core = [c \in Core |-> [at |-> "next", cmd |-> "NONE", lba |-> 0, id |-> 0,
                             req |-> 0, tag |-> 0, did |-> 0]]
  /\ cmdCounter = 0 /\ issued = 0 /\ ended = FALSE
  /\ completed = [i \in 1 .. NumCmds + NumCores * (MaxResidual + 1) |-> 0]

Init ==
  /\ ControllerInit /\ BenchInit /\ CoreInit
  /\ waiting = [p \in ControllerProcs \cup {CoreThread(c) : c \in Core} |->
       IF p[1] = "mcore_thread" THEN {} ELSE FirstWait(p)]
  /\ runnable = {CoreThread(c) : c \in Core} /\ running = Nobody /\ pending = {}
  /\ peq = [q \in Peqs \cup {CoreThread(c) : c \in Core} |-> EmptyPeq]

At(c, place) == Turn(CoreThread(c)) /\ core[c].at = place
Goes(c, place) == core' = [core EXCEPT ![c].at = place]

\* Mutant: the bus is used without the lock.
BusAsIfFree == TRUE

BusIsFree == busOwner = NoCore

\* bus_arbiter.lock() while another core holds it.
CoreWaitsForBus(c) ==
  /\ Turn(CoreThread(c)) /\ core[c].at \in {"lockSend", "lockPoll", "lockCheck"}
  /\ ~BusIsFree
  /\ Wait(CoreThread(c), {BusFree})
  /\ UNCHANGED <<deviceVars, controllerVars, hostVars, pending, peq>>

\* The next command, or the end of the thread.
CoreNext(c) ==
  /\ At(c, "next") /\ core[c].did < quota[c]
  /\ issued' = issued + 1
  /\ \E k \in load.kinds, l \in Lbas :
       core' = [core EXCEPT ![c] = [@ EXCEPT !.at = "begin", !.cmd = k,
                                     !.lba = l, !.id = issued + 1, !.req = 0]]
  /\ GoOn(CoreThread(c))
  /\ UNCHANGED <<deviceVars, controllerVars, benchVars, busOwner, quota,
                 cmdCounter, ended, pending, peq>>

CoreEnds(c) ==
  /\ At(c, "next") /\ core[c].did = quota[c]
  /\ ended' = (cmdCounter = mNumCmd)
  /\ Goes(c, "ended")
  /\ Wait(CoreThread(c), {})
  /\ UNCHANGED <<deviceVars, controllerVars, benchVars, busOwner, quota,
                 cmdCounter, issued, pending, peq>>

\* Before it asks for the bus, a sub-command joins the list of its command's
\* tag.  Only the first one takes a tag; the others use it again without a
\* look at whether it has been freed and given out since.
CoreBegins(c) ==
  LET isFirst == core[c].req = 0
      t == IF isFirst THEN Least(FreeTags) ELSE core[c].tag IN
  /\ At(c, "begin")
  /\ AddSlot(t, c, isFirst)
  /\ core' = [core EXCEPT ![c].at = "lockSend", ![c].tag = t]
  /\ GoOn(CoreThread(c))
  /\ UNCHANGED <<deviceVars, controllerVars, cmdIndex, completed, busOwner, quota,
                 cmdCounter, issued, ended, pending, peq>>

\* The lock, and the first transfer of sendWrite or sendRead.  The slot is the
\* core's number and every sub-command of a command goes to the same address.
CoreSends(c) ==
  LET k == core[c] IN
  /\ At(c, "lockSend") /\ BusIsFree
  /\ busOwner' = c
  /\ cmdIndex' = cmdIndex + 1
  /\ IF k.cmd = "WRITE" THEN sendData(c, cmdIndex + 1)
     ELSE sendCommand(c, cmdIndex + 1, "READ", k.lba)
  /\ Goes(c, IF k.cmd = "WRITE" THEN "command" ELSE "sent")
  /\ Transfer(CoreThread(c))
  /\ UNCHANGED <<deviceVars, dispatch, mAscq, mAlcq, statusVars,
                 mAvailableCredit, manager, mIntermediateQueue, mSlotNumQueue,
                 mCompletionQueue, mCompletionQueue_mcore, tagVars, completed,
                 quota, cmdCounter, issued, ended>>

CoreSendsCommand(c) ==
  /\ At(c, "command")
  /\ sendCommand(c, cmdIndex, "WRITE", core[c].lba)
  /\ Goes(c, "sent")
  /\ Transfer(CoreThread(c))
  /\ UNCHANGED <<deviceVars, dispatch, mAscq, mAlcq, statusVars,
                 mAvailableCredit, manager, mIntermediateQueue, mSlotNumQueue,
                 mCompletionQueue, mCompletionQueue_mcore, benchVars, busOwner,
                 quota, cmdCounter, issued, ended>>

\* unlock, and wait(mPollWaitTime).
CoreSent(c) ==
  /\ At(c, "sent")
  /\ busOwner' = NoCore
  /\ Goes(c, "lockPoll")
  /\ peq' = [peq EXCEPT ![CoreThread(c)] = [run |-> <<"poll">>, due |-> <<>>]]
  /\ WaitAfter(CoreThread(c), {CoreThread(c)}, {BusFree})
  /\ UNCHANGED <<deviceVars, controllerVars, benchVars, quota, cmdCounter,
                 issued, ended, pending>>

\* readCompletionQueue: the status of the slot is read and reset.
CorePolls(c) ==
  /\ At(c, "lockPoll") /\ BusIsFree
  /\ busOwner' = c
  /\ mCompletionQueue_mcore' = [mCompletionQueue_mcore EXCEPT ![c] = FALSE]
  /\ Goes(c, "polled")
  /\ Transfer(CoreThread(c))
  /\ UNCHANGED <<deviceVars, bankVars, dispatch, mAscq, mAlcq, statusVars,
                 mAvailableCredit, manager, mIntermediateQueue, mSlotNumQueue,
                 mCompletionQueue, mDataBuffer, benchVars, quota, cmdCounter,
                 issued, ended, pending>>

\* unlock; the data of a read is fetched under a lock of its own.
CorePolled(c) ==
  /\ At(c, "polled")
  /\ busOwner' = NoCore
  /\ Goes(c, IF core[c].cmd = "READ" THEN "lockCheck" ELSE "done")
  /\ GoOnAfter(CoreThread(c), {BusFree})
  /\ UNCHANGED <<deviceVars, controllerVars, benchVars, quota, cmdCounter,
                 issued, ended, pending, peq>>

CoreLoadsData(c) ==
  /\ At(c, "lockCheck") /\ BusIsFree
  /\ busOwner' = c
  /\ Goes(c, "loaded")
  /\ Transfer(CoreThread(c))
  /\ UNCHANGED <<deviceVars, controllerVars, benchVars, quota, cmdCounter,
                 issued, ended, pending>>

CoreLoaded(c) ==
  /\ At(c, "loaded")
  /\ busOwner' = NoCore
  /\ Goes(c, "done")
  /\ GoOnAfter(CoreThread(c), {BusFree})
  /\ UNCHANGED <<deviceVars, controllerVars, benchVars, quota, cmdCounter,
                 issued, ended, pending, peq>>

\* Mutant: the core's own slot is still counted.
StillListed(c) == queueSlots[TagOf(c)] = {}

\* Core c has the only slot in the list its own is found in.
ListEmptied(c) == queueSlots[TagOf(c)] = {c}

\* The slot leaves the list of its command; an empty list frees the tag.
CoreFinishes(c) ==
  LET k == core[c]
      isLast == k.req + 1 = NumSlotReq IN
  /\ At(c, "done")
  /\ RemoveSlot(c, ListEmptied(c))
  /\ core' = [core EXCEPT
       ![c].at = IF isLast THEN "next" ELSE "begin",
       ![c].req = @ + 1,
       ![c].did = IF isLast THEN @ + 1 ELSE @]
  /\ cmdCounter' = IF isLast THEN cmdCounter + 1 ELSE cmdCounter
  /\ completed' = IF isLast THEN [completed EXCEPT ![k.id] = @ + 1] ELSE completed
  /\ GoOn(CoreThread(c))
  /\ UNCHANGED <<deviceVars, controllerVars, cmdIndex, busOwner, quota, issued,
                 ended, pending, peq>>

CoreStep(c) ==
  \/ CoreWaitsForBus(c) \/ CoreNext(c) \/ CoreEnds(c) \/ CoreBegins(c)
  \/ CoreSends(c) \/ CoreSendsCommand(c) \/ CoreSent(c) \/ CorePolls(c) \/ CorePolled(c)
  \/ CoreLoadsData(c) \/ CoreLoaded(c) \/ CoreFinishes(c)

Polling(c) == peq[CoreThread(c)].run = <<"poll">>

TimePasses ==
  \E S \in SUBSET Timers :
    /\ S # {} /\ SameInstant(S)
    /\ \A c \in Core : CoreThread(c) \in S /\ Polling(c) => mCompletionQueue_mcore[c]
    /\ Expire(S)
    /\ UNCHANGED <<deviceVars, controllerVars, hostVars>>

KernelStep == Delta /\ UNCHANGED <<deviceVars, controllerVars, hostVars>>

Stopped == ended \/ \A c \in Core : core[c].at = "ended"

\* After sc_stop, or when every thread has ended, nothing happens.
Ends == Stopped /\ UNCHANGED vars

Running ==
  /\ ~Stopped /\ UNCHANGED load
  /\ \/ \E c \in Core : CoreStep(c)
     \/ ControllerStep /\ UNCHANGED hostVars
     \/ KernelStep \/ TimePasses

Next == Running \/ Ends

Spec == Init /\ [][Next]_vars

(***************************************************************************)
(* Properties.                                                             *)
(***************************************************************************)
\* Only the owner of bus_arbiter has a transfer under way.
OneBusMaster ==
  \A c \in Core :
    core[c].at \in {"command", "sent", "polled", "loaded"} <=> busOwner = c

\* The places between addSlotToList and removeSlotFromList.
Holding ==
  {"lockSend", "command", "sent", "lockPoll", "polled", "lockCheck", "loaded", "done"}
Holds(c) == core[c].at \in Holding

\* The tags of the slot manager, which the cores use without a lock.  Between
\* addSlotToList and removeSlotFromList a core's slot is in the list of its own
\* tag and no other, a core that waits for the bus included, and although two
\* cores may share a list: resetTags frees a tag between two sub-commands of
\* its command.  No tag is lost: one that is taken has a slot in its list.  And
\* while its first sub-command runs a command has its tag reserved, apart from
\* the others of which the same is true.
TagsKept ==
  /\ \A t \in Tag : queueSlots[t] = {c \in Core : Holds(c) /\ core[c].tag = t}
  /\ \A t \in slotTags : queueSlots[t] # {}
  /\ \A c \in Core : Holds(c) /\ core[c].req = 0 => core[c].tag \in slotTags
  /\ \A c, d \in Core :
       /\ Holds(c) /\ core[c].req = 0
       /\ Holds(d) /\ core[d].req = 0 /\ core[c].tag = core[d].tag
       => c = d
=============================================================================
