---------------------------- MODULE CoreHostProofs ----------------------------
(***************************************************************************)
(* The bench with a thread per core, for every number of cores, slots,     *)
(* channels and commands, whatever the controller does: mutual exclusion   *)
(* on the DDR bus, and the tags of the slot manager.  And the controller   *)
(* as the cores use it: where the code words are, the countdowns, the      *)
(* credits and the service.                                                *)
(***************************************************************************)
EXTENDS CoreHost, DimmControllerProofs

\* Where a core has a transfer under way.
OnTheBus == {"command", "sent", "polled", "loaded"}

\* What the proofs need to know of the cores' locals: a record for each core.
Fields == {"at", "req", "lba", "tag"}
HasPlace(k) ==
  Fields \subseteq DOMAIN k /\ k = [f \in DOMAIN k |-> k[f]]

CoreRecords ==
  /\ core = [c \in Core |-> core[c]]
  /\ \A c \in Core : HasPlace(core[c])

BusInv == CoreRecords /\ OneBusMaster

\* The variables of the invariant.
busVars == <<core, busOwner>>

\* A free bus is not owned by a core.
LEMMA NoCoreIsNone == NoCore \notin Core
  BY ControllerAssumption, CoreHostAssumption DEF NoCore, Core

\* At the start every core is about to take a command and the bus is free.
LEMMA BusInvInit == Init => BusInv
  <1>. SUFFICES ASSUME CoreInit PROVE BusInv
    BY DEF Init
  <1>. QED
    BY NoCoreIsNone, Zenon DEF CoreInit, BusInv, CoreRecords, HasPlace, Fields, OneBusMaster

(***************************************************************************)
(* The locals a step of mcore_thread leaves.                               *)
(***************************************************************************)
\* Core c gets the locals k.
Moves(c, k) == HasPlace(k) /\ core' = [core EXCEPT ![c] = k]

\* Assigning one field of a core's locals leaves the others as they are.
LEMMA OneFieldSet ==
  ASSUME NEW k, HasPlace(k), NEW f, NEW x
  PROVE  /\ HasPlace([k EXCEPT ![f] = x])
         /\ f \in Fields => [k EXCEPT ![f] = x][f] = x
         /\ \A g \in Fields \ {f} : [k EXCEPT ![f] = x][g] = k[g]
  BY DEF HasPlace, Fields

\* The other cores keep their locals.
LEMMA OthersStay ==
  ASSUME CoreRecords, NEW c \in Core, NEW k, Moves(c, k)
  PROVE  CoreRecords' /\ core'[c] = k /\ \A d \in Core \ {c} : core'[d] = core[d]
  BY DEF CoreRecords, Moves, HasPlace

\* Most steps of mcore_thread move the core and leave its sub-command.
LEMMA GoesMoves ==
  ASSUME CoreRecords, NEW c \in Core, NEW p, Goes(c, p)
  PROVE  \E k : /\ Moves(c, k) /\ k.at = p /\ k.req = core[c].req
                /\ k.lba = core[c].lba /\ k.tag = core[c].tag
<1>. DEFINE k == [core[c] EXCEPT !.at = p]
<1>1. HasPlace(core[c])
  BY DEF CoreRecords
<1>2. /\ HasPlace(k) /\ k.at = p /\ k.req = core[c].req
      /\ k.lba = core[c].lba /\ k.tag = core[c].tag
  BY <1>1, OneFieldSet DEF Fields
<1>3. core' = [core EXCEPT ![c] = k]
  BY DEF Goes, CoreRecords
<1>. HIDE DEF k
<1>. QED
  BY <1>2, <1>3 DEF Moves

\* The next command starts with its first sub-command.
LEMMA NextMoves ==
  ASSUME CoreRecords, NEW c \in Core, CoreNext(c)
  PROVE  \E k : /\ Moves(c, k) /\ k.at = "begin" /\ k.req = 0
                /\ k.lba \in Lbas /\ k.tag = core[c].tag
<1>. PICK cmd \in load.kinds, lba \in Lbas :
       core' = [core EXCEPT ![c] = [@ EXCEPT !.at = "begin", !.cmd = cmd,
                                     !.lba = lba, !.id = issued + 1, !.req = 0]]
  BY Zenon DEF CoreNext
<1>. DEFINE k1 == [core[c] EXCEPT !.at = "begin"]
            k2 == [k1 EXCEPT !.cmd = cmd]
            k3 == [k2 EXCEPT !.lba = lba]
            k4 == [k3 EXCEPT !.id = issued + 1]
            k5 == [k4 EXCEPT !.req = 0]
<1>1. core' = [core EXCEPT ![c] = k5]
  BY Zenon
<1>2. HasPlace(core[c])
  BY DEF CoreRecords
<1>3. HasPlace(k1) /\ k1.at = "begin" /\ k1.tag = core[c].tag
  BY <1>2, OneFieldSet DEF Fields
<1>. HIDE DEF k1
<1>4. HasPlace(k2) /\ k2.at = "begin" /\ k2.tag = core[c].tag
  BY <1>3, OneFieldSet DEF Fields
<1>. HIDE DEF k2
<1>5. HasPlace(k3) /\ k3.at = "begin" /\ k3.lba = lba /\ k3.tag = core[c].tag
  BY <1>4, OneFieldSet DEF Fields
<1>. HIDE DEF k3
<1>6. HasPlace(k4) /\ k4.at = "begin" /\ k4.lba = lba /\ k4.tag = core[c].tag
  BY <1>5, OneFieldSet DEF Fields
<1>. HIDE DEF k4
<1>7. HasPlace(k5) /\ k5.at = "begin" /\ k5.req = 0 /\ k5.lba = lba /\ k5.tag = core[c].tag
  BY <1>6, OneFieldSet DEF Fields
<1>. HIDE DEF k5
<1>. QED
  BY <1>1, <1>7 DEF Moves

\* The tag a sub-command runs under.
TagFor(c) == IF core[c].req = 0 THEN Least(FreeTags) ELSE core[c].tag

\* A sub-command has a tag before the core asks for the bus.
LEMMA BeginsMoves ==
  ASSUME CoreRecords, NEW c \in Core, CoreBegins(c)
  PROVE  \E k : /\ Moves(c, k) /\ k.at = "lockSend" /\ k.req = core[c].req
                /\ k.lba = core[c].lba /\ k.tag = TagFor(c)
<1>. DEFINE t == TagFor(c)
            k1 == [core[c] EXCEPT !.at = "lockSend"]
            k2 == [k1 EXCEPT !.tag = t]
<1>1. core' = [core EXCEPT ![c].at = "lockSend", ![c].tag = t]
  BY DEF CoreBegins, TagFor
<1>2. HasPlace(core[c])
  BY DEF CoreRecords
<1>3. core' = [core EXCEPT ![c] = k2]
  BY <1>1 DEF CoreRecords
<1>. HIDE DEF t
<1>4. HasPlace(k1) /\ k1.at = "lockSend" /\ k1.req = core[c].req /\ k1.lba = core[c].lba
  BY <1>2, OneFieldSet DEF Fields
<1>. HIDE DEF k1
<1>5. /\ HasPlace(k2) /\ k2.at = "lockSend" /\ k2.req = core[c].req
      /\ k2.lba = core[c].lba /\ k2.tag = t
  BY <1>4, OneFieldSet DEF Fields
<1>. HIDE DEF k2
<1>. QED
  BY <1>3, <1>5 DEF Moves, t

\* A sub-command is sent with one transfer or, for a write, two.
LEMMA SendsMoves ==
  ASSUME CoreRecords, NEW c \in Core, CoreSends(c)
  PROVE  \E k : /\ Moves(c, k) /\ k.req = core[c].req
                /\ k.lba = core[c].lba /\ k.tag = core[c].tag
                /\ k.at = IF core[c].cmd = "WRITE" THEN "command" ELSE "sent"
<1>. PICK p : p = IF core[c].cmd = "WRITE" THEN "command" ELSE "sent"
  OBVIOUS
<1>1. Goes(c, p)
  BY DEF CoreSends
<1>. QED
  BY <1>1, GoesMoves

\* The last sub-command of a command ends it.
LEMMA FinishesMoves ==
  ASSUME CoreRecords, NEW c \in Core, CoreFinishes(c)
  PROVE  \E k : /\ Moves(c, k) /\ k.at \in {"next", "begin"}
                /\ k.lba = core[c].lba /\ k.tag = core[c].tag
<1>. DEFINE isLast == core[c].req + 1 = NumSlotReq
            p == IF isLast THEN "next" ELSE "begin"
            r == core[c].req + 1
            n == IF isLast THEN core[c].did + 1 ELSE core[c].did
<1>1. core' = [core EXCEPT ![c].at = p, ![c].req = r, ![c].did = n]
  BY DEF CoreFinishes
<1>. DEFINE k1 == [core[c] EXCEPT !.at = p]
            k2 == [k1 EXCEPT !.req = r]
            k3 == [k2 EXCEPT !.did = n]
<1>2. HasPlace(core[c])
  BY DEF CoreRecords
<1>3. core' = [core EXCEPT ![c] = k3]
  BY <1>1 DEF CoreRecords
<1>4. p \in {"next", "begin"}
  OBVIOUS
<1>. HIDE DEF p, r, n
<1>5. HasPlace(k1) /\ k1.at = p /\ k1.lba = core[c].lba /\ k1.tag = core[c].tag
  BY <1>2, OneFieldSet DEF Fields
<1>. HIDE DEF k1
<1>6. HasPlace(k2) /\ k2.at = p /\ k2.lba = core[c].lba /\ k2.tag = core[c].tag
  BY <1>5, OneFieldSet DEF Fields
<1>. HIDE DEF k2
<1>7. HasPlace(k3) /\ k3.at = p /\ k3.lba = core[c].lba /\ k3.tag = core[c].tag
  BY <1>6, OneFieldSet DEF Fields
<1>. HIDE DEF k3
<1>. QED
  BY <1>3, <1>4, <1>7 DEF Moves

(***************************************************************************)
(* Mutual exclusion on the bus.                                            *)
(***************************************************************************)
\* Core c gets new locals k: it stays on or off the bus, takes the free bus,
\* or leaves it.
LEMMA OneCoreMoves ==
  ASSUME BusInv, NEW c \in Core, NEW k, Moves(c, k),
         \/ /\ k.at \in OnTheBus <=> core[c].at \in OnTheBus
            /\ busOwner' = busOwner
         \/ busOwner = NoCore /\ busOwner' = c /\ k.at \in OnTheBus
         \/ core[c].at \in OnTheBus /\ busOwner' = NoCore /\ k.at \notin OnTheBus
  PROVE  BusInv'
<1>1. CoreRecords' /\ core'[c] = k /\ \A d \in Core \ {c} : core'[d] = core[d]
  BY OthersStay DEF BusInv
<1>2. ASSUME NEW d \in Core
      PROVE  core'[d].at \in OnTheBus <=> busOwner' = d
  BY <1>1, NoCoreIsNone DEF BusInv, OneBusMaster, OnTheBus
<1>. QED
  BY <1>1, <1>2 DEF BusInv, OneBusMaster, OnTheBus

\* The steps of mcore_thread.
LEMMA CoreStepKeeps ==
  ASSUME BusInv, NEW c \in Core, CoreStep(c)
  PROVE  BusInv'
<1>0. CoreRecords
  BY DEF BusInv
<1>1. CASE CoreWaitsForBus(c)
  BY <1>1 DEF CoreWaitsForBus, hostVars, coreVars, BusInv, CoreRecords, OneBusMaster, HasPlace
<1>2. CASE CoreNext(c)
  <2>1. core[c].at = "next" /\ busOwner' = busOwner
    BY <1>2 DEF CoreNext, At
  <2>. QED
    BY <1>0, <1>2, <2>1, NextMoves, OneCoreMoves DEF OnTheBus
<1>3. CASE CoreEnds(c)
  <2>1. core[c].at = "next" /\ busOwner' = busOwner /\ Goes(c, "ended")
    BY <1>3 DEF CoreEnds, At
  <2>. QED
    BY <1>0, <2>1, GoesMoves, OneCoreMoves DEF OnTheBus
<1>4. CASE CoreSends(c)
  <2>1. busOwner = NoCore /\ busOwner' = c
    BY <1>4 DEF CoreSends, BusIsFree
  <2>. QED
    BY <1>0, <1>4, <2>1, SendsMoves, OneCoreMoves DEF OnTheBus
<1>5. CASE CoreSendsCommand(c)
  <2>1. core[c].at = "command" /\ busOwner' = busOwner /\ Goes(c, "sent")
    BY <1>5 DEF CoreSendsCommand, At
  <2>. QED
    BY <1>0, <2>1, GoesMoves, OneCoreMoves DEF OnTheBus
<1>6. CASE CoreSent(c)
  <2>1. core[c].at = "sent" /\ busOwner' = NoCore /\ Goes(c, "lockPoll")
    BY <1>6 DEF CoreSent, At
  <2>. QED
    BY <1>0, <2>1, GoesMoves, OneCoreMoves DEF OnTheBus
<1>7. CASE CorePolls(c)
  <2>1. busOwner = NoCore /\ busOwner' = c /\ Goes(c, "polled")
    BY <1>7 DEF CorePolls, BusIsFree
  <2>. QED
    BY <1>0, <2>1, GoesMoves, OneCoreMoves DEF OnTheBus
<1>8. CASE CorePolled(c)
  <2>. PICK p \in {"lockCheck", "done"} : Goes(c, p)
    BY <1>8 DEF CorePolled
  <2>1. core[c].at = "polled" /\ busOwner' = NoCore
    BY <1>8 DEF CorePolled, At
  <2>. QED
    BY <1>0, <2>1, GoesMoves, OneCoreMoves DEF OnTheBus
<1>9. CASE CoreLoadsData(c)
  <2>1. busOwner = NoCore /\ busOwner' = c /\ Goes(c, "loaded")
    BY <1>9 DEF CoreLoadsData, BusIsFree
  <2>. QED
    BY <1>0, <2>1, GoesMoves, OneCoreMoves DEF OnTheBus
<1>10. CASE CoreLoaded(c)
  <2>1. core[c].at = "loaded" /\ busOwner' = NoCore /\ Goes(c, "done")
    BY <1>10 DEF CoreLoaded, At
  <2>. QED
    BY <1>0, <2>1, GoesMoves, OneCoreMoves DEF OnTheBus
<1>11. CASE CoreFinishes(c)
  <2>1. core[c].at = "done" /\ busOwner' = busOwner
    BY <1>11 DEF CoreFinishes, At
  <2>. QED
    BY <1>0, <1>11, <2>1, FinishesMoves, OneCoreMoves DEF OnTheBus
<1>12. CASE CoreBegins(c)
  <2>1. core[c].at = "begin" /\ busOwner' = busOwner
    BY <1>12 DEF CoreBegins, At
  <2>. QED
    BY <1>0, <1>12, <2>1, BeginsMoves, OneCoreMoves DEF OnTheBus
<1>. QED
  BY <1>1, <1>2, <1>3, <1>4, <1>5, <1>6, <1>7, <1>8, <1>9, <1>10, <1>11, <1>12
  DEF CoreStep

\* Every other step leaves the cores and the lock alone.
LEMMA BusInvStep ==
  ASSUME BusInv, [Next]_vars
  PROVE  BusInv'
<1>1. CASE \E c \in Core : CoreStep(c)
  BY <1>1, CoreStepKeeps
<1>2. CASE UNCHANGED busVars
  BY <1>2 DEF busVars, BusInv, CoreRecords, OneBusMaster
<1>3. CASE ControllerStep /\ UNCHANGED hostVars
  BY <1>2, <1>3 DEF hostVars, coreVars, busVars
<1>4. CASE KernelStep
  BY <1>2, <1>4 DEF KernelStep, hostVars, coreVars, busVars
<1>5. CASE TimePasses
  BY <1>2, <1>5 DEF TimePasses, hostVars, coreVars, busVars
<1>6. CASE UNCHANGED vars
  BY <1>2, <1>6 DEF vars, hostVars, coreVars, busVars
<1>. QED
  BY <1>1, <1>3, <1>4, <1>5, <1>6 DEF Next, Running, Ends

\* sc_mutex bus_arbiter: a core is in the middle of a transfer exactly while it
\* owns the bus, so no two cores transfer at once, for any number of cores.
THEOREM BusIsExclusive == Spec => []OneBusMaster
<1>1. Init => BusInv
  BY BusInvInit
<1>2. BusInv /\ [Next]_vars => BusInv'
  BY BusInvStep
<1>3. BusInv => OneBusMaster
  BY DEF BusInv
<1>. QED
  BY <1>1, <1>2, <1>3, PTL DEF Spec

(***************************************************************************)
(* The tags of the slot manager.                                           *)
(***************************************************************************)
\* The invariant, with what its proof needs to know of the variables.
TagInv ==
  /\ CoreRecords /\ \A c \in Core : core[c].tag \in Tag
  /\ slotTags \subseteq Tag /\ queueSlots \in [Tag -> SUBSET Core]
  /\ TagsKept

\* The variables of the invariant.
tagInvVars == <<core, queueSlots, slotTags>>

\* getFreeTags finds a tag for a core that holds none: there are as many tags
\* as slots, at least as many as cores, and each taken one has a core.
LEMMA TagIsFree ==
  ASSUME TagInv, NEW c \in Core, ~Holds(c)
  PROVE  Least(FreeTags) \in FreeTags
<1>. DEFINE f == [t \in Tag |-> CHOOSE d \in Core : d \in queueSlots[t]]
            Others == Core \ {c}
<1>1. FreeTags # {}
  <2>. SUFFICES ASSUME FreeTags = {} PROVE FALSE
    OBVIOUS
  <2>1. ASSUME NEW t \in Tag PROVE f[t] \in Others /\ core[f[t]].tag = t
    <3>1. queueSlots[t] # {} /\ queueSlots[t] \subseteq Core
      BY DEF FreeTags, TagInv, TagsKept
    <3>2. f[t] \in Core /\ f[t] \in queueSlots[t]
      BY <3>1
    <3>. QED
      BY <3>2 DEF TagInv, TagsKept
  <2>2. f \in [Tag -> Others]
    BY <2>1
  <2>3. \A t, u \in Tag : f[t] = f[u] => t = u
    BY <2>1
  <2>4. IsFiniteSet(Tag) /\ Cardinality(Tag) = NumSlots
    BY FS_Interval, ControllerAssumption DEF Tag, Slot
  <2>5. IsFiniteSet(Core) /\ Cardinality(Core) = NumCores
    <3>1. NumCores \in Nat \ {0} /\ NumCores <= NumSlots
      BY CoreHostAssumption, ControllerAssumption
    <3>2. 0 \in Int /\ NumCores - 1 \in Int /\ ~(0 > NumCores - 1)
      BY <3>1
    <3>3. /\ IsFiniteSet(0 .. NumCores - 1)
          /\ Cardinality(0 .. NumCores - 1) = NumCores - 1 - 0 + 1
      BY <3>2, FS_Interval, Zenon
    <3>. QED
      BY <3>1, <3>3 DEF Core
  <2>6. IsFiniteSet(Others) /\ Cardinality(Others) = NumCores - 1
    BY <2>5, FS_RemoveElement
  <2>7. Cardinality(Others) < Cardinality(Tag)
    BY <2>4, <2>6, CoreHostAssumption, ControllerAssumption
  <2>. HIDE DEF f, Others
  <2>. QED
    BY <2>2, <2>3, <2>4, <2>6, <2>7, FS_PigeonHole
<1>2. FreeTags \in SUBSET Nat
  BY ControllerAssumption DEF FreeTags, Tag, Slot
<1>. QED
  BY <1>1, <1>2, LeastExists DEF Least

\* A core that keeps its slot in its list, or has none before and after.
LEMMA TagsStay ==
  ASSUME TagInv, NEW c \in Core, NEW k, Moves(c, k), k.tag = core[c].tag,
         \/ k.at \in Holding /\ Holds(c) /\ k.req = core[c].req
         \/ k.at \notin Holding /\ ~Holds(c),
         UNCHANGED <<queueSlots, slotTags>>
  PROVE  TagInv'
<1>1. CoreRecords' /\ core'[c] = k /\ \A d \in Core \ {c} : core'[d] = core[d]
  BY OthersStay DEF TagInv
<1>2. \A d \in Core : /\ Holds(d)' <=> Holds(d)
                      /\ core'[d].tag = core[d].tag
                      /\ Holds(d) => core'[d].req = core[d].req
  BY <1>1 DEF Holds
<1>3. \A t \in Tag : queueSlots'[t] = {d \in Core : Holds(d)' /\ core'[d].tag = t}
  BY <1>2 DEF TagInv, TagsKept
<1>4. \A t \in slotTags' : queueSlots'[t] # {}
  BY DEF TagInv, TagsKept
<1>5. \A d \in Core : Holds(d)' /\ core'[d].req = 0 => core'[d].tag \in slotTags'
  BY <1>2 DEF TagInv, TagsKept
<1>6. \A d, e \in Core : /\ Holds(d)' /\ core'[d].req = 0
                         /\ Holds(e)' /\ core'[e].req = 0 /\ core'[d].tag = core'[e].tag
                         => d = e
  BY <1>2 DEF TagInv, TagsKept
<1>7. TagsKept'
  BY <1>3, <1>4, <1>5, <1>6 DEF TagsKept
<1>. QED
  BY <1>1, <1>2, <1>7 DEF TagInv

\* addSlotToList, with a new tag or with the one the command had.
LEMMA TagTaken ==
  ASSUME TagInv, NEW c \in Core, CoreBegins(c)
  PROVE  TagInv'
<1>. PICK t : t = TagFor(c)
  OBVIOUS
<1>1. ~Holds(c)
  BY DEF CoreBegins, At, Holds, Holding
<1>2. t \in Tag /\ (core[c].req = 0 => t \notin slotTags)
  BY <1>1, TagIsFree DEF TagFor, FreeTags, TagInv
<1>3. /\ queueSlots' = [queueSlots EXCEPT ![t] = @ \cup {c}]
      /\ core[c].req = 0 => slotTags' = slotTags \cup {t}
      /\ core[c].req # 0 => slotTags' = slotTags
  BY DEF CoreBegins, AddSlot, TagFor
<1>4. PICK k : Moves(c, k) /\ k.at = "lockSend" /\ k.req = core[c].req /\ k.tag = t
  BY BeginsMoves DEF TagInv
<1>5. CoreRecords' /\ core'[c] = k /\ \A d \in Core \ {c} : core'[d] = core[d]
  BY <1>4, OthersStay DEF TagInv
<1>6. /\ Holds(c)' /\ core'[c].tag = t /\ core'[c].req = core[c].req
      /\ \A d \in Core \ {c} : Holds(d)' <=> Holds(d)
  BY <1>4, <1>5 DEF Holds, Holding
<1>7. /\ queueSlots'[t] = queueSlots[t] \cup {c}
      /\ \A u \in Tag \ {t} : queueSlots'[u] = queueSlots[u]
  BY <1>2, <1>3 DEF TagInv
<1>8. slotTags \subseteq slotTags' /\ slotTags' \subseteq slotTags \cup {t}
  BY <1>3
<1>9. /\ \A d \in Core : core'[d].tag \in Tag
      /\ slotTags' \subseteq Tag /\ queueSlots' \in [Tag -> SUBSET Core]
  BY <1>2, <1>3, <1>5, <1>6, <1>8 DEF TagInv
<1>10. ASSUME NEW u \in Tag
       PROVE  queueSlots'[u] = {d \in Core : Holds(d)' /\ core'[d].tag = u}
  <2>1. queueSlots[u] = {d \in Core \ {c} : Holds(d) /\ core[d].tag = u}
    BY <1>1 DEF TagInv, TagsKept
  <2>2. queueSlots[u] = {d \in Core \ {c} : Holds(d)' /\ core'[d].tag = u}
    BY <1>5, <1>6, <2>1
  <2>. QED
    BY <1>6, <1>7, <2>2
<1>11. \A u \in slotTags' : queueSlots'[u] # {}
  BY <1>7, <1>8 DEF TagInv, TagsKept
<1>12. \A d \in Core : Holds(d)' /\ core'[d].req = 0 => core'[d].tag \in slotTags'
  BY <1>3, <1>5, <1>6, <1>8 DEF TagInv, TagsKept
<1>13. \A d \in Core \ {c} : Holds(d) /\ core[d].req = 0 /\ core[c].req = 0 => core[d].tag # t
  BY <1>2 DEF TagInv, TagsKept
<1>14. \A d, e \in Core : /\ Holds(d)' /\ core'[d].req = 0
                          /\ Holds(e)' /\ core'[e].req = 0 /\ core'[d].tag = core'[e].tag
                          => d = e
  BY <1>5, <1>6, <1>13 DEF TagInv, TagsKept
<1>15. TagsKept'
  BY <1>10, <1>11, <1>12, <1>14 DEF TagsKept
<1>. QED
  BY <1>5, <1>9, <1>15 DEF TagInv

\* removeSlotFromList finds the slot under the core's own tag, and resetTags
\* frees the tag if no other core works under it.
LEMMA TagGivenBack ==
  ASSUME TagInv, NEW c \in Core, CoreFinishes(c)
  PROVE  TagInv'
<1>. PICK t \in Tag : t = core[c].tag
  BY DEF TagInv
<1>1. Holds(c)
  BY DEF CoreFinishes, At, Holds, Holding
<1>2. {u \in Tag : c \in queueSlots[u]} = {t}
  BY <1>1 DEF TagInv, TagsKept
<1>3. TagOf(c) = t
  <2>1. t \in Nat
    BY ControllerAssumption DEF Tag, Slot
  <2>. QED
    BY <1>2, <2>1 DEF TagOf, Least
<1>4. /\ queueSlots' = [queueSlots EXCEPT ![t] = @ \ {c}]
      /\ slotTags' = IF queueSlots[t] = {c} THEN slotTags \ {t} ELSE slotTags
  BY <1>3 DEF CoreFinishes, RemoveSlot, ListEmptied
<1>5. PICK k : Moves(c, k) /\ k.at \in {"next", "begin"} /\ k.tag = t
  BY FinishesMoves DEF TagInv
<1>6. CoreRecords' /\ core'[c] = k /\ \A d \in Core \ {c} : core'[d] = core[d]
  BY <1>5, OthersStay DEF TagInv
<1>7. ~Holds(c)' /\ \A d \in Core \ {c} : Holds(d)' <=> Holds(d)
  BY <1>5, <1>6 DEF Holds, Holding
<1>8. /\ queueSlots'[t] = queueSlots[t] \ {c}
      /\ \A u \in Tag \ {t} : queueSlots'[u] = queueSlots[u]
  BY <1>4 DEF TagInv
<1>9. /\ \A d \in Core : core'[d].tag \in Tag
      /\ slotTags' \subseteq Tag /\ queueSlots' \in [Tag -> SUBSET Core]
  BY <1>4, <1>5, <1>6 DEF TagInv
<1>10. ASSUME NEW u \in Tag
       PROVE  queueSlots'[u] = {d \in Core : Holds(d)' /\ core'[d].tag = u}
  <2>1. queueSlots'[u] = queueSlots[u] \ {c}
    BY <1>2, <1>8
  <2>2. queueSlots[u] \ {c} = {d \in Core \ {c} : Holds(d) /\ core[d].tag = u}
    BY DEF TagInv, TagsKept
  <2>3. queueSlots[u] \ {c} = {d \in Core \ {c} : Holds(d)' /\ core'[d].tag = u}
    BY <1>6, <1>7, <2>2
  <2>. QED
    BY <1>7, <2>1, <2>3
<1>11. \A u \in slotTags' : queueSlots'[u] # {}
  <2>1. c \in queueSlots[t]
    BY <1>2
  <2>. QED
    BY <1>4, <1>8, <2>1 DEF TagInv, TagsKept
<1>12. ASSUME NEW d \in Core, Holds(d)', core'[d].req = 0
       PROVE  core'[d].tag \in slotTags'
  <2>1. d # c /\ Holds(d) /\ core[d].req = 0 /\ core'[d].tag = core[d].tag
    BY <1>6, <1>7, <1>12
  <2>2. core[d].tag \in slotTags /\ d \in queueSlots[core[d].tag]
    BY <2>1 DEF TagInv, TagsKept
  <2>. QED
    BY <1>4, <2>1, <2>2
<1>13. \A d, e \in Core : /\ Holds(d)' /\ core'[d].req = 0
                          /\ Holds(e)' /\ core'[e].req = 0 /\ core'[d].tag = core'[e].tag
                          => d = e
  BY <1>6, <1>7 DEF TagInv, TagsKept
<1>14. TagsKept'
  BY <1>10, <1>11, <1>12, <1>13 DEF TagsKept
<1>. QED
  BY <1>6, <1>9, <1>14 DEF TagInv

\* Every core is about to take its first command, and every tag is free.
LEMMA TagInvInit ==
  ASSUME Init
  PROVE  TagInv
<1>1. CoreRecords
  BY BusInvInit DEF BusInv
<1>2. \A c \in Core : core[c].at = "next" /\ core[c].tag = 0
  BY DEF Init, CoreInit
<1>3. queueSlots = [t \in Tag |-> {}] /\ slotTags = {} /\ 0 \in Tag
  BY ControllerAssumption DEF Init, BenchInit, Tag, Slot
<1>. QED
  BY <1>1, <1>2, <1>3 DEF TagInv, TagsKept, Holds, Holding

\* The steps of mcore_thread.
LEMMA CoreStepKeepsTags ==
  ASSUME TagInv, NEW c \in Core, CoreStep(c)
  PROVE  TagInv'
<1>0. CoreRecords
  BY DEF TagInv
<1>1. CASE UNCHANGED tagInvVars
  BY <1>1 DEF tagInvVars, TagInv, TagsKept, CoreRecords, HasPlace, Holds
<1>2. CASE CoreWaitsForBus(c)
  BY <1>1, <1>2 DEF CoreWaitsForBus, hostVars, benchVars, tagVars, coreVars, tagInvVars
<1>3. CASE CoreNext(c)
  <2>1. core[c].at = "next" /\ UNCHANGED <<queueSlots, slotTags>>
    BY <1>3 DEF CoreNext, At, benchVars, tagVars
  <2>2. PICK k : Moves(c, k) /\ k.at = "begin" /\ k.tag = core[c].tag
    BY <1>0, <1>3, NextMoves
  <2>. QED
    BY <2>1, <2>2, TagsStay DEF Holds, Holding
<1>4. CASE CoreEnds(c)
  <2>1. core[c].at = "next" /\ Goes(c, "ended") /\ UNCHANGED <<queueSlots, slotTags>>
    BY <1>4 DEF CoreEnds, At, benchVars, tagVars
  <2>2. PICK k : Moves(c, k) /\ k.at = "ended" /\ k.tag = core[c].tag
    BY <1>0, <2>1, GoesMoves
  <2>. QED
    BY <2>1, <2>2, TagsStay DEF Holds, Holding
<1>5. ASSUME NEW p \in Holding, Goes(c, p), Holds(c), UNCHANGED <<queueSlots, slotTags>>
      PROVE  TagInv'
  <2>1. PICK k : /\ Moves(c, k) /\ k.at = p
                 /\ k.req = core[c].req /\ k.tag = core[c].tag
    BY <1>0, <1>5, GoesMoves
  <2>. QED
    BY <1>5, <2>1, TagsStay
<1>6. CASE CoreSends(c)
  <2>. PICK p \in {"command", "sent"} : Goes(c, p)
    BY <1>6 DEF CoreSends
  <2>. QED
    BY <1>5, <1>6 DEF CoreSends, At, Holds, Holding, tagVars
<1>7. CASE CoreSendsCommand(c)
  BY <1>5, <1>7 DEF CoreSendsCommand, At, Holds, Holding, benchVars, tagVars
<1>8. CASE CoreSent(c)
  BY <1>5, <1>8 DEF CoreSent, At, Holds, Holding, benchVars, tagVars
<1>9. CASE CorePolls(c)
  BY <1>5, <1>9 DEF CorePolls, At, Holds, Holding, benchVars, tagVars
<1>10. CASE CorePolled(c)
  <2>. PICK p \in {"lockCheck", "done"} : Goes(c, p)
    BY <1>10 DEF CorePolled
  <2>. QED
    BY <1>5, <1>10 DEF CorePolled, At, Holds, Holding, benchVars, tagVars
<1>11. CASE CoreLoadsData(c)
  BY <1>5, <1>11 DEF CoreLoadsData, At, Holds, Holding, benchVars, tagVars
<1>12. CASE CoreLoaded(c)
  BY <1>5, <1>12 DEF CoreLoaded, At, Holds, Holding, benchVars, tagVars
<1>. QED
  BY <1>2, <1>3, <1>4, <1>6, <1>7, <1>8, <1>9, <1>10, <1>11, <1>12, TagTaken, TagGivenBack
  DEF CoreStep

\* Every other step leaves the tags and the cores alone.
LEMMA TagInvStep ==
  ASSUME TagInv, [Next]_vars
  PROVE  TagInv'
<1>1. CASE UNCHANGED tagInvVars
  BY <1>1 DEF tagInvVars, TagInv, TagsKept, CoreRecords, HasPlace, Holds
<1>2. CASE \E c \in Core : CoreStep(c)
  BY <1>2, CoreStepKeepsTags
<1>3. CASE UNCHANGED hostVars
  BY <1>1, <1>3 DEF hostVars, benchVars, tagVars, coreVars, tagInvVars
<1>4. CASE UNCHANGED vars
  BY <1>3, <1>4 DEF vars
<1>. QED
  BY <1>2, <1>3, <1>4 DEF Next, Running, Ends, KernelStep, TimePasses

\* The tags of the slot manager, for any number of cores, slots and
\* sub-commands: a core's slot is in the list of its own tag from addSlotToList
\* to removeSlotFromList, no tag is lost, and the first sub-command of a command
\* has a tag no other command's first sub-command has, waiting for the bus
\* included.
THEOREM TagsAreKept == Spec => []TagsKept
<1>1. Init => TagInv
  BY TagInvInit
<1>2. TagInv /\ [Next]_vars => TagInv'
  BY TagInvStep
<1>3. TagInv => TagsKept
  BY DEF TagInv
<1>. QED
  BY <1>1, <1>2, <1>3, PTL DEF Spec

(***************************************************************************)
(* The controller, with the cores as its host.                             *)
(***************************************************************************)
\* What core c knows of its slot.  It is the core's unless a command was sent
\* and its status not read; the core polls only a status that is there; and
\* when the command of a write is to follow, its data is in the buffer and its
\* number is new to the controller.
CoreFits(place, c) ==
  /\ core[c].lba \in Nat
  /\ core[c].at \notin {"sent", "lockPoll"} => Idle(place, c)
  /\ core[c].at = "lockPoll" =>
       mCompletionQueue_mcore[c] \/ (Asleep(CoreThread(c)) /\ Polling(c))
  /\ core[c].at = "command" =>
       /\ \A a \in WordsOf(c, Cws) : mDataBuffer[a] = <<cmdIndex, a % SlotCws>>
       /\ \A s \in Slot : mSlotTable[s].id < cmdIndex

\* The threads of the cores have their timers.
CoreTimers ==
  cmdIndex \in Nat /\ \A c \in Core : CoreThread(c) \in DOMAIN waiting \cap DOMAIN peq

\* Commands are numbered as they are sent.
IdsGrow == \A s \in Slot : mSlotTable[s].id <= cmdIndex

CoreInv(place, r, m) ==
  /\ DimmInv(place, r, m) /\ BusInv /\ CoreTimers /\ IdsGrow
  /\ \A c \in Core : CoreFits(place, c)

\* A step finds places for the code words with which the invariant holds, and is
\* one of the service.
CoreFollows == Served /\ \E place, r, m : CoreInv(place, r, m)'

\* Every core has a slot of its own, and its thread's name is the host's.
LEMMA CoresHaveSlots ==
  /\ Core \subseteq Slot
  /\ \A c \in Core : /\ CoreThread(c)[1] \in HostNames /\ CoreThread(c)[1] \in TimerNames
                     /\ \A d \in Core \ {c} : CoreThread(d) # CoreThread(c)
<1>1. Core \subseteq Slot
  BY CoreHostAssumption, ControllerAssumption DEF Core, Slot
<1>. QED
  BY <1>1 DEF CoreThread, HostNames, TimerNames

\* The start.
LEMMA CoreInvInit ==
  ASSUME Init
  PROVE  \E place, r, m : CoreInv(place, r, m) /\ \A s \in Slot : Idle(place, s)
<1>. DEFINE H == {CoreThread(c) : c \in Core}
<1>1. \A p \in H : p[1] \in HostNames /\ p[1] = "mcore_thread"
  BY CoresHaveSlots DEF CoreThread
<1>2. \A p \in ControllerProcs : p \notin H /\ p[1] # "mcore_thread"
  BY <1>1, HostApart DEF HostNames
<1>3. /\ waiting = [p \in ControllerProcs \cup H |->
                     IF p[1] = "mcore_thread" THEN {} ELSE FirstWait(p)]
      /\ runnable = H /\ pending = {} /\ peq = [q \in Peqs \cup H |-> EmptyPeq]
  BY Zenon DEF Init
<1>4. ControllerInit /\ BenchInit /\ CoreInit
  BY DEF Init
<1>5. \A c \in Core : CoreThread(c) \in H
  OBVIOUS
<1>. HIDE DEF H
<1>6. Wakes /\ \A q \in Peqs : peq[q] = EmptyPeq
  <2>1. IsFcn(waiting) /\ IsFcn(peq) /\ \A q \in Peqs : peq[q] = EmptyPeq
    BY <1>3 DEF IsFcn
  <2>2. \A p \in ControllerProcs : waiting[p] = FirstWait(p)
    BY <1>2, <1>3
  <2>. QED
    BY <1>2, <1>3, <2>1, <2>2, WakesAtStart
<1>7. PICK place, r, m : DimmInv(place, r, m) /\ \A s \in Slot : Idle(place, s)
  BY <1>4, <1>6, InvAtStart
<1>8. BusInv
  BY BusInvInit
<1>9. CoreTimers
  BY <1>3, <1>4, <1>5 DEF CoreTimers, BenchInit
<1>10. ASSUME NEW c \in Core PROVE CoreFits(place, c)
  <2>1. core[c].at = "next" /\ core[c].lba = 0
    BY <1>4 DEF CoreInit
  <2>. QED
    BY <1>7, <2>1, CoresHaveSlots DEF CoreFits
<1>11. IdsGrow
  <2>1. \A s \in Slot : mSlotTable[s].id = 0
    BY <1>4 DEF ControllerInit, NoCommand
  <2>. QED
    BY <1>4, <2>1 DEF IdsGrow, BenchInit
<1>. QED
  BY <1>7, <1>8, <1>9, <1>10, <1>11 DEF CoreInv

\* A core that another core's step leaves alone.
LEMMA OtherCoreFits ==
  ASSUME NEW place, NEW place2, NEW c \in Core, NEW d \in Core \ {c}, CoreFits(place, d), BusInv,
         CoreTimers, OthersRest(CoreThread(c)), core'[d] = core[d],
         Idle(place, d) => Idle(place2, d)',
         mCompletionQueue_mcore'[d] = mCompletionQueue_mcore[d],
         busOwner \in {NoCore, c} \/ UNCHANGED <<cmdIndex, mDataBuffer, mSlotTable>>
  PROVE  CoreFits(place2, d)'
<1>1. core[d].at = "lockPoll" /\ Asleep(CoreThread(d)) /\ Polling(d) =>
        Asleep(CoreThread(d))' /\ Polling(d)'
  BY CoresHaveSlots DEF OthersRest, CoreTimers, Polling
<1>2. core[d].at = "command" => busOwner \notin {NoCore, c}
  BY NoCoreIsNone DEF BusInv, OneBusMaster
<1>. QED
  BY <1>1, <1>2 DEF CoreFits

\* A step of core c, if c itself and the controller are right after it.
LEMMA CoreInvKept ==
  ASSUME NEW place, NEW r, NEW m, CoreInv(place, r, m), NEW c \in Core, CoreStep(c),
         OthersRest(CoreThread(c)), NEW k, Moves(c, k),
         NEW place2, NEW r2, NEW m2, DimmInv(place2, r2, m2)', CoreFits(place2, c)',
         \A s \in Slot \ {c} : Idle(place, s) => Idle(place2, s)',
         \A d \in Core \ {c} : mCompletionQueue_mcore'[d] = mCompletionQueue_mcore[d],
         cmdIndex' \in Nat, IdsGrow', Served,
         busOwner \in {NoCore, c} \/ UNCHANGED <<cmdIndex, mDataBuffer, mSlotTable>>
  PROVE  CoreFollows
<1>1. BusInv' /\ \A d \in Core \ {c} : core'[d] = core[d]
  BY CoreStepKeeps, OthersStay DEF CoreInv, BusInv
<1>2. CoreTimers'
  BY DEF CoreInv, CoreTimers, OthersRest
<1>3. ASSUME NEW d \in Core \ {c} PROVE CoreFits(place2, d)'
  BY <1>1, <1>3, OtherCoreFits, CoresHaveSlots DEF CoreInv
<1>4. CoreInv(place2, r2, m2)'
  BY <1>1, <1>2, <1>3 DEF CoreInv
<1>. QED
  BY <1>4 DEF CoreFollows

\* How mcore_thread runs.
LEMMA CoreRuns ==
  ASSUME NEW c \in Core, CoreStep(c)
  PROVE  HostRuns(CoreThread(c))
<1>. PICK p : p = CoreThread(c)
  OBVIOUS
<1>1. p[1] \in HostNames
  BY CoresHaveSlots
<1>2. BusFree[1] \notin TimerNames
  BY DEF BusFree, TimerNames, TimedNames, DeviceProcs
<1>3. \A n : <<"mCmdDispatch", n>>[1] \notin TimerNames
  BY DEF TimerNames, TimedNames, DeviceProcs
<1>4. /\ \A E : Wait(p, E) => Ran(p, {})
      /\ \A E : WaitAfter(p, E, {BusFree}) => Ran(p, {BusFree})
      /\ GoOn(p) => Ran(p, {})
      /\ GoOnAfter(p, {BusFree}) => Ran(p, {BusFree})
      /\ Transfer(p) => Ran(p, {}) /\ \E x : peq' = [peq EXCEPT ![p] = x]
  BY DEF Wait, GoOn, Ran, Transfer, Sleep
<1>5. ASSUME NEW E \in {{}, {BusFree}}, Ran(p, E), UNCHANGED pending,
             peq' = peq \/ \E x : peq' = [peq EXCEPT ![p] = x]
      PROVE  HostRuns(p)
  BY <1>1, <1>2, <1>5 DEF HostRuns
<1>6. ASSUME NEW s, NEW id, NEW cmd, NEW lba, sendCommand(s, id, cmd, lba), Transfer(p)
      PROVE  HostRuns(p)
  <2>1. \A e \in pending' : e \in pending \/ e[1] \notin TimerNames
    BY <1>3, <1>6 DEF sendCommand, processPCMDQueue, Notify
  <2>. QED
    BY <1>1, <1>4, <1>6, <2>1 DEF HostRuns
<1>7. CASE CoreWaitsForBus(c)
  BY <1>4, <1>5, <1>7 DEF CoreWaitsForBus
<1>8. CASE CoreNext(c)
  BY <1>4, <1>5, <1>8 DEF CoreNext
<1>9. CASE CoreEnds(c)
  BY <1>4, <1>5, <1>9 DEF CoreEnds
<1>10. CASE CoreSends(c)
  <2>1. Transfer(p)
    BY <1>10 DEF CoreSends
  <2>2. CASE UNCHANGED pending
    BY <1>4, <1>5, <2>1, <2>2
  <2>3. sendData(c, cmdIndex + 1) \/ sendCommand(c, cmdIndex + 1, "READ", core[c].lba)
    BY <1>10 DEF CoreSends
  <2>. QED
    BY <1>6, <2>1, <2>2, <2>3 DEF sendData
<1>11. CASE CoreSendsCommand(c)
  BY <1>6, <1>11 DEF CoreSendsCommand
<1>12. CASE CoreSent(c)
  BY <1>4, <1>5, <1>12 DEF CoreSent
<1>13. CASE CorePolls(c)
  BY <1>4, <1>5, <1>13 DEF CorePolls
<1>14. CASE CorePolled(c)
  BY <1>4, <1>5, <1>14 DEF CorePolled
<1>15. CASE CoreLoadsData(c)
  BY <1>4, <1>5, <1>15 DEF CoreLoadsData
<1>16. CASE CoreLoaded(c)
  BY <1>4, <1>5, <1>16 DEF CoreLoaded
<1>17. CASE CoreFinishes(c)
  BY <1>4, <1>5, <1>17 DEF CoreFinishes
<1>18. CASE CoreBegins(c)
  BY <1>4, <1>5, <1>18 DEF CoreBegins
<1>. QED
  BY <1>7, <1>8, <1>9, <1>10, <1>11, <1>12, <1>13, <1>14, <1>15, <1>16, <1>17, <1>18
  DEF CoreStep

\* What a step of core c leaves the controller: the threads the controller runs
\* sleep on and its queues stay.
LEMMA CoreLeavesKernel ==
  ASSUME NEW place, NEW r, NEW m, CoreInv(place, r, m), NEW c \in Core, CoreStep(c)
  PROVE  /\ Wakes' /\ OthersRest(CoreThread(c)) /\ \A q \in Peqs : peq'[q] = peq[q]
         /\ c \in Slot /\ DimmInv(place, r, m) /\ CoreFits(place, c) /\ CoreRecords
         /\ cmdIndex \in Nat /\ IdsGrow /\ \A s \in Slot : mSlotTable[s].id \in Nat
<1>1. Wakes
  BY DEF CoreInv, DimmInv, Typed
<1>2. Wakes' /\ OthersRest(CoreThread(c))
  BY <1>1, CoreRuns, HostRunWakes
<1>3. \A s \in Slot : mSlotTable[s].id \in Nat
  BY DEF CoreInv, DimmInv, Typed, TableTyped, Commands
<1>. QED
  BY <1>2, <1>3, CoresHaveSlots DEF OthersRest, CoreInv, BusInv, CoreTimers

\* A step of core c that leaves the controller alone.
LEMMA CoreAloneKeeps ==
  ASSUME NEW place, NEW r, NEW m, CoreInv(place, r, m), NEW c \in Core, CoreStep(c),
         UNCHANGED controllerVars, UNCHANGED cmdIndex, NEW k, Moves(c, k), k.lba \in Nat,
         k.at \notin {"sent", "lockPoll"} => core[c].at \notin {"sent", "lockPoll"},
         k.at # "command",
         k.at = "lockPoll" =>
           mCompletionQueue_mcore[c] \/ (Asleep(CoreThread(c))' /\ Polling(c)')
  PROVE  CoreFollows
<1>1. /\ Wakes' /\ OthersRest(CoreThread(c)) /\ \A q \in Peqs : peq'[q] = peq[q]
      /\ c \in Slot /\ DimmInv(place, r, m) /\ CoreFits(place, c) /\ CoreRecords
      /\ cmdIndex \in Nat /\ IdsGrow
  BY CoreLeavesKernel
<1>2. /\ DimmInv(place, r, m)' /\ \A s \in Slot : Idle(place, s) => Idle(place, s)'
      /\ Follows(place)
  BY <1>1, HostAloneKeepsInv
<1>3. core'[c] = k
  BY <1>1, OthersStay
<1>4. /\ mCompletionQueue_mcore' = mCompletionQueue_mcore /\ mDataBuffer' = mDataBuffer
      /\ mSlotTable' = mSlotTable
  BY DEF controllerVars, doneVars, bankVars
<1>5. CoreFits(place, c)'
  BY <1>1, <1>2, <1>3, <1>4 DEF CoreFits
<1>6. IdsGrow' /\ Served
  BY <1>1, <1>2, <1>4, FollowsServes DEF IdsGrow
<1>. QED
  BY <1>1, <1>2, <1>4, <1>5, <1>6, CoreInvKept

\* readCompletionQueue: the core has its slot back.
LEMMA CorePollsKeeps ==
  ASSUME NEW place, NEW r, NEW m, CoreInv(place, r, m), NEW c \in Core, CorePolls(c)
  PROVE  CoreFollows
<1>0. CoreStep(c)
  BY DEF CoreStep
<1>1. /\ Wakes' /\ OthersRest(CoreThread(c)) /\ \A q \in Peqs : peq'[q] = peq[q]
      /\ c \in Slot /\ DimmInv(place, r, m) /\ CoreFits(place, c) /\ CoreRecords
      /\ cmdIndex \in Nat /\ IdsGrow
  BY <1>0, CoreLeavesKernel
<1>2. /\ core[c].at = "lockPoll" /\ CoreThread(c) \in runnable /\ Goes(c, "polled")
      /\ mCompletionQueue_mcore' = [mCompletionQueue_mcore EXCEPT ![c] = FALSE]
      /\ UNCHANGED innerVars /\ UNCHANGED <<mSlotNumQueue, mCompletionQueue, mDataBuffer>>
      /\ UNCHANGED cmdIndex
  BY DEF CorePolls, At, Turn, innerVars, bankVars, benchVars
<1>3. mCompletionQueue_mcore[c]
  BY <1>1, <1>2 DEF CoreFits, Asleep
<1>4. /\ DimmInv(place, r, m)' /\ Idle(place, c)'
      /\ \A x \in Slot \ {c} : Idle(place, x) => Idle(place, x)'
      /\ Collects(place)
  BY <1>1, <1>2, <1>3, StatusReadKeepsInv
<1>5. PICK k : Moves(c, k) /\ k.at = "polled" /\ k.lba = core[c].lba
  BY <1>1, <1>2, GoesMoves
<1>6. core'[c] = k
  BY <1>1, <1>5, OthersStay
<1>7. CoreFits(place, c)'
  BY <1>1, <1>4, <1>5, <1>6 DEF CoreFits
<1>8. \A d \in Core \ {c} : mCompletionQueue_mcore'[d] = mCompletionQueue_mcore[d]
  <2>1. mCompletionQueue_mcore \in [Slot -> BOOLEAN]
    BY <1>1 DEF DimmInv, Typed, DoneTyped
  <2>. QED
    BY <1>2, <2>1, CoresHaveSlots
<1>9. mSlotTable' = mSlotTable
  BY <1>2 DEF innerVars, bankVars
<1>10. IdsGrow' /\ Served
  BY <1>1, <1>2, <1>4, <1>9, CollectServes DEF IdsGrow
<1>. QED
  BY <1>0, <1>1, <1>2, <1>4, <1>5, <1>7, <1>8, <1>9, <1>10, CoreInvKept

\* A command goes into the core's slot.
LEMMA CommandSentKeeps ==
  ASSUME NEW place, NEW r, NEW m, CoreInv(place, r, m), NEW c \in Core, CoreStep(c),
         core[c].at \in {"lockSend", "command"}, NEW cmd \in {"READ", "WRITE"}, NEW id \in Nat,
         sendCommand(c, id, cmd, core[c].lba),
         cmd = "WRITE" => \A a \in WordsOf(c, Cws) : mDataBuffer[a] = <<id, a % SlotCws>>,
         UNCHANGED <<dispatch, mAscq, mAlcq, mAvailableCredit, manager, mIntermediateQueue,
                     mSlotNumQueue, mCompletionQueue, mCompletionQueue_mcore>>,
         NEW k, Moves(c, k), k.at = "sent", k.lba = core[c].lba,
         cmdIndex' = id, \A s \in Slot : mSlotTable[s].id < id, busOwner \in {NoCore, c}
  PROVE  CoreFollows
<1>1. /\ Wakes' /\ OthersRest(CoreThread(c)) /\ \A q \in Peqs : peq'[q] = peq[q]
      /\ c \in Slot /\ DimmInv(place, r, m) /\ CoreFits(place, c) /\ CoreRecords
      /\ cmdIndex \in Nat /\ IdsGrow
  BY CoreLeavesKernel
<1>2. PICK lba : lba = core[c].lba
  OBVIOUS
<1>3. lba \in Nat /\ Idle(place, c) /\ Cws \in 1 .. SlotCws
  BY <1>1, <1>2, BenchAssumption DEF CoreFits
<1>4. processPCMDQueue(c, id, cmd, lba, Cws) /\ UNCHANGED mDataBuffer
  BY <1>2 DEF sendCommand
<1>5. UNCHANGED <<dispatch, mAscq, mAlcq, mAvailableCredit, manager, doneVars>>
  BY <1>4 DEF doneVars
<1>6. PICK place2, r2, m2 : /\ DimmInv(place2, r2, m2)'
                            /\ StateOf(place2, c)' = "busy"
                            /\ \A x \in Slot \ {c} : StateOf(place2, x)' = StateOf(place, x)
  BY <1>1, <1>3, <1>4, <1>5, CommandKeepsInv
<1>7. core'[c] = k
  BY <1>1, OthersStay
<1>8. CoreFits(place2, c)'
  BY <1>1, <1>7 DEF CoreFits
<1>9. \A x \in Slot \ {c} : Idle(place, x) => Idle(place2, x)'
  BY <1>6, IdleIsIdle
<1>10. Served
  BY <1>1, <1>3, <1>4, <1>6, AcceptServes
<1>11. IdsGrow'
  <2>1. mSlotTable' = [mSlotTable EXCEPT ![c] = [cmd |-> cmd, cnt |-> Cws, id |-> id]]
    BY <1>4 DEF processPCMDQueue
  <2>2. mSlotTable \in [Slot -> Commands]
    BY <1>1 DEF DimmInv, Typed, TableTyped
  <2>3. mSlotTable'[c].id = id /\ \A x \in Slot \ {c} : mSlotTable'[x] = mSlotTable[x]
    BY <1>1, <2>1, <2>2
  <2>4. \A x \in Slot : mSlotTable[x].id \in Nat
    BY <2>2 DEF Commands
  <2>5. \A x \in Slot : mSlotTable'[x].id <= id
    BY <2>3, <2>4
  <2>. QED
    BY <2>5 DEF IdsGrow
<1>. QED
  BY <1>1, <1>4, <1>6, <1>8, <1>9, <1>10, <1>11, CoreInvKept

\* The core takes the bus and sends the data of a write or a read command.
LEMMA CoreSendsKeeps ==
  ASSUME NEW place, NEW r, NEW m, CoreInv(place, r, m), NEW c \in Core, CoreSends(c)
  PROVE  CoreFollows
<1>0. CoreStep(c)
  BY DEF CoreStep
<1>1. /\ Wakes' /\ OthersRest(CoreThread(c)) /\ \A q \in Peqs : peq'[q] = peq[q]
      /\ c \in Slot /\ DimmInv(place, r, m) /\ CoreFits(place, c) /\ CoreRecords
      /\ cmdIndex \in Nat /\ IdsGrow
  BY <1>0, CoreLeavesKernel
<1>2. /\ core[c].at = "lockSend" /\ busOwner = NoCore /\ cmdIndex' = cmdIndex + 1
      /\ UNCHANGED <<dispatch, mAscq, mAlcq, mAvailableCredit, manager, mIntermediateQueue,
                     mSlotNumQueue, mCompletionQueue, mCompletionQueue_mcore>>
  BY DEF CoreSends, At, BusIsFree
<1>3. /\ cmdIndex' \in Nat /\ cmdIndex + 1 \in Nat
      /\ \A s \in Slot : mSlotTable[s].id < cmdIndex + 1
  <2>1. \A s \in Slot : mSlotTable[s].id \in Nat
    BY <1>0, CoreLeavesKernel
  <2>. QED
    BY <1>1, <1>2, <2>1 DEF IdsGrow
<1>4. PICK k : /\ Moves(c, k) /\ k.lba = core[c].lba
               /\ k.at = IF core[c].cmd = "WRITE" THEN "command" ELSE "sent"
  BY <1>1, SendsMoves
<1>5. CASE core[c].cmd # "WRITE"
  <2>1. sendCommand(c, cmdIndex + 1, "READ", core[c].lba)
    BY <1>5 DEF CoreSends
  <2>. QED
    BY <1>0, <1>2, <1>3, <1>4, <1>5, <2>1, CommandSentKeeps
<1>6. CASE core[c].cmd = "WRITE"
  <2>1. PICK id : id = cmdIndex'
    OBVIOUS
  <2>2. WriteBlockData(c, id, Cws) /\ UNCHANGED bankVars
    BY <1>2, <1>6, <2>1 DEF CoreSends, sendData
  <2>3. UNCHANGED innerVars
    BY <1>2, <2>2 DEF innerVars
  <2>4. UNCHANGED <<mSlotNumQueue, mCompletionQueue, mCompletionQueue_mcore>>
    BY <1>2
  <2>5. Idle(place, c) /\ Cws \in 1 .. SlotCws
    BY <1>1, <1>2, BenchAssumption DEF CoreFits
  <2>6. /\ DimmInv(place, r, m)' /\ \A x \in Slot : Idle(place, x) => Idle(place, x)'
        /\ \A x \in Slot : StateOf(place, x)' = StateOf(place, x)
        /\ \A a \in WordsOf(c, Cws) : mDataBuffer'[a] = <<id, a % SlotCws>>
    BY <1>1, <2>2, <2>3, <2>4, <2>5, DataWrittenKeepsInv
  <2>7. core'[c] = k /\ k.at = "command"
    BY <1>1, <1>4, <1>6, OthersStay
  <2>8. mSlotTable' = mSlotTable
    BY <2>2 DEF bankVars
  <2>9. \A s \in Slot : mSlotTable'[s].id < cmdIndex' /\ mSlotTable'[s].id <= cmdIndex'
    <3>1. \A s \in Slot : mSlotTable[s].id \in Nat
      BY <1>0, CoreLeavesKernel
    <3>. QED
      BY <1>1, <1>2, <2>8, <3>1 DEF IdsGrow
  <2>10. IdsGrow' /\ Served
    BY <1>1, <2>6, <2>8, <2>9, StutterServes DEF IdsGrow
  <2>11. CoreFits(place, c)'
    BY <1>1, <1>4, <2>1, <2>5, <2>6, <2>7, <2>9 DEF CoreFits
  <2>12. \A d \in Core \ {c} : mCompletionQueue_mcore'[d] = mCompletionQueue_mcore[d]
    BY <1>2
  <2>. QED
    BY <1>0, <1>1, <1>2, <1>3, <1>4, <2>6, <2>11, <2>12, <2>10, CoreInvKept
<1>. QED
  BY <1>5, <1>6

\* The command of a write follows its data.
LEMMA CoreSendsCommandKeeps ==
  ASSUME NEW place, NEW r, NEW m, CoreInv(place, r, m), NEW c \in Core, CoreSendsCommand(c)
  PROVE  CoreFollows
<1>0. CoreStep(c)
  BY DEF CoreStep
<1>1. CoreFits(place, c) /\ CoreRecords /\ cmdIndex \in Nat
  BY <1>0, CoreLeavesKernel
<1>2. /\ core[c].at = "command" /\ Goes(c, "sent")
      /\ sendCommand(c, cmdIndex, "WRITE", core[c].lba) /\ UNCHANGED cmdIndex
      /\ UNCHANGED <<dispatch, mAscq, mAlcq, mAvailableCredit, manager, mIntermediateQueue,
                     mSlotNumQueue, mCompletionQueue, mCompletionQueue_mcore>>
  BY DEF CoreSendsCommand, At, benchVars
<1>3. PICK k : Moves(c, k) /\ k.at = "sent" /\ k.lba = core[c].lba
  BY <1>1, <1>2, GoesMoves
<1>4. /\ \A a \in WordsOf(c, Cws) : mDataBuffer[a] = <<cmdIndex, a % SlotCws>>
      /\ \A s \in Slot : mSlotTable[s].id < cmdIndex
  BY <1>1, <1>2 DEF CoreFits
<1>5. busOwner = c
  BY <1>2 DEF CoreInv, BusInv, OneBusMaster
<1>. QED
  BY <1>0, <1>1, <1>2, <1>3, <1>4, <1>5, CommandSentKeeps

\* Every step of a core.
LEMMA CoreStepKeepsInv ==
  ASSUME NEW place, NEW r, NEW m, CoreInv(place, r, m), NEW c \in Core, CoreStep(c)
  PROVE  CoreFollows
<1>0. /\ OthersRest(CoreThread(c)) /\ CoreFits(place, c) /\ CoreRecords
      /\ CoreThread(c) \in DOMAIN waiting /\ CoreThread(c) \in DOMAIN peq
  BY CoreLeavesKernel DEF CoreInv, CoreTimers
<1>1. CASE CoreWaitsForBus(c)
  <2>1. /\ core[c].at \in {"lockSend", "lockPoll", "lockCheck"} /\ CoreThread(c) \in runnable
        /\ core' = core /\ UNCHANGED controllerVars /\ UNCHANGED cmdIndex
    BY <1>1 DEF CoreWaitsForBus, Turn, hostVars, coreVars, benchVars
  <2>2. core[c].at = "lockPoll" => mCompletionQueue_mcore[c]
    BY <1>0, <2>1 DEF CoreFits, Asleep
  <2>. PICK k : k = core[c]
    OBVIOUS
  <2>3. Moves(c, k)
    BY <1>0, <2>1 DEF Moves, CoreRecords
  <2>4. k.lba \in Nat
    BY <1>0 DEF CoreFits
  <2>. QED
    BY <2>1, <2>2, <2>3, <2>4, CoreAloneKeeps
<1>2. CASE CoreNext(c)
  <2>1. core[c].at = "next" /\ UNCHANGED controllerVars /\ UNCHANGED cmdIndex
    BY <1>2 DEF CoreNext, At, benchVars
  <2>2. PICK k : Moves(c, k) /\ k.at = "begin" /\ k.lba \in Lbas
    BY <1>0, <1>2, NextMoves
  <2>3. k.lba \in Nat
    BY <2>2, BenchAssumption
  <2>. QED
    BY <2>1, <2>2, <2>3, CoreAloneKeeps
<1>3. ASSUME NEW p \in {"ended", "lockCheck", "done", "loaded"}, Goes(c, p),
             core[c].at \notin {"sent", "lockPoll"}, UNCHANGED controllerVars, UNCHANGED cmdIndex
      PROVE  CoreFollows
  <2>1. PICK k : Moves(c, k) /\ k.at = p /\ k.lba = core[c].lba
    BY <1>0, <1>3, GoesMoves
  <2>2. k.lba \in Nat
    BY <1>0, <2>1 DEF CoreFits
  <2>. QED
    BY <1>3, <2>1, <2>2, CoreAloneKeeps
<1>4. CASE CoreEnds(c)
  BY <1>3, <1>4 DEF CoreEnds, At, benchVars
<1>5. CASE CoreSent(c)
  <2>1. /\ core[c].at = "sent" /\ UNCHANGED controllerVars /\ UNCHANGED cmdIndex
        /\ Goes(c, "lockPoll") /\ WaitAfter(CoreThread(c), {CoreThread(c)}, {BusFree})
        /\ peq' = [peq EXCEPT ![CoreThread(c)] = [run |-> <<"poll">>, due |-> <<>>]]
    BY <1>5 DEF CoreSent, At, benchVars
  <2>2. PICK k : Moves(c, k) /\ k.at = "lockPoll" /\ k.lba = core[c].lba
    BY <1>0, <2>1, GoesMoves
  <2>3. k.lba \in Nat
    BY <1>0, <2>2 DEF CoreFits
  <2>4. Asleep(CoreThread(c))'
    BY <1>0, <2>1 DEF WaitAfter, Asleep
  <2>5. Polling(c)'
    BY <1>0, <2>1 DEF Polling
  <2>. QED
    BY <2>1, <2>2, <2>3, <2>4, <2>5, CoreAloneKeeps
<1>6. CASE CorePolled(c)
  BY <1>3, <1>6 DEF CorePolled, At, benchVars
<1>7. CASE CoreLoadsData(c)
  BY <1>3, <1>7 DEF CoreLoadsData, At, benchVars
<1>8. CASE CoreLoaded(c)
  BY <1>3, <1>8 DEF CoreLoaded, At, benchVars
<1>9. CASE CoreFinishes(c)
  <2>1. core[c].at = "done" /\ UNCHANGED controllerVars /\ UNCHANGED cmdIndex
    BY <1>9 DEF CoreFinishes, At
  <2>2. PICK k : Moves(c, k) /\ k.at \in {"next", "begin"} /\ k.lba = core[c].lba
    BY <1>0, <1>9, FinishesMoves
  <2>3. k.lba \in Nat
    BY <1>0, <2>2 DEF CoreFits
  <2>. QED
    BY <2>1, <2>2, <2>3, CoreAloneKeeps
<1>10. CASE CoreBegins(c)
  <2>1. core[c].at = "begin" /\ UNCHANGED controllerVars /\ UNCHANGED cmdIndex
    BY <1>10 DEF CoreBegins, At
  <2>2. PICK k : Moves(c, k) /\ k.at = "lockSend" /\ k.lba = core[c].lba
    BY <1>0, <1>10, BeginsMoves
  <2>3. k.lba \in Nat
    BY <1>0, <2>2 DEF CoreFits
  <2>. QED
    BY <2>1, <2>2, <2>3, CoreAloneKeeps
<1>. QED
  BY <1>1, <1>2, <1>4, <1>5, <1>6, <1>7, <1>8, <1>9, <1>10, CoreSendsKeeps, CoreSendsCommandKeeps,
     CorePollsKeeps, Zenon DEF CoreStep

\* The other processes and the kernel, while the cores rest.
LEMMA CoresRest ==
  ASSUME NEW place, NEW r, NEW m, CoreInv(place, r, m), UNCHANGED hostVars, Follows(place),
         DOMAIN waiting' = DOMAIN waiting /\ DOMAIN peq' = DOMAIN peq,
         \A s \in Slot : mCompletionQueue_mcore[s] => mCompletionQueue_mcore'[s],
         \A c \in Core : Asleep(CoreThread(c)) /\ Polling(c) =>
           mCompletionQueue_mcore[c] \/ (Asleep(CoreThread(c))' /\ Polling(c)'),
         \A s \in Slot, a \in Addr :
           Idle(place, s) /\ SlotOf(a) = s => mDataBuffer'[a] = mDataBuffer[a]
  PROVE  CoreFollows
<1>1. PICK place2, r2, m2 : /\ DimmInv(place2, r2, m2)'
                            /\ \A s \in Slot : Idle(place, s) => Idle(place2, s)'
  BY FollowsKeepsIdle
<1>2. UNCHANGED mSlotTable
  BY FollowsKeepsIdle
<1>3. DimmInv(place, r, m)
  BY DEF CoreInv
<1>4. Served
  BY <1>3, FollowsServes
<1>5. core' = core /\ busOwner' = busOwner /\ cmdIndex' = cmdIndex
  BY DEF hostVars, benchVars, coreVars
<1>6. BusInv' /\ CoreTimers' /\ IdsGrow'
  BY <1>5, <1>2 DEF CoreInv, BusInv, CoreRecords, HasPlace, OneBusMaster, CoreTimers, IdsGrow
<1>7. ASSUME NEW c \in Core PROVE CoreFits(place2, c)'
  <2>1. CoreFits(place, c) /\ c \in Slot
    BY CoresHaveSlots DEF CoreInv
  <2>2. core[c].at = "lockPoll" =>
          mCompletionQueue_mcore'[c] \/ (Asleep(CoreThread(c))' /\ Polling(c)')
    BY <2>1 DEF CoreFits
  <2>3. ASSUME core[c].at = "command", NEW a \in WordsOf(c, Cws)
        PROVE  mDataBuffer'[a] = mDataBuffer[a]
    <3>1. a \in Addr /\ SlotOf(a) = c
      BY <2>1, <2>3, WordsAreInSlot, BenchAssumption
    <3>2. Idle(place, c)
      BY <2>1, <2>3 DEF CoreFits
    <3>. QED
      BY <2>1, <3>1, <3>2
  <2>4. /\ core'[c].lba \in Nat
        /\ core'[c].at \notin {"sent", "lockPoll"} => Idle(place2, c)'
    BY <1>1, <1>5, <2>1 DEF CoreFits
  <2>5. core'[c].at = "command" =>
          /\ \A a \in WordsOf(c, Cws) : mDataBuffer'[a] = <<cmdIndex', a % SlotCws>>
          /\ \A s \in Slot : mSlotTable'[s].id < cmdIndex'
    BY <1>5, <1>2, <2>1, <2>3 DEF CoreFits
  <2>. QED
    BY <1>5, <2>2, <2>4, <2>5 DEF CoreFits
<1>8. CoreInv(place2, r2, m2)'
  BY <1>1, <1>6, <1>7 DEF CoreInv
<1>. QED
  BY <1>8, <1>4 DEF CoreFollows

\* Every step of the system.
LEMMA CoreInvStep ==
  ASSUME NEW place, NEW r, NEW m, CoreInv(place, r, m), [Next]_vars
  PROVE  CoreFollows
<1>0. /\ DimmInv(place, r, m) /\ Wakes /\ DoneTyped
      /\ \A c \in Core : /\ CoreThread(c) \in DOMAIN waiting /\ CoreThread(c) \in DOMAIN peq
                         /\ CoreThread(c)[1] \in HostNames /\ CoreThread(c)[1] \in TimerNames
                         /\ c \in Slot
  BY CoresHaveSlots DEF CoreInv, DimmInv, Typed, CoreTimers
<1>1. CASE \E c \in Core : CoreStep(c)
  BY <1>1, CoreStepKeepsInv
<1>2. CASE ControllerStep /\ UNCHANGED hostVars
  <2>1. Follows(place) /\ HostKept
    BY <1>0, <1>2, ControllerKeepsInv, ControllerKeepsHost
  <2>2. \A s \in Slot, a \in Addr :
          Idle(place, s) /\ SlotOf(a) = s => mDataBuffer'[a] = mDataBuffer[a]
    BY <1>0, <1>2, IdleDataStays
  <2>3. \A c \in Core : /\ Asleep(CoreThread(c)) => Asleep(CoreThread(c))'
                        /\ Polling(c)' = Polling(c)
    BY <1>0, <2>1 DEF HostKept, Polling
  <2>4. /\ DOMAIN waiting' = DOMAIN waiting /\ DOMAIN peq' = DOMAIN peq
        /\ \A s \in Slot : mCompletionQueue_mcore[s] => mCompletionQueue_mcore'[s]
    BY <2>1 DEF HostKept
  <2>. QED
    BY <1>2, <2>1, <2>2, <2>3, <2>4, CoresRest
<1>3. UNCHANGED controllerVars => UNCHANGED mCompletionQueue_mcore /\ UNCHANGED mDataBuffer
  BY DEF controllerVars, doneVars
<1>4. CASE KernelStep
  <2>1. Delta /\ UNCHANGED controllerVars /\ UNCHANGED hostVars
    BY <1>4 DEF KernelStep
  <2>2. Follows(place)
    BY <1>0, <2>1, DeltaKeepsInv
  <2>3. /\ UNCHANGED <<waiting, peq>>
        /\ \A c \in Core : Asleep(CoreThread(c)) => Asleep(CoreThread(c))'
    BY <1>0, <2>1, DeltaWakes DEF Delta
  <2>4. \A c \in Core : Polling(c)' = Polling(c)
    BY <2>3 DEF Polling
  <2>. QED
    BY <1>3, <2>1, <2>2, <2>3, <2>4, CoresRest
<1>5. CASE TimePasses
  <2>1. PICK S \in SUBSET Timers :
          /\ \A c \in Core : CoreThread(c) \in S /\ Polling(c) => mCompletionQueue_mcore[c]
          /\ Expire(S) /\ UNCHANGED controllerVars /\ UNCHANGED hostVars
    BY <1>5 DEF TimePasses
  <2>2. Follows(place)
    BY <1>0, <2>1, ExpireKeepsInv
  <2>3. DOMAIN waiting' = DOMAIN waiting /\ DOMAIN peq' = DOMAIN peq
    BY <2>1 DEF Expire
  <2>4. ASSUME NEW c \in Core, Asleep(CoreThread(c)), Polling(c), ~mCompletionQueue_mcore[c]
        PROVE  Asleep(CoreThread(c))' /\ Polling(c)'
    <3>0. CoreThread(c) \notin S
      BY <2>1, <2>4
    <3>1. peq'[CoreThread(c)] = peq[CoreThread(c)]
      BY <1>0, <2>1, <3>0 DEF Expire
    <3>. QED
      BY <1>0, <2>1, <2>4, <3>0, <3>1, ExpireKeeps DEF Polling
  <2>. QED
    BY <1>3, <2>1, <2>2, <2>3, <2>4, CoresRest
<1>6. CASE UNCHANGED vars
  <2>1. /\ UNCHANGED <<waiting, runnable, running, pending, peq>> /\ UNCHANGED controllerVars
        /\ UNCHANGED hostVars
    BY <1>6 DEF vars, kernelVars
  <2>2. Wakes'
    BY <1>0, <2>1 DEF Wakes, QueuesTyped, Asleep
  <2>3. Follows(place)
    BY <1>0, <2>1, <2>2, HostAloneKeepsInv
  <2>4. \A c \in Core : Asleep(CoreThread(c))' = Asleep(CoreThread(c)) /\ Polling(c)' = Polling(c)
    BY <2>1 DEF Asleep, Polling
  <2>. QED
    BY <1>3, <2>1, <2>3, <2>4, CoresRest
<1>. QED
  BY <1>1, <1>2, <1>4, <1>5, <1>6 DEF Next, Running, Ends

\* Somewhere there are places for all code words, at any time.
DimmOfCores == \E place, r, m : CoreInv(place, r, m)
LEMMA CoresKeepDimm == Spec => []DimmOfCores
<1>1. Init => DimmOfCores
  BY CoreInvInit DEF DimmOfCores
<1>2. DimmOfCores /\ [Next]_vars => DimmOfCores'
  BY CoreInvStep DEF DimmOfCores, CoreFollows
<1>. QED
  BY <1>1, <1>2, PTL DEF Spec

\* A code word is in one place, however many cores send commands and whatever
\* the order the processes of the controller run in.
THEOREM CoresOneHome == Spec => []OneHome
<1>1. DimmOfCores => OneHome
  BY InvGivesOneHome DEF DimmOfCores, CoreInv
<1>. QED
  BY <1>1, CoresKeepDimm, PTL

\* The countdown of a slot agrees with the code words that are on their way.
THEOREM CoresCountdown == Spec => []CountdownExact
<1>1. DimmOfCores => CountdownExact
  BY InvGivesCountdown DEF DimmOfCores, CoreInv
<1>. QED
  BY <1>1, CoresKeepDimm, PTL

\* The credits of a channel's reads are conserved.
THEOREM CoresCredits == Spec => []CreditsConserved
<1>1. DimmOfCores => CreditsConserved
  BY InvGivesCredits DEF DimmOfCores, CoreInv
<1>. QED
  BY <1>1, CoresKeepDimm, PTL

\* The controller implements DimmService for the cores: a core's slot is given a
\* command only when it is idle, the command is worked on and becomes done once,
\* and the slot is idle again only after the core has read the status.
THEOREM CoresServe == Spec => ServiceSpec
<1>1. Init => SlotService!Init
  <2>1. ASSUME Init
        PROVE  SlotService!Init
    <3>1. PICK place, r, m : CoreInv(place, r, m) /\ \A s \in Slot : Idle(place, s)
      BY <2>1, CoreInvInit
    <3>2. DimmInv(place, r, m) /\ ControllerInit
      BY <2>1, <3>1 DEF CoreInv, Init
    <3>. QED
      BY <3>1, <3>2, ServiceStarts
  <2>. QED
    BY <2>1
<1>2. DimmOfCores /\ [Next]_vars => [SlotService!Next]_SlotsSeen
  BY CoreInvStep DEF DimmOfCores, CoreFollows, Served
<1>. QED
  BY <1>1, <1>2, CoresKeepDimm, PTL DEF Spec, ServiceSpec, SlotService!Spec
============================================================================
