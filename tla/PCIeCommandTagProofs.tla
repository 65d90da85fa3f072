------------------------- MODULE PCIeCommandTagProofs -------------------------
(***************************************************************************)
(* The life of a tag: from processCompletionTLPCmd, which takes it, through*)
(* stripping, the PCMDQ and one of the completing threads to the arbiter,  *)
(* which gives it back.  For all values of the constants, the four tables  *)
(* indexed by tags agree, the running counts are exact, and no tag is given*)
(* back twice or under a live sub-command.                                 *)
(***************************************************************************)
EXTENDS PCIeCommandPathProofs

(***************************************************************************)
(* Sequences without repetition, as queues of tags are.                    *)
(***************************************************************************)

\* What a queue holds after a push.
LEMMA PushElements ==
  ASSUME NEW S, NEW s \in Seq(S), NEW x \in S
  PROVE  /\ Append(s, x) \in Seq(S) /\ Append(s, x) # <<>>
         /\ Range(Append(s, x)) = Range(s) \cup {x}
         /\ IsInjective(s) /\ x \notin Range(s) => IsInjective(Append(s, x))
<1>1. /\ DOMAIN s = 1 .. Len(s) /\ Len(s) \in Nat
      /\ DOMAIN Append(s, x) = 1 .. Len(s) + 1
      /\ \A i \in 1 .. Len(s) : Append(s, x)[i] = s[i]
      /\ Append(s, x)[Len(s) + 1] = x
  BY AppendElements
<1>2. DOMAIN Append(s, x) = DOMAIN s \cup {Len(s) + 1}
  BY <1>1
<1>3. Range(Append(s, x)) = Range(s) \cup {x}
  BY <1>1, <1>2 DEF Range
<1>4. ASSUME IsInjective(s), x \notin Range(s)
      PROVE  IsInjective(Append(s, x))
  BY <1>1, <1>2, <1>4 DEF IsInjective, Range
<1>. QED BY <1>3, <1>4, AppendProperties

\* What a queue holds after its front is popped.
LEMMA PopElements ==
  ASSUME NEW S, NEW s \in Seq(S), s # <<>>
  PROVE  /\ Tail(s) \in Seq(S) /\ Head(s) \in S
         /\ Head(s) \in Range(s) /\ Head(s) = s[1] /\ 1 \in DOMAIN s
         /\ DOMAIN Tail(s) = 1 .. Len(s) - 1 /\ Len(Tail(s)) = Len(s) - 1
         /\ \A i \in DOMAIN Tail(s) : /\ i \in Nat \ {0} /\ i + 1 \in DOMAIN s
                                      /\ Tail(s)[i] = s[i + 1]
         /\ \A i \in DOMAIN s : i # 1 => \E j \in DOMAIN Tail(s) : i = j + 1
         /\ IsInjective(s) => /\ IsInjective(Tail(s))
                              /\ Range(Tail(s)) = Range(s) \ {Head(s)}
<1>1. /\ Tail(s) \in Seq(S) /\ Head(s) \in S /\ Head(s) = s[1]
      /\ Len(s) \in Nat \ {0} /\ DOMAIN s = 1 .. Len(s)
      /\ Len(Tail(s)) = Len(s) - 1
      /\ DOMAIN Tail(s) = 1 .. Len(s) - 1
      /\ \A i \in 1 .. Len(s) - 1 : Tail(s)[i] = s[i + 1]
  BY HeadTailProperties, LenProperties, EmptySeq
<1>2. \A i \in DOMAIN Tail(s) : /\ i \in Nat \ {0} /\ i + 1 \in DOMAIN s
                                /\ Tail(s)[i] = s[i + 1]
  BY <1>1
<1>3. \A i \in DOMAIN s : i # 1 => i - 1 \in DOMAIN Tail(s) /\ i = (i - 1) + 1
  BY <1>1
<1>4. 1 \in DOMAIN s /\ Head(s) \in Range(s)
  BY <1>1 DEF Range
<1>5. ASSUME IsInjective(s)
      PROVE  IsInjective(Tail(s)) /\ Range(Tail(s)) = Range(s) \ {Head(s)}
  <2>1. IsInjective(Tail(s))
    <3>1. ASSUME NEW i \in DOMAIN Tail(s), NEW j \in DOMAIN Tail(s),
                 Tail(s)[i] = Tail(s)[j]
          PROVE  i = j
      <4>1. s[i + 1] = s[j + 1] /\ i + 1 \in DOMAIN s /\ j + 1 \in DOMAIN s
        BY <1>2, <3>1
      <4>2. i + 1 = j + 1
        BY <1>5, <4>1 DEF IsInjective
      <4>. QED BY <1>2, <4>2
    <3>. QED BY <3>1 DEF IsInjective
  <2>2. Range(Tail(s)) \subseteq Range(s) \ {Head(s)}
    <3>1. ASSUME NEW i \in DOMAIN Tail(s)
          PROVE  Tail(s)[i] \in Range(s) /\ Tail(s)[i] # Head(s)
      <4>1. i + 1 \in DOMAIN s /\ Tail(s)[i] = s[i + 1] /\ i + 1 # 1
        BY <1>2
      <4>. QED BY <1>1, <1>4, <1>5, <4>1 DEF IsInjective, Range
    <3>. QED BY <3>1 DEF Range
  <2>3. Range(s) \ {Head(s)} \subseteq Range(Tail(s))
    <3>1. ASSUME NEW i \in DOMAIN s, s[i] # Head(s)
          PROVE  s[i] \in Range(Tail(s))
      <4>1. i - 1 \in DOMAIN Tail(s) /\ i = (i - 1) + 1
        BY <1>1, <1>3, <3>1
      <4>2. Tail(s)[i - 1] = s[i]
        BY <1>2, <4>1
      <4>. QED BY <4>1, <4>2 DEF Range
    <3>. QED BY <3>1 DEF Range
  <2>. QED BY <2>1, <2>2, <2>3
<1>. QED BY <1>1, <1>2, <1>3, <1>4, <1>5

\* One queue after the other, without repetition, repeats nothing if they
\* have nothing in common.
LEMMA QueuesInARow ==
  ASSUME NEW S, NEW a \in Seq(S), NEW b \in Seq(S)
  PROVE  /\ a \o b \in Seq(S) /\ Range(a \o b) = Range(a) \cup Range(b)
         /\ Len(a \o b) = Len(a) + Len(b)
         /\ IsInjective(a) /\ IsInjective(b) /\ Range(a) \cap Range(b) = {}
              => IsInjective(a \o b)
<1>1. /\ a \o b \in Seq(S) /\ Len(a \o b) = Len(a) + Len(b)
      /\ \A i \in 1 .. Len(a) + Len(b) :
           (a \o b)[i] = IF i <= Len(a) THEN a[i] ELSE b[i - Len(a)]
      /\ Len(a) \in Nat /\ Len(b) \in Nat
      /\ DOMAIN a = 1 .. Len(a) /\ DOMAIN b = 1 .. Len(b)
      /\ DOMAIN (a \o b) = 1 .. Len(a) + Len(b)
  BY ConcatProperties, LenProperties
<1>2. Range(a \o b) = Range(a) \cup Range(b)
  BY RangeConcatenation
<1>3. ASSUME IsInjective(a), IsInjective(b), Range(a) \cap Range(b) = {},
             NEW i \in 1 .. Len(a) + Len(b), NEW j \in 1 .. Len(a) + Len(b),
             (a \o b)[i] = (a \o b)[j]
      PROVE  i = j
  <2>1. ASSUME NEW k \in 1 .. Len(a) + Len(b)
        PROVE  \/ k \in DOMAIN a /\ (a \o b)[k] = a[k] /\ a[k] \in Range(a)
               \/ /\ k - Len(a) \in DOMAIN b /\ (a \o b)[k] = b[k - Len(a)]
                  /\ b[k - Len(a)] \in Range(b)
    BY <1>1 DEF Range
  <2>2. \/ i \in DOMAIN a /\ j \in DOMAIN a /\ a[i] = a[j]
        \/ /\ i - Len(a) \in DOMAIN b /\ j - Len(a) \in DOMAIN b
           /\ b[i - Len(a)] = b[j - Len(a)]
    BY <1>3, <2>1
  <2>3. i = j \/ i - Len(a) = j - Len(a)
    BY <1>3, <2>2 DEF IsInjective
  <2>. QED BY <1>1, <2>3
<1>. QED BY <1>1, <1>2, <1>3 DEF IsInjective

(***************************************************************************)
(* The PCMDQ entries that wait for their data.                             *)
(***************************************************************************)

\* A data request names an entry that waits for its data, and no other
\* request names it: the answer comes to a live entry, once.
RequestsOwned ==
  \A i \in DOMAIN rdDataQ :
    /\ pcmdq[rdDataQ[i].slot].st = "requested"
    /\ \A j \in DOMAIN rdDataQ : rdDataQ[i].slot = rdDataQ[j].slot => i = j

\* What setState does to the entries.
LEMMA SetStateEffect ==
  ASSUME TypeOK, NEW q \in Slot, NEW s, SetState(q, s)
  PROVE  /\ pcmdq'[q].st = s
         /\ \A r \in Slot : /\ r # q => pcmdq'[r] = pcmdq[r]
                            /\ pcmdq'[r].cmd = pcmdq[r].cmd
                            /\ pcmdq'[r].idx = pcmdq[r].idx
                            /\ pcmdq'[r].tag = pcmdq[r].tag
<1>1. pcmdq \in [Slot -> [st : SubState, cmd : CmdOrNone, idx : Nat,
                          off : Nat, tag : Tag]]
  BY DEF TypeOK, PcmdTypeOK
<1>2. pcmdq' = [pcmdq EXCEPT ![q] = [pcmdq[q] EXCEPT !.st = s]]
  BY DEF SetState
<1>3. pcmdq'[q] = [pcmdq[q] EXCEPT !.st = s]
  BY <1>1, <1>2
<1>4. /\ pcmdq'[q].st = s /\ pcmdq'[q].cmd = pcmdq[q].cmd
      /\ pcmdq'[q].idx = pcmdq[q].idx /\ pcmdq'[q].tag = pcmdq[q].tag
  <2>1. pcmdq[q] \in [st : SubState, cmd : CmdOrNone, idx : Nat,
                      off : Nat, tag : Tag]
    BY <1>1
  <2>. QED BY <1>3, <2>1
<1>5. \A r \in Slot : r # q => pcmdq'[r] = pcmdq[r]
  BY <1>1, <1>2
<1>. QED BY <1>4, <1>5

\* getFreeQueueAddr finds a free entry when there is one.
LEMMA FreeQueueAddr ==
  ASSUME ~PcmdqFull
  PROVE  getFreeQueueAddr \in Slot /\ ~Live(getFreeQueueAddr)
<1>. DEFINE F == {q \in Slot : ~Live(q)}
<1>1. F \in SUBSET Nat /\ F # {}
  BY SizesAssumption DEF PcmdqFull, Slot
<1>2. \E q \in F : \A r \in F : q <= r
  BY <1>1, LeastExists
<1>3. \E q \in Slot : ~Live(q) /\ \A r \in Slot : ~Live(r) => q <= r
  BY <1>2
<1>. QED BY <1>3 DEF getFreeQueueAddr

\* What the kernel's two steps do to the entries.
LEMMA KernelKeepsEntries ==
  ASSUME TypeOK, Delta \/ TimePasses, NEW q \in Slot
  PROVE  /\ pcmdq'[q].cmd = pcmdq[q].cmd /\ pcmdq'[q].idx = pcmdq[q].idx
         /\ pcmdq'[q].tag = pcmdq[q].tag
         /\ \/ pcmdq'[q].st = pcmdq[q].st
            \/ pcmdq[q].st = "dmaWait" /\ pcmdq'[q].st = "dmaWoken" /\ Delta
            \/ pcmdq[q].st = "programming" /\ pcmdq'[q].st = "due" /\ TimePasses
<1>1. pcmdq[q] \in [st : SubState, cmd : CmdOrNone, idx : Nat, off : Nat, tag : Tag]
  BY DEF TypeOK, PcmdTypeOK
<1>2. CASE Delta
  <2>1. \/ pcmdq'[q] = pcmdq[q]
        \/ /\ pcmdq[q].st = "dmaWait"
           /\ pcmdq'[q] = [pcmdq[q] EXCEPT !.st = "dmaWoken"]
    BY <1>2 DEF Delta
  <2>. QED BY <1>1, <1>2, <2>1
<1>3. CASE TimePasses
  <2>1. PICK S \in SUBSET timed, W \in SUBSET Programming : Tick(S, W)
    BY <1>3 DEF TimePasses
  <2>2. pcmdq'[q] = IF q \in W THEN [pcmdq[q] EXCEPT !.st = "due"] ELSE pcmdq[q]
    BY <2>1 DEF Tick
  <2>3. q \in W => pcmdq[q].st = "programming"
    BY <2>1 DEF Programming
  <2>. QED BY <1>1, <1>3, <2>2, <2>3
<1>. QED BY <1>2, <1>3

\* Only the answer to its request moves a waiting entry on.
LEMMA RequestedStays ==
  ASSUME TypeOK, [Next]_vars, ~ArbiterSendsRdData,
         NEW r \in Slot, pcmdq[r].st = "requested"
  PROVE  pcmdq'[r].st = "requested"
<1>1. \/ processCompletionTLPCmd \/ PcmdQInsertTakes \/ PcmdQInsertStrips
      \/ \E q \in Slot : SubCmdNext(q)
      \/ Delta \/ TimePasses \/ UNCHANGED pcmdVars
  BY WhoChanges
<1>2. CASE PcmdQInsertStrips
  <2>1. getFreeQueueAddr # r /\ getFreeQueueAddr \in Slot
    BY <1>2, FreeQueueAddr DEF PcmdQInsertStrips, Live
  <2>. QED BY <1>2, <2>1 DEF PcmdQInsertStrips, TypeOK, PcmdTypeOK
<1>3. ASSUME NEW q \in Slot, SubCmdNext(q)
      PROVE  pcmdq'[r].st = "requested"
  <2>1. CASE RequestWriteData(q)
    BY <2>1, SetStateEffect DEF RequestWriteData
  <2>2. CASE WriteDataArrives(q) \/ MemReadCompletionWaits(q)
    <3>1. q # r /\ \E s \in SubState : SetState(q, s)
      BY <2>2 DEF WriteDataArrives, MemReadCompletionWaits, SubState
    <3>. QED BY <3>1, SetStateEffect
  <2>3. CASE PendingWriteCmd(q) \/ MemReadCompletion(q)
    <3>1. q # r /\ pcmdq' = [pcmdq EXCEPT ![q] = FreeEntry]
      BY <2>3 DEF PendingWriteCmd, MemReadCompletion, FinishSubCmd
    <3>. QED BY <3>1 DEF TypeOK, PcmdTypeOK
  <2>. QED BY <1>3, <2>1, <2>2, <2>3 DEF SubCmdNext
<1>4. CASE Delta \/ TimePasses
  BY <1>4, KernelKeepsEntries
<1>5. CASE processCompletionTLPCmd \/ PcmdQInsertTakes \/ UNCHANGED pcmdVars
  BY <1>5 DEF processCompletionTLPCmd, PcmdQInsertTakes, pcmdVars
<1>. QED BY <1>1, <1>2, <1>3, <1>4, <1>5

\* Requests are made for linked entries and answered one by one.
LEMMA RequestsStep ==
  ASSUME TypeOK, RequestsOwned, [Next]_vars
  PROVE  RequestsOwned'
<1>. DEFINE TLP == [slot : Slot, cmd : CmdOrNone, off : Nat]
<1>1. rdDataQ \in Seq(TLP)
  BY DEF TypeOK, TLPTypeOK
<1>2. \A x \in TLP : x.slot \in Slot
  OBVIOUS
<1>3. CASE \E q \in Slot : RequestWriteData(q)
  <2>1. PICK q \in Slot : RequestWriteData(q)
    BY <1>3
  <2>. DEFINE d == DataTLP(q)
  <2>2. rdDataQ' = Append(rdDataQ, d) /\ pcmdq[q].st = "linked" /\ d.slot = q
    BY <2>1 DEF RequestWriteData, DataTLP
  <2>3. pcmdq'[q].st = "requested" /\ \A r \in Slot : r # q => pcmdq'[r] = pcmdq[r]
    BY <2>1, SetStateEffect DEF RequestWriteData
  <2>. HIDE DEF TLP, d
  <2>4. /\ DOMAIN rdDataQ = 1 .. Len(rdDataQ) /\ Len(rdDataQ) \in Nat
        /\ DOMAIN rdDataQ' = 1 .. Len(rdDataQ) + 1
        /\ \A i \in 1 .. Len(rdDataQ) : rdDataQ'[i] = rdDataQ[i]
        /\ rdDataQ'[Len(rdDataQ) + 1] = d
    BY <1>1, <2>2, AppendElements
  <2>5. \A i \in DOMAIN rdDataQ : rdDataQ[i] \in TLP
    BY <1>1
  <2>6. \A i \in DOMAIN rdDataQ : /\ rdDataQ[i].slot \in Slot
                                 /\ rdDataQ[i].slot # q
    BY <1>2, <2>2, <2>5 DEF RequestsOwned
  <2>7. ASSUME NEW i \in DOMAIN rdDataQ'
        PROVE  \/ i \in DOMAIN rdDataQ /\ rdDataQ'[i] = rdDataQ[i]
               \/ i = Len(rdDataQ) + 1 /\ rdDataQ'[i] = d
    BY <2>4
  <2>. QED BY <2>2, <2>3, <2>6, <2>7 DEF RequestsOwned
<1>4. CASE ArbiterSendsRdData
  <2>. DEFINE q == Head(rdDataQ).slot
  <2>1. rdDataQ # <<>> /\ rdDataQ' = Tail(rdDataQ) /\ SetState(q, "fetching")
    BY <1>4, ArbiterFindsTLP DEF ArbiterSendsRdData
  <2>. HIDE DEF TLP
  <2>2. /\ Head(rdDataQ) \in TLP /\ Head(rdDataQ) = rdDataQ[1]
        /\ 1 \in DOMAIN rdDataQ
        /\ \A i \in DOMAIN Tail(rdDataQ) :
             /\ i \in Nat \ {0} /\ i + 1 \in DOMAIN rdDataQ
             /\ Tail(rdDataQ)[i] = rdDataQ[i + 1]
    BY <1>1, <2>1, PopElements
  <2>3. \A i \in DOMAIN rdDataQ : rdDataQ[i] \in TLP
    BY <1>1
  <2>4. \A r \in Slot : r # q => pcmdq'[r] = pcmdq[r]
    BY <1>2, <2>1, <2>2, SetStateEffect
  <2>5. ASSUME NEW i \in DOMAIN rdDataQ'
        PROVE  /\ pcmdq'[rdDataQ'[i].slot].st = "requested"
               /\ \A j \in DOMAIN rdDataQ' :
                    rdDataQ'[i].slot = rdDataQ'[j].slot => i = j
    <3>1. /\ i \in Nat \ {0} /\ i + 1 \in DOMAIN rdDataQ
          /\ rdDataQ'[i] = rdDataQ[i + 1] /\ i + 1 # 1
      BY <2>1, <2>2
    <3>2. rdDataQ[i + 1].slot \in Slot /\ rdDataQ[i + 1].slot # q
      BY <1>2, <2>2, <2>3, <3>1 DEF RequestsOwned
    <3>3. pcmdq'[rdDataQ'[i].slot].st = "requested"
      BY <2>4, <3>1, <3>2 DEF RequestsOwned
    <3>4. ASSUME NEW j \in DOMAIN rdDataQ', rdDataQ'[i].slot = rdDataQ'[j].slot
          PROVE  i = j
      <4>1. /\ j \in Nat \ {0} /\ j + 1 \in DOMAIN rdDataQ
            /\ rdDataQ'[j] = rdDataQ[j + 1]
        BY <2>1, <2>2
      <4>2. i + 1 = j + 1
        BY <3>1, <3>4, <4>1 DEF RequestsOwned
      <4>. QED BY <3>1, <4>1, <4>2
    <3>. QED BY <3>3, <3>4
  <2>. QED BY <2>5 DEF RequestsOwned
<1>5. CASE ~(\E q \in Slot : RequestWriteData(q)) /\ ~ArbiterSendsRdData
  <2>1. rdDataQ' = rdDataQ
    <3>1. \/ MemReadReqCmdFetches \/ \E q \in Slot : MemReadCompletion(q)
          \/ WriteCmdDone \/ ReadDone \/ ArbiterSkips \/ ArbiterSendsRdCmd
          \/ ArbiterSendsWrData \/ ArbiterSendsComp \/ UNCHANGED tlpVars
      BY <1>5, WhoChanges
    <3>. QED BY <3>1 DEF MemReadReqCmdFetches, MemReadCompletion, WriteCmdDone,
         ReadDone, ArbiterSkips, ArbiterSendsRdCmd, ArbiterSendsWrData,
         ArbiterSendsComp, tlpVars
  <2>2. \A i \in DOMAIN rdDataQ : rdDataQ[i].slot \in Slot
    <3>. HIDE DEF TLP
    <3>1. \A i \in DOMAIN rdDataQ : rdDataQ[i] \in TLP
      BY <1>1
    <3>. QED BY <1>2, <3>1
  <2>3. \A r \in Slot : pcmdq[r].st = "requested" => pcmdq'[r].st = "requested"
    BY <1>5, RequestedStays
  <2>. QED BY <2>1, <2>2, <2>3 DEF RequestsOwned
<1>. QED BY <1>3, <1>4, <1>5

\* longQueueThread's requests and their answers belong together.
THEOREM RequestsInvariance == Spec => []RequestsOwned
<1>1. Init => RequestsOwned
  BY DEF Init, TLPInit, RequestsOwned
<1>2. TypeOK /\ RequestsOwned /\ [Next]_vars => RequestsOwned'
  BY RequestsStep
<1>. QED BY <1>1, <1>2, TypeCorrect, PTL DEF Spec

(***************************************************************************)
(* writeCmdDoneThread and the notification that wakes it.                  *)
(***************************************************************************)

\* The thread runs, or is about to, only with a tag in the queue.  When it
\* runs, no notification is left over from a tag it may take now, and no
\* entry can push one before it took its turn; when it waits for anything
\* but mWriteCmdDone, the tag it will read is already there.
WriteDoneAwake ==
  /\ "writeCmdDone" \in run =>
       /\ tagQ # <<>> /\ "mWriteCmdDone" \notin notified
       /\ \A q \in Slot : pcmdq[q].st # "due"
  /\ "mWriteCmdDone" \in notified => tagQ # <<>>
  /\ waits["writeCmdDone"] # "mWriteCmdDone" => tagQ # <<>>
  /\ waits["writeCmdDone"] \in {"none", "mWriteCmdDone", "mCQ1Hdbl",
                                "mMemWriteCompQNotFull"}

\* No entry becomes due but by the passing of time.
LEMMA NoneBecomesDue ==
  ASSUME TypeOK, [Next]_vars, ~TimePasses, NEW r \in Slot, pcmdq'[r].st = "due"
  PROVE  pcmdq[r].st = "due"
<1>1. \/ processCompletionTLPCmd \/ PcmdQInsertTakes \/ PcmdQInsertStrips
      \/ \E q \in Slot : SubCmdNext(q)
      \/ ArbiterSendsRdData \/ Delta \/ UNCHANGED pcmdVars
  BY WhoChanges
<1>2. CASE PcmdQInsertStrips
  <2>1. getFreeQueueAddr \in Slot
    BY <1>2, FreeQueueAddr DEF PcmdQInsertStrips
  <2>. QED BY <1>2, <2>1 DEF PcmdQInsertStrips, TypeOK, PcmdTypeOK
<1>3. ASSUME NEW q \in Slot, NEW s \in SubState \ {"due"}, SetState(q, s)
      PROVE  pcmdq[r].st = "due"
  BY <1>3, SetStateEffect
<1>4. ASSUME NEW q \in Slot, SubCmdNext(q)
      PROVE  pcmdq[r].st = "due"
  <2>1. CASE PendingWriteCmd(q) \/ MemReadCompletion(q)
    <3>1. pcmdq' = [pcmdq EXCEPT ![q] = FreeEntry]
      BY <2>1 DEF PendingWriteCmd, MemReadCompletion, FinishSubCmd
    <3>. QED BY <3>1 DEF FreeEntry, TypeOK, PcmdTypeOK
  <2>2. CASE ~(PendingWriteCmd(q) \/ MemReadCompletion(q))
    <3>1. \E s \in SubState \ {"due"} : SetState(q, s)
      BY <1>4, <2>2 DEF SubCmdNext, RequestWriteData, WriteDataArrives,
         MemReadCompletionWaits, SubState
    <3>. QED BY <1>3, <3>1
  <2>. QED BY <2>1, <2>2
<1>5. CASE ArbiterSendsRdData
  <2>1. Head(rdDataQ).slot \in Slot
    <3>1. Head(rdDataQ) \in [slot : Slot, cmd : CmdOrNone, off : Nat]
      BY <1>5, ArbiterFindsTLP, HeadTailProperties
      DEF ArbiterSendsRdData, TypeOK, TLPTypeOK
    <3>. QED BY <3>1
  <2>. QED BY <1>3, <1>5, <2>1 DEF ArbiterSendsRdData, SubState
<1>6. CASE Delta
  BY <1>6, KernelKeepsEntries
<1>7. CASE processCompletionTLPCmd \/ PcmdQInsertTakes \/ UNCHANGED pcmdVars
  BY <1>7 DEF processCompletionTLPCmd, PcmdQInsertTakes, pcmdVars
<1>. QED BY <1>1, <1>2, <1>4, <1>5, <1>6, <1>7

\* The other threads neither wake writeCmdDoneThread nor touch its queue.
LEMMA OthersLeaveWriteDone ==
  ASSUME TypeOK, [Next]_vars, ~WriteDoneNext, ~Delta, ~TimePasses,
         ~(\E q \in Slot : PendingWriteCmd(q))
  PROVE  /\ waits'["writeCmdDone"] = waits["writeCmdDone"]
         /\ "writeCmdDone" \in run' => "writeCmdDone" \in run
         /\ "mWriteCmdDone" \in notified' => "mWriteCmdDone" \in notified
         /\ tagQ' = tagQ
<1>1. waits \in [Thread -> WaitMark] /\ "writeCmdDone" \in Thread
  BY DEF TypeOK, KernelTypeOK, WaitMark, Thread
<1>2. ASSUME NEW p \in Thread \ {"writeCmdDone"}, NEW e,
             WaitFor(p, e) \/ Continue(p)
      PROVE  /\ waits'["writeCmdDone"] = waits["writeCmdDone"]
             /\ "writeCmdDone" \in run' => "writeCmdDone" \in run
  BY <1>1, <1>2 DEF WaitFor, Continue
<1>3. {"pcmdQInsert", "memReadReqCmd", "readDone", "arbiter"}
         \subseteq Thread \ {"writeCmdDone"}
  BY DEF Thread
<1>4. CASE HostNext
  BY <1>1, <1>4 DEF HostNext, HostSubmit, HostReapCQ, writeSQ1TDBLReg,
     writeCQ1HDBLReg, doneVars, kernelVars, Notify
<1>5. CASE FetchNext
  <2>1. CASE MemReadReqCmdWaits \/ MemReadReqCmdFetches
    <3>1. \E e : WaitFor("memReadReqCmd", e)
      BY <2>1 DEF MemReadReqCmdWaits, MemReadReqCmdFetches
    <3>2. "mWriteCmdDone" \in notified' => "mWriteCmdDone" \in notified
      BY <2>1 DEF MemReadReqCmdWaits, MemReadReqCmdFetches, Notify
    <3>3. tagQ' = tagQ
      BY <2>1 DEF MemReadReqCmdWaits, MemReadReqCmdFetches, doneVars
    <3>. QED BY <1>2, <1>3, <3>1, <3>2, <3>3
  <2>2. CASE processCompletionTLPCmd
    BY <2>2 DEF processCompletionTLPCmd, Notify, FetchEvents, doneVars
  <2>. QED BY <1>5, <2>1, <2>2 DEF FetchNext
<1>6. CASE InsertNext
  BY <1>1, <1>2, <1>3, <1>6 DEF InsertNext, PcmdQInsertIdles, PcmdQInsertTakes,
     PcmdQInsertBlocks, PcmdQInsertStrips, doneVars, Notify
<1>7. CASE \E q \in Slot : SubCmdNext(q)
  BY <1>1, <1>7 DEF SubCmdNext, RequestWriteData, WriteDataArrives,
     MemReadCompletionWaits, MemReadCompletion, doneVars, kernelVars, Notify
<1>8. CASE ReadDoneNext
  <2>1. \E e : WaitFor("readDone", e) \/ Continue("readDone")
    BY <1>8 DEF ReadDoneNext, ReadDoneWaits, ReadDoneIdles, ReadDone, NextRound
  <2>2. "mWriteCmdDone" \in notified' => "mWriteCmdDone" \in notified
    BY <1>8 DEF ReadDoneNext, ReadDoneWaits, ReadDoneIdles, ReadDone,
       PostCompletion, Notify
  <2>3. tagQ' = tagQ
    BY <1>8 DEF ReadDoneNext, ReadDoneWaits, ReadDoneIdles, ReadDone, doneVars
  <2> QED BY <1>2, <1>3, <2>1, <2>2, <2>3
<1>9. CASE ArbiterNext
  <2>1. \E e : WaitFor("arbiter", e)
    BY <1>9 DEF ArbiterNext, ArbiterIdles, ArbiterSkips, ArbiterSendsRdCmd,
       ArbiterSendsRdData, ArbiterSendsWrData, ArbiterSendsComp, ArbiterSent,
       ArbiterTurn
  <2>2. "mWriteCmdDone" \in notified' => "mWriteCmdDone" \in notified
    BY <1>9 DEF ArbiterNext, ArbiterIdles, ArbiterSkips, ArbiterSendsRdCmd,
       ArbiterSendsRdData, ArbiterSendsWrData, ArbiterSendsComp, ArbiterSent,
       Notify, SentEvents
  <2>3. tagQ' = tagQ
    BY <1>9 DEF ArbiterNext, ArbiterIdles, ArbiterSkips, ArbiterSendsRdCmd,
       ArbiterSendsRdData, ArbiterSendsWrData, ArbiterSendsComp, ArbiterSent,
       doneVars
  <2> QED BY <1>2, <1>3, <2>1, <2>2, <2>3
<1>10. CASE Finished \/ UNCHANGED vars
  BY <1>10 DEF Finished, vars, doneVars, kernelVars
<1> QED BY <1>4, <1>5, <1>6, <1>7, <1>8, <1>9, <1>10 DEF Next

\* The inductive step.
LEMMA WriteDoneAwakeStep ==
  ASSUME TypeOK, WriteDoneAwake, [Next]_vars
  PROVE  WriteDoneAwake'
<1>. DEFINE w == "writeCmdDone"
<1>1. /\ waits \in [Thread -> WaitMark] /\ w \in Thread
      /\ tagQ \in Seq(Tag) /\ timed \subseteq TimedEvent
  BY DEF TypeOK, DoneTypeOK, KernelTypeOK, WaitMark, Thread
<1>2. CASE WriteCmdDoneWaits
  <2>1. /\ tagQ # <<>> /\ UNCHANGED <<tagQ, notified>>
        /\ run' = run \ {w}
        /\ waits'[w] \in {"mCQ1Hdbl", "mMemWriteCompQNotFull"}
    BY <1>1, <1>2 DEF WriteCmdDoneWaits, WaitFor, DoneBlocksOn, WriteDoneAwake, doneVars
  <2>. QED BY <2>1 DEF WriteDoneAwake
<1>3. CASE WriteCmdDone
  <2>1. /\ w \in run /\ tagQ' = Tail(tagQ) /\ pcmdq' = pcmdq
        /\ notified' = notified \cup {"mArbitrate"}
        /\ NextRound(w, tagQ', "mWriteCmdDone")
    BY <1>3 DEF WriteCmdDone, PostCompletion, Notify, pcmdVars
  <2>2. /\ "mWriteCmdDone" \notin notified'
        /\ \A q \in Slot : pcmdq'[q].st # "due"
    BY <2>1 DEF WriteDoneAwake
  <2>3. CASE tagQ' = <<>>
    <3>1. run' = run \ {w} /\ waits'[w] = "mWriteCmdDone"
      BY <1>1, <2>1, <2>3 DEF NextRound, WaitFor
    <3>. QED BY <2>2, <3>1 DEF WriteDoneAwake
  <2>4. CASE tagQ' # <<>>
    <3>1. waits'[w] = "none"
      BY <1>1, <2>1, <2>4 DEF NextRound, Continue
    <3>. QED BY <2>2, <2>4, <3>1 DEF WriteDoneAwake
  <2>. QED BY <2>3, <2>4
<1>4. ASSUME NEW q \in Slot, PendingWriteCmd(q)
      PROVE  WriteDoneAwake'
  <2>. DEFINE t == pcmdq[q].tag
  <2>1. /\ t \in Tag /\ pcmdq[q].st = "due" /\ UNCHANGED <<run, waits>>
        /\ \/ /\ tagQ' = Append(tagQ, t)
           \/ /\ tagQ' = tagQ
              /\ "mWriteCmdDone" \in notified' => "mWriteCmdDone" \in notified
    BY <1>4 DEF PendingWriteCmd, Notify, TypeOK, PcmdTypeOK
  <2>2. w \notin run'
    BY <2>1 DEF WriteDoneAwake
  <2>3. Append(tagQ, t) # <<>>
    BY <1>1, <2>1, PushElements
  <2>. QED BY <2>1, <2>2, <2>3 DEF WriteDoneAwake
<1>5. CASE Delta
  <2>1. /\ \A q \in Slot : pcmdq[q].st # "due"
        /\ run' = Woken(notified) /\ notified' = {}
        /\ UNCHANGED <<waits, tagQ>>
    BY <1>5 DEF Delta, PhaseOver, doneVars
  <2>2. \A q \in Slot : pcmdq'[q].st # "due"
    <3>1. ~TimePasses
      BY <1>5 DEF Delta, TimePasses, Tick
    <3>. QED BY <2>1, <3>1, NoneBecomesDue
  <2>3. w \in run' => tagQ # <<>>
    BY <2>1 DEF Woken, WriteDoneAwake
  <2>. QED BY <2>1, <2>2, <2>3 DEF WriteDoneAwake
<1>6. CASE TimePasses
  <2>1. PICK S \in SUBSET timed : run' = Woken(S)
    BY <1>6 DEF TimePasses, Tick
  <2>2. UNCHANGED <<waits, tagQ, notified>>
    BY <1>6 DEF TimePasses, Tick, doneVars
  <2>3. waits[w] \notin TimedEvent
    BY DEF WriteDoneAwake, TimedEvent
  <2>4. w \notin run'
    BY <1>1, <2>1, <2>3 DEF Woken
  <2>. QED BY <2>2, <2>4 DEF WriteDoneAwake
<1>7. CASE /\ ~WriteDoneNext /\ ~Delta /\ ~TimePasses
           /\ ~(\E q \in Slot : PendingWriteCmd(q))
  <2>1. /\ waits'[w] = waits[w] /\ (w \in run' => w \in run)
        /\ "mWriteCmdDone" \in notified' => "mWriteCmdDone" \in notified
        /\ tagQ' = tagQ
    BY <1>7, OthersLeaveWriteDone
  <2>2. \A q \in Slot : pcmdq'[q].st = "due" => pcmdq[q].st = "due"
    BY <1>7, NoneBecomesDue
  <2>. QED BY <2>1, <2>2 DEF WriteDoneAwake
<1>. QED BY <1>2, <1>3, <1>4, <1>5, <1>6, <1>7 DEF WriteDoneNext

\* writeCmdDoneThread reads front() of mTagQueue without a test after it has
\* waited: the queue is never empty then.
THEOREM TagQueueSafe == Spec => []TagQueueNeverReadEmpty
<1>1. Init => WriteDoneAwake
  BY DEF Init, KernelInit, FirstWait, WriteDoneAwake, Thread
<1>2. TypeOK /\ WriteDoneAwake /\ [Next]_vars => WriteDoneAwake'
  BY WriteDoneAwakeStep
<1>3. WriteDoneAwake => TagQueueNeverReadEmpty
  BY DEF WriteDoneAwake, TagQueueNeverReadEmpty
<1>. QED BY <1>1, <1>2, <1>3, TypeCorrect, PTL DEF Spec

(***************************************************************************)
(* The tables, the queues and the sub-commands of a tag.                   *)
(***************************************************************************)
LiveOf(t) == {q \in Slot : Live(q) /\ pcmdq[q].tag = t}
DoneSet == Range(tagQ) \cup Range(dmaActive) \cup Range(cmdDoneTagQ)

\* Until pcmdQInsertThread is through with a command it owns the command's
\* tag: no other command in its queue and no sub-command has that tag, but
\* those it has already made from the command.
InsertOwned ==
  /\ \A i \in DOMAIN insertQ :
       /\ tagTable[insertQ[i].tag]
       /\ hostCmd[insertQ[i].tag] = insertQ[i].cmd
       /\ \A j \in DOMAIN insertQ : insertQ[i].tag = insertQ[j].tag => i = j
       /\ JobActive => insertQ[i].tag # job.tag
       /\ \A q \in Slot : Live(q) => pcmdq[q].tag # insertQ[i].tag
  /\ JobActive =>
       /\ tagTable[job.tag] /\ hostCmd[job.tag] = job.cmd
       /\ \A q \in Slot : Live(q) /\ pcmdq[q].tag = job.tag =>
            pcmdq[q].idx < job.idx

\* The tags of finished commands are in one of the three queues, once.
DoneApart ==
  /\ IsInjective(tagQ) /\ IsInjective(dmaActive) /\ IsInjective(cmdDoneTagQ)
  /\ Range(tagQ) \cap Range(dmaActive) = {}
  /\ Range(tagQ) \cap Range(cmdDoneTagQ) = {}
  /\ Range(dmaActive) \cap Range(cmdDoneTagQ) = {}
  /\ \A t \in Tag : tagTable[t] /\ runCnt[t] = 0 <=> t \in DoneSet

TagInv ==
  /\ TagAccounting /\ LiveSubCmdsOwned /\ InsertOwned /\ RunningCountExact
  /\ DoneApart /\ DoneTagsMatchTLPs

\* A command has at least one code word and at most what 16 bits count.
LEMMA CommandCounts ==
  /\ Cmd \subseteq CmdOrNone /\ NoCmd \in CmdOrNone /\ Count16 \subseteq Nat
  /\ \A c \in CmdOrNone : /\ CmdCnt(c) \in Count16
                          /\ c # NoCmd => c \in Cmd /\ CmdCnt(c) > 0
                          /\ c = NoCmd => CmdCnt(c) = 0
<1>1. Cmd \subseteq CmdOrNone /\ NoCmd \in CmdOrNone /\ Count16 \subseteq Nat
      /\ 0 \in Count16
  BY SizesAssumption DEF Cmd, CmdOrNone, NoCmd, Count16, Width16
<1>2. \A c \in CmdOrNone : c # NoCmd => c \in Cmd
  BY SizesAssumption DEF Cmd, CmdOrNone, NoCmd
<1>3. \A c \in Cmd : c # NoCmd /\ Cnt[c] \in Count16 \ {0}
  BY CommandsAssumption DEF Cmd, NoCmd
<1>4. \A c \in CmdOrNone : c # NoCmd => CmdCnt(c) = Cnt[c]
  BY DEF CmdCnt
<1>5. \A c \in CmdOrNone : c = NoCmd => CmdCnt(c) = 0
  BY DEF CmdCnt
<1>6. \A k \in Count16 \ {0} : k > 0
  BY <1>1
<1>. QED BY <1>1, <1>2, <1>3, <1>4, <1>5, <1>6

\* The types the proofs below need, in one place.
LEMMA TagTypes ==
  ASSUME TypeOK
  PROVE  /\ hostCmd \in [Tag -> CmdOrNone] /\ hCmdQSize \in Int
         /\ tagTable \in [Tag -> BOOLEAN] /\ param \in [Tag -> CmdOrNone]
         /\ runCnt \in [Tag -> Count16]
         /\ \A i \in DOMAIN insertQ : /\ insertQ[i].tag \in Tag
                                      /\ insertQ[i].cmd \in CmdOrNone
         /\ job.tag \in Tag /\ job.cmd \in CmdOrNone /\ job.idx \in Nat
         /\ \A q \in Slot : /\ pcmdq[q].tag \in Tag /\ pcmdq[q].idx \in Nat
                            /\ pcmdq[q].cmd \in CmdOrNone
         /\ tagQ \in Seq(Tag) /\ dmaActive \in Seq(Tag)
         /\ cmdDoneTagQ \in Seq(Tag) /\ DoneSet \subseteq Tag
<1>1. /\ TableTypeOK /\ DoneTypeOK /\ PcmdTypeOK
  BY DEF TypeOK
<1>2. \A i \in DOMAIN insertQ : /\ insertQ[i].tag \in Tag
                                /\ insertQ[i].cmd \in CmdOrNone
  <2>. DEFINE E == [cmd : CmdOrNone, tag : Tag]
  <2>1. insertQ \in Seq(E)
    BY <1>1 DEF PcmdTypeOK
  <2>2. \A x \in E : x.tag \in Tag /\ x.cmd \in CmdOrNone
    OBVIOUS
  <2>. HIDE DEF E
  <2>3. \A i \in DOMAIN insertQ : insertQ[i] \in E
    BY <2>1
  <2>. QED BY <2>2, <2>3
<1>3. \A s \in Seq(Tag) : Range(s) \subseteq Tag
  BY RangeOfSeq
<1>4. DoneSet \subseteq Tag
  BY <1>1, <1>3 DEF DoneTypeOK, DoneSet
<1>5. \A q \in Slot : /\ pcmdq[q].tag \in Tag /\ pcmdq[q].idx \in Nat
                      /\ pcmdq[q].cmd \in CmdOrNone
  BY <1>1 DEF PcmdTypeOK
<1>6. job.tag \in Tag /\ job.cmd \in CmdOrNone /\ job.idx \in Nat
  BY <1>1 DEF PcmdTypeOK
<1>. QED BY <1>1, <1>2, <1>4, <1>5, <1>6 DEF TableTypeOK, DoneTypeOK

\* Sets of entries and sets of tags are finite.
LEMMA FiniteTables ==
  /\ \A S \in SUBSET Slot : IsFiniteSet(S) /\ Cardinality(S) \in Nat
  /\ \A S \in SUBSET Tag : IsFiniteSet(S) /\ Cardinality(S) \in Nat
  /\ Cardinality(Tag) = QueueSize
<1>1. /\ IsFiniteSet(Slot) /\ IsFiniteSet(Tag) /\ Cardinality(Tag) = QueueSize
  BY SizesAssumption, FS_Interval DEF Slot, Tag
<1>. QED BY <1>1, FS_Subset, FS_CardinalityType

\* What is still to be inserted of a busy tag's command.
LEMMA ToInsertOf ==
  ASSUME TypeOK, NEW t \in Tag
  PROVE  /\ ToInsert(t) \in Nat
         /\ \A i \in DOMAIN insertQ :
              insertQ[i].tag = t => ToInsert(t) = CmdCnt(hostCmd[t])
         /\ (\A i \in DOMAIN insertQ : insertQ[i].tag # t) =>
              ToInsert(t) = IF job.tag = t /\ JobActive
                            THEN CmdCnt(job.cmd) - job.idx ELSE 0
<1>1. /\ hostCmd[t] \in CmdOrNone /\ job.cmd \in CmdOrNone /\ job.idx \in Nat
  BY TagTypes
<1>2. /\ CmdCnt(hostCmd[t]) \in Nat /\ CmdCnt(job.cmd) \in Nat
  BY <1>1, CommandCounts
<1>. QED BY <1>1, <1>2 DEF ToInsert, JobActive

\* A step that changes neither the tables nor the queues of tags, and of
\* the sub-commands only how far they are, leaves all of it true.
LEMMA TagsSame ==
  ASSUME TypeOK, TagInv,
         UNCHANGED <<tableVars, insertQ, job, tagQ, dmaActive, cmdDoneTagQ, compQ>>,
         \A q \in Slot : /\ pcmdq'[q].st # "free" <=> pcmdq[q].st # "free"
                         /\ pcmdq'[q].cmd = pcmdq[q].cmd
                         /\ pcmdq'[q].idx = pcmdq[q].idx
                         /\ pcmdq'[q].tag = pcmdq[q].tag
  PROVE  TagInv'
<1>1. UNCHANGED <<hostCmd, hCmdQSize, tagTable, param, runCnt>>
  BY DEF tableVars
<1>2. \A q \in Slot : Live(q)' <=> Live(q)
  BY DEF Live
<1>3. BusyTags' = BusyTags /\ DoneSet' = DoneSet
  BY <1>1 DEF BusyTags, DoneSet
<1>4. \A t : LiveOf(t)' = LiveOf(t)
  BY <1>2 DEF LiveOf
<1>5. \A t : ToInsert(t)' = ToInsert(t)
  BY <1>1 DEF ToInsert, JobActive, CmdCnt
<1>6. TagAccounting'
  BY <1>1, <1>3 DEF TagInv, TagAccounting
<1>7. LiveSubCmdsOwned'
  BY <1>1, <1>2 DEF TagInv, LiveSubCmdsOwned
<1>8. InsertOwned'
  BY <1>1, <1>2 DEF TagInv, InsertOwned, JobActive
<1>9. RunningCountExact'
  <2>1. \A t \in BusyTags : runCnt[t] = ToInsert(t) + Cardinality(LiveOf(t))
    BY DEF TagInv, RunningCountExact, LiveOf
  <2>2. \A t \in BusyTags' : runCnt'[t] = ToInsert(t)' + Cardinality(LiveOf(t)')
    BY <1>1, <1>3, <1>4, <1>5, <2>1
  <2>. QED BY <2>2 DEF RunningCountExact, LiveOf
<1>10. DoneApart' /\ DoneTagsMatchTLPs'
  BY <1>1, <1>3 DEF TagInv, DoneApart, DoneTagsMatchTLPs
<1>. QED BY <1>6, <1>7, <1>8, <1>9, <1>10 DEF TagInv

\* processCompletionTLPCmd takes a tag that nothing else has.
LEMMA TagsAccept ==
  ASSUME IInv, RingInv, TagInv, processCompletionTLPCmd
  PROVE  TagInv'
<1>a. PICK t \in Tag : t = getFreeTag
  BY GetFreeTagIsTag
<1>. DEFINE c == Accepted + 1
            e == [cmd |-> c, tag |-> t]
<1>0. TypeOK
  BY DEF IInv
<1>1. /\ tagTable' = [tagTable EXCEPT ![t] = TRUE]
      /\ hostCmd' = [hostCmd EXCEPT ![t] = c]
      /\ hCmdQSize' = hCmdQSize + 1
      /\ param' = [param EXCEPT ![t] = c]
      /\ runCnt' = [runCnt EXCEPT ![t] = CmdCnt(c)]
      /\ insertQ' = Append(insertQ, e)
      /\ UNCHANGED <<job, pcmdq, tagQ, dmaActive, cmdDoneTagQ, compQ>>
  BY <1>a, RingAccept
  DEF processCompletionTLPCmd, FillTables, SetRunCnt, doneVars, tlpVars
<1>2. t \in Tag /\ ~tagTable[t]
  <2>1. hCmdQSize # QueueSize
    BY DEF processCompletionTLPCmd
  <2>2. hCmdQSize = Cardinality(BusyTags)
    BY DEF TagInv, TagAccounting
  <2>3. FreeTags # {}
    <3>1. FreeTags = {} => BusyTags = Tag
      BY DEF FreeTags, BusyTags
    <3>. QED BY <2>1, <2>2, <3>1, FiniteTables
  <2>. QED BY <1>a, <2>3, GetFreeTagIsTag DEF FreeTags
<1>3. /\ c \in Cmd /\ c # NoCmd /\ CmdCnt(c) > 0 /\ CmdCnt(c) \in Nat
      /\ \A u \in Tag : hostCmd[u] # c
  <2>1. c \in Cmd
    <3>1. Accepted \in Nat /\ Accepted < submitted /\ submitted \in 0 .. NumCmds
      BY <1>0, RingNumbers, RingAccept DEF TypeOK, HostTypeOK
    <3>. QED BY <3>1, SizesAssumption DEF Cmd
  <2>2. \A u \in Tag : hostCmd[u] # c
    <3>1. \A u \in Tag : hostCmd[u] <= Accepted
      BY DEF RingInv, OnlyAccepted
    <3>. QED BY <3>1, RingNumbers
  <2>3. c # NoCmd
    BY <2>1 DEF Cmd, NoCmd
  <2>. QED BY <2>1, <2>2, <2>3, CommandCounts
<1>. HIDE DEF c
<1>4. /\ \A i \in DOMAIN insertQ : insertQ[i].tag # t
      /\ JobActive => job.tag # t
      /\ \A q \in Slot : Live(q) => pcmdq[q].tag # t
      /\ t \notin DoneSet
  BY <1>2 DEF TagInv, InsertOwned, LiveSubCmdsOwned, DoneApart
<1>5. /\ DOMAIN insertQ = 1 .. Len(insertQ) /\ Len(insertQ) \in Nat
      /\ DOMAIN insertQ' = 1 .. Len(insertQ) + 1
      /\ \A i \in 1 .. Len(insertQ) : insertQ'[i] = insertQ[i]
      /\ insertQ'[Len(insertQ) + 1] = e
  <2>. DEFINE E == [cmd : CmdOrNone, tag : Tag]
  <2>1. insertQ \in Seq(E)
    BY <1>0 DEF TypeOK, PcmdTypeOK
  <2>. HIDE DEF E, e
  <2>. QED BY <1>1, <2>1, AppendElements
<1>6. \A i \in DOMAIN insertQ' :
        \/ i \in DOMAIN insertQ /\ insertQ'[i] = insertQ[i]
        \/ i = Len(insertQ) + 1 /\ insertQ'[i].cmd = c /\ insertQ'[i].tag = t
  BY <1>5
<1>7. \A u \in Tag : /\ u # t => /\ tagTable'[u] = tagTable[u]
                                 /\ hostCmd'[u] = hostCmd[u]
                                 /\ param'[u] = param[u]
                                 /\ runCnt'[u] = runCnt[u]
                     /\ u = t => /\ tagTable'[u] = TRUE /\ hostCmd'[u] = c
                                 /\ param'[u] = c
                                 /\ runCnt'[u] = CmdCnt(c)
  BY <1>0, <1>1, <1>2, TagTypes
<1>8. BusyTags' = BusyTags \cup {t} /\ t \notin BusyTags /\ BusyTags \subseteq Tag
  BY <1>2, <1>7 DEF BusyTags
<1>9. TagAccounting'
  <2>1. \A u \in Tag : tagTable'[u] <=> hostCmd'[u] # NoCmd
    BY <1>3, <1>7 DEF TagInv, TagAccounting
  <2>2. param' = hostCmd'
    BY <1>1 DEF TagInv, TagAccounting
  <2>3. hCmdQSize' = Cardinality(BusyTags')
    <3>1. IsFiniteSet(BusyTags)
      BY <1>8, FiniteTables
    <3>2. Cardinality(BusyTags \cup {t}) = Cardinality(BusyTags) + 1
      BY <1>8, <3>1, FS_AddElement
    <3>. QED BY <1>1, <1>8, <3>2 DEF TagInv, TagAccounting
  <2>4. ASSUME NEW u \in BusyTags', NEW v \in BusyTags', hostCmd'[u] = hostCmd'[v]
        PROVE  u = v
    <3>1. u \in Tag /\ v \in Tag
      BY <1>2, <1>8
    <3>2. CASE u # t /\ v # t
      BY <1>7, <1>8, <2>4, <3>1, <3>2 DEF TagInv, TagAccounting
    <3>3. CASE u = t \/ v = t
      BY <1>3, <1>7, <2>4, <3>1, <3>3
    <3>. QED BY <3>2, <3>3
  <2>. QED BY <2>1, <2>2, <2>3, <2>4 DEF TagAccounting
<1>10. LiveSubCmdsOwned'
  <2>1. \A q \in Slot : Live(q)' <=> Live(q)
    BY <1>1 DEF Live
  <2>2. \A q \in Slot : Live(q) =>
          /\ pcmdq[q].tag \in Tag /\ pcmdq[q].tag # t
    BY <1>0, <1>4, TagTypes
  <2>. QED BY <1>1, <1>7, <2>1, <2>2 DEF TagInv, LiveSubCmdsOwned
<1>11. InsertOwned'
  <2>1. /\ JobActive' <=> JobActive
        /\ \A q \in Slot : Live(q)' <=> Live(q)
    BY <1>1 DEF JobActive, Live
  <2>2. \A i \in DOMAIN insertQ : insertQ[i].tag \in Tag
    BY <1>0, TagTypes
  <2>3. ASSUME NEW i \in DOMAIN insertQ'
        PROVE  /\ tagTable'[insertQ'[i].tag]
               /\ hostCmd'[insertQ'[i].tag] = insertQ'[i].cmd
               /\ \A j \in DOMAIN insertQ' : insertQ'[i].tag = insertQ'[j].tag => i = j
               /\ JobActive => insertQ'[i].tag # job.tag
               /\ \A q \in Slot : Live(q) => pcmdq[q].tag # insertQ'[i].tag
    <3>1. CASE i \in DOMAIN insertQ /\ insertQ'[i] = insertQ[i]
      BY <1>4, <1>6, <1>7, <2>2, <3>1 DEF TagInv, InsertOwned
    <3>2. CASE i = Len(insertQ) + 1 /\ insertQ'[i].cmd = c /\ insertQ'[i].tag = t
      BY <1>2, <1>4, <1>6, <1>7, <3>2
    <3>. QED BY <1>6, <3>1, <3>2
  <2>4. JobActive => /\ tagTable'[job.tag] /\ hostCmd'[job.tag] = job.cmd
                     /\ \A q \in Slot : Live(q) /\ pcmdq[q].tag = job.tag =>
                          pcmdq[q].idx < job.idx
    BY <1>0, <1>4, <1>7, TagTypes DEF TagInv, InsertOwned
  <2>. QED BY <1>1, <2>1, <2>3, <2>4 DEF InsertOwned
<1>12. RunningCountExact'
  <2>1. \A u \in BusyTags : runCnt[u] = ToInsert(u) + Cardinality(LiveOf(u))
    BY DEF TagInv, RunningCountExact, LiveOf
  <2>2. \A u : LiveOf(u)' = LiveOf(u)
    BY <1>1 DEF LiveOf, Live
  <2>3. ASSUME NEW u \in Tag, u # t
        PROVE  ToInsert(u)' = ToInsert(u)
    <3>1. u \in Tag /\ u # t
      BY <2>3
    <3>2. (\E i \in DOMAIN insertQ' : insertQ'[i].tag = u)
            <=> \E i \in DOMAIN insertQ : insertQ[i].tag = u
      BY <1>5, <1>6, <3>1
    <3>. QED BY <1>1, <1>7, <3>1, <3>2 DEF ToInsert, JobActive
  <2>4. ASSUME NEW u \in Tag, u = t
        PROVE  ToInsert(u)' = CmdCnt(c)
    <3>1. \E i \in DOMAIN insertQ' : insertQ'[i].tag = u
      BY <1>5, <2>4
    <3>2. ToInsert(u)' = CmdCnt(hostCmd'[u])
      BY <3>1 DEF ToInsert
    <3>. QED BY <1>7, <2>4, <3>2
  <2>5. LiveOf(t) = {} /\ Cardinality(LiveOf(t)) = 0
    <3>1. LiveOf(t) = {}
      BY <1>4 DEF LiveOf
    <3>. QED BY <3>1, FS_EmptySet
  <2>6. ASSUME NEW u \in BusyTags'
        PROVE  runCnt'[u] = ToInsert(u)' + Cardinality(LiveOf(u)')
    <3>1. CASE u = t
      <4>1. ToInsert(u)' = CmdCnt(c) /\ runCnt'[u] = CmdCnt(c)
        BY <1>2, <1>7, <2>4, <3>1
      <4>2. Cardinality(LiveOf(u)') = 0
        <5>1. Cardinality(LiveOf(u)) = 0
          BY <2>5, <3>1
        <5>2. LiveOf(u)' = LiveOf(u)
          BY <2>2
        <5>. QED BY <5>1, <5>2
      <4>. QED BY <1>3, <4>1, <4>2
    <3>2. CASE u # t
      <4>1. u \in BusyTags /\ u \in Tag /\ runCnt'[u] = runCnt[u]
        BY <1>7, <1>8, <3>2
      <4>2. ToInsert(u)' = ToInsert(u)
        BY <2>3, <3>2, <4>1
      <4>3. LiveOf(u)' = LiveOf(u)
        BY <2>2
      <4>4. runCnt[u] = ToInsert(u) + Cardinality(LiveOf(u))
        BY <2>1, <4>1
      <4>. QED BY <4>1, <4>2, <4>3, <4>4
    <3>. QED BY <3>1, <3>2
  <2>. QED BY <2>6 DEF RunningCountExact, LiveOf
<1>13. DoneApart'
  <2>1. DoneSet' = DoneSet
    BY <1>1 DEF DoneSet
  <2>2. \A u \in Tag : tagTable'[u] /\ runCnt'[u] = 0 <=> u \in DoneSet
    BY <1>3, <1>4, <1>7 DEF TagInv, DoneApart
  <2>. QED BY <1>1, <2>1, <2>2 DEF TagInv, DoneApart
<1>14. DoneTagsMatchTLPs'
  <2>1. \A i \in DOMAIN compQ : cmdDoneTagQ[i] \in Tag /\ cmdDoneTagQ[i] # t
    <3>1. \A i \in DOMAIN compQ : i \in DOMAIN cmdDoneTagQ
      <4>1. compQ \in Seq([slot : CQIdx, cid : CmdOrNone, phase : BOOLEAN])
            /\ cmdDoneTagQ \in Seq(Tag)
        BY <1>0 DEF TypeOK, TLPTypeOK, DoneTypeOK
      <4>. QED BY <4>1, LenProperties DEF TagInv, DoneTagsMatchTLPs
    <3>. QED BY <1>0, <1>4, <3>1, TagTypes DEF DoneSet, Range
  <2>. QED BY <1>1, <1>7, <2>1 DEF TagInv, DoneTagsMatchTLPs
<1>. QED BY <1>9, <1>10, <1>11, <1>12, <1>13, <1>14 DEF TagInv

\* pcmdQInsertThread takes the next command from its queue: what was to be
\* inserted of it still is.
LEMMA TagsTake ==
  ASSUME TypeOK, TagInv, PcmdQInsertTakes
  PROVE  TagInv'
<1>1. /\ ~JobActive /\ insertQ # <<>> /\ insertQ' = Tail(insertQ)
      /\ job' = [cmd |-> Head(insertQ).cmd, tag |-> Head(insertQ).tag,
                 idx |-> 0, off |-> 0]
      /\ UNCHANGED <<tableVars, pcmdq, tagQ, dmaActive, cmdDoneTagQ, compQ>>
  BY DEF PcmdQInsertTakes, tlpVars, doneVars
<1>2. UNCHANGED <<hostCmd, hCmdQSize, tagTable, param, runCnt>>
  BY <1>1 DEF tableVars
<1>3. /\ Head(insertQ) = insertQ[1] /\ 1 \in DOMAIN insertQ
      /\ \A i \in DOMAIN insertQ' : /\ i \in Nat \ {0} /\ i + 1 \in DOMAIN insertQ
                                    /\ insertQ'[i] = insertQ[i + 1]
      /\ \A i \in DOMAIN insertQ : i # 1 => \E j \in DOMAIN insertQ' : i = j + 1
  <2>. DEFINE E == [cmd : CmdOrNone, tag : Tag]
  <2>1. insertQ \in Seq(E)
    BY DEF TypeOK, PcmdTypeOK
  <2>. HIDE DEF E
  <2>. QED BY <1>1, <2>1, PopElements
<1>4. PICK t \in Tag : t = insertQ[1].tag
  BY <1>3, TagTypes
<1>5. PICK c \in CmdOrNone : c = insertQ[1].cmd
  BY <1>3, TagTypes
<1>6. job'.cmd = c /\ job'.tag = t /\ job'.idx = 0
  BY <1>1, <1>3, <1>4, <1>5
<1>7. tagTable[t] /\ hostCmd[t] = c /\ \A q \in Slot : Live(q) => pcmdq[q].tag # t
  BY <1>3, <1>4, <1>5 DEF TagInv, InsertOwned
<1>8. CmdCnt(c) > 0 /\ CmdCnt(c) \in Nat
  <2>1. c # NoCmd
    BY <1>7 DEF TagInv, TagAccounting
  <2>. QED BY <2>1, CommandCounts
<1>9. JobActive'
  BY <1>6, <1>8 DEF JobActive
<1>10. \A i \in DOMAIN insertQ' :
         /\ i \in Nat \ {0} /\ i + 1 \in DOMAIN insertQ
         /\ insertQ'[i] = insertQ[i + 1] /\ insertQ[i + 1].tag # t
  <2>1. ASSUME NEW i \in DOMAIN insertQ'
        PROVE  insertQ[i + 1].tag # t
    <3>1. i + 1 \in DOMAIN insertQ /\ i + 1 # 1
      BY <1>3
    <3>. QED BY <1>3, <1>4, <3>1 DEF TagInv, InsertOwned
  <2>. QED BY <1>3, <2>1
<1>11. \A q \in Slot : Live(q)' <=> Live(q)
  BY <1>1 DEF Live
<1>12. TagAccounting' /\ DoneApart' /\ DoneTagsMatchTLPs' /\ LiveSubCmdsOwned'
  <2>1. BusyTags' = BusyTags /\ DoneSet' = DoneSet
    BY <1>1, <1>2 DEF BusyTags, DoneSet
  <2>. QED BY <1>1, <1>2, <1>11, <2>1
       DEF TagInv, TagAccounting, DoneApart, DoneTagsMatchTLPs, LiveSubCmdsOwned
<1>13. InsertOwned'
  <2>1. ASSUME NEW i \in DOMAIN insertQ'
        PROVE  /\ tagTable'[insertQ'[i].tag]
               /\ hostCmd'[insertQ'[i].tag] = insertQ'[i].cmd
               /\ \A j \in DOMAIN insertQ' : insertQ'[i].tag = insertQ'[j].tag => i = j
               /\ insertQ'[i].tag # job'.tag
               /\ \A q \in Slot : Live(q) => pcmdq[q].tag # insertQ'[i].tag
    <3>1. ASSUME NEW j \in DOMAIN insertQ', insertQ'[i].tag = insertQ'[j].tag
          PROVE  i = j
      <4>1. i + 1 = j + 1
        BY <1>10, <3>1 DEF TagInv, InsertOwned
      <4>. QED BY <1>10, <4>1
    <3>. QED BY <1>2, <1>6, <1>10, <3>1 DEF TagInv, InsertOwned
  <2>2. /\ tagTable'[job'.tag] /\ hostCmd'[job'.tag] = job'.cmd
        /\ \A q \in Slot : Live(q) => pcmdq[q].tag # job'.tag
    BY <1>2, <1>6, <1>7
  <2>. QED BY <1>1, <1>11, <2>1, <2>2 DEF InsertOwned
<1>14. ASSUME NEW u \in BusyTags
       PROVE  ToInsert(u)' = ToInsert(u)
  <2>1. u \in Tag
    BY DEF BusyTags
  <2>2. CASE u = t
    <3>1. ToInsert(u) = CmdCnt(c)
      BY <1>3, <1>4, <1>7, <2>1, <2>2, ToInsertOf
    <3>2. ~(\E i \in DOMAIN insertQ' : insertQ'[i].tag = u)
      BY <1>10, <2>2
    <3>3. ToInsert(u)' = CmdCnt(job'.cmd) - job'.idx
      BY <1>6, <1>9, <2>2, <3>2 DEF ToInsert
    <3>. QED BY <1>6, <1>8, <3>1, <3>3
  <2>3. CASE u # t
    <3>1. (\E i \in DOMAIN insertQ' : insertQ'[i].tag = u)
            <=> \E i \in DOMAIN insertQ : insertQ[i].tag = u
      BY <1>3, <1>4, <1>10, <2>3
    <3>. QED BY <1>1, <1>2, <1>6, <2>3, <3>1 DEF ToInsert
  <2>. QED BY <2>2, <2>3
<1>15. RunningCountExact'
  <2>1. ASSUME NEW u \in BusyTags'
        PROVE  runCnt'[u] = ToInsert(u)' + Cardinality(LiveOf(u)')
    <3>1. u \in BusyTags
      BY <1>2 DEF BusyTags
    <3>2. ToInsert(u)' = ToInsert(u)
      BY <1>14, <3>1
    <3>3. LiveOf(u)' = LiveOf(u)
      BY <1>1 DEF LiveOf, Live
    <3>4. runCnt[u] = ToInsert(u) + Cardinality(LiveOf(u))
      BY <3>1 DEF TagInv, RunningCountExact, LiveOf
    <3>. QED BY <1>2, <3>2, <3>3, <3>4
  <2>. QED BY <2>1 DEF RunningCountExact, LiveOf
<1>. QED BY <1>12, <1>13, <1>15 DEF TagInv

\* pcmdQInsertThread strips one sub-command: one less to insert, one more in
\* the PCMDQ.
LEMMA TagsStrip ==
  ASSUME TypeOK, TagInv, PcmdQInsertStrips
  PROVE  TagInv'
<1>1. PICK q \in Slot : q = getFreeQueueAddr /\ ~Live(q)
  BY FreeQueueAddr DEF PcmdQInsertStrips
<1>2. PICK t \in Tag : t = job.tag
  BY TagTypes
<1>3. PICK c \in CmdOrNone : c = job.cmd
  BY TagTypes
<1>4. PICK k \in Nat : k = job.idx
  BY TagTypes
<1>5. /\ JobActive /\ k < CmdCnt(c) /\ CmdCnt(c) \in Nat
      /\ tagTable[t] /\ hostCmd[t] = c
      /\ \A i \in DOMAIN insertQ : insertQ[i].tag # t
      /\ \A r \in Slot : Live(r) /\ pcmdq[r].tag = t => pcmdq[r].idx < k
  BY <1>2, <1>3, <1>4, CommandCounts
  DEF PcmdQInsertStrips, JobActive, TagInv, InsertOwned
<1>6. /\ UNCHANGED <<hostCmd, hCmdQSize, tagTable, param, runCnt>>
      /\ UNCHANGED <<insertQ, tagQ, dmaActive, cmdDoneTagQ, compQ>>
  BY DEF PcmdQInsertStrips, tableVars, doneVars, tlpVars
<1>7. /\ pcmdq'[q].st # "free" /\ pcmdq'[q].cmd = c /\ pcmdq'[q].idx = k
      /\ pcmdq'[q].tag = t
      /\ \A r \in Slot : r # q => pcmdq'[r] = pcmdq[r]
  BY <1>1, <1>2, <1>3, <1>4 DEF PcmdQInsertStrips, TypeOK, PcmdTypeOK
<1>8. job'.cmd = c /\ job'.tag = t /\ job'.idx = k + 1
  BY <1>2, <1>3, <1>4 DEF PcmdQInsertStrips
<1>9. /\ \A r \in Slot : r # q => (Live(r)' <=> Live(r))
      /\ Live(q)'
  BY <1>7 DEF Live
<1>10. TagAccounting' /\ DoneApart' /\ DoneTagsMatchTLPs'
  <2>1. BusyTags' = BusyTags /\ DoneSet' = DoneSet
    BY <1>6 DEF BusyTags, DoneSet
  <2>. QED BY <1>6, <2>1
       DEF TagInv, TagAccounting, DoneApart, DoneTagsMatchTLPs
<1>11. LiveSubCmdsOwned'
  <2>1. ASSUME NEW r \in Slot, Live(r)'
        PROVE  /\ tagTable'[pcmdq'[r].tag]
               /\ hostCmd'[pcmdq'[r].tag] = pcmdq'[r].cmd
               /\ pcmdq'[r].idx < CmdCnt(pcmdq'[r].cmd)
    BY <1>5, <1>6, <1>7, <1>9, <2>1 DEF TagInv, LiveSubCmdsOwned
  <2>2. ASSUME NEW r \in Slot, Live(r), pcmdq[r].cmd = c
        PROVE  pcmdq[r].idx # k
    <3>1. tagTable[pcmdq[r].tag] /\ hostCmd[pcmdq[r].tag] = c /\ pcmdq[r].tag \in Tag
      BY <2>2, TagTypes DEF TagInv, LiveSubCmdsOwned
    <3>2. pcmdq[r].tag = t
      BY <1>5, <3>1 DEF TagInv, TagAccounting, BusyTags
    <3>3. pcmdq[r].idx < k /\ pcmdq[r].idx \in Nat
      BY <1>5, <2>2, <3>2, TagTypes
    <3>. QED BY <3>3
  <2>3. ASSUME NEW r \in Slot, NEW s \in Slot, Live(r)', Live(s)', r # s
        PROVE  <<pcmdq'[r].cmd, pcmdq'[r].idx>> # <<pcmdq'[s].cmd, pcmdq'[s].idx>>
    <3>1. CASE r # q /\ s # q
      BY <1>7, <1>9, <2>3, <3>1 DEF TagInv, LiveSubCmdsOwned
    <3>2. CASE r = q
      BY <1>7, <1>9, <2>2, <2>3, <3>2
    <3>3. CASE s = q
      BY <1>7, <1>9, <2>2, <2>3, <3>3
    <3>. QED BY <3>1, <3>2, <3>3
  <2>. QED BY <2>1, <2>3 DEF LiveSubCmdsOwned
<1>12. InsertOwned'
  <2>1. ASSUME NEW i \in DOMAIN insertQ
        PROVE  /\ tagTable'[insertQ[i].tag]
               /\ hostCmd'[insertQ[i].tag] = insertQ[i].cmd
               /\ \A j \in DOMAIN insertQ : insertQ[i].tag = insertQ[j].tag => i = j
               /\ insertQ[i].tag # job'.tag
               /\ \A r \in Slot : Live(r)' => pcmdq'[r].tag # insertQ[i].tag
    BY <1>5, <1>6, <1>7, <1>8, <1>9 DEF TagInv, InsertOwned
  <2>2. ASSUME NEW r \in Slot, Live(r)', pcmdq'[r].tag = t
        PROVE  pcmdq'[r].idx < k + 1
    <3>1. CASE r = q
      BY <1>7, <3>1
    <3>2. CASE r # q
      <4>1. pcmdq[r].idx < k /\ pcmdq[r].idx \in Nat /\ pcmdq'[r] = pcmdq[r]
        BY <1>5, <1>7, <1>9, <2>2, <3>2, TagTypes
      <4>. QED BY <4>1
    <3>. QED BY <3>1, <3>2
  <2>3. tagTable'[job'.tag] /\ hostCmd'[job'.tag] = job'.cmd
    BY <1>5, <1>6, <1>8
  <2>. QED BY <1>6, <1>8, <2>1, <2>2, <2>3 DEF InsertOwned
<1>13. ASSUME NEW u \in BusyTags'
       PROVE  runCnt'[u] = ToInsert(u)' + Cardinality(LiveOf(u)')
  <2>1. u \in BusyTags /\ u \in Tag
    BY <1>6 DEF BusyTags
  <2>2. runCnt[u] = ToInsert(u) + Cardinality(LiveOf(u))
    BY <2>1 DEF TagInv, RunningCountExact, LiveOf
  <2>3. CASE u = t
    <3>1. ToInsert(u) = CmdCnt(c) - k
      BY <1>2, <1>3, <1>4, <1>5, <2>3, ToInsertOf
    <3>2. ToInsert(u)' = CmdCnt(c) - (k + 1)
      <4>1. ~(\E i \in DOMAIN insertQ' : insertQ'[i].tag = u)
        BY <1>5, <1>6, <2>3
      <4>2. ToInsert(u)' = IF job'.tag = u /\ job'.idx < CmdCnt(job'.cmd)
                           THEN CmdCnt(job'.cmd) - job'.idx ELSE 0
        BY <4>1 DEF ToInsert, JobActive
      <4>3. ToInsert(u)' = IF k + 1 < CmdCnt(c) THEN CmdCnt(c) - (k + 1) ELSE 0
        BY <1>8, <2>3, <4>2
      <4>. QED BY <1>5, <4>3
    <3>3. LiveOf(u)' = LiveOf(u) \cup {q} /\ q \notin LiveOf(u)
      BY <1>1, <1>7, <1>9, <2>3 DEF LiveOf
    <3>4. IsFiniteSet(LiveOf(u)) /\ Cardinality(LiveOf(u)) \in Nat
      BY FiniteTables DEF LiveOf
    <3>5. Cardinality(LiveOf(u)') = Cardinality(LiveOf(u)) + 1
      <4>1. Cardinality(LiveOf(u) \cup {q}) = Cardinality(LiveOf(u)) + 1
        BY <3>3, <3>4, FS_AddElement
      <4>. QED BY <3>3, <4>1
    <3>. QED BY <1>5, <1>6, <2>2, <3>1, <3>2, <3>4, <3>5
  <2>4. CASE u # t
    <3>1. ToInsert(u)' = ToInsert(u)
      BY <1>2, <1>6, <1>8, <2>4 DEF ToInsert
    <3>2. LiveOf(u)' = LiveOf(u)
      BY <1>1, <1>7, <1>9, <2>4 DEF LiveOf
    <3>. QED BY <1>6, <2>2, <3>1, <3>2
  <2>. QED BY <2>3, <2>4
<1>14. RunningCountExact'
  BY <1>13 DEF RunningCountExact, LiveOf
<1>. QED BY <1>10, <1>11, <1>12, <1>14 DEF TagInv

\* A count of n values goes down to zero without wrapping around.
LEMMA CountDown ==
  ASSUME NEW n \in Nat \ {0}, NEW a \in 0 .. n - 1, a > 0
  PROVE  (a - 1) % n = a - 1
OBVIOUS

\* A sub-command is finished: the count goes down with it, never below zero,
\* and the last one queues the tag.
LEMMA TagsFinish ==
  ASSUME TypeOK, TagInv, NEW q \in Slot, Live(q), FinishSubCmd(q),
         NEW t \in Tag, t = pcmdq[q].tag,
         UNCHANGED <<hostCmd, hCmdQSize, tagTable, param, insertQ, job,
                     cmdDoneTagQ, compQ>>,
         \/ runCnt'[t] = 0 /\ tagQ' = Append(tagQ, t) /\ dmaActive' = dmaActive
         \/ runCnt'[t] = 0 /\ dmaActive' = Append(dmaActive, t) /\ tagQ' = tagQ
         \/ runCnt'[t] # 0 /\ UNCHANGED <<tagQ, dmaActive>>
  PROVE  TagInv'
<1>1. /\ pcmdq'[q].st = "free"
      /\ \A r \in Slot : r # q => pcmdq'[r] = pcmdq[r]
  BY DEF FinishSubCmd, FreeEntry, TypeOK, PcmdTypeOK
<1>2. ~(Live(q)') /\ \A r \in Slot : r # q => (Live(r)' <=> Live(r))
  BY <1>1 DEF Live
<1>3. tagTable[t] /\ t \in BusyTags
  BY DEF TagInv, LiveSubCmdsOwned, BusyTags
<1>4. \A u : /\ u # t => LiveOf(u)' = LiveOf(u)
             /\ u = t => LiveOf(u)' = LiveOf(u) \ {q}
  BY <1>1, <1>2 DEF LiveOf
<1>5. /\ q \in LiveOf(t)
      /\ \A u : IsFiniteSet(LiveOf(u)) /\ Cardinality(LiveOf(u)) \in Nat
  BY FiniteTables DEF LiveOf
<1>6. /\ Cardinality(LiveOf(t) \ {q}) = Cardinality(LiveOf(t)) - 1
      /\ Cardinality(LiveOf(t)) > 0
  <2>1. Cardinality(LiveOf(t) \ {q}) = Cardinality(LiveOf(t)) - 1
    BY <1>5, FS_RemoveElement
  <2>2. Cardinality(LiveOf(t)) # 0
    BY <1>5, FS_EmptySet
  <2>. QED BY <1>5, <2>1, <2>2
<1>7. \A u \in Tag : ToInsert(u)' = ToInsert(u) /\ ToInsert(u) \in Nat
  BY ToInsertOf DEF ToInsert, JobActive
<1>8. \A u \in BusyTags : runCnt[u] = ToInsert(u) + Cardinality(LiveOf(u))
  BY DEF TagInv, RunningCountExact, LiveOf
<1>9. /\ runCnt[t] \in Nat /\ runCnt[t] > 0
      /\ runCnt' = [runCnt EXCEPT ![t] = runCnt[t] - 1]
  <2>1. runCnt[t] \in Nat /\ runCnt[t] \in Count16
    BY TagTypes, CommandCounts
  <2>2. runCnt[t] > 0
    BY <1>3, <1>5, <1>6, <1>7, <1>8
  <2>3. Width16 \in Nat \ {0}
    BY DEF Width16
  <2>4. (runCnt[t] - 1) % Width16 = runCnt[t] - 1
    BY <2>1, <2>2, <2>3, CountDown DEF Count16
  <2>5. runCnt' = [runCnt EXCEPT ![t] = (runCnt[t] - 1) % Width16]
    BY DEF FinishSubCmd
  <2>. QED BY <2>1, <2>2, <2>4, <2>5
<1>10. /\ runCnt'[t] = runCnt[t] - 1 /\ runCnt[t] # 0
       /\ \A u \in Tag : u # t => runCnt'[u] = runCnt[u]
  BY <1>9, TagTypes
<1>11. TagAccounting' /\ DoneTagsMatchTLPs'
  <2>1. BusyTags' = BusyTags
    BY DEF BusyTags
  <2>. QED BY <2>1 DEF TagInv, TagAccounting, DoneTagsMatchTLPs
<1>12. LiveSubCmdsOwned'
  <2>1. \A r \in Slot : Live(r)' => Live(r) /\ pcmdq'[r] = pcmdq[r]
    BY <1>1, <1>2
  <2>. QED BY <2>1 DEF TagInv, LiveSubCmdsOwned
<1>13. InsertOwned'
  <2>1. \A r \in Slot : Live(r)' => Live(r) /\ pcmdq'[r] = pcmdq[r]
    BY <1>1, <1>2
  <2>2. JobActive' <=> JobActive
    BY DEF JobActive
  <2>. QED BY <2>1, <2>2 DEF TagInv, InsertOwned
<1>14. RunningCountExact'
  <2>1. ASSUME NEW u \in BusyTags'
        PROVE  runCnt'[u] = ToInsert(u)' + Cardinality(LiveOf(u)')
    <3>1. u \in BusyTags /\ u \in Tag
      BY DEF BusyTags
    <3>2. runCnt[u] = ToInsert(u) + Cardinality(LiveOf(u))
      BY <1>8, <3>1
    <3>3. ToInsert(u)' = ToInsert(u) /\ ToInsert(u) \in Nat
      BY <1>7, <3>1
    <3>4. CASE u = t
      <4>1. Cardinality(LiveOf(u)') = Cardinality(LiveOf(u)) - 1
        <5>1. LiveOf(u)' = LiveOf(u) \ {q}
          BY <1>4, <3>4
        <5>2. Cardinality(LiveOf(u) \ {q}) = Cardinality(LiveOf(u)) - 1
          BY <1>6, <3>4
        <5>. QED BY <5>1, <5>2
      <4>2. runCnt'[u] = runCnt[u] - 1
        BY <1>10, <3>4
      <4>3. Cardinality(LiveOf(u)) \in Nat
        BY <1>5
      <4>. QED BY <3>2, <3>3, <4>1, <4>2, <4>3
    <3>5. CASE u # t
      <4>1. LiveOf(u)' = LiveOf(u)
        BY <1>4, <3>5
      <4>2. runCnt'[u] = runCnt[u]
        BY <1>10, <3>1, <3>5
      <4>. QED BY <3>2, <3>3, <4>1, <4>2
    <3>. QED BY <3>4, <3>5
  <2>. QED BY <2>1 DEF RunningCountExact, LiveOf
<1>15. DoneApart'
  <2>1. /\ tagQ \in Seq(Tag) /\ dmaActive \in Seq(Tag) /\ t \notin DoneSet
    BY <1>10, TagTypes DEF TagInv, DoneApart
  <2>2. /\ IsInjective(tagQ) /\ IsInjective(dmaActive) /\ IsInjective(cmdDoneTagQ)
        /\ Range(tagQ) \cap Range(dmaActive) = {}
        /\ Range(tagQ) \cap Range(cmdDoneTagQ) = {}
        /\ Range(dmaActive) \cap Range(cmdDoneTagQ) = {}
        /\ \A u \in Tag : tagTable[u] /\ runCnt[u] = 0 <=> u \in DoneSet
    BY DEF TagInv, DoneApart
  <2>3. t \notin Range(tagQ) /\ t \notin Range(dmaActive) /\ t \notin Range(cmdDoneTagQ)
    BY <2>1 DEF DoneSet
  <2>4. /\ IsInjective(Append(tagQ, t)) /\ Range(Append(tagQ, t)) = Range(tagQ) \cup {t}
        /\ IsInjective(Append(dmaActive, t))
        /\ Range(Append(dmaActive, t)) = Range(dmaActive) \cup {t}
    BY <2>1, <2>2, <2>3, PushElements
  <2>5. CASE runCnt'[t] = 0 /\ tagQ' = Append(tagQ, t) /\ dmaActive' = dmaActive
    <3>1. DoneSet' = DoneSet \cup {t}
      BY <2>4, <2>5 DEF DoneSet
    <3>2. \A u \in Tag : tagTable'[u] /\ runCnt'[u] = 0 <=> u \in DoneSet'
      BY <1>3, <1>10, <2>2, <2>5, <3>1
    <3>. QED BY <2>2, <2>3, <2>4, <2>5, <3>2 DEF DoneApart
  <2>6. CASE runCnt'[t] = 0 /\ dmaActive' = Append(dmaActive, t) /\ tagQ' = tagQ
    <3>1. DoneSet' = DoneSet \cup {t}
      BY <2>4, <2>6 DEF DoneSet
    <3>2. \A u \in Tag : tagTable'[u] /\ runCnt'[u] = 0 <=> u \in DoneSet'
      BY <1>3, <1>10, <2>2, <2>6, <3>1
    <3>. QED BY <2>2, <2>3, <2>4, <2>6, <3>2 DEF DoneApart
  <2>7. CASE runCnt'[t] # 0 /\ UNCHANGED <<tagQ, dmaActive>>
    <3>1. DoneSet' = DoneSet
      BY <2>7 DEF DoneSet
    <3>2. \A u \in Tag : tagTable'[u] /\ runCnt'[u] = 0 <=> u \in DoneSet'
      BY <1>3, <1>10, <2>1, <2>2, <2>7, <3>1
    <3>. QED BY <2>2, <2>7, <3>2 DEF DoneApart
  <2>. QED BY <2>5, <2>6, <2>7
<1>. QED BY <1>11, <1>12, <1>13, <1>14, <1>15 DEF TagInv

\* The completion TLPs and the tags they were made for stand in a row.
LEMMA DoneTagsInRow ==
  ASSUME TypeOK, DoneTagsMatchTLPs
  PROVE  /\ DOMAIN compQ = 1 .. Len(compQ) /\ Len(compQ) \in Nat
         /\ DOMAIN cmdDoneTagQ = 1 .. Len(compQ)
         /\ \A i \in DOMAIN compQ : cmdDoneTagQ[i] \in Range(cmdDoneTagQ)
         /\ compQ # <<>> <=> cmdDoneTagQ # <<>>
<1>1. compQ \in Seq([slot : CQIdx, cid : CmdOrNone, phase : BOOLEAN])
      /\ cmdDoneTagQ \in Seq(Tag) /\ Len(cmdDoneTagQ) = Len(compQ)
  BY DEF TypeOK, TLPTypeOK, DoneTypeOK, DoneTagsMatchTLPs
<1>2. /\ DOMAIN compQ = 1 .. Len(compQ) /\ Len(compQ) \in Nat
      /\ DOMAIN cmdDoneTagQ = 1 .. Len(compQ)
  BY <1>1, LenProperties
<1>. QED BY <1>1, <1>2, EmptySeq DEF Range

\* A done thread posts the completion of the tag at the front of its queue.
LEMMA TagsPost ==
  ASSUME TypeOK, TagInv, NEW t \in Tag, PostCompletion(t),
         UNCHANGED <<tableVars, pcmdVars>>,
         \/ tagQ # <<>> /\ t = Head(tagQ) /\ tagQ' = Tail(tagQ) /\ dmaActive' = dmaActive
         \/ dmaActive # <<>> /\ t = Head(dmaActive) /\ dmaActive' = Tail(dmaActive)
            /\ tagQ' = tagQ
  PROVE  TagInv'
<1>1. UNCHANGED <<hostCmd, hCmdQSize, tagTable, param, runCnt, insertQ, job, pcmdq>>
  BY DEF tableVars, pcmdVars
<1>2. BusyTags' = BusyTags
  BY <1>1 DEF BusyTags
<1>3. TagAccounting' /\ LiveSubCmdsOwned' /\ InsertOwned' /\ RunningCountExact'
  BY <1>1, <1>2 DEF TagInv, TagAccounting, LiveSubCmdsOwned, InsertOwned,
     RunningCountExact, Live, JobActive, ToInsert
<1>4. /\ cmdDoneTagQ' = Append(cmdDoneTagQ, t)
      /\ tagQ \in Seq(Tag) /\ dmaActive \in Seq(Tag) /\ cmdDoneTagQ \in Seq(Tag)
  BY TagTypes DEF PostCompletion
<1>5. DoneApart'
  <2>1. /\ IsInjective(tagQ) /\ IsInjective(dmaActive) /\ IsInjective(cmdDoneTagQ)
        /\ Range(tagQ) \cap Range(dmaActive) = {}
        /\ Range(tagQ) \cap Range(cmdDoneTagQ) = {}
        /\ Range(dmaActive) \cap Range(cmdDoneTagQ) = {}
        /\ \A u \in Tag : tagTable[u] /\ runCnt[u] = 0 <=> u \in DoneSet
    BY DEF TagInv, DoneApart
  <2>2. CASE /\ tagQ # <<>> /\ t = Head(tagQ) /\ tagQ' = Tail(tagQ)
             /\ dmaActive' = dmaActive
    <3>1. /\ IsInjective(tagQ') /\ Range(tagQ') = Range(tagQ) \ {t} /\ t \in Range(tagQ)
      BY <1>4, <2>1, <2>2, PopElements
    <3>2. t \notin Range(cmdDoneTagQ)
      BY <2>1, <3>1
    <3>3. /\ IsInjective(cmdDoneTagQ')
          /\ Range(cmdDoneTagQ') = Range(cmdDoneTagQ) \cup {t}
      BY <1>4, <2>1, <3>2, PushElements
    <3>4. DoneSet' = DoneSet
      BY <2>2, <3>1, <3>3 DEF DoneSet
    <3>. QED BY <1>1, <2>1, <2>2, <3>1, <3>3, <3>4 DEF DoneApart
  <2>3. CASE /\ dmaActive # <<>> /\ t = Head(dmaActive)
             /\ dmaActive' = Tail(dmaActive) /\ tagQ' = tagQ
    <3>1. /\ IsInjective(dmaActive') /\ Range(dmaActive') = Range(dmaActive) \ {t}
          /\ t \in Range(dmaActive)
      BY <1>4, <2>1, <2>3, PopElements
    <3>2. t \notin Range(cmdDoneTagQ)
      BY <2>1, <3>1
    <3>3. /\ IsInjective(cmdDoneTagQ')
          /\ Range(cmdDoneTagQ') = Range(cmdDoneTagQ) \cup {t}
      BY <1>4, <2>1, <3>2, PushElements
    <3>4. DoneSet' = DoneSet
      BY <2>3, <3>1, <3>3 DEF DoneSet
    <3>. QED BY <1>1, <2>1, <2>3, <3>1, <3>3, <3>4 DEF DoneApart
  <2>. QED BY <2>2, <2>3
<1>6. DoneTagsMatchTLPs'
  <2>1. PICK tlp : compQ' = Append(compQ, tlp) /\ tlp.cid = param[t]
    BY DEF PostCompletion
  <2>2. /\ DOMAIN compQ = 1 .. Len(compQ) /\ Len(compQ) \in Nat
        /\ DOMAIN cmdDoneTagQ = 1 .. Len(compQ)
        /\ Len(cmdDoneTagQ) = Len(compQ)
        /\ \A i \in DOMAIN compQ : compQ[i].cid = param[cmdDoneTagQ[i]]
    BY DoneTagsInRow DEF TagInv, DoneTagsMatchTLPs
  <2>3. /\ DOMAIN compQ' = 1 .. Len(compQ) + 1 /\ Len(compQ') = Len(compQ) + 1
        /\ \A i \in 1 .. Len(compQ) : compQ'[i] = compQ[i]
        /\ compQ'[Len(compQ) + 1] = tlp
    <3>. DEFINE TLP == [slot : CQIdx, cid : CmdOrNone, phase : BOOLEAN]
    <3>1. compQ \in Seq(TLP)
      BY DEF TypeOK, TLPTypeOK
    <3>2. tlp \in TLP
      <4>1. /\ cqTail \in CQIdx /\ phaseTag' \in BOOLEAN /\ param[t] \in CmdOrNone
        BY PostCompletionType, TagTypes DEF TypeOK, DoneTypeOK
      <4>2. Append(compQ, tlp) = Append(compQ, [slot |-> cqTail, cid |-> param[t],
                                               phase |-> phaseTag'])
        BY <2>1 DEF PostCompletion
      <4>3. Append(compQ, tlp)[Len(compQ) + 1] = tlp
        BY <3>1, AppendElements
      <4>4. Append(compQ, [slot |-> cqTail, cid |-> param[t], phase |-> phaseTag'])
              [Len(compQ) + 1] = [slot |-> cqTail, cid |-> param[t], phase |-> phaseTag']
        BY <3>1, AppendElements
      <4>5. tlp = [slot |-> cqTail, cid |-> param[t], phase |-> phaseTag']
        BY <4>2, <4>3, <4>4
      <4>. QED BY <4>1, <4>5
    <3>. HIDE DEF TLP
    <3>. QED BY <2>1, <3>1, <3>2, AppendElements, AppendProperties
  <2>4. /\ Len(cmdDoneTagQ') = Len(compQ) + 1
        /\ \A i \in 1 .. Len(compQ) : cmdDoneTagQ'[i] = cmdDoneTagQ[i]
        /\ cmdDoneTagQ'[Len(compQ) + 1] = t
    BY <1>4, <2>2, AppendElements, AppendProperties
  <2>5. ASSUME NEW i \in DOMAIN compQ'
        PROVE  compQ'[i].cid = param[cmdDoneTagQ'[i]]
    BY <2>1, <2>2, <2>3, <2>4
  <2>. QED BY <1>1, <2>3, <2>4, <2>5 DEF DoneTagsMatchTLPs
<1>. QED BY <1>3, <1>5, <1>6 DEF TagInv

\* The arbiter sends a completion and gives the tag back: nothing has the tag
\* any more.
LEMMA TagsRelease ==
  ASSUME TypeOK, TagInv, ArbiterSendsComp
  PROVE  TagInv'
<1>1. PICK t \in Tag : t = Head(cmdDoneTagQ)
  <2>1. Head(cmdDoneTagQ) \in Tag
    BY TagTypes, HeadTailProperties DEF ArbiterSendsComp
  <2>. QED BY <2>1
<1>2. /\ tagTable' = [tagTable EXCEPT ![t] = FALSE]
      /\ hostCmd' = [hostCmd EXCEPT ![t] = NoCmd]
      /\ hCmdQSize' = hCmdQSize - 1
      /\ param' = [param EXCEPT ![t] = NoCmd]
      /\ cmdDoneTagQ # <<>> /\ cmdDoneTagQ' = Tail(cmdDoneTagQ)
      /\ compQ # <<>> /\ compQ' = Tail(compQ)
      /\ UNCHANGED <<runCnt, insertQ, job, pcmdq, tagQ, dmaActive>>
  BY <1>1, ArbiterFindsTLP DEF ArbiterSendsComp, ReleaseTag, pcmdVars
<1>3. \A u \in Tag : /\ u # t => /\ tagTable'[u] = tagTable[u]
                                 /\ hostCmd'[u] = hostCmd[u]
                                 /\ param'[u] = param[u]
                     /\ u = t => /\ tagTable'[u] = FALSE /\ hostCmd'[u] = NoCmd
                                 /\ param'[u] = NoCmd
  BY <1>2, TagTypes
<1>4. /\ IsInjective(tagQ) /\ IsInjective(dmaActive) /\ IsInjective(cmdDoneTagQ)
      /\ Range(tagQ) \cap Range(dmaActive) = {}
      /\ Range(tagQ) \cap Range(cmdDoneTagQ) = {}
      /\ Range(dmaActive) \cap Range(cmdDoneTagQ) = {}
      /\ \A u \in Tag : tagTable[u] /\ runCnt[u] = 0 <=> u \in DoneSet
  BY DEF TagInv, DoneApart
<1>5. /\ t \in Range(cmdDoneTagQ) /\ IsInjective(cmdDoneTagQ')
      /\ Range(cmdDoneTagQ') = Range(cmdDoneTagQ) \ {t}
      /\ DOMAIN cmdDoneTagQ' = 1 .. Len(cmdDoneTagQ) - 1
      /\ Len(cmdDoneTagQ') = Len(cmdDoneTagQ) - 1
      /\ \A i \in DOMAIN cmdDoneTagQ' : cmdDoneTagQ'[i] = cmdDoneTagQ[i + 1]
  BY <1>1, <1>2, <1>4, TagTypes, PopElements
<1>6. tagTable[t] /\ runCnt[t] = 0 /\ t \in BusyTags
  BY <1>4, <1>5 DEF DoneSet, BusyTags
<1>7. ToInsert(t) = 0 /\ LiveOf(t) = {}
  <2>1. runCnt[t] = ToInsert(t) + Cardinality(LiveOf(t))
    BY <1>6 DEF TagInv, RunningCountExact, LiveOf
  <2>2. /\ IsFiniteSet(LiveOf(t)) /\ Cardinality(LiveOf(t)) \in Nat
        /\ ToInsert(t) \in Nat
    BY FiniteTables, ToInsertOf DEF LiveOf
  <2>3. Cardinality(LiveOf(t)) = 0 /\ ToInsert(t) = 0
    BY <1>6, <2>1, <2>2
  <2>. QED BY <2>2, <2>3, FS_EmptySet
<1>8. /\ \A i \in DOMAIN insertQ : insertQ[i].tag # t
      /\ JobActive => job.tag # t
      /\ \A q \in Slot : Live(q) => pcmdq[q].tag # t
  <2>1. hostCmd[t] \in CmdOrNone /\ hostCmd[t] # NoCmd
    BY <1>6, TagTypes DEF TagInv, TagAccounting
  <2>2. \A i \in DOMAIN insertQ : insertQ[i].tag # t
    <3>1. CmdCnt(hostCmd[t]) # 0
      BY <2>1, CommandCounts
    <3>. QED BY <1>7, <3>1, ToInsertOf
  <2>3. ASSUME JobActive, job.tag = t
        PROVE  FALSE
    <3>1. ToInsert(t) = CmdCnt(job.cmd) - job.idx
      BY <2>2, <2>3, ToInsertOf
    <3>2. CmdCnt(job.cmd) \in Nat /\ job.idx \in Nat
      BY TagTypes, CommandCounts
    <3>. QED BY <1>7, <2>3, <3>1, <3>2 DEF JobActive
  <2>4. \A q \in Slot : Live(q) => pcmdq[q].tag # t
    BY <1>7 DEF LiveOf
  <2>. QED BY <2>2, <2>3, <2>4
<1>9. BusyTags' = BusyTags \ {t} /\ BusyTags \subseteq Tag
  BY <1>3 DEF BusyTags
<1>10. \A q \in Slot : Live(q)' <=> Live(q)
  BY <1>2 DEF Live
<1>11. TagAccounting'
  <2>1. \A u \in Tag : tagTable'[u] <=> hostCmd'[u] # NoCmd
    BY <1>3 DEF TagInv, TagAccounting
  <2>2. param' = hostCmd'
    BY <1>2 DEF TagInv, TagAccounting
  <2>3. hCmdQSize' = Cardinality(BusyTags')
    <3>1. IsFiniteSet(BusyTags)
      BY <1>9, FiniteTables
    <3>2. Cardinality(BusyTags \ {t}) = Cardinality(BusyTags) - 1
      BY <1>6, <3>1, FS_RemoveElement
    <3>. QED BY <1>2, <1>9, <3>2 DEF TagInv, TagAccounting
  <2>4. \A u, v \in BusyTags' : hostCmd'[u] = hostCmd'[v] => u = v
    BY <1>3, <1>9 DEF TagInv, TagAccounting
  <2>. QED BY <2>1, <2>2, <2>3, <2>4 DEF TagAccounting
<1>12. LiveSubCmdsOwned'
  <2>1. \A q \in Slot : Live(q) => pcmdq[q].tag \in Tag /\ pcmdq[q].tag # t
    BY <1>8, TagTypes
  <2>. QED BY <1>2, <1>3, <1>10, <2>1 DEF TagInv, LiveSubCmdsOwned
<1>13. InsertOwned'
  <2>1. JobActive' <=> JobActive
    BY <1>2 DEF JobActive
  <2>2. \A i \in DOMAIN insertQ : insertQ[i].tag \in Tag /\ insertQ[i].tag # t
    BY <1>8, TagTypes
  <2>3. JobActive => job.tag \in Tag /\ job.tag # t
    BY <1>8, TagTypes
  <2>. QED BY <1>2, <1>3, <1>10, <2>1, <2>2, <2>3 DEF TagInv, InsertOwned
<1>14. RunningCountExact'
  <2>1. ASSUME NEW u \in BusyTags'
        PROVE  runCnt'[u] = ToInsert(u)' + Cardinality(LiveOf(u)')
    <3>1. u \in BusyTags /\ u # t /\ u \in Tag
      BY <1>9
    <3>2. runCnt[u] = ToInsert(u) + Cardinality(LiveOf(u))
      BY <3>1 DEF TagInv, RunningCountExact, LiveOf
    <3>3. ToInsert(u)' = ToInsert(u)
      BY <1>2, <1>3, <3>1 DEF ToInsert, JobActive
    <3>4. LiveOf(u)' = LiveOf(u)
      BY <1>2 DEF LiveOf, Live
    <3>. QED BY <1>2, <3>2, <3>3, <3>4
  <2>. QED BY <2>1 DEF RunningCountExact, LiveOf
<1>15. DoneApart'
  <2>1. DoneSet' = DoneSet \ {t}
    BY <1>2, <1>4, <1>5 DEF DoneSet
  <2>2. \A u \in Tag : tagTable'[u] /\ runCnt'[u] = 0 <=> u \in DoneSet'
    BY <1>2, <1>3, <1>4, <2>1
  <2>. QED BY <1>2, <1>4, <1>5, <2>2 DEF DoneApart
<1>16. DoneTagsMatchTLPs'
  <2>1. /\ DOMAIN compQ = 1 .. Len(compQ) /\ Len(compQ) \in Nat
        /\ DOMAIN cmdDoneTagQ = 1 .. Len(compQ)
        /\ Len(cmdDoneTagQ) = Len(compQ)
        /\ \A i \in DOMAIN compQ : compQ[i].cid = param[cmdDoneTagQ[i]]
    BY DoneTagsInRow DEF TagInv, DoneTagsMatchTLPs
  <2>2. /\ DOMAIN compQ' = 1 .. Len(compQ) - 1 /\ Len(compQ') = Len(compQ) - 1
        /\ \A i \in DOMAIN compQ' : compQ'[i] = compQ[i + 1]
    <3>. DEFINE TLP == [slot : CQIdx, cid : CmdOrNone, phase : BOOLEAN]
    <3>1. compQ \in Seq(TLP)
      BY DEF TypeOK, TLPTypeOK
    <3>. HIDE DEF TLP
    <3>. QED BY <1>2, <3>1, PopElements
  <2>3. ASSUME NEW i \in DOMAIN compQ'
        PROVE  compQ'[i].cid = param'[cmdDoneTagQ'[i]]
    <3>1. i + 1 \in DOMAIN compQ /\ i \in DOMAIN cmdDoneTagQ'
      BY <1>5, <2>1, <2>2
    <3>2. cmdDoneTagQ'[i] = cmdDoneTagQ[i + 1] /\ compQ'[i] = compQ[i + 1]
      BY <1>5, <2>2, <3>1
    <3>3. cmdDoneTagQ'[i] \in Tag /\ cmdDoneTagQ'[i] # t
      <4>1. cmdDoneTagQ'[i] \in Range(cmdDoneTagQ')
        BY <3>1 DEF Range
      <4>2. Range(cmdDoneTagQ) \subseteq Tag
        BY TagTypes DEF DoneSet
      <4>. QED BY <1>5, <4>1, <4>2
    <3>4. param'[cmdDoneTagQ'[i]] = param[cmdDoneTagQ[i + 1]]
      BY <1>3, <3>2, <3>3
    <3>. QED BY <2>1, <3>1, <3>2, <3>4
  <2>. QED BY <1>5, <2>1, <2>2, <2>3 DEF DoneTagsMatchTLPs
<1>. QED BY <1>11, <1>12, <1>13, <1>14, <1>15, <1>16 DEF TagInv

\* All other steps.
LEMMA TagsElse ==
  ASSUME TypeOK, TagInv, RequestsOwned, [Next]_vars,
         ~processCompletionTLPCmd, ~PcmdQInsertTakes, ~PcmdQInsertStrips,
         ~(\E q \in Slot : PendingWriteCmd(q) \/ MemReadCompletion(q)),
         ~WriteCmdDone, ~ReadDone, ~ArbiterSendsComp
  PROVE  TagInv'
<1>1. UNCHANGED tableVars
  BY WhoChanges
<1>2. UNCHANGED <<tagQ, dmaActive, cmdDoneTagQ>>
  BY WhoChanges DEF writeCQ1HDBLReg, doneVars
<1>3. compQ' = compQ
  <2>1. \/ MemReadReqCmdFetches \/ \E q \in Slot : RequestWriteData(q)
        \/ ArbiterSkips \/ ArbiterSendsRdCmd \/ ArbiterSendsRdData
        \/ ArbiterSendsWrData \/ UNCHANGED tlpVars
    BY WhoChanges
  <2>. QED BY <2>1 DEF MemReadReqCmdFetches, RequestWriteData, ArbiterSkips,
       ArbiterSendsRdCmd, ArbiterSendsRdData, ArbiterSendsWrData, tlpVars
<1>4. \/ \E q \in Slot : \/ RequestWriteData(q) \/ WriteDataArrives(q)
                         \/ MemReadCompletionWaits(q)
      \/ ArbiterSendsRdData \/ Delta \/ TimePasses \/ UNCHANGED pcmdVars
  BY WhoChanges DEF SubCmdNext
<1>5. UNCHANGED <<insertQ, job>>
  BY <1>4 DEF RequestWriteData, WriteDataArrives, MemReadCompletionWaits,
     ArbiterSendsRdData, Delta, TimePasses, Tick, pcmdVars
<1>6. ASSUME NEW r \in Slot
      PROVE  /\ pcmdq'[r].st # "free" <=> pcmdq[r].st # "free"
             /\ pcmdq'[r].cmd = pcmdq[r].cmd
             /\ pcmdq'[r].idx = pcmdq[r].idx
             /\ pcmdq'[r].tag = pcmdq[r].tag
  <2>1. ASSUME NEW q \in Slot, NEW s, SetState(q, s), s # "free",
               pcmdq[q].st # "free"
        PROVE  /\ pcmdq'[r].st # "free" <=> pcmdq[r].st # "free"
               /\ pcmdq'[r].cmd = pcmdq[r].cmd
               /\ pcmdq'[r].idx = pcmdq[r].idx
               /\ pcmdq'[r].tag = pcmdq[r].tag
    BY <2>1, SetStateEffect
  <2>2. ASSUME NEW q \in Slot, \/ RequestWriteData(q) \/ WriteDataArrives(q)
                               \/ MemReadCompletionWaits(q)
        PROVE  \E s \in SubState : SetState(q, s) /\ s # "free" /\ pcmdq[q].st # "free"
    BY <2>2 DEF RequestWriteData, WriteDataArrives, MemReadCompletionWaits, SubState
  <2>3. CASE ArbiterSendsRdData
    <3>1. rdDataQ # <<>> /\ SetState(Head(rdDataQ).slot, "fetching")
      BY <2>3, ArbiterFindsTLP DEF ArbiterSendsRdData
    <3>. DEFINE TLP == [slot : Slot, cmd : CmdOrNone, off : Nat]
    <3>a. rdDataQ \in Seq(TLP) /\ \A x \in TLP : x.slot \in Slot
      BY DEF TypeOK, TLPTypeOK
    <3>. HIDE DEF TLP
    <3>2. /\ Head(rdDataQ).slot \in Slot
          /\ Head(rdDataQ) = rdDataQ[1] /\ 1 \in DOMAIN rdDataQ
      BY <3>1, <3>a, PopElements
    <3>3. Head(rdDataQ).slot \in Slot /\ pcmdq[Head(rdDataQ).slot].st = "requested"
      BY <3>2 DEF RequestsOwned
    <3>. QED BY <2>1, <3>1, <3>3
  <2>4. CASE Delta \/ TimePasses
    BY <2>4, KernelKeepsEntries
  <2>5. CASE UNCHANGED pcmdVars
    BY <2>5 DEF pcmdVars
  <2>. QED BY <1>4, <2>1, <2>2, <2>3, <2>4, <2>5
<1>. QED BY <1>1, <1>2, <1>3, <1>5, <1>6, TagsSame

\* The inductive step.
LEMMA TagsStep ==
  ASSUME IInv, RingInv, RequestsOwned, TagInv, [Next]_vars
  PROVE  TagInv'
<1>1. TypeOK
  BY DEF IInv
<1>2. CASE processCompletionTLPCmd
  BY <1>2, TagsAccept
<1>3. CASE PcmdQInsertTakes
  BY <1>1, <1>3, TagsTake
<1>4. CASE PcmdQInsertStrips
  BY <1>1, <1>4, TagsStrip
<1>5. ASSUME NEW q \in Slot, PendingWriteCmd(q) \/ MemReadCompletion(q)
      PROVE  TagInv'
  <2>1. PICK t \in Tag : t = pcmdq[q].tag
    BY <1>1, TagTypes
  <2>2. Live(q) /\ FinishSubCmd(q)
    BY <1>5 DEF PendingWriteCmd, MemReadCompletion, Live
  <2>3. UNCHANGED <<hostCmd, hCmdQSize, tagTable, param, insertQ, job,
                    cmdDoneTagQ, compQ>>
    BY <1>5 DEF PendingWriteCmd, MemReadCompletion, tlpVars
  <2>4. \/ runCnt'[t] = 0 /\ tagQ' = Append(tagQ, t) /\ dmaActive' = dmaActive
        \/ runCnt'[t] = 0 /\ dmaActive' = Append(dmaActive, t) /\ tagQ' = tagQ
        \/ runCnt'[t] # 0 /\ UNCHANGED <<tagQ, dmaActive>>
    <3>1. CASE PendingWriteCmd(q)
      BY <2>1, <3>1 DEF PendingWriteCmd, LastSubCmd
    <3>2. CASE MemReadCompletion(q)
      BY <2>1, <3>2 DEF MemReadCompletion, LastSubCmd
    <3>. QED BY <1>5, <3>1, <3>2
  <2>. QED BY <1>1, <2>1, <2>2, <2>3, <2>4, TagsFinish
<1>6. CASE WriteCmdDone
  <2>1. /\ tagQ # <<>> /\ tagQ' = Tail(tagQ) /\ dmaActive' = dmaActive
        /\ PostCompletion(Head(tagQ)) /\ UNCHANGED <<tableVars, pcmdVars>>
    BY <1>6 DEF WriteCmdDone
  <2>2. Head(tagQ) \in Tag
    BY <1>1, <2>1, TagTypes, HeadTailProperties
  <2>3. PICK t \in Tag : t = Head(tagQ)
    BY <2>2
  <2>4. PostCompletion(t)
    BY <2>1, <2>3 DEF PostCompletion
  <2>. QED BY <1>1, <2>1, <2>3, <2>4, TagsPost
<1>7. CASE ReadDone
  <2>1. /\ dmaActive # <<>> /\ dmaActive' = Tail(dmaActive) /\ tagQ' = tagQ
        /\ PostCompletion(Head(dmaActive)) /\ UNCHANGED <<tableVars, pcmdVars>>
    BY <1>7 DEF ReadDone
  <2>2. Head(dmaActive) \in Tag
    BY <1>1, <2>1, TagTypes, HeadTailProperties
  <2>3. PICK t \in Tag : t = Head(dmaActive)
    BY <2>2
  <2>4. PostCompletion(t)
    BY <2>1, <2>3 DEF PostCompletion
  <2>. QED BY <1>1, <2>1, <2>3, <2>4, TagsPost
<1>8. CASE ArbiterSendsComp
  BY <1>1, <1>8, TagsRelease
<1>9. CASE /\ ~processCompletionTLPCmd /\ ~PcmdQInsertTakes /\ ~PcmdQInsertStrips
           /\ ~(\E q \in Slot : PendingWriteCmd(q) \/ MemReadCompletion(q))
           /\ ~WriteCmdDone /\ ~ReadDone /\ ~ArbiterSendsComp
  BY <1>1, <1>9, TagsElse
<1>. QED BY <1>2, <1>3, <1>4, <1>5, <1>6, <1>7, <1>8, <1>9

\* Nothing is under way in the beginning.
LEMMA TagsInit == Init => TagInv
<1>. SUFFICES ASSUME Init PROVE TagInv
  OBVIOUS
<1>1. /\ hostCmd = [t \in Tag |-> NoCmd] /\ param = [t \in Tag |-> NoCmd]
      /\ hCmdQSize = 0 /\ tagTable = [t \in Tag |-> FALSE]
      /\ insertQ = <<>> /\ job = NoJob
      /\ \A q \in Slot : ~Live(q)
      /\ tagQ = <<>> /\ dmaActive = <<>> /\ cmdDoneTagQ = <<>> /\ compQ = <<>>
  BY DEF Init, TableInit, PcmdInit, DoneInit, TLPInit, Live, FreeEntry
<1>2. ~JobActive
  BY <1>1 DEF JobActive, NoJob, CmdCnt
<1>3. BusyTags = {}
  BY <1>1 DEF BusyTags
<1>4. /\ DOMAIN insertQ = {} /\ DOMAIN compQ = {} /\ DOMAIN tagQ = {}
      /\ Range(tagQ) = {} /\ Range(dmaActive) = {} /\ Range(cmdDoneTagQ) = {}
      /\ IsInjective(tagQ) /\ IsInjective(dmaActive) /\ IsInjective(cmdDoneTagQ)
  <2>1. DOMAIN <<>> = {}
    OBVIOUS
  <2>. QED BY <1>1, <2>1 DEF Range, IsInjective
<1>5. TagAccounting
  BY <1>1, <1>3, FS_EmptySet DEF TagAccounting
<1>6. LiveSubCmdsOwned /\ InsertOwned /\ RunningCountExact
  BY <1>1, <1>2, <1>3, <1>4 DEF LiveSubCmdsOwned, InsertOwned, RunningCountExact
<1>7. DoneApart /\ DoneTagsMatchTLPs
  BY <1>1, <1>4 DEF DoneApart, DoneSet, DoneTagsMatchTLPs
<1>. QED BY <1>5, <1>6, <1>7 DEF TagInv

(***************************************************************************)
(* The theorems.                                                           *)
(***************************************************************************)

\* The invariant of the tags.  Its parts need each other: the counts say that
\* nothing has the tag of a command that is done, the owners say which tag a
\* sub-command counts for, and only a tag nothing has may be given back.
THEOREM TagInvariance == Spec => []TagInv
<1>1. Init => TagInv
  BY TagsInit
<1>2. IInv /\ RingInv /\ RequestsOwned /\ TagInv /\ [Next]_vars => TagInv'
  BY TagsStep
<1>. QED BY <1>1, <1>2, Invariance, RingInvariance, RequestsInvariance, PTL DEF Spec

\* The host command queue, iTagManager, the parameter table and mHCmdQSize
\* agree, and no command is held under two tags.
THEOREM TablesAgree == Spec => []TagAccounting
<1>1. TagInv => TagAccounting
  BY DEF TagInv
<1>. QED BY <1>1, TagInvariance, PTL

\* RunningCntTable counts what is left of each command, between any two steps
\* of the threads that insert and finish its sub-commands.
THEOREM CountsExact == Spec => []RunningCountExact
<1>1. TagInv => RunningCountExact
  BY DEF TagInv
<1>. QED BY <1>1, TagInvariance, PTL

\* A tag in the PCMDQ belongs to the command its sub-command came from, and
\* each code word of a command is in the PCMDQ once at most.
THEOREM SubCmdsOwned == Spec => []LiveSubCmdsOwned
<1>1. TagInv => LiveSubCmdsOwned
  BY DEF TagInv
<1>. QED BY <1>1, TagInvariance, PTL

\* The arbiter releases the tag of the very completion it sends.
THEOREM TagsMatchCompletions == Spec => []DoneTagsMatchTLPs
<1>1. TagInv => DoneTagsMatchTLPs
  BY DEF TagInv
<1>. QED BY <1>1, TagInvariance, PTL

\* The three queues of finished tags taken together.
LEMMA DoneTagsElements ==
  ASSUME TypeOK, TagInv
  PROVE  /\ DoneTags \in Seq(Tag) /\ Range(DoneTags) = DoneSet /\ IsInjective(DoneTags)
         /\ Len(DoneTags) = Len(tagQ) + Len(dmaActive) + Len(cmdDoneTagQ)
<1>1. tagQ \in Seq(Tag) /\ dmaActive \in Seq(Tag) /\ cmdDoneTagQ \in Seq(Tag)
  BY TagTypes
<1>2. /\ IsInjective(tagQ) /\ IsInjective(dmaActive) /\ IsInjective(cmdDoneTagQ)
      /\ Range(tagQ) \cap Range(dmaActive) = {}
      /\ (Range(tagQ) \cup Range(dmaActive)) \cap Range(cmdDoneTagQ) = {}
  BY DEF TagInv, DoneApart
<1>. DEFINE a == tagQ \o dmaActive
<1>3. /\ a \in Seq(Tag) /\ Range(a) = Range(tagQ) \cup Range(dmaActive)
      /\ Len(a) = Len(tagQ) + Len(dmaActive) /\ IsInjective(a)
  BY <1>1, <1>2, QueuesInARow
<1>4. DoneTags = a \o cmdDoneTagQ
  BY DEF DoneTags
<1>. HIDE DEF a
<1>5. /\ a \o cmdDoneTagQ \in Seq(Tag) /\ IsInjective(a \o cmdDoneTagQ)
      /\ Range(a \o cmdDoneTagQ) = Range(a) \cup Range(cmdDoneTagQ)
      /\ Len(a \o cmdDoneTagQ) = Len(a) + Len(cmdDoneTagQ)
  <2>1. PICK u \in Seq(Tag) : u = a
    BY <1>3
  <2>2. PICK w \in Seq(Tag) : w = cmdDoneTagQ
    BY <1>1
  <2>3. IsInjective(u) /\ IsInjective(w) /\ Range(u) \cap Range(w) = {}
    BY <1>2, <1>3, <2>1, <2>2
  <2>4. /\ u \o w \in Seq(Tag) /\ Range(u \o w) = Range(u) \cup Range(w)
        /\ Len(u \o w) = Len(u) + Len(w)
    BY QueuesInARow
  <2>5. IsInjective(u \o w)
    BY <2>3, QueuesInARow
  <2>. QED BY <2>1, <2>2, <2>4, <2>5
<1>6. Range(DoneTags) = DoneSet
  BY <1>3, <1>4, <1>5 DEF DoneSet
<1>. QED BY <1>3, <1>4, <1>5, <1>6

\* A command whose last sub-command finished is queued for completion, once,
\* until its completion is sent, and no other is.
THEOREM QueuedOnce == Spec => []CompletedOnce
<1>1. TypeOK /\ TagInv => CompletedOnce
  <2>. SUFFICES ASSUME TypeOK, TagInv PROVE CompletedOnce
    OBVIOUS
  <2>1. \A t \in Tag : t \in BusyTags /\ runCnt[t] = 0 <=> t \in Range(DoneTags)
    BY DoneTagsElements DEF TagInv, DoneApart, BusyTags
  <2>2. \A t \in Tag : t \in Range(DoneTags) <=>
                         \E i \in DOMAIN DoneTags : DoneTags[i] = t
    BY DEF Range
  <2>3. \A i, j \in DOMAIN DoneTags : DoneTags[i] = DoneTags[j] => i = j
    BY DoneTagsElements DEF IsInjective
  <2>. QED BY <2>1, <2>2, <2>3 DEF CompletedOnce
<1>. QED BY <1>1, TypeCorrect, TagInvariance, PTL

\* There are no more finished commands than tags, so the completion TLP queue
\* always has room for what the done threads may still push.
THEOREM CompletionsFit == Spec => []CompletionQueueHasRoom
<1>1. TypeOK /\ TagInv => CompletionQueueHasRoom
  <2>. SUFFICES ASSUME TypeOK, TagInv PROVE CompletionQueueHasRoom
    OBVIOUS
  <2>. DEFINE n == Len(DoneTags)
  <2>1. /\ DoneTags \in Seq(Tag) /\ IsInjective(DoneTags) /\ n \in Nat
        /\ n = Len(tagQ) + Len(dmaActive) + Len(cmdDoneTagQ)
        /\ DOMAIN DoneTags = 1 .. n
    BY DoneTagsElements, LenProperties
  <2>2. DoneTags \in Injection(1 .. n, Tag)
    <3>1. DoneTags \in [1 .. n -> Tag]
      BY <2>1
    <3>. QED BY <2>1, <3>1 DEF Injection, IsInjective
  <2>3. Cardinality(1 .. n) <= QueueSize
    BY <2>2, FiniteTables, FS_Injection
  <2>4. Cardinality(1 .. n) = n
    BY <2>1, FS_Interval
  <2>5. Len(cmdDoneTagQ) = Len(compQ)
    BY DEF TagInv, DoneTagsMatchTLPs
  <2>6. Len(tagQ) \in Nat /\ Len(dmaActive) \in Nat /\ Len(compQ) \in Nat
    BY <2>5, TagTypes, LenProperties
  <2>7. n <= QueueSize
    BY <2>3, <2>4
  <2>. HIDE DEF n
  <2>. QED BY <2>1, <2>5, <2>6, <2>7, SizesAssumption DEF CompletionQueueHasRoom
<1>. QED BY <1>1, TypeCorrect, TagInvariance, PTL

===============================================================================
