----------------------- MODULE PCIeCommandServiceProofs -----------------------
(***************************************************************************)
(* The completion ring and the service: for all values of the constants    *)
(* with a completion queue not shorter than the submission queue, no       *)
(* completion overwrites an unread one, the host finds each by its phase   *)
(* tag, and the command path implements NvmeCommandService.                *)
(*                                                                         *)
(* The hypothesis on the sizes is needed: the done threads wait for room   *)
(* in CQ1 once and do not look again (the run MCCQFull).  With it they     *)
(* never have to wait, whatever the head doorbell last said.               *)
(***************************************************************************)
EXTENDS PCIeCommandTagProofs

LargeCQ == CQSize >= SQSize

(***************************************************************************)
(* The completion ring as seen from the host's head h, where the host      *)
(* looks for phase p: place and expected phase of the entry d steps on.    *)
(***************************************************************************)
Place(h, d) == IF h + d < CQSize THEN h + d ELSE h + d - CQSize
Lap(h, p, d) == IF h + d < CQSize THEN p ELSE ~p

\* The places up to a round ahead are the places of the ring.
LEMMA Places ==
  ASSUME NEW h \in CQIdx, NEW p \in BOOLEAN
  PROVE  /\ CQSize \in Nat /\ CQSize > 1 /\ CQIdx = 0 .. CQSize - 1
         /\ \A d \in 0 .. CQSize - 1 : Place(h, d) \in CQIdx
         /\ \A d, e \in 0 .. CQSize - 1 : Place(h, d) = Place(h, e) => d = e
         /\ Place(h, 0) = h /\ Place(h, CQSize) = h
         /\ Lap(h, p, 0) = p /\ Lap(h, p, CQSize) = ~p
         /\ \A d \in Int : Lap(h, p, d) \in BOOLEAN
<1>1. CQSize \in Nat /\ CQSize > 1 /\ h \in 0 .. CQSize - 1
  BY SizesAssumption DEF CQIdx
<1>2. h + 0 = h /\ h < CQSize /\ ~(h + CQSize < CQSize)
  BY <1>1
<1>3. Lap(h, p, 0) = p /\ Lap(h, p, CQSize) = ~p
  BY <1>2, Zenon DEF Lap
<1>4. \A d \in Int : Lap(h, p, d) \in BOOLEAN
  BY DEF Lap
<1>5. /\ \A d \in 0 .. CQSize - 1 : Place(h, d) \in CQIdx
      /\ \A d, e \in 0 .. CQSize - 1 : Place(h, d) = Place(h, e) => d = e
      /\ Place(h, 0) = h /\ Place(h, CQSize) = h
  BY <1>1 DEF Place, CQIdx
<1>. QED BY <1>1, <1>3, <1>4, <1>5 DEF CQIdx

\* The next place; the expected phase is inverted at the start of the ring.
LEMMA NextPlace ==
  ASSUME NEW h \in CQIdx, NEW p \in BOOLEAN, NEW d \in 0 .. CQSize - 1
  PROVE  /\ (Place(h, d) + 1) % CQSize = Place(h, d + 1)
         /\ Lap(h, p, d + 1) = IF Place(h, d + 1) = 0 THEN ~Lap(h, p, d)
                                                      ELSE Lap(h, p, d)
<1>1. CQSize \in Nat /\ CQSize > 1 /\ h \in 0 .. CQSize - 1
  BY SizesAssumption DEF CQIdx
<1>0. CQSize % CQSize = 0
  BY <1>1
<1>2. \A s \in 0 .. CQSize - 1 :
        (s + 1) % CQSize = IF s + 1 < CQSize THEN s + 1 ELSE 0
  <2>1. ASSUME NEW s \in 0 .. CQSize - 1
        PROVE  (s + 1) % CQSize = IF s + 1 < CQSize THEN s + 1 ELSE 0
    <3>1. CASE s + 1 < CQSize
      BY <1>1, <3>1
    <3>2. CASE s + 1 = CQSize
      <4>1. (s + 1) % CQSize = 0
        BY <1>0, <3>2, Zenon
      <4>2. ~(s + 1 < CQSize)
        BY <1>1, <3>2
      <4>. QED BY <4>1, <4>2, Zenon
    <3>3. s + 1 < CQSize \/ s + 1 = CQSize
      BY <1>1
    <3>. QED BY <3>1, <3>2, <3>3, Zenon
  <2>. QED BY <2>1
<1>3. (Place(h, d) + 1) % CQSize = Place(h, d + 1)
  <2>0. Place(h, d) \in 0 .. CQSize - 1
    BY <1>1 DEF Place
  <2>1. PICK s \in 0 .. CQSize - 1 : s = Place(h, d)
    BY <2>0
  <2>2. (s + 1) % CQSize = IF s + 1 < CQSize THEN s + 1 ELSE 0
    BY <1>2
  <2>3. Place(h, d + 1) = IF s + 1 < CQSize THEN s + 1 ELSE 0
    BY <1>1, <2>1 DEF Place
  <2>. QED BY <2>1, <2>2, <2>3
<1>4. CASE h + d < CQSize /\ h + (d + 1) < CQSize
  <2>1. Place(h, d + 1) # 0
    BY <1>1, <1>4 DEF Place
  <2>2. Lap(h, p, d) = p /\ Lap(h, p, d + 1) = p
    BY <1>4, Zenon DEF Lap
  <2>. QED BY <1>3, <2>1, <2>2
<1>5. CASE h + d < CQSize /\ ~(h + (d + 1) < CQSize)
  <2>1. Place(h, d + 1) = 0
    BY <1>1, <1>5 DEF Place
  <2>2. Lap(h, p, d) = p /\ Lap(h, p, d + 1) = ~p
    BY <1>5, Zenon DEF Lap
  <2>. QED BY <1>3, <2>1, <2>2
<1>6. CASE ~(h + d < CQSize)
  <2>1. Place(h, d + 1) # 0 /\ ~(h + (d + 1) < CQSize)
    BY <1>1, <1>6 DEF Place
  <2>2. Lap(h, p, d) = ~p /\ Lap(h, p, d + 1) = ~p
    BY <1>6, <2>1, Zenon DEF Lap
  <2>. QED BY <1>3, <2>1, <2>2
<1>. QED BY <1>4, <1>5, <1>6

\* When the host goes on to the next entry it sees the ring from there.
LEMMA HeadMoves ==
  ASSUME NEW h \in CQIdx, NEW p \in BOOLEAN, NEW d \in 0 .. CQSize - 1,
         NEW k, k = (h + 1) % CQSize, NEW r, r = IF k = 0 THEN ~p ELSE p
  PROVE  Place(k, d) = Place(h, d + 1) /\ Lap(k, r, d) = Lap(h, p, d + 1)
<1>1. CQSize \in Nat /\ CQSize > 1 /\ h \in 0 .. CQSize - 1
  BY SizesAssumption DEF CQIdx
<1>2. CASE h + 1 < CQSize
  <2>1. k = h + 1
    BY <1>1, <1>2
  <2>2. r = p
    BY <1>1, <2>1
  <2>3. Place(k, d) = Place(h, d + 1)
    BY <1>1, <2>1 DEF Place
  <2>4. k + d < CQSize <=> h + (d + 1) < CQSize
    BY <1>1, <2>1
  <2>5. Lap(k, r, d) = Lap(h, p, d + 1)
    <3>1. Lap(k, p, d) = Lap(h, p, d + 1)
      BY <2>4 DEF Lap
    <3>. QED BY <2>2, <3>1
  <2>. QED BY <2>3, <2>5
<1>3. CASE ~(h + 1 < CQSize)
  <2>0. h + 1 = CQSize
    BY <1>1, <1>3
  <2>1. k = 0
    <3>1. CQSize % CQSize = 0
      BY <1>1
    <3>. QED BY <2>0, <3>1, Zenon
  <2>2. r = ~p
    BY <2>1, Zenon
  <2>3. Place(k, d) = Place(h, d + 1)
    BY <1>1, <2>0, <2>1 DEF Place
  <2>4. k + d < CQSize /\ ~(h + (d + 1) < CQSize)
    BY <1>1, <2>0, <2>1
  <2>5. Lap(k, r, d) = Lap(h, p, d + 1)
    BY <2>2, <2>4, Zenon DEF Lap
  <2>. QED BY <2>3, <2>5
<1>. QED BY <1>2, <1>3

(***************************************************************************)
(* The invariant.                                                          *)
(***************************************************************************)
CQEntry(d) == cqMem[Place(hostCqHead, d)]
PhaseAt(d) == Lap(hostCqHead, hostPhase, d)

\* The first u entries from the host's head on are the completions it has
\* not seen, one each, and they alone carry the phase the host looks for.
Unread(u) ==
  /\ \A d \in 0 .. u - 1 : CQEntry(d).cid \in Posted
  /\ \A c \in Posted : \E d \in 0 .. u - 1 : CQEntry(d).cid = c
  /\ \A d, e \in 0 .. u - 1 : CQEntry(d).cid = CQEntry(e).cid => d = e
  /\ \A d \in 0 .. CQSize - 1 : CQEntry(d).phase = PhaseAt(d) <=> d < u

\* The completions the arbiter has still to send go behind them, and cqTail
\* with phaseTag behind these.
Queued(u) ==
  /\ \A i \in DOMAIN compQ : /\ compQ[i].slot = Place(hostCqHead, u + i - 1)
                             /\ compQ[i].phase = PhaseAt(u + i - 1)
  /\ cqTail = Place(hostCqHead, u + Len(compQ))
  /\ (IF cqTail = 0 THEN ~phaseTag ELSE phaseTag) = PhaseAt(u + Len(compQ))

CompletionRing == \E u \in 0 .. CQSize - 1 : Unread(u) /\ Queued(u)

\* The host sees each completion once, after the command was released, and
\* never has more commands out than the submission queue holds.
ReportedOnce ==
  /\ \A c \in Cmd : completed[c] <= 1
  /\ \A c \in ActiveCmds : completed[c] = 0
  /\ Outstanding < SQSize

ServiceInv == CompletionRing /\ ReportedOnce

Reported == {c \in Cmd : completed[c] > 0}

(***************************************************************************)
(* Counting commands.                                                      *)
(***************************************************************************)

\* Three disjoint parts of a finite set.
LEMMA ThreeApart ==
  ASSUME NEW S, IsFiniteSet(S),
         NEW A \in SUBSET S, NEW B \in SUBSET S, NEW C \in SUBSET S,
         A \cap B = {}, A \cap C = {}, B \cap C = {}
  PROVE  /\ Cardinality(A) \in Nat /\ Cardinality(B) \in Nat /\ Cardinality(C) \in Nat
         /\ Cardinality(A) + Cardinality(B) + Cardinality(C) <= Cardinality(S)
<1>1. IsFiniteSet(A) /\ IsFiniteSet(B) /\ IsFiniteSet(C)
  BY FS_Subset
<1>2. /\ Cardinality(A) \in Nat /\ Cardinality(B) \in Nat /\ Cardinality(C) \in Nat
      /\ Cardinality(S) \in Nat
  BY <1>1, FS_CardinalityType
<1>a. Cardinality({}) = 0
  BY FS_EmptySet
<1>3. /\ IsFiniteSet(A \cup B)
      /\ Cardinality(A \cup B) = Cardinality(A) + Cardinality(B)
  <2>1. /\ IsFiniteSet(A \cup B)
        /\ Cardinality(A \cup B) = Cardinality(A) + Cardinality(B) - Cardinality(A \cap B)
    BY <1>1, FS_Union
  <2>2. Cardinality(A \cap B) = 0
    BY <1>a, Zenon
  <2>. QED BY <1>2, <2>1, <2>2
<1>4. (A \cup B) \cap C = {}
  OBVIOUS
<1>5. Cardinality((A \cup B) \cup C) = Cardinality(A) + Cardinality(B) + Cardinality(C)
  <2>1. Cardinality((A \cup B) \cup C) =
          Cardinality(A \cup B) + Cardinality(C) - Cardinality((A \cup B) \cap C)
    BY <1>1, <1>3, FS_Union
  <2>2. Cardinality((A \cup B) \cap C) = 0
    BY <1>a, <1>4, Zenon
  <2>. QED BY <1>2, <1>3, <2>1, <2>2
<1>6. (A \cup B) \cup C \in SUBSET S
  OBVIOUS
<1>7. Cardinality((A \cup B) \cup C) <= Cardinality(S)
  BY <1>6, FS_Subset
<1>. QED BY <1>2, <1>5, <1>7

\* The commands held are as many as the busy tags.
LEMMA ActiveCount ==
  ASSUME TypeOK, TagInv
  PROVE  /\ ActiveCmds \subseteq Cmd
         /\ Cardinality(ActiveCmds) = hCmdQSize
         /\ Cardinality(BusyTags) = hCmdQSize
         /\ hCmdQSize \in 0 .. QueueSize
<1>1. /\ \A t \in BusyTags : param[t] \in CmdOrNone /\ param[t] # NoCmd
      /\ \A t, u \in BusyTags : param[t] = param[u] => t = u
      /\ hCmdQSize = Cardinality(BusyTags) /\ BusyTags \subseteq Tag
  BY TagTypes DEF TagInv, TagAccounting, BusyTags
<1>2. ActiveCmds \subseteq Cmd
  BY <1>1, CommandCounts DEF ActiveCmds
<1>3. IsFiniteSet(BusyTags) /\ Cardinality(BusyTags) \in Nat
      /\ Cardinality(BusyTags) <= QueueSize
  <2>1. IsFiniteSet(Tag) /\ Cardinality(Tag) = QueueSize
    BY FiniteTables
  <2>. QED BY <1>1, <2>1, FiniteTables, FS_Subset
<1>. DEFINE f == [t \in BusyTags |-> param[t]]
<1>4. f \in Bijection(BusyTags, ActiveCmds)
  BY <1>1 DEF ActiveCmds, Bijection, Injection, Surjection, IsInjective
<1>5. Cardinality(ActiveCmds) = Cardinality(BusyTags)
  <2>1. ExistsBijection(BusyTags, ActiveCmds)
    BY <1>4 DEF ExistsBijection
  <2>. QED BY <1>3, <2>1, FS_Bijection
<1>. QED BY <1>1, <1>2, <1>3, <1>5, SizesAssumption

\* The unread completions counted.
LEMMA UnreadCount ==
  ASSUME NEW u \in Nat, Unread(u)
  PROVE  Cardinality(Posted) = u
<1>. DEFINE f == [d \in 0 .. u - 1 |-> CQEntry(d).cid]
<1>1. f \in Bijection(0 .. u - 1, Posted)
  <2>1. /\ \A d \in 0 .. u - 1 : CQEntry(d).cid \in Posted
        /\ \A c \in Posted : \E d \in 0 .. u - 1 : CQEntry(d).cid = c
        /\ \A d, e \in 0 .. u - 1 : CQEntry(d).cid = CQEntry(e).cid => d = e
    BY DEF Unread
  <2>. QED BY <2>1 DEF Bijection, Injection, Surjection, IsInjective
<1>2. IsFiniteSet(0 .. u - 1) /\ Cardinality(0 .. u - 1) = u
  BY FS_Interval
<1>3. ExistsBijection(0 .. u - 1, Posted)
  BY <1>1 DEF ExistsBijection
<1>. QED BY <1>2, <1>3, FS_Bijection

\* The commands the host has not seen completed are at least those that wait
\* to be seen and those the controller holds.
LEMMA ServedBound ==
  ASSUME IInv, RingInv, TagInv, ReportedOnce, NEW u \in Nat, Unread(u)
  PROVE  u + hCmdQSize <= Outstanding /\ Outstanding \in Int
<1>1. TypeOK /\ Accepted \in Nat /\ Accepted <= submitted /\ submitted \in Nat
  BY RingNumbers, FetchNumbers DEF IInv
<1>2. /\ Reported \in SUBSET (1 .. Accepted)
      /\ Posted \in SUBSET (1 .. Accepted)
      /\ ActiveCmds \in SUBSET (1 .. Accepted)
  <2>1. \A c \in Cmd : c \in Int /\ c >= 1
    BY SizesAssumption DEF Cmd
  <2>2. \A c \in Reported : c \in Cmd /\ c <= Accepted
    BY DEF Reported, RingInv, OnlyAccepted
  <2>3. \A c \in Posted : c \in Cmd /\ c <= Accepted
    BY DEF Posted
  <2>4. \A c \in ActiveCmds : c \in Cmd /\ c <= Accepted
    <3>1. \A t \in BusyTags : param[t] <= Accepted
      BY DEF RingInv, OnlyAccepted, BusyTags
    <3>. QED BY <1>1, <3>1, ActiveCount DEF ActiveCmds
  <2>. QED BY <1>1, <2>1, <2>2, <2>3, <2>4
<1>3. /\ Reported \cap Posted = {} /\ Reported \cap ActiveCmds = {}
      /\ Posted \cap ActiveCmds = {}
  BY DEF Reported, Posted, ReportedOnce
<1>4. IsFiniteSet(1 .. Accepted) /\ Cardinality(1 .. Accepted) = Accepted
  BY <1>1, FS_Interval
<1>5. /\ Cardinality(Reported) \in Nat
      /\ Cardinality(Reported) + Cardinality(Posted) + Cardinality(ActiveCmds) <= Accepted
  <2>. HIDE DEF Reported, Posted, ActiveCmds
  <2>. QED BY <1>2, <1>3, <1>4, ThreeApart
<1>6. Cardinality(Posted) = u
  BY UnreadCount
<1>7. Cardinality(ActiveCmds) = hCmdQSize /\ hCmdQSize \in 0 .. QueueSize
  BY <1>1, ActiveCount
<1>8. Outstanding = submitted - Cardinality(Reported)
  BY DEF Outstanding, Reported
<1>. QED BY <1>1, <1>5, <1>6, <1>7, <1>8, SizesAssumption

\* Finished commands are held commands.
LEMMA DoneBound ==
  ASSUME TypeOK, TagInv
  PROVE  /\ Len(compQ) \in Nat /\ Len(tagQ) \in Nat /\ Len(dmaActive) \in Nat
         /\ Len(compQ) + Len(tagQ) + Len(dmaActive) <= hCmdQSize
<1>. DEFINE n == Len(DoneTags)
<1>1. /\ DoneTags \in Seq(Tag) /\ IsInjective(DoneTags) /\ n \in Nat
      /\ n = Len(tagQ) + Len(dmaActive) + Len(cmdDoneTagQ)
      /\ DOMAIN DoneTags = 1 .. n /\ Range(DoneTags) = DoneSet
  BY DoneTagsElements, LenProperties
<1>2. DoneSet \subseteq BusyTags
  BY TagTypes DEF TagInv, DoneApart, BusyTags
<1>3. DoneTags \in Injection(1 .. n, BusyTags)
  <2>1. \A i \in 1 .. n : DoneTags[i] \in BusyTags
    BY <1>1, <1>2 DEF Range
  <2>2. DoneTags \in [1 .. n -> BusyTags]
    BY <1>1, <2>1
  <2>. QED BY <1>1, <2>2 DEF Injection, IsInjective
<1>4. Cardinality(1 .. n) <= hCmdQSize
  <2>1. IsFiniteSet(BusyTags) /\ Cardinality(BusyTags) = hCmdQSize
    BY ActiveCount, FiniteTables DEF BusyTags
  <2>. QED BY <1>3, <2>1, FS_Injection
<1>5. Cardinality(1 .. n) = n
  BY <1>1, FS_Interval
<1>6. Len(cmdDoneTagQ) = Len(compQ)
  BY DEF TagInv, DoneTagsMatchTLPs
<1>7. Len(tagQ) \in Nat /\ Len(dmaActive) \in Nat /\ Len(compQ) \in Nat
  BY <1>6, TagTypes, LenProperties
<1>8. n <= hCmdQSize
  BY <1>4, <1>5
<1>9. hCmdQSize \in Int
  BY TagTypes
<1>. HIDE DEF n
<1>. QED BY <1>1, <1>6, <1>7, <1>8, <1>9

\* So unread and unsent completions together leave a place of CQ1 free, also
\* when all finished commands have had theirs.
LEMMA RoomInCQ ==
  ASSUME LargeCQ, IInv, RingInv, TagInv, ReportedOnce,
         NEW u \in Nat, Unread(u)
  PROVE  /\ Len(compQ) \in Nat /\ Len(tagQ) \in Nat /\ Len(dmaActive) \in Nat
         /\ u + Len(compQ) + Len(tagQ) + Len(dmaActive) < CQSize
<1>1. TypeOK
  BY DEF IInv
<1>2. /\ Len(compQ) \in Nat /\ Len(tagQ) \in Nat /\ Len(dmaActive) \in Nat
      /\ Len(compQ) + Len(tagQ) + Len(dmaActive) <= hCmdQSize
  BY <1>1, DoneBound
<1>3. u + hCmdQSize <= Outstanding /\ Outstanding \in Int
  BY ServedBound
<1>4. hCmdQSize \in Int
  BY <1>1, TagTypes
<1>. QED BY <1>2, <1>3, <1>4, SizesAssumption DEF LargeCQ, ReportedOnce

(***************************************************************************)
(* What steps do to the commands held and to those waiting to be seen.     *)
(***************************************************************************)

\* processCompletionTLPCmd adds the next command to those held.
LEMMA AcceptActive ==
  ASSUME IInv, RingInv, TagInv, processCompletionTLPCmd
  PROVE  /\ ActiveCmds' = ActiveCmds \cup {Accepted + 1}
         /\ Accepted + 1 \in Cmd /\ Accepted' = Accepted + 1
         /\ hCmdQSize # QueueSize
<1>1. TypeOK /\ hCmdQSize # QueueSize
  BY DEF IInv, processCompletionTLPCmd
<1>2. FreeTags # {}
  <2>1. FreeTags = {} => BusyTags = Tag
    BY DEF FreeTags, BusyTags
  <2>2. hCmdQSize = Cardinality(BusyTags)
    BY DEF TagInv, TagAccounting
  <2>. QED BY <1>1, <2>1, <2>2, FiniteTables
<1>3. PICK t \in Tag : t = getFreeTag /\ ~tagTable[t]
  BY <1>2, GetFreeTagIsTag DEF FreeTags
<1>4. /\ tagTable' = [tagTable EXCEPT ![t] = TRUE]
      /\ param' = [param EXCEPT ![t] = Accepted + 1]
      /\ Accepted' = Accepted + 1 /\ Accepted < submitted
  BY <1>3, RingAccept DEF processCompletionTLPCmd, FillTables
<1>5. BusyTags' = BusyTags \cup {t} /\ t \notin BusyTags
  BY <1>1, <1>3, <1>4, TagTypes DEF BusyTags
<1>6. \A u \in Tag : param'[u] = IF u = t THEN Accepted + 1 ELSE param[u]
  BY <1>1, <1>4, TagTypes
<1>7. ActiveCmds' = ActiveCmds \cup {Accepted + 1}
  <2>1. \A u \in BusyTags : u \in Tag /\ u # t
    BY <1>5 DEF BusyTags
  <2>2. ActiveCmds' = {param'[u] : u \in BusyTags'}
    BY DEF ActiveCmds
  <2>3. \A u \in BusyTags : param'[u] = param[u]
    BY <1>6, <2>1
  <2>4. param'[t] = Accepted + 1
    BY <1>6
  <2>. QED BY <1>5, <2>2, <2>3, <2>4 DEF ActiveCmds
<1>8. Accepted + 1 \in Cmd
  <2>1. submitted \in 0 .. NumCmds /\ Accepted \in Nat
    BY <1>1, RingNumbers DEF TypeOK, HostTypeOK
  <2>. QED BY <1>4, <2>1, SizesAssumption DEF Cmd
<1>. QED BY <1>1, <1>4, <1>7, <1>8

\* The arbiter takes the command whose completion it sends from those held.
LEMMA ReleaseActive ==
  ASSUME TypeOK, TagInv, ArbiterSendsComp
  PROVE  /\ compQ # <<>> /\ Head(compQ) = compQ[1] /\ 1 \in DOMAIN compQ
         /\ Head(compQ).cid \in ActiveCmds
         /\ ActiveCmds' = ActiveCmds \ {Head(compQ).cid}
<1>. DEFINE TLP == [slot : CQIdx, cid : CmdOrNone, phase : BOOLEAN]
<1>1. compQ # <<>> /\ cmdDoneTagQ # <<>>
  BY ArbiterFindsTLP DEF ArbiterSendsComp
<1>2. Head(compQ) = compQ[1] /\ 1 \in DOMAIN compQ
  <2>1. compQ \in Seq(TLP)
    BY DEF TypeOK, TLPTypeOK
  <2>. HIDE DEF TLP
  <2>. QED BY <1>1, <2>1, PopElements
<1>3. /\ Head(cmdDoneTagQ) = cmdDoneTagQ[1] /\ Head(cmdDoneTagQ) \in Tag
      /\ Head(cmdDoneTagQ) \in Range(cmdDoneTagQ)
  BY <1>1, TagTypes, PopElements
<1>4. PICK t \in Tag : t = Head(cmdDoneTagQ)
  BY <1>3
<1>5. t \in BusyTags
  BY <1>3, <1>4 DEF TagInv, DoneApart, DoneSet, BusyTags
<1>6. Head(compQ).cid = param[t]
  BY <1>2, <1>3, <1>4 DEF TagInv, DoneTagsMatchTLPs
<1>7. /\ tagTable' = [tagTable EXCEPT ![t] = FALSE]
      /\ param' = [param EXCEPT ![t] = NoCmd]
  BY <1>4 DEF ArbiterSendsComp, ReleaseTag
<1>8. BusyTags' = BusyTags \ {t} /\ BusyTags \subseteq Tag
  BY <1>7, TagTypes DEF BusyTags
<1>9. \A u \in BusyTags : u # t => param'[u] = param[u] /\ param[u] # param[t]
  BY <1>5, <1>7, <1>8, TagTypes DEF TagInv, TagAccounting
<1>10. ActiveCmds' = {param'[u] : u \in BusyTags'}
  BY DEF ActiveCmds
<1>. QED BY <1>1, <1>2, <1>5, <1>6, <1>8, <1>9, <1>10 DEF ActiveCmds

\* No other step changes which commands are held.
LEMMA OthersActive ==
  ASSUME TypeOK, [Next]_vars, ~processCompletionTLPCmd, ~ArbiterSendsComp
  PROVE  ActiveCmds' = ActiveCmds
<1>1. UNCHANGED <<tagTable, param>>
  <2>1. \/ \E q \in Slot : PendingWriteCmd(q) \/ MemReadCompletion(q)
        \/ UNCHANGED tableVars
    BY WhoChanges
  <2>. QED BY <2>1 DEF PendingWriteCmd, MemReadCompletion, tableVars
<1>. QED BY <1>1 DEF ActiveCmds, BusyTags

\* Completions are seen by the host only.
LEMMA OnlyHostReaps ==
  ASSUME [Next]_vars, ~HostReapCQ
  PROVE  UNCHANGED <<completed, hostCqHead, hostPhase>>
<1>1. \/ HostSubmit \/ writeSQ1TDBLReg \/ writeCQ1HDBLReg
      \/ processCompletionTLPCmd \/ ArbiterSendsRdCmd
      \/ ArbiterSendsRdData \/ ArbiterSendsWrData \/ ArbiterSendsComp
      \/ UNCHANGED hostVars
  BY WhoChanges
<1>. QED BY <1>1 DEF HostSubmit, writeSQ1TDBLReg,
     writeCQ1HDBLReg, processCompletionTLPCmd, ArbiterSendsRdCmd,
     ArbiterSendsRdData, ArbiterSendsWrData, ArbiterSendsComp, hostVars

\* What the host finds at its head when the phase tag is the one it looks
\* for: a completion it has not seen.
LEMMA ReapsPosted ==
  ASSUME TypeOK, NEW u \in 0 .. CQSize - 1, Unread(u), HostReapCQ
  PROVE  /\ u > 0 /\ CQEntry(0) = cqMem[hostCqHead]
         /\ cqMem[hostCqHead].cid \in Posted
         /\ cqMem[hostCqHead].phase = hostPhase
<1>1. hostCqHead \in CQIdx /\ hostPhase \in BOOLEAN
  BY DEF TypeOK, HostTypeOK
<1>2. /\ CQSize \in Nat /\ CQSize > 1
      /\ Place(hostCqHead, 0) = hostCqHead /\ Lap(hostCqHead, hostPhase, 0) = hostPhase
  BY <1>1, Places
<1>3. CQEntry(0) = cqMem[hostCqHead] /\ PhaseAt(0) = hostPhase
  BY <1>2, Zenon DEF CQEntry, PhaseAt
<1>4. cqMem[hostCqHead].phase = hostPhase
  BY DEF HostReapCQ
<1>5. 0 \in 0 .. CQSize - 1
  BY <1>2
<1>6. 0 < u
  <2>1. CQEntry(0).phase = PhaseAt(0)
    BY <1>3, <1>4, Zenon
  <2>. QED BY <1>5, <2>1 DEF Unread
<1>7. 0 \in 0 .. u - 1
  BY <1>2, <1>6
<1>8. CQEntry(0).cid \in Posted
  BY <1>7 DEF Unread
<1>. QED BY <1>2, <1>3, <1>4, <1>6, <1>8

\* What the host's step does to the commands that wait to be seen.
LEMMA ReapCommands ==
  ASSUME IInv, RingInv, TagInv, ReportedOnce, HostReapCQ, [Next]_vars,
         NEW c \in Posted, c = cqMem[hostCqHead].cid
  PROVE  /\ c \in Cmd /\ c \notin ActiveCmds /\ c <= Accepted /\ completed[c] = 0
         /\ completed' = [completed EXCEPT ![c] = 1]
         /\ ActiveCmds' = ActiveCmds /\ Accepted' = Accepted
         /\ Posted' = Posted \ {c}
<1>1. /\ c \in Cmd /\ c \notin ActiveCmds /\ c <= Accepted /\ completed[c] = 0
      /\ completed \in [Cmd -> Nat]
  BY DEF Posted, IInv, TypeOK, HostTypeOK
<1>2. completed' = [completed EXCEPT ![c] = 1]
  <2>1. completed' = [completed EXCEPT ![c] = completed[c] + 1]
    BY DEF HostReapCQ
  <2>2. completed[c] + 1 = 1
    BY <1>1
  <2>. QED BY <2>1, <2>2
<1>3. ~processCompletionTLPCmd /\ ~ArbiterSendsComp
  <2>1. fetchResp' = fetchResp /\ token' = token
    BY DEF HostReapCQ, tlpVars
  <2>2. processCompletionTLPCmd => fetchResp' # fetchResp
    <3>1. fetchResp \in [addr : SQIdx, left : Nat]
      BY DEF IInv, TypeOK, HostTypeOK
    <3>2. fetchResp.left - 1 # fetchResp.left
      BY <3>1
    <3>. QED BY <3>2 DEF processCompletionTLPCmd
  <2>3. ArbiterSendsComp => token' # token
    <3>1. (WR_COMP + 1) % 4 # WR_COMP
      BY DEF WR_COMP
    <3>. QED BY <3>1 DEF ArbiterSendsComp, ArbiterTurn
  <2>. QED BY <2>1, <2>2, <2>3
<1>4. ActiveCmds' = ActiveCmds /\ Accepted' = Accepted
  BY <1>3, OthersActive, PositionsStep DEF IInv
<1>5. \A x \in Cmd : x # c => completed'[x] = completed[x]
  BY <1>1, <1>2
<1>6. completed'[c] = 1
  BY <1>1, <1>2
<1>7. \A x \in Cmd : x \in Posted' <=> x \in Posted /\ x # c
  BY <1>4, <1>5, <1>6 DEF Posted
<1>8. Posted \subseteq Cmd /\ Posted' \subseteq Cmd
  BY DEF Posted
<1>. QED BY <1>1, <1>2, <1>4, <1>7, <1>8

(***************************************************************************)
(* The completion ring, step by step.                                      *)
(***************************************************************************)

\* The host takes the first unread completion and goes on to the next place.
LEMMA RingReap ==
  ASSUME LargeCQ, IInv, RingInv, TagInv, ReportedOnce, HostReapCQ, [Next]_vars,
         NEW u \in 0 .. CQSize - 1, Unread(u), Queued(u)
  PROVE  u - 1 \in 0 .. CQSize - 1 /\ Unread(u - 1)' /\ Queued(u - 1)'
<1>1. /\ TypeOK /\ hostCqHead \in CQIdx /\ hostPhase \in BOOLEAN
      /\ CQSize \in Nat /\ CQSize > 1 /\ u \in Nat
  BY SizesAssumption DEF IInv, TypeOK, HostTypeOK
<1>2. /\ u > 0 /\ CQEntry(0) = cqMem[hostCqHead]
      /\ cqMem[hostCqHead].cid \in Posted
      /\ cqMem[hostCqHead].phase = hostPhase
  BY <1>1, ReapsPosted
<1>3. PICK c \in Posted : c = cqMem[hostCqHead].cid
  BY <1>2
<1>4. Posted' = Posted \ {c}
  BY <1>3, ReapCommands
<1>5. /\ hostCqHead' = (hostCqHead + 1) % CQSize
      /\ hostPhase' = IF hostCqHead' = 0 THEN ~hostPhase ELSE hostPhase
      /\ UNCHANGED <<cqMem, compQ, cqTail, phaseTag>>
  BY DEF HostReapCQ, tlpVars, doneVars
<1>6. ASSUME NEW d \in 0 .. CQSize - 1
      PROVE  /\ Place(hostCqHead', d) = Place(hostCqHead, d + 1)
             /\ Lap(hostCqHead', hostPhase', d) = Lap(hostCqHead, hostPhase, d + 1)
  BY <1>1, <1>5, HeadMoves
<1>7. ASSUME NEW d \in 0 .. CQSize - 2
      PROVE  /\ d \in 0 .. CQSize - 1 /\ d + 1 \in 0 .. CQSize - 1
             /\ CQEntry(d)' = CQEntry(d + 1) /\ PhaseAt(d)' = PhaseAt(d + 1)
  <2>1. d \in 0 .. CQSize - 1 /\ d + 1 \in 0 .. CQSize - 1
    BY <1>1
  <2>. QED BY <1>5, <1>6, <2>1 DEF CQEntry, PhaseAt
<1>8. ASSUME NEW d \in 0 .. (u - 1) - 1
      PROVE  /\ d \in 0 .. CQSize - 2 /\ d + 1 \in 0 .. u - 1 /\ d + 1 # 0
             /\ CQEntry(d)' = CQEntry(d + 1)
  <2>1. d \in 0 .. CQSize - 2 /\ d + 1 \in 0 .. u - 1 /\ d + 1 # 0
    BY <1>1
  <2>. QED BY <1>7, <2>1
<1>9. ASSUME NEW d \in 0 .. (u - 1) - 1
      PROVE  CQEntry(d)'.cid \in Posted'
  <2>1. CQEntry(d + 1).cid \in Posted
    BY <1>8 DEF Unread
  <2>2. 0 \in 0 .. u - 1
    BY <1>1, <1>2
  <2>3. CQEntry(d + 1).cid # c
    <3>1. CQEntry(0).cid = c
      BY <1>2, <1>3
    <3>. QED BY <1>8, <2>2, <3>1 DEF Unread
  <2>. QED BY <1>4, <1>8, <2>1, <2>3
<1>10. ASSUME NEW x \in Posted'
       PROVE  \E d \in 0 .. (u - 1) - 1 : CQEntry(d)'.cid = x
  <2>1. PICK e \in 0 .. u - 1 : CQEntry(e).cid = x
    BY <1>4 DEF Unread
  <2>2. e # 0
    BY <1>2, <1>3, <1>4, <2>1
  <2>3. PICK d \in 0 .. (u - 1) - 1 : d + 1 = e
    <3>1. e - 1 \in 0 .. (u - 1) - 1 /\ (e - 1) + 1 = e
      BY <1>1, <2>2
    <3>. QED BY <3>1
  <2>. QED BY <1>8, <2>1, <2>3
<1>11. ASSUME NEW d \in 0 .. (u - 1) - 1, NEW e \in 0 .. (u - 1) - 1,
              CQEntry(d)'.cid = CQEntry(e)'.cid
       PROVE  d = e
  <2>1. CQEntry(d + 1).cid = CQEntry(e + 1).cid
    BY <1>8, <1>11
  <2>2. d + 1 = e + 1
    BY <1>8, <2>1 DEF Unread
  <2>. QED BY <2>2
<1>12. ASSUME NEW d \in 0 .. CQSize - 1
       PROVE  CQEntry(d)'.phase = PhaseAt(d)' <=> d < u - 1
  <2>1. CASE d \in 0 .. CQSize - 2
    <3>1. CQEntry(d + 1).phase = PhaseAt(d + 1) <=> d + 1 < u
      BY <1>7, <2>1 DEF Unread
    <3>2. d + 1 < u <=> d < u - 1
      BY <1>1
    <3>3. CQEntry(d)' = CQEntry(d + 1) /\ PhaseAt(d)' = PhaseAt(d + 1)
      BY <1>7, <2>1
    <3>. QED BY <3>1, <3>2, <3>3
  <2>2. CASE d = CQSize - 1
    <3>1. d + 1 = CQSize /\ ~(d < u - 1)
      BY <1>1, <2>2
    <3>2. /\ Place(hostCqHead, CQSize) = hostCqHead
          /\ Lap(hostCqHead, hostPhase, CQSize) = ~hostPhase
      BY <1>1, Places
    <3>3. CQEntry(d)' = cqMem[hostCqHead]
      BY <1>5, <1>6, <3>1, <3>2 DEF CQEntry
    <3>4. PhaseAt(d)' = ~hostPhase
      BY <1>6, <3>1, <3>2 DEF PhaseAt
    <3>5. CQEntry(d)'.phase # PhaseAt(d)'
      BY <1>1, <1>2, <3>3, <3>4
    <3>. QED BY <3>1, <3>5
  <2>. QED BY <1>1, <2>1, <2>2
<1>13. Unread(u - 1)'
  BY <1>9, <1>10, <1>11, <1>12 DEF Unread
<1>14. Len(compQ) \in Nat /\ u + Len(compQ) < CQSize
  <2>1. /\ Len(compQ) \in Nat /\ Len(tagQ) \in Nat /\ Len(dmaActive) \in Nat
        /\ u + Len(compQ) + Len(tagQ) + Len(dmaActive) < CQSize
    BY <1>1, RoomInCQ
  <2>. QED BY <1>1, <2>1
<1>15. ASSUME NEW i \in 1 .. Len(compQ) + 1
       PROVE  /\ Place(hostCqHead', (u - 1) + i - 1) = Place(hostCqHead, u + i - 1)
              /\ Lap(hostCqHead', hostPhase', (u - 1) + i - 1) = PhaseAt(u + i - 1)
  <2>1. PICK d \in 0 .. CQSize - 1 : d = (u - 1) + i - 1
    <3>1. (u - 1) + i - 1 \in 0 .. CQSize - 1
      BY <1>1, <1>2, <1>14
    <3>. QED BY <3>1
  <2>2. d + 1 = u + i - 1
    BY <1>1, <2>1
  <2>3. /\ Place(hostCqHead', d) = Place(hostCqHead, d + 1)
        /\ Lap(hostCqHead', hostPhase', d) = Lap(hostCqHead, hostPhase, d + 1)
    BY <1>6
  <2>. QED BY <2>1, <2>2, <2>3, Zenon DEF PhaseAt
<1>16. Queued(u - 1)'
  <2>. DEFINE TLP == [slot : CQIdx, cid : CmdOrNone, phase : BOOLEAN]
  <2>0. compQ \in Seq(TLP)
    BY <1>1 DEF TypeOK, TLPTypeOK
  <2>. HIDE DEF TLP
  <2>a. PICK n \in Nat : n = Len(compQ)
    BY <1>14
  <2>1. DOMAIN compQ = 1 .. n
    BY <2>0, <2>a, LenProperties
  <2>2. ASSUME NEW i \in DOMAIN compQ
        PROVE  /\ compQ[i].slot = Place(hostCqHead', (u - 1) + i - 1)
               /\ compQ[i].phase = Lap(hostCqHead', hostPhase', (u - 1) + i - 1)
    <3>1. i \in 1 .. Len(compQ) + 1
      BY <2>1, <2>a
    <3>2. compQ[i].slot = Place(hostCqHead, u + i - 1) /\ compQ[i].phase = PhaseAt(u + i - 1)
      BY DEF Queued
    <3>. QED BY <1>15, <3>1, <3>2, Zenon
  <2>3. n + 1 \in 1 .. Len(compQ) + 1 /\ u + (n + 1) - 1 = u + n
        /\ (u - 1) + (n + 1) - 1 = (u - 1) + n
    BY <1>1, <2>a
  <2>4. /\ Place(hostCqHead', (u - 1) + n) = Place(hostCqHead, u + n)
        /\ Lap(hostCqHead', hostPhase', (u - 1) + n) = PhaseAt(u + n)
    <3>1. /\ Place(hostCqHead', (u - 1) + (n + 1) - 1) = Place(hostCqHead, u + (n + 1) - 1)
          /\ Lap(hostCqHead', hostPhase', (u - 1) + (n + 1) - 1) = PhaseAt(u + (n + 1) - 1)
      BY <1>15, <2>3
    <3>. QED BY <2>3, <3>1, Zenon
  <2>5. /\ cqTail = Place(hostCqHead, u + n)
        /\ (IF cqTail = 0 THEN ~phaseTag ELSE phaseTag) = PhaseAt(u + n)
    BY <2>a DEF Queued
  <2>6. (IF cqTail = 0 THEN ~phaseTag ELSE phaseTag) =
          Lap(hostCqHead', hostPhase', (u - 1) + n)
    BY <2>4, <2>5, Zenon
  <2>7. cqTail = Place(hostCqHead', (u - 1) + n)
    BY <2>4, <2>5
  <2>8. n = Len(compQ')
    BY <1>5, <2>a
  <2>. QED BY <1>5, <2>2, <2>6, <2>7, <2>8, Zenon DEF Queued, PhaseAt
<1>17. u - 1 \in 0 .. CQSize - 1
  BY <1>1, <1>2
<1>. QED BY <1>13, <1>16, <1>17

\* The arbiter writes the next completion behind the unread ones.
LEMMA RingSend ==
  ASSUME LargeCQ, IInv, RingInv, TagInv, ReportedOnce, ArbiterSendsComp, [Next]_vars,
         NEW u \in 0 .. CQSize - 1, Unread(u), Queued(u)
  PROVE  u + 1 \in 0 .. CQSize - 1 /\ Unread(u + 1)' /\ Queued(u + 1)'
<1>. DEFINE TLP == [slot : CQIdx, cid : CmdOrNone, phase : BOOLEAN]
<1>1. /\ TypeOK /\ hostCqHead \in CQIdx /\ hostPhase \in BOOLEAN
      /\ CQSize \in Nat /\ CQSize > 1 /\ u \in Nat
      /\ cqMem \in [CQIdx -> [cid : CmdOrNone, phase : BOOLEAN]]
      /\ compQ \in Seq(TLP)
  BY SizesAssumption DEF IInv, TypeOK, HostTypeOK, TLPTypeOK
<1>. HIDE DEF TLP
<1>2. /\ compQ # <<>> /\ Head(compQ) = compQ[1] /\ 1 \in DOMAIN compQ
      /\ Head(compQ).cid \in ActiveCmds
      /\ ActiveCmds' = ActiveCmds \ {Head(compQ).cid}
  BY <1>1, ReleaseActive
<1>3. PICK c \in ActiveCmds : c = Head(compQ).cid
  BY <1>2
<1>4. Head(compQ).slot = Place(hostCqHead, u) /\ Head(compQ).phase = PhaseAt(u)
  <2>1. /\ compQ[1].slot = Place(hostCqHead, u + 1 - 1)
        /\ compQ[1].phase = PhaseAt(u + 1 - 1)
    BY <1>2 DEF Queued
  <2>2. u + 1 - 1 = u
    BY <1>1
  <2>. QED BY <1>2, <2>1, <2>2, Zenon
<1>5. /\ cqMem' = [cqMem EXCEPT ![Place(hostCqHead, u)] =
                     [cid |-> c, phase |-> PhaseAt(u)]]
      /\ compQ' = Tail(compQ)
      /\ UNCHANGED <<hostCqHead, hostPhase, completed, cqTail, phaseTag>>
  BY <1>3, <1>4 DEF ArbiterSendsComp
<1>6. PICK n \in Nat : /\ n = Len(compQ) /\ n > 0 /\ u + n < CQSize
                       /\ DOMAIN compQ = 1 .. n
  <2>1. /\ Len(compQ) \in Nat /\ Len(tagQ) \in Nat /\ Len(dmaActive) \in Nat
        /\ u + Len(compQ) + Len(tagQ) + Len(dmaActive) < CQSize
    BY <1>1, RoomInCQ
  <2>2. Len(compQ) > 0 /\ DOMAIN compQ = 1 .. Len(compQ)
    BY <1>1, <1>2, LenProperties, EmptySeq
  <2>3. u + Len(compQ) < CQSize
    BY <1>1, <2>1
  <2>. QED BY <2>1, <2>2, <2>3, Zenon
<1>7. /\ Len(compQ') = n - 1 /\ DOMAIN compQ' = 1 .. n - 1
      /\ \A i \in 1 .. n - 1 : compQ'[i] = compQ[i + 1]
  BY <1>1, <1>2, <1>5, <1>6, PopElements
<1>8. u + 1 \in 0 .. CQSize - 1
  BY <1>1, <1>6
<1>9. \A d \in 0 .. CQSize - 1 : PhaseAt(d)' = PhaseAt(d)
  BY <1>5 DEF PhaseAt
<1>10. ASSUME NEW d \in 0 .. CQSize - 1
       PROVE  /\ d # u => CQEntry(d)' = CQEntry(d)
              /\ d = u => CQEntry(d)'.cid = c /\ CQEntry(d)'.phase = PhaseAt(u)
  <2>1. /\ Place(hostCqHead, d) \in CQIdx /\ Place(hostCqHead, u) \in CQIdx
        /\ Place(hostCqHead, d) = Place(hostCqHead, u) => d = u
    BY <1>1, Places
  <2>2. CQEntry(d)' = cqMem'[Place(hostCqHead, d)]
    BY <1>5 DEF CQEntry
  <2>3. CASE d = u
    <3>1. CQEntry(d)' = [cid |-> c, phase |-> PhaseAt(u)]
      BY <1>1, <1>5, <2>1, <2>2, <2>3
    <3>. QED BY <2>3, <3>1
  <2>4. CASE d # u
    <3>1. CQEntry(d)' = cqMem[Place(hostCqHead, d)]
      BY <1>1, <1>5, <2>1, <2>2, <2>4
    <3>. QED BY <2>4, <3>1 DEF CQEntry
  <2>. QED BY <2>3, <2>4
<1>11. Posted' = Posted \cup {c} /\ c \notin Posted
  <2>1. Accepted' = Accepted
    <3>1. ~processCompletionTLPCmd
      <4>1. token' # token
        <5>1. (WR_COMP + 1) % 4 # WR_COMP
          BY DEF WR_COMP
        <5>. QED BY <5>1 DEF ArbiterSendsComp, ArbiterTurn
      <4>. QED BY <4>1 DEF processCompletionTLPCmd, tlpVars
    <3>. QED BY <3>1, PositionsStep
  <2>2. c \in Cmd /\ completed[c] = 0
    BY <1>1, ActiveCount DEF ReportedOnce
  <2>3. c <= Accepted
    <3>1. PICK t \in Tag : c = param[t]
      BY DEF ActiveCmds, BusyTags
    <3>. QED BY <3>1 DEF RingInv, OnlyAccepted
  <2>4. \A x \in Cmd : x \in Posted' <=> x \in Posted \/ x = c
    BY <1>2, <1>3, <1>5, <2>1, <2>2, <2>3 DEF Posted
  <2>5. Posted \subseteq Cmd /\ Posted' \subseteq Cmd /\ c \notin Posted
    BY DEF Posted
  <2>. QED BY <2>2, <2>4, <2>5
<1>12. \A d \in 0 .. (u + 1) - 1 : /\ d \in 0 .. CQSize - 1
                                   /\ d \in 0 .. u - 1 \/ d = u
  BY <1>1
<1>13. \A d \in 0 .. u - 1 : /\ d \in 0 .. CQSize - 1 /\ d # u
                             /\ d \in 0 .. (u + 1) - 1
  BY <1>1
<1>14. ASSUME NEW d \in 0 .. (u + 1) - 1
       PROVE  /\ CQEntry(d)'.cid \in Posted'
              /\ d # u => d \in 0 .. u - 1 /\ CQEntry(d)'.cid = CQEntry(d).cid
                          /\ CQEntry(d).cid \in Posted
              /\ d = u => CQEntry(d)'.cid = c
  <2>1. CASE d = u
    BY <1>10, <1>11, <1>12, <2>1
  <2>2. CASE d # u
    <3>1. d \in 0 .. u - 1 /\ CQEntry(d)' = CQEntry(d)
      BY <1>10, <1>12, <2>2
    <3>2. CQEntry(d).cid \in Posted
      BY <3>1 DEF Unread
    <3>. QED BY <1>11, <2>2, <3>1, <3>2
  <2>. QED BY <2>1, <2>2
<1>15. ASSUME NEW x \in Posted'
       PROVE  \E d \in 0 .. (u + 1) - 1 : CQEntry(d)'.cid = x
  <2>1. CASE x = c
    <3>1. u \in 0 .. (u + 1) - 1
      BY <1>1
    <3>. QED BY <1>14, <2>1, <3>1
  <2>2. CASE x # c
    <3>1. PICK d \in 0 .. u - 1 : CQEntry(d).cid = x
      BY <1>11, <2>2 DEF Unread
    <3>. QED BY <1>13, <1>14, <3>1
  <2>. QED BY <2>1, <2>2
<1>16. ASSUME NEW d \in 0 .. (u + 1) - 1, NEW e \in 0 .. (u + 1) - 1,
              CQEntry(d)'.cid = CQEntry(e)'.cid
       PROVE  d = e
  BY <1>11, <1>14, <1>16 DEF Unread
<1>17. ASSUME NEW d \in 0 .. CQSize - 1
       PROVE  CQEntry(d)'.phase = PhaseAt(d)' <=> d < u + 1
  <2>1. CASE d = u
    <3>1. CQEntry(d)'.phase = PhaseAt(d)'
      BY <1>9, <1>10, <2>1
    <3>2. d < u + 1
      BY <1>1, <2>1
    <3>. QED BY <3>1, <3>2
  <2>2. CASE d # u
    <3>1. CQEntry(d)' = CQEntry(d) /\ PhaseAt(d)' = PhaseAt(d)
      BY <1>9, <1>10, <2>2
    <3>2. d < u <=> d < u + 1
      BY <1>1, <2>2
    <3>3. CQEntry(d).phase = PhaseAt(d) <=> d < u
      BY DEF Unread
    <3>. QED BY <3>1, <3>2, <3>3
  <2>. QED BY <2>1, <2>2
<1>18. Unread(u + 1)'
  BY <1>14, <1>15, <1>16, <1>17 DEF Unread
<1>19. Queued(u + 1)'
  <2>1. ASSUME NEW i \in 1 .. n - 1
        PROVE  /\ compQ'[i].slot = Place(hostCqHead, (u + 1) + i - 1)
               /\ compQ'[i].phase = Lap(hostCqHead, hostPhase, (u + 1) + i - 1)
    <3>1. i + 1 \in DOMAIN compQ /\ u + (i + 1) - 1 = (u + 1) + i - 1
      BY <1>1, <1>6
    <3>2. /\ compQ[i + 1].slot = Place(hostCqHead, u + (i + 1) - 1)
          /\ compQ[i + 1].phase = PhaseAt(u + (i + 1) - 1)
      BY <3>1 DEF Queued
    <3>. QED BY <1>7, <3>1, <3>2, Zenon DEF PhaseAt
  <2>2. (u + 1) + (n - 1) = u + n
    BY <1>1
  <2>3. /\ cqTail = Place(hostCqHead, u + n)
        /\ (IF cqTail = 0 THEN ~phaseTag ELSE phaseTag) = PhaseAt(u + n)
    BY <1>6 DEF Queued
  <2>4. /\ cqTail = Place(hostCqHead, (u + 1) + (n - 1))
        /\ (IF cqTail = 0 THEN ~phaseTag ELSE phaseTag) =
             Lap(hostCqHead, hostPhase, (u + 1) + (n - 1))
    BY <2>2, <2>3, Zenon DEF PhaseAt
  <2>. QED BY <1>5, <1>7, <2>1, <2>4, Zenon DEF Queued, PhaseAt
<1>. QED BY <1>8, <1>18, <1>19

\* A step that leaves the host's side and the commands alone leaves the
\* unread completions alone.
LEMMA UnreadSame ==
  ASSUME UNCHANGED <<cqMem, hostCqHead, hostPhase>>, Posted' = Posted,
         NEW u, Unread(u)
  PROVE  Unread(u)'
<1>1. \A d : CQEntry(d)' = CQEntry(d) /\ PhaseAt(d)' = PhaseAt(d)
  BY DEF CQEntry, PhaseAt
<1>. QED BY <1>1 DEF Unread

\* A done thread's completion goes to the place cqTail, with the phase tag
\* of the round that place is reached in.
LEMMA RingPost ==
  ASSUME LargeCQ, IInv, RingInv, TagInv, ReportedOnce,
         NEW t \in Tag, PostCompletion(t), tagQ # <<>> \/ dmaActive # <<>>,
         UNCHANGED <<hostCqHead, hostPhase>>,
         NEW u \in 0 .. CQSize - 1, Unread(u), Queued(u)
  PROVE  Queued(u)'
<1>. DEFINE TLP == [slot : CQIdx, cid : CmdOrNone, phase : BOOLEAN]
            e == [slot |-> cqTail, cid |-> param[t], phase |-> phaseTag']
<1>1. /\ TypeOK /\ hostCqHead \in CQIdx /\ hostPhase \in BOOLEAN
      /\ CQSize \in Nat /\ CQSize > 1 /\ u \in Nat
      /\ compQ \in Seq(TLP)
  BY SizesAssumption DEF IInv, TypeOK, HostTypeOK, TLPTypeOK
<1>. HIDE DEF TLP
<1>2. /\ compQ' = Append(compQ, e)
      /\ e.slot = cqTail /\ e.phase = phaseTag'
      /\ phaseTag' = IF cqTail = 0 THEN ~phaseTag ELSE phaseTag
      /\ cqTail' = (cqTail + 1) % CQSize
  BY DEF PostCompletion, InvertsPhase
<1>. HIDE DEF e
<1>3. PICK n \in Nat : n = Len(compQ) /\ u + n < CQSize /\ DOMAIN compQ = 1 .. n
  <2>1. /\ Len(compQ) \in Nat /\ Len(tagQ) \in Nat /\ Len(dmaActive) \in Nat
        /\ u + Len(compQ) + Len(tagQ) + Len(dmaActive) < CQSize
    BY <1>1, RoomInCQ
  <2>2. DOMAIN compQ = 1 .. Len(compQ)
    BY <1>1, LenProperties
  <2>3. u + Len(compQ) < CQSize
    BY <1>1, <2>1
  <2>. QED BY <2>1, <2>2, <2>3, Zenon
<1>4. /\ DOMAIN compQ' = 1 .. n + 1
      /\ \A i \in 1 .. n : compQ'[i] = compQ[i]
      /\ compQ'[n + 1] = e
  BY <1>1, <1>2, <1>3, AppendElements
<1>5. Len(compQ') = n + 1
  <2>1. compQ \in Seq(TLP \cup {e}) /\ e \in TLP \cup {e}
    BY <1>1, SeqMonotonic
  <2>. QED BY <1>2, <1>3, <2>1, AppendProperties
<1>6. /\ cqTail = Place(hostCqHead, u + n)
      /\ phaseTag' = Lap(hostCqHead, hostPhase, u + n)
  <2>1. /\ cqTail = Place(hostCqHead, u + n)
        /\ (IF cqTail = 0 THEN ~phaseTag ELSE phaseTag) = PhaseAt(u + n)
    BY <1>3 DEF Queued
  <2>. QED BY <1>2, <2>1, Zenon DEF PhaseAt
<1>7. ASSUME NEW i \in 1 .. n + 1
      PROVE  /\ compQ'[i].slot = Place(hostCqHead, u + i - 1)
             /\ compQ'[i].phase = Lap(hostCqHead, hostPhase, u + i - 1)
  <2>1. CASE i = n + 1
    <3>1. u + i - 1 = u + n
      BY <1>1, <2>1
    <3>. QED BY <1>2, <1>4, <1>6, <2>1, <3>1, Zenon
  <2>2. CASE i # n + 1
    <3>1. i \in 1 .. n
      BY <2>2
    <3>2. compQ[i].slot = Place(hostCqHead, u + i - 1) /\ compQ[i].phase = PhaseAt(u + i - 1)
      BY <1>3, <3>1 DEF Queued
    <3>. QED BY <1>4, <3>1, <3>2, Zenon DEF PhaseAt
  <2>. QED BY <2>1, <2>2
<1>8. /\ cqTail' = Place(hostCqHead, u + (n + 1))
      /\ Lap(hostCqHead, hostPhase, u + (n + 1)) =
           IF cqTail' = 0 THEN ~phaseTag' ELSE phaseTag'
  <2>1. PICK d \in 0 .. CQSize - 1 : d = u + n
    <3>1. u + n \in 0 .. CQSize - 1
      BY <1>1, <1>3
    <3>. QED BY <3>1
  <2>2. u + (n + 1) = d + 1
    BY <1>1, <2>1
  <2>3. /\ (Place(hostCqHead, d) + 1) % CQSize = Place(hostCqHead, d + 1)
        /\ Lap(hostCqHead, hostPhase, d + 1) =
             IF Place(hostCqHead, d + 1) = 0 THEN ~Lap(hostCqHead, hostPhase, d)
                                             ELSE Lap(hostCqHead, hostPhase, d)
    BY <1>1, NextPlace
  <2>4. cqTail' = Place(hostCqHead, d + 1)
    BY <1>2, <1>6, <2>1, <2>3
  <2>. QED BY <1>6, <2>1, <2>2, <2>3, <2>4, Zenon
<1>. QED BY <1>4, <1>5, <1>7, <1>8, Zenon DEF Queued, PhaseAt

\* Commands wait to be seen from their release until the host's next look.
LEMMA PostedSame ==
  ASSUME IInv, RingInv, TagInv, [Next]_vars, ~HostReapCQ, ~ArbiterSendsComp
  PROVE  Posted' = Posted
<1>1. completed' = completed
  BY OnlyHostReaps
<1>2. TypeOK
  BY DEF IInv
<1>3. CASE processCompletionTLPCmd
  <2>1. /\ ActiveCmds' = ActiveCmds \cup {Accepted + 1}
        /\ Accepted' = Accepted + 1 /\ Accepted \in Nat
    BY <1>3, AcceptActive, RingNumbers
  <2>2. ASSUME NEW c \in Cmd
        PROVE  c <= Accepted' /\ c \notin ActiveCmds' <=> c <= Accepted /\ c \notin ActiveCmds
    <3>1. c \in Int
      BY SizesAssumption DEF Cmd
    <3>2. c <= Accepted + 1 /\ c # Accepted + 1 <=> c <= Accepted
      BY <2>1, <3>1
    <3>. QED BY <2>1, <3>2
  <2>. QED BY <1>1, <2>2 DEF Posted
<1>4. CASE ~processCompletionTLPCmd
  <2>1. ActiveCmds' = ActiveCmds /\ Accepted' = Accepted
    BY <1>2, <1>4, OthersActive, PositionsStep
  <2>. QED BY <1>1, <2>1 DEF Posted
<1>. QED BY <1>3, <1>4

\* The ring's part of the inductive step.
LEMMA CompletionRingStep ==
  ASSUME LargeCQ, IInv, RingInv, TagInv, ServiceInv, [Next]_vars
  PROVE  CompletionRing'
<1>1. ReportedOnce /\ TypeOK
  BY DEF ServiceInv, IInv
<1>2. PICK u \in 0 .. CQSize - 1 : Unread(u) /\ Queued(u)
  BY DEF ServiceInv, CompletionRing
<1>3. CASE HostReapCQ
  <2>1. u - 1 \in 0 .. CQSize - 1 /\ Unread(u - 1)' /\ Queued(u - 1)'
    BY <1>1, <1>2, <1>3, RingReap
  <2>2. PICK k \in 0 .. CQSize - 1 : k = u - 1
    BY <2>1
  <2>3. Unread(k)' /\ Queued(k)'
    BY <2>1, <2>2 DEF Unread, Queued
  <2>. QED BY <2>3 DEF CompletionRing
<1>4. CASE ArbiterSendsComp
  <2>1. u + 1 \in 0 .. CQSize - 1 /\ Unread(u + 1)' /\ Queued(u + 1)'
    BY <1>1, <1>2, <1>4, RingSend
  <2>2. PICK k \in 0 .. CQSize - 1 : k = u + 1
    BY <2>1
  <2>3. Unread(k)' /\ Queued(k)'
    BY <2>1, <2>2 DEF Unread, Queued
  <2>. QED BY <2>3 DEF CompletionRing
<1>5. CASE ~HostReapCQ /\ ~ArbiterSendsComp
  <2>1. UNCHANGED <<cqMem, hostCqHead, hostPhase>>
    <3>1. \/ HostSubmit \/ writeSQ1TDBLReg \/ writeCQ1HDBLReg
          \/ processCompletionTLPCmd \/ ArbiterSendsRdCmd
          \/ ArbiterSendsRdData \/ ArbiterSendsWrData
          \/ UNCHANGED hostVars
      BY <1>5, WhoChanges
    <3>. QED BY <3>1 DEF HostSubmit, writeSQ1TDBLReg, writeCQ1HDBLReg,
         processCompletionTLPCmd, ArbiterSendsRdCmd, ArbiterSendsRdData,
         ArbiterSendsWrData, hostVars
  <2>2. Unread(u)'
    BY <1>2, <1>5, <2>1, PostedSame, UnreadSame
  <2>3. Queued(u)'
    <3>1. CASE WriteCmdDone
      <4>1. tagQ # <<>> /\ PostCompletion(Head(tagQ))
        BY <3>1 DEF WriteCmdDone
      <4>2. Head(tagQ) \in Tag
        BY <1>1, <4>1, TagTypes, HeadTailProperties
      <4>3. PICK t \in Tag : t = Head(tagQ)
        BY <4>2
      <4>4. PostCompletion(t)
        BY <4>1, <4>3 DEF PostCompletion
      <4>. QED BY <1>1, <1>2, <2>1, <4>1, <4>4, RingPost
    <3>2. CASE ReadDone
      <4>1. dmaActive # <<>> /\ PostCompletion(Head(dmaActive))
        BY <3>2 DEF ReadDone
      <4>2. Head(dmaActive) \in Tag
        BY <1>1, <4>1, TagTypes, HeadTailProperties
      <4>3. PICK t \in Tag : t = Head(dmaActive)
        BY <4>2
      <4>4. PostCompletion(t)
        BY <4>1, <4>3 DEF PostCompletion
      <4>. QED BY <1>1, <1>2, <2>1, <4>1, <4>4, RingPost
    <3>3. CASE ~WriteCmdDone /\ ~ReadDone
      <4>1. compQ' = compQ
        <5>1. \/ MemReadReqCmdFetches
              \/ \E q \in Slot : RequestWriteData(q) \/ MemReadCompletion(q)
              \/ ArbiterSkips \/ ArbiterSendsRdCmd \/ ArbiterSendsRdData
              \/ ArbiterSendsWrData \/ UNCHANGED tlpVars
          BY <1>5, <3>3, WhoChanges
        <5>. QED BY <5>1 DEF MemReadReqCmdFetches, RequestWriteData,
             MemReadCompletion, ArbiterSkips, ArbiterSendsRdCmd,
             ArbiterSendsRdData, ArbiterSendsWrData, tlpVars
      <4>2. UNCHANGED <<cqTail, phaseTag>>
        <5>1. \/ writeCQ1HDBLReg
              \/ \E q \in Slot : PendingWriteCmd(q) \/ MemReadCompletion(q)
              \/ UNCHANGED doneVars
          BY <1>5, <3>3, WhoChanges
        <5>. QED BY <5>1 DEF writeCQ1HDBLReg, PendingWriteCmd,
             MemReadCompletion, doneVars
      <4>. QED BY <1>2, <2>1, <4>1, <4>2 DEF Queued, PhaseAt
    <3>. QED BY <3>1, <3>2, <3>3
  <2>. QED BY <2>2, <2>3 DEF CompletionRing
<1>. QED BY <1>3, <1>4, <1>5

\* The host's part of the inductive step.
LEMMA ReportedOnceStep ==
  ASSUME LargeCQ, IInv, RingInv, TagInv, ServiceInv, [Next]_vars
  PROVE  ReportedOnce'
<1>1. /\ ReportedOnce /\ TypeOK /\ submitted \in Nat
      /\ completed \in [Cmd -> Nat] /\ ActiveCmds \subseteq Cmd
  BY ActiveCount, FetchNumbers DEF ServiceInv, IInv, TypeOK, HostTypeOK
<1>2. /\ IsFiniteSet(Reported) /\ Cardinality(Reported) \in Nat
      /\ Outstanding = submitted - Cardinality(Reported)
      /\ Outstanding' = submitted' - Cardinality(Reported')
  <2>1. IsFiniteSet(Cmd)
    BY SizesAssumption, FS_Interval DEF Cmd
  <2>2. IsFiniteSet(Reported)
    BY <2>1, FS_Subset DEF Reported
  <2>. QED BY <2>2, FS_CardinalityType DEF Outstanding, Reported
<1>3. CASE HostReapCQ
  <2>1. PICK u \in 0 .. CQSize - 1 : Unread(u)
    BY DEF ServiceInv, CompletionRing
  <2>2. PICK c \in Posted : c = cqMem[hostCqHead].cid
    BY <1>1, <1>3, <2>1, ReapsPosted
  <2>3. /\ c \in Cmd /\ c \notin ActiveCmds /\ completed[c] = 0
        /\ completed' = [completed EXCEPT ![c] = 1]
        /\ ActiveCmds' = ActiveCmds
    BY <1>1, <1>3, <2>2, ReapCommands
  <2>4. \A x \in Cmd : completed'[x] = IF x = c THEN 1 ELSE completed[x]
    BY <1>1, <2>3
  <2>5. \A x \in Cmd : completed'[x] <= 1
    BY <1>1, <2>4 DEF ReportedOnce
  <2>6. \A x \in ActiveCmds' : completed'[x] = 0
    BY <1>1, <2>3, <2>4 DEF ReportedOnce
  <2>7. Reported' = Reported \cup {c} /\ c \notin Reported
    BY <2>3, <2>4 DEF Reported
  <2>8. Cardinality(Reported') = Cardinality(Reported) + 1
    BY <1>2, <2>7, FS_AddElement
  <2>9. submitted' = submitted
    BY <1>3 DEF HostReapCQ
  <2>10. Outstanding' < SQSize
    BY <1>1, <1>2, <2>8, <2>9, SizesAssumption DEF ReportedOnce
  <2>. QED BY <2>5, <2>6, <2>10 DEF ReportedOnce
<1>4. CASE ~HostReapCQ
  <2>1. completed' = completed /\ Reported' = Reported
    BY <1>4, OnlyHostReaps DEF Reported
  <2>2. \A x \in ActiveCmds' : completed[x] = 0
    <3>1. CASE processCompletionTLPCmd
      <4>1. /\ ActiveCmds' = ActiveCmds \cup {Accepted + 1}
            /\ Accepted + 1 \in Cmd /\ Accepted \in Nat
        BY <3>1, AcceptActive, RingNumbers
      <4>2. ~(completed[Accepted + 1] > 0)
        BY <4>1 DEF RingInv, OnlyAccepted
      <4>3. completed[Accepted + 1] = 0
        BY <1>1, <4>1, <4>2
      <4>. QED BY <1>1, <4>1, <4>3 DEF ReportedOnce
    <3>2. CASE ArbiterSendsComp
      BY <1>1, <3>2, ReleaseActive DEF ReportedOnce
    <3>3. CASE ~processCompletionTLPCmd /\ ~ArbiterSendsComp
      BY <1>1, <3>3, OthersActive DEF ReportedOnce
    <3>. QED BY <3>1, <3>2, <3>3
  <2>3. Outstanding' < SQSize
    <3>1. CASE HostSubmit
      <4>1. submitted' = submitted + 1 /\ Outstanding < SQSize - 1
        BY <3>1 DEF HostSubmit
      <4>. QED BY <1>1, <1>2, <2>1, <4>1, SizesAssumption
    <3>2. CASE ~HostSubmit
      <4>1. submitted' = submitted
        <5>1. \/ writeSQ1TDBLReg \/ writeCQ1HDBLReg
              \/ processCompletionTLPCmd \/ ArbiterSendsRdCmd
              \/ ArbiterSendsRdData \/ ArbiterSendsWrData \/ ArbiterSendsComp
              \/ UNCHANGED hostVars
          BY <1>4, <3>2, WhoChanges
        <5>. QED BY <5>1 DEF writeSQ1TDBLReg, writeCQ1HDBLReg,
             processCompletionTLPCmd, ArbiterSendsRdCmd, ArbiterSendsRdData,
             ArbiterSendsWrData, ArbiterSendsComp, hostVars
      <4>. QED BY <1>1, <1>2, <2>1, <4>1 DEF ReportedOnce
    <3>. QED BY <3>1, <3>2
  <2>. QED BY <1>1, <2>1, <2>2, <2>3 DEF ReportedOnce
<1>. QED BY <1>3, <1>4

\* In the beginning the ring is empty and no command was submitted.
LEMMA ServiceInit == Init => ServiceInv
<1>. SUFFICES ASSUME Init PROVE ServiceInv
  OBVIOUS
<1>1. /\ submitted = 0 /\ sqHead = 0 /\ fetchResp.left = 0 /\ rdCmdQ = <<>>
      /\ cqMem = [i \in CQIdx |-> [cid |-> NoCmd, phase |-> FALSE]]
      /\ hostCqHead = 0 /\ hostPhase = TRUE
      /\ completed = [c \in Cmd |-> 0]
      /\ tagTable = [t \in Tag |-> FALSE]
      /\ compQ = <<>> /\ cqTail = 0 /\ phaseTag = FALSE
  BY DEF Init, HostInit, TLPInit, TableInit, DoneInit, NoFetch
<1>2. Accepted = 0
  <2>1. (submitted - sqHead) % SQSize = 0
    BY <1>1, SizesAssumption
  <2>2. InFetch = 0
    BY <1>1 DEF InFetch
  <2>. QED BY <1>1, <2>1, <2>2 DEF Accepted
<1>3. ActiveCmds = {} /\ Reported = {} /\ Posted = {}
  BY <1>1, <1>2, SizesAssumption DEF ActiveCmds, BusyTags, Reported, Posted, Cmd
<1>4. hostCqHead \in CQIdx /\ 0 \in 0 .. CQSize - 1 /\ CQSize \in Nat
  BY <1>1, SizesAssumption DEF CQIdx
<1>5. ASSUME NEW d \in 0 .. CQSize - 1
      PROVE  CQEntry(d).phase # PhaseAt(d) /\ ~(d < 0)
  <2>1. Place(hostCqHead, d) \in CQIdx
    BY <1>1, <1>4, Places
  <2>2. CQEntry(d).phase = FALSE
    BY <1>1, <2>1 DEF CQEntry
  <2>3. hostCqHead + d < CQSize /\ ~(d < 0)
    BY <1>1, <1>4
  <2>4. PhaseAt(d) = TRUE
    BY <1>1, <2>3, Zenon DEF PhaseAt, Lap
  <2>. QED BY <2>2, <2>3, <2>4
<1>6. Unread(0)
  <2>1. 0 .. 0 - 1 = {}
    OBVIOUS
  <2>. QED BY <1>3, <1>5, <2>1 DEF Unread
<1>7. Queued(0)
  <2>1. DOMAIN compQ = {} /\ 0 + Len(compQ) = 0
    BY <1>1
  <2>2. Place(hostCqHead, 0) = 0 /\ PhaseAt(0) = TRUE
    BY <1>1, <1>4, Places DEF PhaseAt
  <2>. QED BY <1>1, <2>1, <2>2 DEF Queued
<1>8. ReportedOnce
  <2>1. Outstanding = 0
    BY <1>1, <1>3, FS_EmptySet DEF Outstanding, Reported
  <2>. QED BY <1>1, <1>3, <2>1, SizesAssumption DEF ReportedOnce
<1>. QED BY <1>4, <1>6, <1>7, <1>8 DEF ServiceInv, CompletionRing

(***************************************************************************)
(* The theorems.                                                           *)
(***************************************************************************)

\* The invariant of the completion ring.  The host finds the completions in
\* the order in which the arbiter sent them, and there is always room: what
\* is unread and what is held are different commands the host has out.
THEOREM ServiceInvariance ==
  ASSUME LargeCQ
  PROVE  Spec => []ServiceInv
<1>1. Init => ServiceInv
  BY ServiceInit
<1>2. IInv /\ RingInv /\ TagInv /\ ServiceInv /\ [Next]_vars => ServiceInv'
  BY CompletionRingStep, ReportedOnceStep DEF ServiceInv
<1>. QED BY <1>1, <1>2, Invariance, RingInvariance, TagInvariance, PTL DEF Spec

\* While a completion was sent and not seen, the entry at the host's head
\* carries the phase tag the host looks for: none is overwritten unread and
\* writeCmdDoneThread and readDoneThread invert the tag where the ring starts.
THEOREM CompletionsVisible ==
  ASSUME LargeCQ
  PROVE  Spec => []PostedIsVisible
<1>1. TypeOK /\ ServiceInv => PostedIsVisible
  <2>. SUFFICES ASSUME TypeOK, ServiceInv, NEW c \in Posted
                PROVE  cqMem[hostCqHead].phase = hostPhase
    BY DEF PostedIsVisible
  <2>1. PICK u \in 0 .. CQSize - 1 : Unread(u)
    BY DEF ServiceInv, CompletionRing
  <2>2. hostCqHead \in CQIdx /\ hostPhase \in BOOLEAN
    BY DEF TypeOK, HostTypeOK
  <2>3. /\ CQSize \in Nat /\ CQSize > 1
        /\ Place(hostCqHead, 0) = hostCqHead /\ Lap(hostCqHead, hostPhase, 0) = hostPhase
    BY <2>2, Places
  <2>4. PICK d \in 0 .. u - 1 : CQEntry(d).cid = c
    BY <2>1 DEF Unread
  <2>5. 0 < u /\ 0 \in 0 .. CQSize - 1
    BY <2>3, <2>4
  <2>6. CQEntry(0).phase = PhaseAt(0)
    BY <2>1, <2>5 DEF Unread
  <2>. QED BY <2>3, <2>6, Zenon DEF CQEntry, PhaseAt
<1>. QED BY <1>1, TypeCorrect, ServiceInvariance, PTL

\* A step of the controller and its host is a step of the service or none.
LEMMA ServiceStep ==
  ASSUME LargeCQ, IInv, RingInv, TagInv, ServiceInv, [Next]_vars
  PROVE  [Service!Next]_(Service!vars)
<1>1. TypeOK /\ ReportedOnce
  BY DEF IInv, ServiceInv
<1>2. CASE HostSubmit
  <2>1. /\ submitted < NumCmds /\ submitted' = submitted + 1
        /\ UNCHANGED <<completed, token, fetchResp>>
    BY <1>2 DEF HostSubmit, tlpVars
  <2>2. ~processCompletionTLPCmd
    <3>1. submitted + 1 # submitted
      BY FetchNumbers
    <3>. QED BY <2>1, <3>1 DEF processCompletionTLPCmd
  <2>3. ~ArbiterSendsComp
    <3>1. (WR_COMP + 1) % 4 # WR_COMP
      BY DEF WR_COMP
    <3>. QED BY <2>1, <3>1 DEF ArbiterSendsComp, ArbiterTurn
  <2>4. ActiveCmds' = ActiveCmds /\ Accepted' = Accepted
    BY <1>1, <2>2, <2>3, OthersActive, PositionsStep
  <2>5. Service!Submit
    BY <2>1, <2>4 DEF Service!Submit
  <2>. QED BY <2>5 DEF Service!Next
<1>3. CASE processCompletionTLPCmd
  <2>1. /\ ActiveCmds' = ActiveCmds \cup {Accepted + 1}
        /\ Accepted' = Accepted + 1 /\ hCmdQSize # QueueSize
        /\ Accepted < submitted
    BY <1>3, AcceptActive, RingAccept
  <2>2. Cardinality(ActiveCmds) < QueueSize
    BY <1>1, <2>1, ActiveCount, SizesAssumption
  <2>3. UNCHANGED <<submitted, completed>>
    BY <1>3 DEF processCompletionTLPCmd
  <2>4. Service!Accept
    <3>1. Service!Cardinality(ActiveCmds) = Cardinality(ActiveCmds)
      BY DEF Service!Cardinality, Cardinality
    <3>. QED BY <2>1, <2>2, <2>3, <3>1 DEF Service!Accept
  <2>. QED BY <2>4 DEF Service!Next
<1>4. CASE ArbiterSendsComp
  <2>1. PICK c \in ActiveCmds : ActiveCmds' = ActiveCmds \ {c}
    BY <1>1, <1>4, ReleaseActive
  <2>2. c \in Cmd
    BY <1>1, ActiveCount
  <2>3. UNCHANGED <<submitted, completed>>
    BY <1>4 DEF ArbiterSendsComp
  <2>4. ~processCompletionTLPCmd
    <3>1. (WR_COMP + 1) % 4 # WR_COMP
      BY DEF WR_COMP
    <3>. QED BY <1>4, <3>1 DEF ArbiterSendsComp, ArbiterTurn,
         processCompletionTLPCmd, tlpVars
  <2>5. Accepted' = Accepted
    BY <2>4, PositionsStep
  <2>6. Service!Release(c)
    BY <2>1, <2>3, <2>5 DEF Service!Release
  <2>. QED BY <2>2, <2>6 DEF Service!Next, Service!Cmd, Cmd
<1>5. CASE HostReapCQ
  <2>1. PICK u \in 0 .. CQSize - 1 : Unread(u)
    BY DEF ServiceInv, CompletionRing
  <2>2. PICK c \in Posted : c = cqMem[hostCqHead].cid
    BY <1>1, <1>5, <2>1, ReapsPosted
  <2>3. /\ c \in Cmd /\ c \notin ActiveCmds /\ c <= Accepted /\ completed[c] = 0
        /\ completed' = [completed EXCEPT ![c] = 1]
        /\ ActiveCmds' = ActiveCmds /\ Accepted' = Accepted
    BY <1>1, <1>5, <2>2, ReapCommands
  <2>4. submitted' = submitted
    BY <1>5 DEF HostReapCQ
  <2>5. Service!Deliver(c)
    BY <2>3, <2>4 DEF Service!Deliver
  <2>. QED BY <2>3, <2>5 DEF Service!Next, Service!Cmd, Cmd
<1>6. CASE /\ ~HostSubmit /\ ~processCompletionTLPCmd
           /\ ~ArbiterSendsComp /\ ~HostReapCQ
  <2>1. submitted' = submitted /\ completed' = completed
    <3>1. \/ writeSQ1TDBLReg \/ writeCQ1HDBLReg \/ ArbiterSendsRdCmd
          \/ ArbiterSendsRdData \/ ArbiterSendsWrData \/ UNCHANGED hostVars
      BY <1>6, WhoChanges
    <3>. QED BY <3>1 DEF writeSQ1TDBLReg, writeCQ1HDBLReg,
         ArbiterSendsRdCmd, ArbiterSendsRdData, ArbiterSendsWrData, hostVars
  <2>2. ActiveCmds' = ActiveCmds /\ Accepted' = Accepted
    BY <1>1, <1>6, OthersActive, PositionsStep
  <2>. QED BY <2>1, <2>2 DEF Service!vars
<1>. QED BY <1>2, <1>3, <1>4, <1>5, <1>6

\* The controller implements the command service: commands are accepted in
\* the order of submission, at most QueueSize are held, each is released and
\* then reported once.
THEOREM ImplementsService ==
  ASSUME LargeCQ
  PROVE  Spec => ServiceSpec
<1>1. Init => Service!Init
  <2>. SUFFICES ASSUME Init PROVE Service!Init
    OBVIOUS
  <2>1. submitted = 0 /\ completed = [c \in Cmd |-> 0]
    BY DEF Init, HostInit
  <2>2. ActiveCmds = {}
    BY DEF Init, TableInit, ActiveCmds, BusyTags
  <2>3. Accepted = 0
    <3>1. sqHead = 0 /\ fetchResp.left = 0 /\ rdCmdQ = <<>>
      BY DEF Init, HostInit, TLPInit, NoFetch
    <3>2. (submitted - sqHead) % SQSize = 0
      BY <2>1, <3>1, SizesAssumption
    <3>3. InFetch = 0
      BY <3>1 DEF InFetch
    <3>. QED BY <2>1, <3>2, <3>3 DEF Accepted
  <2>. QED BY <2>1, <2>2, <2>3 DEF Service!Init, Service!Cmd, Cmd
<1>2. IInv /\ RingInv /\ TagInv /\ ServiceInv /\ [Next]_vars
        => [Service!Next]_(Service!vars)
  BY ServiceStep
<1>. QED BY <1>1, <1>2, Invariance, RingInvariance, TagInvariance,
     ServiceInvariance, PTL DEF Spec, ServiceSpec, Service!Spec

===============================================================================
