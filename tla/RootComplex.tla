----------------------------- MODULE RootComplex -----------------------------
(***************************************************************************)
(* pcieRC: the root complex between the controller's link and the system   *)
(* memory.  TLPs from the controller are queued by kind; one thread reads  *)
(* the memory and answers with completion TLPs, the other writes to it.    *)
(*                                                                         *)
(* A TLP is a record: a fetch [first, len] of submission queue entries, a  *)
(* data read [buf, word] (buffer in its tag, sub-command whose data its    *)
(* address names), or a data write [word, data].                           *)
(***************************************************************************)
EXTENDS RRAMDevice

CONSTANTS SqSize    \* entries of the submission queue

ASSUME RootComplexAssumption == SqSize \in Nat \ {0}

TlpQueue == {"MEM_READ_CMD_Q", "MEM_READ_DATA_Q",
             "MEM_WRITE_DATA_Q", "MEM_WRITE_COMP_Q"}

RcForDut    == <<"pcieRCThreadForDut", 0>>
RcForSysMem == <<"pcieRCThreadForSysMem", 0>>
RcThread == {RcForDut, RcForSysMem}

Untouched == <<0>>    \* host memory before data arrives

VARIABLES
  rcQueue,     \* mTLPQueueMgr of the root complex
  rcToken,     \* its mArbiterToken, shared by the two threads
  rc,          \* locals of the two threads
  hostData     \* data each read sub-command has left in system memory

rcVars == <<rcQueue, rcToken, rc, hostData>>

\* The constructor leaves mArbiterToken uninitialised.  Above 1 both arbiters
\* end without a value, which is undefined; a build that takes the second
\* branch for it acts as with 1.
RcInit(words) ==
  /\ rcQueue = [q \in TlpQueue |-> <<>>]
  /\ rcToken \in {0, 1}
  /\ rc = [p \in RcThread |-> [at |-> "top", tlp |-> <<>>]]
  /\ hostData = [w \in words |-> Untouched]

QueuesOf(p) ==
  IF p = RcForDut THEN <<"MEM_READ_CMD_Q", "MEM_READ_DATA_Q">>
  ELSE <<"MEM_WRITE_DATA_Q", "MEM_WRITE_COMP_Q">>

\* The event that announces a TLP of queue q, once the link has passed it on.
RcEvent(q) ==
  IF q \in {"MEM_READ_CMD_Q", "MEM_READ_DATA_Q"}
  THEN <<"mMemRdReqTlpQ", 0>> ELSE <<"mMemWrReqTlpQ", 0>>

RcFirstWait(p) == {RcEvent(QueuesOf(p)[1])}

\* cntrl_b_transport: the TLP is queued before the caller waits for the link.
cntrl_b_transport(q, tlp) ==
  /\ rcQueue' = [rcQueue EXCEPT ![q] = Append(@, tlp)]
  /\ UNCHANGED <<rcToken, rc, hostData>>

RcSleeps(p) ==
  /\ Turn(p) /\ rc[p].at = "top"
  /\ \A i \in {1, 2} : rcQueue[QueuesOf(p)[i]] = <<>>
  /\ Wait(p, RcFirstWait(p))
  /\ UNCHANGED <<rcVars, pending, peq>>

\* Mutant: each thread leaves the token to the other.
SameToken(t) == t

\* A turn of queueArbiterForDut or queueArbiterForSysMem moves the token.
NextToken(t) == 1 - t

\* A turn that finds its queue empty is followed by another at once.  A data
\* write is in memory when send2Mem has been called, and both threads then
\* wait for the memory.
RcTurn(p) ==
  LET q == QueuesOf(p)[rcToken + 1] IN
  /\ Turn(p) /\ rc[p].at = "top"
  /\ \E i \in {1, 2} : rcQueue[QueuesOf(p)[i]] # <<>>
  /\ rcToken' = NextToken(rcToken)
  /\ IF rcQueue[q] = <<>>
     THEN /\ GoOn(p)
          /\ UNCHANGED <<rcQueue, rc, hostData, peq>>
     ELSE LET tlp == Head(rcQueue[q]) IN
          /\ rcQueue' = [rcQueue EXCEPT ![q] = Tail(@)]
          /\ rc' = [rc EXCEPT ![p] = [at |-> "memory", tlp |-> tlp]]
          /\ hostData' = IF q = "MEM_WRITE_DATA_Q"
                         THEN [hostData EXCEPT ![tlp.word] = tlp.data] ELSE hostData
          /\ Sleep(p, "send2Mem")
  /\ UNCHANGED pending

\* pcieRCThreadForSysMem, after the memory's write delay.
RcWritten ==
  LET p == RcForSysMem IN
  /\ Turn(p) /\ rc[p].at = "memory"
  /\ rc' = [rc EXCEPT ![p] = [at |-> "top", tlp |-> <<>>]]
  /\ GoOn(p)
  /\ UNCHANGED <<rcQueue, rcToken, hostData, pending, peq>>

\* CheckNumOfSq: how many of len entries from "first" lie before the end of
\* the submission queue, and whether its end was reached.
CheckNumOfSq(first, len) ==
  IF first + len >= SqSize THEN [num |-> SqSize - first, wrap |-> TRUE]
  ELSE [num |-> len, wrap |-> FALSE]

\* The entries a fetch reads; the rest after a wrap comes from the beginning.
FetchedEntries(first, len) ==
  LET checked == CheckNumOfSq(first, len) IN
  [i \in 1 .. len |->
     IF i <= checked.num THEN first + i - 1
     ELSE i - checked.num - 1]
==============================================================================
