------------------------- MODULE NvmeCommandService -------------------------
(***************************************************************************)
(* What the PCIe/NVMe controller promises the host, with no queue, thread  *)
(* or TLP in sight: commands are accepted in the order of their            *)
(* submission, at most QueueSize of them are held at a time, and each one  *)
(* is released and then reported to the host exactly once.                 *)
(* PCIeCommandPath is shown to implement this module.                      *)
(***************************************************************************)
EXTENDS Integers, FiniteSets

CONSTANTS NumCmds,     \* commands the host submits in one behaviour
          QueueSize    \* commands the controller may hold at a time

VARIABLES submitted,   \* number of commands the host has put in its queue
          accepted,    \* number of them the controller has taken over
          active,      \* the commands the controller holds
          delivered    \* how often the completion of each command was seen

vars == <<submitted, accepted, active, delivered>>

Cmd == 1 .. NumCmds

Init ==
  /\ submitted = 0
  /\ accepted = 0
  /\ active = {}
  /\ delivered = [c \in Cmd |-> 0]

Submit ==
  /\ submitted < NumCmds
  /\ submitted' = submitted + 1
  /\ UNCHANGED <<accepted, active, delivered>>

Accept ==
  /\ accepted < submitted
  /\ Cardinality(active) < QueueSize
  /\ accepted' = accepted + 1
  /\ active' = active \cup {accepted + 1}
  /\ UNCHANGED <<submitted, delivered>>

Release(c) ==
  /\ c \in active
  /\ active' = active \ {c}
  /\ UNCHANGED <<submitted, accepted, delivered>>

Deliver(c) ==
  /\ c <= accepted
  /\ c \notin active
  /\ delivered[c] = 0
  /\ delivered' = [delivered EXCEPT ![c] = 1]
  /\ UNCHANGED <<submitted, accepted, active>>

Next == Submit \/ Accept \/ (\E c \in Cmd : Release(c) \/ Deliver(c))

Spec == Init /\ [][Next]_vars

(***************************************************************************)
(* The host is free not to submit; what it submitted is served.            *)
(***************************************************************************)
FairSpec ==
  /\ Spec
  /\ WF_vars(Accept)
  /\ \A c \in Cmd : WF_vars(Release(c)) /\ WF_vars(Deliver(c))
=============================================================================
