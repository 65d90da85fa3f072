----------------------------- MODULE DimmService -----------------------------
(***************************************************************************)
(* What the DIMM memory controller promises its host: a command written    *)
(* into an idle slot is worked on, becomes done once, and stays done until *)
(* the host reads the completion; only then is the slot idle again.        *)
(***************************************************************************)
EXTENDS Integers

CONSTANT Slots

\* slot[s]: number of its last command (commands are numbered in the order they
\* are written) and what became of it
VARIABLE slot

Init == slot = [s \in Slots |-> [id |-> 0, state |-> "idle"]]

\* The host writes a new command, number id, into an idle slot.
Accept(s, id) ==
  /\ slot[s].state = "idle"
  /\ id > slot[s].id
  /\ slot' = [slot EXCEPT ![s] = [id |-> id, state |-> "busy"]]

Finish(s) ==
  /\ slot[s].state = "busy"
  /\ slot' = [slot EXCEPT ![s].state = "done"]

\* The host reads the completions of some slots.
Collect ==
  \E S \in SUBSET {s \in Slots : slot[s].state = "done"} :
    slot' = [s \in Slots |-> IF s \in S THEN [slot[s] EXCEPT !.state = "idle"]
                             ELSE slot[s]]

Next == Collect \/ \E s \in Slots : Accept(s, slot'[s].id) \/ Finish(s)

Spec == Init /\ [][Next]_slot
=============================================================================
