------------------------------- MODULE SystemC -------------------------------
(***************************************************************************)
(* The part of the SystemC kernel the two controllers, the memory device,  *)
(* the root complex and the DIMM test bench rely on.                       *)
(*                                                                         *)
(* A process runs until it waits and nothing else runs in between; which   *)
(* runnable process is next is arbitrary.  A long run is cut into several  *)
(* actions and "running" holds the other processes off until it ends.      *)
(* When no process is runnable the pending zero-time notifications are     *)
(* delivered together; when there are none, time passes and one or more    *)
(* timers expire at the same instant.  A notification nobody waits for at  *)
(* its delivery is lost.                                                   *)
(*                                                                         *)
(* A payload event queue (tlm_utils::peq_with_get, PendingCmdQueueManager, *)
(* sc_event_queue) is a pair: the entries whose time has not come, in the  *)
(* order they expire, and the expired ones that no process has taken.  Its *)
(* event carries its name.  All entries of a queue have the same delay, so *)
(* they expire in the order they were posted.                              *)
(***************************************************************************)
EXTENDS Integers, Sequences, FiniteSets

VARIABLES
  waiting,    \* waiting[p]: the events process p waits for, or waited for last
  runnable,   \* processes that may run in this evaluation phase
  running,    \* the process in the middle of a run, or Nobody
  pending,    \* zero-time notifications to be delivered
  peq         \* peq[q]: [run |-> entries to come, due |-> expired entries]

kernelVars == <<waiting, runnable, running, pending, peq>>

Nobody == <<"nobody", 0>>
EmptyPeq == [run |-> <<>>, due |-> <<>>]

Turn(p) == p \in runnable /\ running \in {p, Nobody}

Woken(E) == {p \in DOMAIN waiting : waiting[p] \cap E # {}}

\* wait(e1 | e2 | ...) and next_trigger, after the events in now were
\* notified at once (sc_event::notify()).
WaitAfter(p, E, now) ==
  /\ waiting' = [waiting EXCEPT ![p] = E]
  /\ runnable' = (runnable \cup Woken(now)) \ {p}
  /\ running' = Nobody
Wait(p, E) == WaitAfter(p, E, {})

\* The run of p goes on in a later action.
GoOnAfter(p, now) ==
  /\ running' = p /\ runnable' = runnable \cup Woken(now)
  /\ UNCHANGED waiting
GoOn(p) == GoOnAfter(p, {})

\* wait(time): the timer of p is the queue of its name.
Sleep(p, reason) ==
  /\ peq' = [peq EXCEPT ![p] = [run |-> <<reason>>, due |-> <<>>]]
  /\ Wait(p, {p})

Notify(E) == pending' = pending \cup E

\* Queue operations: notify(entry, delay), notify(entry, 0), and taking the
\* first expired entry.
Post(pq, q, x) == [pq EXCEPT ![q].run = Append(@, x)]
PostNow(pq, q, x) == [pq EXCEPT ![q].due = Append(@, x)]
Take(pq, q) == [pq EXCEPT ![q].due = Tail(@)]

Delta ==
  /\ runnable = {} /\ pending # {}
  /\ runnable' = Woken(pending)
  /\ pending' = {}
  /\ UNCHANGED <<waiting, running, peq>>

Timers == {q \in DOMAIN peq : peq[q].run # <<>>}

\* The first entries of the queues in S expire at the same instant.
Expire(S) ==
  /\ runnable = {} /\ pending = {}
  /\ peq' = [q \in DOMAIN peq |->
       IF q \in S
       THEN [run |-> Tail(peq[q].run),
             due |-> Append(peq[q].due, Head(peq[q].run))]
       ELSE peq[q]]
  /\ runnable' = Woken(S)
  /\ UNCHANGED <<waiting, running, pending>>
==============================================================================
