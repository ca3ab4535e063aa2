------------------------------ MODULE IssueSlots ------------------------------
(***************************************************************************)
(* What the run queue promises, without its tables: every issue is a slot  *)
(* that serves at most one run at a time.  A submitted run waits, may be   *)
(* served, may go back to waiting for a retry, and is closed exactly once; *)
(* a closed run never waits and is never served again.                     *)
(***************************************************************************)
EXTENDS Naturals

CONSTANTS RunIds, Issues

Idle == 0

VARIABLES
  waiting,  \* runs submitted and not being served
  serving,  \* per issue, the run its slot serves, or Idle
  closed    \* runs that are over, for whatever reason

slotVars == <<waiting, serving, closed>>

Served == {serving[i] : i \in Issues} \ {Idle}

Busy == {i \in Issues : serving[i] # Idle}

Fresh == RunIds \ (waiting \cup closed \cup Served)

SlotInit ==
  /\ waiting = {}
  /\ serving = [i \in Issues |-> Idle]
  /\ closed = {}

Submit(r) ==
  /\ r \in Fresh
  /\ waiting' = waiting \cup {r}
  /\ UNCHANGED <<serving, closed>>

Serve(i, r) ==
  /\ serving[i] = Idle
  /\ r \in waiting
  /\ waiting' = waiting \ {r}
  /\ serving' = [serving EXCEPT ![i] = r]
  /\ UNCHANGED closed

\* The served run ends, and may submit one follow-up run as it does.
Close(i, followUps) ==
  /\ serving[i] # Idle
  /\ followUps \subseteq Fresh
  /\ \A r, q \in followUps : r = q
  /\ waiting' = waiting \cup followUps
  /\ serving' = [serving EXCEPT ![i] = Idle]
  /\ closed' = closed \cup {serving[i]}

Requeue(i) ==
  /\ serving[i] # Idle
  /\ waiting' = waiting \cup {serving[i]}
  /\ serving' = [serving EXCEPT ![i] = Idle]
  /\ UNCHANGED closed

\* Runs are withdrawn in bulk: waiting ones, served ones, or both.
Withdraw(W, I) ==
  /\ waiting' = waiting \ W
  /\ serving' = [i \in Issues |-> IF i \in I THEN Idle ELSE serving[i]]
  /\ closed' = closed \cup W \cup {serving[i] : i \in I}

SlotNext ==
  \/ \E r \in RunIds : Submit(r)
  \/ \E i \in Issues, r \in RunIds : Serve(i, r)
  \/ \E i \in Issues : Close(i, {})
  \/ \E i \in Issues, q \in RunIds : Close(i, {q})
  \/ \E i \in Issues : Requeue(i)
  \/ \E W \in SUBSET waiting, I \in SUBSET Busy : Withdraw(W, I)

SlotSpec == SlotInit /\ [][SlotNext]_slotVars
=============================================================================
