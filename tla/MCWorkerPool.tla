----------------------------- MODULE MCWorkerPool -----------------------------
(***************************************************************************)
(* Small instances of WorkerPool for TLC.                                  *)
(***************************************************************************)
EXTENDS WorkerPool, TLC

CONSTANTS i1, i2, a1, a2, w1, p1, p2, h1, h2

OneWorkspace == {w1}
IssuesInOne == [i \in Issues |-> w1]
AgentsInOne == [a \in Agents |-> w1]
TwoTries == [a \in Agents |-> 2]
OneTry == [a \in Agents |-> 1]
StaysOpen == [w \in {w1} |-> FALSE]

\* Issues, agents, workers and handlers are interchangeable.
Symmetry == Permutations({i1, i2}) \cup Permutations({a1, a2}) \cup Permutations({p1, p2})
            \cup Permutations({h1, h2})
=============================================================================
