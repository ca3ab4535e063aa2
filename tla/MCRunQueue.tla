------------------------------ MODULE MCRunQueue ------------------------------
(***************************************************************************)
(* Small instances of RunQueue for TLC.                                    *)
(***************************************************************************)
EXTENDS RunQueue, TLC

CONSTANTS i1, i2, a1, a2, a3, w1, h1, h2

OneWorkspace == {w1}
IssuesInOne == [i \in {i1, i2} |-> w1]
IssueInOne == [i \in {i1} |-> w1]
AgentsInOne == [a \in Agents |-> w1]
TwoTries == [a \in Agents |-> 2]
OneTry == [a \in Agents |-> 1]
Closes == [w \in {w1} |-> TRUE]
Symmetry == Permutations(Agents) \cup Permutations(Handlers) \cup Permutations(Issues)
StaysOpen == [w \in {w1} |-> FALSE]
=============================================================================
