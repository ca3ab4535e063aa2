------------------------------ MODULE MCAutopilot ------------------------------
(***************************************************************************)
(* A small instance of Autopilot for TLC.                                  *)
(***************************************************************************)
EXTENDS Autopilot, TLC

CONSTANTS r1, r2, s1, s2, e1, e2, t1, t2

\* Expressions, editors and triggers are interchangeable.
Symmetry == Permutations(Specs) \cup Permutations(Editors) \cup Permutations(Triggers)
=============================================================================
