----------------------------- MODULE MCJobQueue -----------------------------
(* Instances of JobQueue for TLC. *)
EXTENDS JobQueue, TLC

CONSTANTS j1, j2, j3, p1, p2, w1, w2, o1, o2

\* A job, and two messages that are not: one the loops see, one they do not.
PlanAndOthers == j1 :> "plan" @@ j2 :> "malformed" @@ j3 :> "garbage"
OnlyPlan == j1 :> "plan"

Symmetry == Permutations(Processors) \union Permutations(Workers) \union Permutations(Operators)

=============================================================================
