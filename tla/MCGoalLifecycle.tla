---------------------------- MODULE MCGoalLifecycle ----------------------------
(* GoalLifecycle with the workers other than the planner, the calls and the *)
(* repairs interchangeable.                                                 *)
EXTENDS GoalLifecycle, TLC

Symmetry == Permutations(Workers \ {Planner}) \union Permutations(Calls)
                \union Permutations(Repairers)
=============================================================================
