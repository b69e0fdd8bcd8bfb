----------------------------- MODULE MCTasks -----------------------------
(* Instances of EngineTasks for TLC. *)
EXTENDS EngineTaskProperties, TLC

CONSTANTS t1, t2, t3, c1, c2

Symmetric == Permutations(Tasks) \cup Permutations(Calls)

\* Tasks are alike: behaviours that create t2 first show nothing new.
CreatedInOrder == Exists(t2) => Exists(t1)
=============================================================================
