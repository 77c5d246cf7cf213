----------------------------- MODULE MCScheduler -----------------------------
(* Instances of Scheduler: the constants come from the configurations.      *)
EXTENDS Scheduler, TLC

(* Callers, tasks, objects and threads are interchangeable in the safety runs. *)
Symmetry ==
  Permutations(Callers) \union Permutations(Tasks) \union
    Permutations(Objects) \union Permutations(Threads)
=============================================================================
