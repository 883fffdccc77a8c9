---------------------------- MODULE MCLiveRuntime ----------------------------
(* LiveRuntime on small instances: the tuning constants come from the cfg.   *)
EXTENDS LiveRuntime, TLC

\* Copy workers are interchangeable (decode workers are not: the round robin
\* orders them).
Symmetry == Permutations(CopyWorkers)

=============================================================================
