---------------------------- MODULE MCSlotManager ----------------------------
(* SlotManager on a small pool; owners and decode workers are interchangeable. *)
EXTENDS SlotManager, TLC

Symmetry == Permutations(Writers) \cup Permutations(Workers)

=============================================================================
