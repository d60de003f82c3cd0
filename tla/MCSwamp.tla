------------------------------ MODULE MCSwamp -------------------------------
(* Swamp on a small instance, for TLC. *)
EXTENDS Swamp

SimetriaSwamp == Permutations(Pids)
=============================================================================
