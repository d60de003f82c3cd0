------------------------- MODULE MCTablaDeSemaforos -------------------------
(* TablaDeSemaforos on a small instance, for TLC. *)
EXTENDS TablaDeSemaforos

\* Carpinchos are interchangeable.
SimetriaTabla == Permutations(Carpinchos)
=============================================================================
