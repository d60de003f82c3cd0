--------------------------- MODULE MCPlanificador ---------------------------
(* Planificador on a small instance, for TLC. *)
EXTENDS Planificador

\* Carpinchos and CPU threads are interchangeable.
Simetria == Permutations(Procesos) \cup Permutations(CPUs)
=============================================================================
