----------------------------- MODULE MCCandados -----------------------------
(* Candados on a small instance, for TLC. *)
EXTENDS Candados, TLC

\* The semaphores, in some order of creation.
Orden == SetToSeq(Sems)

\* The kernel and the memory are two processes: their mutexes are their own.
Elenco == {CPUs \cup Dispositivos \cup Planificadores, Carpinchos}

\* The threads of the memory are interchangeable.
Simetria == Permutations(Carpinchos)
=============================================================================
