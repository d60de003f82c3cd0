---------------------------- MODULE MCSemaforos -----------------------------
(* Semaforos on a small instance, for TLC. *)
EXTENDS Semaforos

\* Two binary semaphores.
DosMutex == [s \in Sems |-> 1]

\* Bound: the third carpincho calls nothing but the close. It waits in New for
\* a memory slot, which makes thread1_PMP suspend the others.
ElTerceroCompite == ops[3] = 0

\* CPU threads and semaphores of the same value are interchangeable.
SimetriaSem == Permutations(CPUs) \cup Permutations(Sems)
=============================================================================
