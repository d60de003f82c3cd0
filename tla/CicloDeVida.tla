----------------------------- MODULE CicloDeVida -----------------------------
(***************************************************************************)
(* What the schedulers promise, with no thread, list or semaphore: every   *)
(* carpincho walks through the states of the process life cycle, one legal *)
(* transition at a time; New is served in order of arrival; and no more    *)
(* than Grado processes execute at once.                                   *)
(***************************************************************************)
EXTENDS Naturals, Sequences, FiniteSets

CONSTANTS
  Procesos,
  Grado      \* degree of multiprocessing

VARIABLES
  estado,    \* the state of each process
  colaNew    \* the processes in New, in order of arrival

vars == <<estado, colaNew>>

Estados == {"Fuera", "New", "Ready", "Exec", "Blocked", "SuspendedReady", "Exit"}

Init ==
  /\ estado = [p \in Procesos |-> "Fuera"]
  /\ colaNew = <<>>

EnExec == {p \in Procesos : estado[p] = "Exec"}

Pasa(p, desde, hacia) ==
  /\ estado[p] = desde
  /\ estado' = [estado EXCEPT ![p] = hacia]

Llega(p) == Pasa(p, "Fuera", "New") /\ colaNew' = Append(colaNew, p)

Admite(p) ==
  /\ colaNew # <<>> /\ p = Head(colaNew)
  /\ Pasa(p, "New", "Ready")
  /\ colaNew' = Tail(colaNew)

Despacha(p) ==
  /\ Cardinality(EnExec) < Grado
  /\ Pasa(p, "Ready", "Exec")
  /\ UNCHANGED colaNew

Bloquea(p) == Pasa(p, "Exec", "Blocked") /\ UNCHANGED colaNew

\* The end of a block leads to Ready, directly or by way of SuspendedReady.
Desbloquea(p) ==
  (Pasa(p, "Blocked", "Ready") \/ Pasa(p, "Blocked", "SuspendedReady"))
    /\ UNCHANGED colaNew

Readmite(p) == Pasa(p, "SuspendedReady", "Ready") /\ UNCHANGED colaNew

Termina(p) == Pasa(p, "Exec", "Exit") /\ UNCHANGED colaNew

Next ==
  \E p \in Procesos :
    Llega(p) \/ Admite(p) \/ Despacha(p) \/ Bloquea(p) \/ Desbloquea(p)
      \/ Readmite(p) \/ Termina(p)

Spec == Init /\ [][Next]_vars
=============================================================================
