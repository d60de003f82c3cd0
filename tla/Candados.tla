------------------------------ MODULE Candados ------------------------------
(***************************************************************************)
(* The mutexes of the kernel and of the memory, and the order in which     *)
(* their threads take them.                                                *)
(*                                                                         *)
(* Every thread repeats operations, and an operation is a script of locks  *)
(* and unlocks.  What the operations do is left out (see Planificador and  *)
(* Semaforos): only who holds which mutex and who waits for one.  Nothing  *)
(* but a mutex can stop a thread in the middle of an operation, because no *)
(* thread waits on a POSIX semaphore with a mutex taken, and SWAmP answers *)
(* what the memory asks with a mutex taken (see Swamp for when it does     *)
(* not).  The memory's signal handler runs on the thread it interrupts.    *)
(***************************************************************************)
EXTENDS Naturals, FiniteSets, Sequences, SequencesExt

CONSTANTS
  CPUs,          \* the threads of rutinaDeProceso
  Dispositivos,  \* the IO devices; each one has a thread and a mutex
  Sems,          \* the kernel semaphores; each one has a mutex
  OrdenSems,     \* the order of semaforosActuales
  Carpinchos,    \* the threads of the memory, one for each carpincho
  Elencos,       \* the sets of threads that may run together
  MaxSeniales    \* bound: signals the memory gets

Planificadores == {"servidor", "largoPlazo", "thread1_PMP", "thread2_PMP", "deadlock"}

\* The mutexes of the kernel that all its threads share, and those of the
\* memory. A semaphore and a device have one of their own.
MutexesDelKernel ==
  {"modificarNew", "modificarReady", "modificarExec", "modificarBlocked",
   "modificarSuspendedBlocked", "modificarSuspendedReady",
   "controladorSemaforos", "controladorIO"}
MutexesDeMemoria ==
  {"listaCarpinchos", "controladorIds", "TLB_mutex", "memoria", "swap", "marcos_sem",
   "tabla_paginas", "recorrer_marcos_mutex", "hits_sem", "miss_sem"}

ASSUME CandadosOK ==
  /\ Elencos \subseteq SUBSET (CPUs \cup Dispositivos \cup Planificadores \cup Carpinchos)
  /\ MaxSeniales \in Nat
  /\ OrdenSems \in Seq(Sems) /\ IsInjective(OrdenSems)

\* Threads and mutexes are apart from each other.
ASSUME NombresDistintos ==
  /\ CPUs \cap (Dispositivos \cup Planificadores \cup Carpinchos) = {}
  /\ Dispositivos \cap (Planificadores \cup Carpinchos) = {}
  /\ Planificadores \cap Carpinchos = {}
  /\ Sems \cap (Dispositivos \cup MutexesDelKernel \cup MutexesDeMemoria) = {}
  /\ Dispositivos \cap (MutexesDelKernel \cup MutexesDeMemoria) = {}

VARIABLES
  Hilos,    \* the threads that run
  guion,    \* of each thread: the locks and unlocks its operation has left
  tiene,    \* of each thread: the mutexes it holds
  seniales  \* signals the memory has got

vars == <<Hilos, guion, tiene, seniales>>

-----------------------------------------------------------------------------
(* The scripts.                                                            *)

Lock(m) == [hace |-> "lock", mutex |-> m]
Unlock(m) == [hace |-> "unlock", mutex |-> m]
LockTodos(ms) == [i \in 1..Len(ms) |-> Lock(ms[i])]
UnlockTodos(ms) == [i \in 1..Len(ms) |-> Unlock(ms[i])]
Seccion(m) == <<Lock(m), Unlock(m)>>

LlegaProceso == Seccion("modificarNew")
LargoPlazo == Seccion("modificarNew") \o Seccion("modificarReady")
TomaDeReady == Seccion("modificarReady") \o Seccion("modificarExec")

\* cerrarProceso, and every call that only looks its process up in Exec.
UsaExec == Seccion("modificarExec")

\* crearSemaforo of a name that exists, or destruirSemaforo.
UsaTabla == Seccion("controladorSemaforos")
CreaSemaforo == UsaTabla \o UsaTabla

\* realizarOperacionIO.
OperacionIO(d) ==
  Seccion("modificarExec") \o Seccion("controladorIO")
    \o Seccion("modificarExec") \o Seccion(d) \o Seccion("modificarBlocked")

\* Slips: Exec outside, the semaphore inside; the semaphore is not let go.
WaitAlReves(s) ==
  Seccion("controladorSemaforos")
    \o <<Lock("modificarExec"), Lock(s), Unlock(s), Unlock("modificarExec")>>
WaitSinSoltar(s) ==
  Seccion("controladorSemaforos")
    \o <<Lock(s), Lock("modificarExec"), Unlock("modificarExec")>>

\* realizarWaitDeSemaforo: Exec inside the mutex of the semaphore; Blocked
\* only when the carpincho has to wait.
Wait(s) ==
  Seccion("controladorSemaforos")
    \o <<Lock(s), Lock("modificarExec"), Unlock("modificarExec"), Unlock(s)>>
WaitBloqueante(s) == Wait(s) \o Seccion("modificarBlocked")

PonerEnElReadyIndicado ==
  {Seccion("modificarSuspendedBlocked") \o Seccion("modificarSuspendedReady"),
   Seccion("modificarSuspendedBlocked") \o Seccion("modificarBlocked")
     \o Seccion("modificarReady")}

\* realizarSignalDeSemaforo takes the same mutexes, up to the release.
SignalQueLibera(s) == {Wait(s) \o g : g \in PonerEnElReadyIndicado}

FinDeIO(d) == {Seccion(d) \o g : g \in PonerEnElReadyIndicado}

\* thread1_PMP.
Suspende ==
  LockTodos(<<"modificarReady", "modificarNew", "modificarBlocked">>)
    \o UnlockTodos(<<"modificarNew", "modificarReady", "modificarBlocked">>)

\* thread2_PMP.
AdmiteNuevo == Seccion("modificarSuspendedReady")
AdmiteSuspendido ==
  AdmiteNuevo \o Seccion("modificarSuspendedReady") \o Seccion("modificarReady")

\* ejecutarAlgoritmoDeadlock: every mutex there is, let go in reverse order
\* except those of the semaphores.
ListasDelDetector ==
  <<"modificarBlocked", "modificarSuspendedBlocked", "modificarExec",
    "modificarReady", "modificarSuspendedReady", "modificarNew">>
DetectaDeadlock ==
  LockTodos(<<"controladorSemaforos">> \o OrdenSems \o ListasDelDetector)
    \o UnlockTodos(Reverse(ListasDelDetector) \o OrdenSems \o <<"controladorSemaforos">>)

-----------------------------------------------------------------------------
(* The scripts of the memory.                                              *)

\* reemplazarPagina, under FIJA and under DINAMICA.
ReemplazaPropia ==
  Seccion("tabla_paginas") \o Seccion("memoria") \o Seccion("TLB_mutex")
ReemplazaDeTodos ==
  Seccion("listaCarpinchos") \o Seccion("tabla_paginas") \o ReemplazaPropia
    \o Seccion("tabla_paginas") \o Seccion("TLB_mutex")
ConSwap == {<<Lock("swap")>> \o r \o <<Unlock("swap")>> : r \in {ReemplazaPropia, ReemplazaDeTodos}}

\* buscar_TLB and reemplazo: a hit, a miss, or a page fault (swapear).
AccesoAPagina ==
  {Seccion("TLB_mutex") \o Seccion("hits_sem")}
    \cup {Seccion("TLB_mutex") \o Seccion("tabla_paginas") \o s
            \o Seccion("TLB_mutex") \o Seccion("miss_sem") :
            s \in {<<>>} \cup
                  {r \o Seccion("tabla_paginas") \o Seccion("memoria") : r \in ConSwap}}

\* buscarSiguienteHeapLibre, once round its loop.
RecorreHeap ==
  {<<Lock("recorrer_marcos_mutex")>> \o Seccion("tabla_paginas") \o a
     \o Seccion("memoria") \o Seccion("tabla_paginas")
     \o <<Unlock("recorrer_marcos_mutex")>> : a \in AccesoAPagina}

\* escribirMemoria, for one page.
EscribeMemoria ==
  {<<Lock("marcos_sem")>> \o r \o Seccion("memoria") \o Seccion("tabla_paginas")
     \o <<Unlock("marcos_sem")>> : r \in {<<>>} \cup ConSwap}

\* The first pages of a carpincho enter the TLB.
PrimerasEnTLB ==
  <<Lock("tabla_paginas")>> \o Seccion("TLB_mutex") \o <<Unlock("tabla_paginas")>>

\* Everything else the requests, the arrival, the suspension and the close do
\* takes one mutex at a time.
Sueltos ==
  {"listaCarpinchos", "controladorIds", "tabla_paginas", "memoria", "TLB_mutex", "swap",
   "marcos_sem"}

\* manejador_de_seniales: SIGUSR1, SIGUSR2.
ManejadorDeSeniales == Seccion("TLB_mutex")

DeRutinaDeProceso ==
  {TomaDeReady, UsaExec, UsaTabla, CreaSemaforo}
    \cup {OperacionIO(d) : d \in Dispositivos}
    \cup UNION {{Wait(s), WaitBloqueante(s)} \cup SignalQueLibera(s) : s \in Sems}

DeMemoria ==
  {Seccion(m) : m \in Sueltos} \cup {PrimerasEnTLB}
    \cup AccesoAPagina \cup RecorreHeap \cup EscribeMemoria

Operaciones(t) ==
  CASE t = "servidor" -> {LlegaProceso}
    [] t = "largoPlazo" -> {LargoPlazo}
    [] t = "thread1_PMP" -> {Suspende}
    [] t = "thread2_PMP" -> {AdmiteNuevo, AdmiteSuspendido}
    [] t = "deadlock" -> {DetectaDeadlock}
    [] t \in Dispositivos -> FinDeIO(t)
    [] t \in CPUs -> DeRutinaDeProceso
    [] t \in Carpinchos -> DeMemoria

-----------------------------------------------------------------------------
Init ==
  /\ Hilos \in Elencos
  /\ guion = [t \in Hilos |-> <<>>]
  /\ tiene = [t \in Hilos |-> {}]
  /\ seniales = 0

\* pthread_mutex_lock returns to t, which goes on with resto.
Toma(t, m, resto) ==
  /\ \A u \in Hilos : m \notin tiene[u]
  /\ tiene' = [tiene EXCEPT ![t] = @ \cup {m}]
  /\ guion' = [guion EXCEPT ![t] = resto]
  /\ UNCHANGED <<Hilos, seniales>>

\* An operation starts with its first lock: a thread that waits for it holds
\* no other, so nobody waits for that thread.
Empieza(t) ==
  /\ guion[t] = <<>>
  /\ \E g \in Operaciones(t) : Toma(t, Head(g).mutex, Tail(g))

Bloquea(t) ==
  /\ guion[t] # <<>>
  /\ Head(guion[t]).hace = "lock"
  /\ Toma(t, Head(guion[t]).mutex, Tail(guion[t]))

\* pthread_mutex_unlock.
Desbloquea(t) ==
  /\ guion[t] # <<>>
  /\ Head(guion[t]).hace = "unlock"
  /\ tiene' = [tiene EXCEPT ![t] = @ \ {Head(guion[t]).mutex}]
  /\ guion' = [guion EXCEPT ![t] = Tail(@)]
  /\ UNCHANGED <<Hilos, seniales>>

\* A signal comes while a thread of the memory runs.
LlegaSenial(t) ==
  /\ t \in Carpinchos /\ seniales < MaxSeniales
  /\ seniales' = seniales + 1
  /\ guion' = [guion EXCEPT ![t] = ManejadorDeSeniales \o @]
  /\ UNCHANGED <<Hilos, tiene>>

Next == \E t \in Hilos : Empieza(t) \/ Bloquea(t) \/ Desbloquea(t) \/ LlegaSenial(t)

Spec == Init /\ [][Next]_vars

-----------------------------------------------------------------------------
(* Properties.                                                             *)

\* A thread unlocks only what it holds, and holds nothing between operations.
TypeOK ==
  /\ Hilos \in Elencos /\ DOMAIN guion = Hilos /\ DOMAIN tiene = Hilos
  /\ seniales \in 0..MaxSeniales
  /\ \A t \in Hilos :
       /\ guion[t] # <<>> /\ Head(guion[t]).hace = "unlock"
            => Head(guion[t]).mutex \in tiene[t]
       /\ guion[t] = <<>> => tiene[t] = {}

\* t waits for a mutex that u holds.
EsperaA(t, u) ==
  /\ guion[t] # <<>>
  /\ Head(guion[t]).hace = "lock"
  /\ Head(guion[t]).mutex \in tiene[u]

\* Each thread of S waits for another of S, or for itself: none of them will
\* ever go on.
Atascados(S) == S # {} /\ \A t \in S : \E u \in S : EsperaA(t, u)
Esperan == {t \in Hilos : \E u \in Hilos : EsperaA(t, u)}

\* The circles there can be are two. In the kernel, that of the detector, which
\* takes Blocked before Ready and New, and thread1_PMP, which takes it after
\* them. In the memory, that of one thread which a signal interrupts with the
\* mutex of the TLB taken: the handler waits for the thread it runs on.
CirculosConocidos ==
  \A S \in SUBSET Esperan :
    Atascados(S) =>
      \/ {"thread1_PMP", "deadlock"} \subseteq S
      \/ seniales > 0 /\ \E t \in S \cap Carpinchos : "TLB_mutex" \in tiene[t] /\ EsperaA(t, t)
=============================================================================
