-------------------------- MODULE TablaDeSemaforos --------------------------
(***************************************************************************)
(* The table of kernel semaphores (semaforosActuales) and the life of its  *)
(* entries: creation, use and destruction by name, from CPU threads that   *)
(* run at the same time.                                                   *)
(*                                                                         *)
(* Every call looks its name up under controladorSemaforos and releases    *)
(* that mutex before it goes on: what it found may have changed by the     *)
(* time it is used.  The steps between are left to the other threads.  The *)
(* schedulers are not modelled: a carpincho that has to wait is bloqueado  *)
(* until a signal releases it (see Semaforos).                             *)
(***************************************************************************)
EXTENDS Integers, FiniteSets, Sequences, SequencesExt

CONSTANTS
  Carpinchos,   \* each one served by a CPU thread of its own
  Nombres,      \* names of semaphores
  Valores,      \* the values semaphores are created with
  MaxSem,       \* bound: semaphores ever created
  MaxValor      \* bound: no signal raises a value above it

ASSUME TablaOK ==
  /\ IsFiniteSet(Carpinchos)
  /\ Nombres # {}
  /\ Valores \subseteq Nat
  /\ MaxSem \in Nat /\ MaxValor \in Nat

\* A semaphore structure is known by the id it is given on creation.
Ids == 0..(MaxSem - 1)
Nulo == -1

VARIABLES
  semaforosActuales,  \* the list of the semaphores that exist
  valorIdSemaforos,   \* the id of the next one
  nombre, valor, listaDeProcesosEnEspera,  \* fields of each structure
  destruidos,         \* structures that have been freed
  llamada,            \* of each carpincho: the call its thread is in
  semaforoActual,     \* of each thread: the structure it looked up
  nombreSem,          \* of each thread: the name it has to create
  caido               \* the kernel has aborted on freed memory

tabla == <<semaforosActuales, valorIdSemaforos, nombre, destruidos>>
hilo == <<llamada, semaforoActual, nombreSem>>
vars == <<semaforosActuales, valorIdSemaforos, nombre, valor,
          listaDeProcesosEnEspera, destruidos, llamada, semaforoActual,
          nombreSem, caido>>

Init ==
  /\ semaforosActuales = <<>> /\ valorIdSemaforos = 0
  /\ nombre = <<>> /\ valor = <<>> /\ listaDeProcesosEnEspera = <<>>
  /\ destruidos = {}
  /\ llamada = [c \in Carpinchos |-> "ninguna"]
  /\ semaforoActual = [c \in Carpinchos |-> Nulo]
  /\ nombreSem = [c \in Carpinchos |-> CHOOSE n \in Nombres : TRUE]
  /\ caido = FALSE

\* Slip: the last entry of the name.
BuscaElUltimo(n) ==
  LET hallados == {i \in 1..Len(semaforosActuales) : nombre[semaforosActuales[i]] = n}
  IN IF hallados = {} THEN Nulo
     ELSE semaforosActuales[CHOOSE i \in hallados : \A j \in hallados : i >= j]

\* list_find by name: the first entry of that name.
Busca(n) ==
  LET hallados == {i \in 1..Len(semaforosActuales) : nombre[semaforosActuales[i]] = n}
  IN IF hallados = {} THEN Nulo
     ELSE semaforosActuales[CHOOSE i \in hallados : \A j \in hallados : i <= j]

-----------------------------------------------------------------------------
\* Slip: the name is not looked up.
CreaSinBuscar(c, n) ==
  /\ llamada[c] = "ninguna" /\ ~caido
  /\ llamada' = [llamada EXCEPT ![c] = "crea"]
  /\ nombreSem' = [nombreSem EXCEPT ![c] = n]
  /\ UNCHANGED <<tabla, valor, listaDeProcesosEnEspera, semaforoActual, caido>>

\* crearSemaforo, first critical section: is there one of that name?
\* When there is, the call answers 0 and changes nothing.
BuscaParaCrear(c, n) ==
  /\ llamada[c] = "ninguna" /\ ~caido
  /\ Busca(n) = Nulo
  /\ llamada' = [llamada EXCEPT ![c] = "crea"]
  /\ nombreSem' = [nombreSem EXCEPT ![c] = n]
  /\ UNCHANGED <<tabla, valor, listaDeProcesosEnEspera, semaforoActual, caido>>

\* crearSemaforo, second critical section.
Crea(c, v) ==
  /\ llamada[c] = "crea" /\ ~caido
  /\ valorIdSemaforos < MaxSem
  /\ semaforosActuales' = Append(semaforosActuales, valorIdSemaforos)
  /\ valorIdSemaforos' = valorIdSemaforos + 1
  /\ nombre' = [i \in 0..valorIdSemaforos |->
                  IF i = valorIdSemaforos THEN nombreSem[c] ELSE nombre[i]]
  /\ valor' = [i \in 0..valorIdSemaforos |->
                 IF i = valorIdSemaforos THEN v ELSE valor[i]]
  /\ listaDeProcesosEnEspera' =
       [i \in 0..valorIdSemaforos |->
          IF i = valorIdSemaforos THEN <<>> ELSE listaDeProcesosEnEspera[i]]
  /\ llamada' = [llamada EXCEPT ![c] = "ninguna"]
  /\ UNCHANGED <<destruidos, semaforoActual, nombreSem, caido>>

\* Slip: the entry is freed and left in the table.
DestruyeSinQuitar(c, n) ==
  /\ llamada[c] = "ninguna" /\ ~caido
  /\ Busca(n) # Nulo
  /\ destruidos' = destruidos \cup {Busca(n)}
  /\ UNCHANGED <<semaforosActuales, valorIdSemaforos, nombre, valor,
                 listaDeProcesosEnEspera, hilo, caido>>

\* destruirSemaforo: the entry leaves the table and is freed, whatever its
\* waiting list holds and whoever has looked it up.
Destruye(c, n) ==
  /\ llamada[c] = "ninguna" /\ ~caido
  /\ Busca(n) # Nulo
  /\ semaforosActuales' = RemoveFirst(semaforosActuales, Busca(n))
  /\ destruidos' = destruidos \cup {Busca(n)}
  /\ UNCHANGED <<valorIdSemaforos, nombre, valor, listaDeProcesosEnEspera, hilo,
                 caido>>

\* The lookup of realizarWaitDeSemaforo and realizarSignalDeSemaforo.
BuscaParaUsar(c, n) ==
  /\ llamada[c] = "ninguna" /\ ~caido
  /\ Busca(n) # Nulo
  /\ llamada' \in {[llamada EXCEPT ![c] = "wait"], [llamada EXCEPT ![c] = "signal"]}
  /\ semaforoActual' = [semaforoActual EXCEPT ![c] = Busca(n)]
  /\ UNCHANGED <<tabla, valor, listaDeProcesosEnEspera, nombreSem, caido>>

\* The thread goes on with a structure that is still there.
Usa(c, operacion) ==
  /\ llamada[c] = operacion /\ ~caido
  /\ semaforoActual[c] \notin destruidos
  /\ semaforoActual' = [semaforoActual EXCEPT ![c] = Nulo]

\* Slip: the value is compared before it is lowered.
SeBloqueaTarde(s) == valor[s] < 0

\* Whether the wait blocks: the value, once taken one from, is below zero.
SeBloquea(s) == valor[s] - 1 < 0

Wait(c) ==
  LET s == semaforoActual[c] IN
  /\ Usa(c, "wait")
  /\ valor' = [valor EXCEPT ![s] = @ - 1]
  /\ \/ /\ SeBloquea(s)
        /\ listaDeProcesosEnEspera' = [listaDeProcesosEnEspera EXCEPT ![s] = Append(@, c)]
        /\ llamada' = [llamada EXCEPT ![c] = "bloqueado"]
     \/ /\ ~SeBloquea(s)
        /\ llamada' = [llamada EXCEPT ![c] = "ninguna"]
        /\ UNCHANGED listaDeProcesosEnEspera
  /\ UNCHANGED <<tabla, nombreSem, caido>>

Signal(c) ==
  LET s == semaforoActual[c]
      q == Head(listaDeProcesosEnEspera[s]) IN
  /\ Usa(c, "signal")
  /\ valor[s] < MaxValor
  /\ valor' = [valor EXCEPT ![s] = @ + 1]
  /\ \/ /\ listaDeProcesosEnEspera[s] # <<>>
        /\ listaDeProcesosEnEspera' = [listaDeProcesosEnEspera EXCEPT ![s] = Tail(@)]
        /\ llamada' = [llamada EXCEPT ![c] = "ninguna", ![q] = "ninguna"]
     \/ /\ listaDeProcesosEnEspera[s] = <<>>
        /\ llamada' = [llamada EXCEPT ![c] = "ninguna"]
        /\ UNCHANGED listaDeProcesosEnEspera
  /\ UNCHANGED <<tabla, nombreSem, caido>>

\* The structure was freed after the lookup. The thread locks a destroyed
\* mutex and reads freed memory: the kernel aborts, or the call returns, or
\* it blocks its carpincho where nobody will find it.
UsaLiberado(c) ==
  /\ llamada[c] \in {"wait", "signal"} /\ ~caido
  /\ semaforoActual[c] \in destruidos
  /\ semaforoActual' = [semaforoActual EXCEPT ![c] = Nulo]
  /\ \/ caido' = TRUE /\ UNCHANGED llamada
     \/ /\ llamada' = [llamada EXCEPT ![c] = "ninguna"]
        /\ UNCHANGED caido
     \/ /\ llamada[c] = "wait"
        /\ llamada' = [llamada EXCEPT ![c] = "perdido"]
        /\ UNCHANGED caido
  /\ UNCHANGED <<tabla, valor, listaDeProcesosEnEspera, nombreSem>>

Next ==
  \E c \in Carpinchos :
    \/ \E n \in Nombres : \/ BuscaParaCrear(c, n) \/ Destruye(c, n)
                          \/ BuscaParaUsar(c, n)
    \/ \E v \in Valores : Crea(c, v)
    \/ Wait(c) \/ Signal(c) \/ UsaLiberado(c)

Spec == Init /\ [][Next]_vars

-----------------------------------------------------------------------------
(* Properties.                                                             *)

\* One structure per id ever given; each live one is in the table once.
TypeOK ==
  /\ valorIdSemaforos \in 0..MaxSem
  /\ semaforosActuales \in Seq(0..(valorIdSemaforos - 1))
  /\ nombre \in [0..(valorIdSemaforos - 1) -> Nombres]
  /\ valor \in [0..(valorIdSemaforos - 1) -> Int]
  /\ listaDeProcesosEnEspera \in [0..(valorIdSemaforos - 1) -> Seq(Carpinchos)]
  /\ IsInjective(semaforosActuales)
  /\ destruidos = (0..(valorIdSemaforos - 1)) \ ToSet(semaforosActuales)
  /\ llamada \in [Carpinchos -> {"ninguna", "crea", "wait", "signal",
                                 "bloqueado", "perdido"}]
  /\ semaforoActual \in [Carpinchos -> Ids \cup {Nulo}]
  /\ nombreSem \in [Carpinchos -> Nombres]
  /\ caido \in BOOLEAN

Tocayos(n) == {s \in ToSet(semaforosActuales) : nombre[s] = n}

\* crearSemaforo creates no name that exists ("no lo vamos a crear y avisamos
\* que ya estaba creado"), but it looks and adds in two critical sections. The
\* race makes at most one entry per carpincho: no creation starts while an
\* entry exists, so the entries of a name and the creations under way are
\* never more than the carpinchos.
DuplicadosAcotados ==
  \A n \in Nombres :
    Cardinality(Tocayos(n))
      + Cardinality({c \in Carpinchos : llamada[c] = "crea" /\ nombreSem[c] = n})
    <= Cardinality(Carpinchos)

\* Even with two entries of a name, a name goes on denoting the same entry
\* until that entry is destroyed: a wait and the signal meant for it meet.
NombreEstable ==
  [][\A n \in Nombres :
       Busca(n) # Nulo => Busca(n)' = Busca(n) \/ Busca(n) \in destruidos']_vars

\* A carpincho that waits does so in one semaphore, and a semaphore of
\* negative value has that many waiting; the lookup before the mutex lets
\* no wait or signal slip between the value and the list.
EsperaCuadra ==
  /\ \A s \in ToSet(semaforosActuales) :
       Len(listaDeProcesosEnEspera[s]) = (IF valor[s] < 0 THEN -valor[s] ELSE 0)
  /\ \A c \in Carpinchos :
       Cardinality({s \in DOMAIN valor : c \in ToSet(listaDeProcesosEnEspera[s])})
         = (IF llamada[c] = "bloqueado" THEN 1 ELSE 0)
=============================================================================
