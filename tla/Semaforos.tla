----------------------------- MODULE Semaforos ------------------------------
(***************************************************************************)
(* The schedulers of Planificador with the kernel semaphores carpinchos    *)
(* share (Semaforos.c) and the deadlock detector (Deadlock1.c).            *)
(*                                                                         *)
(* The semaphores exist from the start, as some carpincho that has already *)
(* closed left them; their creation and destruction, which the schedulers  *)
(* take no part in, are in TablaDeSemaforos.                               *)
(*                                                                         *)
(* A call holds the mutex of its semaphore from the change of the value to *)
(* the change of its waiting list, so that much is one action; entering    *)
(* Blocked is another.  The detector holds every mutex of the kernel, so a *)
(* whole run of it is one action.                                          *)
(***************************************************************************)
EXTENDS Planificador

CONSTANTS
  Sems,           \* the kernel semaphores (semaforosActuales)
  ValorInicial    \* of each one, when the carpinchos arrive

\* The pids: memory numbers the carpinchos in the order in which the long-term
\* planner connects them, which is the order of arrival.
ASSUME SemaforosOK ==
  /\ Procesos \subseteq Nat
  /\ IsFiniteSet(Sems)
  /\ Nadie \notin Sems
  /\ ValorInicial \in [Sems -> Nat]

VARIABLES
  valor,        \* of each semaphore
  espera,       \* of each semaphore: listaDeProcesosEnEspera
  retenidos,    \* of each process: listaRecursosRetenidos
  solicitados,  \* of each process: listaRecursosSolicitados
  expulsados    \* processes the detector has killed

semaforos == <<valor, espera, retenidos, solicitados, expulsados>>
varsSem == <<vars, semaforos>>

InitSem ==
  /\ Init
  /\ valor = ValorInicial
  /\ espera = [s \in Sems |-> <<>>]
  /\ retenidos = [p \in Procesos |-> <<>>]
  /\ solicitados = [p \in Procesos |-> <<>>]
  /\ expulsados = {}

-----------------------------------------------------------------------------
(* The calls of the carpinchos.                                            *)

LlegaEnOrden(p) ==
  /\ \A q \in Procesos : q < p => pedido[q] # "sinConectar"
  /\ LlegaProceso(p)
  /\ UNCHANGED semaforos

\* realizarWaitDeSemaforo, when the semaphore is not available, up to the
\* unlock of its mutex.
WaitBloqueante(c, s) ==
  LET p == ejecutando[c] IN
  /\ Atiende(c, "SEM_WAIT")
  /\ CuentaOp(p)
  /\ valor[s] <= 0
  /\ valor' = [valor EXCEPT ![s] = @ - 1]
  /\ \E hallado \in BOOLEAN : QuitaPorPid(procesosExec, p, procesosExec', hallado)
  /\ solicitados' = [solicitados EXCEPT ![p] = Append(@, s)]
  /\ espera' = [espera EXCEPT ![s] = Append(@, p)]
  /\ fase' = [fase EXCEPT ![c] = "aBlockedSem"]
  /\ UNCHANGED <<procesosNew, procesosReady, procesosBlocked,
                 procesosSuspendedBlock, procesosSuspendedReady, listaEspera,
                 activador, posix, ejecutando, dispositivo, liberado, medio,
                 vuelveDeBloqueo, liberados, buzon, perdidos, retenidos,
                 expulsados>>

\* The rest of it: the process enters Blocked, and the field that tells which
\* answer it is owed is set.
BloqueaEnSemaforo(c) ==
  /\ fase[c] = "aBlockedSem"
  /\ procesosBlocked' = Append(procesosBlocked, ejecutando[c])
  /\ vuelveDeBloqueo' = [vuelveDeBloqueo EXCEPT ![ejecutando[c]] = "BLOCK_SEM"]
  /\ posix' = [posix EXCEPT !["signalSuspensionProceso"] = @ + 1]
  /\ fase' = [fase EXCEPT ![c] = "calcula"]
  /\ UNCHANGED <<procesosNew, procesosReady, procesosExec,
                 procesosSuspendedBlock, procesosSuspendedReady, listaEspera,
                 activador, ejecutando, dispositivo, liberado, medio,
                 liberados, clientes, perdidos, semaforos>>

\* realizarWaitDeSemaforo on an available semaphore.
WaitInmediato(c, s) ==
  LET p == ejecutando[c] IN
  /\ Atiende(c, "SEM_WAIT")
  /\ CuentaOp(p)
  /\ valor[s] > 0
  /\ valor' = [valor EXCEPT ![s] = @ - 1]
  /\ retenidos' = [retenidos EXCEPT ![p] = Append(@, s)]
  /\ Enviar(p, "SEM_WAIT")
  /\ fase' = [fase EXCEPT ![c] = "avisa"]
  /\ UNCHANGED <<colas, listaEspera, activador, posix, ejecutando, dispositivo,
                 liberado, medio, vuelveDeBloqueo, liberados, perdidos, espera,
                 solicitados, expulsados>>

\* Slip: the released process is left in the waiting list.
SignalSinSacar(c, s) ==
  LET p == ejecutando[c]
      q == Head(espera[s]) IN
  /\ Atiende(c, "SEM_SIGNAL")
  /\ CuentaOp(p)
  /\ espera[s] # <<>>
  /\ valor' = [valor EXCEPT ![s] = @ + 1]
  /\ retenidos' = [retenidos EXCEPT ![p] = RemoveFirst(@, s), ![q] = Append(@, s)]
  /\ solicitados' = [solicitados EXCEPT ![q] = Tail(@)]
  /\ liberado' = [liberado EXCEPT ![c] = q]
  /\ fase' = [fase EXCEPT ![c] = "miraSuspendidos"]
  /\ UNCHANGED <<colas, listaEspera, activador, posix, ejecutando, dispositivo,
                 medio, vuelveDeBloqueo, liberados, buzon, perdidos, espera,
                 expulsados>>

\* realizarSignalDeSemaforo: the first of the waiting list is released, by
\* the ponerEnElReadyIndicado this thread goes on to.
SignalQueLibera(c, s) ==
  LET p == ejecutando[c]
      q == Head(espera[s]) IN
  /\ Atiende(c, "SEM_SIGNAL")
  /\ CuentaOp(p)
  /\ espera[s] # <<>>
  /\ valor' = [valor EXCEPT ![s] = @ + 1]
  /\ espera' = [espera EXCEPT ![s] = Tail(@)]
  /\ retenidos' = [retenidos EXCEPT ![p] = RemoveFirst(@, s), ![q] = Append(@, s)]
  /\ solicitados' = [solicitados EXCEPT ![q] = Tail(@)]
  /\ liberado' = [liberado EXCEPT ![c] = q]
  /\ fase' = [fase EXCEPT ![c] = "miraSuspendidos"]
  /\ UNCHANGED <<colas, listaEspera, activador, posix, ejecutando, dispositivo,
                 medio, vuelveDeBloqueo, liberados, buzon, perdidos, expulsados>>

\* realizarSignalDeSemaforo with nobody waiting.
SignalSinEspera(c, s) ==
  LET p == ejecutando[c] IN
  /\ Atiende(c, "SEM_SIGNAL")
  /\ CuentaOp(p)
  /\ espera[s] = <<>>
  /\ valor' = [valor EXCEPT ![s] = @ + 1]
  /\ retenidos' = [retenidos EXCEPT ![p] = RemoveFirst(@, s)]
  /\ Enviar(p, "SEM_SIGNAL")
  /\ fase' = [fase EXCEPT ![c] = "avisa"]
  /\ UNCHANGED <<colas, listaEspera, activador, posix, ejecutando, dispositivo,
                 liberado, medio, vuelveDeBloqueo, liberados, perdidos, espera,
                 solicitados, expulsados>>

\* avisarPostDeSemaforo, once the released process has been placed.
AvisaPost(c) ==
  /\ fase[c] = "respondeSignal"
  /\ Enviar(ejecutando[c], "SEM_SIGNAL")
  /\ fase' = [fase EXCEPT ![c] = "avisa"]
  /\ UNCHANGED <<colas, listaEspera, activador, posix, ejecutando, dispositivo,
                 liberado, medio, vuelveDeBloqueo, liberados, pedido, ops,
                 perdidos, semaforos>>

-----------------------------------------------------------------------------
(* The deadlock detector, on the part of the state it works on.            *)

Foto ==
  [valor |-> valor, espera |-> espera, retenidos |-> retenidos,
   solicitados |-> solicitados, Blocked |-> procesosBlocked,
   SuspendedBlock |-> procesosSuspendedBlock,
   SuspendedReady |-> procesosSuspendedReady, Ready |-> procesosReady,
   posix |-> posix, expulsados |-> {}]

\* procesosQueEstanReteniendoYEsperando: of the blocked entries, those whose
\* process holds something and waits for something. A process may have several.
Bloqueados(e) == e.Blocked \o e.SuspendedBlock

AAnalizar(e) ==
  {i \in 1..Len(Bloqueados(e)) :
     LET p == Bloqueados(e)[i]
     IN e.retenidos[p] # <<>> /\ e.solicitados[p] # <<>>}

\* procesoApuntadoDeadlock: the first analysed process that retains the
\* semaphore p asks for.
Apuntado(e, p) ==
  LET tienen == {i \in AAnalizar(e) :
                   Head(e.solicitados[p]) \in ToSet(e.retenidos[Bloqueados(e)[i]])}
  IN IF tienen = {} THEN Nadie
     ELSE Bloqueados(e)[CHOOSE i \in tienen : \A j \in tienen : i <= j]

\* Slip: only a process that points to itself is in deadlock.
SoloConsigo(e, p) == Apuntado(e, p) = p

\* procesoEnDeadlock: following the pointers from p leads back to p.
ProcesoEnDeadlock(e, p) ==
  LET n == Cardinality(Procesos)
      tras[k \in 0..n] ==
        IF k = 0 THEN p
        ELSE IF tras[k - 1] = Nadie THEN Nadie ELSE Apuntado(e, tras[k - 1])
  IN \E k \in 1..n : tras[k] = p

EnDeadlock(e) == {i \in AAnalizar(e) : ProcesoEnDeadlock(e, Bloqueados(e)[i])}

\* Two entries in deadlock are enough to kill.
HayDeadlock(e) == Cardinality(EnDeadlock(e)) >= 2

\* What the end of a wait does to the lists, here under all the mutexes.
PonerEnElReady(e, q) ==
  IF q \in ToSet(e.SuspendedBlock)
  THEN [e EXCEPT !.SuspendedBlock = RemoveFirst(@, q),
                 !.SuspendedReady = Append(@, q),
                 !.posix["procesoNecesitaEntrarEnReady"] = @ + 1,
                 !.posix["signalSuspensionProceso"] = @ + 1]
  ELSE [e EXCEPT !.Blocked = RemoveFirst(@, q),
                 !.Ready = Append(@, q),
                 !.posix["hayProcesosReady"] = @ + 1]

\* One semaphore that the victim v retained: it goes to the first process
\* that waits for it, and only then is v taken out of its list.
SueltaRetenido(v, e, s) ==
  IF e.espera[s] = <<>> THEN [e EXCEPT !.valor[s] = @ + 1]
  ELSE LET q == Head(e.espera[s])
           e1 == [e EXCEPT !.valor[s] = @ + 1, !.espera[s] = Tail(@),
                           !.retenidos[q] = Append(@, s),
                           !.solicitados[q] = Tail(@)]
           e2 == IF v \in ToSet(e1.SuspendedBlock)
                 THEN [e1 EXCEPT !.SuspendedBlock = RemoveFirst(@, v)]
                 ELSE [e1 EXCEPT !.Blocked = RemoveFirst(@, v)]
       IN PonerEnElReady(e2, q)

\* Slip: the value is not raised.
SueltaSinSubir(v, e, s) == [e EXCEPT !.espera[s] = RemoveFirst(@, v)]

SueltaSolicitado(v, e, s) ==
  [e EXCEPT !.valor[s] = @ + 1, !.espera[s] = RemoveFirst(@, v)]

\* desalojarSemaforosDeProceso: v leaves what it waits for, then what it holds.
DejaDePedir(e, v) ==
  LET pide == e.solicitados[v]
      tras[k \in 0..Len(pide)] ==
        IF k = 0 THEN e ELSE SueltaSolicitado(v, tras[k - 1], pide[k])
  IN [tras[Len(pide)] EXCEPT !.solicitados[v] = <<>>]

DejaDeRetener(e, v) ==
  LET tiene == e.retenidos[v]
      tras[k \in 0..Len(tiene)] ==
        IF k = 0 THEN e ELSE SueltaRetenido(v, tras[k - 1], tiene[k])
  IN [tras[Len(tiene)] EXCEPT !.retenidos[v] = <<>>]

\* Slip: the multiprogramming permit of the victim is posted, as at a close.
ExpulsaYDevuelve(e, v) ==
  [DejaDeRetener(DejaDePedir(e, v), v)
     EXCEPT !.expulsados = @ \cup {v},
            !.posix["nivelMultiProgramacionGeneral"] = @ + 1]

\* The victim loses its semaphores, and finalizarProcesoPorDeadlock.
Expulsa(e, v) ==
  [DejaDeRetener(DejaDePedir(e, v), v) EXCEPT !.expulsados = @ \cup {v}]

\* procesoDeMayorPID, of the ones in deadlock.
MayorPid(e) ==
  LET ps == {Bloqueados(e)[i] : i \in EnDeadlock(e)}
  IN CHOOSE p \in ps : \A q \in ps : q <= p

\* One run of ejecutarAlgoritmoDeadlock: while there is a deadlock, the
\* youngest process in it is killed.
TrasDeteccion ==
  LET n == Cardinality(Procesos)
      tras[k \in 0..n] ==
        IF k = 0 THEN Foto
        ELSE IF HayDeadlock(tras[k - 1]) THEN Expulsa(tras[k - 1], MayorPid(tras[k - 1]))
             ELSE tras[k - 1]
  IN tras[n]

\* A run that finds a deadlock. An entry of Blocked whose process has been
\* freed takes no part in it: freed memory is not modelled further.
EjecutaDeadlock ==
  /\ HayDeadlock(Foto)
  /\ LET e == TrasDeteccion
         muertos == e.expulsados IN
     /\ valor' = e.valor /\ espera' = e.espera
     /\ retenidos' = e.retenidos /\ solicitados' = e.solicitados
     /\ procesosBlocked' = e.Blocked
     /\ procesosSuspendedBlock' = e.SuspendedBlock
     /\ procesosSuspendedReady' = e.SuspendedReady
     /\ procesosReady' = e.Ready
     /\ posix' = e.posix
     /\ expulsados' = expulsados \cup muertos
     /\ liberados' = liberados \cup muertos
     /\ buzon' = [p \in Procesos |->
                    IF p \in muertos /\ pedido[p] # "caido"
                    THEN Append(buzon[p], "EXPULSION") ELSE buzon[p]]
  /\ UNCHANGED <<procesosNew, procesosExec, listaEspera, activador, hilos,
                 medio, vuelveDeBloqueo, pedido, ops, perdidos>>

-----------------------------------------------------------------------------
\* The steps that touch no semaphore. AtiendeCerrar is one of them: liberarProceso
\* destroys the list of retained semaphores and releases none.
PasoCPUSem(c) ==
  \/ \E s \in Sems : \/ WaitBloqueante(c, s) \/ WaitInmediato(c, s)
                     \/ SignalQueLibera(c, s) \/ SignalSinEspera(c, s)
  \/ BloqueaEnSemaforo(c)
  \/ AvisaPost(c)
  \/ PasoCPU(c) /\ UNCHANGED semaforos

NextSem ==
  \/ \E p \in Procesos : LlegaEnOrden(p)
  \/ \E p \in Procesos : (RecibeRespuesta(p) \/ CaeCliente(p)) /\ UNCHANGED semaforos
  \/ (LargoPlazoSaca \/ LargoPlazoAgrega \/ CortoPlazo) /\ UNCHANGED semaforos
  \/ \E c \in CPUs : PasoCPUSem(c)
  \/ \E d \in Dispositivos : TerminaIO(d) /\ UNCHANGED semaforos
  \/ \E t \in Hilos : PasoLiberar(t) /\ UNCHANGED semaforos
  \/ (Suspende \/ NoSuspende \/ PasoPMP2) /\ UNCHANGED semaforos
  \/ EjecutaDeadlock
  \/ Reposo /\ UNCHANGED semaforos

SpecSem == InitSem /\ [][NextSem]_varsSem

-----------------------------------------------------------------------------
(* Properties.                                                             *)

\* Every variable keeps its type, and the processes that the detector kills are
\* freed.
TypeOKSem ==
  /\ TypeOK
  /\ valor \in [Sems -> Int]
  /\ espera \in [Sems -> Seq(Procesos)]
  /\ retenidos \in [Procesos -> Seq(Sems)]
  /\ solicitados \in [Procesos -> Seq(Sems)]
  /\ expulsados \subseteq liberados

\* The value of a semaphore tells its waiting list: negative, it is the number
\* of waiters, and otherwise there are none; and a process waits in a list
\* exactly when that semaphore is the one it asks for.
SemaforoCuadra ==
  /\ \A s \in Sems : Len(espera[s]) = (IF valor[s] < 0 THEN -valor[s] ELSE 0)
  /\ \A p \in Procesos, s \in Sems :
       Veces(espera[s], p) = Uno(solicitados[p] = <<s>>)

\* The entries of the waiting lists of the semaphores.
EsperanSem == UNION {{s} \X DOMAIN espera[s] : s \in Sems}

\* A process in a kernel semaphore is nowhere else: with the waiting lists of
\* the semaphores, every connected process is still in exactly one place that
\* will move it on, whatever the detector and the signals did.
UnSoloLugarSem ==
  \A p \in Procesos :
    Lugares(p) + Cardinality({e \in EsperanSem : espera[e[1]][e[2]] = p})
      = Uno(pedido[p] # "sinConectar" /\ p \notin liberados)

\* A client receives one answer per call, that of its call, or the news of its
\* own death while it waits for a semaphore. The service loop promises it ("si
\* viene de un bloqueo debemos notificarle a la matelib que se pudo o no
\* realizar").
RespuestasSem ==
  \A p \in Procesos :
    buzon[p] # <<>> =>
      \/ buzon[p] = <<pedido[p]>>
      \/ pedido[p] = "SEM_WAIT" /\ buzon[p] = <<"EXPULSION">>

Retienen(s) == {p \in Procesos : s \in ToSet(retenidos[p])}

\* What a real deadlock between two processes is, whatever lists they are in:
\* each waits for a semaphore that only the other retains.
Abrazo(p, q) ==
  \E s, t \in Sems :
    /\ p # q
    /\ solicitados[p] = <<s>> /\ Retienen(s) = {q}
    /\ solicitados[q] = <<t>> /\ Retienen(t) = {p}

\* The permits in use and free, with the processes that wait in semaphores,
\* counted as in CreditoDeMultiprogramacion.
CreditoSem ==
  posix["nivelMultiProgramacionGeneral"]
    + posix["nivelMultiProgramacionBajaPrioridad"]
    + Uno(fasePMP2 # "espera")
    + Uno(nuevo # Nadie) + Len(procesosReady)
    + Cardinality({c \in CPUs :
                     fase[c] \notin {"espera", "aBlocked", "aBlockedSem", "calcula"}})
    + Cardinality(EsperanIO)
    + Cardinality(EsperanSem)
    + Cardinality({t \in Hilos : fase[t] \in FasesLiberar \ {"aSuspendedReady"}})
    - Len(procesosSuspendedBlock)

\* A step neither loses nor invents a multiprogramming permit, signals and
\* hand-overs included, unless it kills. The detector posts none for a victim,
\* as the close of a process does, so each kill takes one away for good, or none
\* if the victim had given its own back when it was suspended; and a victim that
\* the race between suspension and release left twice in SuspendedBlock may
\* give back more than it had, for each hand-over takes an entry of it out.
KillPierdeUnPermiso ==
  [][/\ CreditoSem' - perdidos'
          >= (CreditoSem - perdidos) - Cardinality(expulsados' \ expulsados)
     /\ \/ CreditoSem' - perdidos' <= CreditoSem - perdidos
        \/ \E v \in expulsados' \ expulsados : Veces(procesosSuspendedBlock, v) > 1
    ]_varsSem

-----------------------------------------------------------------------------
(* Progress: the kernel threads keep running, the detector too, and the    *)
(* carpinchos take their answers and close.                                *)

EquidadSem ==
  /\ \A p \in Procesos : WF_varsSem(RecibeRespuesta(p) /\ UNCHANGED semaforos)
  /\ WF_varsSem((LargoPlazoSaca \/ LargoPlazoAgrega) /\ UNCHANGED semaforos)
  /\ WF_varsSem(CortoPlazo /\ UNCHANGED semaforos)
  /\ \A c \in CPUs : WF_varsSem(PasoCPUSem(c))
  /\ \A d \in Dispositivos : WF_varsSem(TerminaIO(d) /\ UNCHANGED semaforos)
  /\ \A t \in Hilos : WF_varsSem(PasoLiberar(t) /\ UNCHANGED semaforos)
  /\ WF_varsSem((Suspende \/ NoSuspende) /\ UNCHANGED semaforos)
  /\ WF_varsSem(PasoPMP2 /\ UNCHANGED semaforos)
  /\ \* WF_varsSem(EjecutaDeadlock), its enabling condition written out
     []<>~HayDeadlock(Foto) \/ []<><<EjecutaDeadlock>>_varsSem

SpecSemEquitativa == SpecSem /\ EquidadSem

\* Every deadlock between two processes is broken, though one of them may
\* still be on its way to Blocked, suspended or released when the detector
\* looks.
DeadlockSeResuelve ==
  \A p \in Procesos : \A q \in {r \in Procesos : r > p} :
    Abrazo(p, q) ~> ~Abrazo(p, q)
=============================================================================
