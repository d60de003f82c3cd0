---------------------------- MODULE Planificador ----------------------------
(***************************************************************************)
(* The process schedulers of the CarpinchOS kernel (src/Kernel): the six   *)
(* process lists, the POSIX semaphores that connect the planner threads,   *)
(* and those threads: the server that admits clients, the long-term        *)
(* planner, the short-term planner with its CPU threads, the two threads   *)
(* of the medium-term planner and one thread per IO device.                *)
(*                                                                         *)
(* Grain.  Every kernel list has one mutex and every critical section      *)
(* takes one of them (thread1_PMP takes three at once), so an action is a  *)
(* critical section, with the sem_waits that precede it and the sem_posts  *)
(* that follow it.  A post only enables other threads and the waits merged *)
(* here belong to semaphores with one consumer, so the merged steps commute *)
(* with the rest; every place where two critical sections are NOT one in   *)
(* the code stays a point where any other thread may run.                  *)
(***************************************************************************)
EXTENDS Integers, FiniteSets, Sequences, SequencesExt

CONSTANTS
  Procesos,               \* the carpinchos that may connect
  CPUs,                   \* the threads of rutinaDeProceso
  Dispositivos,           \* the IO devices of the configuration
  Nadie,                  \* the null process or device
  GradoMultiProgramacion, \* GRADO_MULTIPROGRAMACION
  MaxOps,                 \* bound: calls of one carpincho before it closes
  Caibles                 \* carpinchos whose connection may be cut

\* gradoMultiProcesamiento threads are created, one per permit
ASSUME ConstantesOK ==
  /\ IsFiniteSet(Procesos) /\ IsFiniteSet(CPUs) /\ IsFiniteSet(Dispositivos)
  /\ CPUs # {}
  /\ CPUs \cap Dispositivos = {}
  /\ Nadie \notin Procesos /\ Nadie \notin Dispositivos
  /\ GradoMultiProgramacion \in Nat \ {0}
  /\ MaxOps \in Nat
  /\ Caibles \subseteq Procesos

Hilos == CPUs \cup Dispositivos

\* The counting semaphores of inicializarSemaforosGlobales.
NombresPosix == {"hayProcesosNew", "nivelMultiProgramacionBajaPrioridad",
  "hayProcesosReady", "procesosDisponiblesParaEjecutar",
  "nivelMultiprocesamiento", "nivelMultiProgramacionGeneral",
  "signalSuspensionProceso", "procesoNecesitaEntrarEnReady"}

\* The calls of the client library whose effect on the schedulers differs.
\* EXPULSION is the answer 3 to a SEM_WAIT: the carpincho has been killed.
Codigos == {"INICIALIZAR_ESTRUCTURA", "CONECTAR_IO", "SEM_WAIT", "SEM_SIGNAL",
            "CERRAR_INSTANCIA", "OTRA", "EXPULSION"}
EstadosCliente == {"sinConectar", "ninguno", "fin", "caido"} \cup Codigos

FasesLiberar == {"miraSuspendidos", "aSuspendedReady", "quitaDeBlocked", "aReady"}
\* The last two are those of the calls on kernel semaphores (Semaforos).
FasesCPU == {"espera", "tomado", "enExec", "avisa", "atiende", "aDispositivo",
             "aBlocked", "calcula", "aBlockedSem", "respondeSignal"}
Motivos == {"NO_BLOQUEADO", "BLOCK_IO", "BLOCK_SEM"}

VARIABLES
  procesosNew, procesosReady, procesosExec, procesosBlocked,
  procesosSuspendedBlock, procesosSuspendedReady,  \* the kernel's lists
  listaEspera,     \* of each device: listaDeProcesosEnEspera
  activador,       \* of each device: activadorDispositivo
  posix,           \* the values of the POSIX semaphores
  fase,            \* where each CPU and device thread is
  ejecutando,      \* of each CPU thread: procesoListoParaEjecutar
  dispositivo,     \* of each CPU thread: the device of the call it serves
  liberado,        \* of each thread: argument of ponerEnElReadyIndicado
  nuevo,           \* procesoNuevo, local of planificadorLargoPlazo
  fasePMP2,        \* where thread2_PMP is
  preparado,       \* procesoParaPreparar, local of thread2_PMP
  vuelveDeBloqueo, \* field of proceso_kernel
  liberados,       \* processes whose proceso_kernel has been freed
  pedido,          \* the call each client waits on, or its state
  buzon,           \* the answers on their way to each client
  ops,             \* calls each client has made (bound MaxOps)
  perdidos         \* additions to procesosSuspendedBlock lost to the data race

colas == <<procesosNew, procesosReady, procesosExec, procesosBlocked,
           procesosSuspendedBlock, procesosSuspendedReady>>
hilos == <<fase, ejecutando, dispositivo, liberado>>
medio == <<nuevo, fasePMP2, preparado>>
clientes == <<pedido, buzon, ops>>
vars == <<procesosNew, procesosReady, procesosExec, procesosBlocked,
          procesosSuspendedBlock, procesosSuspendedReady, listaEspera,
          activador, posix, fase, ejecutando, dispositivo, liberado, nuevo,
          fasePMP2, preparado, vuelveDeBloqueo, liberados, pedido, buzon, ops,
          perdidos>>

-----------------------------------------------------------------------------
(* Lists of the commons library, as the kernel uses them.                  *)

\* A predicate on the pid of a list entry: it is that of process p, and of a
\* freed structure it may read as any pid at all.
PuedeSer(q, p) == q = p \/ q \in liberados

\* The positions list_remove_by_condition may find for the pid of p: the
\* first true match, or any freed entry before it.
Hallazgos(lista, p) ==
  {i \in 1..Len(lista) :
     /\ PuedeSer(lista[i], p)
     /\ \A j \in 1..(i - 1) : lista[j] # p}

\* Whether it may find none.
PuedeFaltar(lista, p) == \A i \in 1..Len(lista) : lista[i] # p

\* The list after list_remove_by_condition, and whether something was removed.
QuitaPorPid(lista, p, lista2, hallado) ==
  \/ /\ hallado
     /\ \E i \in Hallazgos(lista, p) : lista2 = RemoveAt(lista, i)
  \/ /\ ~hallado
     /\ PuedeFaltar(lista, p)
     /\ lista2 = lista

\* enviarPaquete: the answer is lost when the client has gone.
Enviar(p, codigo) ==
  buzon' = IF pedido[p] = "caido" THEN buzon
           ELSE [buzon EXCEPT ![p] = Append(@, codigo)]

Init ==
  /\ procesosNew = <<>> /\ procesosReady = <<>> /\ procesosExec = <<>>
  /\ procesosBlocked = <<>> /\ procesosSuspendedBlock = <<>>
  /\ procesosSuspendedReady = <<>>
  /\ listaEspera = [d \in Dispositivos |-> <<>>]
  /\ activador = [d \in Dispositivos |-> 0]
  /\ posix = [s \in NombresPosix |->
                CASE s = "nivelMultiprocesamiento" -> Cardinality(CPUs)
                  [] s = "nivelMultiProgramacionGeneral" -> GradoMultiProgramacion
                  [] OTHER -> 0]
  /\ fase = [t \in Hilos |-> "espera"]
  /\ ejecutando = [c \in CPUs |-> Nadie]
  /\ dispositivo = [c \in CPUs |-> Nadie]
  /\ liberado = [t \in Hilos |-> Nadie]
  /\ nuevo = Nadie /\ fasePMP2 = "espera" /\ preparado = Nadie
  /\ vuelveDeBloqueo = [p \in Procesos |-> "NO_BLOQUEADO"]
  /\ liberados = {}
  /\ pedido = [p \in Procesos |-> "sinConectar"]
  /\ buzon = [p \in Procesos |-> <<>>]
  /\ ops = [p \in Procesos |-> 0]
  /\ perdidos = 0

-----------------------------------------------------------------------------
(* The clients: a carpincho linked with MateLib makes one call at a time   *)
(* and takes the next message of its socket as the answer, whatever its    *)
(* code.                                                                   *)

\* The mate_* functions: the call is sent, and its caller waits.
Llama(p, codigo) ==
  /\ pedido[p] = "ninguno"
  /\ pedido' = [pedido EXCEPT ![p] = codigo]

\* What the pending call makes of the message it takes: mate_close ends the
\* client, and so does mate_sem_wait when it is told of a deadlock.
TrasRespuesta(llamada, respuesta) ==
  IF \/ llamada = "CERRAR_INSTANCIA"
     \/ llamada = "SEM_WAIT" /\ respuesta = "EXPULSION"
  THEN "fin" ELSE "ninguno"

\* inicializarProcesoNuevo, run by the thread of a fresh connection.
LlegaProceso(p) ==
  /\ pedido[p] = "sinConectar"
  /\ pedido' = [pedido EXCEPT ![p] = "INICIALIZAR_ESTRUCTURA"]
  /\ procesosNew' = Append(procesosNew, p)
  /\ posix' = [posix EXCEPT !["hayProcesosNew"] = @ + 1,
                            !["procesoNecesitaEntrarEnReady"] = @ + 1,
                            !["signalSuspensionProceso"] = @ + 1]
  /\ UNCHANGED <<procesosReady, procesosExec, procesosBlocked,
                 procesosSuspendedBlock, procesosSuspendedReady, listaEspera,
                 activador, hilos, medio, vuelveDeBloqueo, liberados, buzon,
                 ops, perdidos>>

\* recibir_mensaje of the client library: the pending call returns.
RecibeRespuesta(p) ==
  /\ pedido[p] \in Codigos
  /\ buzon[p] # <<>>
  /\ buzon' = [buzon EXCEPT ![p] = Tail(@)]
  /\ pedido' = [pedido EXCEPT ![p] = TrasRespuesta(@, Head(buzon[p]))]
  /\ UNCHANGED <<colas, listaEspera, activador, posix, hilos, medio,
                 vuelveDeBloqueo, liberados, ops, perdidos>>

\* The connection of a client is cut: from then on recv fails, and the CPU
\* thread that serves it repeats its loop without ever receiving a call.
CaeCliente(p) ==
  /\ p \in Caibles
  /\ pedido[p] \in Codigos \cup {"ninguno"}
  /\ pedido' = [pedido EXCEPT ![p] = "caido"]
  /\ buzon' = [buzon EXCEPT ![p] = <<>>]
  /\ UNCHANGED <<colas, listaEspera, activador, posix, hilos, medio,
                 vuelveDeBloqueo, liberados, ops, perdidos>>

-----------------------------------------------------------------------------
(* Long-term planner.                                                      *)

\* Slip: the newest process is admitted first.
SacaElUltimo ==
  /\ nuevo = Nadie
  /\ posix["hayProcesosNew"] > 0
  /\ posix["nivelMultiProgramacionBajaPrioridad"] > 0
  /\ posix' = [posix EXCEPT !["hayProcesosNew"] = @ - 1,
                            !["nivelMultiProgramacionBajaPrioridad"] = @ - 1]
  /\ nuevo' = Last(procesosNew)
  /\ procesosNew' = Front(procesosNew)
  /\ UNCHANGED <<procesosReady, procesosExec, procesosBlocked,
                 procesosSuspendedBlock, procesosSuspendedReady, listaEspera,
                 activador, hilos, fasePMP2, preparado, vuelveDeBloqueo,
                 liberados, clientes, perdidos>>

LargoPlazoSaca ==
  /\ nuevo = Nadie
  /\ posix["hayProcesosNew"] > 0
  /\ posix["nivelMultiProgramacionBajaPrioridad"] > 0
  /\ posix' = [posix EXCEPT !["hayProcesosNew"] = @ - 1,
                            !["nivelMultiProgramacionBajaPrioridad"] = @ - 1]
  /\ nuevo' = Head(procesosNew)
  /\ procesosNew' = Tail(procesosNew)
  /\ UNCHANGED <<procesosReady, procesosExec, procesosBlocked,
                 procesosSuspendedBlock, procesosSuspendedReady, listaEspera,
                 activador, hilos, fasePMP2, preparado, vuelveDeBloqueo,
                 liberados, clientes, perdidos>>

\* establecerConexionConLaMemoria has ended; the process enters Ready.
LargoPlazoAgrega ==
  /\ nuevo # Nadie
  /\ procesosReady' = Append(procesosReady, nuevo)
  /\ nuevo' = Nadie
  /\ posix' = [posix EXCEPT !["hayProcesosReady"] = @ + 1]
  /\ UNCHANGED <<procesosNew, procesosExec, procesosBlocked,
                 procesosSuspendedBlock, procesosSuspendedReady, listaEspera,
                 activador, hilos, fasePMP2, preparado, vuelveDeBloqueo,
                 liberados, clientes, perdidos>>

-----------------------------------------------------------------------------
(* Short-term planner and the CPU threads.                                 *)

\* Slips: a process is dispatched without waiting for a CPU; or its dispatch
\* is posted twice.
DespachaSinCPU ==
  /\ posix["hayProcesosReady"] > 0
  /\ posix' = [posix EXCEPT !["hayProcesosReady"] = @ - 1,
                            !["nivelMultiprocesamiento"] = @ - 1,
                            !["procesosDisponiblesParaEjecutar"] = @ + 1]
  /\ UNCHANGED <<colas, listaEspera, activador, hilos, medio,
                 vuelveDeBloqueo, liberados, clientes, perdidos>>
DespachaDosVeces ==
  /\ posix["hayProcesosReady"] > 0
  /\ posix["nivelMultiprocesamiento"] > 0
  /\ posix' = [posix EXCEPT !["hayProcesosReady"] = @ - 1,
                            !["nivelMultiprocesamiento"] = @ - 1,
                            !["procesosDisponiblesParaEjecutar"] = @ + 2]
  /\ UNCHANGED <<colas, listaEspera, activador, hilos, medio,
                 vuelveDeBloqueo, liberados, clientes, perdidos>>

CortoPlazo ==
  /\ posix["hayProcesosReady"] > 0
  /\ posix["nivelMultiprocesamiento"] > 0
  /\ posix' = [posix EXCEPT !["hayProcesosReady"] = @ - 1,
                            !["nivelMultiprocesamiento"] = @ - 1,
                            !["procesosDisponiblesParaEjecutar"] = @ + 1]
  /\ UNCHANGED <<colas, listaEspera, activador, hilos, medio,
                 vuelveDeBloqueo, liberados, clientes, perdidos>>

\* replanificacion sorts Ready by estimates and waiting times that are not
\* modelled: the entry that comes first may be any of them.
PrimeroTrasOrdenar == 1..Len(procesosReady)

\* A CPU thread takes the first process of Ready after the sort.
TomaDeReady(c) ==
  /\ fase[c] = "espera"
  /\ posix["procesosDisponiblesParaEjecutar"] > 0
  /\ posix' = [posix EXCEPT !["procesosDisponiblesParaEjecutar"] = @ - 1]
  /\ \E i \in PrimeroTrasOrdenar :
       /\ ejecutando' = [ejecutando EXCEPT ![c] = procesosReady[i]]
       /\ procesosReady' = RemoveAt(procesosReady, i)
  /\ fase' = [fase EXCEPT ![c] = "tomado"]
  /\ UNCHANGED <<procesosNew, procesosExec, procesosBlocked,
                 procesosSuspendedBlock, procesosSuspendedReady, listaEspera,
                 activador, dispositivo, liberado, medio, vuelveDeBloqueo,
                 liberados, clientes, perdidos>>

EntraEnExec(c) ==
  /\ fase[c] = "tomado"
  /\ procesosExec' = Append(procesosExec, ejecutando[c])
  /\ fase' = [fase EXCEPT ![c] = "enExec"]
  /\ UNCHANGED <<procesosNew, procesosReady, procesosBlocked,
                 procesosSuspendedBlock, procesosSuspendedReady, listaEspera,
                 activador, posix, ejecutando, dispositivo, liberado, medio,
                 vuelveDeBloqueo, liberados, clientes, perdidos>>

\* enviarInformacionAdministrativaDelProceso, only if it comes from no block.
AvisaInicio(c) ==
  /\ fase[c] = "enExec"
  /\ \/ /\ vuelveDeBloqueo[ejecutando[c]] = "NO_BLOQUEADO"
        /\ Enviar(ejecutando[c], "INICIALIZAR_ESTRUCTURA")
     \/ /\ vuelveDeBloqueo[ejecutando[c]] # "NO_BLOQUEADO"
        /\ UNCHANGED buzon
  /\ fase' = [fase EXCEPT ![c] = "avisa"]
  /\ UNCHANGED <<colas, listaEspera, activador, posix, ejecutando, dispositivo,
                 liberado, medio, vuelveDeBloqueo, liberados, pedido, ops,
                 perdidos>>

\* Slip: vuelveDeBloqueo is not cleared.
AvisaSinLimpiar(c) ==
  LET p == ejecutando[c] IN
  /\ fase[c] = "avisa"
  /\ \/ vuelveDeBloqueo[p] = "BLOCK_IO" /\ Enviar(p, "CONECTAR_IO")
     \/ vuelveDeBloqueo[p] = "BLOCK_SEM" /\ Enviar(p, "SEM_WAIT")
     \/ vuelveDeBloqueo[p] = "NO_BLOQUEADO" /\ UNCHANGED buzon
  /\ fase' = [fase EXCEPT ![c] = "atiende"]
  /\ UNCHANGED <<colas, listaEspera, activador, posix, ejecutando, dispositivo,
                 liberado, medio, vuelveDeBloqueo, liberados, pedido, ops,
                 perdidos>>

\* The head of the service loop: the answer of the call it was blocked in.
AvisaDesbloqueo(c) ==
  LET p == ejecutando[c] IN
  /\ fase[c] = "avisa"
  /\ \/ vuelveDeBloqueo[p] = "BLOCK_IO" /\ Enviar(p, "CONECTAR_IO")
     \/ vuelveDeBloqueo[p] = "BLOCK_SEM" /\ Enviar(p, "SEM_WAIT")
     \/ vuelveDeBloqueo[p] = "NO_BLOQUEADO" /\ UNCHANGED buzon
  /\ vuelveDeBloqueo' = [vuelveDeBloqueo EXCEPT ![p] = "NO_BLOQUEADO"]
  /\ fase' = [fase EXCEPT ![c] = "atiende"]
  /\ UNCHANGED <<colas, listaEspera, activador, posix, ejecutando, dispositivo,
                 liberado, medio, liberados, pedido, ops, perdidos>>

\* What every request handler shares: thread c has received a call of kind
\* codigo from the client of its process.
Atiende(c, codigo) ==
  /\ fase[c] = "atiende"
  /\ Llama(ejecutando[c], codigo)

CuentaOp(p) ==
  /\ ops[p] < MaxOps
  /\ ops' = [ops EXCEPT ![p] = @ + 1]

\* A call the schedulers only relay and answer: memory operations, semaphore
\* creation, an IO call on a device that is not configured.
AtiendeOtra(c) ==
  /\ Atiende(c, "OTRA")
  /\ CuentaOp(ejecutando[c])
  /\ Enviar(ejecutando[c], "OTRA")
  /\ fase' = [fase EXCEPT ![c] = "avisa"]
  /\ UNCHANGED <<colas, listaEspera, activador, posix, ejecutando, dispositivo,
                 liberado, medio, vuelveDeBloqueo, liberados, perdidos>>

\* Slip: the process is left in Exec.
AtiendeIOSinQuitar(c, d) ==
  /\ Atiende(c, "CONECTAR_IO")
  /\ CuentaOp(ejecutando[c])
  /\ vuelveDeBloqueo' = [vuelveDeBloqueo EXCEPT ![ejecutando[c]] = "BLOCK_IO"]
  /\ dispositivo' = [dispositivo EXCEPT ![c] = d]
  /\ fase' = [fase EXCEPT ![c] = "aDispositivo"]
  /\ UNCHANGED <<colas, listaEspera, activador, posix, ejecutando, liberado,
                 medio, liberados, buzon, perdidos>>

\* realizarOperacionIO up to agregarProcesoADispositivo.
AtiendeIO(c, d) ==
  /\ Atiende(c, "CONECTAR_IO")
  /\ CuentaOp(ejecutando[c])
  /\ \E hallado \in BOOLEAN :
       QuitaPorPid(procesosExec, ejecutando[c], procesosExec', hallado)
  /\ vuelveDeBloqueo' = [vuelveDeBloqueo EXCEPT ![ejecutando[c]] = "BLOCK_IO"]
  /\ dispositivo' = [dispositivo EXCEPT ![c] = d]
  /\ fase' = [fase EXCEPT ![c] = "aDispositivo"]
  /\ UNCHANGED <<procesosNew, procesosReady, procesosBlocked,
                 procesosSuspendedBlock, procesosSuspendedReady, listaEspera,
                 activador, posix, ejecutando, liberado, medio, liberados,
                 buzon, perdidos>>

\* agregarProcesoADispositivo, first critical section.
AgregaADispositivo(c) ==
  /\ fase[c] = "aDispositivo"
  /\ listaEspera' = [listaEspera EXCEPT ![dispositivo[c]] =
                       Append(@, ejecutando[c])]
  /\ fase' = [fase EXCEPT ![c] = "aBlocked"]
  /\ UNCHANGED <<colas, activador, posix, ejecutando, dispositivo, liberado,
                 medio, vuelveDeBloqueo, liberados, clientes, perdidos>>

\* Slip: the device is not activated.
AgregaSinActivar(c) ==
  /\ fase[c] = "aBlocked"
  /\ procesosBlocked' = Append(procesosBlocked, ejecutando[c])
  /\ posix' = [posix EXCEPT !["signalSuspensionProceso"] = @ + 1]
  /\ dispositivo' = [dispositivo EXCEPT ![c] = Nadie]
  /\ fase' = [fase EXCEPT ![c] = "calcula"]
  /\ UNCHANGED <<procesosNew, procesosReady, procesosExec,
                 procesosSuspendedBlock, procesosSuspendedReady, listaEspera,
                 activador, ejecutando, liberado, medio, vuelveDeBloqueo,
                 liberados, clientes, perdidos>>

\* agregarProcesoADispositivo, second critical section and both posts.
AgregaABlocked(c) ==
  /\ fase[c] = "aBlocked"
  /\ procesosBlocked' = Append(procesosBlocked, ejecutando[c])
  /\ posix' = [posix EXCEPT !["signalSuspensionProceso"] = @ + 1]
  /\ activador' = [activador EXCEPT ![dispositivo[c]] = @ + 1]
  /\ dispositivo' = [dispositivo EXCEPT ![c] = Nadie]
  /\ fase' = [fase EXCEPT ![c] = "calcula"]
  /\ UNCHANGED <<procesosNew, procesosReady, procesosExec,
                 procesosSuspendedBlock, procesosSuspendedReady, listaEspera,
                 ejecutando, liberado, medio, vuelveDeBloqueo, liberados,
                 clientes, perdidos>>

\* Slip: the CPU permit is not returned.
CalculaSinDevolver(c) ==
  /\ fase[c] = "calcula"
  /\ ejecutando' = [ejecutando EXCEPT ![c] = Nadie]
  /\ fase' = [fase EXCEPT ![c] = "espera"]
  /\ UNCHANGED <<colas, listaEspera, activador, posix, dispositivo, liberado,
                 medio, vuelveDeBloqueo, liberados, clientes, perdidos>>

\* The burst is measured and the CPU permit returned.
CalculaEstimacion(c) ==
  /\ fase[c] = "calcula"
  /\ posix' = [posix EXCEPT !["nivelMultiprocesamiento"] = @ + 1]
  /\ ejecutando' = [ejecutando EXCEPT ![c] = Nadie]
  /\ fase' = [fase EXCEPT ![c] = "espera"]
  /\ UNCHANGED <<colas, listaEspera, activador, dispositivo, liberado, medio,
                 vuelveDeBloqueo, liberados, clientes, perdidos>>

\* Slip: the multiprogramming permit is not returned.
CierraSinDevolver(c) ==
  LET p == ejecutando[c] IN
  /\ Atiende(c, "CERRAR_INSTANCIA")
  /\ \E hallado \in BOOLEAN :
       QuitaPorPid(procesosExec, p, procesosExec', hallado)
  /\ Enviar(p, "CERRAR_INSTANCIA")
  /\ liberados' = liberados \cup {p}
  /\ posix' = [posix EXCEPT !["nivelMultiprocesamiento"] = @ + 1]
  /\ ejecutando' = [ejecutando EXCEPT ![c] = Nadie]
  /\ fase' = [fase EXCEPT ![c] = "espera"]
  /\ UNCHANGED <<procesosNew, procesosReady, procesosBlocked,
                 procesosSuspendedBlock, procesosSuspendedReady, listaEspera,
                 activador, dispositivo, liberado, medio, vuelveDeBloqueo,
                 ops, perdidos>>

\* cerrarProceso, and the two permits its thread returns.
AtiendeCerrar(c) ==
  LET p == ejecutando[c] IN
  /\ Atiende(c, "CERRAR_INSTANCIA")
  /\ \E hallado \in BOOLEAN :
       QuitaPorPid(procesosExec, p, procesosExec', hallado)
  /\ Enviar(p, "CERRAR_INSTANCIA")
  /\ liberados' = liberados \cup {p}
  /\ posix' = [posix EXCEPT !["nivelMultiprocesamiento"] = @ + 1,
                            !["nivelMultiProgramacionGeneral"] = @ + 1]
  /\ ejecutando' = [ejecutando EXCEPT ![c] = Nadie]
  /\ fase' = [fase EXCEPT ![c] = "espera"]
  /\ UNCHANGED <<procesosNew, procesosReady, procesosBlocked,
                 procesosSuspendedBlock, procesosSuspendedReady, listaEspera,
                 activador, dispositivo, liberado, medio, vuelveDeBloqueo,
                 ops, perdidos>>

-----------------------------------------------------------------------------
(* IO devices, and ponerEnElReadyIndicado, which they share with the       *)
(* signals on kernel semaphores.                                           *)

\* Slip: the head of the waiting list is read and not removed.
TerminaSinQuitar(d) ==
  /\ fase[d] = "espera"
  /\ activador[d] > 0
  /\ activador' = [activador EXCEPT ![d] = @ - 1]
  /\ liberado' = [liberado EXCEPT ![d] = Head(listaEspera[d])]
  /\ fase' = [fase EXCEPT ![d] = "miraSuspendidos"]
  /\ UNCHANGED <<colas, listaEspera, posix, ejecutando, dispositivo, medio,
                 vuelveDeBloqueo, liberados, clientes, perdidos>>

\* rutinaDispositivoIO: the burst is over.
TerminaIO(d) ==
  /\ fase[d] = "espera"
  /\ activador[d] > 0
  /\ activador' = [activador EXCEPT ![d] = @ - 1]
  /\ liberado' = [liberado EXCEPT ![d] = Head(listaEspera[d])]
  /\ listaEspera' = [listaEspera EXCEPT ![d] = Tail(@)]
  /\ fase' = [fase EXCEPT ![d] = "miraSuspendidos"]
  /\ UNCHANGED <<colas, posix, ejecutando, dispositivo, medio,
                 vuelveDeBloqueo, liberados, clientes, perdidos>>

\* First critical section: was it suspended while it was blocked?
MiraSuspendidos(t) ==
  /\ fase[t] = "miraSuspendidos"
  /\ \E hallado \in BOOLEAN :
       /\ QuitaPorPid(procesosSuspendedBlock, liberado[t],
                      procesosSuspendedBlock', hallado)
       /\ fase' = [fase EXCEPT ![t] = IF hallado THEN "aSuspendedReady"
                                      ELSE "quitaDeBlocked"]
  /\ UNCHANGED <<procesosNew, procesosReady, procesosExec, procesosBlocked,
                 procesosSuspendedReady, listaEspera, activador, posix,
                 ejecutando, dispositivo, liberado, medio, vuelveDeBloqueo,
                 liberados, clientes, perdidos>>

\* Where a thread goes on after ponerEnElReadyIndicado: a device waits for
\* its next activation, a CPU thread answers the SEM_SIGNAL it serves.
TrasLiberar(t) ==
  /\ liberado' = [liberado EXCEPT ![t] = Nadie]
  /\ fase' = [fase EXCEPT ![t] = IF t \in CPUs THEN "respondeSignal"
                                   ELSE "espera"]

\* Slip: nobody is told that the process wants to enter Ready.
ASuspendedReadySinPedir(t) ==
  /\ fase[t] = "aSuspendedReady"
  /\ procesosSuspendedReady' = Append(procesosSuspendedReady, liberado[t])
  /\ posix' = [posix EXCEPT !["signalSuspensionProceso"] = @ + 1]
  /\ TrasLiberar(t)
  /\ UNCHANGED <<procesosNew, procesosReady, procesosExec, procesosBlocked,
                 procesosSuspendedBlock, listaEspera, activador, ejecutando,
                 dispositivo, medio, vuelveDeBloqueo, liberados, clientes,
                 perdidos>>

ASuspendedReady(t) ==
  /\ fase[t] = "aSuspendedReady"
  /\ procesosSuspendedReady' = Append(procesosSuspendedReady, liberado[t])
  /\ posix' = [posix EXCEPT !["procesoNecesitaEntrarEnReady"] = @ + 1,
                            !["signalSuspensionProceso"] = @ + 1]
  /\ TrasLiberar(t)
  /\ UNCHANGED <<procesosNew, procesosReady, procesosExec, procesosBlocked,
                 procesosSuspendedBlock, listaEspera, activador, ejecutando,
                 dispositivo, medio, vuelveDeBloqueo, liberados, clientes,
                 perdidos>>

\* The removal from Blocked, whose result the code ignores.
QuitaDeBlocked(t) ==
  /\ fase[t] = "quitaDeBlocked"
  /\ \E hallado \in BOOLEAN :
       QuitaPorPid(procesosBlocked, liberado[t], procesosBlocked', hallado)
  /\ fase' = [fase EXCEPT ![t] = "aReady"]
  /\ UNCHANGED <<procesosNew, procesosReady, procesosExec,
                 procesosSuspendedBlock, procesosSuspendedReady, listaEspera,
                 activador, posix, ejecutando, dispositivo, liberado, medio,
                 vuelveDeBloqueo, liberados, clientes, perdidos>>

\* Slip: the short-term planner is not told.
AReadySinAviso(t) ==
  /\ fase[t] = "aReady"
  /\ procesosReady' = Append(procesosReady, liberado[t])
  /\ TrasLiberar(t)
  /\ UNCHANGED <<procesosNew, procesosExec, procesosBlocked,
                 procesosSuspendedBlock, procesosSuspendedReady, listaEspera,
                 activador, posix, ejecutando, dispositivo, medio,
                 vuelveDeBloqueo, liberados, clientes, perdidos>>

AReady(t) ==
  /\ fase[t] = "aReady"
  /\ procesosReady' = Append(procesosReady, liberado[t])
  /\ posix' = [posix EXCEPT !["hayProcesosReady"] = @ + 1]
  /\ TrasLiberar(t)
  /\ UNCHANGED <<procesosNew, procesosExec, procesosBlocked,
                 procesosSuspendedBlock, procesosSuspendedReady, listaEspera,
                 activador, ejecutando, dispositivo, medio, vuelveDeBloqueo,
                 liberados, clientes, perdidos>>

-----------------------------------------------------------------------------
(* Medium-term planner.                                                    *)

\* thread1_PMP decides under the mutexes of Ready, New and Blocked, but it
\* adds to procesosSuspendedBlock without the mutex of that list: while
\* another thread is removing from it, the addition may be lost.
AgregaASuspendedBlock(p) ==
  \/ /\ procesosSuspendedBlock' = Append(procesosSuspendedBlock, p)
     /\ UNCHANGED perdidos
  \/ /\ \E t \in Hilos : fase[t] = "miraSuspendidos"
     /\ procesosSuspendedBlock # <<>>
     /\ UNCHANGED procesosSuspendedBlock
     /\ perdidos' = perdidos + 1

HayQueSuspender ==
  procesosReady = <<>> /\ procesosNew # <<>> /\ procesosBlocked # <<>>

Suspende ==
  /\ posix["signalSuspensionProceso"] > 0
  /\ HayQueSuspender
  /\ AgregaASuspendedBlock(procesosBlocked[Len(procesosBlocked)])
  /\ procesosBlocked' = Front(procesosBlocked)
  /\ posix' = [posix EXCEPT !["signalSuspensionProceso"] = @ - 1,
                            !["nivelMultiProgramacionGeneral"] = @ + 1]
  /\ UNCHANGED <<procesosNew, procesosReady, procesosExec,
                 procesosSuspendedReady, listaEspera, activador, hilos, medio,
                 vuelveDeBloqueo, liberados, clientes>>

NoSuspende ==
  /\ posix["signalSuspensionProceso"] > 0
  /\ ~HayQueSuspender
  /\ posix' = [posix EXCEPT !["signalSuspensionProceso"] = @ - 1]
  /\ UNCHANGED <<colas, listaEspera, activador, hilos, medio,
                 vuelveDeBloqueo, liberados, clientes, perdidos>>

\* thread2_PMP: a permit and a process that wants it; who gets it?
DecideAdmision ==
  /\ fasePMP2 = "espera"
  /\ posix["procesoNecesitaEntrarEnReady"] > 0
  /\ posix["nivelMultiProgramacionGeneral"] > 0
  /\ \/ /\ procesosSuspendedReady = <<>>
        /\ posix' = [posix EXCEPT
             !["procesoNecesitaEntrarEnReady"] = @ - 1,
             !["nivelMultiProgramacionGeneral"] = @ - 1,
             !["nivelMultiProgramacionBajaPrioridad"] = @ + 1]
        /\ UNCHANGED fasePMP2
     \/ /\ procesosSuspendedReady # <<>>
        /\ posix' = [posix EXCEPT
             !["procesoNecesitaEntrarEnReady"] = @ - 1,
             !["nivelMultiProgramacionGeneral"] = @ - 1]
        /\ fasePMP2' = "saca"
  /\ UNCHANGED <<colas, listaEspera, activador, hilos, nuevo, preparado,
                 vuelveDeBloqueo, liberados, clientes, perdidos>>

SacaDeSuspendedReady ==
  /\ fasePMP2 = "saca"
  /\ preparado' = Head(procesosSuspendedReady)
  /\ procesosSuspendedReady' = Tail(procesosSuspendedReady)
  /\ fasePMP2' = "agrega"
  /\ UNCHANGED <<procesosNew, procesosReady, procesosExec, procesosBlocked,
                 procesosSuspendedBlock, listaEspera, activador, posix, hilos,
                 nuevo, vuelveDeBloqueo, liberados, clientes, perdidos>>

ReactivaSuspendido ==
  /\ fasePMP2 = "agrega"
  /\ procesosReady' = Append(procesosReady, preparado)
  /\ posix' = [posix EXCEPT !["hayProcesosReady"] = @ + 1]
  /\ preparado' = Nadie
  /\ fasePMP2' = "espera"
  /\ UNCHANGED <<procesosNew, procesosExec, procesosBlocked,
                 procesosSuspendedBlock, procesosSuspendedReady, listaEspera,
                 activador, hilos, nuevo, vuelveDeBloqueo, liberados, clientes,
                 perdidos>>

-----------------------------------------------------------------------------
PasoCPU(c) ==
  \/ TomaDeReady(c) \/ EntraEnExec(c) \/ AvisaInicio(c) \/ AvisaDesbloqueo(c)
  \/ AtiendeOtra(c) \/ (\E d \in Dispositivos : AtiendeIO(c, d))
  \/ AgregaADispositivo(c) \/ AgregaABlocked(c) \/ CalculaEstimacion(c)
  \/ AtiendeCerrar(c)

PasoLiberar(t) ==
  MiraSuspendidos(t) \/ ASuspendedReady(t) \/ QuitaDeBlocked(t) \/ AReady(t)

PasoPMP2 == DecideAdmision \/ SacaDeSuspendedReady \/ ReactivaSuspendido

\* Every carpincho has closed its instance, or its connection is cut, and the
\* kernel waits for connections.
Reposo ==
  /\ \A p \in Procesos : pedido[p] \in {"fin", "caido"}
  /\ UNCHANGED vars

Next ==
  \/ \E p \in Procesos : LlegaProceso(p) \/ RecibeRespuesta(p) \/ CaeCliente(p)
  \/ LargoPlazoSaca \/ LargoPlazoAgrega
  \/ CortoPlazo
  \/ \E c \in CPUs : PasoCPU(c)
  \/ \E d \in Dispositivos : TerminaIO(d)
  \/ \E t \in Hilos : PasoLiberar(t)
  \/ Suspende \/ NoSuspende
  \/ PasoPMP2
  \/ Reposo

Spec == Init /\ [][Next]_vars

-----------------------------------------------------------------------------
(* Types.                                                                  *)

\* Every variable keeps its type: lists of processes, semaphore values that
\* never go below zero, and one program counter per thread.
TypeOK ==
  /\ procesosNew \in Seq(Procesos) /\ procesosReady \in Seq(Procesos)
  /\ procesosExec \in Seq(Procesos) /\ procesosBlocked \in Seq(Procesos)
  /\ procesosSuspendedBlock \in Seq(Procesos)
  /\ procesosSuspendedReady \in Seq(Procesos)
  /\ listaEspera \in [Dispositivos -> Seq(Procesos)]
  /\ activador \in [Dispositivos -> Nat]
  /\ posix \in [NombresPosix -> Nat]
  /\ fase \in [Hilos -> FasesCPU \cup FasesLiberar]
  /\ ejecutando \in [CPUs -> Procesos \cup {Nadie}]
  /\ dispositivo \in [CPUs -> Dispositivos \cup {Nadie}]
  /\ liberado \in [Hilos -> Procesos \cup {Nadie}]
  /\ nuevo \in Procesos \cup {Nadie}
  /\ fasePMP2 \in {"espera", "saca", "agrega"}
  /\ preparado \in Procesos \cup {Nadie}
  /\ vuelveDeBloqueo \in [Procesos -> Motivos]
  /\ liberados \subseteq Procesos
  /\ pedido \in [Procesos -> EstadosCliente]
  /\ buzon \in [Procesos -> Seq(Codigos)]
  /\ ops \in [Procesos -> 0..MaxOps]
  /\ perdidos \in Nat

(***************************************************************************)
(* The accounts that the POSIX semaphores keep.                            *)
(***************************************************************************)

Uno(b) == IF b THEN 1 ELSE 0
Ocupadas == {c \in CPUs : fase[c] # "espera"}

\* Admission: each request to enter Ready (procesoNecesitaEntrarEnReady) and
\* each low-priority permit stands for one process of New or SuspendedReady,
\* and hayProcesosNew counts New.
FichasDeAdmision ==
  /\ posix["hayProcesosNew"] = Len(procesosNew)
  /\ posix["procesoNecesitaEntrarEnReady"]
       + posix["nivelMultiProgramacionBajaPrioridad"]
       + Uno(fasePMP2 = "saca")
     = Len(procesosNew) + Len(procesosSuspendedReady)

\* Dispatch: each process of Ready is announced once, to the short-term
\* planner or, already granted a CPU permit, to the CPU threads.
FichasDeReady ==
  posix["hayProcesosReady"] + posix["procesosDisponiblesParaEjecutar"]
    = Len(procesosReady)

\* CPU permits are neither lost nor invented: a permit is free, granted to a
\* process of Ready, or held by a busy CPU thread.
PermisosDeCPU ==
  posix["nivelMultiprocesamiento"] + posix["procesosDisponiblesParaEjecutar"]
    + Cardinality(Ocupadas) = Cardinality(CPUs)

\* The CPU threads that have queued a process on d and not yet activated it.
EnCamino(d) == {c \in CPUs : fase[c] = "aBlocked" /\ dispositivo[c] = d}

\* Each activation of a device, made or about to be made, stands for one
\* process of its waiting list.
FichasDeIO ==
  \A d \in Dispositivos :
    activador[d] + Cardinality(EnCamino(d)) = Len(listaEspera[d])

\* No thread takes the head of an empty list: wherever the code calls
\* list_remove(lista, 0) after its sem_wait, the list has an entry.
NuncaSacaDeVacia ==
  /\ posix["hayProcesosNew"] > 0 => procesosNew # <<>>
  /\ posix["procesosDisponiblesParaEjecutar"] > 0 => procesosReady # <<>>
  /\ fasePMP2 = "saca" => procesosSuspendedReady # <<>>
  /\ \A d \in Dispositivos : activador[d] > 0 => listaEspera[d] # <<>>

(***************************************************************************)
(* Where each process is.                                                  *)
(***************************************************************************)

Veces(lista, p) == Cardinality({i \in 1..Len(lista) : lista[i] = p})

\* The CPU threads that own p: once it is in the list of a device, a CPU
\* thread still at work on the call has given it away.
DuenasCPU(p) ==
  {c \in CPUs : ejecutando[c] = p
                /\ fase[c] \notin {"espera", "aBlocked", "aBlockedSem", "calcula"}}

\* The entries of the waiting lists of the devices.
EsperanIO == UNION {{d} \X DOMAIN listaEspera[d] : d \in Dispositivos}

Lugares(p) ==
  Veces(procesosNew, p) + Uno(nuevo = p) + Veces(procesosReady, p)
    + Cardinality(DuenasCPU(p))
    + Cardinality({e \in EsperanIO : listaEspera[e[1]][e[2]] = p})
    + Cardinality({t \in Hilos : liberado[t] = p})
    + Veces(procesosSuspendedReady, p) + Uno(preparado = p)

\* Whatever races leave in Blocked and SuspendedBlock, a connected process is
\* always in exactly one place that will move it on: it is never queued
\* twice, never run by two CPU threads, and never lost.
UnSoloLugar ==
  \A p \in Procesos :
    Lugares(p) = Uno(pedido[p] # "sinConectar" /\ p \notin liberados)

\* Exec holds exactly the processes that the CPU threads serve, once each, so
\* every handler that looks its process up in Exec finds it.
ExecEsLoQueEjecutan ==
  LET Sirven == {c \in CPUs : fase[c] \in {"enExec", "avisa", "atiende",
                                       "respondeSignal"} \cup FasesLiberar}
  IN /\ ToSet(procesosExec) = {ejecutando[c] : c \in Sirven}
     /\ Len(procesosExec) = Cardinality(Sirven)

\* A client receives one answer per call and it is the answer of that call.
RespuestasCorrectas ==
  \A p \in Procesos : buzon[p] # <<>> => buzon[p] = <<pedido[p]>>

\* The multiprogramming permits that nobody holds: free, or on their way to
\* New or to SuspendedReady.
PermisosLibres ==
  posix["nivelMultiProgramacionGeneral"] + posix["nivelMultiProgramacionBajaPrioridad"]
    + Uno(fasePMP2 # "espera") + Uno(nuevo # Nadie)

\* The processes that occupy memory: ready, in a CPU, at a device or returning.
PermisosTomados ==
  Len(procesosReady)
    + Cardinality({c \in CPUs :
                     fase[c] \notin {"espera", "aBlocked", "aBlockedSem", "calcula"}})
    + Cardinality(EsperanIO)
    + Cardinality({t \in Hilos : fase[t] \in FasesLiberar \ {"aSuspendedReady"}})

\* The multiprogramming permits balance: the free ones and the ones held by
\* processes in memory are the configured degree, and one more for each entry
\* of SuspendedBlock, which returned its own. The balance survives the race
\* between suspension and release; only entries lost by the unlocked
\* list_add break it, by one permit each.
CreditoDeMultiprogramacion ==
  PermisosLibres + PermisosTomados
    = GradoMultiProgramacion + perdidos + Len(procesosSuspendedBlock)

\* The processes in Ready, in a CPU, or blocked and not suspended.
EnMemoria ==
  {p \in Procesos :
     \/ p = nuevo \/ p = preparado
     \/ p \in ToSet(procesosReady) \/ DuenasCPU(p) # {}
     \/ p \in ToSet(procesosBlocked) \ ToSet(procesosSuspendedBlock)}

\* At most GradoMultiProgramacion processes occupy memory. The comment of
\* planificadorLargoPlazo promises it ("el nivel de multiprocesamiento limita
\* la cantidad de procesos en memoria").
MemoriaAcotada == Cardinality(EnMemoria) <= GradoMultiProgramacion

(***************************************************************************)
(* The schedulers implement the process life cycle.                        *)
(***************************************************************************)

EstadoDe(p) ==
  CASE pedido[p] = "sinConectar" -> "Fuera"
    [] p \in liberados -> "Exit"
    [] p \in ToSet(procesosNew) \cup {nuevo} -> "New"
    [] \/ p \in ToSet(procesosSuspendedReady) \cup {preparado}
       \/ \E t \in Hilos : liberado[t] = p /\ fase[t] = "aSuspendedReady"
       -> "SuspendedReady"
    [] p \in ToSet(procesosReady) -> "Ready"
    [] DuenasCPU(p) # {} -> "Exec"
    [] OTHER -> "Blocked"

Ciclo == INSTANCE CicloDeVida WITH
  Grado <- Cardinality(CPUs),
  estado <- [p \in Procesos |-> EstadoDe(p)],
  colaNew <- (IF nuevo = Nadie THEN <<>> ELSE <<nuevo>>) \o procesosNew

\* Every step of the threads is a legal move of one process or no move.
CumpleCiclo == Ciclo!Spec

(***************************************************************************)
(* Progress.                                                               *)
(***************************************************************************)

\* Each thread of the kernel keeps running, and so do the carpinchos: they
\* take their answers and, after at most MaxOps calls, close.
Equidad ==
  /\ \A p \in Procesos : WF_vars(RecibeRespuesta(p))
  /\ WF_vars(LargoPlazoSaca \/ LargoPlazoAgrega)
  /\ WF_vars(CortoPlazo)
  /\ \A c \in CPUs : WF_vars(PasoCPU(c))
  /\ \A d \in Dispositivos : WF_vars(TerminaIO(d))
  /\ \A t \in Hilos : WF_vars(PasoLiberar(t))
  /\ WF_vars(Suspende \/ NoSuspende)
  /\ WF_vars(PasoPMP2)

SpecEquitativa == Spec /\ Equidad

\* Every carpincho that connects gets to close its instance, however the
\* planners interleave, when no connection is cut (a cut one takes its CPU
\* thread with it).
TodosTerminan ==
  \A p \in Procesos :
    pedido[p] = "INICIALIZAR_ESTRUCTURA" ~> pedido[p] = "fin"
=============================================================================
