--------------------------- MODULE SemaforosProofs ---------------------------
(***************************************************************************)
(* Theorems about Semaforos, for any number of carpinchos, CPU threads,    *)
(* devices and kernel semaphores, whatever the detector kills: the value   *)
(* of a semaphore agrees with its waiters, a process is in one place, and  *)
(* only kills lose permits of multiprogramming.                            *)
(*                                                                         *)
(* The map of the sites of the processes gets a companion, the semaphore   *)
(* that each process waits in. A call of a CPU thread moves one process by *)
(* both. A run of the detector moves many, in a photo of the state; it is  *)
(* followed one hand-over at a time, and what each hand-over keeps of the  *)
(* photo (Buena, EnMarcha) the whole run keeps, by the least number of     *)
(* hand-overs after which it would fail. The permits are followed by the   *)
(* balance Saldo, which a step of the schedulers leaves as it is.          *)
(***************************************************************************)
EXTENDS Semaforos, PlanificadorProofs, WellFoundedInduction

-----------------------------------------------------------------------------
(* Numbers and lists.                                                      *)

\* A set of natural numbers that is not empty has a least element.
LEMMA HayMinimo ==
  ASSUME NEW T, T \subseteq Nat, T # {}
  PROVE  \E i \in T : \A j \in T : i <= j
<1>1. PICK i \in T : \A j \in T : ~ (<<j, i>> \in OpToRel(<, Nat))
  BY NatLessThanWellFounded, WFMin
<1>2. ASSUME NEW j \in T PROVE i <= j
  <2>1. i \in Nat /\ j \in Nat
    OBVIOUS
  <2>2. ~ (j < i)
    BY <1>1, <2>1 DEF OpToRel
  <2>. QED  BY <2>1, <2>2
<1>. QED  BY <1>2

\* RemoveFirst takes out the first entry there is, if there is one.
LEMMA SacaElPrimero ==
  ASSUME NEW S, NEW s \in Seq(S), NEW e
  PROVE  /\ RemoveFirst(s, e) \in Seq(S)
         /\ \/ /\ e \notin ToSet(s) /\ RemoveFirst(s, e) = s
            \/ \E k \in 1..Len(s) : /\ e \in ToSet(s) /\ s[k] = e
                                    /\ RemoveFirst(s, e) = RemoveAt(s, k)
<1>0. e \in ToSet(s) <=> \E i \in 1..Len(s) : s[i] = e
  BY EnLista
<1>1. CASE \E i \in 1..Len(s) : s[i] = e
  <2>. DEFINE I == {i \in 1..Len(s) : s[i] = e}
  <2>1. I # {} /\ I \subseteq Nat
    BY <1>1
  <2>2. Min(I) \in I
    <3>. HIDE DEF I
    <3>. QED  BY <2>1, HayMinimo DEF Min
  <2>3. PICK k : k = Min(I)
    OBVIOUS
  <2>4. RemoveFirst(s, e) = RemoveAt(s, k)
    BY <1>1, <2>1, <2>3 DEF RemoveFirst, SelectInSeq
  <2>5. k \in 1..Len(s) /\ s[k] = e
    BY <2>2, <2>3
  <2>. QED  BY <1>0, <1>1, <2>4, <2>5, RemoveAtEsLista
<1>2. CASE ~\E i \in 1..Len(s) : s[i] = e
  BY <1>0, <1>2 DEF RemoveFirst
<1>. QED  BY <1>1, <1>2

-----------------------------------------------------------------------------
(* The invariant.                                                          *)

TiposSem ==
  /\ valor \in [Sems -> Int]
  /\ espera \in [Sems -> Seq(Procesos)]
  /\ retenidos \in [Procesos -> Seq(Sems)]
  /\ solicitados \in [Procesos -> Seq(Sems)]
  /\ expulsados \subseteq liberados

\* The values v tell the lengths of the waiting lists w.
Cuadran(v, w) == \A s \in Sems : Len(w[s]) = (IF v[s] < 0 THEN -v[s] ELSE 0)

\* By the map a, each process waits in the list of w of one semaphore, once,
\* or in none, and asks for that semaphore in r.
EnSusListas(a, w) == \A s \in Sems : Lista(a, w[s], s)
Piden(a, r) == \A p \in Procesos : r[p] = (IF a[p] = Nadie THEN <<>> ELSE <<a[p]>>)

\* The processes that wait in a semaphore are at site "semaforo".
Duermen(l, a) == \A p \in Procesos : l[p] = "semaforo" <=> a[p] # Nadie

Esperas == [Procesos -> Sems \cup {Nadie}]

UbicacionSem ==
  \E l \in [Procesos -> Sitios], a \in Esperas :
    Ubicados(l) /\ Duermen(l, a) /\ EnSusListas(a, espera) /\ Piden(a, solicitados)

InvSem == Inv /\ FasesComunes /\ TiposSem /\ Cuadran(valor, espera) /\ UbicacionSem

-----------------------------------------------------------------------------
(* The steps of the schedulers.                                            *)

\* Nothing brings a freed process back.
LEMMA LiberadosCrece == [Next]_vars => liberados \subseteq liberados'
  BY DEF Next, vars, LlegaProceso, RecibeRespuesta, CaeCliente, LargoPlazoSaca,
    LargoPlazoAgrega, CortoPlazo, PasoCPU, TomaDeReady, EntraEnExec, AvisaInicio,
    AvisaDesbloqueo, AtiendeOtra, AtiendeIO, AgregaADispositivo, AgregaABlocked,
    CalculaEstimacion, AtiendeCerrar, TerminaIO, PasoLiberar, MiraSuspendidos,
    ASuspendedReady, QuitaDeBlocked, AReady, Suspende, NoSuspende, PasoPMP2,
    DecideAdmision, SacaDeSuspendedReady, ReactivaSuspendido, Reposo

\* A step that touches no semaphore keeps the waits where they are.
LEMMA PasoSinSemaforos ==
  ASSUME InvSem, [Next]_vars, UNCHANGED semaforos
  PROVE  InvSem'
<1>1. Inv' /\ FasesComunes'
  BY InvNoSacaDeVacia, TiposNext, PermisosNext, FichasDeIONext, FasesComunesNext
  DEF InvSem, Inv
<1>2. TiposSem' /\ Cuadran(valor, espera)'
  BY LiberadosCrece DEF InvSem, TiposSem, Cuadran, semaforos
<1>3. PICK l \in [Procesos -> Sitios], a \in Esperas :
        Ubicados(l) /\ Duermen(l, a) /\ EnSusListas(a, espera) /\ Piden(a, solicitados)
  BY DEF InvSem, UbicacionSem
<1>4. PICK m \in [Procesos -> Sitios] : Ubicados(m)' /\ Igual(l, m, "semaforo")
  BY <1>3, InvNoSacaDeVacia, UbicadosNext DEF InvSem, Inv
<1>5. Duermen(m, a)
  BY <1>3, <1>4 DEF Duermen, Igual
<1>6. EnSusListas(a, espera)' /\ Piden(a, solicitados)'
  BY <1>3 DEF EnSusListas, Piden, semaforos
<1>. QED  BY <1>1, <1>2, <1>4, <1>5, <1>6 DEF InvSem, UbicacionSem

-----------------------------------------------------------------------------
(* The calls.                                                              *)

\* A call leaves the accounts of the schedulers alone.
LEMMA InvDeLlamada ==
  ASSUME Inv, FasesComunes, NEW c \in CPUs,
         NEW x \in {"aBlockedSem", "calcula", "avisa", "miraSuspendidos"},
         fase[c] \in {"atiende", "aBlockedSem", "respondeSignal"},
         fase' = [fase EXCEPT ![c] = x],
         UNCHANGED <<procesosNew, procesosReady, procesosSuspendedBlock,
                     procesosSuspendedReady, listaEspera, activador, ejecutando,
                     dispositivo, medio, liberados, perdidos>>,
         procesosExec' \in Seq(Procesos), procesosBlocked' \in Seq(Procesos),
         vuelveDeBloqueo' \in [Procesos -> Motivos],
         pedido' \in [Procesos -> EstadosCliente],
         buzon' \in [Procesos -> Seq(Codigos)], ops' \in [Procesos -> 0..MaxOps],
         posix' \in [NombresPosix -> Nat],
         \A n \in NombresPosix \ {"signalSuspensionProceso"} : posix'[n] = posix[n],
         liberado' \in [Hilos -> Procesos \cup {Nadie}],
         \A t \in Hilos \ {c} : liberado'[t] = liberado[t],
         IF x = "miraSuspendidos" THEN liberado'[c] \in Procesos
         ELSE liberado'[c] = liberado[c],
         \A p \in Procesos : pedido'[p] = "sinConectar" => pedido[p] = "sinConectar"
  PROVE  Inv' /\ FasesComunes'
<1>0. TypeOK /\ HilosConsistentes /\ Permisos /\ FichasDeIO
  BY DEF Inv, Tipos
<1>1. /\ fase \in [Hilos -> FasesCPU \cup FasesLiberar]
      /\ c \in Hilos /\ CPUs \subseteq Hilos /\ Dispositivos \subseteq Hilos
      /\ \A d \in Dispositivos : d # c
  BY <1>0, ConstantesOK DEF TypeOK, Hilos
<1>2. \A t \in Hilos : fase'[t] = IF t = c THEN x ELSE fase[t]
  BY <1>1
<1>3. fase' \in [Hilos -> FasesCPU \cup FasesLiberar]
  BY <1>1 DEF FasesCPU, FasesLiberar
<1>4. TypeOK'
  BY <1>0, <1>3 DEF TypeOK, medio
<1>5. HilosConsistentes'
  BY <1>0, <1>1, <1>2 DEF HilosConsistentes, FasesLiberar, medio
<1>6. Ocupadas' = Ocupadas
  BY <1>1, <1>2 DEF Ocupadas
<1>7. \A d \in Dispositivos : EnCamino(d)' = EnCamino(d)
  BY <1>1, <1>2 DEF EnCamino
<1>8. Permisos'
  <2>1. /\ "hayProcesosNew" \in NombresPosix \ {"signalSuspensionProceso"}
        /\ "procesoNecesitaEntrarEnReady" \in NombresPosix \ {"signalSuspensionProceso"}
        /\ "nivelMultiProgramacionBajaPrioridad" \in NombresPosix \ {"signalSuspensionProceso"}
        /\ "hayProcesosReady" \in NombresPosix \ {"signalSuspensionProceso"}
        /\ "procesosDisponiblesParaEjecutar" \in NombresPosix \ {"signalSuspensionProceso"}
        /\ "nivelMultiprocesamiento" \in NombresPosix \ {"signalSuspensionProceso"}
    BY DEF NombresPosix
  <2>. QED
    BY <2>1, <1>0, <1>6 DEF Permisos, FichasDeAdmision, FichasDeReady, PermisosDeCPU, medio
<1>9. FichasDeIO'
  BY <1>0, <1>7 DEF FichasDeIO
<1>10. FasesComunes'
  BY <1>0, <1>1, <1>2 DEF FasesComunes, FasesLiberar, TypeOK, medio
<1>. QED  BY <1>4, <1>5, <1>8, <1>9, <1>10 DEF Inv, Tipos

\* What each call does to the threads, and what it leaves alone.
LEMMA LlamadaConserva ==
  ASSUME Inv, FasesComunes, TiposSem, NEW c \in CPUs,
         \/ \E s \in Sems : \/ WaitBloqueante(c, s) \/ WaitInmediato(c, s)
                            \/ SignalQueLibera(c, s) \/ SignalSinEspera(c, s)
         \/ BloqueaEnSemaforo(c) \/ AvisaPost(c)
  PROVE  Inv' /\ FasesComunes'
<1>t. /\ fase \in [Hilos -> FasesCPU \cup FasesLiberar]
      /\ posix \in [NombresPosix -> Nat]
      /\ procesosExec \in Seq(Procesos) /\ procesosBlocked \in Seq(Procesos)
      /\ vuelveDeBloqueo \in [Procesos -> Motivos]
      /\ pedido \in [Procesos -> EstadosCliente]
      /\ buzon \in [Procesos -> Seq(Codigos)] /\ ops \in [Procesos -> 0..MaxOps]
      /\ liberado \in [Hilos -> Procesos \cup {Nadie}]
      /\ espera \in [Sems -> Seq(Procesos)]
      /\ c \in Hilos
  BY DEF Inv, Tipos, TypeOK, Hilos, TiposSem
<1>f. fase[c] # "espera" => ejecutando[c] \in Procesos
  BY DEF Inv, Tipos, HilosConsistentes
<1>c. {"SEM_WAIT", "SEM_SIGNAL"} \subseteq Codigos \cap EstadosCliente
  BY DEF Codigos, EstadosCliente
<1>1. ASSUME NEW s \in Sems, WaitBloqueante(c, s) PROVE Inv' /\ FasesComunes'
  <2>1. PICK p \in Procesos : p = ejecutando[c]
    BY <1>1, <1>f DEF WaitBloqueante, Atiende
  <2>2. /\ fase[c] = "atiende" /\ fase' = [fase EXCEPT ![c] = "aBlockedSem"]
        /\ UNCHANGED <<procesosNew, procesosReady, procesosSuspendedBlock,
                       procesosSuspendedReady, listaEspera, activador, ejecutando,
                       dispositivo, medio, liberados, perdidos, procesosBlocked,
                       vuelveDeBloqueo, buzon, posix, liberado>>
        /\ CuentaOp(p) /\ pedido[p] = "ninguno" /\ pedido' = [pedido EXCEPT ![p] = "SEM_WAIT"]
    BY <1>1, <2>1 DEF WaitBloqueante, Atiende, Llama
  <2>3. procesosExec' \in Seq(Procesos)
    BY <1>1, <1>t, <2>1, QuitaPorPidEsLista DEF WaitBloqueante
  <2>4. ops' \in [Procesos -> 0..MaxOps]
    BY <1>t, <2>2, CuentaOpTipo
  <2>5. /\ pedido' \in [Procesos -> EstadosCliente]
        /\ \A q \in Procesos : pedido'[q] = "sinConectar" => pedido[q] = "sinConectar"
    BY <1>t, <1>c, <2>2
  <2>. QED  BY <1>t, <2>2, <2>3, <2>4, <2>5, InvDeLlamada
<1>2. ASSUME NEW s \in Sems, WaitInmediato(c, s) \/ SignalSinEspera(c, s)
      PROVE  Inv' /\ FasesComunes'
  <2>1. PICK p \in Procesos : p = ejecutando[c]
    BY <1>2, <1>f DEF WaitInmediato, SignalSinEspera, Atiende
  <2>2. PICK x \in {"SEM_WAIT", "SEM_SIGNAL"} :
          /\ fase[c] = "atiende" /\ fase' = [fase EXCEPT ![c] = "avisa"]
          /\ UNCHANGED <<procesosNew, procesosReady, procesosSuspendedBlock,
                         procesosSuspendedReady, listaEspera, activador, ejecutando,
                         dispositivo, medio, liberados, perdidos, procesosBlocked,
                         procesosExec, vuelveDeBloqueo, posix, liberado>>
          /\ CuentaOp(p) /\ pedido[p] = "ninguno" /\ pedido' = [pedido EXCEPT ![p] = x]
          /\ Enviar(p, x)
    BY <1>2, <2>1 DEF WaitInmediato, SignalSinEspera, Atiende, Llama, colas
  <2>3. buzon' \in [Procesos -> Seq(Codigos)]
    BY <1>t, <1>c, <2>2, EnviarTipo
  <2>4. ops' \in [Procesos -> 0..MaxOps]
    BY <1>t, <2>2, CuentaOpTipo
  <2>5. /\ pedido' \in [Procesos -> EstadosCliente]
        /\ \A q \in Procesos : pedido'[q] = "sinConectar" => pedido[q] = "sinConectar"
    BY <1>t, <1>c, <2>2
  <2>. QED  BY <1>t, <2>2, <2>3, <2>4, <2>5, InvDeLlamada
<1>3. ASSUME NEW s \in Sems, SignalQueLibera(c, s) PROVE Inv' /\ FasesComunes'
  <2>1. PICK p \in Procesos : p = ejecutando[c]
    BY <1>3, <1>f DEF SignalQueLibera, Atiende
  <2>q. PICK q \in Procesos : q = Head(espera[s])
    BY <1>3, <1>t, CabezaEsLaPrimera DEF SignalQueLibera
  <2>2. /\ fase[c] = "atiende" /\ fase' = [fase EXCEPT ![c] = "miraSuspendidos"]
        /\ liberado' = [liberado EXCEPT ![c] = q]
        /\ UNCHANGED <<procesosNew, procesosReady, procesosSuspendedBlock,
                       procesosSuspendedReady, listaEspera, activador, ejecutando,
                       dispositivo, medio, liberados, perdidos, procesosBlocked,
                       procesosExec, vuelveDeBloqueo, posix, buzon>>
        /\ CuentaOp(p) /\ pedido[p] = "ninguno" /\ pedido' = [pedido EXCEPT ![p] = "SEM_SIGNAL"]
    BY <1>3, <2>1, <2>q DEF SignalQueLibera, Atiende, Llama, colas
  <2>3. /\ liberado' \in [Hilos -> Procesos \cup {Nadie}] /\ liberado'[c] \in Procesos
        /\ \A t \in Hilos \ {c} : liberado'[t] = liberado[t]
    BY <1>t, <2>2
  <2>4. ops' \in [Procesos -> 0..MaxOps]
    BY <1>t, <2>2, CuentaOpTipo
  <2>5. /\ pedido' \in [Procesos -> EstadosCliente]
        /\ \A r \in Procesos : pedido'[r] = "sinConectar" => pedido[r] = "sinConectar"
    BY <1>t, <1>c, <2>2
  <2>. QED  BY <1>t, <2>2, <2>3, <2>4, <2>5, InvDeLlamada
<1>4. CASE BloqueaEnSemaforo(c)
  <2>1. PICK p \in Procesos : p = ejecutando[c]
    BY <1>4, <1>f DEF BloqueaEnSemaforo
  <2>2. /\ fase[c] = "aBlockedSem" /\ fase' = [fase EXCEPT ![c] = "calcula"]
        /\ UNCHANGED <<procesosNew, procesosReady, procesosSuspendedBlock,
                       procesosSuspendedReady, listaEspera, activador, ejecutando,
                       dispositivo, medio, liberados, perdidos, procesosExec,
                       pedido, buzon, ops, liberado>>
    BY <1>4 DEF BloqueaEnSemaforo, clientes
  <2>3. procesosBlocked' \in Seq(Procesos)
    BY <1>4, <1>t, <2>1 DEF BloqueaEnSemaforo
  <2>4. vuelveDeBloqueo' \in [Procesos -> Motivos]
    BY <1>4, <1>t, <2>1 DEF BloqueaEnSemaforo, Motivos
  <2>5. /\ posix' \in [NombresPosix -> Nat]
        /\ \A n \in NombresPosix \ {"signalSuspensionProceso"} : posix'[n] = posix[n]
    BY <1>4, <1>t DEF BloqueaEnSemaforo, NombresPosix
  <2>. QED  BY <1>t, <2>2, <2>3, <2>4, <2>5, InvDeLlamada
<1>5. CASE AvisaPost(c)
  <2>1. PICK p \in Procesos : p = ejecutando[c]
    BY <1>5, <1>f DEF AvisaPost
  <2>2. /\ fase[c] = "respondeSignal" /\ fase' = [fase EXCEPT ![c] = "avisa"]
        /\ UNCHANGED <<procesosNew, procesosReady, procesosSuspendedBlock,
                       procesosSuspendedReady, listaEspera, activador, ejecutando,
                       dispositivo, medio, liberados, perdidos, procesosExec,
                       procesosBlocked, vuelveDeBloqueo, pedido, ops, posix, liberado>>
        /\ Enviar(p, "SEM_SIGNAL")
    BY <1>5, <2>1 DEF AvisaPost, colas
  <2>3. buzon' \in [Procesos -> Seq(Codigos)]
    BY <1>t, <1>c, <2>2, EnviarTipo
  <2>. QED  BY <1>t, <2>2, <2>3, InvDeLlamada
<1>. QED  BY <1>1, <1>2, <1>3, <1>4, <1>5

\* The first of a waiting list asks for that semaphore.
LEMMA ElPrimeroPide ==
  ASSUME TiposSem, NEW a \in Esperas, EnSusListas(a, espera), Piden(a, solicitados),
         NEW s \in Sems, espera[s] # <<>>
  PROVE  /\ Head(espera[s]) \in Procesos /\ a[Head(espera[s])] = s
         /\ solicitados[Head(espera[s])] = <<s>>
<1>1. /\ 1 \in 1..Len(espera[s]) /\ espera[s][1] = Head(espera[s])
      /\ Head(espera[s]) \in Procesos
  BY CabezaEsLaPrimera DEF TiposSem
<1>2. a[Head(espera[s])] = s
  BY <1>1 DEF EnSusListas, Lista
<1>. QED  BY <1>1, <1>2, SemaforosOK DEF Piden

\* The value and the waiting list of a semaphore change together.
LEMMA CuentaDeLlamada ==
  ASSUME InvSem, NEW c \in CPUs, NEW s \in Sems,
         \/ WaitBloqueante(c, s) \/ WaitInmediato(c, s)
         \/ SignalQueLibera(c, s) \/ SignalSinEspera(c, s)
  PROVE  TiposSem' /\ Cuadran(valor, espera)'
<1>t. /\ TiposSem /\ Cuadran(valor, espera)
      /\ valor \in [Sems -> Int] /\ espera \in [Sems -> Seq(Procesos)]
      /\ retenidos \in [Procesos -> Seq(Sems)] /\ solicitados \in [Procesos -> Seq(Sems)]
      /\ expulsados \subseteq liberados
  BY DEF InvSem, TiposSem
<1>f. fase[c] # "espera" => ejecutando[c] \in Procesos
  BY DEF InvSem, Inv, Tipos, HilosConsistentes
<1>p. PICK p \in Procesos : p = ejecutando[c]
  BY <1>f DEF WaitBloqueante, WaitInmediato, SignalQueLibera, SignalSinEspera, Atiende
<1>n. valor[s] \in Int /\ espera[s] \in Seq(Procesos) /\ Len(espera[s]) \in Nat
      /\ (espera[s] = <<>> <=> Len(espera[s]) = 0)
      /\ Len(espera[s]) = (IF valor[s] < 0 THEN -valor[s] ELSE 0)
  BY <1>t DEF Cuadran
<1>r. RemoveFirst(retenidos[p], s) \in Seq(Sems)
  BY <1>t, SacaElPrimero
\* the lists of the other semaphores, and the numbers of this one
<1>k. ASSUME valor' \in [Sems -> Int], espera' \in [Sems -> Seq(Procesos)],
             \A u \in Sems \ {s} : valor'[u] = valor[u] /\ espera'[u] = espera[u],
             Len(espera'[s]) = (IF valor'[s] < 0 THEN -valor'[s] ELSE 0)
      PROVE  Cuadran(valor, espera)'
  BY <1>k, <1>t DEF Cuadran
<1>1. CASE WaitBloqueante(c, s)
  <2>1. /\ valor[s] <= 0 /\ valor' = [valor EXCEPT ![s] = @ - 1]
        /\ espera' = [espera EXCEPT ![s] = Append(@, p)]
        /\ solicitados' = [solicitados EXCEPT ![p] = Append(@, s)]
        /\ UNCHANGED <<retenidos, expulsados, liberados>>
    BY <1>1, <1>p DEF WaitBloqueante
  <2>2. TiposSem'
    BY <2>1, <1>t DEF TiposSem
  <2>3. /\ valor' \in [Sems -> Int] /\ espera' \in [Sems -> Seq(Procesos)]
        /\ \A u \in Sems \ {s} : valor'[u] = valor[u] /\ espera'[u] = espera[u]
        /\ valor'[s] = valor[s] - 1 /\ Len(espera'[s]) = Len(espera[s]) + 1
    BY <2>1, <2>2, <1>t DEF TiposSem
  <2>. QED  BY <2>1, <2>2, <2>3, <1>k, <1>n
<1>2. CASE WaitInmediato(c, s)
  <2>1. /\ valor[s] > 0 /\ valor' = [valor EXCEPT ![s] = @ - 1]
        /\ retenidos' = [retenidos EXCEPT ![p] = Append(@, s)]
        /\ UNCHANGED <<espera, solicitados, expulsados, liberados>>
    BY <1>2, <1>p DEF WaitInmediato
  <2>2. TiposSem'
    BY <2>1, <1>t DEF TiposSem
  <2>3. /\ valor' \in [Sems -> Int] /\ espera' \in [Sems -> Seq(Procesos)]
        /\ \A u \in Sems \ {s} : valor'[u] = valor[u] /\ espera'[u] = espera[u]
        /\ valor'[s] = valor[s] - 1 /\ Len(espera'[s]) = Len(espera[s])
    BY <2>1, <2>2, <1>t DEF TiposSem
  <2>. QED  BY <2>1, <2>2, <2>3, <1>k, <1>n
<1>3. CASE SignalQueLibera(c, s)
  <2>q. PICK q \in Procesos : q = Head(espera[s]) /\ solicitados[q] = <<s>>
    BY <1>3, <1>t, ElPrimeroPide DEF SignalQueLibera, InvSem, UbicacionSem
  <2>1. /\ espera[s] # <<>> /\ valor' = [valor EXCEPT ![s] = @ + 1]
        /\ espera' = [espera EXCEPT ![s] = Tail(@)]
    BY <1>3 DEF SignalQueLibera
  <2>2. Tail(espera[s]) \in Seq(Procesos) /\ Len(Tail(espera[s])) = Len(espera[s]) - 1
    BY <2>1, <1>n
  <2>3. solicitados' \in [Procesos -> Seq(Sems)]
    <3>1. solicitados' = [solicitados EXCEPT ![q] = Tail(@)]
      BY <1>3, <2>q DEF SignalQueLibera
    <3>2. Tail(solicitados[q]) \in Seq(Sems)
      BY <2>q, <1>t
    <3>. QED  BY <3>1, <3>2, <1>t
  <2>4. retenidos' \in [Procesos -> Seq(Sems)]
    <3>1. PICK r : r = [retenidos EXCEPT ![p] = RemoveFirst(@, s)]
      OBVIOUS
    <3>2. r \in [Procesos -> Seq(Sems)]
      BY <3>1, <1>t, <1>r
    <3>3. retenidos' = [r EXCEPT ![q] = Append(retenidos[q], s)]
      BY <1>3, <1>p, <2>q, <3>1 DEF SignalQueLibera
    <3>4. Append(retenidos[q], s) \in Seq(Sems)
      BY <1>t
    <3>. QED  BY <3>2, <3>3, <3>4
  <2>5. /\ valor' \in [Sems -> Int] /\ espera' \in [Sems -> Seq(Procesos)]
        /\ \A u \in Sems \ {s} : valor'[u] = valor[u] /\ espera'[u] = espera[u]
        /\ valor'[s] = valor[s] + 1 /\ Len(espera'[s]) = Len(espera[s]) - 1
    BY <2>1, <2>2, <1>t
  <2>6. UNCHANGED <<expulsados, liberados>>
    BY <1>3 DEF SignalQueLibera
  <2>7. TiposSem'
    BY <2>3, <2>4, <2>5, <2>6, <1>t DEF TiposSem
  <2>. QED  BY <2>1, <2>5, <2>7, <1>k, <1>n
<1>4. CASE SignalSinEspera(c, s)
  <2>1. /\ espera[s] = <<>> /\ valor' = [valor EXCEPT ![s] = @ + 1]
        /\ retenidos' = [retenidos EXCEPT ![p] = RemoveFirst(@, s)]
        /\ UNCHANGED <<espera, solicitados, expulsados, liberados>>
    BY <1>4, <1>p DEF SignalSinEspera
  <2>2. TiposSem'
    BY <2>1, <1>t, <1>r DEF TiposSem
  <2>3. /\ valor' \in [Sems -> Int] /\ espera' \in [Sems -> Seq(Procesos)]
        /\ \A u \in Sems \ {s} : valor'[u] = valor[u] /\ espera'[u] = espera[u]
        /\ valor'[s] = valor[s] + 1 /\ Len(espera'[s]) = Len(espera[s])
    BY <2>1, <2>2, <1>t DEF TiposSem
  <2>. QED  BY <2>1, <2>2, <2>3, <1>k, <1>n
<1>. QED  BY <1>1, <1>2, <1>3, <1>4

\* A process goes to the list of a semaphore.
LEMMA EntraASemaforo ==
  ASSUME NEW a \in Esperas, NEW w \in [Sems -> Seq(Procesos)],
         NEW q \in Procesos, a[q] = Nadie, NEW s \in Sems, EnSusListas(a, w),
         NEW z, z = [w EXCEPT ![s] = Append(@, q)]
  PROVE  Muda(a, q, s) \in Esperas /\ EnSusListas(Muda(a, q, s), z)
<1>1. Lista(Muda(a, q, s), Append(w[s], q), s)
  BY EntraALista, SemaforosOK DEF EnSusListas, Esperas
<1>2. \A u \in Sems \ {s} : Lista(Muda(a, q, s), w[u], u)
  BY SemaforosOK DEF EnSusListas, Esperas, Lista, Muda
<1>. QED  BY <1>1, <1>2 DEF EnSusListas, Esperas, Muda

\* A process leaves a position of the list of a semaphore.
LEMMA SaleDeSemaforo ==
  ASSUME NEW a \in Esperas, NEW w \in [Sems -> Seq(Procesos)], NEW s \in Sems,
         EnSusListas(a, w), NEW k \in 1..Len(w[s]), NEW q, q = w[s][k],
         NEW z, z[s] = RemoveAt(w[s], k), \A u \in Sems \ {s} : z[u] = w[u]
  PROVE  /\ q \in Procesos /\ a[q] = s /\ Muda(a, q, Nadie) \in Esperas
         /\ EnSusListas(Muda(a, q, Nadie), z)
<1>1. q \in Procesos /\ a[q] = s /\ Lista(Muda(a, q, Nadie), RemoveAt(w[s], k), s)
  <2>1. PICK r \in Seq(Procesos) : r = w[s]
    OBVIOUS
  <2>2. /\ Lista(a, r, s) /\ k \in 1..Len(r) /\ q = r[k] /\ s # Nadie
        /\ a \in [Procesos -> Sems \cup {Nadie}]
    BY <2>1, SemaforosOK DEF EnSusListas, Esperas
  <2>3. q \in Procesos /\ a[q] = s /\ Lista(Muda(a, q, Nadie), RemoveAt(r, k), s)
    BY <2>2, SaleDeLista
  <2>. QED  BY <2>1, <2>3
<1>2. \A u \in Sems \ {s} : Lista(Muda(a, q, Nadie), w[u], u)
  BY <1>1, SemaforosOK DEF EnSusListas, Esperas, Lista, Muda
<1>. QED  BY <1>1, <1>2 DEF EnSusListas, Esperas, Muda

\* The first that waits in a semaphore leaves its list.
LEMMA SaleElPrimero ==
  ASSUME NEW w \in [Sems -> Seq(Procesos)], NEW a \in Esperas, EnSusListas(a, w),
         NEW s \in Sems, w[s] # <<>>, NEW q, q = Head(w[s]),
         NEW z, z[s] = Tail(w[s]), \A u \in Sems \ {s} : z[u] = w[u]
  PROVE  /\ Muda(a, q, Nadie) \in Esperas /\ EnSusListas(Muda(a, q, Nadie), z)
         /\ Len(z[s]) = Len(w[s]) - 1
<1>1. /\ 1 \in 1..Len(w[s]) /\ w[s][1] = q /\ Len(Tail(w[s])) = Len(w[s]) - 1
  BY CabezaEsLaPrimera
<1>2. Tail(w[s]) = RemoveAt(w[s], 1)
  BY ColaEsSinLaPrimera
<1>3. PICK k \in 1..Len(w[s]) : k = 1
  BY <1>1
<1>4. z[s] = RemoveAt(w[s], k) /\ \A u \in Sems \ {s} : z[u] = w[u]
  BY <1>2, <1>3
<1>5. q = w[s][k]
  BY <1>1, <1>3
<1>6. Muda(a, q, Nadie) \in Esperas /\ EnSusListas(Muda(a, q, Nadie), z)
  BY <1>4, <1>5, SaleDeSemaforo
<1>. QED  BY <1>1, <1>4, <1>6

\* A call that blocks nobody and releases nobody leaves every process where it
\* is; a wait takes one to the list of its semaphore, and a signal takes one
\* out of it, to the thread that releases it.
LEMMA UbicacionDeLlamada ==
  ASSUME InvSem, NEW c \in CPUs,
         \/ \E s \in Sems : \/ WaitBloqueante(c, s) \/ WaitInmediato(c, s)
                            \/ SignalQueLibera(c, s) \/ SignalSinEspera(c, s)
         \/ BloqueaEnSemaforo(c) \/ AvisaPost(c)
  PROVE  UbicacionSem'
<1>t. /\ fase \in [Hilos -> FasesCPU \cup FasesLiberar]
      /\ liberado \in [Hilos -> Procesos \cup {Nadie}]
      /\ pedido \in [Procesos -> EstadosCliente]
      /\ c \in Hilos /\ CPUs \subseteq Hilos
      /\ TiposSem /\ espera \in [Sems -> Seq(Procesos)]
      /\ solicitados \in [Procesos -> Seq(Sems)]
  BY DEF InvSem, Inv, Tipos, TypeOK, Hilos, TiposSem
<1>f. fase[c] # "espera" => ejecutando[c] \in Procesos
  BY DEF InvSem, Inv, Tipos, HilosConsistentes
<1>u. PICK l \in [Procesos -> Sitios], a \in Esperas :
        Ubicados(l) /\ Duermen(l, a) /\ EnSusListas(a, espera) /\ Piden(a, solicitados)
  BY DEF InvSem, UbicacionSem
<1>m. \A q \in Procesos, y \in Sitios :
        /\ Muda(l, q, y) \in [Procesos -> Sitios]
        /\ \A x \in Sitios \ {l[q], y} : Igual(l, Muda(l, q, y), x)
  BY OtroSitio DEF Muda
<1>q. "semaforo" \in Sitios /\ "libera" \in Sitios
  BY DEF Sitios
<1>1. ASSUME NEW s \in Sems, WaitBloqueante(c, s) PROVE UbicacionSem'
  <2>p. PICK p \in Procesos : p = ejecutando[c]
    BY <1>1, <1>f DEF WaitBloqueante, Atiende
  <2>1. /\ fase[c] = "atiende" /\ fase' = [fase EXCEPT ![c] = "aBlockedSem"]
        /\ UNCHANGED <<procesosNew, procesosReady, procesosSuspendedReady, listaEspera,
                       ejecutando, nuevo, preparado, liberados, liberado>>
        /\ pedido[p] = "ninguno" /\ pedido' = [pedido EXCEPT ![p] = "SEM_WAIT"]
    BY <1>1, <2>p DEF WaitBloqueante, Atiende, Llama, medio
  <2>2. /\ espera' = [espera EXCEPT ![s] = Append(@, p)]
        /\ solicitados' = [solicitados EXCEPT ![p] = Append(@, s)]
    BY <1>1, <2>p DEF WaitBloqueante
  <2>3. /\ DelCPU' = DelCPU /\ Liberando' = Liberando
        /\ c \in Atendiendo /\ Atendiendo' = Atendiendo \ {c}
    BY <2>1, <1>t, FaseDeCPU DEF DelCPU, Atendiendo, FasesLiberar
  <2>. DEFINE m == Muda(l, p, "semaforo")
  <2>4. l[p] = "servida" /\ Local(m, ejecutando, Atendiendo \ {c}, "servida")
    <3>1. Local(l, ejecutando, Atendiendo, "servida") /\ "servida" # "semaforo"
      BY <1>u DEF Ubicados, EnServida
    <3>. QED  BY <2>p, <2>3, <3>1, SaleDeLocal
  <2>5. a[p] = Nadie
    BY <2>4, <1>u DEF Duermen
  <2>6. Muda(a, p, s) \in Esperas /\ EnSusListas(Muda(a, p, s), espera')
    BY <2>2, <2>5, <1>t, <1>u, EntraASemaforo
  <2>7. Piden(Muda(a, p, s), solicitados')
    <3>1. solicitados[p] = <<>>
      BY <2>5, <1>u DEF Piden
    <3>2. Append(solicitados[p], s) = <<s>>
      BY <3>1
    <3>3. \A q \in Procesos : Muda(a, p, s)[q] = IF q = p THEN s ELSE a[q]
      BY DEF Muda, Esperas
    <3>4. s # Nadie
      BY SemaforosOK
    <3>. QED  BY <2>2, <3>2, <3>3, <3>4, <1>t, <1>u DEF Piden
  <2>8. Duermen(m, Muda(a, p, s))
    BY <1>u, SemaforosOK DEF Duermen, Muda, Esperas
  <2>9. EnServida(m)'
    BY <2>1, <2>3, <2>4 DEF EnServida
  <2>10. EnFuera(m)'
    BY <2>1, <2>4, <1>t, <1>u DEF Ubicados, EnFuera, Muda
  <2>11. m \in [Procesos -> Sitios] /\ \A x \in Sitios \ {"servida", "semaforo"} : Igual(l, m, x)
    BY <2>4, <1>m, <1>q
  <2>. HIDE DEF m
  <2>12. /\ EnNew(m)' /\ EnNuevo(m)' /\ EnReady(m)' /\ EnCPU(m)' /\ EnIO(m)'
         /\ EnLibera(m)' /\ EnSusReady(m)' /\ EnPreparado(m)'
    BY <2>1, <2>3, <2>11, <1>u, Queda DEF Sitios, Conservan
  <2>. QED  BY <2>6, <2>7, <2>8, <2>9, <2>10, <2>11, <2>12 DEF UbicacionSem, Ubicados
<1>2. ASSUME \/ \E s \in Sems : WaitInmediato(c, s) \/ SignalSinEspera(c, s)
             \/ BloqueaEnSemaforo(c) \/ AvisaPost(c)
      PROVE  UbicacionSem'
  <2>1. /\ UNCHANGED <<procesosNew, procesosReady, procesosSuspendedReady, listaEspera,
                       ejecutando, nuevo, preparado, liberados, liberado, espera, solicitados>>
        /\ \A p \in Procesos : pedido[p] = "sinConectar" <=> pedido'[p] = "sinConectar"
    BY <1>2, <1>t DEF WaitInmediato, SignalSinEspera, BloqueaEnSemaforo, AvisaPost, Atiende,
      Llama, colas, medio, clientes, semaforos
  <2>2. \/ /\ fase[c] \in {"atiende", "respondeSignal"}
           /\ fase' = [fase EXCEPT ![c] = "avisa"]
        \/ fase[c] = "aBlockedSem" /\ fase' = [fase EXCEPT ![c] = "calcula"]
    BY <1>2 DEF WaitInmediato, SignalSinEspera, BloqueaEnSemaforo, AvisaPost, Atiende
  <2>3. DelCPU' = DelCPU /\ Liberando' = Liberando /\ Atendiendo' = Atendiendo
    BY <2>2, <1>t, FaseDeCPU DEF DelCPU, Atendiendo, FasesLiberar
  <2>4. EnFuera(l)'
    BY <2>1, <1>u DEF Ubicados, EnFuera
  <2>5. \A x : Igual(l, l, x)
    BY DEF Igual
  <2>6. Ubicados(l)'
    BY <2>1, <2>3, <2>4, <2>5, <1>u, Queda DEF Ubicados, Conservan
  <2>. QED  BY <2>1, <2>6, <1>u DEF UbicacionSem, EnSusListas, Piden
<1>3. ASSUME NEW s \in Sems, SignalQueLibera(c, s) PROVE UbicacionSem'
  <2>q. PICK q \in Procesos : q = Head(espera[s]) /\ a[q] = s /\ solicitados[q] = <<s>>
    BY <1>3, <1>t, <1>u, ElPrimeroPide DEF SignalQueLibera
  <2>1. /\ fase[c] = "atiende" /\ fase' = [fase EXCEPT ![c] = "miraSuspendidos"]
        /\ liberado' = [liberado EXCEPT ![c] = q]
        /\ UNCHANGED <<procesosNew, procesosReady, procesosSuspendedReady, listaEspera,
                       ejecutando, nuevo, preparado, liberados>>
        /\ \A p \in Procesos : pedido[p] = "sinConectar" <=> pedido'[p] = "sinConectar"
    BY <1>3, <1>t, <2>q DEF SignalQueLibera, Atiende, Llama, colas, medio
  <2>2. /\ espera[s] # <<>> /\ espera' = [espera EXCEPT ![s] = Tail(@)]
        /\ solicitados' = [solicitados EXCEPT ![q] = Tail(@)]
    BY <1>3, <2>q DEF SignalQueLibera
  <2>3. /\ DelCPU' = DelCPU /\ Atendiendo' = Atendiendo
        /\ c \notin Liberando /\ Liberando' = Liberando \cup {c}
    <3>1. \A t \in Hilos : fase'[t] = IF t = c THEN "miraSuspendidos" ELSE fase[t]
      BY <2>1, <1>t
    <3>. QED  BY <2>1, <3>1, <1>t DEF DelCPU, Atendiendo, Liberando, FasesLiberar
  <2>. DEFINE m == Muda(l, q, "libera")
  <2>4. l[q] = "semaforo"
    BY <2>q, <1>u, SemaforosOK DEF Duermen
  <2>5. EnLibera(m)'
    <3>1. Local(l, liberado, Liberando, "libera") /\ l[q] # "libera"
      BY <2>4, <1>u DEF Ubicados, EnLibera
    <3>2. liberado'[c] = q /\ \A t \in Liberando : liberado'[t] = liberado[t]
      BY <2>1, <2>3, <1>t DEF Liberando
    <3>3. Local(m, liberado', Liberando \cup {c}, "libera")
      BY <2>3, <3>1, <3>2, EntraALocal
    <3>. QED  BY <2>3, <3>3 DEF EnLibera
  <2>6. Muda(a, q, Nadie) \in Esperas /\ EnSusListas(Muda(a, q, Nadie), espera')
    <3>1. PICK w \in [Sems -> Seq(Procesos)] : w = espera
      BY <1>t
    <3>2. PICK z : z = espera'
      OBVIOUS
    <3>3. /\ EnSusListas(a, w) /\ w[s] # <<>> /\ q = Head(w[s])
          /\ z[s] = Tail(w[s]) /\ \A u \in Sems \ {s} : z[u] = w[u]
      BY <2>2, <2>q, <3>1, <3>2, <1>t, <1>u
    <3>4. Muda(a, q, Nadie) \in Esperas /\ EnSusListas(Muda(a, q, Nadie), z)
      BY <3>3, SaleElPrimero
    <3>. QED  BY <3>2, <3>4
  <2>7. Piden(Muda(a, q, Nadie), solicitados')
    <3>1. Tail(solicitados[q]) = <<>>
      BY <2>q
    <3>2. \A p \in Procesos : Muda(a, q, Nadie)[p] = IF p = q THEN Nadie ELSE a[p]
      BY DEF Muda, Esperas
    <3>. QED  BY <2>2, <3>1, <3>2, <1>t, <1>u DEF Piden
  <2>8. Duermen(m, Muda(a, q, Nadie))
    BY <1>u DEF Duermen, Muda, Esperas
  <2>11. m \in [Procesos -> Sitios] /\ \A x \in Sitios \ {"semaforo", "libera"} : Igual(l, m, x)
    BY <2>4, <1>m, <1>q
  <2>. HIDE DEF m
  <2>10. EnFuera(m)'
    BY <2>1, <2>11, <1>u DEF Ubicados, EnFuera, Igual, Sitios
  <2>12. /\ EnNew(m)' /\ EnNuevo(m)' /\ EnReady(m)' /\ EnCPU(m)' /\ EnServida(m)'
         /\ EnIO(m)' /\ EnSusReady(m)' /\ EnPreparado(m)'
    BY <2>1, <2>3, <2>11, <1>u, Queda DEF Sitios, Conservan
  <2>. QED  BY <2>5, <2>6, <2>7, <2>8, <2>10, <2>11, <2>12 DEF UbicacionSem, Ubicados
<1>. QED  BY <1>1, <1>2, <1>3

-----------------------------------------------------------------------------
(* The runs of the detector.                                               *)

\* The photos of the state that the detector works on.
Fotos ==
  [valor : [Sems -> Int], espera : [Sems -> Seq(Procesos)],
   retenidos : [Procesos -> Seq(Sems)], solicitados : [Procesos -> Seq(Sems)],
   Blocked : Seq(Procesos), SuspendedBlock : Seq(Procesos),
   SuspendedReady : Seq(Procesos), Ready : Seq(Procesos),
   posix : [NombresPosix -> Nat], expulsados : SUBSET Procesos]

\* A process has at most one entry in a list.
UnaVez(s, p) == \A i \in 1..Len(s), j \in 1..Len(s) : s[i] = p /\ s[j] = p => i = j

\* Without one position, a list has the other ones, in order.
LEMMA SinUnaPosicion ==
  ASSUME NEW s \in Seq(Procesos), NEW k \in 1..Len(s)
  PROVE  /\ RemoveAt(s, k) \in Seq(Procesos) /\ Len(RemoveAt(s, k)) = Len(s) - 1
         /\ \A i \in 1..Len(RemoveAt(s, k)) :
              RemoveAt(s, k)[i] = IF i < k THEN s[i] ELSE s[i + 1]
<1>. DEFINE u == SubSeq(s, 1, k - 1)
            v == SubSeq(s, k + 1, Len(s))
            r == RemoveAt(s, k)
<1>0. Len(s) \in Nat /\ k \in Nat /\ k <= Len(s) /\ k >= 1
  OBVIOUS
<1>1. r \in Seq(Procesos) /\ Len(r) = Len(s) - 1
  BY RemoveAtEsLista
<1>2. ASSUME NEW i \in 1..Len(r) PROVE r[i] = IF i < k THEN s[i] ELSE s[i + 1]
  <2>1. r = u \o v
    BY DEF RemoveAt
  <2>2. /\ u \in Seq(Procesos) /\ Len(u) = k - 1
        /\ v \in Seq(Procesos) /\ Len(v) = Len(s) - k
    BY <1>0
  <2>3. /\ \A j \in 1..(k - 1) : u[j] = s[j]
        /\ \A j \in 1..(Len(s) - k) : v[j] = s[k + j]
    BY <1>0
  <2>. HIDE DEF r, u, v
  <2>4. \A j \in 1..(Len(u) + Len(v)) :
          (u \o v)[j] = IF j <= Len(u) THEN u[j] ELSE v[j - Len(u)]
    BY <2>2, ConcatProperties
  <2>5. CASE i < k
    <3>1. i \in 1..(k - 1)
      BY <2>5, <1>0
    <3>2. i \in 1..(Len(u) + Len(v)) /\ i <= Len(u)
      BY <2>2, <3>1, <1>0, <1>1
    <3>. QED  BY <2>1, <2>3, <2>4, <2>5, <3>1, <3>2
  <2>6. CASE ~(i < k)
    <3>. DEFINE j == i - (k - 1)
    <3>1. /\ j \in 1..(Len(s) - k) /\ k + j = i + 1
          /\ i \in 1..(Len(u) + Len(v)) /\ ~(i <= Len(u)) /\ i - Len(u) = j
      BY <2>2, <2>6, <1>0, <1>1
    <3>. HIDE DEF j
    <3>2. (u \o v)[i] = v[j]
      BY <2>4, <3>1
    <3>3. v[j] = s[k + j]
      BY <2>3, <3>1
    <3>. QED  BY <2>1, <2>6, <3>1, <3>2, <3>3
  <2>. QED  BY <2>5, <2>6
<1>. QED  BY <1>1, <1>2

\* Taking an entry out of a list repeats nobody, and takes a process that was
\* there once out for good.
LEMMA SinElPrimero ==
  ASSUME NEW s \in Seq(Procesos), NEW p \in Procesos, NEW r, r = RemoveFirst(s, p)
  PROVE  /\ r \in Seq(Procesos)
         /\ Len(r) = IF p \in ToSet(s) THEN Len(s) - 1 ELSE Len(s)
         /\ \A q : UnaVez(s, q) => UnaVez(r, q)
         /\ UnaVez(s, p) => p \notin ToSet(r)
         /\ \A q : q \notin ToSet(s) => q \notin ToSet(r)
<1>1. CASE p \notin ToSet(s) /\ r = s
  BY <1>1
<1>2. ASSUME NEW k \in 1..Len(s), p \in ToSet(s), s[k] = p, r = RemoveAt(s, k)
      PROVE  /\ r \in Seq(Procesos) /\ Len(r) = Len(s) - 1
             /\ \A q : UnaVez(s, q) => UnaVez(r, q)
             /\ UnaVez(s, p) => p \notin ToSet(r)
             /\ \A q : q \notin ToSet(s) => q \notin ToSet(r)
  <2>. DEFINE n(i) == IF i < k THEN i ELSE i + 1
  <2>0. Len(s) \in Nat /\ k \in Nat
    OBVIOUS
  <2>1. /\ r \in Seq(Procesos) /\ Len(r) = Len(s) - 1
        /\ \A i \in 1..Len(r) : r[i] = IF i < k THEN s[i] ELSE s[i + 1]
    BY <1>2, SinUnaPosicion
  <2>2. \A i \in 1..Len(r) : n(i) \in 1..Len(s) /\ r[i] = s[n(i)] /\ n(i) # k
    BY <2>0, <2>1
  <2>3. \A i \in 1..Len(r), j \in 1..Len(r) : n(i) = n(j) => i = j
    BY <2>0, <2>1
  <2>4. \A q : q \in ToSet(r) <=> \E i \in 1..Len(r) : r[i] = q
    BY <2>1, EnLista
  <2>5. \A q : q \in ToSet(s) <=> \E i \in 1..Len(s) : s[i] = q
    BY EnLista
  <2>. HIDE DEF n
  <2>6. \A q : UnaVez(s, q) => UnaVez(r, q)
    BY <2>2, <2>3 DEF UnaVez
  <2>7. UnaVez(s, p) => p \notin ToSet(r)
    BY <2>2, <2>4, <1>2 DEF UnaVez
  <2>8. \A q : q \notin ToSet(s) => q \notin ToSet(r)
    BY <2>2, <2>4, <2>5
  <2>. QED  BY <2>1, <2>6, <2>7, <2>8
<1>. QED  BY <1>1, <1>2, SacaElPrimero

\* What is true of 0 and passes from each number to the next is true up to n.
LEMMA PorInduccion ==
  ASSUME NEW n \in Nat, NEW T, 0 \in T, \A k \in 1..n : k - 1 \in T => k \in T
  PROVE  \A k \in 0..n : k \in T
<1>. DEFINE Malos == {k \in 0..n : k \notin T}
<1>. SUFFICES ASSUME Malos # {} PROVE FALSE
  OBVIOUS
<1>1. PICK m \in Malos : \A j \in Malos : m <= j
  <2>. Malos \subseteq Nat
    OBVIOUS
  <2>. HIDE DEF Malos
  <2>. QED  BY HayMinimo
<1>2. m \in 1..n /\ m - 1 \in 0..n
  OBVIOUS
<1>3. m - 1 \notin Malos
  <2>1. ~(m <= m - 1)
    BY <1>2
  <2>. HIDE DEF Malos
  <2>. QED  BY <1>1, <2>1
<1>. QED  BY <1>2, <1>3

\* The steps G, taken from e one after the other.
Pasos(n, e, G, h) == h = [k \in 0..n |-> IF k = 0 THEN e ELSE G[k, h[k - 1]]]

\* Steps that stay in S can be taken n times.
LEMMA PorPasos ==
  ASSUME NEW n \in Nat, NEW S, NEW e \in S, NEW G \in [(1..n) \X S -> S]
  PROVE  \E h \in [0..n -> S] : Pasos(n, e, G, h)
<1>. DEFINE Hasta(m, h) == h = [k \in 0..m |-> IF k = 0 THEN e ELSE G[k, h[k - 1]]]
            T == {m \in 0..n : \E h \in [0..m -> S] : Hasta(m, h)}
<1>1. 0 \in T
  <2>. DEFINE h == [k \in 0..0 |-> e]
  <2>1. h \in [0..0 -> S] /\ Hasta(0, h)
    OBVIOUS
  <2>. HIDE DEF h
  <2>2. \E f \in [0..0 -> S] : Hasta(0, f)
    BY <2>1
  <2>3. 0 \in 0..n
    OBVIOUS
  <2>. HIDE DEF Hasta
  <2>. QED  BY <2>2, <2>3
<1>2. ASSUME NEW m \in 1..n, m - 1 \in T PROVE m \in T
  <2>1. PICK f \in [0..(m - 1) -> S] : Hasta(m - 1, f)
    BY <1>2
  <2>2. f[m - 1] \in S /\ <<m, f[m - 1]>> \in (1..n) \X S
    OBVIOUS
  <2>3. PICK x \in S : x = G[m, f[m - 1]]
    BY <2>2
  <2>4. PICK h : h = [k \in 0..m |-> IF k < m THEN f[k] ELSE x]
    OBVIOUS
  <2>5. h \in [0..m -> S]
    BY <2>4
  <2>. DEFINE Va(k) == h[k] = IF k = 0 THEN e ELSE G[k, h[k - 1]]
  <2>6. \A k \in 0..m : Va(k)
    <3>1. ASSUME NEW k \in 0..(m - 1) PROVE Va(k)
      <4>1. k \in 0..(m - 1) /\ h[k] = f[k]
        BY <2>4
      <4>2. f[k] = IF k = 0 THEN e ELSE G[k, f[k - 1]]
        BY <4>1, <2>1
      <4>3. k # 0 => h[k - 1] = f[k - 1]
        BY <4>1, <2>4
      <4>. QED  BY <4>1, <4>2, <4>3
    <3>2. Va(m)
      <4>1. h[m] = x /\ h[m - 1] = f[m - 1]
        BY <2>4
      <4>2. h[m] = G[m, h[m - 1]]
        BY <4>1, <2>3, Zenon
      <4>3. m # 0
        OBVIOUS
      <4>. QED  BY <4>2, <4>3, Zenon
    <3>3. \A k \in 0..m : k \in 0..(m - 1) \/ k = m
      OBVIOUS
    <3>. HIDE DEF Va
    <3>. QED  BY <3>1, <3>2, <3>3
  <2>7. Hasta(m, h)
    BY <2>4, <2>6
  <2>8. m \in 0..n
    OBVIOUS
  <2>9. \E g \in [0..m -> S] : Hasta(m, g)
    BY <2>5, <2>7
  <2>. HIDE DEF Hasta
  <2>. QED  BY <2>8, <2>9
<1>3. n \in T
  <2>. HIDE DEF T
  <2>. QED  BY <1>1, <1>2, PorInduccion
<1>. QED  BY <1>3 DEF Pasos

\* The entries of the lists of the semaphores are finitely many: each is of
\* another process.
LEMMA EntradasFinitas ==
  ASSUME NEW a \in Esperas, NEW w \in [Sems -> Seq(Procesos)], EnSusListas(a, w)
  PROVE  /\ IsFiniteSet(Entradas(w, Sems)) /\ Cardinality(Entradas(w, Sems)) \in Nat
<1>1. Entradas(w, Sems) = UNION {{s} \X (1..Len(w[s])) : s \in Sems}
  BY DEF Entradas
<1>2. ASSUME NEW e \in Entradas(w, Sems)
      PROVE  /\ e[1] \in Sems /\ e[2] \in 1..Len(w[e[1]]) /\ e = <<e[1], e[2]>>
             /\ w[e[1]][e[2]] \in Procesos /\ a[w[e[1]][e[2]]] = e[1]
  <2>0. PICK s \in Sems : e \in {s} \X (1..Len(w[s]))
    BY <1>1
  <2>1. PICK i \in 1..Len(w[s]) : e = <<s, i>>
    BY <2>0
  <2>2. w[s][i] \in Procesos
    OBVIOUS
  <2>3. a[w[s][i]] = s
    BY <2>2 DEF EnSusListas, Lista
  <2>. QED  BY <2>1, <2>2, <2>3
<1>. DEFINE f == [e \in Entradas(w, Sems) |-> w[e[1]][e[2]]]
<1>3. f \in [Entradas(w, Sems) -> Procesos]
  BY <1>2
<1>4. ASSUME NEW e \in Entradas(w, Sems), NEW h \in Entradas(w, Sems), f[e] = f[h]
      PROVE  e = h
  <2>1. w[e[1]][e[2]] = w[h[1]][h[2]]
    BY <1>4
  <2>2. e[1] = h[1]
    BY <2>1, <1>2
  <2>3. e[2] = h[2]
    BY <2>1, <2>2, <1>2 DEF EnSusListas, Lista
  <2>. QED  BY <2>2, <2>3, <1>2
<1>. HIDE DEF f
<1>5. f \in Injection(Entradas(w, Sems), Procesos)
  BY <1>3, <1>4 DEF Injection, IsInjective
<1>6. IsFiniteSet(Entradas(w, Sems))
  BY <1>5, ConstantesOK, FS_Injection
<1>. QED  BY <1>6, FS_CardinalityType

\* q goes from the blocked lists of e to Ready, or to SuspendedReady.
Coloca(e, r, q) ==
  \/ /\ q \in ToSet(e.SuspendedBlock)
     /\ r.SuspendedBlock = RemoveFirst(e.SuspendedBlock, q)
     /\ r.SuspendedReady = Append(e.SuspendedReady, q)
     /\ r.posix["procesoNecesitaEntrarEnReady"] = e.posix["procesoNecesitaEntrarEnReady"] + 1
     /\ r.Ready = e.Ready
     /\ r.posix["hayProcesosReady"] = e.posix["hayProcesosReady"]
  \/ /\ q \notin ToSet(e.SuspendedBlock)
     /\ r.SuspendedBlock = e.SuspendedBlock
     /\ r.SuspendedReady = e.SuspendedReady
     /\ r.posix["procesoNecesitaEntrarEnReady"] = e.posix["procesoNecesitaEntrarEnReady"]
     /\ r.Ready = Append(e.Ready, q)
     /\ r.posix["hayProcesosReady"] = e.posix["hayProcesosReady"] + 1

\* The other semaphores of the kernel.
OtrosPosix(e, r) ==
  \A n \in NombresPosix \ {"hayProcesosReady", "procesoNecesitaEntrarEnReady",
                           "signalSuspensionProceso"} : r.posix[n] = e.posix[n]

\* The photo r has the semaphores of e.
MismosSemaforos(e, r) ==
  /\ r.valor = e.valor /\ r.espera = e.espera
  /\ r.retenidos = e.retenidos /\ r.solicitados = e.solicitados
  /\ r.expulsados = e.expulsados

\* That is what the end of a wait does.
LEMMA PonerEsColoca ==
  ASSUME NEW e \in Fotos, NEW q \in Procesos, NEW r, r = PonerEnElReady(e, q)
  PROVE  r \in Fotos /\ MismosSemaforos(e, r) /\ OtrosPosix(e, r) /\ Coloca(e, r, q)
<1>0. /\ "procesoNecesitaEntrarEnReady" \in NombresPosix /\ "hayProcesosReady" \in NombresPosix
      /\ "signalSuspensionProceso" \in NombresPosix
  BY DEF NombresPosix
<1>t. /\ e.posix \in [NombresPosix -> Nat] /\ e.SuspendedBlock \in Seq(Procesos)
      /\ e.Blocked \in Seq(Procesos) /\ e.SuspendedReady \in Seq(Procesos)
      /\ e.Ready \in Seq(Procesos)
      /\ e.valor \in [Sems -> Int] /\ e.espera \in [Sems -> Seq(Procesos)]
      /\ e.retenidos \in [Procesos -> Seq(Sems)]
      /\ e.solicitados \in [Procesos -> Seq(Sems)] /\ e.expulsados \in SUBSET Procesos
  BY DEF Fotos
<1>1. CASE q \in ToSet(e.SuspendedBlock)
  <2>1. PICK b : b = RemoveFirst(e.SuspendedBlock, q)
    OBVIOUS
  <2>2. b \in Seq(Procesos)
    BY <2>1, <1>t, SinElPrimero
  <2>3. PICK x : x = [e.posix EXCEPT !["procesoNecesitaEntrarEnReady"] = @ + 1,
                                     !["signalSuspensionProceso"] = @ + 1]
    OBVIOUS
  <2>4. /\ x \in [NombresPosix -> Nat]
        /\ x["procesoNecesitaEntrarEnReady"] = e.posix["procesoNecesitaEntrarEnReady"] + 1
        /\ \A n \in NombresPosix \ {"procesoNecesitaEntrarEnReady",
                                    "signalSuspensionProceso"} : x[n] = e.posix[n]
    <3>1. PICK w \in [NombresPosix -> Nat] : w = e.posix
      BY <1>t
    <3>2. PICK y : y = [w EXCEPT !["procesoNecesitaEntrarEnReady"] = @ + 1]
      OBVIOUS
    <3>3. /\ y \in [NombresPosix -> Nat]
          /\ y["procesoNecesitaEntrarEnReady"] = w["procesoNecesitaEntrarEnReady"] + 1
          /\ \A n \in NombresPosix \ {"procesoNecesitaEntrarEnReady"} : y[n] = w[n]
      BY <1>0, <3>2
    <3>4. x = [y EXCEPT !["signalSuspensionProceso"] = w["signalSuspensionProceso"] + 1]
      BY <2>3, <3>1, <3>2
    <3>5. /\ x \in [NombresPosix -> Nat]
          /\ \A n \in NombresPosix \ {"signalSuspensionProceso"} : x[n] = y[n]
      BY <1>0, <3>3, <3>4
    <3>. QED  BY <1>0, <3>1, <3>3, <3>5
  <2>5. r = [valor |-> e.valor, espera |-> e.espera, retenidos |-> e.retenidos,
             solicitados |-> e.solicitados, Blocked |-> e.Blocked, SuspendedBlock |-> b,
             SuspendedReady |-> Append(e.SuspendedReady, q), Ready |-> e.Ready,
             posix |-> x, expulsados |-> e.expulsados]
    BY <1>1, <2>1, <2>3 DEF PonerEnElReady, Fotos
  <2>6. r \in Fotos
    BY <2>2, <2>4, <2>5, <1>t DEF Fotos
  <2>. QED  BY <2>1, <2>4, <2>5, <2>6, <1>0, <1>1 DEF MismosSemaforos, OtrosPosix, Coloca
<1>2. CASE q \notin ToSet(e.SuspendedBlock)
  <2>1. PICK b : b = RemoveFirst(e.Blocked, q)
    OBVIOUS
  <2>2. b \in Seq(Procesos)
    BY <2>1, <1>t, SinElPrimero
  <2>3. PICK x : x = [e.posix EXCEPT !["hayProcesosReady"] = @ + 1]
    OBVIOUS
  <2>4. /\ x \in [NombresPosix -> Nat]
        /\ x["hayProcesosReady"] = e.posix["hayProcesosReady"] + 1
        /\ \A n \in NombresPosix \ {"hayProcesosReady"} : x[n] = e.posix[n]
    BY <2>3, <1>0, <1>t
  <2>5. r = [valor |-> e.valor, espera |-> e.espera, retenidos |-> e.retenidos,
             solicitados |-> e.solicitados, Blocked |-> b,
             SuspendedBlock |-> e.SuspendedBlock,
             SuspendedReady |-> e.SuspendedReady, Ready |-> Append(e.Ready, q),
             posix |-> x, expulsados |-> e.expulsados]
    BY <1>2, <2>1, <2>3 DEF PonerEnElReady, Fotos
  <2>6. r \in Fotos
    BY <2>2, <2>4, <2>5, <1>t DEF Fotos
  <2>. QED  BY <2>4, <2>5, <2>6, <1>0, <1>2 DEF MismosSemaforos, OtrosPosix, Coloca
<1>. QED  BY <1>1, <1>2

\* From e to d, the semaphore s is taken from q's list for it, and v leaves the
\* blocked lists.
Entrega(e, d, v, s, q) ==
  /\ d.valor[s] = e.valor[s] + 1 /\ \A u \in Sems \ {s} : d.valor[u] = e.valor[u]
  /\ d.espera[s] = Tail(e.espera[s]) /\ \A u \in Sems \ {s} : d.espera[u] = e.espera[u]
  /\ \A p \in Procesos : d.solicitados[p] = IF p = q THEN <<>> ELSE e.solicitados[p]
  /\ d.SuspendedBlock = RemoveFirst(e.SuspendedBlock, v)
  /\ d.SuspendedReady = e.SuspendedReady /\ d.Ready = e.Ready
  /\ d.posix = e.posix /\ d.expulsados = e.expulsados

\* One semaphore of the victim v goes to the first q that waits for it: v is
\* taken out of the blocked lists, and then q is.
LEMMA SueltaConEspera ==
  ASSUME NEW e \in Fotos, NEW v \in Procesos, NEW s \in Sems, e.espera[s] # <<>>,
         NEW q \in Procesos, q = Head(e.espera[s]), e.solicitados[q] = <<s>>,
         NEW r, r = SueltaRetenido(v, e, s)
  PROVE  \E d \in Fotos : Entrega(e, d, v, s, q) /\ r = PonerEnElReady(d, q)
<1>t. /\ e.posix \in [NombresPosix -> Nat] /\ e.SuspendedBlock \in Seq(Procesos)
      /\ e.Blocked \in Seq(Procesos) /\ e.SuspendedReady \in Seq(Procesos)
      /\ e.Ready \in Seq(Procesos)
      /\ e.valor \in [Sems -> Int] /\ e.espera \in [Sems -> Seq(Procesos)]
      /\ e.retenidos \in [Procesos -> Seq(Sems)]
      /\ e.solicitados \in [Procesos -> Seq(Sems)] /\ e.expulsados \in SUBSET Procesos
  BY DEF Fotos
<1>1. PICK w : w = [e.espera EXCEPT ![s] = Tail(@)]
  OBVIOUS
<1>2. w \in [Sems -> Seq(Procesos)]
  <2>1. Tail(e.espera[s]) \in Seq(Procesos)
    BY <1>t
  <2>. QED  BY <1>1, <1>t, <2>1
<1>3. PICK x : x = [e.valor EXCEPT ![s] = @ + 1]
  OBVIOUS
<1>4. x \in [Sems -> Int]
  BY <1>3, <1>t
<1>5. PICK y : y = [e.retenidos EXCEPT ![q] = Append(@, s)]
  OBVIOUS
<1>6. y \in [Procesos -> Seq(Sems)]
  BY <1>5, <1>t
<1>7. PICK z : z = [e.solicitados EXCEPT ![q] = Tail(@)]
  OBVIOUS
<1>8. z = [e.solicitados EXCEPT ![q] = <<>>] /\ z \in [Procesos -> Seq(Sems)]
  <2>1. Tail(e.solicitados[q]) = <<>> /\ <<>> \in Seq(Sems)
    OBVIOUS
  <2>. QED  BY <2>1, <1>7, <1>t
<1>9. PICK f : f = [e EXCEPT !.valor[s] = @ + 1, !.espera[s] = Tail(@),
                             !.retenidos[q] = Append(@, s),
                             !.solicitados[q] = Tail(@)]
  OBVIOUS
<1>10. f = [valor |-> x, espera |-> w, retenidos |-> y, solicitados |-> z,
            Blocked |-> e.Blocked, SuspendedBlock |-> e.SuspendedBlock,
            SuspendedReady |-> e.SuspendedReady, Ready |-> e.Ready,
            posix |-> e.posix, expulsados |-> e.expulsados]
  BY <1>1, <1>3, <1>5, <1>7, <1>9 DEF Fotos
<1>11. f \in Fotos
  BY <1>2, <1>4, <1>6, <1>8, <1>10, <1>t DEF Fotos
<1>12. PICK d : d = IF v \in ToSet(f.SuspendedBlock)
                    THEN [f EXCEPT !.SuspendedBlock = RemoveFirst(@, v)]
                    ELSE [f EXCEPT !.Blocked = RemoveFirst(@, v)]
  OBVIOUS
<1>13. r = PonerEnElReady(d, q)
  BY <1>9, <1>12 DEF SueltaRetenido
<1>14. PICK b, c : /\ b = RemoveFirst(e.SuspendedBlock, v)
                   /\ c = IF v \in ToSet(f.SuspendedBlock) THEN e.Blocked
                          ELSE RemoveFirst(e.Blocked, v)
  OBVIOUS
<1>15. b \in Seq(Procesos) /\ c \in Seq(Procesos)
  BY <1>14, <1>t, SinElPrimero
<1>16. v \notin ToSet(e.SuspendedBlock) => b = e.SuspendedBlock
  BY <1>14, <1>t, SacaElPrimero
<1>17. d = [valor |-> x, espera |-> w, retenidos |-> y, solicitados |-> z,
            Blocked |-> c, SuspendedBlock |-> b,
            SuspendedReady |-> e.SuspendedReady, Ready |-> e.Ready,
            posix |-> e.posix, expulsados |-> e.expulsados]
  <2>1. CASE v \in ToSet(e.SuspendedBlock)
    BY <2>1, <1>10, <1>12, <1>14
  <2>2. CASE v \notin ToSet(e.SuspendedBlock)
    BY <2>2, <1>10, <1>12, <1>14, <1>16
  <2>. QED  BY <2>1, <2>2
<1>18. d \in Fotos
  BY <1>2, <1>4, <1>6, <1>8, <1>15, <1>17, <1>t DEF Fotos
<1>19. Entrega(e, d, v, s, q)
  <2>1. d.valor = x /\ d.espera = w /\ d.solicitados = z /\ d.SuspendedBlock = b
    BY <1>17
  <2>2. /\ d.SuspendedReady = e.SuspendedReady /\ d.Ready = e.Ready
        /\ d.posix = e.posix /\ d.expulsados = e.expulsados
    BY <1>17
  <2>3. x[s] = e.valor[s] + 1 /\ \A u \in Sems \ {s} : x[u] = e.valor[u]
    BY <1>3, <1>t
  <2>4. w[s] = Tail(e.espera[s]) /\ \A u \in Sems \ {s} : w[u] = e.espera[u]
    BY <1>1, <1>t
  <2>5. \A p \in Procesos : z[p] = IF p = q THEN <<>> ELSE e.solicitados[p]
    BY <1>8, <1>t
  <2>6. b = RemoveFirst(e.SuspendedBlock, v)
    BY <1>14
  <2>. QED  BY <2>1, <2>2, <2>3, <2>4, <2>5, <2>6 DEF Entrega
<1>. QED  BY <1>13, <1>18, <1>19

\* By the maps m and a, each process is in the list of the photo e that it
\* should be in, once, and the values tell how many wait.
Sana(e, m, a) ==
  /\ Cuadran(e.valor, e.espera) /\ Duermen(m, a)
  /\ EnSusListas(a, e.espera) /\ Piden(a, e.solicitados)
  /\ Lista(m, e.Ready, "ready") /\ Lista(m, e.SuspendedReady, "susReady")

\* From the map l to the map m, the processes M have been killed, and others
\* released; all of them waited.
Vienen(l, m, M) ==
  /\ \A x \in Sitios \ {"fuera", "semaforo", "ready", "susReady"} : Igual(l, m, x)
  /\ \A p \in Procesos : m[p] = "fuera" <=> l[p] = "fuera" \/ p \in M
  /\ \A p \in Procesos : m[p] = "semaforo" => l[p] = "semaforo"
  /\ \A p \in M : l[p] = "semaforo"

\* The photo e has announced what it has moved since the photo f.
Cuentas(f, e) ==
  /\ e.posix["hayProcesosReady"] - Len(e.Ready)
       = f.posix["hayProcesosReady"] - Len(f.Ready)
  /\ e.posix["procesoNecesitaEntrarEnReady"] - Len(e.SuspendedReady)
       = f.posix["procesoNecesitaEntrarEnReady"] - Len(f.SuspendedReady)
  /\ Len(e.SuspendedReady) >= Len(f.SuspendedReady)
  /\ OtrosPosix(f, e)

SinRepetir(s, r) == \A p : UnaVez(s, p) => UnaVez(r, p)

\* What the runs keep, from the photo f and the map l on, having killed M.
Buena(f, l, e, M) ==
  /\ f \in Fotos /\ e \in Fotos /\ Cuentas(f, e) /\ SinRepetir(f.SuspendedBlock, e.SuspendedBlock)
  /\ \E m \in [Procesos -> Sitios], a \in Esperas : Sana(e, m, a) /\ Vienen(l, m, M)

\* The permits that the lists of a photo stand for.
Cuenta(e) ==
  Len(e.Ready) + Cardinality(Entradas(e.espera, Sems)) - Len(e.SuspendedBlock)

\* All of it are numbers.
LEMMA CuentaEsEntera ==
  ASSUME NEW e \in Fotos, NEW m, NEW a \in Esperas, Sana(e, m, a)
  PROVE  /\ IsFiniteSet(Entradas(e.espera, Sems))
         /\ Cardinality(Entradas(e.espera, Sems)) \in Nat
         /\ Len(e.Ready) \in Nat /\ Len(e.SuspendedBlock) \in Nat
         /\ Len(e.SuspendedReady) \in Nat /\ Cuenta(e) \in Int
<1>1. /\ IsFiniteSet(Entradas(e.espera, Sems))
      /\ Cardinality(Entradas(e.espera, Sems)) \in Nat
  <2>1. e.espera \in [Sems -> Seq(Procesos)]
    BY DEF Fotos
  <2>. QED  BY <2>1, EntradasFinitas DEF Sana
<1>2. /\ e.Ready \in Seq(Procesos) /\ e.SuspendedBlock \in Seq(Procesos)
      /\ e.SuspendedReady \in Seq(Procesos)
  BY DEF Fotos
<1>. QED  BY <1>1, <1>2 DEF Cuenta

\* The first of a waiting list waits there.
LEMMA ElPrimeroEspera ==
  ASSUME NEW w \in [Sems -> Seq(Procesos)], NEW a \in Esperas, EnSusListas(a, w),
         NEW s \in Sems, w[s] # <<>>
  PROVE  /\ Head(w[s]) \in Procesos /\ a[Head(w[s])] = s
<1>1. /\ 1 \in 1..Len(w[s]) /\ w[s][1] = Head(w[s]) /\ Head(w[s]) \in Procesos
  BY CabezaEsLaPrimera
<1>. QED  BY <1>1 DEF EnSusListas, Lista

\* A process that waits leaves its list, wherever it is in it.
LEMMA SaleElQueEspera ==
  ASSUME NEW w \in [Sems -> Seq(Procesos)], NEW a \in Esperas, EnSusListas(a, w),
         NEW q \in Procesos, NEW s \in Sems, s = a[q],
         NEW z, z[s] = RemoveFirst(w[s], q), \A u \in Sems \ {s} : z[u] = w[u]
  PROVE  /\ Muda(a, q, Nadie) \in Esperas /\ EnSusListas(Muda(a, q, Nadie), z)
         /\ z[s] \in Seq(Procesos) /\ Len(z[s]) = Len(w[s]) - 1 /\ w[s] # <<>>
<1>1. \E i \in 1..Len(w[s]) : w[s][i] = q
  BY DEF EnSusListas, Lista
<1>2. q \in ToSet(w[s])
  BY <1>1, EnLista
<1>3. PICK k \in 1..Len(w[s]) : w[s][k] = q /\ RemoveFirst(w[s], q) = RemoveAt(w[s], k)
  BY <1>2, SacaElPrimero
<1>4. PICK x : x = z[s]
  OBVIOUS
<1>5. x = RemoveAt(w[s], k) /\ q = w[s][k]
  BY <1>3, <1>4
<1>6. /\ Lista(Muda(a, q, Nadie), x, s) /\ x \in Seq(Procesos)
      /\ Len(x) = Len(w[s]) - 1 /\ w[s] # <<>>
  <2>1. PICK r \in Seq(Procesos) : r = w[s]
    OBVIOUS
  <2>2. /\ Lista(a, r, s) /\ k \in 1..Len(r) /\ q = r[k] /\ s # Nadie /\ x = RemoveAt(r, k)
        /\ a \in [Procesos -> Sems \cup {Nadie}]
    BY <2>1, <1>5, SemaforosOK DEF EnSusListas, Esperas
  <2>3. Lista(Muda(a, q, Nadie), RemoveAt(r, k), s)
    BY <2>2, SaleDeLista
  <2>4. /\ RemoveAt(r, k) \in Seq(Procesos) /\ Len(RemoveAt(r, k)) = Len(r) - 1
    BY <2>2, RemoveAtEsLista
  <2>5. r # <<>>
    BY <2>2
  <2>. QED  BY <2>1, <2>2, <2>3, <2>4, <2>5
<1>7. \A u \in Sems \ {s} : Lista(Muda(a, q, Nadie), w[u], u)
  <2>1. \A p \in Procesos : Muda(a, q, Nadie)[p] = IF p = q THEN Nadie ELSE a[p]
    BY DEF Muda, Esperas
  <2>2. ASSUME NEW u \in Sems \ {s} PROVE Lista(Muda(a, q, Nadie), w[u], u)
    <3>1. Lista(a, w[u], u) /\ u # Nadie /\ a[q] # u
      BY SemaforosOK DEF EnSusListas
    <3>. QED  BY <2>1, <3>1 DEF Lista
  <2>. QED  BY <2>2
<1>8. Muda(a, q, Nadie) \in Esperas
  BY DEF Muda, Esperas
<1>9. \A u \in Sems : Lista(Muda(a, q, Nadie), z[u], u)
  BY <1>4, <1>6, <1>7
<1>. QED  BY <1>4, <1>6, <1>8, <1>9 DEF EnSusListas

\* A waiting process that goes to another site.
LEMMA VieneOtro ==
  ASSUME NEW l, NEW m \in [Procesos -> Sitios], NEW M, Vienen(l, m, M),
         NEW q \in Procesos, m[q] = "semaforo", NEW y
  PROVE  /\ y \in {"ready", "susReady"} =>
              /\ Muda(m, q, y) \in [Procesos -> Sitios] /\ Vienen(l, Muda(m, q, y), M)
         /\ y = "fuera" =>
              /\ Muda(m, q, y) \in [Procesos -> Sitios]
              /\ Vienen(l, Muda(m, q, y), M \cup {q})
<1>1. \A p \in Procesos : Muda(m, q, y)[p] = IF p = q THEN y ELSE m[p]
  BY DEF Muda
<1>2. y \in {"ready", "susReady", "fuera"} => Muda(m, q, y) \in [Procesos -> Sitios]
  BY DEF Muda, Sitios
<1>3. \A x \in Sitios \ {"fuera", "semaforo", "ready", "susReady"} :
        y \in {"ready", "susReady", "fuera"} => Igual(l, Muda(m, q, y), x)
  BY <1>1 DEF Vienen, Igual
<1>4. CASE y \in {"ready", "susReady"}
  BY <1>1, <1>2, <1>3, <1>4 DEF Vienen
<1>5. CASE y = "fuera"
  BY <1>1, <1>2, <1>3, <1>5 DEF Vienen
<1>. QED  BY <1>4, <1>5

\* The numbers of a photo.
LEMMA NumerosDeFoto ==
  ASSUME NEW d \in Fotos
  PROVE  /\ Len(d.Ready) \in Nat /\ Len(d.SuspendedReady) \in Nat
         /\ Len(d.SuspendedBlock) \in Nat
         /\ d.posix["hayProcesosReady"] \in Nat
         /\ d.posix["procesoNecesitaEntrarEnReady"] \in Nat
<1>1. \A s \in Seq(Procesos) : Len(s) \in Nat
  OBVIOUS
<1>2. /\ d.SuspendedBlock \in Seq(Procesos) /\ d.Ready \in Seq(Procesos)
      /\ d.SuspendedReady \in Seq(Procesos)
  BY DEF Fotos
<1>3. d.posix \in [NombresPosix -> Nat]
  BY DEF Fotos
<1>4. {"hayProcesosReady", "procesoNecesitaEntrarEnReady"} \subseteq NombresPosix
  BY DEF NombresPosix
<1>5. d.posix["hayProcesosReady"] \in Nat /\ d.posix["procesoNecesitaEntrarEnReady"] \in Nat
  BY <1>3, <1>4
<1>. QED  BY <1>1, <1>2, <1>5

\* What enters a list is announced.
LEMMA CuentasDelPaso ==
  ASSUME NEW f \in Fotos, NEW e \in Fotos, NEW r \in Fotos, Cuentas(f, e), OtrosPosix(e, r),
         NEW x \in Nat, NEW y \in Nat,
         Len(r.Ready) = Len(e.Ready) + x, Len(r.SuspendedReady) = Len(e.SuspendedReady) + y,
         r.posix["hayProcesosReady"] = e.posix["hayProcesosReady"] + x,
         r.posix["procesoNecesitaEntrarEnReady"]
           = e.posix["procesoNecesitaEntrarEnReady"] + y
  PROVE  Cuentas(f, r)
<1>1. \A d \in Fotos : /\ Len(d.Ready) \in Nat /\ Len(d.SuspendedReady) \in Nat
                       /\ d.posix["hayProcesosReady"] \in Nat
                       /\ d.posix["procesoNecesitaEntrarEnReady"] \in Nat
  BY NumerosDeFoto
<1>2. PICK a, b, c, d : /\ a = e.posix["hayProcesosReady"] /\ b = Len(e.Ready)
                        /\ c = f.posix["hayProcesosReady"] /\ d = Len(f.Ready)
  OBVIOUS
<1>3. /\ r.posix["hayProcesosReady"] - Len(r.Ready) = (a + x) - (b + x)
      /\ a - b = c - d /\ a \in Nat /\ b \in Nat /\ c \in Nat /\ d \in Nat
  BY <1>1, <1>2 DEF Cuentas
<1>4. r.posix["hayProcesosReady"] - Len(r.Ready) = c - d
  BY <1>3
<1>5. PICK g, h, i, j :
        /\ g = e.posix["procesoNecesitaEntrarEnReady"] /\ h = Len(e.SuspendedReady)
        /\ i = f.posix["procesoNecesitaEntrarEnReady"] /\ j = Len(f.SuspendedReady)
  OBVIOUS
<1>6. /\ r.posix["procesoNecesitaEntrarEnReady"] - Len(r.SuspendedReady) = (g + y) - (h + y)
      /\ Len(r.SuspendedReady) = h + y /\ h >= j
      /\ g - h = i - j /\ g \in Nat /\ h \in Nat /\ i \in Nat /\ j \in Nat
  BY <1>1, <1>5 DEF Cuentas
<1>7. /\ r.posix["procesoNecesitaEntrarEnReady"] - Len(r.SuspendedReady) = i - j
      /\ Len(r.SuspendedReady) >= j
  BY <1>6
<1>8. OtrosPosix(f, r)
  BY DEF Cuentas, OtrosPosix
<1>. QED  BY <1>2, <1>4, <1>5, <1>7, <1>8 DEF Cuentas

\* With nobody waiting for it, the semaphore of the victim is free.
LEMMA SueltaLibre ==
  ASSUME NEW f, NEW l, NEW M, NEW e, Buena(f, l, e, M), NEW v, NEW s \in Sems,
         e.espera[s] = <<>>, NEW r, r = SueltaRetenido(v, e, s)
  PROVE  /\ Buena(f, l, r, M) /\ r.expulsados = e.expulsados
         /\ r.SuspendedBlock = e.SuspendedBlock /\ Cuenta(r) = Cuenta(e)
<1>t. /\ e \in Fotos /\ f \in Fotos /\ e.valor \in [Sems -> Int]
  BY DEF Buena, Fotos
<1>1. PICK m \in [Procesos -> Sitios], a \in Esperas : Sana(e, m, a) /\ Vienen(l, m, M)
  BY DEF Buena
<1>2. PICK x : x = [e.valor EXCEPT ![s] = @ + 1]
  OBVIOUS
<1>3. x \in [Sems -> Int] /\ x[s] = e.valor[s] + 1 /\ \A u \in Sems \ {s} : x[u] = e.valor[u]
  BY <1>2, <1>t
<1>4. r = [valor |-> x, espera |-> e.espera, retenidos |-> e.retenidos,
           solicitados |-> e.solicitados, Blocked |-> e.Blocked,
           SuspendedBlock |-> e.SuspendedBlock, SuspendedReady |-> e.SuspendedReady,
           Ready |-> e.Ready, posix |-> e.posix, expulsados |-> e.expulsados]
  BY <1>2, <1>t DEF SueltaRetenido, Fotos
<1>5. r \in Fotos
  BY <1>3, <1>4, <1>t DEF Fotos
<1>6. Cuadran(x, e.espera)
  <2>1. Cuadran(e.valor, e.espera) /\ Len(e.espera[s]) = 0
    BY <1>1 DEF Sana
  <2>. QED  BY <1>3, <1>t, <2>1 DEF Cuadran
<1>7. Sana(r, m, a)
  BY <1>1, <1>4, <1>6 DEF Sana
<1>8. Cuentas(f, r) /\ SinRepetir(f.SuspendedBlock, r.SuspendedBlock)
  BY <1>4 DEF Buena, Cuentas, OtrosPosix
<1>9. Buena(f, l, r, M)
  BY <1>1, <1>5, <1>7, <1>8 DEF Buena
<1>. QED  BY <1>4, <1>9 DEF Cuenta

\* What giving a semaphore away does to the permits: a released process takes
\* the place of the one that waited, but the victim that was suspended leaves
\* SuspendedBlock too.
Balancea(v, e, r) ==
  /\ v \notin ToSet(e.SuspendedBlock) => v \notin ToSet(r.SuspendedBlock)
  /\ \/ Cuenta(r) = Cuenta(e)
     \/ /\ Cuenta(r) = Cuenta(e) + 1 /\ v \in ToSet(e.SuspendedBlock)
        /\ UnaVez(e.SuspendedBlock, v) => v \notin ToSet(r.SuspendedBlock)

\* The first that waits for the semaphore of the victim is released.
LEMMA SueltaAOtro ==
  ASSUME NEW f, NEW l, NEW M, NEW e, Buena(f, l, e, M), NEW v \in Procesos,
         NEW s \in Sems, e.espera[s] # <<>>, NEW r, r = SueltaRetenido(v, e, s)
  PROVE  Buena(f, l, r, M) /\ r.expulsados = e.expulsados /\ Balancea(v, e, r)
<1>t. /\ e \in Fotos /\ e.valor \in [Sems -> Int] /\ e.espera \in [Sems -> Seq(Procesos)]
      /\ e.solicitados \in [Procesos -> Seq(Sems)] /\ e.SuspendedBlock \in Seq(Procesos)
      /\ e.Ready \in Seq(Procesos) /\ e.SuspendedReady \in Seq(Procesos)
      /\ e.posix \in [NombresPosix -> Nat] /\ f \in Fotos
  BY DEF Buena, Fotos
<1>1. PICK m \in [Procesos -> Sitios], a \in Esperas : Sana(e, m, a) /\ Vienen(l, m, M)
  BY DEF Buena
<1>2. PICK q \in Procesos : q = Head(e.espera[s]) /\ a[q] = s
  BY <1>1, <1>t, ElPrimeroEspera DEF Sana
<1>3. e.solicitados[q] = <<s>> /\ m[q] = "semaforo"
  BY <1>1, <1>2, SemaforosOK DEF Sana, Piden, Duermen
<1>4. PICK d \in Fotos : Entrega(e, d, v, s, q) /\ r = PonerEnElReady(d, q)
  <2>1. e \in Fotos /\ q = Head(e.espera[s]) /\ e.solicitados[q] = <<s>>
    BY <1>t, <1>2, <1>3
  <2>. QED  BY <2>1, SueltaConEspera
<1>5. r \in Fotos /\ MismosSemaforos(d, r) /\ OtrosPosix(d, r) /\ Coloca(d, r, q)
  BY <1>4, PonerEsColoca
<1>e. /\ d.SuspendedBlock = RemoveFirst(e.SuspendedBlock, v)
      /\ d.SuspendedReady = e.SuspendedReady /\ d.Ready = e.Ready
      /\ d.posix = e.posix /\ d.expulsados = e.expulsados
  BY <1>4 DEF Entrega
<1>. DEFINE b == Muda(a, q, Nadie)
\* the semaphores
<1>6. /\ b \in Esperas /\ EnSusListas(b, d.espera)
      /\ Len(d.espera[s]) = Len(e.espera[s]) - 1
      /\ \A u \in Sems \ {s} : d.espera[u] = e.espera[u]
  <2>1. d.espera[s] = Tail(e.espera[s]) /\ \A u \in Sems \ {s} : d.espera[u] = e.espera[u]
    BY <1>4 DEF Entrega
  <2>2. PICK w \in [Sems -> Seq(Procesos)] : w = e.espera
    BY <1>t
  <2>5. PICK z : z = d.espera
    OBVIOUS
  <2>3. /\ EnSusListas(a, w) /\ w[s] # <<>> /\ q = Head(w[s])
        /\ z[s] = Tail(w[s]) /\ \A u \in Sems \ {s} : z[u] = w[u]
    BY <1>1, <1>2, <2>1, <2>2, <2>5 DEF Sana
  <2>4. b \in Esperas /\ EnSusListas(b, z) /\ Len(z[s]) = Len(w[s]) - 1
    BY <2>3, SaleElPrimero
  <2>. QED  BY <2>1, <2>2, <2>4, <2>5
<1>7. Cuadran(d.valor, d.espera)
  <2>1. /\ d.valor[s] = e.valor[s] + 1 /\ \A u \in Sems \ {s} : d.valor[u] = e.valor[u]
        /\ e.valor[s] \in Int
    BY <1>4, <1>t DEF Entrega
  <2>2. Cuadran(e.valor, e.espera)
    BY <1>1 DEF Sana
  <2>3. Len(e.espera[s]) \in Nat /\ Len(e.espera[s]) > 0
    BY <1>t
  <2>4. /\ Len(d.espera[s]) = (IF d.valor[s] < 0 THEN -d.valor[s] ELSE 0)
    BY <2>1, <2>2, <2>3, <1>6 DEF Cuadran
  <2>. QED  BY <2>1, <2>2, <2>4, <1>6 DEF Cuadran
<1>8. Piden(b, d.solicitados)
  <2>1. \A p \in Procesos : b[p] = IF p = q THEN Nadie ELSE a[p]
    BY DEF Muda, Esperas
  <2>2. \A p \in Procesos : d.solicitados[p] = IF p = q THEN <<>> ELSE e.solicitados[p]
    BY <1>4 DEF Entrega
  <2>. QED  BY <2>1, <2>2, <1>1 DEF Sana, Piden
<1>9. \A y \in {"ready", "susReady"} : Duermen(Muda(m, q, y), b)
  BY <1>1 DEF Sana, Duermen, Muda, Esperas
<1>10. IsFiniteSet(Entradas(e.espera, Sems)) /\ Cardinality(Entradas(e.espera, Sems)) \in Nat
  BY <1>1, <1>t, CuentaEsEntera
<1>11. Cardinality(Entradas(d.espera, Sems)) = Cardinality(Entradas(e.espera, Sems)) - 1
  <2>1. PICK w \in [Sems -> Seq(Procesos)], z \in [Sems -> Seq(Procesos)] :
          w = e.espera /\ z = d.espera
    BY <1>t DEF Fotos
  <2>2. /\ IsFiniteSet(Entradas(w, Sems)) /\ w[s] # <<>> /\ Len(z[s]) = Len(w[s]) - 1
        /\ \A u \in Sems \ {s} : z[u] = w[u]
    <3>. HIDE DEF b
    <3>. QED  BY <2>1, <1>6, <1>10
  <2>3. Cardinality(Entradas(z, Sems)) = Cardinality(Entradas(w, Sems)) - 1
    <3>. HIDE DEF b
    <3>. QED  BY <2>2, UnaEntradaMenos
  <2>. QED  BY <2>1, <2>3
\* the lists of the blocked processes
<1>12. /\ d.SuspendedBlock \in Seq(Procesos)
       /\ Len(d.SuspendedBlock) = IF v \in ToSet(e.SuspendedBlock)
                                  THEN Len(e.SuspendedBlock) - 1 ELSE Len(e.SuspendedBlock)
       /\ SinRepetir(e.SuspendedBlock, d.SuspendedBlock)
       /\ UnaVez(e.SuspendedBlock, v) => v \notin ToSet(d.SuspendedBlock)
       /\ v \notin ToSet(e.SuspendedBlock) => v \notin ToSet(d.SuspendedBlock)
  BY <1>e, <1>t, SinElPrimero DEF SinRepetir
<1>13. /\ r.SuspendedBlock \in Seq(Procesos)
       /\ Len(r.SuspendedBlock) = IF q \in ToSet(d.SuspendedBlock)
                                  THEN Len(d.SuspendedBlock) - 1 ELSE Len(d.SuspendedBlock)
       /\ SinRepetir(d.SuspendedBlock, r.SuspendedBlock)
       /\ v \notin ToSet(d.SuspendedBlock) => v \notin ToSet(r.SuspendedBlock)
  <2>1. CASE q \in ToSet(d.SuspendedBlock)
    BY <2>1, <1>5, <1>12, SinElPrimero DEF SinRepetir, Coloca
  <2>2. CASE q \notin ToSet(d.SuspendedBlock)
    BY <2>2, <1>5, <1>12 DEF SinRepetir, Coloca
  <2>. QED  BY <2>1, <2>2
<1>14. SinRepetir(f.SuspendedBlock, r.SuspendedBlock)
  BY <1>12, <1>13 DEF Buena, SinRepetir
\* the place of the released process
<1>15. /\ r.valor = d.valor /\ r.espera = d.espera /\ r.solicitados = d.solicitados
       /\ r.expulsados = e.expulsados
  BY <1>e, <1>5 DEF MismosSemaforos
<1>16. Lista(m, e.Ready, "ready") /\ Lista(m, e.SuspendedReady, "susReady")
  BY <1>1 DEF Sana
<1>19. Cuentas(f, e) /\ OtrosPosix(e, r)
  BY <1>e, <1>5 DEF Buena, OtrosPosix
<1>20. /\ Len(e.Ready) \in Nat /\ Len(e.SuspendedReady) \in Nat
       /\ Len(e.SuspendedBlock) \in Nat
       /\ e.posix["procesoNecesitaEntrarEnReady"] \in Nat /\ e.posix["hayProcesosReady"] \in Nat
  BY <1>t, NumerosDeFoto
<1>21. Cuenta(e) = Len(e.Ready) + Cardinality(Entradas(e.espera, Sems))
                     - Len(e.SuspendedBlock)
  BY DEF Cuenta
<1>17. CASE q \in ToSet(d.SuspendedBlock)
  <2>1. /\ r.SuspendedReady = Append(e.SuspendedReady, q) /\ r.Ready = e.Ready
        /\ r.posix["procesoNecesitaEntrarEnReady"]
             = e.posix["procesoNecesitaEntrarEnReady"] + 1
        /\ r.posix["hayProcesosReady"] = e.posix["hayProcesosReady"]
    BY <1>e, <1>5, <1>17 DEF Coloca
  <2>2. Lista(Muda(m, q, "susReady"), r.SuspendedReady, "susReady")
    BY <2>1, <1>3, <1>16, <1>t, EntraALista
  <2>3. Lista(Muda(m, q, "susReady"), r.Ready, "ready")
    BY <2>1, <1>3, <1>16 DEF Lista, Muda
  <2>4. Muda(m, q, "susReady") \in [Procesos -> Sitios] /\ Vienen(l, Muda(m, q, "susReady"), M)
    BY <1>1, <1>3, VieneOtro
  <2>5. Sana(r, Muda(m, q, "susReady"), b)
    BY <2>2, <2>3, <1>6, <1>7, <1>8, <1>9, <1>15 DEF Sana
  <2>6. Len(r.SuspendedReady) = Len(e.SuspendedReady) + 1 /\ Len(r.Ready) = Len(e.Ready)
    BY <2>1, <1>t
  <2>7. Cuentas(f, r)
    <3>1. PICK x \in Nat, y \in Nat : x = 0 /\ y = 1
      OBVIOUS
    <3>2. /\ Len(r.Ready) = Len(e.Ready) + x
          /\ Len(r.SuspendedReady) = Len(e.SuspendedReady) + y
          /\ r.posix["hayProcesosReady"] = e.posix["hayProcesosReady"] + x
          /\ r.posix["procesoNecesitaEntrarEnReady"]
               = e.posix["procesoNecesitaEntrarEnReady"] + y
      BY <2>1, <2>6, <3>1, <1>20
    <3>. QED  BY <3>2, <1>t, <1>5, <1>19, CuentasDelPaso
  <2>8. Buena(f, l, r, M)
    BY <2>4, <2>5, <2>7, <1>5, <1>6, <1>14 DEF Buena
  <2>9. Balancea(v, e, r)
    <3>1. Len(r.SuspendedBlock) = Len(d.SuspendedBlock) - 1
      BY <1>13, <1>17
    <3>2. Cuenta(r) = Len(e.Ready) + (Cardinality(Entradas(e.espera, Sems)) - 1) - Len(r.SuspendedBlock)
      BY <2>6, <1>11, <1>15 DEF Cuenta
    <3>3. PICK x, y, z : /\ x = Len(e.Ready) /\ z = Len(e.SuspendedBlock)
                         /\ y = Cardinality(Entradas(e.espera, Sems))
      OBVIOUS
    <3>4. x \in Nat /\ y \in Nat /\ z \in Nat /\ Cuenta(e) = x + y - z
      BY <3>3, <1>10, <1>20, <1>21
    <3>5. CASE v \in ToSet(e.SuspendedBlock)
      <4>0. Len(r.SuspendedBlock) = z - 1 - 1
        BY <3>1, <3>3, <3>5, <1>12
      <4>2. Cuenta(r) = x + (y - 1) - (z - 1 - 1)
        BY <3>2, <3>3, <4>0
      <4>1. Cuenta(r) = Cuenta(e) + 1
        BY <3>4, <4>2
      <4>. QED  BY <3>5, <4>1, <1>12, <1>13 DEF Balancea
    <3>6. CASE v \notin ToSet(e.SuspendedBlock)
      <4>0. Len(r.SuspendedBlock) = z - 1
        BY <3>1, <3>3, <3>6, <1>12
      <4>2. Cuenta(r) = x + (y - 1) - (z - 1)
        BY <3>2, <3>3, <4>0
      <4>1. Cuenta(r) = Cuenta(e)
        BY <3>4, <4>2
      <4>. QED  BY <3>6, <4>1, <1>12, <1>13 DEF Balancea
    <3>. QED  BY <3>5, <3>6
  <2>. QED  BY <2>8, <2>9, <1>15
<1>18. CASE q \notin ToSet(d.SuspendedBlock)
  <2>1. /\ r.SuspendedReady = e.SuspendedReady /\ r.Ready = Append(e.Ready, q)
        /\ r.posix["procesoNecesitaEntrarEnReady"] = e.posix["procesoNecesitaEntrarEnReady"]
        /\ r.posix["hayProcesosReady"] = e.posix["hayProcesosReady"] + 1
    BY <1>e, <1>5, <1>18 DEF Coloca
  <2>2. Lista(Muda(m, q, "ready"), r.Ready, "ready")
    BY <2>1, <1>3, <1>16, <1>t, EntraALista
  <2>3. Lista(Muda(m, q, "ready"), r.SuspendedReady, "susReady")
    BY <2>1, <1>3, <1>16 DEF Lista, Muda
  <2>4. Muda(m, q, "ready") \in [Procesos -> Sitios] /\ Vienen(l, Muda(m, q, "ready"), M)
    BY <1>1, <1>3, VieneOtro
  <2>5. Sana(r, Muda(m, q, "ready"), b)
    BY <2>2, <2>3, <1>6, <1>7, <1>8, <1>9, <1>15 DEF Sana
  <2>6. Len(r.SuspendedReady) = Len(e.SuspendedReady) /\ Len(r.Ready) = Len(e.Ready) + 1
    BY <2>1, <1>t
  <2>7. Cuentas(f, r)
    <3>1. PICK x \in Nat, y \in Nat : x = 1 /\ y = 0
      OBVIOUS
    <3>2. /\ Len(r.Ready) = Len(e.Ready) + x
          /\ Len(r.SuspendedReady) = Len(e.SuspendedReady) + y
          /\ r.posix["hayProcesosReady"] = e.posix["hayProcesosReady"] + x
          /\ r.posix["procesoNecesitaEntrarEnReady"]
               = e.posix["procesoNecesitaEntrarEnReady"] + y
      BY <2>1, <2>6, <3>1, <1>20
    <3>. QED  BY <3>2, <1>t, <1>5, <1>19, CuentasDelPaso
  <2>8. Buena(f, l, r, M)
    BY <2>4, <2>5, <2>7, <1>5, <1>6, <1>14 DEF Buena
  <2>9. Balancea(v, e, r)
    <3>1. Len(r.SuspendedBlock) = Len(d.SuspendedBlock)
      BY <1>13, <1>18
    <3>2. Cuenta(r) = (Len(e.Ready) + 1) + (Cardinality(Entradas(e.espera, Sems)) - 1) - Len(r.SuspendedBlock)
      BY <2>6, <1>11, <1>15 DEF Cuenta
    <3>3. PICK x, y, z : /\ x = Len(e.Ready) /\ z = Len(e.SuspendedBlock)
                         /\ y = Cardinality(Entradas(e.espera, Sems))
      OBVIOUS
    <3>4. x \in Nat /\ y \in Nat /\ z \in Nat /\ Cuenta(e) = x + y - z
      BY <3>3, <1>10, <1>20, <1>21
    <3>5. CASE v \in ToSet(e.SuspendedBlock)
      <4>0. Len(r.SuspendedBlock) = z - 1
        BY <3>1, <3>3, <3>5, <1>12
      <4>2. Cuenta(r) = (x + 1) + (y - 1) - (z - 1)
        BY <3>2, <3>3, <4>0
      <4>1. Cuenta(r) = Cuenta(e) + 1
        BY <3>4, <4>2
      <4>. QED  BY <3>5, <4>1, <1>12, <1>13 DEF Balancea
    <3>6. CASE v \notin ToSet(e.SuspendedBlock)
      <4>0. Len(r.SuspendedBlock) = z
        BY <3>1, <3>3, <3>6, <1>12
      <4>2. Cuenta(r) = (x + 1) + (y - 1) - (z)
        BY <3>2, <3>3, <4>0
      <4>1. Cuenta(r) = Cuenta(e)
        BY <3>4, <4>2
      <4>. QED  BY <3>6, <4>1, <1>12, <1>13 DEF Balancea
    <3>. QED  BY <3>5, <3>6
  <2>. QED  BY <2>8, <2>9, <1>15
<1>. QED  BY <1>17, <1>18

\* A process that waits asks for one semaphore, and leaves its list.
LEMMA PideUno ==
  ASSUME NEW e, NEW v, NEW s, e.solicitados[v] = <<s>>, NEW r, r = DejaDePedir(e, v)
  PROVE  r = [SueltaSolicitado(v, e, s) EXCEPT !.solicitados[v] = <<>>]
<1>. DEFINE Es(g) == g = [k \in 0..1 |-> IF k = 0 THEN e
                                         ELSE SueltaSolicitado(v, g[k - 1], <<s>>[k])]
<1>1. PICK d : d = SueltaSolicitado(v, e, s)
  OBVIOUS
<1>2. \E g : Es(g)
  <2>1. PICK h : h = [k \in 0..1 |-> IF k = 0 THEN e ELSE d]
    OBVIOUS
  <2>2. /\ 0 \in 0..1 /\ 1 \in 0..1 /\ \A k \in 0..1 : k = 0 \/ k = 1
        /\ <<s>>[1] = s /\ 1 - 1 = 0 /\ 1 # 0
    OBVIOUS
  <2>3. h[0] = e /\ h[1] = d
    BY <2>1, <2>2
  <2>. DEFINE F(k) == IF k = 0 THEN e ELSE SueltaSolicitado(v, h[k - 1], <<s>>[k])
  <2>4. F(0) = e
    OBVIOUS
  <2>5. F(1) = d
    BY <2>2, <2>3, <1>1
  <2>. HIDE DEF F
  <2>6. \A k \in 0..1 : h[k] = F(k)
    BY <2>2, <2>3, <2>4, <2>5
  <2>7. h = [k \in 0..1 |-> F(k)]
    BY <2>1, <2>6
  <2>8. Es(h)
    BY <2>7 DEF F
  <2>. HIDE DEF Es
  <2>. QED  BY <2>8
<1>3. PICK g : g = CHOOSE h : Es(h)
  OBVIOUS
<1>4. Es(g)
  <2>. HIDE DEF Es
  <2>. QED  BY <1>2, <1>3
<1>5. g[0] = e /\ g[1] = SueltaSolicitado(v, g[0], <<s>>[1])
  BY <1>4
<1>6. Len(<<s>>) = 1 /\ <<s>>[1] = s
  OBVIOUS
<1>7. r = [g[1] EXCEPT !.solicitados[v] = <<>>]
  BY <1>3, <1>6 DEF DejaDePedir
<1>. QED  BY <1>5, <1>6, <1>7

\* The victim leaves the list it waits in, and nobody else moves.
LEMMA DejaDePedirBien ==
  ASSUME NEW f, NEW l, NEW M, NEW e, Buena(f, l, e, M), NEW v \in Procesos,
         e.solicitados[v] # <<>>, NEW r, r = DejaDePedir(e, v)
  PROVE  /\ Buena(f, l, r, M \cup {v}) /\ v \notin M
         /\ r.expulsados = e.expulsados /\ r.SuspendedBlock = e.SuspendedBlock
         /\ Cuenta(r) = Cuenta(e) - 1
<1>t. /\ e \in Fotos /\ f \in Fotos /\ e.valor \in [Sems -> Int]
      /\ e.espera \in [Sems -> Seq(Procesos)] /\ e.solicitados \in [Procesos -> Seq(Sems)]
  BY DEF Buena, Fotos
<1>1. PICK m \in [Procesos -> Sitios], a \in Esperas : Sana(e, m, a) /\ Vienen(l, m, M)
  BY DEF Buena
<1>2. PICK s \in Sems : s = a[v] /\ e.solicitados[v] = <<s>>
  BY <1>1 DEF Sana, Piden, Esperas
<1>3. m[v] = "semaforo" /\ v \notin M
  BY <1>1, <1>2, SemaforosOK DEF Sana, Duermen, Vienen
<1>4. r = [SueltaSolicitado(v, e, s) EXCEPT !.solicitados[v] = <<>>]
  BY <1>2, PideUno
<1>5. Lista(a, e.espera[s], s) /\ e.espera[s] \in Seq(Procesos)
  BY <1>1, <1>t DEF Sana, EnSusListas
<1>6. PICK x, w, z : /\ x = [e.valor EXCEPT ![s] = @ + 1]
                     /\ w = [e.espera EXCEPT ![s] = RemoveFirst(@, v)]
                     /\ z = [e.solicitados EXCEPT ![v] = <<>>]
  OBVIOUS
<1>7. r = [valor |-> x, espera |-> w, retenidos |-> e.retenidos, solicitados |-> z,
           Blocked |-> e.Blocked, SuspendedBlock |-> e.SuspendedBlock,
           SuspendedReady |-> e.SuspendedReady, Ready |-> e.Ready,
           posix |-> e.posix, expulsados |-> e.expulsados]
  BY <1>4, <1>6, <1>t DEF SueltaSolicitado, Fotos
<1>8. /\ x \in [Sems -> Int] /\ x[s] = e.valor[s] + 1
      /\ \A u \in Sems \ {s} : x[u] = e.valor[u]
  BY <1>6, <1>t
<1>9. /\ z \in [Procesos -> Seq(Sems)]
      /\ \A p \in Procesos : z[p] = IF p = v THEN <<>> ELSE e.solicitados[p]
  <2>1. <<>> \in Seq(Sems)
    OBVIOUS
  <2>. QED  BY <2>1, <1>6, <1>t
<1>10. w[s] = RemoveFirst(e.espera[s], v) /\ \A u \in Sems \ {s} : w[u] = e.espera[u]
  BY <1>6, <1>t
<1>11. /\ Muda(a, v, Nadie) \in Esperas /\ EnSusListas(Muda(a, v, Nadie), w)
       /\ w \in [Sems -> Seq(Procesos)] /\ Len(w[s]) = Len(e.espera[s]) - 1
       /\ e.espera[s] # <<>>
  <2>1. PICK y \in [Sems -> Seq(Procesos)] : y = e.espera
    BY <1>t
  <2>5. PICK h : h = w
    OBVIOUS
  <2>2. EnSusListas(a, y) /\ h[s] = RemoveFirst(y[s], v) /\ \A u \in Sems \ {s} : h[u] = y[u]
    BY <2>1, <2>5, <1>1, <1>10 DEF Sana
  <2>3. /\ Muda(a, v, Nadie) \in Esperas /\ EnSusListas(Muda(a, v, Nadie), h)
        /\ h[s] \in Seq(Procesos) /\ Len(h[s]) = Len(y[s]) - 1 /\ y[s] # <<>>
    BY <2>2, <1>2, SaleElQueEspera
  <2>4. w \in [Sems -> Seq(Procesos)]
    BY <2>1, <2>3, <2>5, <1>6, <1>t
  <2>. QED  BY <2>1, <2>3, <2>4, <2>5
<1>12. r \in Fotos
  <2>1. /\ e.posix \in [NombresPosix -> Nat] /\ e.SuspendedBlock \in Seq(Procesos)
        /\ e.Blocked \in Seq(Procesos) /\ e.SuspendedReady \in Seq(Procesos)
        /\ e.Ready \in Seq(Procesos) /\ e.retenidos \in [Procesos -> Seq(Sems)]
        /\ e.expulsados \in SUBSET Procesos
    BY <1>t DEF Fotos
  <2>2. x \in [Sems -> Int] /\ w \in [Sems -> Seq(Procesos)] /\ z \in [Procesos -> Seq(Sems)]
    BY <1>8, <1>9, <1>11
  <2>. QED  BY <2>1, <2>2, <1>7 DEF Fotos
<1>. DEFINE b == Muda(a, v, Nadie)
<1>13. b \in Esperas /\ EnSusListas(b, w)
  BY <1>11
<1>14. Len(e.espera[s]) \in Nat /\ Len(e.espera[s]) > 0 /\ e.espera[s] # <<>>
  BY <1>5, <1>11
<1>15. Cuadran(x, w)
  <2>1. Cuadran(e.valor, e.espera) /\ e.valor[s] \in Int
    BY <1>1, <1>t DEF Sana
  <2>2. Len(w[s]) = (IF x[s] < 0 THEN -x[s] ELSE 0)
    <3>1. PICK i, j : i = Len(e.espera[s]) /\ j = e.valor[s]
      OBVIOUS
    <3>2. /\ i \in Nat /\ i > 0 /\ j \in Int /\ i = (IF j < 0 THEN -j ELSE 0)
          /\ Len(w[s]) = i - 1 /\ x[s] = j + 1
      BY <3>1, <2>1, <1>8, <1>11, <1>14 DEF Cuadran
    <3>. QED  BY <3>2
  <2>. QED  BY <2>1, <2>2, <1>8, <1>10 DEF Cuadran
<1>16. Piden(b, z)
  <2>1. \A p \in Procesos : b[p] = IF p = v THEN Nadie ELSE a[p]
    BY DEF Muda, Esperas
  <2>. QED  BY <2>1, <1>1, <1>9 DEF Sana, Piden
<1>. DEFINE n == Muda(m, v, "fuera")
<1>17. n \in [Procesos -> Sitios] /\ Vienen(l, n, M \cup {v})
  BY <1>1, <1>3, VieneOtro
<1>18. Duermen(n, b)
  BY <1>1 DEF Sana, Duermen, Muda, Esperas
<1>19. Lista(n, e.Ready, "ready") /\ Lista(n, e.SuspendedReady, "susReady")
  BY <1>1, <1>3 DEF Sana, Lista, Muda
<1>20. Sana(r, n, b)
  BY <1>7, <1>13, <1>15, <1>16, <1>18, <1>19 DEF Sana
<1>21. Cuentas(f, r) /\ SinRepetir(f.SuspendedBlock, r.SuspendedBlock)
  BY <1>7 DEF Buena, Cuentas, OtrosPosix
<1>22. Buena(f, l, r, M \cup {v})
  BY <1>12, <1>13, <1>17, <1>20, <1>21, <1>t DEF Buena
<1>23. Cardinality(Entradas(w, Sems)) = Cardinality(Entradas(e.espera, Sems)) - 1
  <2>1. PICK y \in [Sems -> Seq(Procesos)] : y = e.espera
    BY <1>t
  <2>2. IsFiniteSet(Entradas(y, Sems)) /\ y[s] # <<>>
    BY <2>1, <1>1, <1>14, <1>t, CuentaEsEntera
  <2>3. Len(w[s]) = Len(y[s]) - 1 /\ \A u \in Sems \ {s} : w[u] = y[u]
    BY <2>1, <1>10, <1>11
  <2>4. Cardinality(Entradas(w, Sems)) = Cardinality(Entradas(y, Sems)) - 1
    BY <2>2, <2>3, <1>11, UnaEntradaMenos
  <2>. QED  BY <2>1, <2>4
<1>24. Cuenta(r) = Cuenta(e) - 1
  <2>1. PICK i, j, h : /\ i = Len(e.Ready) /\ j = Cardinality(Entradas(e.espera, Sems))
                       /\ h = Len(e.SuspendedBlock)
    OBVIOUS
  <2>2. i \in Nat /\ j \in Nat /\ h \in Nat /\ Cuenta(e) = i + j - h
    BY <2>1, <1>1, <1>t, CuentaEsEntera DEF Cuenta
  <2>3. Cuenta(r) = i + (j - 1) - h
    BY <2>1, <1>7, <1>23 DEF Cuenta
  <2>. QED  BY <2>2, <2>3
<1>. QED  BY <1>3, <1>7, <1>22, <1>24

\* What a victim retained is handed over, one semaphore after the other: from
\* e, no permit is lost, and at most one is invented, if the victim had an
\* entry in SuspendedBlock.
Repartida(f, l, M, v, e, r) ==
  /\ Buena(f, l, r, M) /\ r.expulsados = e.expulsados
  /\ Cuenta(r) >= Cuenta(e)
  /\ UnaVez(f.SuspendedBlock, v) =>
       \/ Cuenta(r) = Cuenta(e)
       \/ Cuenta(r) = Cuenta(e) + 1 /\ v \notin ToSet(r.SuspendedBlock)

\* One more.
LEMMA SueltaUno ==
  ASSUME NEW f, NEW l, NEW M, NEW v \in Procesos, NEW e, Buena(f, l, e, M),
         NEW d, Repartida(f, l, M, v, e, d), NEW s \in Sems,
         NEW r, r = SueltaRetenido(v, d, s)
  PROVE  Repartida(f, l, M, v, e, r)
<1>0. Buena(f, l, d, M) /\ d.expulsados = e.expulsados
  BY DEF Repartida
<1>t. Cuenta(e) \in Int /\ Cuenta(d) \in Int
  BY <1>0, CuentaEsEntera DEF Buena
<1>1. CASE d.espera[s] = <<>>
  <2>1. /\ Buena(f, l, r, M) /\ r.expulsados = d.expulsados
        /\ r.SuspendedBlock = d.SuspendedBlock /\ Cuenta(r) = Cuenta(d)
    BY <1>0, <1>1, SueltaLibre
  <2>. QED  BY <2>1, <1>0 DEF Repartida
<1>2. CASE d.espera[s] # <<>>
  <2>1. Buena(f, l, r, M) /\ r.expulsados = d.expulsados /\ Balancea(v, d, r)
    BY <1>0, <1>2, SueltaAOtro
  <2>2. UnaVez(f.SuspendedBlock, v) => UnaVez(d.SuspendedBlock, v)
    BY <1>0 DEF Buena, SinRepetir
  <2>3. Cuenta(d) >= Cuenta(e) /\ Cuenta(r) >= Cuenta(e)
    <3>1. Cuenta(d) >= Cuenta(e) /\ (Cuenta(r) = Cuenta(d) \/ Cuenta(r) = Cuenta(d) + 1)
      BY <2>1 DEF Repartida, Balancea
    <3>. QED  BY <3>1, <1>t
  <2>4. UnaVez(f.SuspendedBlock, v) =>
          \/ Cuenta(r) = Cuenta(e)
          \/ Cuenta(r) = Cuenta(e) + 1 /\ v \notin ToSet(r.SuspendedBlock)
    BY <2>1, <2>2 DEF Repartida, Balancea
  <2>. QED  BY <2>1, <2>3, <2>4, <1>0 DEF Repartida
<1>. QED  BY <1>1, <1>2

\* Forgetting what a process retains changes nothing of it.
LEMMA SinRetenidos ==
  ASSUME NEW f, NEW l, NEW M, NEW v \in Procesos, NEW e,
         NEW d, Repartida(f, l, M, v, e, d)
  PROVE  Repartida(f, l, M, v, e, [d EXCEPT !.retenidos[v] = <<>>])
<1>t. /\ d \in Fotos /\ d.retenidos \in [Procesos -> Seq(Sems)]
  BY DEF Repartida, Buena, Fotos
<1>1. PICK x : x = [d.retenidos EXCEPT ![v] = <<>>]
  OBVIOUS
<1>2. x \in [Procesos -> Seq(Sems)]
  <2>1. <<>> \in Seq(Sems)
    OBVIOUS
  <2>. QED  BY <2>1, <1>1, <1>t
<1>3. PICK r :
        r = [valor |-> d.valor, espera |-> d.espera, retenidos |-> x,
             solicitados |-> d.solicitados, Blocked |-> d.Blocked,
             SuspendedBlock |-> d.SuspendedBlock, SuspendedReady |-> d.SuspendedReady,
             Ready |-> d.Ready, posix |-> d.posix, expulsados |-> d.expulsados]
  OBVIOUS
<1>4. r \in Fotos
  <2>1. /\ d.posix \in [NombresPosix -> Nat] /\ d.SuspendedBlock \in Seq(Procesos)
        /\ d.Blocked \in Seq(Procesos) /\ d.SuspendedReady \in Seq(Procesos)
        /\ d.Ready \in Seq(Procesos) /\ d.solicitados \in [Procesos -> Seq(Sems)]
        /\ d.expulsados \in SUBSET Procesos
        /\ d.valor \in [Sems -> Int] /\ d.espera \in [Sems -> Seq(Procesos)]
    BY <1>t DEF Fotos
  <2>. QED  BY <2>1, <1>2, <1>3 DEF Fotos
<1>5. \A m, a : Sana(d, m, a) => Sana(r, m, a)
  BY <1>3 DEF Sana
<1>6. Cuentas(f, r) /\ SinRepetir(f.SuspendedBlock, r.SuspendedBlock)
  BY <1>3 DEF Repartida, Buena, Cuentas, OtrosPosix
<1>7. Buena(f, l, r, M)
  BY <1>4, <1>5, <1>6 DEF Repartida, Buena
<1>8. Cuenta(r) = Cuenta(d)
  BY <1>3 DEF Cuenta
<1>9. r.expulsados = d.expulsados /\ r.SuspendedBlock = d.SuspendedBlock
  BY <1>3
<1>10. r = [d EXCEPT !.retenidos[v] = <<>>]
  <2>1. PICK y : y = [d EXCEPT !.retenidos[v] = <<>>]
    OBVIOUS
  <2>2. y = [valor |-> d.valor, espera |-> d.espera, retenidos |-> x,
             solicitados |-> d.solicitados, Blocked |-> d.Blocked,
             SuspendedBlock |-> d.SuspendedBlock, SuspendedReady |-> d.SuspendedReady,
             Ready |-> d.Ready, posix |-> d.posix, expulsados |-> d.expulsados]
    BY <2>1, <1>1, <1>t DEF Fotos
  <2>. QED  BY <2>1, <2>2, <1>3
<1>11. Repartida(f, l, M, v, e, r)
  BY <1>7, <1>8, <1>9 DEF Repartida
<1>. QED  BY <1>10, <1>11

\* All that a victim retained is handed over.
LEMMA DejaDeRetenerBien ==
  ASSUME NEW f, NEW l, NEW M, NEW v \in Procesos, NEW e, Buena(f, l, e, M),
         NEW r, r = DejaDeRetener(e, v)
  PROVE  Repartida(f, l, M, v, e, r)
<1>t. e \in Fotos /\ e.retenidos \in [Procesos -> Seq(Sems)]
  BY DEF Buena, Fotos
<1>. DEFINE t == e.retenidos[v]
            n == Len(t)
            S == {d \in Fotos : Repartida(f, l, M, v, e, d)}
            G == [x \in (1..n) \X S |-> SueltaRetenido(v, x[2], t[x[1]])]
            Es(g) == g = [k \in 0..n |-> IF k = 0 THEN e
                                         ELSE SueltaRetenido(v, g[k - 1], t[k])]
<1>1. PICK g : g = CHOOSE h : Es(h)
  OBVIOUS
<1>2. r = [g[n] EXCEPT !.retenidos[v] = <<>>]
  BY <1>1 DEF DejaDeRetener
<1>3. t \in Seq(Sems) /\ n \in Nat /\ \A k \in 1..n : t[k] \in Sems
  <2>1. t \in Seq(Sems)
    BY <1>t
  <2>. HIDE DEF t
  <2>. QED  BY <2>1
<1>. HIDE DEF t, n
<1>4. e \in S
  <2>1. Cuenta(e) \in Int
    BY CuentaEsEntera DEF Buena
  <2>. QED  BY <1>t, <2>1 DEF Repartida
<1>5. ASSUME NEW k \in 1..n, NEW d \in S PROVE SueltaRetenido(v, d, t[k]) \in S
  <2>1. Repartida(f, l, M, v, e, SueltaRetenido(v, d, t[k]))
    BY <1>3, SueltaUno
  <2>. QED  BY <2>1 DEF Repartida, Buena
<1>6. G \in [(1..n) \X S -> S]
  <2>. HIDE DEF S
  <2>. QED  BY <1>5
<1>7. \A k \in 1..n, d \in S : G[k, d] = SueltaRetenido(v, d, t[k])
  <2>. HIDE DEF S
  <2>. QED  OBVIOUS
<1>. HIDE DEF G
<1>8. \E h : Es(h)
  <2>1. PICK h \in [0..n -> S] : Pasos(n, e, G, h)
    <3>. HIDE DEF S
    <3>. QED  BY <1>3, <1>4, <1>6, PorPasos
  <2>2. ASSUME NEW k \in 0..n
        PROVE  h[k] = IF k = 0 THEN e ELSE SueltaRetenido(v, h[k - 1], t[k])
    <3>. HIDE DEF S
    <3>1. k # 0 => k \in 1..n /\ h[k - 1] \in S
      BY <1>3
    <3>2. h[k] = IF k = 0 THEN e ELSE G[k, h[k - 1]]
      BY <2>1 DEF Pasos
    <3>. QED  BY <3>1, <3>2, <1>7
  <2>3. h = [k \in 0..n |-> IF k = 0 THEN e ELSE SueltaRetenido(v, h[k - 1], t[k])]
    <3>1. h = [k \in 0..n |-> h[k]]
      OBVIOUS
    <3>. QED  BY <2>2, <3>1
  <2>4. Es(h)
    BY <2>3
  <2>. HIDE DEF Es
  <2>. QED  BY <2>4
<1>10. Es(g)
  <2>. HIDE DEF Es
  <2>. QED  BY <1>1, <1>8
<1>. DEFINE T == {k \in 0..n : g[k] \in S}
<1>11. \A k \in 0..n : k \in T
  <2>1. 0 \in T
    <3>1. g[0] = e
      BY <1>3, <1>10
    <3>. HIDE DEF S
    <3>. QED  BY <3>1, <1>3, <1>4
  <2>2. ASSUME NEW k \in 1..n, k - 1 \in T PROVE k \in T
    <3>1. g[k] = SueltaRetenido(v, g[k - 1], t[k])
      BY <1>3, <1>10
    <3>. HIDE DEF S
    <3>. QED  BY <2>2, <3>1, <1>5
  <2>. HIDE DEF T
  <2>. QED  BY <2>1, <2>2, <1>3, PorInduccion
<1>12. g[n] \in S
  BY <1>3, <1>11
<1>14. Repartida(f, l, M, v, e, g[n])
  BY <1>12
<1>. QED  BY <1>2, <1>14, SinRetenidos

\* A run that has killed e.expulsados so far: each kill has lost a permit at
\* most, and none has invented one if no victim was twice in SuspendedBlock.
EnMarcha(f, l, e) ==
  /\ Buena(f, l, e, e.expulsados)
  /\ Cuenta(e) >= Cuenta(f) - Cardinality(e.expulsados)
  /\ (\A v \in e.expulsados : UnaVez(f.SuspendedBlock, v)) => Cuenta(e) <= Cuenta(f)

\* One more victim.
LEMMA ExpulsaBien ==
  ASSUME NEW f, NEW l, NEW e, EnMarcha(f, l, e), NEW v \in Procesos,
         e.solicitados[v] # <<>>, Cuenta(f) \in Int
  PROVE  EnMarcha(f, l, Expulsa(e, v))
<1>1. PICK M : M = e.expulsados
  OBVIOUS
<1>2. /\ Buena(f, l, e, M) /\ M \subseteq Procesos /\ IsFiniteSet(M) /\ Cuenta(e) \in Int
      /\ Cardinality(M) \in Nat
  <2>1. Buena(f, l, e, M) /\ M \subseteq Procesos
    BY <1>1 DEF EnMarcha, Buena, Fotos
  <2>2. Cuenta(e) \in Int
    BY <2>1, CuentaEsEntera DEF Buena
  <2>. QED  BY <2>1, <2>2, ConstantesOK, FS_Subset, FS_CardinalityType
<1>3. PICK d : d = DejaDePedir(e, v)
  OBVIOUS
<1>4. /\ Buena(f, l, d, M \cup {v}) /\ v \notin M /\ d.expulsados = M
      /\ Cuenta(d) = Cuenta(e) - 1
  <2>1. /\ Buena(f, l, d, M \cup {v}) /\ v \notin M /\ d.expulsados = e.expulsados
        /\ Cuenta(d) = Cuenta(e) - 1
    <3>1. Buena(f, l, e, M) /\ v \in Procesos /\ e.solicitados[v] # <<>>
      BY <1>2
    <3>. QED  BY <3>1, <1>3, DejaDePedirBien
  <2>. QED  BY <2>1, <1>1
<1>5. PICK x : x = DejaDeRetener(d, v)
  OBVIOUS
<1>6. Repartida(f, l, M \cup {v}, v, d, x)
  BY <1>4, <1>5, DejaDeRetenerBien
<1>7. /\ x \in Fotos /\ Cuenta(x) \in Int /\ Cuenta(x) >= Cuenta(e) - 1
      /\ UnaVez(f.SuspendedBlock, v) => Cuenta(x) <= Cuenta(e)
  <2>1. x \in Fotos /\ Cuenta(x) \in Int
    BY <1>6, CuentaEsEntera DEF Repartida, Buena
  <2>2. /\ Cuenta(x) >= Cuenta(d)
        /\ UnaVez(f.SuspendedBlock, v) => Cuenta(x) = Cuenta(d) \/ Cuenta(x) = Cuenta(d) + 1
    BY <1>6 DEF Repartida
  <2>. QED  BY <2>1, <2>2, <1>2, <1>4
<1>8. PICK r : r = [x EXCEPT !.expulsados = @ \cup {v}]
  OBVIOUS
<1>9. r = [valor |-> x.valor, espera |-> x.espera, retenidos |-> x.retenidos,
           solicitados |-> x.solicitados, Blocked |-> x.Blocked,
           SuspendedBlock |-> x.SuspendedBlock, SuspendedReady |-> x.SuspendedReady,
           Ready |-> x.Ready, posix |-> x.posix, expulsados |-> M \cup {v}]
  <2>1. x.expulsados = M
    BY <1>4, <1>6 DEF Repartida
  <2>. QED  BY <2>1, <1>7, <1>8 DEF Fotos
<1>10. r \in Fotos
  <2>1. /\ x.posix \in [NombresPosix -> Nat] /\ x.SuspendedBlock \in Seq(Procesos)
        /\ x.Blocked \in Seq(Procesos) /\ x.SuspendedReady \in Seq(Procesos)
        /\ x.Ready \in Seq(Procesos) /\ x.solicitados \in [Procesos -> Seq(Sems)]
        /\ x.retenidos \in [Procesos -> Seq(Sems)]
        /\ x.valor \in [Sems -> Int] /\ x.espera \in [Sems -> Seq(Procesos)]
    BY <1>7 DEF Fotos
  <2>2. M \cup {v} \in SUBSET Procesos
    BY <1>2
  <2>. QED  BY <2>1, <2>2, <1>9 DEF Fotos
<1>11. Buena(f, l, r, M \cup {v})
  <2>1. \A m, a : Sana(x, m, a) => Sana(r, m, a)
    BY <1>9 DEF Sana
  <2>2. Cuentas(f, r) /\ SinRepetir(f.SuspendedBlock, r.SuspendedBlock)
    BY <1>6, <1>9 DEF Repartida, Buena, Cuentas, OtrosPosix
  <2>. QED  BY <2>1, <2>2, <1>6, <1>10 DEF Repartida, Buena
<1>12. Cuenta(r) = Cuenta(x) /\ r.expulsados = M \cup {v}
  BY <1>9 DEF Cuenta
<1>13. Cardinality(M \cup {v}) = Cardinality(M) + 1
  BY <1>2, <1>4, FS_AddElement
<1>14. Cuenta(r) >= Cuenta(f) - Cardinality(M \cup {v})
  <2>1. Cuenta(e) >= Cuenta(f) - Cardinality(M)
    BY <1>1 DEF EnMarcha
  <2>. QED  BY <2>1, <1>2, <1>7, <1>12, <1>13
<1>15. (\A w \in M \cup {v} : UnaVez(f.SuspendedBlock, w)) => Cuenta(r) <= Cuenta(f)
  <2>1. (\A w \in M : UnaVez(f.SuspendedBlock, w)) => Cuenta(e) <= Cuenta(f)
    BY <1>1 DEF EnMarcha
  <2>. QED  BY <2>1, <1>2, <1>7, <1>12
<1>16. EnMarcha(f, l, r)
  BY <1>11, <1>12, <1>14, <1>15 DEF EnMarcha
<1>. QED  BY <1>3, <1>5, <1>8, <1>16 DEF Expulsa

\* A finite set of natural numbers that is not empty has a greatest element.
LEMMA HayMaximo ==
  ASSUME NEW P, P \subseteq Nat, P # {}, IsFiniteSet(P)
  PROVE  \E p \in P : \A q \in P : q <= p
<1>1. PICK n \in Nat : \E g : g \in Bijection(1..n, P)
  BY FS_NatBijection DEF ExistsBijection
<1>2. PICK g \in [1..n -> P] : \A p \in P : \E i \in 1..n : g[i] = p
  BY <1>1 DEF Bijection, Injection, Surjection, IsInjective
<1>. DEFINE T == {k \in 0..n : \E b \in Nat : \A i \in 1..k : g[i] <= b}
<1>3. 0 \in T
  <2>1. \A i \in 1..0 : g[i] <= 0
    OBVIOUS
  <2>2. \E b \in Nat : \A i \in 1..0 : g[i] <= b
    BY <2>1
  <2>. QED  BY <2>2
<1>4. ASSUME NEW k \in 1..n, k - 1 \in T PROVE k \in T
  <2>1. PICK b \in Nat : \A i \in 1..(k - 1) : g[i] <= b
    BY <1>4
  <2>2. g[k] \in Nat
    OBVIOUS
  <2>3. PICK c \in Nat : c = IF g[k] <= b THEN b ELSE g[k]
    BY <2>2
  <2>4. ASSUME NEW i \in 1..k PROVE g[i] <= c
    <3>1. i \in 1..n /\ (i = k \/ i \in 1..(k - 1))
      OBVIOUS
    <3>2. g[i] \in Nat
      BY <3>1
    <3>. QED  BY <2>1, <2>2, <2>3, <3>1, <3>2
  <2>5. \E d \in Nat : \A i \in 1..k : g[i] <= d
    BY <2>4
  <2>. QED  BY <2>5
<1>5. n \in T
  <2>1. n \in 0..n
    OBVIOUS
  <2>. HIDE DEF T
  <2>. QED  BY <1>3, <1>4, <2>1, PorInduccion
<1>. DEFINE C == {b \in Nat : \A q \in P : q <= b}
<1>6. C # {}
  <2>1. PICK b \in Nat : \A i \in 1..n : g[i] <= b
    BY <1>5
  <2>2. \A q \in P : q <= b
    BY <2>1, <1>2
  <2>. QED  BY <2>2
<1>7. PICK m \in C : \A j \in C : m <= j
  <2>1. C \subseteq Nat
    OBVIOUS
  <2>. HIDE DEF C
  <2>. QED  BY <1>6, <2>1, HayMinimo
<1>8. m \in P
  <2>. SUFFICES ASSUME m \notin P PROVE FALSE
    OBVIOUS
  <2>1. \A q \in P : q \in Nat /\ q <= m /\ q # m
    OBVIOUS
  <2>2. m \in Nat /\ m # 0
    <3>1. PICK q \in P : q \in Nat /\ q <= m /\ q # m
      BY <2>1
    <3>2. m \in Nat
      OBVIOUS
    <3>. QED  BY <3>1, <3>2
  <2>3. m - 1 \in Nat /\ \A q \in P : q <= m - 1
    BY <2>1, <2>2
  <2>4. m - 1 \in C
    BY <2>3
  <2>5. ~(m <= m - 1)
    BY <2>2
  <2>. HIDE DEF C
  <2>. QED  BY <1>7, <2>4, <2>5
<1>. QED  BY <1>8

\* The victim waits for something.
LEMMA LaVictimaPide ==
  ASSUME NEW e \in Fotos, HayDeadlock(e)
  PROVE  MayorPid(e) \in Procesos /\ e.solicitados[MayorPid(e)] # <<>>
<1>. DEFINE ps == {Bloqueados(e)[i] : i \in EnDeadlock(e)}
<1>1. Bloqueados(e) \in Seq(Procesos)
  <2>1. e.Blocked \in Seq(Procesos) /\ e.SuspendedBlock \in Seq(Procesos)
    BY DEF Fotos
  <2>. QED  BY <2>1, ConcatProperties DEF Bloqueados
<1>2. \A i \in EnDeadlock(e) :
        /\ i \in 1..Len(Bloqueados(e)) /\ e.solicitados[Bloqueados(e)[i]] # <<>>
  BY DEF EnDeadlock, AAnalizar
<1>3. \A p \in ps : p \in Procesos /\ e.solicitados[p] # <<>>
  BY <1>1, <1>2
<1>4. EnDeadlock(e) # {}
  BY FS_EmptySet DEF HayDeadlock
<1>5. ps # {}
  BY <1>4
<1>6. ps \subseteq Nat /\ IsFiniteSet(ps)
  BY <1>3, ConstantesOK, SemaforosOK, FS_Subset
<1>7. MayorPid(e) \in ps
  <2>1. MayorPid(e) = CHOOSE p \in ps : \A q \in ps : q <= p
    BY DEF MayorPid
  <2>. HIDE DEF ps
  <2>. QED  BY <2>1, <1>5, <1>6, HayMaximo
<1>. QED  BY <1>3, <1>7

\* While there is a deadlock, the youngest in it is killed.
Rompe(d) == IF HayDeadlock(d) THEN Expulsa(d, MayorPid(d)) ELSE d

\* Whatever the run kills, it goes well.
LEMMA DeteccionBien ==
  ASSUME NEW l, EnMarcha(Foto, l, Foto)
  PROVE  EnMarcha(Foto, l, TrasDeteccion)
<1>1. PICK f : f = Foto
  OBVIOUS
<1>2. EnMarcha(f, l, f) /\ f \in Fotos /\ Cuenta(f) \in Int
  BY <1>1, CuentaEsEntera DEF EnMarcha, Buena
<1>3. PICK n \in Nat : n = Cardinality(Procesos)
  BY ConstantesOK, FS_CardinalityType
<1>. DEFINE S == {d \in Fotos : EnMarcha(f, l, d)}
            G == [x \in (1..n) \X S |-> Rompe(x[2])]
            Es(g) == g = [k \in 0..n |-> IF k = 0 THEN f ELSE Rompe(g[k - 1])]
<1>4. f \in S
  BY <1>2
<1>5. ASSUME NEW d \in S PROVE Rompe(d) \in S
  <2>1. CASE HayDeadlock(d)
    <3>1. MayorPid(d) \in Procesos /\ d.solicitados[MayorPid(d)] # <<>>
      BY <2>1, LaVictimaPide
    <3>2. EnMarcha(f, l, Expulsa(d, MayorPid(d)))
      BY <1>2, <3>1, ExpulsaBien
    <3>. QED  BY <2>1, <3>2 DEF Rompe, EnMarcha, Buena
  <2>2. CASE ~HayDeadlock(d)
    BY <2>2 DEF Rompe
  <2>. QED  BY <2>1, <2>2
<1>6. G \in [(1..n) \X S -> S] /\ \A k \in 1..n, d \in S : G[k, d] = Rompe(d)
  <2>. HIDE DEF S
  <2>. QED  BY <1>5
<1>. HIDE DEF G
<1>7. \E g : Es(g)
  <2>1. PICK h \in [0..n -> S] : Pasos(n, f, G, h)
    <3>. HIDE DEF S
    <3>. QED  BY <1>4, <1>6, PorPasos
  <2>2. ASSUME NEW k \in 0..n PROVE h[k] = IF k = 0 THEN f ELSE Rompe(h[k - 1])
    <3>. HIDE DEF S
    <3>1. k # 0 => k \in 1..n /\ h[k - 1] \in S
      OBVIOUS
    <3>2. h[k] = IF k = 0 THEN f ELSE G[k, h[k - 1]]
      BY <2>1 DEF Pasos
    <3>. QED  BY <3>1, <3>2, <1>6
  <2>3. h = [k \in 0..n |-> IF k = 0 THEN f ELSE Rompe(h[k - 1])]
    <3>1. h = [k \in 0..n |-> h[k]]
      OBVIOUS
    <3>. QED  BY <2>2, <3>1
  <2>4. Es(h)
    BY <2>3
  <2>. HIDE DEF Es
  <2>. QED  BY <2>4
<1>8. PICK g : g = CHOOSE h : Es(h)
  OBVIOUS
<1>9. Es(g)
  <2>. HIDE DEF Es
  <2>. QED  BY <1>7, <1>8
<1>. DEFINE T == {k \in 0..n : g[k] \in S}
<1>10. \A k \in 0..n : k \in T
  <2>1. 0 \in T
    <3>1. g[0] = f
      BY <1>9
    <3>. HIDE DEF S
    <3>. QED  BY <3>1, <1>4
  <2>2. ASSUME NEW k \in 1..n, k - 1 \in T PROVE k \in T
    <3>1. g[k] = Rompe(g[k - 1])
      BY <1>9
    <3>. HIDE DEF S
    <3>. QED  BY <2>2, <3>1, <1>5
  <2>. HIDE DEF T
  <2>. QED  BY <2>1, <2>2, PorInduccion
<1>11. g[n] \in S
  BY <1>10
<1>12. TrasDeteccion = g[n]
  BY <1>1, <1>3, <1>8 DEF TrasDeteccion, Rompe
<1>. QED  BY <1>1, <1>11, <1>12

\* A run starts from the state.
LEMMA FotoBuena ==
  ASSUME Inv, TiposSem, Cuadran(valor, espera), NEW l \in [Procesos -> Sitios],
         NEW a \in Esperas, Ubicados(l), Duermen(l, a), EnSusListas(a, espera),
         Piden(a, solicitados)
  PROVE  EnMarcha(Foto, l, Foto)
<1>1. PICK f : f = Foto
  OBVIOUS
<1>2. f = [valor |-> valor, espera |-> espera, retenidos |-> retenidos,
           solicitados |-> solicitados, Blocked |-> procesosBlocked,
           SuspendedBlock |-> procesosSuspendedBlock,
           SuspendedReady |-> procesosSuspendedReady, Ready |-> procesosReady,
           posix |-> posix, expulsados |-> {}]
  BY <1>1 DEF Foto
<1>3. f \in Fotos
  <2>1. /\ valor \in [Sems -> Int] /\ espera \in [Sems -> Seq(Procesos)]
        /\ retenidos \in [Procesos -> Seq(Sems)]
        /\ solicitados \in [Procesos -> Seq(Sems)]
        /\ procesosBlocked \in Seq(Procesos) /\ procesosSuspendedBlock \in Seq(Procesos)
        /\ procesosSuspendedReady \in Seq(Procesos) /\ procesosReady \in Seq(Procesos)
        /\ posix \in [NombresPosix -> Nat]
    BY DEF Inv, Tipos, TypeOK, TiposSem
  <2>2. {} \in SUBSET Procesos
    OBVIOUS
  <2>. QED  BY <1>2, <2>1, <2>2 DEF Fotos
<1>4. Sana(f, l, a)
  <2>1. Lista(l, procesosReady, "ready") /\ Lista(l, procesosSuspendedReady, "susReady")
    BY DEF Ubicados, EnReady, EnSusReady
  <2>. QED  BY <1>2, <2>1 DEF Sana
<1>5. Vienen(l, l, {})
  BY DEF Vienen, Igual
<1>6. Cuentas(f, f) /\ SinRepetir(f.SuspendedBlock, f.SuspendedBlock)
  <2>1. Len(f.SuspendedReady) \in Nat
    BY <1>3, NumerosDeFoto
  <2>. QED  BY <2>1 DEF Cuentas, SinRepetir, OtrosPosix
<1>7. Buena(f, l, f, f.expulsados)
  BY <1>2, <1>3, <1>4, <1>5, <1>6 DEF Buena
<1>8. Cuenta(f) \in Int /\ f.expulsados = {} /\ Cardinality({}) = 0
  BY <1>2, <1>3, <1>4, CuentaEsEntera, FS_EmptySet
<1>9. /\ Cuenta(f) >= Cuenta(f) - Cardinality(f.expulsados) /\ Cuenta(f) <= Cuenta(f)
  BY <1>8
<1>. QED  BY <1>1, <1>7, <1>9 DEF EnMarcha

\* What a run does to the state, from the site l of each process on.
LEMMA PasoDeDeteccion ==
  ASSUME EjecutaDeadlock, NEW l, EnMarcha(Foto, l, Foto)
  PROVE  \E e \in Fotos :
           /\ EnMarcha(Foto, l, e) /\ Buena(Foto, l, e, e.expulsados)
           /\ valor' = e.valor /\ espera' = e.espera /\ retenidos' = e.retenidos
           /\ solicitados' = e.solicitados /\ procesosBlocked' = e.Blocked
           /\ procesosSuspendedBlock' = e.SuspendedBlock
           /\ procesosSuspendedReady' = e.SuspendedReady /\ procesosReady' = e.Ready
           /\ posix' = e.posix /\ expulsados' = expulsados \cup e.expulsados
           /\ liberados' = liberados \cup e.expulsados
           /\ buzon' = [p \in Procesos |->
                          IF p \in e.expulsados /\ pedido[p] # "caido"
                          THEN Append(buzon[p], "EXPULSION") ELSE buzon[p]]
           /\ UNCHANGED <<procesosNew, procesosExec, listaEspera, activador, hilos,
                          medio, vuelveDeBloqueo, pedido, ops, perdidos>>
<1>1. PICK e : e = TrasDeteccion
  OBVIOUS
<1>2. EnMarcha(Foto, l, e) /\ Buena(Foto, l, e, e.expulsados) /\ e \in Fotos
  BY <1>1, DeteccionBien DEF EnMarcha, Buena
<1>. QED  BY <1>1, <1>2 DEF EjecutaDeadlock

\* A run keeps everything of the schedulers and of the semaphores.
LEMMA InvDeDeteccion ==
  ASSUME InvSem, EjecutaDeadlock
  PROVE  InvSem'
<1>1. PICK l \in [Procesos -> Sitios], a \in Esperas :
        Ubicados(l) /\ Duermen(l, a) /\ EnSusListas(a, espera) /\ Piden(a, solicitados)
  BY DEF InvSem, UbicacionSem
<1>2. EnMarcha(Foto, l, Foto)
  BY <1>1, FotoBuena DEF InvSem
<1>3. PICK e \in Fotos :
        /\ Buena(Foto, l, e, e.expulsados)
        /\ valor' = e.valor /\ espera' = e.espera /\ retenidos' = e.retenidos
        /\ solicitados' = e.solicitados /\ procesosBlocked' = e.Blocked
        /\ procesosSuspendedBlock' = e.SuspendedBlock
        /\ procesosSuspendedReady' = e.SuspendedReady /\ procesosReady' = e.Ready
        /\ posix' = e.posix /\ expulsados' = expulsados \cup e.expulsados
        /\ liberados' = liberados \cup e.expulsados
        /\ buzon' = [p \in Procesos |->
                       IF p \in e.expulsados /\ pedido[p] # "caido"
                       THEN Append(buzon[p], "EXPULSION") ELSE buzon[p]]
        /\ UNCHANGED <<procesosNew, procesosExec, listaEspera, activador, hilos,
                       medio, vuelveDeBloqueo, pedido, ops, perdidos>>
  BY <1>2, PasoDeDeteccion
<1>4. PICK m \in [Procesos -> Sitios], b \in Esperas :
        Sana(e, m, b) /\ Vienen(l, m, e.expulsados)
  BY <1>3 DEF Buena
<1>5. /\ Inv /\ FasesComunes /\ TiposSem /\ TypeOK /\ HilosConsistentes
      /\ Permisos /\ FichasDeIO
  BY DEF InvSem, Inv, Tipos
<1>6. /\ e.valor \in [Sems -> Int] /\ e.espera \in [Sems -> Seq(Procesos)]
      /\ e.retenidos \in [Procesos -> Seq(Sems)]
      /\ e.solicitados \in [Procesos -> Seq(Sems)]
      /\ e.Blocked \in Seq(Procesos) /\ e.SuspendedBlock \in Seq(Procesos)
      /\ e.SuspendedReady \in Seq(Procesos) /\ e.Ready \in Seq(Procesos)
      /\ e.posix \in [NombresPosix -> Nat] /\ e.expulsados \subseteq Procesos
  BY DEF Fotos
<1>7. TiposSem' /\ Cuadran(valor, espera)'
  <2>1. expulsados' \subseteq liberados'
    BY <1>3, <1>5 DEF TiposSem
  <2>. QED  BY <1>3, <1>4, <1>6, <2>1 DEF TiposSem, Sana, Cuadran
<1>8. TypeOK'
  <2>1. buzon' \in [Procesos -> Seq(Codigos)]
    <3>1. buzon \in [Procesos -> Seq(Codigos)] /\ "EXPULSION" \in Codigos
      BY <1>5 DEF TypeOK, Codigos
    <3>2. \A p \in Procesos : buzon[p] \in Seq(Codigos) /\ Append(buzon[p], "EXPULSION") \in Seq(Codigos)
      BY <3>1
    <3>. QED  BY <1>3, <3>2
  <2>2. liberados' \subseteq Procesos
    BY <1>3, <1>5, <1>6 DEF TypeOK
  <2>. QED  BY <2>1, <2>2, <1>3, <1>5, <1>6 DEF TypeOK, hilos, medio
<1>9. /\ posix'["hayProcesosReady"] - Len(procesosReady')
           = posix["hayProcesosReady"] - Len(procesosReady)
      /\ posix'["procesoNecesitaEntrarEnReady"] - Len(procesosSuspendedReady')
           = posix["procesoNecesitaEntrarEnReady"] - Len(procesosSuspendedReady)
      /\ Len(procesosSuspendedReady') >= Len(procesosSuspendedReady)
      /\ \A n \in NombresPosix \ {"hayProcesosReady", "procesoNecesitaEntrarEnReady",
                                  "signalSuspensionProceso"} : posix'[n] = posix[n]
  <2>1. /\ Foto.posix = posix /\ Foto.Ready = procesosReady
        /\ Foto.SuspendedReady = procesosSuspendedReady
    BY DEF Foto
  <2>2. Cuentas(Foto, e)
    BY <1>3 DEF Buena
  <2>. QED  BY <1>3, <2>1, <2>2 DEF Cuentas, OtrosPosix
<1>10. HilosConsistentes'
  <2>1. procesosSuspendedReady # <<>> => procesosSuspendedReady' # <<>>
    <3>1. /\ procesosSuspendedReady \in Seq(Procesos) /\ procesosSuspendedReady' \in Seq(Procesos)
      BY <1>5, <1>8 DEF TypeOK
    <3>. QED  BY <3>1, <1>9
  <2>. QED  BY <2>1, <1>3, <1>5 DEF HilosConsistentes, hilos, medio
<1>11. Permisos'
  <2>0. /\ Len(procesosReady) \in Nat /\ Len(procesosReady') \in Nat
        /\ Len(procesosSuspendedReady) \in Nat /\ Len(procesosSuspendedReady') \in Nat
        /\ Len(procesosNew) \in Nat
    <3>1. /\ procesosReady \in Seq(Procesos) /\ procesosReady' \in Seq(Procesos)
          /\ procesosSuspendedReady \in Seq(Procesos)
          /\ procesosSuspendedReady' \in Seq(Procesos)
          /\ procesosNew \in Seq(Procesos)
      BY <1>5, <1>8 DEF TypeOK
    <3>. QED  BY <3>1
  <2>1. /\ "hayProcesosNew" \in NombresPosix
        /\ "nivelMultiProgramacionBajaPrioridad" \in NombresPosix
        /\ "procesosDisponiblesParaEjecutar" \in NombresPosix
        /\ "nivelMultiprocesamiento" \in NombresPosix
        /\ "hayProcesosReady" \in NombresPosix /\ "procesoNecesitaEntrarEnReady" \in NombresPosix
    BY DEF NombresPosix
  <2>2. /\ \A n \in NombresPosix : posix[n] \in Nat /\ posix'[n] \in Nat
    BY <1>5, <1>8 DEF TypeOK
  <2>3. /\ posix'["hayProcesosNew"] = posix["hayProcesosNew"]
        /\ posix'["nivelMultiProgramacionBajaPrioridad"] = posix["nivelMultiProgramacionBajaPrioridad"]
        /\ posix'["procesosDisponiblesParaEjecutar"] = posix["procesosDisponiblesParaEjecutar"]
        /\ posix'["nivelMultiprocesamiento"] = posix["nivelMultiprocesamiento"]
    BY <1>9, <2>1
  <2>4. FichasDeAdmision'
    <3>1. PICK u \in Nat : u = Uno(fasePMP2 = "saca")
      BY DEF Uno
    <3>2. Uno(fasePMP2 = "saca")' = u
      BY <1>3, <3>1 DEF medio
    <3>3. /\ posix["hayProcesosNew"] = Len(procesosNew)
          /\ posix["procesoNecesitaEntrarEnReady"]
               + posix["nivelMultiProgramacionBajaPrioridad"] + u
             = Len(procesosNew) + Len(procesosSuspendedReady)
      BY <1>5, <3>1 DEF Permisos, FichasDeAdmision
    <3>4. PICK x, y, x1, y1, z, n :
            /\ x = posix["procesoNecesitaEntrarEnReady"] /\ y = Len(procesosSuspendedReady)
            /\ x1 = posix'["procesoNecesitaEntrarEnReady"] /\ y1 = Len(procesosSuspendedReady')
            /\ z = posix["nivelMultiProgramacionBajaPrioridad"] /\ n = Len(procesosNew)
      OBVIOUS
    <3>5. /\ x \in Nat /\ y \in Nat /\ x1 \in Nat /\ y1 \in Nat /\ z \in Nat /\ n \in Nat
          /\ x1 - y1 = x - y /\ x + z + u = n + y
      BY <3>3, <3>4, <2>0, <2>1, <2>2, <1>9
    <3>6. x1 + z + u = n + y1
      BY <3>5
    <3>7. Len(procesosNew)' = n
      BY <3>4, <1>3
    <3>. QED  BY <3>2, <3>3, <3>4, <3>6, <3>7, <2>3 DEF FichasDeAdmision
  <2>5. FichasDeReady'
    <3>1. posix["hayProcesosReady"] + posix["procesosDisponiblesParaEjecutar"]
            = Len(procesosReady)
      BY <1>5 DEF Permisos, FichasDeReady
    <3>2. PICK x, y, x1, y1, z :
            /\ x = posix["hayProcesosReady"] /\ y = Len(procesosReady)
            /\ x1 = posix'["hayProcesosReady"] /\ y1 = Len(procesosReady')
            /\ z = posix["procesosDisponiblesParaEjecutar"]
      OBVIOUS
    <3>3. /\ x \in Nat /\ y \in Nat /\ x1 \in Nat /\ y1 \in Nat /\ z \in Nat
          /\ x1 - y1 = x - y /\ x + z = y
      BY <3>1, <3>2, <2>0, <2>1, <2>2, <1>9
    <3>4. x1 + z = y1
      BY <3>3
    <3>. QED  BY <3>2, <3>4, <2>3 DEF FichasDeReady
  <2>6. PermisosDeCPU'
    BY <2>3, <1>3, <1>5 DEF Permisos, PermisosDeCPU, Ocupadas, hilos
  <2>. QED  BY <2>4, <2>5, <2>6 DEF Permisos
<1>12. FichasDeIO' /\ FasesComunes'
  <2>1. \A p \in e.expulsados : p \in Procesos /\ l[p] = "semaforo"
    BY <1>4, <1>6 DEF Vienen
  <2>2. \A p \in liberados' : pedido[p] # "sinConectar"
    BY <2>1, <1>1, <1>3, <1>5 DEF Ubicados, EnFuera, FasesComunes
  <2>3. /\ UNCHANGED <<fase, liberado, fasePMP2, preparado, pedido, activador, listaEspera>>
    BY <1>3 DEF hilos, medio
  <2>4. FasesComunes'
    BY <2>2, <2>3, <1>5 DEF FasesComunes
  <2>5. \A d \in Dispositivos : EnCamino(d)' = EnCamino(d)
    BY <1>3 DEF EnCamino, hilos
  <2>6. FichasDeIO'
    BY <2>3, <2>5, <1>5 DEF FichasDeIO
  <2>. QED  BY <2>4, <2>6
<1>13. UbicacionSem'
  <2>1. /\ Duermen(m, b) /\ EnSusListas(b, espera)' /\ Piden(b, solicitados)'
        /\ EnReady(m)' /\ EnSusReady(m)'
    BY <1>3, <1>4 DEF Sana, EnSusListas, Piden, EnReady, EnSusReady
  <2>2. \A x \in Sitios \ {"fuera", "semaforo", "ready", "susReady"} : Igual(l, m, x)
    BY <1>4 DEF Vienen
  <2>3. /\ Conservan(DelCPU, ejecutando) /\ Conservan(Atendiendo, ejecutando)
        /\ Conservan(Liberando, liberado) /\ UNCHANGED <<procesosNew, nuevo, preparado, listaEspera>>
    BY <1>3 DEF hilos, medio, Conservan, DelCPU, Atendiendo, Liberando
  <2>4. /\ EnNew(m)' /\ EnNuevo(m)' /\ EnCPU(m)' /\ EnServida(m)' /\ EnIO(m)'
        /\ EnLibera(m)' /\ EnPreparado(m)'
    BY <2>2, <2>3, <1>1, Queda DEF Sitios
  <2>5. EnFuera(m)'
    <3>1. /\ \A p \in Procesos : m[p] = "fuera" <=> l[p] = "fuera" \/ p \in e.expulsados
          /\ \A p \in e.expulsados : l[p] = "semaforo"
      BY <1>4 DEF Vienen
    <3>2. EnFuera(l)
      BY <1>1 DEF Ubicados
    <3>. QED  BY <3>1, <3>2, <1>3, <1>6 DEF EnFuera
  <2>. QED  BY <2>1, <2>4, <2>5 DEF UbicacionSem, Ubicados
<1>. QED  BY <1>7, <1>8, <1>10, <1>11, <1>12, <1>13 DEF InvSem, Inv, Tipos

-----------------------------------------------------------------------------
(* The invariant holds.                                                    *)

\* A step that touches no semaphore is one of Planificador.
PasoComun ==
  \/ \E p \in Procesos : LlegaEnOrden(p)
  \/ \E p \in Procesos : (RecibeRespuesta(p) \/ CaeCliente(p)) /\ UNCHANGED semaforos
  \/ (LargoPlazoSaca \/ LargoPlazoAgrega \/ CortoPlazo) /\ UNCHANGED semaforos
  \/ \E c \in CPUs : PasoCPU(c) /\ UNCHANGED semaforos
  \/ \E d \in Dispositivos : TerminaIO(d) /\ UNCHANGED semaforos
  \/ \E t \in Hilos : PasoLiberar(t) /\ UNCHANGED semaforos
  \/ (Suspende \/ NoSuspende \/ PasoPMP2) /\ UNCHANGED semaforos
  \/ Reposo /\ UNCHANGED semaforos
  \/ UNCHANGED varsSem

Llamada(c) ==
  \/ \E s \in Sems : \/ WaitBloqueante(c, s) \/ WaitInmediato(c, s)
                     \/ SignalQueLibera(c, s) \/ SignalSinEspera(c, s)
  \/ BloqueaEnSemaforo(c) \/ AvisaPost(c)

\* The steps that are not calls are steps of the schedulers.
LEMMA PasoComunEsNext == PasoComun => [Next]_vars /\ UNCHANGED semaforos
<1>1. ASSUME NEW p \in Procesos, LlegaEnOrden(p) PROVE Next /\ UNCHANGED semaforos
  BY <1>1 DEF LlegaEnOrden, Next
<1>2. UNCHANGED varsSem => UNCHANGED vars /\ UNCHANGED semaforos
  BY DEF varsSem
<1>. QED  BY <1>1, <1>2 DEF PasoComun, Next

\* The steps there are.
LEMMA PasosDeNextSem ==
  [NextSem]_varsSem => PasoComun \/ EjecutaDeadlock \/ \E c \in CPUs : Llamada(c)
  BY DEF NextSem, PasoComun, PasoCPUSem, Llamada

\* Nobody waits at first, and no carpincho has connected.
LEMMA InvSemInit == InitSem => InvSem
<1>. SUFFICES ASSUME InitSem PROVE InvSem
  OBVIOUS
<1>1. Inv /\ FasesComunes /\ Ubicacion
  BY InvInit, UbicacionInit DEF InitSem, FasesPropias
<1>2. /\ valor = ValorInicial /\ espera = [s \in Sems |-> <<>>]
      /\ retenidos = [p \in Procesos |-> <<>>] /\ solicitados = [p \in Procesos |-> <<>>]
      /\ expulsados = {}
  BY DEF InitSem
<1>3. TiposSem
  <2>1. valor \in [Sems -> Int]
    BY <1>2, SemaforosOK
  <2>2. <<>> \in Seq(Procesos) /\ <<>> \in Seq(Sems)
    OBVIOUS
  <2>. QED  BY <1>2, <2>1, <2>2 DEF TiposSem
<1>4. Cuadran(valor, espera)
  <2>1. \A s \in Sems : Len(espera[s]) = 0 /\ valor[s] \in Nat
    BY <1>2, SemaforosOK
  <2>. QED  BY <2>1 DEF Cuadran
<1>5. PICK l \in [Procesos -> Sitios] : Ubicados(l) /\ \A p \in Procesos : l[p] # "semaforo"
  BY <1>1 DEF Ubicacion
<1>6. PICK a : a = [p \in Procesos |-> Nadie]
  OBVIOUS
<1>7. a \in Esperas /\ Duermen(l, a) /\ Piden(a, solicitados)
  BY <1>2, <1>5, <1>6 DEF Esperas, Duermen, Piden
<1>8. EnSusListas(a, espera)
  <2>1. \A s \in Sems : espera[s] = <<>> /\ s # Nadie
    BY <1>2, SemaforosOK
  <2>2. \A s \in Sems : Len(espera[s]) = 0
    BY <2>1
  <2>. QED  BY <2>1, <2>2, <1>6 DEF EnSusListas, Lista
<1>. QED  BY <1>1, <1>3, <1>4, <1>5, <1>7, <1>8 DEF InvSem, UbicacionSem

\* A call keeps everything.
LEMMA InvDeLaLlamada ==
  ASSUME InvSem, NEW c \in CPUs, Llamada(c)
  PROVE  InvSem'
<1>1. Inv' /\ FasesComunes'
  BY LlamadaConserva DEF InvSem, Llamada
<1>2. UbicacionSem'
  BY UbicacionDeLlamada DEF Llamada
<1>3. TiposSem' /\ Cuadran(valor, espera)'
  <2>1. CASE BloqueaEnSemaforo(c) \/ AvisaPost(c)
    <3>1. UNCHANGED <<valor, espera, retenidos, solicitados, expulsados, liberados>>
      BY <2>1 DEF BloqueaEnSemaforo, AvisaPost, semaforos
    <3>. QED  BY <3>1 DEF InvSem, TiposSem, Cuadran
  <2>2. CASE \E s \in Sems : \/ WaitBloqueante(c, s) \/ WaitInmediato(c, s)
                             \/ SignalQueLibera(c, s) \/ SignalSinEspera(c, s)
    BY <2>2, CuentaDeLlamada
  <2>. QED  BY <2>1, <2>2 DEF Llamada
<1>. QED  BY <1>1, <1>2, <1>3 DEF InvSem

\* The schedulers, the calls and the detector keep the invariant.
LEMMA InvSemSiempre == SpecSem => []InvSem
<1>1. InvSem /\ [NextSem]_varsSem => InvSem'
  <2>1. ASSUME InvSem, PasoComun PROVE InvSem'
    BY <2>1, PasoComunEsNext, PasoSinSemaforos
  <2>. QED  BY <2>1, PasosDeNextSem, InvDeDeteccion, InvDeLaLlamada
<1>. QED  BY <1>1, InvSemInit, PTL DEF SpecSem

-----------------------------------------------------------------------------
(* Theorems.                                                               *)

\* The types of every variable, whatever the carpinchos call and the detector
\* kills.
THEOREM TiposDeSemaforos == SpecSem => []TypeOKSem
<1>1. InvSem => TypeOKSem
  BY DEF InvSem, Inv, Tipos, TiposSem, TypeOKSem
<1>. QED  BY <1>1, InvSemSiempre, PTL

\* The value of a semaphore is the number of its waiters, and each one asks for
\* it: neither the calls nor the kills leave one without the other.
THEOREM ElSemaforoCuadra == SpecSem => []SemaforoCuadra
<1>1. InvSem => SemaforoCuadra
  <2>. SUFFICES ASSUME InvSem PROVE SemaforoCuadra
    OBVIOUS
  <2>1. PICK a \in Esperas : EnSusListas(a, espera) /\ Piden(a, solicitados)
    BY DEF InvSem, UbicacionSem
  <2>2. ASSUME NEW p \in Procesos, NEW s \in Sems
        PROVE  Veces(espera[s], p) = Uno(solicitados[p] = <<s>>)
    <3>1. Lista(a, espera[s], s)
      BY <2>1 DEF EnSusListas
    <3>2. Veces(espera[s], p) = Uno(a[p] = s)
      BY <3>1, UnaVezEnLista
    <3>3. a[p] = s <=> solicitados[p] = <<s>>
      <4>1. solicitados[p] = (IF a[p] = Nadie THEN <<>> ELSE <<a[p]>>)
        BY <2>1 DEF Piden
      <4>2. s # Nadie /\ <<s>> # <<>> /\ \A x : <<x>> = <<s>> => x = s
        BY SemaforosOK
      <4>. QED  BY <4>1, <4>2, Zenon
    <3>. QED  BY <3>2, <3>3 DEF Uno
  <2>. QED  BY <2>2 DEF InvSem, Cuadran, SemaforoCuadra
<1>. QED  BY <1>1, InvSemSiempre, PTL

\* A connected process is in one place, the waiting lists of the semaphores
\* included.
THEOREM UnLugarConSemaforos == SpecSem => []UnSoloLugarSem
<1>1. InvSem => UnSoloLugarSem
  <2>. SUFFICES ASSUME InvSem, NEW p \in Procesos
                PROVE  Lugares(p) + Cardinality({e \in EsperanSem : espera[e[1]][e[2]] = p})
                         = Uno(pedido[p] # "sinConectar" /\ p \notin liberados)
    BY DEF UnSoloLugarSem
  <2>1. PICK l \in [Procesos -> Sitios], a \in Esperas :
          Ubicados(l) /\ Duermen(l, a) /\ EnSusListas(a, espera)
    BY DEF InvSem, UbicacionSem
  <2>2. Lugares(p) = Uno(l[p] \notin {"fuera", "semaforo"})
    BY <2>1, LugaresDelSitio DEF InvSem, Inv
  <2>3. espera \in [Sems -> Seq(Procesos)]
    BY DEF InvSem, TiposSem
  <2>4. Listas(l, espera, Sems, "semaforo")
    <3>1. ASSUME NEW s \in Sems, NEW t \in Sems, NEW i \in 1..Len(espera[s]),
                 NEW j \in 1..Len(espera[t]), espera[s][i] = espera[t][j]
          PROVE  s = t /\ i = j
      <4>1. espera[s][i] \in Procesos
        BY <2>3
      <4>2. Lista(a, espera[s], s) /\ Lista(a, espera[t], t)
        BY <2>1 DEF EnSusListas
      <4>3. a[espera[s][i]] = s /\ a[espera[s][i]] = t
        BY <3>1, <4>1, <4>2 DEF Lista
      <4>. QED  BY <3>1, <4>2, <4>3 DEF Lista
    <3>2. ASSUME NEW q \in Procesos
          PROVE  l[q] = "semaforo" <=> \E s \in Sems : \E i \in 1..Len(espera[s]) : espera[s][i] = q
      <4>1. l[q] = "semaforo" <=> a[q] # Nadie
        BY <2>1 DEF Duermen
      <4>2. a[q] # Nadie <=> \E s \in Sems : a[q] = s
        BY SemaforosOK DEF Esperas
      <4>3. \A s \in Sems : a[q] = s <=> \E i \in 1..Len(espera[s]) : espera[s][i] = q
        BY <2>1 DEF EnSusListas, Lista
      <4>. QED  BY <4>1, <4>2, <4>3
    <3>. QED  BY <3>1, <3>2 DEF Listas
  <2>5. Cardinality({e \in EsperanSem : espera[e[1]][e[2]] = p}) = Uno(l[p] = "semaforo")
    <3>1. EsperanSem = Entradas(espera, Sems)
      BY DEF EsperanSem, Entradas
    <3>. QED  BY <2>3, <2>4, <3>1, UnaEntrada
  <2>6. l[p] = "fuera" <=> pedido[p] = "sinConectar" \/ p \in liberados
    BY <2>1 DEF Ubicados, EnFuera
  <2>. QED  BY <2>2, <2>5, <2>6 DEF Uno
<1>. QED  BY <1>1, InvSemSiempre, PTL

-----------------------------------------------------------------------------
(* The permits of multiprogramming.                                        *)

\* The credit of the specification, in the numbers of the proofs.
EnNumeros ==
  /\ CreditoSem = Libres + Tomados + Cardinality(EsperanSem) - Len(procesosSuspendedBlock)
  /\ Libres \in Nat /\ Tomados \in Nat /\ Cardinality(EsperanSem) \in Nat
  /\ Len(procesosSuspendedBlock) \in Nat /\ perdidos \in Nat /\ CreditoSem \in Int
  /\ IsFiniteSet(EsperanSem)

\* The counters of the credit are numbers.
LEMMA CreditoEnNumeros == InvSem /\ IsFiniteSet(EsperanIO) => EnNumeros
<1>. SUFFICES ASSUME InvSem, IsFiniteSet(EsperanIO) PROVE EnNumeros
  OBVIOUS
<1>t. Tipos
  BY DEF InvSem, Inv
<1>1. /\ posix["nivelMultiProgramacionGeneral"] \in Nat
      /\ posix["nivelMultiProgramacionBajaPrioridad"] \in Nat
      /\ EnPMP2 \in Nat /\ EnLargoPlazo \in Nat
      /\ Len(procesosReady) \in Nat /\ Len(procesosSuspendedBlock) \in Nat
      /\ Cardinality(ConProceso) \in Nat /\ Cardinality(Devuelven) \in Nat
      /\ Cardinality(EsperanIO) \in Nat /\ perdidos \in Nat
      /\ Libres \in Nat /\ Tomados \in Nat
  BY <1>t, Contables
<1>2. IsFiniteSet(EsperanSem) /\ Cardinality(EsperanSem) \in Nat
  <2>1. EsperanSem = Entradas(espera, Sems)
    BY DEF EsperanSem, Entradas
  <2>2. PICK w \in [Sems -> Seq(Procesos)] : w = espera
    BY DEF InvSem, TiposSem
  <2>3. PICK a \in Esperas : EnSusListas(a, w)
    BY <2>2 DEF InvSem, UbicacionSem
  <2>. QED  BY <2>1, <2>2, <2>3, EntradasFinitas
<1>3. /\ {c \in CPUs : fase[c] \notin {"espera", "aBlocked", "aBlockedSem", "calcula"}}
           = ConProceso
      /\ {t \in Hilos : fase[t] \in FasesLiberar \ {"aSuspendedReady"}} = Devuelven
      /\ Uno(fasePMP2 # "espera") = EnPMP2 /\ Uno(nuevo # Nadie) = EnLargoPlazo
  <2>1. fase \in [Hilos -> FasesCPU \cup FasesLiberar]
    BY <1>t DEF Tipos, TypeOK
  <2>2. {c \in CPUs : fase[c] \notin {"espera", "aBlocked", "aBlockedSem", "calcula"}}
           = ConProceso
    BY <2>1 DEF ConProceso, FasesConProceso, FasesCPU, FasesLiberar, Hilos
  <2>3. {t \in Hilos : fase[t] \in FasesLiberar \ {"aSuspendedReady"}} = Devuelven
    BY <2>1 DEF FasesLiberar, Devuelven, FasesDevuelve
  <2>4. Uno(fasePMP2 # "espera") = EnPMP2 /\ Uno(nuevo # Nadie) = EnLargoPlazo
    BY DEF Uno, EnPMP2, EnLargoPlazo
  <2>. QED  BY <2>2, <2>3, <2>4
<1>4. CreditoSem =
        posix["nivelMultiProgramacionGeneral"]
          + posix["nivelMultiProgramacionBajaPrioridad"]
          + EnPMP2 + EnLargoPlazo + Len(procesosReady) + Cardinality(ConProceso)
          + Cardinality(EsperanIO) + Cardinality(EsperanSem) + Cardinality(Devuelven)
          - Len(procesosSuspendedBlock)
  BY <1>3, Zenon DEF CreditoSem
<1>5. PICK g, b, u, n, r, c, i, w, h, k :
        /\ g = posix["nivelMultiProgramacionGeneral"]
        /\ b = posix["nivelMultiProgramacionBajaPrioridad"]
        /\ u = EnPMP2 /\ n = EnLargoPlazo /\ r = Len(procesosReady)
        /\ c = Cardinality(ConProceso) /\ i = Cardinality(EsperanIO)
        /\ w = Cardinality(EsperanSem) /\ h = Cardinality(Devuelven)
        /\ k = Len(procesosSuspendedBlock)
  OBVIOUS
<1>6. /\ g \in Nat /\ b \in Nat /\ u \in Nat /\ n \in Nat /\ r \in Nat /\ c \in Nat
      /\ i \in Nat /\ w \in Nat /\ h \in Nat /\ k \in Nat
  BY <1>1, <1>2, <1>5
<1>7. /\ CreditoSem = g + b + u + n + r + c + i + w + h - k
      /\ Libres = g + b + u + n /\ Tomados = r + c + i + h
  BY <1>4, <1>5, Zenon DEF Libres, Tomados
<1>8. CreditoSem = (g + b + u + n) + (r + c + i + h) + w - k /\ CreditoSem \in Int
  BY <1>6, <1>7
<1>. QED  BY <1>1, <1>2, <1>5, <1>7, <1>8 DEF EnNumeros

\* The credit, but for what SuspendedBlock has lost.
Saldo == CreditoSem - perdidos

\* A step that touches no semaphore keeps it.
LEMMA SaldoDelPasoComun ==
  ASSUME InvSem, IsFiniteSet(EsperanIO), PasoComun
  PROVE  IsFiniteSet(EsperanIO)' /\ Saldo' = Saldo
<1>1. [Next]_vars /\ UNCHANGED semaforos /\ InvSem'
  BY PasoComunEsNext, PasoSinSemaforos
<1>2. EnNumeros
  BY CreditoEnNumeros
<1>3. PICK k : k = Libres + Tomados - perdidos - Len(procesosSuspendedBlock)
  OBVIOUS
<1>4. k \in Int /\ Libres + Tomados = k + perdidos + Len(procesosSuspendedBlock)
  BY <1>2, <1>3 DEF EnNumeros
<1>5. Credito(k)
  BY <1>4 DEF Credito, Balance
<1>6. Credito(k)'
  BY <1>1, <1>5, CreditoNext, InvNoSacaDeVacia DEF InvSem, Inv
<1>7. IsFiniteSet(EsperanIO)'
  BY <1>6 DEF Credito
<1>8. EnNumeros'
  BY <1>1, <1>7, CreditoEnNumeros, PTL
<1>9. EsperanSem' = EsperanSem
  BY <1>1 DEF EsperanSem, semaforos
<1>10. Saldo = k + Cardinality(EsperanSem)
  <2>1. PICK x, y, z, u, w : /\ x = Libres /\ y = Tomados /\ z = Cardinality(EsperanSem)
                             /\ u = Len(procesosSuspendedBlock) /\ w = perdidos
    OBVIOUS
  <2>2. /\ x \in Nat /\ y \in Nat /\ z \in Nat /\ u \in Nat /\ w \in Nat
        /\ Saldo = (x + y + z - u) - w /\ x + y = k + w + u
    BY <2>1, <1>2, <1>4 DEF EnNumeros, Saldo
  <2>3. Saldo = k + z
    BY <2>2, <1>4
  <2>. QED  BY <2>1, <2>3
<1>11. Saldo' = k + Cardinality(EsperanSem')
  <2>1. PICK x, y, z, u, w : /\ x = Libres' /\ y = Tomados' /\ z = Cardinality(EsperanSem')
                             /\ u = Len(procesosSuspendedBlock') /\ w = perdidos'
    OBVIOUS
  <2>2. /\ x \in Nat /\ y \in Nat /\ z \in Nat /\ u \in Nat /\ w \in Nat
        /\ Saldo' = (x + y + z - u) - w /\ x + y = k + w + u
    BY <2>1, <1>6, <1>8 DEF EnNumeros, Saldo, Credito, Balance
  <2>3. Saldo' = k + z
    BY <2>2, <1>4
  <2>. QED  BY <2>1, <2>3
<1>. QED  BY <1>7, <1>9, <1>10, <1>11

\* What moves a process between a CPU, a waiting list and the thread that
\* returns it moves its permit.
Traspaso ==
  Cardinality(ConProceso') + Cardinality(Devuelven') + Cardinality(EsperanSem')
    = Cardinality(ConProceso) + Cardinality(Devuelven) + Cardinality(EsperanSem)

\* That is all that a call does to the permits.
LEMMA TraspasoDeLlamada ==
  ASSUME InvSem, IsFiniteSet(EsperanIO), NEW c \in CPUs, Llamada(c)
  PROVE  Traspaso
<1>t. /\ fase \in [Hilos -> FasesCPU \cup FasesLiberar] /\ c \in Hilos
      /\ espera \in [Sems -> Seq(Procesos)]
  BY DEF InvSem, Inv, Tipos, TypeOK, Hilos, TiposSem
<1>n. /\ Cardinality(ConProceso) \in Nat /\ Cardinality(Devuelven) \in Nat
      /\ Cardinality(EsperanSem) \in Nat /\ IsFiniteSet(EsperanSem)
  BY HilosFinitos, CreditoEnNumeros DEF EnNumeros
<1>c. /\ \A x \in {"atiende", "respondeSignal", "avisa"} :
           x \in FasesConProceso /\ x \notin FasesDevuelve
      /\ \A x \in {"aBlockedSem", "calcula"} :
           x \notin FasesConProceso /\ x \notin FasesDevuelve
      /\ "miraSuspendidos" \in FasesConProceso /\ "miraSuspendidos" \in FasesDevuelve
  BY DEF FasesConProceso, FasesDevuelve, FasesLiberar
<1>e. /\ EsperanSem = Entradas(espera, Sems) /\ EsperanSem' = Entradas(espera', Sems)
  BY DEF EsperanSem, Entradas
<1>1. ASSUME NEW s \in Sems, WaitBloqueante(c, s) PROVE Traspaso
  <2>1. fase[c] = "atiende" /\ fase' = [fase EXCEPT ![c] = "aBlockedSem"]
    BY <1>1 DEF WaitBloqueante, Atiende
  <2>2. PICK z : z = espera'
    OBVIOUS
  <2>3. z \in [Sems -> Seq(Procesos)]
    BY <1>1, <2>2, CuentaDeLlamada DEF TiposSem
  <2>4. z[s] = Append(espera[s], ejecutando[c]) /\ \A u \in Sems \ {s} : z[u] = espera[u]
    BY <1>1, <1>t, <2>2 DEF WaitBloqueante
  <2>5. Len(z[s]) = Len(espera[s]) + 1
    BY <2>4, <1>t
  <2>6. Cardinality(EsperanSem') = Cardinality(EsperanSem) + 1
    <3>1. IsFiniteSet(Entradas(espera, Sems))
      BY <1>n, <1>e
    <3>2. Cardinality(Entradas(z, Sems)) = Cardinality(Entradas(espera, Sems)) + 1
      BY <2>3, <2>4, <2>5, <3>1, <1>t, UnaEntradaMas
    <3>. QED  BY <3>2, <2>2, <1>e
  <2>7. c \in ConProceso
    BY <2>1, <1>c DEF ConProceso
  <2>8. Devuelven' = Devuelven /\ Cardinality(ConProceso') = Cardinality(ConProceso) - 1
    BY <2>1, <2>7, <1>t, <1>c, FaseConProceso
  <2>. QED  BY <2>6, <2>8, <1>n DEF Traspaso
<1>2. ASSUME \/ \E s \in Sems : WaitInmediato(c, s) \/ SignalSinEspera(c, s)
             \/ BloqueaEnSemaforo(c) \/ AvisaPost(c)
      PROVE  Traspaso
  <2>1. UNCHANGED espera
    BY <1>2 DEF WaitInmediato, SignalSinEspera, BloqueaEnSemaforo, AvisaPost, semaforos
  <2>2. \/ /\ fase[c] \in {"atiende", "respondeSignal"}
           /\ fase' = [fase EXCEPT ![c] = "avisa"]
        \/ fase[c] = "aBlockedSem" /\ fase' = [fase EXCEPT ![c] = "calcula"]
    BY <1>2 DEF WaitInmediato, SignalSinEspera, BloqueaEnSemaforo, AvisaPost, Atiende
  <2>3. EsperanSem' = EsperanSem
    BY <2>1 DEF EsperanSem
  <2>4. Devuelven' = Devuelven /\ ConProceso' = ConProceso
    <3>1. CASE fase[c] \in {"atiende", "respondeSignal"} /\ fase' = [fase EXCEPT ![c] = "avisa"]
      <4>1. c \in ConProceso /\ fase[c] \notin FasesDevuelve
        BY <3>1, <1>c DEF ConProceso
      <4>. QED  BY <3>1, <4>1, <1>t, <1>c, FaseConProceso
    <3>2. CASE fase[c] = "aBlockedSem" /\ fase' = [fase EXCEPT ![c] = "calcula"]
      <4>1. c \notin ConProceso /\ fase[c] \notin FasesDevuelve
        BY <3>2, <1>c DEF ConProceso
      <4>. QED  BY <3>2, <4>1, <1>t, <1>c, FaseConProceso
    <3>. QED  BY <2>2, <3>1, <3>2
  <2>. QED  BY <2>3, <2>4 DEF Traspaso
<1>3. ASSUME NEW s \in Sems, SignalQueLibera(c, s) PROVE Traspaso
  <2>1. fase[c] = "atiende" /\ fase' = [fase EXCEPT ![c] = "miraSuspendidos"]
    BY <1>3 DEF SignalQueLibera, Atiende
  <2>2. PICK z : z = espera'
    OBVIOUS
  <2>3. z \in [Sems -> Seq(Procesos)]
    BY <1>3, <2>2, CuentaDeLlamada DEF TiposSem
  <2>4. /\ espera[s] # <<>> /\ z[s] = Tail(espera[s])
        /\ \A u \in Sems \ {s} : z[u] = espera[u]
    BY <1>3, <1>t, <2>2 DEF SignalQueLibera
  <2>5. Len(z[s]) = Len(espera[s]) - 1
    BY <2>4, <1>t
  <2>6. Cardinality(EsperanSem') = Cardinality(EsperanSem) - 1
    <3>1. IsFiniteSet(Entradas(espera, Sems))
      BY <1>n, <1>e
    <3>2. Cardinality(Entradas(z, Sems)) = Cardinality(Entradas(espera, Sems)) - 1
      BY <2>3, <2>4, <2>5, <3>1, <1>t, UnaEntradaMenos
    <3>. QED  BY <3>2, <2>2, <1>e
  <2>7. c \notin Devuelven /\ fase[c] \in FasesConProceso
    BY <2>1, <1>c DEF Devuelven
  <2>8. ConProceso' = ConProceso /\ Cardinality(Devuelven') = Cardinality(Devuelven) + 1
    BY <2>1, <2>7, <1>t, <1>c, FaseDevuelve
  <2>. QED  BY <2>6, <2>8, <1>n DEF Traspaso
<1>. QED  BY <1>1, <1>2, <1>3 DEF Llamada

\* The permits that no call and no kill touches.
MismosLibres ==
  /\ posix'["nivelMultiProgramacionGeneral"] = posix["nivelMultiProgramacionGeneral"]
  /\ posix'["nivelMultiProgramacionBajaPrioridad"]
       = posix["nivelMultiProgramacionBajaPrioridad"]
  /\ UNCHANGED <<fasePMP2, nuevo, listaEspera, perdidos>>

\* A call keeps the credit.
LEMMA SaldoDeLlamada ==
  ASSUME InvSem, IsFiniteSet(EsperanIO), NEW c \in CPUs, Llamada(c)
  PROVE  IsFiniteSet(EsperanIO)' /\ Saldo' = Saldo
<1>1. posix \in [NombresPosix -> Nat]
  BY DEF InvSem, Inv, Tipos, TypeOK
<1>2. MismosLibres /\ UNCHANGED <<procesosReady, procesosSuspendedBlock>>
  BY <1>1 DEF Llamada, WaitBloqueante, WaitInmediato, SignalQueLibera, SignalSinEspera,
    BloqueaEnSemaforo, AvisaPost, MismosLibres, colas, medio, NombresPosix
<1>3. EsperanIO' = EsperanIO
  BY <1>2 DEF MismosLibres, EsperanIO
<1>4. Traspaso
  BY TraspasoDeLlamada
<1>5. InvSem' /\ IsFiniteSet(EsperanIO)'
  BY <1>3, InvDeLaLlamada
<1>6. EnNumeros
  BY CreditoEnNumeros
<1>7. EnNumeros'
  BY <1>5, CreditoEnNumeros, PTL
<1>8. Libres' = Libres
  BY <1>2 DEF MismosLibres, Libres, EnPMP2, EnLargoPlazo
<1>9. Tomados' + Cardinality(EsperanSem') = Tomados + Cardinality(EsperanSem)
  <2>1. PICK r, i, x, y, z, x1, y1, z1 :
          /\ r = Len(procesosReady) /\ i = Cardinality(EsperanIO)
          /\ x = Cardinality(ConProceso) /\ y = Cardinality(Devuelven)
          /\ z = Cardinality(EsperanSem)
          /\ x1 = Cardinality(ConProceso') /\ y1 = Cardinality(Devuelven')
          /\ z1 = Cardinality(EsperanSem')
    OBVIOUS
  <2>2. Tomados = r + x + i + y /\ Tomados' = r + x1 + i + y1
    BY <2>1, <1>2, <1>3 DEF Tomados
  <2>3. x1 + y1 + z1 = x + y + z
    BY <2>1, <1>4 DEF Traspaso
  <2>4. /\ r \in Nat /\ i \in Nat /\ x \in Nat /\ y \in Nat /\ z \in Nat
        /\ IsFiniteSet(EsperanIO)
    BY <2>1, <1>6, Contables DEF EnNumeros, InvSem, Inv
  <2>5. x1 \in Nat /\ y1 \in Nat /\ z1 \in Nat
    <3>1. z1 \in Nat
      BY <2>1, <1>7 DEF EnNumeros
    <3>2. x1 \in Nat /\ y1 \in Nat
      <4>1. ConProceso' \subseteq CPUs /\ Devuelven' \subseteq Hilos /\ IsFiniteSet(Hilos)
        BY ConstantesOK, FS_Union DEF ConProceso, Devuelven, Hilos
      <4>. QED  BY <2>1, <4>1, ConstantesOK, FS_Subset, FS_CardinalityType
    <3>. QED  BY <3>1, <3>2
  <2>6. Tomados' + z1 = Tomados + z
    BY <2>2, <2>3, <2>4, <2>5
  <2>. QED  BY <2>1, <2>6
<1>10. Saldo' = Saldo
  <2>1. PICK x, y, z, y1, z1, k, d :
          /\ x = Libres /\ y = Tomados /\ y1 = Tomados' /\ z = Cardinality(EsperanSem)
          /\ z1 = Cardinality(EsperanSem') /\ k = Len(procesosSuspendedBlock)
          /\ d = perdidos
    OBVIOUS
  <2>2. /\ x \in Nat /\ y \in Nat /\ z \in Nat /\ y1 \in Nat /\ z1 \in Nat
        /\ k \in Nat /\ d \in Nat
    BY <2>1, <1>6, <1>7 DEF EnNumeros
  <2>3. Saldo = (x + y + z - k) - d
    BY <2>1, <1>6 DEF EnNumeros, Saldo
  <2>4. Saldo' = (x + y1 + z1 - k) - d
    BY <2>1, <1>2, <1>7, <1>8 DEF EnNumeros, Saldo, MismosLibres
  <2>5. y1 + z1 = y + z
    BY <2>1, <1>9
  <2>. QED  BY <2>2, <2>3, <2>4, <2>5
<1>. QED  BY <1>5, <1>10

\* A run of the detector changes the credit as it changes its photo: it loses
\* one permit for each kill at most, and invents none unless the victim was
\* twice in SuspendedBlock.
LEMMA SaldoDeDeteccion ==
  ASSUME InvSem, IsFiniteSet(EsperanIO), EjecutaDeadlock
  PROVE  /\ IsFiniteSet(EsperanIO)'
         /\ \E M \in SUBSET Procesos :
              /\ expulsados' = expulsados \cup M /\ expulsados \cap M = {}
              /\ Saldo' >= Saldo - Cardinality(M)
              /\ (\A v \in M : UnaVez(procesosSuspendedBlock, v)) => Saldo' <= Saldo
<1>1. PICK l \in [Procesos -> Sitios], a \in Esperas :
        Ubicados(l) /\ Duermen(l, a) /\ EnSusListas(a, espera) /\ Piden(a, solicitados)
  BY DEF InvSem, UbicacionSem
<1>2. EnMarcha(Foto, l, Foto)
  BY <1>1, FotoBuena DEF InvSem
<1>3. PICK e \in Fotos :
        /\ EnMarcha(Foto, l, e) /\ Buena(Foto, l, e, e.expulsados)
        /\ espera' = e.espera /\ procesosSuspendedBlock' = e.SuspendedBlock
        /\ procesosReady' = e.Ready /\ posix' = e.posix
        /\ expulsados' = expulsados \cup e.expulsados
        /\ UNCHANGED <<listaEspera, hilos, medio, perdidos>>
  BY <1>2, PasoDeDeteccion
<1>4. PICK M \in SUBSET Procesos : M = e.expulsados
  BY DEF Fotos
<1>5. expulsados \cap M = {}
  <2>1. \A p \in M : l[p] = "semaforo"
    BY <1>3, <1>4 DEF Buena, Vienen
  <2>2. \A p \in M : p \notin liberados
    BY <2>1, <1>1 DEF Ubicados, EnFuera
  <2>. QED  BY <2>2 DEF InvSem, TiposSem
<1>6. /\ InvSem' /\ EsperanIO' = EsperanIO /\ IsFiniteSet(EsperanIO)'
  BY <1>3, InvDeDeteccion DEF EsperanIO
<1>7. EnNumeros
  BY CreditoEnNumeros
<1>8. EnNumeros'
  BY <1>6, CreditoEnNumeros, PTL
<1>9. Libres' = Libres
  <2>1. /\ Foto.posix = posix /\ OtrosPosix(Foto, e)
    BY <1>3 DEF Foto, Buena, Cuentas
  <2>2. /\ posix'["nivelMultiProgramacionGeneral"] = posix["nivelMultiProgramacionGeneral"]
        /\ posix'["nivelMultiProgramacionBajaPrioridad"]
             = posix["nivelMultiProgramacionBajaPrioridad"]
    BY <2>1, <1>3 DEF OtrosPosix, NombresPosix
  <2>. QED  BY <2>2, <1>3 DEF Libres, EnPMP2, EnLargoPlazo, medio
<1>10. ConProceso' = ConProceso /\ Devuelven' = Devuelven
  BY <1>3 DEF ConProceso, Devuelven, hilos
<1>11. Saldo' - Saldo = Cuenta(e) - Cuenta(Foto) /\ Saldo \in Int /\ Saldo' \in Int
  <2>1. PICK x, t, r, z, k, r1, z1, k1, d :
          /\ x = Libres
          /\ t = Cardinality(ConProceso) + Cardinality(EsperanIO) + Cardinality(Devuelven)
          /\ r = Len(procesosReady) /\ z = Cardinality(EsperanSem)
          /\ k = Len(procesosSuspendedBlock) /\ r1 = Len(procesosReady')
          /\ z1 = Cardinality(EsperanSem') /\ k1 = Len(procesosSuspendedBlock')
          /\ d = perdidos
    OBVIOUS
  <2>2. /\ x \in Nat /\ z \in Nat /\ z1 \in Nat /\ k \in Nat /\ k1 \in Nat /\ d \in Nat
    BY <2>1, <1>7, <1>8 DEF EnNumeros
  <2>3. t \in Nat /\ r \in Nat /\ r1 \in Nat
    <3>1. /\ Cardinality(ConProceso) \in Nat /\ Cardinality(EsperanIO) \in Nat
          /\ Cardinality(Devuelven) \in Nat /\ r \in Nat
      BY <2>1, Contables DEF InvSem, Inv
    <3>2. e.Ready \in Seq(Procesos)
      BY DEF Fotos
    <3>3. r1 \in Nat
      BY <2>1, <1>3, <3>2
    <3>. QED  BY <2>1, <3>1, <3>3
  <2>4. Tomados = r + t /\ Tomados' = r1 + t
    <3>1. PICK i, j, h : /\ i = Cardinality(ConProceso) /\ j = Cardinality(EsperanIO)
                         /\ h = Cardinality(Devuelven)
      OBVIOUS
    <3>2. i \in Nat /\ j \in Nat /\ h \in Nat
      BY <3>1, Contables DEF InvSem, Inv
    <3>3. Tomados = r + i + j + h /\ Tomados' = r1 + i + j + h /\ t = i + j + h
      BY <2>1, <3>1, <1>6, <1>10 DEF Tomados
    <3>. QED  BY <2>3, <3>2, <3>3
  <2>5. Saldo = (x + (r + t) + z - k) - d
    BY <2>1, <2>4, <1>7 DEF EnNumeros, Saldo
  <2>6. Saldo' = (x + (r1 + t) + z1 - k1) - d
    BY <2>1, <2>4, <1>3, <1>8, <1>9 DEF EnNumeros, Saldo
  <2>7. Cuenta(Foto) = r + z - k
    <3>1. EsperanSem = Entradas(espera, Sems)
      BY DEF EsperanSem, Entradas
    <3>. QED  BY <2>1, <3>1 DEF Cuenta, Foto
  <2>8. Cuenta(e) = r1 + z1 - k1
    <3>1. EsperanSem' = Entradas(espera', Sems)
      BY DEF EsperanSem, Entradas
    <3>. QED  BY <2>1, <3>1, <1>3 DEF Cuenta
  <2>. QED  BY <2>2, <2>3, <2>5, <2>6, <2>7, <2>8
<1>12. /\ Cuenta(e) >= Cuenta(Foto) - Cardinality(M)
       /\ (\A v \in M : UnaVez(procesosSuspendedBlock, v)) => Cuenta(e) <= Cuenta(Foto)
  <2>1. Foto.SuspendedBlock = procesosSuspendedBlock
    BY DEF Foto
  <2>. QED  BY <2>1, <1>3, <1>4 DEF EnMarcha
<1>13. Cuenta(e) \in Int /\ Cuenta(Foto) \in Int /\ Cardinality(M) \in Nat
  <2>1. Foto \in Fotos /\ Cuenta(Foto) \in Int
    BY <1>2, CuentaEsEntera DEF EnMarcha, Buena
  <2>2. Cuenta(e) \in Int
    BY <1>3, CuentaEsEntera DEF EnMarcha, Buena
  <2>3. IsFiniteSet(M)
    BY ConstantesOK, FS_Subset
  <2>. QED  BY <2>1, <2>2, <2>3, FS_CardinalityType
<1>14. Saldo' >= Saldo - Cardinality(M)
  BY <1>11, <1>12, <1>13
<1>15. (\A v \in M : UnaVez(procesosSuspendedBlock, v)) => Saldo' <= Saldo
  BY <1>11, <1>12, <1>13
<1>. QED  BY <1>3, <1>4, <1>5, <1>6, <1>14, <1>15

\* Kills are what permits are lost to.
SaldoBasta ==
  /\ IsFiniteSet(EsperanIO) /\ IsFiniteSet(expulsados)
  /\ Saldo >= GradoMultiProgramacion - Cardinality(expulsados)

\* All the permits are there at first.
LEMMA SaldoInit == InitSem => SaldoBasta
<1>. SUFFICES ASSUME InitSem PROVE SaldoBasta
  OBVIOUS
<1>1. Credito(GradoMultiProgramacion) /\ InvSem
  BY CreditoInit, InvSemInit DEF InitSem
<1>2. IsFiniteSet(EsperanIO) /\ EnNumeros
  BY <1>1, CreditoEnNumeros DEF Credito
<1>3. expulsados = {} /\ IsFiniteSet(expulsados) /\ Cardinality(expulsados) = 0
  BY FS_EmptySet DEF InitSem
<1>4. Saldo >= GradoMultiProgramacion
  <2>1. PICK x, y, z, u, w, g : /\ x = Libres /\ y = Tomados /\ z = Cardinality(EsperanSem)
                                /\ u = Len(procesosSuspendedBlock) /\ w = perdidos
                                /\ g = GradoMultiProgramacion
    OBVIOUS
  <2>2. /\ x \in Nat /\ y \in Nat /\ z \in Nat /\ u \in Nat /\ w \in Nat /\ g \in Int
        /\ Saldo = (x + y + z - u) - w /\ x + y = g + w + u
    BY <2>1, <1>1, <1>2 DEF EnNumeros, Saldo, Credito, Balance
  <2>3. Saldo >= g
    BY <2>2
  <2>. QED  BY <2>1, <2>3
<1>5. GradoMultiProgramacion - Cardinality(expulsados) = GradoMultiProgramacion
  BY <1>3, ConstantesOK
<1>. QED  BY <1>2, <1>3, <1>4, <1>5 DEF SaldoBasta

\* No step loses a permit but the kills, one each at most.
LEMMA SaldoNext == InvSem /\ SaldoBasta /\ [NextSem]_varsSem => SaldoBasta'
<1>. SUFFICES ASSUME InvSem, SaldoBasta, [NextSem]_varsSem PROVE SaldoBasta'
  OBVIOUS
<1>0. /\ IsFiniteSet(EsperanIO) /\ IsFiniteSet(expulsados)
      /\ Saldo >= GradoMultiProgramacion - Cardinality(expulsados)
  BY DEF SaldoBasta
<1>1. ASSUME IsFiniteSet(EsperanIO)', Saldo' = Saldo, expulsados' = expulsados
      PROVE  SaldoBasta'
  BY <1>0, <1>1 DEF SaldoBasta
<1>2. CASE PasoComun
  BY <1>0, <1>1, <1>2, SaldoDelPasoComun, PasoComunEsNext DEF semaforos
<1>3. ASSUME NEW c \in CPUs, Llamada(c) PROVE SaldoBasta'
  <2>1. expulsados' = expulsados
    BY <1>3 DEF Llamada, WaitBloqueante, WaitInmediato, SignalQueLibera, SignalSinEspera,
      BloqueaEnSemaforo, AvisaPost, semaforos
  <2>. QED  BY <2>1, <1>0, <1>1, <1>3, SaldoDeLlamada
<1>4. CASE EjecutaDeadlock
  <2>1. PICK M \in SUBSET Procesos :
          /\ expulsados' = expulsados \cup M /\ expulsados \cap M = {}
          /\ Saldo' >= Saldo - Cardinality(M)
    BY <1>0, <1>4, SaldoDeDeteccion
  <2>2. IsFiniteSet(M)
    BY ConstantesOK, FS_Subset
  <2>3. /\ IsFiniteSet(expulsados')
        /\ Cardinality(expulsados') = Cardinality(expulsados) + Cardinality(M) - 0
    BY <2>1, <2>2, <1>0, FS_Union, FS_EmptySet
  <2>4. IsFiniteSet(EsperanIO)' /\ InvSem'
    BY <1>0, <1>4, SaldoDeDeteccion, InvDeDeteccion
  <2>5. /\ Cardinality(expulsados) \in Nat /\ Cardinality(M) \in Nat
        /\ GradoMultiProgramacion \in Nat
    BY <1>0, <2>2, ConstantesOK, FS_CardinalityType
  <2>6. Saldo \in Int
    BY <1>0, CreditoEnNumeros DEF EnNumeros, Saldo
  <2>7. Saldo' \in Int
    <3>1. EnNumeros'
      BY <2>4, CreditoEnNumeros, PTL
    <3>. QED  BY <3>1 DEF EnNumeros, Saldo
  <2>8. Saldo' >= GradoMultiProgramacion - Cardinality(expulsados')
    <3>1. PICK x, y, g, h, m : /\ x = Saldo /\ y = Saldo' /\ g = GradoMultiProgramacion
                               /\ h = Cardinality(expulsados) /\ m = Cardinality(M)
      OBVIOUS
    <3>2. /\ x \in Int /\ y \in Int /\ g \in Nat /\ h \in Nat /\ m \in Nat
          /\ y >= x - m /\ x >= g - h
      BY <3>1, <2>1, <2>5, <2>6, <2>7, <1>0
    <3>3. y >= g - (h + m - 0)
      BY <3>2
    <3>. QED  BY <3>1, <3>3, <2>3
  <2>. QED  BY <2>3, <2>4, <2>8 DEF SaldoBasta
<1>. QED  BY <1>2, <1>3, <1>4, PasosDeNextSem

\* However many kills there have been, what they have taken is one permit each at
\* most, whatever the schedulers and the calls do with the rest in between.
THEOREM SoloLosKillsPierden ==
  SpecSem => [](CreditoSem >= GradoMultiProgramacion + perdidos - Cardinality(expulsados))
<1>1. InvSem /\ SaldoBasta
        => CreditoSem >= GradoMultiProgramacion + perdidos - Cardinality(expulsados)
  <2>. SUFFICES ASSUME InvSem, SaldoBasta
                PROVE  CreditoSem >= GradoMultiProgramacion + perdidos - Cardinality(expulsados)
    OBVIOUS
  <2>1. /\ EnNumeros /\ Cardinality(expulsados) \in Nat /\ GradoMultiProgramacion \in Nat
    BY CreditoEnNumeros, ConstantesOK, FS_CardinalityType DEF SaldoBasta
  <2>2. CreditoSem \in Int /\ perdidos \in Nat
    BY <2>1 DEF EnNumeros
  <2>3. CreditoSem - perdidos >= GradoMultiProgramacion - Cardinality(expulsados)
    BY DEF SaldoBasta, Saldo
  <2>. QED  BY <2>1, <2>2, <2>3
<1>. QED  BY <1>1, InvSemSiempre, SaldoInit, SaldoNext, PTL DEF SpecSem

\* Two entries of a process in a list are two positions.
LEMMA MasDeUna ==
  ASSUME NEW s \in Seq(Procesos), NEW v, ~UnaVez(s, v)
  PROVE  Veces(s, v) > 1
<1>1. PICK i \in 1..Len(s), j \in 1..Len(s) : s[i] = v /\ s[j] = v /\ i # j
  BY DEF UnaVez
<1>2. PICK D, A : D = {k \in 1..Len(s) : s[k] = v} /\ A = {i}
  OBVIOUS
<1>3. IsFiniteSet(D)
  <2>1. PICK n \in Nat : n = Len(s)
    OBVIOUS
  <2>2. IsFiniteSet(1..n)
    BY FS_Interval
  <2>3. D \in SUBSET (1..n)
    BY <1>2, <2>1
  <2>. QED  BY <2>2, <2>3, FS_Subset
<1>4. IsFiniteSet(A) /\ Cardinality(A) = 1
  BY <1>2, FS_Singleton
<1>5. j \notin A
  BY <1>1, <1>2
<1>6. IsFiniteSet(A \cup {j}) /\ Cardinality(A \cup {j}) = Cardinality(A) + 1
  BY <1>4, <1>5, FS_AddElement
<1>7. A \cup {j} \in SUBSET D
  BY <1>1, <1>2
<1>8. Cardinality(A \cup {j}) <= Cardinality(D) /\ Cardinality(D) \in Nat
  BY <1>3, <1>7, FS_Subset, FS_CardinalityType
<1>9. Cardinality(D) > 1
  BY <1>4, <1>6, <1>8
<1>. QED  BY <1>2, <1>9 DEF Veces

\* No step but a kill changes what there is of permits: it takes one away for each
\* victim at most, and adds none unless a victim was twice in SuspendedBlock.
THEOREM SoloLosKillsMuevenPermisos == SpecSem => KillPierdeUnPermiso
<1>1. InvSem /\ SaldoBasta /\ [NextSem]_varsSem
        => [/\ CreditoSem' - perdidos'
                 >= (CreditoSem - perdidos) - Cardinality(expulsados' \ expulsados)
            /\ \/ CreditoSem' - perdidos' <= CreditoSem - perdidos
               \/ \E v \in expulsados' \ expulsados : Veces(procesosSuspendedBlock, v) > 1
           ]_varsSem
  <2>. SUFFICES ASSUME InvSem, SaldoBasta, [NextSem]_varsSem
                PROVE  /\ Saldo' >= Saldo - Cardinality(expulsados' \ expulsados)
                       /\ \/ Saldo' <= Saldo
                          \/ \E v \in expulsados' \ expulsados :
                               Veces(procesosSuspendedBlock, v) > 1
    BY DEF Saldo
  <2>0. IsFiniteSet(EsperanIO) /\ Saldo \in Int
    BY CreditoEnNumeros DEF SaldoBasta, EnNumeros, Saldo
  <2>1. CASE Saldo' = Saldo
    <3>1. Cardinality(expulsados' \ expulsados) \in Nat
      <4>1. SaldoBasta'
        BY SaldoNext
      <4>2. IsFiniteSet(expulsados')
        BY <4>1 DEF SaldoBasta
      <4>. QED  BY <4>2, FS_Difference, FS_CardinalityType
    <3>. QED  BY <2>0, <2>1, <3>1
  <2>2. CASE EjecutaDeadlock
    <3>1. PICK M \in SUBSET Procesos :
            /\ expulsados' = expulsados \cup M /\ expulsados \cap M = {}
            /\ Saldo' >= Saldo - Cardinality(M)
            /\ (\A v \in M : UnaVez(procesosSuspendedBlock, v)) => Saldo' <= Saldo
      BY <2>0, <2>2, SaldoDeDeteccion
    <3>4. expulsados' \ expulsados = M
      BY <3>1
    <3>2. CASE \A v \in M : UnaVez(procesosSuspendedBlock, v)
      BY <3>1, <3>2, <3>4
    <3>3. ASSUME NEW v \in M, ~UnaVez(procesosSuspendedBlock, v)
          PROVE  \E w \in expulsados' \ expulsados : Veces(procesosSuspendedBlock, w) > 1
      <4>1. procesosSuspendedBlock \in Seq(Procesos)
        BY DEF InvSem, Inv, Tipos, TypeOK
      <4>2. Veces(procesosSuspendedBlock, v) > 1
        BY <3>3, <4>1, MasDeUna
      <4>. QED  BY <3>1, <4>2
    <3>. QED  BY <3>1, <3>2, <3>3, <3>4
  <2>. QED  BY <2>0, <2>1, <2>2, PasosDeNextSem, SaldoDelPasoComun, SaldoDeLlamada
<1>. QED  BY <1>1, InvSemSiempre, SaldoInit, SaldoNext, PTL DEF SpecSem, KillPierdeUnPermiso
==============================================================================
