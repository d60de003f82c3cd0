------------------------- MODULE PlanificadorProofs -------------------------
(***************************************************************************)
(* Theorems about Planificador, for any number of carpinchos, CPU threads  *)
(* and devices and any degree of multiprogramming: the accounts of the     *)
(* semaphores of the kernel, where each process is, and what the CPU       *)
(* threads do with the process they hold.                                  *)
(*                                                                         *)
(* The last part: Exec is what the CPU threads serve, a client gets the    *)
(* answer of the call it made, and the permits of multiprogramming         *)
(* balance. However suspension and release race, a permit is gained only   *)
(* by an entry of SuspendedBlock that the unlocked list_add of thread1_PMP *)
(* loses.                                                                  *)
(*                                                                         *)
(* The three rest on the map of the sites: a process is at one, so one     *)
(* thread at most holds it, and none does once its structure is freed. The *)
(* last theorem is the refinement of CicloDeVida: seen from the process,   *)
(* every step of the kernel is one of its life cycle or leaves it be.      *)
(***************************************************************************)
EXTENDS Planificador, FiniteSetTheorems, SequenceTheorems, TLAPS

-----------------------------------------------------------------------------
(* Lists.                                                                  *)

\* Removing one position of a list gives a list one shorter.
LEMMA RemoveAtEsLista ==
  ASSUME NEW S, NEW s \in Seq(S), NEW i \in 1..Len(s)
  PROVE  RemoveAt(s, i) \in Seq(S) /\ Len(RemoveAt(s, i)) = Len(s) - 1
<1>. DEFINE u == SubSeq(s, 1, i - 1)
            v == SubSeq(s, i + 1, Len(s))
<1>1. u \in Seq(S) /\ Len(u) = i - 1
  OBVIOUS
<1>2. v \in Seq(S) /\ Len(v) = Len(s) - i
  OBVIOUS
<1>3. RemoveAt(s, i) = u \o v
  BY DEF RemoveAt
<1>4. i \in Int /\ Len(s) \in Int
  OBVIOUS
<1>. HIDE DEF u, v
<1>5. u \o v \in Seq(S) /\ Len(u \o v) = Len(u) + Len(v)
  BY <1>1, <1>2
<1>. QED  BY <1>1, <1>2, <1>3, <1>4, <1>5

\* Removing by pid keeps a list of processes a list of processes.
LEMMA QuitaPorPidEsLista ==
  ASSUME NEW s \in Seq(Procesos), NEW p \in Procesos, NEW s2,
         NEW hallado \in BOOLEAN, QuitaPorPid(s, p, s2, hallado)
  PROVE  s2 \in Seq(Procesos)
  BY RemoveAtEsLista DEF QuitaPorPid, Hallazgos

\* Taking the last entry off a list leaves a list.
LEMMA FrontEsLista ==
  ASSUME NEW S, NEW s \in Seq(S), s # <<>>
  PROVE  Front(s) \in Seq(S) /\ s[Len(s)] \in S
  BY DEF Front

-----------------------------------------------------------------------------
(* Types and the locals of the threads.                                    *)

\* What a thread's program counter says of its local variables.
HilosConsistentes ==
  /\ \A c \in CPUs : fase[c] # "espera" => ejecutando[c] \in Procesos
  /\ \A c \in CPUs : fase[c] \in {"aDispositivo", "aBlocked"}
                       => dispositivo[c] \in Dispositivos
  /\ \A t \in Hilos : fase[t] \in FasesLiberar => liberado[t] \in Procesos
  /\ \A d \in Dispositivos : fase[d] \in {"espera"} \cup FasesLiberar
  /\ fasePMP2 = "saca" => procesosSuspendedReady # <<>>
  /\ fasePMP2 = "agrega" => preparado \in Procesos

\* The types, with what they need to be inductive.
Tipos == TypeOK /\ HilosConsistentes

\* The kernel starts with its lists empty and its threads waiting.
LEMMA TiposInit == Init => Tipos
<1>. SUFFICES ASSUME Init PROVE Tipos
  OBVIOUS
<1>. USE ConstantesOK
<1>1. Cardinality(CPUs) \in Nat
  BY FS_CardinalityType
<1>2. posix \in [NombresPosix -> Nat]
  BY <1>1 DEF Init
<1>3. TypeOK
  BY <1>2 DEF Init, TypeOK, Hilos, FasesCPU, EstadosCliente, Motivos
<1>4. HilosConsistentes
  BY DEF Init, HilosConsistentes, Hilos, FasesLiberar
<1>. QED  BY <1>3, <1>4 DEF Tipos

\* A counter changed to another natural keeps the semaphores naturals.
LEMMA PosixCambia ==
  ASSUME NEW S, NEW f \in [S -> Nat], NEW a \in S, NEW b \in S, NEW c \in S,
         NEW x \in Nat, NEW y \in Nat, NEW z \in Nat
  PROVE  /\ [f EXCEPT ![a] = x] \in [S -> Nat]
         /\ [f EXCEPT ![a] = x, ![b] = y] \in [S -> Nat]
         /\ [f EXCEPT ![a] = x, ![b] = y, ![c] = z] \in [S -> Nat]
  OBVIOUS

\* The helpers that the handlers share keep the types of what they change.
LEMMA EnviarTipo ==
  ASSUME buzon \in [Procesos -> Seq(Codigos)],
         NEW p \in Procesos, NEW x \in Codigos, Enviar(p, x)
  PROVE  buzon' \in [Procesos -> Seq(Codigos)]
  BY DEF Enviar

\* The count of calls stays within its bound.
LEMMA CuentaOpTipo ==
  ASSUME ops \in [Procesos -> 0..MaxOps], NEW p, CuentaOp(p)
  PROVE  ops' \in [Procesos -> 0..MaxOps]
<1>1. CASE p \in Procesos
  <2>1. ops[p] + 1 \in 0..MaxOps
    BY <1>1, ConstantesOK DEF CuentaOp
  <2>. QED  BY <2>1 DEF CuentaOp
<1>2. CASE p \notin Procesos
  BY <1>2 DEF CuentaOp
<1>. QED  BY <1>1, <1>2

\* Whether or not the unlocked list_add of thread1_PMP is lost, the list is one.
LEMMA SuspendedBlockTipo ==
  ASSUME procesosSuspendedBlock \in Seq(Procesos), perdidos \in Nat,
         NEW p \in Procesos, AgregaASuspendedBlock(p)
  PROVE  procesosSuspendedBlock' \in Seq(Procesos) /\ perdidos' \in Nat
  BY DEF AgregaASuspendedBlock

\* Every step of a thread keeps the types, as long as it takes no head of an
\* empty list.
LEMMA TiposNext == Tipos /\ NuncaSacaDeVacia /\ [Next]_vars => Tipos'
<1>. SUFFICES ASSUME Tipos, NuncaSacaDeVacia PROVE [Next]_vars => Tipos'
  OBVIOUS
<1>. USE DEF Tipos
<1>p. \A s \in NombresPosix :
        posix[s] \in Nat /\ posix[s] + 1 \in Nat
          /\ (posix[s] > 0 => posix[s] - 1 \in Nat)
  BY DEF TypeOK
<1>n. {"hayProcesosNew", "nivelMultiProgramacionBajaPrioridad",
       "hayProcesosReady", "procesosDisponiblesParaEjecutar",
       "nivelMultiprocesamiento", "nivelMultiProgramacionGeneral",
       "signalSuspensionProceso", "procesoNecesitaEntrarEnReady"}
        \subseteq NombresPosix
  BY DEF NombresPosix
<1>m. {"INICIALIZAR_ESTRUCTURA", "CONECTAR_IO", "SEM_WAIT", "OTRA",
       "CERRAR_INSTANCIA"} \subseteq Codigos
  BY DEF Codigos
<1>1. ASSUME NEW p \in Procesos, LlegaProceso(p) PROVE Tipos'
  <2>1. procesosNew' \in Seq(Procesos)
    BY <1>1 DEF LlegaProceso, TypeOK
  <2>2. pedido' \in [Procesos -> EstadosCliente]
    BY <1>1 DEF LlegaProceso, TypeOK, Codigos, EstadosCliente
  <2>3. posix' \in [NombresPosix -> Nat]
    BY <1>1, <1>p, <1>n, PosixCambia, Zenon DEF LlegaProceso, TypeOK
  <2>4. TypeOK'
    BY <1>1, <2>1, <2>2, <2>3 DEF LlegaProceso, TypeOK, hilos, medio
  <2>5. HilosConsistentes'
    BY <1>1 DEF LlegaProceso, HilosConsistentes, hilos, medio
  <2>. QED  BY <2>4, <2>5
<1>2. ASSUME NEW p \in Procesos, RecibeRespuesta(p) PROVE Tipos'
  <2>1. buzon' \in [Procesos -> Seq(Codigos)]
    BY <1>2 DEF RecibeRespuesta, TypeOK
  <2>2. pedido' \in [Procesos -> EstadosCliente]
    BY <1>2 DEF RecibeRespuesta, TypeOK, EstadosCliente, TrasRespuesta
  <2>3. TypeOK'
    BY <1>2, <2>1, <2>2 DEF RecibeRespuesta, TypeOK, colas, hilos, medio
  <2>4. HilosConsistentes'
    BY <1>2 DEF RecibeRespuesta, HilosConsistentes, colas, hilos, medio
  <2>. QED  BY <2>3, <2>4
<1>3. ASSUME NEW p \in Procesos, CaeCliente(p) PROVE Tipos'
  <2>1. buzon' \in [Procesos -> Seq(Codigos)]
    BY <1>3 DEF CaeCliente, TypeOK
  <2>2. pedido' \in [Procesos -> EstadosCliente]
    BY <1>3 DEF CaeCliente, TypeOK, EstadosCliente
  <2>3. TypeOK'
    BY <1>3, <2>1, <2>2 DEF CaeCliente, TypeOK, colas, hilos, medio
  <2>4. HilosConsistentes'
    BY <1>3 DEF CaeCliente, HilosConsistentes, colas, hilos, medio
  <2>. QED  BY <2>3, <2>4
<1>4. CASE LargoPlazoSaca
  <2>1. nuevo' \in Procesos \cup {Nadie}
    BY <1>4 DEF LargoPlazoSaca, TypeOK, NuncaSacaDeVacia
  <2>2. procesosNew' \in Seq(Procesos)
    BY <1>4 DEF LargoPlazoSaca, TypeOK, NuncaSacaDeVacia
  <2>3. posix' \in [NombresPosix -> Nat]
    BY <1>4, <1>p, <1>n, PosixCambia, Zenon DEF LargoPlazoSaca, TypeOK
  <2>4. TypeOK'
    BY <1>4, <2>1, <2>2, <2>3 DEF LargoPlazoSaca, TypeOK, hilos, clientes
  <2>5. HilosConsistentes'
    BY <1>4 DEF LargoPlazoSaca, HilosConsistentes, hilos, clientes
  <2>. QED  BY <2>4, <2>5
<1>5. CASE LargoPlazoAgrega
  <2>1. nuevo' \in Procesos \cup {Nadie}
    BY <1>5 DEF LargoPlazoAgrega, TypeOK
  <2>2. procesosReady' \in Seq(Procesos)
    BY <1>5 DEF LargoPlazoAgrega, TypeOK
  <2>3. posix' \in [NombresPosix -> Nat]
    BY <1>5, <1>p, <1>n, PosixCambia, Zenon DEF LargoPlazoAgrega, TypeOK
  <2>4. TypeOK'
    BY <1>5, <2>1, <2>2, <2>3 DEF LargoPlazoAgrega, TypeOK, hilos, clientes
  <2>5. HilosConsistentes'
    BY <1>5 DEF LargoPlazoAgrega, HilosConsistentes, hilos, clientes
  <2>. QED  BY <2>4, <2>5
<1>6. CASE CortoPlazo
  <2>1. posix' \in [NombresPosix -> Nat]
    BY <1>6, <1>p, <1>n, PosixCambia, Zenon DEF CortoPlazo, TypeOK
  <2>2. TypeOK'
    BY <1>6, <2>1 DEF CortoPlazo, TypeOK, colas, hilos, medio, clientes
  <2>3. HilosConsistentes'
    BY <1>6 DEF CortoPlazo, HilosConsistentes, colas, hilos, medio, clientes
  <2>. QED  BY <2>2, <2>3
<1>7. ASSUME NEW c \in CPUs, TomaDeReady(c) PROVE Tipos'
  <2>1. procesosReady' \in Seq(Procesos)
    BY <1>7, RemoveAtEsLista DEF TomaDeReady, PrimeroTrasOrdenar, TypeOK
  <2>2. ejecutando' \in [CPUs -> Procesos \cup {Nadie}]
    BY <1>7 DEF TomaDeReady, PrimeroTrasOrdenar, TypeOK
  <2>3. fase' \in [Hilos -> FasesCPU \cup FasesLiberar]
    BY <1>7 DEF TomaDeReady, TypeOK, FasesCPU, Hilos
  <2>4. posix' \in [NombresPosix -> Nat]
    BY <1>7, <1>p, <1>n, PosixCambia, Zenon DEF TomaDeReady, TypeOK
  <2>5. TypeOK'
    BY <1>7, <2>1, <2>2, <2>3, <2>4 DEF TomaDeReady, TypeOK, medio, clientes
  <2>6. HilosConsistentes'
    <3>1. PICK i \in 1..Len(procesosReady) :
            ejecutando' = [ejecutando EXCEPT ![c] = procesosReady[i]]
      BY <1>7 DEF TomaDeReady, PrimeroTrasOrdenar
    <3>2. procesosReady[i] \in Procesos
      BY <3>1 DEF TypeOK
    <3>3. /\ fase' = [fase EXCEPT ![c] = "tomado"]
          /\ UNCHANGED <<dispositivo, liberado, fasePMP2, preparado,
                         procesosSuspendedReady>>
      BY <1>7 DEF TomaDeReady, PrimeroTrasOrdenar, medio
    <3>4. \A x \in CPUs : fase'[x] # "espera" => ejecutando'[x] \in Procesos
      BY <3>1, <3>2, <3>3 DEF TypeOK, HilosConsistentes, Hilos
    <3>. QED
      BY <3>3, <3>4, ConstantesOK DEF TypeOK, HilosConsistentes, Hilos, FasesLiberar
  <2>. QED  BY <2>5, <2>6
<1>8. ASSUME NEW c \in CPUs, EntraEnExec(c) PROVE Tipos'
  <2>1. procesosExec' \in Seq(Procesos)
    BY <1>8 DEF EntraEnExec, TypeOK, HilosConsistentes
  <2>2. fase' \in [Hilos -> FasesCPU \cup FasesLiberar]
    BY <1>8 DEF EntraEnExec, TypeOK, FasesCPU, Hilos
  <2>3. TypeOK'
    BY <1>8, <2>1, <2>2 DEF EntraEnExec, TypeOK, medio, clientes
  <2>4. HilosConsistentes'
    BY <1>8, ConstantesOK DEF EntraEnExec, TypeOK, HilosConsistentes, Hilos, FasesCPU,
                FasesLiberar, medio, clientes
  <2>. QED  BY <2>3, <2>4
<1>9. ASSUME NEW c \in CPUs, AvisaInicio(c) PROVE Tipos'
  <2>1. buzon' \in [Procesos -> Seq(Codigos)]
    BY <1>9, EnviarTipo, <1>m DEF AvisaInicio, TypeOK, HilosConsistentes
  <2>2. fase' \in [Hilos -> FasesCPU \cup FasesLiberar]
    BY <1>9 DEF AvisaInicio, TypeOK, FasesCPU, Hilos
  <2>3. TypeOK'
    BY <1>9, <2>1, <2>2 DEF AvisaInicio, TypeOK, colas, medio, clientes
  <2>4. HilosConsistentes'
    BY <1>9, ConstantesOK DEF AvisaInicio, TypeOK, HilosConsistentes, Hilos, FasesCPU,
                FasesLiberar, colas, medio, clientes
  <2>. QED  BY <2>3, <2>4
<1>10. ASSUME NEW c \in CPUs, AvisaDesbloqueo(c) PROVE Tipos'
  <2>1. buzon' \in [Procesos -> Seq(Codigos)]
    BY <1>10, EnviarTipo, <1>m DEF AvisaDesbloqueo, TypeOK, HilosConsistentes
  <2>2. vuelveDeBloqueo' \in [Procesos -> Motivos]
    BY <1>10 DEF AvisaDesbloqueo, TypeOK, Motivos
  <2>3. fase' \in [Hilos -> FasesCPU \cup FasesLiberar]
    BY <1>10 DEF AvisaDesbloqueo, TypeOK, FasesCPU, Hilos
  <2>4. TypeOK'
    BY <1>10, <2>1, <2>2, <2>3 DEF AvisaDesbloqueo, TypeOK, colas, medio, clientes
  <2>5. HilosConsistentes'
    BY <1>10, ConstantesOK DEF AvisaDesbloqueo, TypeOK, HilosConsistentes, Hilos, FasesCPU,
                FasesLiberar, colas, medio, clientes
  <2>. QED  BY <2>4, <2>5
<1>11. ASSUME NEW c \in CPUs, AtiendeOtra(c) PROVE Tipos'
  <2>1. pedido' \in [Procesos -> EstadosCliente]
    BY <1>11 DEF AtiendeOtra, TypeOK, Atiende, Llama, Codigos, EstadosCliente
  <2>2. ops' \in [Procesos -> 0..MaxOps]
    BY <1>11, CuentaOpTipo DEF AtiendeOtra, TypeOK
  <2>3. buzon' \in [Procesos -> Seq(Codigos)]
    BY <1>11, EnviarTipo, <1>m DEF AtiendeOtra, Atiende, Llama, TypeOK, HilosConsistentes
  <2>4. fase' \in [Hilos -> FasesCPU \cup FasesLiberar]
    BY <1>11 DEF AtiendeOtra, TypeOK, FasesCPU, Hilos
  <2>5. TypeOK'
    BY <1>11, <2>1, <2>2, <2>3, <2>4 DEF AtiendeOtra, TypeOK, colas, medio, clientes
  <2>6. HilosConsistentes'
    BY <1>11, ConstantesOK DEF AtiendeOtra, TypeOK, HilosConsistentes, Hilos, FasesCPU,
                FasesLiberar, Atiende, Llama, colas, medio, clientes
  <2>. QED  BY <2>5, <2>6
<1>12. ASSUME NEW c \in CPUs, NEW d \in Dispositivos, AtiendeIO(c, d) PROVE Tipos'
  <2>1. pedido' \in [Procesos -> EstadosCliente]
    BY <1>12 DEF AtiendeIO, TypeOK, Atiende, Llama, Codigos, EstadosCliente
  <2>2. ops' \in [Procesos -> 0..MaxOps]
    BY <1>12, CuentaOpTipo DEF AtiendeIO, TypeOK
  <2>3. procesosExec' \in Seq(Procesos)
    BY <1>12, QuitaPorPidEsLista DEF AtiendeIO, TypeOK, HilosConsistentes, Atiende, Llama
  <2>4. vuelveDeBloqueo' \in [Procesos -> Motivos]
    BY <1>12 DEF AtiendeIO, TypeOK, Motivos
  <2>5. dispositivo' \in [CPUs -> Dispositivos \cup {Nadie}]
    BY <1>12 DEF AtiendeIO, TypeOK
  <2>6. fase' \in [Hilos -> FasesCPU \cup FasesLiberar]
    BY <1>12 DEF AtiendeIO, TypeOK, FasesCPU, Hilos
  <2>7. TypeOK'
    BY <1>12, <2>1, <2>2, <2>3, <2>4, <2>5, <2>6 DEF AtiendeIO, TypeOK, medio, clientes
  <2>8. HilosConsistentes'
    BY <1>12, ConstantesOK DEF AtiendeIO, TypeOK, HilosConsistentes, Hilos, FasesCPU,
                FasesLiberar, Atiende, Llama, medio, clientes
  <2>. QED  BY <2>7, <2>8
<1>13. ASSUME NEW c \in CPUs, AgregaADispositivo(c) PROVE Tipos'
  <2>1. listaEspera' \in [Dispositivos -> Seq(Procesos)]
    BY <1>13 DEF AgregaADispositivo, TypeOK, HilosConsistentes
  <2>2. fase' \in [Hilos -> FasesCPU \cup FasesLiberar]
    BY <1>13 DEF AgregaADispositivo, TypeOK, FasesCPU, Hilos
  <2>3. TypeOK'
    BY <1>13, <2>1, <2>2 DEF AgregaADispositivo, TypeOK, colas, medio, clientes
  <2>4. HilosConsistentes'
    BY <1>13, ConstantesOK DEF AgregaADispositivo, TypeOK, HilosConsistentes, Hilos, FasesCPU,
                FasesLiberar, colas, medio, clientes
  <2>. QED  BY <2>3, <2>4
<1>14. ASSUME NEW c \in CPUs, AgregaABlocked(c) PROVE Tipos'
  <2>1. procesosBlocked' \in Seq(Procesos)
    BY <1>14 DEF AgregaABlocked, TypeOK, HilosConsistentes
  <2>2. activador' \in [Dispositivos -> Nat]
    <3>1. dispositivo[c] \in Dispositivos /\ activador \in [Dispositivos -> Nat]
      BY <1>14 DEF AgregaABlocked, TypeOK, HilosConsistentes
    <3>. QED  BY <1>14, <3>1 DEF AgregaABlocked
  <2>3. dispositivo' \in [CPUs -> Dispositivos \cup {Nadie}]
    BY <1>14 DEF AgregaABlocked, TypeOK
  <2>4. fase' \in [Hilos -> FasesCPU \cup FasesLiberar]
    BY <1>14 DEF AgregaABlocked, TypeOK, FasesCPU, Hilos
  <2>5. posix' \in [NombresPosix -> Nat]
    BY <1>14, <1>p, <1>n, PosixCambia, Zenon DEF AgregaABlocked, TypeOK
  <2>6. TypeOK'
    BY <1>14, <2>1, <2>2, <2>3, <2>4, <2>5 DEF AgregaABlocked, TypeOK, medio, clientes
  <2>7. HilosConsistentes'
    BY <1>14, ConstantesOK DEF AgregaABlocked, TypeOK, HilosConsistentes, Hilos, FasesCPU,
                FasesLiberar, medio, clientes
  <2>. QED  BY <2>6, <2>7
<1>15. ASSUME NEW c \in CPUs, CalculaEstimacion(c) PROVE Tipos'
  <2>1. ejecutando' \in [CPUs -> Procesos \cup {Nadie}]
    BY <1>15 DEF CalculaEstimacion, TypeOK
  <2>2. fase' \in [Hilos -> FasesCPU \cup FasesLiberar]
    BY <1>15 DEF CalculaEstimacion, TypeOK, FasesCPU, Hilos
  <2>3. posix' \in [NombresPosix -> Nat]
    BY <1>15, <1>p, <1>n, PosixCambia, Zenon DEF CalculaEstimacion, TypeOK
  <2>4. TypeOK'
    BY <1>15, <2>1, <2>2, <2>3 DEF CalculaEstimacion, TypeOK, colas, medio, clientes
  <2>5. HilosConsistentes'
    BY <1>15, ConstantesOK DEF CalculaEstimacion, TypeOK, HilosConsistentes, Hilos, FasesCPU,
                FasesLiberar, colas, medio, clientes
  <2>. QED  BY <2>4, <2>5
<1>16. ASSUME NEW c \in CPUs, AtiendeCerrar(c) PROVE Tipos'
  <2>1. pedido' \in [Procesos -> EstadosCliente]
    BY <1>16 DEF AtiendeCerrar, TypeOK, Atiende, Llama, Codigos, EstadosCliente
  <2>2. procesosExec' \in Seq(Procesos)
    BY <1>16, QuitaPorPidEsLista DEF AtiendeCerrar, TypeOK, HilosConsistentes, Atiende, Llama
  <2>3. buzon' \in [Procesos -> Seq(Codigos)]
    BY <1>16, EnviarTipo, <1>m DEF AtiendeCerrar, Atiende, Llama, TypeOK, HilosConsistentes
  <2>4. liberados' \subseteq Procesos
    BY <1>16 DEF AtiendeCerrar, TypeOK, HilosConsistentes, Atiende, Llama
  <2>5. ejecutando' \in [CPUs -> Procesos \cup {Nadie}]
    BY <1>16 DEF AtiendeCerrar, TypeOK
  <2>6. fase' \in [Hilos -> FasesCPU \cup FasesLiberar]
    BY <1>16 DEF AtiendeCerrar, TypeOK, FasesCPU, Hilos
  <2>7. posix' \in [NombresPosix -> Nat]
    BY <1>16, <1>p, <1>n, PosixCambia, Zenon DEF AtiendeCerrar, TypeOK
  <2>8. TypeOK'
    BY <1>16, <2>1, <2>2, <2>3, <2>4, <2>5, <2>6, <2>7 DEF AtiendeCerrar, TypeOK, medio, clientes
  <2>9. HilosConsistentes'
    BY <1>16, ConstantesOK DEF AtiendeCerrar, TypeOK, HilosConsistentes, Hilos, FasesCPU,
                FasesLiberar, Atiende, Llama, medio, clientes
  <2>. QED  BY <2>8, <2>9
<1>17. ASSUME NEW d \in Dispositivos, TerminaIO(d) PROVE Tipos'
  <2>1. activador' \in [Dispositivos -> Nat]
    BY <1>17 DEF TerminaIO, TypeOK
  <2>2. listaEspera' \in [Dispositivos -> Seq(Procesos)]
    BY <1>17 DEF TerminaIO, TypeOK, NuncaSacaDeVacia
  <2>3. liberado' \in [Hilos -> Procesos \cup {Nadie}]
    BY <1>17 DEF TerminaIO, TypeOK, NuncaSacaDeVacia, Hilos
  <2>4. fase' \in [Hilos -> FasesCPU \cup FasesLiberar]
    BY <1>17 DEF TerminaIO, TypeOK, FasesLiberar, Hilos
  <2>5. TypeOK'
    BY <1>17, <2>1, <2>2, <2>3, <2>4 DEF TerminaIO, TypeOK, colas, medio, clientes
  <2>6. HilosConsistentes'
    <3>1. /\ fase' = [fase EXCEPT ![d] = "miraSuspendidos"]
          /\ liberado' = [liberado EXCEPT ![d] = Head(listaEspera[d])]
          /\ UNCHANGED <<ejecutando, dispositivo, fasePMP2, preparado,
                         procesosSuspendedReady>>
      BY <1>17 DEF TerminaIO, colas, medio
    <3>2. Head(listaEspera[d]) \in Procesos
      BY <1>17 DEF TerminaIO, TypeOK, NuncaSacaDeVacia
    <3>3. d \in Hilos /\ d \notin CPUs
      BY ConstantesOK DEF Hilos
    <3>. QED
      BY <3>1, <3>2, <3>3 DEF TypeOK, HilosConsistentes, Hilos, FasesLiberar
  <2>. QED  BY <2>5, <2>6
<1>18. ASSUME NEW t \in Hilos, MiraSuspendidos(t) PROVE Tipos'
  <2>1. procesosSuspendedBlock' \in Seq(Procesos)
    BY <1>18, QuitaPorPidEsLista DEF MiraSuspendidos, TypeOK, HilosConsistentes, FasesLiberar
  <2>2. fase' \in [Hilos -> FasesCPU \cup FasesLiberar]
    BY <1>18 DEF MiraSuspendidos, TypeOK, FasesLiberar
  <2>3. TypeOK'
    BY <1>18, <2>1, <2>2 DEF MiraSuspendidos, TypeOK, medio, clientes
  <2>4. HilosConsistentes'
    BY <1>18, ConstantesOK DEF MiraSuspendidos, TypeOK, HilosConsistentes, Hilos, FasesCPU,
                FasesLiberar, medio, clientes
  <2>. QED  BY <2>3, <2>4
<1>19. ASSUME NEW t \in Hilos, ASuspendedReady(t) PROVE Tipos'
  <2>1. procesosSuspendedReady' \in Seq(Procesos)
    BY <1>19 DEF ASuspendedReady, TypeOK, HilosConsistentes, FasesLiberar
  <2>2. liberado' \in [Hilos -> Procesos \cup {Nadie}]
    BY <1>19 DEF ASuspendedReady, TypeOK, TrasLiberar
  <2>3. fase' \in [Hilos -> FasesCPU \cup FasesLiberar]
    BY <1>19 DEF ASuspendedReady, TypeOK, TrasLiberar, FasesCPU
  <2>4. posix' \in [NombresPosix -> Nat]
    BY <1>19, <1>p, <1>n, PosixCambia, Zenon DEF ASuspendedReady, TypeOK
  <2>5. TypeOK'
    BY <1>19, <2>1, <2>2, <2>3, <2>4 DEF ASuspendedReady, TypeOK, medio, clientes
  <2>6. HilosConsistentes'
    <3>1. procesosSuspendedReady' # <<>>
      <4>1. liberado[t] \in Procesos /\ procesosSuspendedReady \in Seq(Procesos)
        BY <1>19 DEF ASuspendedReady, TypeOK, HilosConsistentes, FasesLiberar
      <4>2. procesosSuspendedReady' = Append(procesosSuspendedReady, liberado[t])
        BY <1>19 DEF ASuspendedReady
      <4>. QED  BY <4>1, <4>2
    <3>2. /\ TrasLiberar(t)
          /\ UNCHANGED <<ejecutando, dispositivo, fasePMP2, preparado>>
      BY <1>19 DEF ASuspendedReady, medio
    <3>. QED
      BY <1>19, <3>1, <3>2, ConstantesOK
      DEF ASuspendedReady, TrasLiberar, TypeOK, HilosConsistentes, Hilos, FasesLiberar
  <2>. QED  BY <2>5, <2>6
<1>20. ASSUME NEW t \in Hilos, QuitaDeBlocked(t) PROVE Tipos'
  <2>1. procesosBlocked' \in Seq(Procesos)
    BY <1>20, QuitaPorPidEsLista DEF QuitaDeBlocked, TypeOK, HilosConsistentes, FasesLiberar
  <2>2. fase' \in [Hilos -> FasesCPU \cup FasesLiberar]
    BY <1>20 DEF QuitaDeBlocked, TypeOK, FasesLiberar
  <2>3. TypeOK'
    BY <1>20, <2>1, <2>2 DEF QuitaDeBlocked, TypeOK, medio, clientes
  <2>4. HilosConsistentes'
    BY <1>20, ConstantesOK DEF QuitaDeBlocked, TypeOK, HilosConsistentes, Hilos, FasesCPU,
                FasesLiberar, medio, clientes
  <2>. QED  BY <2>3, <2>4
<1>21. ASSUME NEW t \in Hilos, AReady(t) PROVE Tipos'
  <2>1. procesosReady' \in Seq(Procesos)
    BY <1>21 DEF AReady, TypeOK, HilosConsistentes, FasesLiberar
  <2>2. liberado' \in [Hilos -> Procesos \cup {Nadie}]
    BY <1>21 DEF AReady, TypeOK, TrasLiberar
  <2>3. fase' \in [Hilos -> FasesCPU \cup FasesLiberar]
    BY <1>21 DEF AReady, TypeOK, TrasLiberar, FasesCPU
  <2>4. posix' \in [NombresPosix -> Nat]
    BY <1>21, <1>p, <1>n, PosixCambia, Zenon DEF AReady, TypeOK
  <2>5. TypeOK'
    BY <1>21, <2>1, <2>2, <2>3, <2>4 DEF AReady, TypeOK, medio, clientes
  <2>6. HilosConsistentes'
    BY <1>21, ConstantesOK DEF AReady, TypeOK, HilosConsistentes, Hilos, FasesCPU,
                FasesLiberar, TrasLiberar, medio, clientes
  <2>. QED  BY <2>5, <2>6
<1>22. CASE Suspende
  <2>1. procesosBlocked' \in Seq(Procesos)
    BY <1>22, FrontEsLista DEF Suspende, TypeOK, HayQueSuspender
  <2>2. procesosSuspendedBlock' \in Seq(Procesos)
    BY <1>22, FrontEsLista, SuspendedBlockTipo DEF Suspende, TypeOK, HayQueSuspender
  <2>3. perdidos' \in Nat
    BY <1>22, FrontEsLista, SuspendedBlockTipo DEF Suspende, TypeOK, HayQueSuspender
  <2>4. posix' \in [NombresPosix -> Nat]
    BY <1>22, <1>p, <1>n, PosixCambia, Zenon DEF Suspende, TypeOK
  <2>5. TypeOK'
    BY <1>22, <2>1, <2>2, <2>3, <2>4 DEF Suspende, TypeOK, hilos, medio, clientes
  <2>6. HilosConsistentes'
    BY <1>22 DEF Suspende, HilosConsistentes, hilos, medio, clientes
  <2>. QED  BY <2>5, <2>6
<1>23. CASE NoSuspende
  <2>1. posix' \in [NombresPosix -> Nat]
    BY <1>23, <1>p, <1>n, PosixCambia, Zenon DEF NoSuspende, TypeOK
  <2>2. TypeOK'
    BY <1>23, <2>1 DEF NoSuspende, TypeOK, colas, hilos, medio, clientes
  <2>3. HilosConsistentes'
    BY <1>23 DEF NoSuspende, HilosConsistentes, colas, hilos, medio, clientes
  <2>. QED  BY <2>2, <2>3
<1>24. CASE DecideAdmision
  <2>1. fasePMP2' \in {"espera", "saca", "agrega"}
    BY <1>24 DEF DecideAdmision, TypeOK
  <2>2. posix' \in [NombresPosix -> Nat]
    <3>1. /\ posix["procesoNecesitaEntrarEnReady"] - 1 \in Nat
          /\ posix["nivelMultiProgramacionGeneral"] - 1 \in Nat
          /\ posix["nivelMultiProgramacionBajaPrioridad"] + 1 \in Nat
      BY <1>24, <1>p, <1>n DEF DecideAdmision
    <3>2. \/ posix' = [posix EXCEPT
               !["procesoNecesitaEntrarEnReady"] = @ - 1,
               !["nivelMultiProgramacionGeneral"] = @ - 1,
               !["nivelMultiProgramacionBajaPrioridad"] = @ + 1]
          \/ posix' = [posix EXCEPT
               !["procesoNecesitaEntrarEnReady"] = @ - 1,
               !["nivelMultiProgramacionGeneral"] = @ - 1]
      BY <1>24, Zenon DEF DecideAdmision
    <3>3. posix \in [NombresPosix -> Nat]
      BY DEF TypeOK
    <3>4. CASE posix' = [posix EXCEPT
               !["procesoNecesitaEntrarEnReady"] = @ - 1,
               !["nivelMultiProgramacionGeneral"] = @ - 1,
               !["nivelMultiProgramacionBajaPrioridad"] = @ + 1]
      BY <3>1, <3>3, <3>4, <1>n, PosixCambia, Zenon
    <3>5. CASE posix' = [posix EXCEPT
               !["procesoNecesitaEntrarEnReady"] = @ - 1,
               !["nivelMultiProgramacionGeneral"] = @ - 1]
      BY <3>1, <3>3, <3>5, <1>n, PosixCambia, Zenon
    <3>. QED  BY <3>2, <3>4, <3>5
  <2>3. TypeOK'
    BY <1>24, <2>1, <2>2 DEF DecideAdmision, TypeOK, colas, hilos, clientes
  <2>4. HilosConsistentes'
    BY <1>24, ConstantesOK DEF DecideAdmision, TypeOK, HilosConsistentes, Hilos, FasesCPU,
                FasesLiberar, colas, hilos, clientes
  <2>. QED  BY <2>3, <2>4
<1>25. CASE SacaDeSuspendedReady
  <2>1. preparado' \in Procesos \cup {Nadie}
    BY <1>25 DEF SacaDeSuspendedReady, TypeOK, NuncaSacaDeVacia
  <2>2. procesosSuspendedReady' \in Seq(Procesos)
    BY <1>25 DEF SacaDeSuspendedReady, TypeOK, NuncaSacaDeVacia
  <2>3. fasePMP2' \in {"espera", "saca", "agrega"}
    BY <1>25 DEF SacaDeSuspendedReady, TypeOK
  <2>4. TypeOK'
    BY <1>25, <2>1, <2>2, <2>3 DEF SacaDeSuspendedReady, TypeOK, hilos, clientes
  <2>5. HilosConsistentes'
    BY <1>25, ConstantesOK DEF SacaDeSuspendedReady, TypeOK, HilosConsistentes, Hilos, FasesCPU,
                FasesLiberar, NuncaSacaDeVacia, hilos, clientes
  <2>. QED  BY <2>4, <2>5
<1>26. CASE ReactivaSuspendido
  <2>1. procesosReady' \in Seq(Procesos)
    BY <1>26 DEF ReactivaSuspendido, TypeOK, HilosConsistentes
  <2>2. preparado' \in Procesos \cup {Nadie}
    BY <1>26 DEF ReactivaSuspendido, TypeOK
  <2>3. fasePMP2' \in {"espera", "saca", "agrega"}
    BY <1>26 DEF ReactivaSuspendido, TypeOK
  <2>4. posix' \in [NombresPosix -> Nat]
    BY <1>26, <1>p, <1>n, PosixCambia, Zenon DEF ReactivaSuspendido, TypeOK
  <2>5. TypeOK'
    BY <1>26, <2>1, <2>2, <2>3, <2>4 DEF ReactivaSuspendido, TypeOK, hilos, clientes
  <2>6. HilosConsistentes'
    BY <1>26, ConstantesOK DEF ReactivaSuspendido, TypeOK, HilosConsistentes, Hilos, FasesCPU,
                FasesLiberar, hilos, clientes
  <2>. QED  BY <2>5, <2>6
<1>27. CASE UNCHANGED vars
  BY <1>27 DEF vars, TypeOK, HilosConsistentes
<1>. QED
  BY <1>1, <1>2, <1>3, <1>4, <1>5, <1>6, <1>7, <1>8, <1>9, <1>10, <1>11, <1>12, <1>13, <1>14, <1>15, <1>16, <1>17, <1>18, <1>19, <1>20, <1>21, <1>22, <1>23, <1>24, <1>25, <1>26, <1>27
  DEF Next, PasoCPU, PasoLiberar, PasoPMP2, Reposo
-----------------------------------------------------------------------------
(* Permits.                                                                *)

\* The busy CPU threads can be counted.
LEMMA OcupadasFinitas ==
  /\ IsFiniteSet(Ocupadas) /\ Cardinality(Ocupadas) \in Nat
  /\ Cardinality(CPUs) \in Nat
  BY ConstantesOK, FS_Subset, FS_CardinalityType DEF Ocupadas

\* A CPU thread that leaves its wait is one more busy thread.
LEMMA OcupaUna ==
  ASSUME fase \in [Hilos -> FasesCPU \cup FasesLiberar], NEW c \in CPUs,
         fase[c] = "espera", NEW x, x # "espera",
         fase' = [fase EXCEPT ![c] = x]
  PROVE  Cardinality(Ocupadas') = Cardinality(Ocupadas) + 1
<1>1. Ocupadas' = Ocupadas \cup {c} /\ c \notin Ocupadas
  BY DEF Ocupadas, Hilos
<1>. QED  BY <1>1, OcupadasFinitas, FS_AddElement

\* One that goes back to its wait is one less.
LEMMA DesocupaUna ==
  ASSUME fase \in [Hilos -> FasesCPU \cup FasesLiberar], NEW c \in CPUs,
         fase[c] # "espera", fase' = [fase EXCEPT ![c] = "espera"]
  PROVE  Cardinality(Ocupadas') = Cardinality(Ocupadas) - 1
<1>1. Ocupadas' = Ocupadas \ {c} /\ c \in Ocupadas
  BY DEF Ocupadas, Hilos
<1>. QED  BY <1>1, OcupadasFinitas, FS_RemoveElement

\* Neither a busy thread that moves on nor a device changes their number.
LEMMA MismasOcupadas ==
  ASSUME fase \in [Hilos -> FasesCPU \cup FasesLiberar], NEW t \in Hilos, NEW x,
         t \in CPUs => fase[t] # "espera" /\ x # "espera",
         fase' = [fase EXCEPT ![t] = x]
  PROVE  Cardinality(Ocupadas') = Cardinality(Ocupadas)
<1>1. Ocupadas' = Ocupadas
  BY DEF Ocupadas, Hilos
<1>. QED  BY <1>1

\* The accounts that involve neither devices nor clients.
Permisos == FichasDeAdmision /\ FichasDeReady /\ PermisosDeCPU

\* Every step of a thread keeps the accounts of admission, dispatch and CPUs.
LEMMA PermisosNext == Tipos /\ NuncaSacaDeVacia /\ Permisos /\ [Next]_vars => Permisos'
<1>. SUFFICES ASSUME Tipos, NuncaSacaDeVacia, Permisos
              PROVE  [Next]_vars => Permisos'
  OBVIOUS
<1>t. /\ posix \in [NombresPosix -> Nat]
      /\ procesosNew \in Seq(Procesos) /\ procesosReady \in Seq(Procesos)
      /\ procesosSuspendedReady \in Seq(Procesos)
      /\ fase \in [Hilos -> FasesCPU \cup FasesLiberar]
  BY DEF Tipos, TypeOK
<1>s. /\ posix["hayProcesosNew"] \in Nat
      /\ posix["nivelMultiProgramacionBajaPrioridad"] \in Nat
      /\ posix["hayProcesosReady"] \in Nat
      /\ posix["procesosDisponiblesParaEjecutar"] \in Nat
      /\ posix["nivelMultiprocesamiento"] \in Nat
      /\ posix["procesoNecesitaEntrarEnReady"] \in Nat
  BY <1>t DEF NombresPosix
<1>l. /\ Len(procesosNew) \in Nat /\ Len(procesosReady) \in Nat
      /\ Len(procesosSuspendedReady) \in Nat
  BY <1>t
<1>c. Cardinality(Ocupadas) \in Nat /\ Cardinality(CPUs) \in Nat
  BY OcupadasFinitas
<1>v. FichasDeAdmision /\ FichasDeReady /\ PermisosDeCPU /\ NuncaSacaDeVacia
  BY DEF Permisos
<1>1. ASSUME NEW p \in Procesos, LlegaProceso(p) PROVE Permisos'
  <2>1. /\ posix'["hayProcesosNew"] = posix["hayProcesosNew"] + 1
        /\ posix'["procesoNecesitaEntrarEnReady"] = posix["procesoNecesitaEntrarEnReady"] + 1
        /\ posix'["nivelMultiProgramacionBajaPrioridad"] = posix["nivelMultiProgramacionBajaPrioridad"]
        /\ posix'["hayProcesosReady"] = posix["hayProcesosReady"]
        /\ posix'["procesosDisponiblesParaEjecutar"] = posix["procesosDisponiblesParaEjecutar"]
        /\ posix'["nivelMultiprocesamiento"] = posix["nivelMultiprocesamiento"]
    BY <1>1, <1>t DEF LlegaProceso, NombresPosix
  <2>2. Len(procesosNew') = Len(procesosNew) + 1
    BY <1>1, <1>t, <1>v DEF LlegaProceso, NuncaSacaDeVacia
  <2>3. UNCHANGED <<procesosReady, procesosSuspendedReady, fasePMP2, fase>>
    BY <1>1 DEF LlegaProceso, colas, hilos, medio
  <2>4. Cardinality(Ocupadas') = Cardinality(Ocupadas)
    BY <2>3 DEF Ocupadas
  <2>a. FichasDeAdmision'
    BY <2>1, <2>2, <2>3, <2>4, <1>s, <1>l, <1>v, SMTT(60)
    DEF FichasDeAdmision, Uno
  <2>b. FichasDeReady'
    BY <2>1, <2>2, <2>3, <2>4, <1>s, <1>l, <1>v DEF FichasDeReady
  <2>c. PermisosDeCPU'
    BY <2>1, <2>2, <2>3, <2>4, <1>s, <1>c, <1>v DEF PermisosDeCPU
  <2>. QED  BY <2>a, <2>b, <2>c DEF Permisos
<1>2. ASSUME NEW p \in Procesos, RecibeRespuesta(p) PROVE Permisos'
  BY <1>2 DEF RecibeRespuesta, Permisos, FichasDeAdmision, FichasDeReady, PermisosDeCPU,
               Ocupadas, colas, hilos, medio
<1>3. ASSUME NEW p \in Procesos, CaeCliente(p) PROVE Permisos'
  BY <1>3 DEF CaeCliente, Permisos, FichasDeAdmision, FichasDeReady, PermisosDeCPU,
               Ocupadas, colas, hilos, medio
<1>4. CASE LargoPlazoSaca
  <2>1. /\ posix'["hayProcesosNew"] = posix["hayProcesosNew"] - 1
        /\ posix'["nivelMultiProgramacionBajaPrioridad"] = posix["nivelMultiProgramacionBajaPrioridad"] - 1
        /\ posix'["hayProcesosReady"] = posix["hayProcesosReady"]
        /\ posix'["procesosDisponiblesParaEjecutar"] = posix["procesosDisponiblesParaEjecutar"]
        /\ posix'["nivelMultiprocesamiento"] = posix["nivelMultiprocesamiento"]
        /\ posix'["procesoNecesitaEntrarEnReady"] = posix["procesoNecesitaEntrarEnReady"]
    BY <1>4, <1>t DEF LargoPlazoSaca, NombresPosix
  <2>2. Len(procesosNew') = Len(procesosNew) - 1
    BY <1>4, <1>t, <1>v DEF LargoPlazoSaca, NuncaSacaDeVacia
  <2>3. UNCHANGED <<procesosReady, procesosSuspendedReady, fasePMP2, fase>>
    BY <1>4 DEF LargoPlazoSaca, colas, hilos, medio
  <2>4. Cardinality(Ocupadas') = Cardinality(Ocupadas)
    BY <2>3 DEF Ocupadas
  <2>a. FichasDeAdmision'
    BY <2>1, <2>2, <2>3, <2>4, <1>s, <1>l, <1>v, SMTT(60)
    DEF FichasDeAdmision, Uno
  <2>b. FichasDeReady'
    BY <2>1, <2>2, <2>3, <2>4, <1>s, <1>l, <1>v DEF FichasDeReady
  <2>c. PermisosDeCPU'
    BY <2>1, <2>2, <2>3, <2>4, <1>s, <1>c, <1>v DEF PermisosDeCPU
  <2>. QED  BY <2>a, <2>b, <2>c DEF Permisos
<1>5. CASE LargoPlazoAgrega
  <2>1. /\ posix'["hayProcesosReady"] = posix["hayProcesosReady"] + 1
        /\ posix'["hayProcesosNew"] = posix["hayProcesosNew"]
        /\ posix'["nivelMultiProgramacionBajaPrioridad"] = posix["nivelMultiProgramacionBajaPrioridad"]
        /\ posix'["procesosDisponiblesParaEjecutar"] = posix["procesosDisponiblesParaEjecutar"]
        /\ posix'["nivelMultiprocesamiento"] = posix["nivelMultiprocesamiento"]
        /\ posix'["procesoNecesitaEntrarEnReady"] = posix["procesoNecesitaEntrarEnReady"]
    BY <1>5, <1>t DEF LargoPlazoAgrega, NombresPosix
  <2>2. Len(procesosReady') = Len(procesosReady) + 1
    BY <1>5, <1>t, <1>v DEF LargoPlazoAgrega, NuncaSacaDeVacia
  <2>3. UNCHANGED <<procesosNew, procesosSuspendedReady, fasePMP2, fase>>
    BY <1>5 DEF LargoPlazoAgrega, colas, hilos, medio
  <2>4. Cardinality(Ocupadas') = Cardinality(Ocupadas)
    BY <2>3 DEF Ocupadas
  <2>a. FichasDeAdmision'
    BY <2>1, <2>2, <2>3, <2>4, <1>s, <1>l, <1>v
    DEF FichasDeAdmision, Uno
  <2>b. FichasDeReady'
    BY <2>1, <2>2, <2>3, <2>4, <1>s, <1>l, <1>v DEF FichasDeReady
  <2>c. PermisosDeCPU'
    BY <2>1, <2>2, <2>3, <2>4, <1>s, <1>c, <1>v DEF PermisosDeCPU
  <2>. QED  BY <2>a, <2>b, <2>c DEF Permisos
<1>6. CASE CortoPlazo
  <2>1. /\ posix'["hayProcesosReady"] = posix["hayProcesosReady"] - 1
        /\ posix'["procesosDisponiblesParaEjecutar"] = posix["procesosDisponiblesParaEjecutar"] + 1
        /\ posix'["nivelMultiprocesamiento"] = posix["nivelMultiprocesamiento"] - 1
        /\ posix'["hayProcesosNew"] = posix["hayProcesosNew"]
        /\ posix'["nivelMultiProgramacionBajaPrioridad"] = posix["nivelMultiProgramacionBajaPrioridad"]
        /\ posix'["procesoNecesitaEntrarEnReady"] = posix["procesoNecesitaEntrarEnReady"]
    BY <1>6, <1>t DEF CortoPlazo, NombresPosix
  <2>2. UNCHANGED <<procesosNew, procesosReady, procesosSuspendedReady, fasePMP2, fase>>
    BY <1>6 DEF CortoPlazo, colas, hilos, medio
  <2>3. Cardinality(Ocupadas') = Cardinality(Ocupadas)
    BY <2>2 DEF Ocupadas
  <2>a. FichasDeAdmision'
    BY <2>1, <2>2, <2>3, <1>s, <1>l, <1>v
    DEF FichasDeAdmision, Uno
  <2>b. FichasDeReady'
    BY <2>1, <2>2, <2>3, <1>s, <1>l, <1>v DEF FichasDeReady
  <2>c. PermisosDeCPU'
    BY <2>1, <2>2, <2>3, <1>s, <1>c, <1>v DEF PermisosDeCPU
  <2>. QED  BY <2>a, <2>b, <2>c DEF Permisos
<1>7. ASSUME NEW c \in CPUs, TomaDeReady(c) PROVE Permisos'
  <2>1. /\ posix'["procesosDisponiblesParaEjecutar"] = posix["procesosDisponiblesParaEjecutar"] - 1
        /\ posix'["hayProcesosNew"] = posix["hayProcesosNew"]
        /\ posix'["nivelMultiProgramacionBajaPrioridad"] = posix["nivelMultiProgramacionBajaPrioridad"]
        /\ posix'["hayProcesosReady"] = posix["hayProcesosReady"]
        /\ posix'["nivelMultiprocesamiento"] = posix["nivelMultiprocesamiento"]
        /\ posix'["procesoNecesitaEntrarEnReady"] = posix["procesoNecesitaEntrarEnReady"]
    BY <1>7, <1>t DEF TomaDeReady, NombresPosix
  <2>2. Len(procesosReady') = Len(procesosReady) - 1
    BY <1>7, <1>t, <1>v, RemoveAtEsLista DEF TomaDeReady, PrimeroTrasOrdenar, NuncaSacaDeVacia
  <2>3. UNCHANGED <<procesosNew, procesosSuspendedReady, fasePMP2>>
    BY <1>7 DEF TomaDeReady, colas, hilos, medio
  <2>4. Cardinality(Ocupadas') = Cardinality(Ocupadas) + 1
    BY <1>7, <1>t, OcupaUna, ConstantesOK DEF TomaDeReady, Hilos
  <2>a. FichasDeAdmision'
    BY <2>1, <2>2, <2>3, <2>4, <1>s, <1>l, <1>v
    DEF FichasDeAdmision, Uno
  <2>b. FichasDeReady'
    BY <2>1, <2>2, <1>s, <1>l, <1>v DEF FichasDeReady
  <2>c. PermisosDeCPU'
    BY <2>1, <2>2, <2>3, <2>4, <1>s, <1>c, <1>v DEF PermisosDeCPU
  <2>. QED  BY <2>a, <2>b, <2>c DEF Permisos
<1>8. ASSUME NEW c \in CPUs, EntraEnExec(c) PROVE Permisos'
  <2>1. UNCHANGED posix
    BY <1>8 DEF EntraEnExec
  <2>2. UNCHANGED <<procesosNew, procesosReady, procesosSuspendedReady, fasePMP2>>
    BY <1>8 DEF EntraEnExec, colas, hilos, medio
  <2>3. Cardinality(Ocupadas') = Cardinality(Ocupadas)
    BY <1>8, <1>t, MismasOcupadas, ConstantesOK DEF EntraEnExec, Hilos
  <2>a. FichasDeAdmision'
    BY <2>1, <2>2, <2>3, <1>s, <1>l, <1>v
    DEF FichasDeAdmision, Uno
  <2>b. FichasDeReady'
    BY <2>1, <2>2, <2>3, <1>s, <1>l, <1>v DEF FichasDeReady
  <2>c. PermisosDeCPU'
    BY <2>1, <2>2, <2>3, <1>s, <1>c, <1>v DEF PermisosDeCPU
  <2>. QED  BY <2>a, <2>b, <2>c DEF Permisos
<1>9. ASSUME NEW c \in CPUs, AvisaInicio(c) PROVE Permisos'
  <2>1. UNCHANGED posix
    BY <1>9 DEF AvisaInicio
  <2>2. UNCHANGED <<procesosNew, procesosReady, procesosSuspendedReady, fasePMP2>>
    BY <1>9 DEF AvisaInicio, colas, hilos, medio
  <2>3. Cardinality(Ocupadas') = Cardinality(Ocupadas)
    BY <1>9, <1>t, MismasOcupadas, ConstantesOK DEF AvisaInicio, Hilos
  <2>a. FichasDeAdmision'
    BY <2>1, <2>2, <2>3, <1>s, <1>l, <1>v
    DEF FichasDeAdmision, Uno
  <2>b. FichasDeReady'
    BY <2>1, <2>2, <2>3, <1>s, <1>l, <1>v DEF FichasDeReady
  <2>c. PermisosDeCPU'
    BY <2>1, <2>2, <2>3, <1>s, <1>c, <1>v DEF PermisosDeCPU
  <2>. QED  BY <2>a, <2>b, <2>c DEF Permisos
<1>10. ASSUME NEW c \in CPUs, AvisaDesbloqueo(c) PROVE Permisos'
  <2>1. UNCHANGED posix
    BY <1>10 DEF AvisaDesbloqueo
  <2>2. UNCHANGED <<procesosNew, procesosReady, procesosSuspendedReady, fasePMP2>>
    BY <1>10 DEF AvisaDesbloqueo, colas, hilos, medio
  <2>3. Cardinality(Ocupadas') = Cardinality(Ocupadas)
    BY <1>10, <1>t, MismasOcupadas, ConstantesOK DEF AvisaDesbloqueo, Hilos
  <2>a. FichasDeAdmision'
    BY <2>1, <2>2, <2>3, <1>s, <1>l, <1>v
    DEF FichasDeAdmision, Uno
  <2>b. FichasDeReady'
    BY <2>1, <2>2, <2>3, <1>s, <1>l, <1>v DEF FichasDeReady
  <2>c. PermisosDeCPU'
    BY <2>1, <2>2, <2>3, <1>s, <1>c, <1>v DEF PermisosDeCPU
  <2>. QED  BY <2>a, <2>b, <2>c DEF Permisos
<1>11. ASSUME NEW c \in CPUs, AtiendeOtra(c) PROVE Permisos'
  <2>1. UNCHANGED posix
    BY <1>11 DEF AtiendeOtra
  <2>2. UNCHANGED <<procesosNew, procesosReady, procesosSuspendedReady, fasePMP2>>
    BY <1>11 DEF AtiendeOtra, colas, hilos, medio, Atiende, Llama
  <2>3. Cardinality(Ocupadas') = Cardinality(Ocupadas)
    BY <1>11, <1>t, MismasOcupadas, ConstantesOK DEF AtiendeOtra, Hilos, Atiende, Llama
  <2>a. FichasDeAdmision'
    BY <2>1, <2>2, <2>3, <1>s, <1>l, <1>v
    DEF FichasDeAdmision, Uno
  <2>b. FichasDeReady'
    BY <2>1, <2>2, <2>3, <1>s, <1>l, <1>v DEF FichasDeReady
  <2>c. PermisosDeCPU'
    BY <2>1, <2>2, <2>3, <1>s, <1>c, <1>v DEF PermisosDeCPU
  <2>. QED  BY <2>a, <2>b, <2>c DEF Permisos
<1>12. ASSUME NEW c \in CPUs, NEW d \in Dispositivos, AtiendeIO(c, d) PROVE Permisos'
  <2>1. UNCHANGED posix
    BY <1>12 DEF AtiendeIO
  <2>2. UNCHANGED <<procesosNew, procesosReady, procesosSuspendedReady, fasePMP2>>
    BY <1>12 DEF AtiendeIO, colas, hilos, medio, Atiende, Llama
  <2>3. Cardinality(Ocupadas') = Cardinality(Ocupadas)
    BY <1>12, <1>t, MismasOcupadas, ConstantesOK DEF AtiendeIO, Hilos, FasesLiberar, Atiende, Llama
  <2>a. FichasDeAdmision'
    BY <2>1, <2>2, <2>3, <1>s, <1>l, <1>v
    DEF FichasDeAdmision, Uno
  <2>b. FichasDeReady'
    BY <2>1, <2>2, <2>3, <1>s, <1>l, <1>v DEF FichasDeReady
  <2>c. PermisosDeCPU'
    BY <2>1, <2>2, <2>3, <1>s, <1>c, <1>v DEF PermisosDeCPU
  <2>. QED  BY <2>a, <2>b, <2>c DEF Permisos
<1>13. ASSUME NEW c \in CPUs, AgregaADispositivo(c) PROVE Permisos'
  <2>1. UNCHANGED posix
    BY <1>13 DEF AgregaADispositivo
  <2>2. UNCHANGED <<procesosNew, procesosReady, procesosSuspendedReady, fasePMP2>>
    BY <1>13 DEF AgregaADispositivo, colas, hilos, medio
  <2>3. Cardinality(Ocupadas') = Cardinality(Ocupadas)
    BY <1>13, <1>t, MismasOcupadas, ConstantesOK DEF AgregaADispositivo, Hilos
  <2>a. FichasDeAdmision'
    BY <2>1, <2>2, <2>3, <1>s, <1>l, <1>v
    DEF FichasDeAdmision, Uno
  <2>b. FichasDeReady'
    BY <2>1, <2>2, <2>3, <1>s, <1>l, <1>v DEF FichasDeReady
  <2>c. PermisosDeCPU'
    BY <2>1, <2>2, <2>3, <1>s, <1>c, <1>v DEF PermisosDeCPU
  <2>. QED  BY <2>a, <2>b, <2>c DEF Permisos
<1>14. ASSUME NEW c \in CPUs, AgregaABlocked(c) PROVE Permisos'
  <2>1. /\ posix'["hayProcesosNew"] = posix["hayProcesosNew"]
        /\ posix'["nivelMultiProgramacionBajaPrioridad"] = posix["nivelMultiProgramacionBajaPrioridad"]
        /\ posix'["hayProcesosReady"] = posix["hayProcesosReady"]
        /\ posix'["procesosDisponiblesParaEjecutar"] = posix["procesosDisponiblesParaEjecutar"]
        /\ posix'["nivelMultiprocesamiento"] = posix["nivelMultiprocesamiento"]
        /\ posix'["procesoNecesitaEntrarEnReady"] = posix["procesoNecesitaEntrarEnReady"]
    BY <1>14, <1>t DEF AgregaABlocked, NombresPosix
  <2>2. UNCHANGED <<procesosNew, procesosReady, procesosSuspendedReady, fasePMP2>>
    BY <1>14 DEF AgregaABlocked, colas, hilos, medio
  <2>3. Cardinality(Ocupadas') = Cardinality(Ocupadas)
    BY <1>14, <1>t, MismasOcupadas, ConstantesOK DEF AgregaABlocked, Hilos
  <2>a. FichasDeAdmision'
    BY <2>1, <2>2, <2>3, <1>s, <1>l, <1>v
    DEF FichasDeAdmision, Uno
  <2>b. FichasDeReady'
    BY <2>1, <2>2, <2>3, <1>s, <1>l, <1>v DEF FichasDeReady
  <2>c. PermisosDeCPU'
    BY <2>1, <2>2, <2>3, <1>s, <1>c, <1>v DEF PermisosDeCPU
  <2>. QED  BY <2>a, <2>b, <2>c DEF Permisos
<1>15. ASSUME NEW c \in CPUs, CalculaEstimacion(c) PROVE Permisos'
  <2>1. /\ posix'["nivelMultiprocesamiento"] = posix["nivelMultiprocesamiento"] + 1
        /\ posix'["hayProcesosNew"] = posix["hayProcesosNew"]
        /\ posix'["nivelMultiProgramacionBajaPrioridad"] = posix["nivelMultiProgramacionBajaPrioridad"]
        /\ posix'["hayProcesosReady"] = posix["hayProcesosReady"]
        /\ posix'["procesosDisponiblesParaEjecutar"] = posix["procesosDisponiblesParaEjecutar"]
        /\ posix'["procesoNecesitaEntrarEnReady"] = posix["procesoNecesitaEntrarEnReady"]
    BY <1>15, <1>t DEF CalculaEstimacion, NombresPosix
  <2>2. UNCHANGED <<procesosNew, procesosReady, procesosSuspendedReady, fasePMP2>>
    BY <1>15 DEF CalculaEstimacion, colas, hilos, medio
  <2>3. Cardinality(Ocupadas') = Cardinality(Ocupadas) - 1
    BY <1>15, <1>t, DesocupaUna, ConstantesOK DEF CalculaEstimacion, Hilos
  <2>a. FichasDeAdmision'
    BY <2>1, <2>2, <2>3, <1>s, <1>l, <1>v
    DEF FichasDeAdmision, Uno
  <2>b. FichasDeReady'
    BY <2>1, <2>2, <2>3, <1>s, <1>l, <1>v DEF FichasDeReady
  <2>c. PermisosDeCPU'
    BY <2>1, <2>2, <2>3, <1>s, <1>c, <1>v DEF PermisosDeCPU
  <2>. QED  BY <2>a, <2>b, <2>c DEF Permisos
<1>16. ASSUME NEW c \in CPUs, AtiendeCerrar(c) PROVE Permisos'
  <2>1. /\ posix'["nivelMultiprocesamiento"] = posix["nivelMultiprocesamiento"] + 1
        /\ posix'["hayProcesosNew"] = posix["hayProcesosNew"]
        /\ posix'["nivelMultiProgramacionBajaPrioridad"] = posix["nivelMultiProgramacionBajaPrioridad"]
        /\ posix'["hayProcesosReady"] = posix["hayProcesosReady"]
        /\ posix'["procesosDisponiblesParaEjecutar"] = posix["procesosDisponiblesParaEjecutar"]
        /\ posix'["procesoNecesitaEntrarEnReady"] = posix["procesoNecesitaEntrarEnReady"]
    BY <1>16, <1>t DEF AtiendeCerrar, NombresPosix
  <2>2. UNCHANGED <<procesosNew, procesosReady, procesosSuspendedReady, fasePMP2>>
    BY <1>16 DEF AtiendeCerrar, colas, hilos, medio, Atiende, Llama
  <2>3. Cardinality(Ocupadas') = Cardinality(Ocupadas) - 1
    BY <1>16, <1>t, DesocupaUna, ConstantesOK DEF AtiendeCerrar, Hilos, Atiende, Llama
  <2>a. FichasDeAdmision'
    BY <2>1, <2>2, <2>3, <1>s, <1>l, <1>v
    DEF FichasDeAdmision, Uno
  <2>b. FichasDeReady'
    BY <2>1, <2>2, <2>3, <1>s, <1>l, <1>v DEF FichasDeReady
  <2>c. PermisosDeCPU'
    BY <2>1, <2>2, <2>3, <1>s, <1>c, <1>v DEF PermisosDeCPU
  <2>. QED  BY <2>a, <2>b, <2>c DEF Permisos
<1>17. ASSUME NEW d \in Dispositivos, TerminaIO(d) PROVE Permisos'
  <2>1. UNCHANGED posix
    BY <1>17 DEF TerminaIO
  <2>2. UNCHANGED <<procesosNew, procesosReady, procesosSuspendedReady, fasePMP2>>
    BY <1>17 DEF TerminaIO, colas, hilos, medio
  <2>3. Cardinality(Ocupadas') = Cardinality(Ocupadas)
    BY <1>17, <1>t, MismasOcupadas, ConstantesOK DEF TerminaIO, Hilos, FasesLiberar
  <2>a. FichasDeAdmision'
    BY <2>1, <2>2, <2>3, <1>s, <1>l, <1>v
    DEF FichasDeAdmision, Uno
  <2>b. FichasDeReady'
    BY <2>1, <2>2, <2>3, <1>s, <1>l, <1>v DEF FichasDeReady
  <2>c. PermisosDeCPU'
    BY <2>1, <2>2, <2>3, <1>s, <1>c, <1>v DEF PermisosDeCPU
  <2>. QED  BY <2>a, <2>b, <2>c DEF Permisos
<1>18. ASSUME NEW t \in Hilos, MiraSuspendidos(t) PROVE Permisos'
  <2>1. UNCHANGED posix
    BY <1>18 DEF MiraSuspendidos
  <2>2. UNCHANGED <<procesosNew, procesosReady, procesosSuspendedReady, fasePMP2>>
    BY <1>18 DEF MiraSuspendidos, colas, hilos, medio
  <2>3. Cardinality(Ocupadas') = Cardinality(Ocupadas)
    BY <1>18, <1>t, MismasOcupadas, ConstantesOK DEF MiraSuspendidos, Hilos, FasesLiberar
  <2>a. FichasDeAdmision'
    BY <2>1, <2>2, <2>3, <1>s, <1>l, <1>v
    DEF FichasDeAdmision, Uno
  <2>b. FichasDeReady'
    BY <2>1, <2>2, <2>3, <1>s, <1>l, <1>v DEF FichasDeReady
  <2>c. PermisosDeCPU'
    BY <2>1, <2>2, <2>3, <1>s, <1>c, <1>v DEF PermisosDeCPU
  <2>. QED  BY <2>a, <2>b, <2>c DEF Permisos
<1>19. ASSUME NEW t \in Hilos, ASuspendedReady(t) PROVE Permisos'
  <2>1. /\ posix'["procesoNecesitaEntrarEnReady"] = posix["procesoNecesitaEntrarEnReady"] + 1
        /\ posix'["hayProcesosNew"] = posix["hayProcesosNew"]
        /\ posix'["nivelMultiProgramacionBajaPrioridad"] = posix["nivelMultiProgramacionBajaPrioridad"]
        /\ posix'["hayProcesosReady"] = posix["hayProcesosReady"]
        /\ posix'["procesosDisponiblesParaEjecutar"] = posix["procesosDisponiblesParaEjecutar"]
        /\ posix'["nivelMultiprocesamiento"] = posix["nivelMultiprocesamiento"]
    BY <1>19, <1>t DEF ASuspendedReady, NombresPosix
  <2>2. Len(procesosSuspendedReady') = Len(procesosSuspendedReady) + 1
    BY <1>19, <1>t, <1>v DEF ASuspendedReady, NuncaSacaDeVacia
  <2>3. UNCHANGED <<procesosNew, procesosReady, fasePMP2>>
    BY <1>19 DEF ASuspendedReady, colas, hilos, medio, TrasLiberar
  <2>4. Cardinality(Ocupadas') = Cardinality(Ocupadas)
    BY <1>19, <1>t, MismasOcupadas, ConstantesOK DEF ASuspendedReady, Hilos, FasesLiberar, TrasLiberar
  <2>a. FichasDeAdmision'
    BY <2>1, <2>2, <2>3, <2>4, <1>s, <1>l, <1>v
    DEF FichasDeAdmision, Uno
  <2>b. FichasDeReady'
    BY <2>1, <2>2, <2>3, <2>4, <1>s, <1>l, <1>v DEF FichasDeReady
  <2>c. PermisosDeCPU'
    BY <2>1, <2>2, <2>3, <2>4, <1>s, <1>c, <1>v DEF PermisosDeCPU
  <2>. QED  BY <2>a, <2>b, <2>c DEF Permisos
<1>20. ASSUME NEW t \in Hilos, QuitaDeBlocked(t) PROVE Permisos'
  <2>1. UNCHANGED posix
    BY <1>20 DEF QuitaDeBlocked
  <2>2. UNCHANGED <<procesosNew, procesosReady, procesosSuspendedReady, fasePMP2>>
    BY <1>20 DEF QuitaDeBlocked, colas, hilos, medio
  <2>3. Cardinality(Ocupadas') = Cardinality(Ocupadas)
    BY <1>20, <1>t, MismasOcupadas, ConstantesOK DEF QuitaDeBlocked, Hilos, FasesLiberar
  <2>a. FichasDeAdmision'
    BY <2>1, <2>2, <2>3, <1>s, <1>l, <1>v
    DEF FichasDeAdmision, Uno
  <2>b. FichasDeReady'
    BY <2>1, <2>2, <2>3, <1>s, <1>l, <1>v DEF FichasDeReady
  <2>c. PermisosDeCPU'
    BY <2>1, <2>2, <2>3, <1>s, <1>c, <1>v DEF PermisosDeCPU
  <2>. QED  BY <2>a, <2>b, <2>c DEF Permisos
<1>21. ASSUME NEW t \in Hilos, AReady(t) PROVE Permisos'
  <2>1. /\ posix'["hayProcesosReady"] = posix["hayProcesosReady"] + 1
        /\ posix'["hayProcesosNew"] = posix["hayProcesosNew"]
        /\ posix'["nivelMultiProgramacionBajaPrioridad"] = posix["nivelMultiProgramacionBajaPrioridad"]
        /\ posix'["procesosDisponiblesParaEjecutar"] = posix["procesosDisponiblesParaEjecutar"]
        /\ posix'["nivelMultiprocesamiento"] = posix["nivelMultiprocesamiento"]
        /\ posix'["procesoNecesitaEntrarEnReady"] = posix["procesoNecesitaEntrarEnReady"]
    BY <1>21, <1>t DEF AReady, NombresPosix
  <2>2. Len(procesosReady') = Len(procesosReady) + 1
    BY <1>21, <1>t, <1>v DEF AReady, NuncaSacaDeVacia
  <2>3. UNCHANGED <<procesosNew, procesosSuspendedReady, fasePMP2>>
    BY <1>21 DEF AReady, colas, hilos, medio, TrasLiberar
  <2>4. Cardinality(Ocupadas') = Cardinality(Ocupadas)
    BY <1>21, <1>t, MismasOcupadas, ConstantesOK DEF AReady, Hilos, FasesLiberar, TrasLiberar
  <2>a. FichasDeAdmision'
    BY <2>1, <2>2, <2>3, <2>4, <1>s, <1>l, <1>v
    DEF FichasDeAdmision, Uno
  <2>b. FichasDeReady'
    BY <2>1, <2>2, <2>3, <2>4, <1>s, <1>l, <1>v DEF FichasDeReady
  <2>c. PermisosDeCPU'
    BY <2>1, <2>2, <2>3, <2>4, <1>s, <1>c, <1>v DEF PermisosDeCPU
  <2>. QED  BY <2>a, <2>b, <2>c DEF Permisos
<1>22. CASE Suspende
  <2>1. /\ posix'["hayProcesosNew"] = posix["hayProcesosNew"]
        /\ posix'["nivelMultiProgramacionBajaPrioridad"] = posix["nivelMultiProgramacionBajaPrioridad"]
        /\ posix'["hayProcesosReady"] = posix["hayProcesosReady"]
        /\ posix'["procesosDisponiblesParaEjecutar"] = posix["procesosDisponiblesParaEjecutar"]
        /\ posix'["nivelMultiprocesamiento"] = posix["nivelMultiprocesamiento"]
        /\ posix'["procesoNecesitaEntrarEnReady"] = posix["procesoNecesitaEntrarEnReady"]
    BY <1>22, <1>t DEF Suspende, NombresPosix
  <2>2. UNCHANGED <<procesosNew, procesosReady, procesosSuspendedReady, fasePMP2, fase>>
    BY <1>22 DEF Suspende, colas, hilos, medio
  <2>3. Cardinality(Ocupadas') = Cardinality(Ocupadas)
    BY <2>2 DEF Ocupadas
  <2>a. FichasDeAdmision'
    BY <2>1, <2>2, <2>3, <1>s, <1>l, <1>v
    DEF FichasDeAdmision, Uno
  <2>b. FichasDeReady'
    BY <2>1, <2>2, <2>3, <1>s, <1>l, <1>v DEF FichasDeReady
  <2>c. PermisosDeCPU'
    BY <2>1, <2>2, <2>3, <1>s, <1>c, <1>v DEF PermisosDeCPU
  <2>. QED  BY <2>a, <2>b, <2>c DEF Permisos
<1>23. CASE NoSuspende
  <2>1. /\ posix'["hayProcesosNew"] = posix["hayProcesosNew"]
        /\ posix'["nivelMultiProgramacionBajaPrioridad"] = posix["nivelMultiProgramacionBajaPrioridad"]
        /\ posix'["hayProcesosReady"] = posix["hayProcesosReady"]
        /\ posix'["procesosDisponiblesParaEjecutar"] = posix["procesosDisponiblesParaEjecutar"]
        /\ posix'["nivelMultiprocesamiento"] = posix["nivelMultiprocesamiento"]
        /\ posix'["procesoNecesitaEntrarEnReady"] = posix["procesoNecesitaEntrarEnReady"]
    BY <1>23, <1>t DEF NoSuspende, NombresPosix
  <2>2. UNCHANGED <<procesosNew, procesosReady, procesosSuspendedReady, fasePMP2, fase>>
    BY <1>23 DEF NoSuspende, colas, hilos, medio
  <2>3. Cardinality(Ocupadas') = Cardinality(Ocupadas)
    BY <2>2 DEF Ocupadas
  <2>a. FichasDeAdmision'
    BY <2>1, <2>2, <2>3, <1>s, <1>l, <1>v
    DEF FichasDeAdmision, Uno
  <2>b. FichasDeReady'
    BY <2>1, <2>2, <2>3, <1>s, <1>l, <1>v DEF FichasDeReady
  <2>c. PermisosDeCPU'
    BY <2>1, <2>2, <2>3, <1>s, <1>c, <1>v DEF PermisosDeCPU
  <2>. QED  BY <2>a, <2>b, <2>c DEF Permisos
<1>24. CASE DecideAdmision
  <2>1. /\ posix'["procesoNecesitaEntrarEnReady"] = posix["procesoNecesitaEntrarEnReady"] - 1
        /\ posix'["hayProcesosNew"] = posix["hayProcesosNew"]
        /\ posix'["hayProcesosReady"] = posix["hayProcesosReady"]
        /\ posix'["procesosDisponiblesParaEjecutar"] = posix["procesosDisponiblesParaEjecutar"]
        /\ posix'["nivelMultiprocesamiento"] = posix["nivelMultiprocesamiento"]
        /\ \/ /\ procesosSuspendedReady = <<>> /\ UNCHANGED fasePMP2
              /\ posix'["nivelMultiProgramacionBajaPrioridad"] = posix["nivelMultiProgramacionBajaPrioridad"] + 1
           \/ /\ procesosSuspendedReady # <<>> /\ fasePMP2' = "saca"
              /\ posix'["nivelMultiProgramacionBajaPrioridad"] = posix["nivelMultiProgramacionBajaPrioridad"]
    BY <1>24, <1>t DEF DecideAdmision, NombresPosix
  <2>2. UNCHANGED <<procesosNew, procesosReady, procesosSuspendedReady, fase>>
    BY <1>24 DEF DecideAdmision, colas, hilos, medio
  <2>3. Cardinality(Ocupadas') = Cardinality(Ocupadas)
    BY <2>2 DEF Ocupadas
  <2>4. fasePMP2 = "espera"
    BY <1>24 DEF DecideAdmision
  <2>a. FichasDeAdmision'
    BY <2>1, <2>2, <2>3, <2>4, <1>s, <1>l, <1>v, SMTT(60)
    DEF FichasDeAdmision, Uno
  <2>b. FichasDeReady'
    BY <2>1, <2>2, <2>3, <2>4, <1>s, <1>l, <1>v DEF FichasDeReady
  <2>c. PermisosDeCPU'
    BY <2>1, <2>2, <2>3, <2>4, <1>s, <1>c, <1>v DEF PermisosDeCPU
  <2>. QED  BY <2>a, <2>b, <2>c DEF Permisos
<1>25. CASE SacaDeSuspendedReady
  <2>1. UNCHANGED posix
    BY <1>25 DEF SacaDeSuspendedReady
  <2>2. Len(procesosSuspendedReady') = Len(procesosSuspendedReady) - 1
    BY <1>25, <1>t, <1>v DEF SacaDeSuspendedReady, NuncaSacaDeVacia
  <2>3. UNCHANGED <<procesosNew, procesosReady, fase>>
    BY <1>25 DEF SacaDeSuspendedReady, colas, hilos, medio
  <2>4. Cardinality(Ocupadas') = Cardinality(Ocupadas)
    BY <2>3 DEF Ocupadas
  <2>5. fasePMP2 = "saca" /\ fasePMP2' = "agrega"
    BY <1>25 DEF SacaDeSuspendedReady
  <2>a. FichasDeAdmision'
    BY <2>1, <2>2, <2>3, <2>4, <2>5, <1>s, <1>l, <1>v, SMTT(60)
    DEF FichasDeAdmision, Uno
  <2>b. FichasDeReady'
    BY <2>1, <2>2, <2>3, <2>4, <2>5, <1>s, <1>l, <1>v DEF FichasDeReady
  <2>c. PermisosDeCPU'
    BY <2>1, <2>2, <2>3, <2>4, <2>5, <1>s, <1>c, <1>v DEF PermisosDeCPU
  <2>. QED  BY <2>a, <2>b, <2>c DEF Permisos
<1>26. CASE ReactivaSuspendido
  <2>1. /\ posix'["hayProcesosReady"] = posix["hayProcesosReady"] + 1
        /\ posix'["hayProcesosNew"] = posix["hayProcesosNew"]
        /\ posix'["nivelMultiProgramacionBajaPrioridad"] = posix["nivelMultiProgramacionBajaPrioridad"]
        /\ posix'["procesosDisponiblesParaEjecutar"] = posix["procesosDisponiblesParaEjecutar"]
        /\ posix'["nivelMultiprocesamiento"] = posix["nivelMultiprocesamiento"]
        /\ posix'["procesoNecesitaEntrarEnReady"] = posix["procesoNecesitaEntrarEnReady"]
    BY <1>26, <1>t DEF ReactivaSuspendido, NombresPosix
  <2>2. Len(procesosReady') = Len(procesosReady) + 1
    BY <1>26, <1>t, <1>v DEF ReactivaSuspendido, NuncaSacaDeVacia
  <2>3. UNCHANGED <<procesosNew, procesosSuspendedReady, fase>>
    BY <1>26 DEF ReactivaSuspendido, colas, hilos, medio
  <2>4. Cardinality(Ocupadas') = Cardinality(Ocupadas)
    BY <2>3 DEF Ocupadas
  <2>5. fasePMP2 = "agrega" /\ fasePMP2' = "espera"
    BY <1>26 DEF ReactivaSuspendido
  <2>a. FichasDeAdmision'
    BY <2>1, <2>2, <2>3, <2>4, <2>5, <1>s, <1>l, <1>v
    DEF FichasDeAdmision, Uno
  <2>b. FichasDeReady'
    BY <2>1, <2>2, <2>3, <2>4, <2>5, <1>s, <1>l, <1>v DEF FichasDeReady
  <2>c. PermisosDeCPU'
    BY <2>1, <2>2, <2>3, <2>4, <2>5, <1>s, <1>c, <1>v DEF PermisosDeCPU
  <2>. QED  BY <2>a, <2>b, <2>c DEF Permisos
<1>27. CASE UNCHANGED vars
  BY <1>27 DEF vars, Permisos, FichasDeAdmision, FichasDeReady, PermisosDeCPU,
                Ocupadas
<1>. QED
  BY <1>1, <1>2, <1>3, <1>4, <1>5, <1>6, <1>7, <1>8, <1>9, <1>10, <1>11, <1>12, <1>13, <1>14, <1>15, <1>16, <1>17, <1>18, <1>19, <1>20, <1>21, <1>22, <1>23, <1>24, <1>25, <1>26, <1>27
  DEF Next, PasoCPU, PasoLiberar, PasoPMP2, Reposo
-----------------------------------------------------------------------------
(* Activations of the devices.                                             *)

\* The CPU threads on their way to a device can be counted.
LEMMA EnCaminoFinito ==
  \A d \in Dispositivos :
    IsFiniteSet(EnCamino(d)) /\ Cardinality(EnCamino(d)) \in Nat
<1>. SUFFICES ASSUME NEW d \in Dispositivos
              PROVE  IsFiniteSet(EnCamino(d)) /\ Cardinality(EnCamino(d)) \in Nat
  OBVIOUS
<1>1. EnCamino(d) \subseteq CPUs
  BY DEF EnCamino
<1>. QED  BY <1>1, ConstantesOK, FS_Subset, FS_CardinalityType

\* Only the two sections of agregarProcesoADispositivo change who is on the
\* way to a device.
LEMMA MismosEnCamino ==
  ASSUME fase \in [Hilos -> FasesCPU \cup FasesLiberar],
         NEW t \in Hilos, NEW x,
         t \in CPUs => fase[t] # "aBlocked" /\ x # "aBlocked",
         fase' = [fase EXCEPT ![t] = x],
         \A c \in CPUs \ {t} : dispositivo'[c] = dispositivo[c]
  PROVE  \A d \in Dispositivos : EnCamino(d)' = EnCamino(d)
  BY DEF EnCamino, Hilos

\* Every step of a thread keeps the accounts of the devices.
LEMMA FichasDeIONext ==
  Tipos /\ NuncaSacaDeVacia /\ FichasDeIO /\ [Next]_vars => FichasDeIO'
<1>. SUFFICES ASSUME Tipos, NuncaSacaDeVacia, FichasDeIO
              PROVE  [Next]_vars => FichasDeIO'
  OBVIOUS
<1>t. /\ listaEspera \in [Dispositivos -> Seq(Procesos)]
      /\ activador \in [Dispositivos -> Nat]
      /\ fase \in [Hilos -> FasesCPU \cup FasesLiberar]
      /\ dispositivo \in [CPUs -> Dispositivos \cup {Nadie}]
  BY DEF Tipos, TypeOK
<1>f. \A d \in Dispositivos :
        IsFiniteSet(EnCamino(d)) /\ Cardinality(EnCamino(d)) \in Nat
  BY EnCaminoFinito
<1>v. FichasDeIO
  OBVIOUS
<1>1. ASSUME NEW p \in Procesos, LlegaProceso(p) PROVE FichasDeIO'
  BY <1>1, <1>v DEF LlegaProceso, FichasDeIO, EnCamino, hilos
<1>2. ASSUME NEW p \in Procesos, RecibeRespuesta(p) PROVE FichasDeIO'
  BY <1>2, <1>v DEF RecibeRespuesta, FichasDeIO, EnCamino, hilos
<1>3. ASSUME NEW p \in Procesos, CaeCliente(p) PROVE FichasDeIO'
  BY <1>3, <1>v DEF CaeCliente, FichasDeIO, EnCamino, hilos
<1>4. CASE LargoPlazoSaca
  BY <1>4, <1>v DEF LargoPlazoSaca, FichasDeIO, EnCamino, hilos
<1>5. CASE LargoPlazoAgrega
  BY <1>5, <1>v DEF LargoPlazoAgrega, FichasDeIO, EnCamino, hilos
<1>6. CASE CortoPlazo
  BY <1>6, <1>v DEF CortoPlazo, FichasDeIO, EnCamino, hilos
<1>7. ASSUME NEW c \in CPUs, TomaDeReady(c) PROVE FichasDeIO'
  <2>1. \A e \in Dispositivos : EnCamino(e)' = EnCamino(e)
    BY <1>7, <1>t, MismosEnCamino DEF TomaDeReady, Hilos
  <2>2. UNCHANGED <<listaEspera, activador>>
    BY <1>7 DEF TomaDeReady
  <2>. QED  BY <2>1, <2>2, <1>v DEF FichasDeIO
<1>8. ASSUME NEW c \in CPUs, EntraEnExec(c) PROVE FichasDeIO'
  <2>1. \A e \in Dispositivos : EnCamino(e)' = EnCamino(e)
    BY <1>8, <1>t, MismosEnCamino DEF EntraEnExec, Hilos
  <2>2. UNCHANGED <<listaEspera, activador>>
    BY <1>8 DEF EntraEnExec
  <2>. QED  BY <2>1, <2>2, <1>v DEF FichasDeIO
<1>9. ASSUME NEW c \in CPUs, AvisaInicio(c) PROVE FichasDeIO'
  <2>1. \A e \in Dispositivos : EnCamino(e)' = EnCamino(e)
    BY <1>9, <1>t, MismosEnCamino DEF AvisaInicio, Hilos
  <2>2. UNCHANGED <<listaEspera, activador>>
    BY <1>9 DEF AvisaInicio
  <2>. QED  BY <2>1, <2>2, <1>v DEF FichasDeIO
<1>10. ASSUME NEW c \in CPUs, AvisaDesbloqueo(c) PROVE FichasDeIO'
  <2>1. \A e \in Dispositivos : EnCamino(e)' = EnCamino(e)
    BY <1>10, <1>t, MismosEnCamino DEF AvisaDesbloqueo, Hilos
  <2>2. UNCHANGED <<listaEspera, activador>>
    BY <1>10 DEF AvisaDesbloqueo
  <2>. QED  BY <2>1, <2>2, <1>v DEF FichasDeIO
<1>11. ASSUME NEW c \in CPUs, AtiendeOtra(c) PROVE FichasDeIO'
  <2>1. \A e \in Dispositivos : EnCamino(e)' = EnCamino(e)
    BY <1>11, <1>t, MismosEnCamino DEF AtiendeOtra, Hilos, Atiende, Llama
  <2>2. UNCHANGED <<listaEspera, activador>>
    BY <1>11 DEF AtiendeOtra
  <2>. QED  BY <2>1, <2>2, <1>v DEF FichasDeIO
<1>12. ASSUME NEW c \in CPUs, NEW d \in Dispositivos, AtiendeIO(c, d) PROVE FichasDeIO'
  <2>1. \A e \in Dispositivos : EnCamino(e)' = EnCamino(e)
    BY <1>12, <1>t, MismosEnCamino DEF AtiendeIO, Hilos, Atiende, Llama
  <2>2. UNCHANGED <<listaEspera, activador>>
    BY <1>12 DEF AtiendeIO
  <2>. QED  BY <2>1, <2>2, <1>v DEF FichasDeIO
<1>13. ASSUME NEW c \in CPUs, AgregaADispositivo(c) PROVE FichasDeIO'
  <2>1. dispositivo[c] \in Dispositivos /\ c \in Hilos
    BY <1>13 DEF AgregaADispositivo, Tipos, HilosConsistentes, Hilos
  <2>2. /\ fase[c] = "aDispositivo" /\ fase' = [fase EXCEPT ![c] = "aBlocked"]
        /\ listaEspera' = [listaEspera EXCEPT ![dispositivo[c]] =
                             Append(@, ejecutando[c])]
        /\ UNCHANGED <<activador, dispositivo>>
    BY <1>13 DEF AgregaADispositivo
  <2>3. ASSUME NEW d \in Dispositivos, d # dispositivo[c]
        PROVE  activador'[d] + Cardinality(EnCamino(d)') = Len(listaEspera'[d])
    <3>1. EnCamino(d)' = EnCamino(d)
      BY <2>1, <2>2, <2>3, <1>t DEF EnCamino, Hilos
    <3>. QED  BY <2>1, <2>2, <2>3, <3>1, <1>t, <1>v DEF FichasDeIO
  <2>4. ASSUME NEW d \in Dispositivos, d = dispositivo[c]
        PROVE  activador'[d] + Cardinality(EnCamino(d)') = Len(listaEspera'[d])
    <3>1. EnCamino(d)' = EnCamino(d) \cup {c} /\ c \notin EnCamino(d)
      BY <2>1, <2>2, <2>4, <1>t DEF EnCamino, Hilos
    <3>2. Cardinality(EnCamino(d)') = Cardinality(EnCamino(d)) + 1
      BY <3>1, <1>f, FS_AddElement
    <3>3. Len(listaEspera'[d]) = Len(listaEspera[d]) + 1
      BY <2>1, <2>2, <2>4, <1>t
    <3>4. /\ activador[d] \in Nat /\ activador'[d] = activador[d]
          /\ activador[d] + Cardinality(EnCamino(d)) = Len(listaEspera[d])
      BY <2>2, <1>t, <1>v DEF FichasDeIO
    <3>. QED  BY <3>2, <3>3, <3>4, <1>f
  <2>. QED  BY <2>3, <2>4 DEF FichasDeIO
<1>14. ASSUME NEW c \in CPUs, AgregaABlocked(c) PROVE FichasDeIO'
  <2>1. dispositivo[c] \in Dispositivos /\ c \in Hilos
    BY <1>14 DEF AgregaABlocked, Tipos, HilosConsistentes, Hilos
  <2>2. /\ fase[c] = "aBlocked" /\ fase' = [fase EXCEPT ![c] = "calcula"]
        /\ activador' = [activador EXCEPT ![dispositivo[c]] = @ + 1]
        /\ dispositivo' = [dispositivo EXCEPT ![c] = Nadie]
        /\ UNCHANGED listaEspera
    BY <1>14 DEF AgregaABlocked
  <2>3. ASSUME NEW d \in Dispositivos, d # dispositivo[c]
        PROVE  activador'[d] + Cardinality(EnCamino(d)') = Len(listaEspera'[d])
    <3>1. EnCamino(d)' = EnCamino(d)
      BY <2>1, <2>2, <2>3, <1>t DEF EnCamino, Hilos
    <3>. QED  BY <2>1, <2>2, <2>3, <3>1, <1>t, <1>v DEF FichasDeIO
  <2>4. ASSUME NEW d \in Dispositivos, d = dispositivo[c]
        PROVE  activador'[d] + Cardinality(EnCamino(d)') = Len(listaEspera'[d])
    <3>1. EnCamino(d)' = EnCamino(d) \ {c} /\ c \in EnCamino(d)
      BY <2>1, <2>2, <2>4, <1>t DEF EnCamino, Hilos
    <3>2. Cardinality(EnCamino(d)') = Cardinality(EnCamino(d)) - 1
      BY <3>1, <1>f, FS_RemoveElement
    <3>3. activador'[d] = activador[d] + 1
      BY <2>1, <2>2, <2>4, <1>t
    <3>4. /\ activador[d] \in Nat /\ Len(listaEspera'[d]) = Len(listaEspera[d])
          /\ activador[d] + Cardinality(EnCamino(d)) = Len(listaEspera[d])
      BY <2>2, <1>t, <1>v DEF FichasDeIO
    <3>. QED  BY <3>2, <3>3, <3>4, <1>f
  <2>. QED  BY <2>3, <2>4 DEF FichasDeIO
<1>15. ASSUME NEW c \in CPUs, CalculaEstimacion(c) PROVE FichasDeIO'
  <2>1. \A e \in Dispositivos : EnCamino(e)' = EnCamino(e)
    BY <1>15, <1>t, MismosEnCamino DEF CalculaEstimacion, Hilos
  <2>2. UNCHANGED <<listaEspera, activador>>
    BY <1>15 DEF CalculaEstimacion
  <2>. QED  BY <2>1, <2>2, <1>v DEF FichasDeIO
<1>16. ASSUME NEW c \in CPUs, AtiendeCerrar(c) PROVE FichasDeIO'
  <2>1. \A e \in Dispositivos : EnCamino(e)' = EnCamino(e)
    BY <1>16, <1>t, MismosEnCamino DEF AtiendeCerrar, Hilos, Atiende, Llama
  <2>2. UNCHANGED <<listaEspera, activador>>
    BY <1>16 DEF AtiendeCerrar
  <2>. QED  BY <2>1, <2>2, <1>v DEF FichasDeIO
<1>17. ASSUME NEW d \in Dispositivos, TerminaIO(d) PROVE FichasDeIO'
  <2>1. \A e \in Dispositivos : EnCamino(e)' = EnCamino(e)
    BY <1>17, <1>t, MismosEnCamino, ConstantesOK DEF TerminaIO, Hilos
  <2>2. listaEspera[d] # <<>>
    BY <1>17 DEF TerminaIO, NuncaSacaDeVacia
  <2>3. /\ Len(listaEspera'[d]) = Len(listaEspera[d]) - 1
        /\ activador'[d] = activador[d] - 1
    BY <1>17, <1>t, <2>2 DEF TerminaIO
  <2>4. \A e \in Dispositivos \ {d} :
          listaEspera'[e] = listaEspera[e] /\ activador'[e] = activador[e]
    BY <1>17, <1>t DEF TerminaIO
  <2>5. \A e \in Dispositivos : activador[e] \in Nat /\ Len(listaEspera[e]) \in Nat
    BY <1>t
  <2>. QED  BY <2>1, <2>3, <2>4, <2>5, <1>f, <1>v DEF FichasDeIO
<1>18. ASSUME NEW t \in Hilos, MiraSuspendidos(t) PROVE FichasDeIO'
  <2>1. \A e \in Dispositivos : EnCamino(e)' = EnCamino(e)
    BY <1>18, <1>t, MismosEnCamino DEF MiraSuspendidos, Hilos, FasesLiberar
  <2>2. UNCHANGED <<listaEspera, activador>>
    BY <1>18 DEF MiraSuspendidos
  <2>. QED  BY <2>1, <2>2, <1>v DEF FichasDeIO
<1>19. ASSUME NEW t \in Hilos, ASuspendedReady(t) PROVE FichasDeIO'
  <2>1. \A e \in Dispositivos : EnCamino(e)' = EnCamino(e)
    BY <1>19, <1>t, MismosEnCamino DEF ASuspendedReady, Hilos, FasesLiberar, TrasLiberar
  <2>2. UNCHANGED <<listaEspera, activador>>
    BY <1>19 DEF ASuspendedReady
  <2>. QED  BY <2>1, <2>2, <1>v DEF FichasDeIO
<1>20. ASSUME NEW t \in Hilos, QuitaDeBlocked(t) PROVE FichasDeIO'
  <2>1. \A e \in Dispositivos : EnCamino(e)' = EnCamino(e)
    BY <1>20, <1>t, MismosEnCamino DEF QuitaDeBlocked, Hilos, FasesLiberar
  <2>2. UNCHANGED <<listaEspera, activador>>
    BY <1>20 DEF QuitaDeBlocked
  <2>. QED  BY <2>1, <2>2, <1>v DEF FichasDeIO
<1>21. ASSUME NEW t \in Hilos, AReady(t) PROVE FichasDeIO'
  <2>1. \A e \in Dispositivos : EnCamino(e)' = EnCamino(e)
    BY <1>21, <1>t, MismosEnCamino DEF AReady, Hilos, FasesLiberar, TrasLiberar
  <2>2. UNCHANGED <<listaEspera, activador>>
    BY <1>21 DEF AReady
  <2>. QED  BY <2>1, <2>2, <1>v DEF FichasDeIO
<1>22. CASE Suspende
  BY <1>22, <1>v DEF Suspende, FichasDeIO, EnCamino, hilos
<1>23. CASE NoSuspende
  BY <1>23, <1>v DEF NoSuspende, FichasDeIO, EnCamino, hilos
<1>24. CASE DecideAdmision
  BY <1>24, <1>v DEF DecideAdmision, FichasDeIO, EnCamino, hilos
<1>25. CASE SacaDeSuspendedReady
  BY <1>25, <1>v DEF SacaDeSuspendedReady, FichasDeIO, EnCamino, hilos
<1>26. CASE ReactivaSuspendido
  BY <1>26, <1>v DEF ReactivaSuspendido, FichasDeIO, EnCamino, hilos
<1>27. CASE UNCHANGED vars
  BY <1>27, <1>v DEF vars, FichasDeIO, EnCamino
<1>. QED
  BY <1>1, <1>2, <1>3, <1>4, <1>5, <1>6, <1>7, <1>8, <1>9, <1>10, <1>11, <1>12, <1>13, <1>14, <1>15, <1>16, <1>17, <1>18, <1>19, <1>20, <1>21, <1>22, <1>23, <1>24, <1>25, <1>26, <1>27
  DEF Next, PasoCPU, PasoLiberar, PasoPMP2, Reposo
-----------------------------------------------------------------------------
(* The inductive invariant and its theorems.                               *)

\* The accounts of the semaphores are what makes a removal safe, and the
\* removals being safe is what keeps the types and the accounts.
Inv == Tipos /\ Permisos /\ FichasDeIO

\* When the accounts balance, a thread let through by sem_wait finds an entry.
LEMMA InvNoSacaDeVacia == Inv => NuncaSacaDeVacia
<1>. SUFFICES ASSUME Inv PROVE NuncaSacaDeVacia
  OBVIOUS
<1>1. /\ procesosNew \in Seq(Procesos) /\ procesosReady \in Seq(Procesos)
      /\ procesosSuspendedReady \in Seq(Procesos)
      /\ listaEspera \in [Dispositivos -> Seq(Procesos)]
      /\ activador \in [Dispositivos -> Nat]
      /\ posix["hayProcesosNew"] \in Nat
      /\ posix["nivelMultiProgramacionBajaPrioridad"] \in Nat
      /\ posix["hayProcesosReady"] \in Nat
      /\ posix["procesosDisponiblesParaEjecutar"] \in Nat
      /\ posix["procesoNecesitaEntrarEnReady"] \in Nat
  BY DEF Inv, Tipos, TypeOK, NombresPosix
<1>. USE DEF Inv, Permisos
<1>2. posix["hayProcesosNew"] > 0 => procesosNew # <<>>
  BY <1>1 DEF FichasDeAdmision
<1>3. posix["procesosDisponiblesParaEjecutar"] > 0 => procesosReady # <<>>
  BY <1>1 DEF FichasDeReady
<1>4. fasePMP2 = "saca" => procesosSuspendedReady # <<>>
  BY DEF Tipos, HilosConsistentes
<1>5. ASSUME NEW d \in Dispositivos, activador[d] > 0
      PROVE  listaEspera[d] # <<>>
  <2>1. activador[d] + Cardinality(EnCamino(d)) = Len(listaEspera[d])
    BY DEF FichasDeIO
  <2>. QED  BY <1>1, <1>5, <2>1, EnCaminoFinito
<1>. QED  BY <1>2, <1>3, <1>4, <1>5 DEF NuncaSacaDeVacia

\* The initial values of the semaphores balance.
LEMMA InvInit == Init => Inv
<1>. SUFFICES ASSUME Init PROVE Inv
  OBVIOUS
<1>1. Tipos
  BY TiposInit
<1>2. FichasDeAdmision /\ FichasDeReady
  BY DEF Init, FichasDeAdmision, FichasDeReady, Uno, NombresPosix
<1>3. PermisosDeCPU
  <2>1. Ocupadas = {}
    BY DEF Init, Ocupadas, Hilos
  <2>2. Cardinality(Ocupadas) = 0
    BY <2>1, FS_EmptySet
  <2>. QED  BY <2>2, OcupadasFinitas DEF Init, PermisosDeCPU, NombresPosix
<1>4. FichasDeIO
  <2>1. ASSUME NEW d \in Dispositivos
        PROVE  activador[d] + Cardinality(EnCamino(d)) = Len(listaEspera[d])
    <3>1. EnCamino(d) = {}
      BY DEF Init, EnCamino, Hilos
    <3>2. Cardinality(EnCamino(d)) = 0
      BY <3>1, FS_EmptySet
    <3>. QED  BY <3>2 DEF Init
  <2>. QED  BY <2>1 DEF FichasDeIO
<1>. QED  BY <1>1, <1>2, <1>3, <1>4 DEF Inv, Permisos

\* Every reachable state keeps the types and the accounts.
THEOREM InvSiempre == Spec => []Inv
<1>1. Inv /\ [Next]_vars => Inv'
  BY InvNoSacaDeVacia, TiposNext, PermisosNext, FichasDeIONext DEF Inv
<1>. QED  BY InvInit, <1>1, PTL DEF Spec

\* The variables of the schedulers keep their types: in particular no POSIX
\* semaphore of the planners goes below zero and no thread holds a process
\* that does not exist.
THEOREM TiposCorrectos == Spec => []TypeOK
<1>1. Inv => TypeOK
  BY DEF Inv, Tipos
<1>. QED  BY InvSiempre, <1>1, PTL

\* No planner thread removes the head of an empty list, whatever the number
\* of carpinchos, CPU threads and devices.
THEOREM NingunaListaVacia == Spec => []NuncaSacaDeVacia
  BY InvSiempre, InvNoSacaDeVacia, PTL

\* The requests to enter Ready match the processes that wait for it.
THEOREM AdmisionCuadra == Spec => []FichasDeAdmision
<1>1. Inv => FichasDeAdmision
  BY DEF Inv, Permisos
<1>. QED  BY InvSiempre, <1>1, PTL

\* The dispatch announcements match the processes of Ready.
THEOREM DespachoCuadra == Spec => []FichasDeReady
<1>1. Inv => FichasDeReady
  BY DEF Inv, Permisos
<1>. QED  BY InvSiempre, <1>1, PTL

\* CPU permits are conserved.
THEOREM PermisosSeConservan == Spec => []PermisosDeCPU
<1>1. Inv => PermisosDeCPU
  BY DEF Inv, Permisos
<1>. QED  BY InvSiempre, <1>1, PTL

\* Device activations match the processes queued on each device.
THEOREM ActivacionesCuadran == Spec => []FichasDeIO
<1>1. Inv => FichasDeIO
  BY DEF Inv
<1>. QED  BY InvSiempre, <1>1, PTL

-----------------------------------------------------------------------------
(* Where each process is: a connected one is always in exactly one place   *)
(* that will move it on. The argument follows one map, the site of each    *)
(* process. An invariant says that there is one that agrees with every     *)
(* list, every local of a thread and every client; a step of a thread      *)
(* changes the site of one process at most.                                *)

-----------------------------------------------------------------------------
(* The sites.                                                              *)

\* A CPU thread has a process in "cpu" until its client may be served and
\* again on its way to a device; between them it is in "servida". "semaforo"
\* is for the waits on kernel semaphores (SemaforosProofs): here nobody waits.
Sitios == {"fuera", "new", "nuevo", "ready", "cpu", "servida", "io", "libera",
           "susReady", "preparado", "semaforo"}

\* By the map l, the list s holds the processes at site x, once each.
Lista(l, s, x) ==
  /\ \A i \in 1..Len(s), j \in 1..Len(s) : s[i] = s[j] => i = j
  /\ \A p \in Procesos : l[p] = x <=> \E i \in 1..Len(s) : s[i] = p

\* The variable v holds the process at site x, if there is one.
Campo(l, v, x) == \A p \in Procesos : l[p] = x <=> v = p

\* The threads T hold the processes at site x in the local f, one each.
Local(l, f, T, x) ==
  /\ \A t \in T, u \in T : f[t] = f[u] => t = u
  /\ \A p \in Procesos : l[p] = x <=> \E t \in T : f[t] = p

\* The lists f[d], of each d in D, hold the processes at site x, once each.
Listas(l, f, D, x) ==
  /\ \A d \in D, e \in D : \A i \in 1..Len(f[d]), j \in 1..Len(f[e]) :
       f[d][i] = f[e][j] => d = e /\ i = j
  /\ \A p \in Procesos : l[p] = x <=> \E d \in D : \E i \in 1..Len(f[d]) : f[d][i] = p

\* q moves to site y.
Muda(l, q, y) == [l EXCEPT ![q] = y]

\* The maps l and m have the same processes at site x.
Igual(l, m, x) == \A p \in Procesos : l[p] = x <=> m[p] = x

\* A move between two other sites changes nothing at site x.
LEMMA OtroSitio ==
  ASSUME NEW S, NEW l \in [Procesos -> S], NEW q \in Procesos, NEW y, NEW x,
         l[q] # x, y # x
  PROVE  Igual(l, Muda(l, q, y), x)
  BY DEF Muda, Igual

\* A process enters a list at its end.
LEMMA EntraALista ==
  ASSUME NEW S, NEW l \in [Procesos -> S], NEW q \in Procesos, NEW x,
         NEW s \in Seq(Procesos), Lista(l, s, x), l[q] # x
  PROVE  Lista(Muda(l, q, x), Append(s, q), x)
<1>. DEFINE r == Append(s, q)
            m == Muda(l, q, x)
<1>1. /\ Len(r) = Len(s) + 1 /\ Len(s) \in Nat
      /\ \A i \in 1..Len(s) : r[i] = s[i]
      /\ r[Len(s) + 1] = q
  OBVIOUS
<1>2. \A i \in 1..Len(s) : s[i] # q
  BY DEF Lista
<1>3. \A p \in Procesos : m[p] = IF p = q THEN x ELSE l[p]
  BY DEF Muda
<1>. HIDE DEF r, m
<1>4. \A i \in 1..Len(r) : i \in 1..Len(s) \/ i = Len(s) + 1
  BY <1>1
<1>5. ASSUME NEW i \in 1..Len(r), NEW j \in 1..Len(r), r[i] = r[j] PROVE i = j
  BY <1>1, <1>2, <1>4, <1>5 DEF Lista
<1>6. ASSUME NEW p \in Procesos PROVE m[p] = x <=> \E i \in 1..Len(r) : r[i] = p
  <2>1. CASE p = q
    <3>1. Len(s) + 1 \in 1..Len(r)
      BY <1>1
    <3>. QED  BY <2>1, <3>1, <1>1, <1>3
  <2>2. CASE p # q
    <3>1. (\E i \in 1..Len(r) : r[i] = p) <=> \E i \in 1..Len(s) : s[i] = p
      BY <2>2, <1>1, <1>4
    <3>. QED  BY <2>2, <3>1, <1>3 DEF Lista
  <2>. QED  BY <2>1, <2>2
<1>. QED  BY <1>5, <1>6 DEF Lista, r, m

\* One position of a list leaves it.
LEMMA SaleDeLista ==
  ASSUME NEW S, NEW l \in [Procesos -> S], NEW x, NEW y, x # y,
         NEW s \in Seq(Procesos), Lista(l, s, x), NEW k \in 1..Len(s),
         NEW q, q = s[k]
  PROVE  /\ q \in Procesos /\ l[q] = x
         /\ Lista(Muda(l, q, y), RemoveAt(s, k), x)
<1>. DEFINE r == RemoveAt(s, k)
            m == Muda(l, q, y)
<1>0. s[k] \in Procesos /\ l[s[k]] = x /\ Len(s) \in Nat /\ k \in Nat
  BY DEF Lista
<1>1. r \in Seq(Procesos) /\ Len(r) = Len(s) - 1
  BY RemoveAtEsLista
<1>2. ASSUME NEW i \in 1..Len(r) PROVE r[i] = IF i < k THEN s[i] ELSE s[i + 1]
  <2>. DEFINE u == SubSeq(s, 1, k - 1)
              v == SubSeq(s, k + 1, Len(s))
  <2>1. r = u \o v
    BY DEF RemoveAt
  <2>2. /\ u \in Seq(Procesos) /\ Len(u) = k - 1
        /\ v \in Seq(Procesos) /\ Len(v) = Len(s) - k
    BY <1>0
  <2>3. /\ \A j \in 1..(k - 1) : u[j] = s[j]
        /\ \A j \in 1..(Len(s) - k) : v[j] = s[k + j]
    BY <1>0
  <2>. HIDE DEF r, u, v
  <2>4. \A j \in 1..(Len(u) + Len(v)) :
          (u \o v)[j] = IF j <= Len(u) THEN u[j] ELSE v[j - Len(u)]
    BY <2>2, ConcatProperties
  <2>5. CASE i < k
    <3>1. i \in 1..(k - 1)
      BY <2>5, <1>0
    <3>2. i \in 1..(Len(u) + Len(v)) /\ i <= Len(u)
      BY <2>2, <3>1, <1>0, <1>1
    <3>. QED  BY <2>1, <2>3, <2>4, <2>5, <3>1, <3>2
  <2>6. CASE ~(i < k)
    <3>. DEFINE j == i - (k - 1)
    <3>1. /\ j \in 1..(Len(s) - k) /\ k + j = i + 1
          /\ i \in 1..(Len(u) + Len(v)) /\ ~(i <= Len(u)) /\ i - Len(u) = j
      BY <2>2, <2>6, <1>0, <1>1
    <3>. HIDE DEF j
    <3>2. (u \o v)[i] = v[j]
      BY <2>4, <3>1
    <3>3. v[j] = s[k + j]
      BY <2>3, <3>1
    <3>. QED  BY <2>1, <2>6, <3>1, <3>2, <3>3
  <2>. QED  BY <2>5, <2>6
<1>3. \A p \in Procesos : m[p] = IF p = s[k] THEN y ELSE l[p]
  BY DEF Muda
<1>. HIDE DEF r, m
<1>4. \A i \in 1..Len(r) : i \in 1..Len(s) /\ i + 1 \in 1..Len(s)
  BY <1>0, <1>1
<1>5. ASSUME NEW i \in 1..Len(r), NEW j \in 1..Len(r), r[i] = r[j] PROVE i = j
  BY <1>0, <1>1, <1>2, <1>4, <1>5 DEF Lista
<1>6. ASSUME NEW p \in Procesos PROVE m[p] = x <=> \E i \in 1..Len(r) : r[i] = p
  <2>1. CASE p = s[k]
    <3>1. m[p] # x
      BY <2>1, <1>3
    <3>2. ASSUME NEW i \in 1..Len(r) PROVE r[i] # p
      <4>1. i < k => i # k
        BY <1>0
      <4>2. ~(i < k) => i + 1 # k
        BY <1>0
      <4>3. r[i] = s[i] \/ r[i] = s[i + 1]
        BY <1>2
      <4>. QED  BY <2>1, <4>1, <4>2, <4>3, <1>2, <1>4 DEF Lista
    <3>. QED  BY <3>1, <3>2
  <2>2. CASE p # s[k]
    <3>1. ASSUME NEW j \in 1..Len(s), s[j] = p PROVE \E i \in 1..Len(r) : r[i] = p
      <4>1. CASE j < k
        <5>1. j \in 1..Len(r)
          BY <4>1, <1>0, <1>1
        <5>. QED  BY <5>1, <4>1, <3>1, <1>2
      <4>2. CASE j > k
        <5>1. j - 1 \in 1..Len(r) /\ ~(j - 1 < k) /\ (j - 1) + 1 = j
          BY <4>2, <1>0, <1>1
        <5>. QED  BY <5>1, <3>1, <1>2
      <4>. QED  BY <4>1, <4>2, <2>2, <3>1, <1>0
    <3>2. (\E i \in 1..Len(r) : r[i] = p) => \E j \in 1..Len(s) : s[j] = p
      BY <1>2, <1>4
    <3>. QED  BY <2>2, <3>1, <3>2, <1>3 DEF Lista
  <2>. QED  BY <2>1, <2>2
<1>. QED  BY <1>0, <1>5, <1>6 DEF Lista, r, m

\* A list without its first position is its tail.
LEMMA ColaEsSinLaPrimera ==
  ASSUME NEW S, NEW s \in Seq(S), s # <<>>
  PROVE  RemoveAt(s, 1) = Tail(s)
<1>1. RemoveAt(s, 1) = SubSeq(s, 1, 0) \o SubSeq(s, 2, Len(s))
  BY DEF RemoveAt
<1>2. SubSeq(s, 1, 0) = <<>>
  OBVIOUS
<1>3. SubSeq(s, 2, Len(s)) = Tail(s) /\ Tail(s) \in Seq(S)
  OBVIOUS
<1>. QED  BY <1>1, <1>2, <1>3

\* The head of a list leaves it.
LEMMA SaleLaCabeza ==
  ASSUME NEW S, NEW l \in [Procesos -> S], NEW x, NEW y, x # y,
         NEW s \in Seq(Procesos), Lista(l, s, x), s # <<>>,
         NEW q, q = Head(s)
  PROVE  /\ q \in Procesos /\ l[q] = x
         /\ Lista(Muda(l, q, y), Tail(s), x)
<1>1. 1 \in 1..Len(s) /\ s[1] = Head(s)
  OBVIOUS
<1>2. RemoveAt(s, 1) = Tail(s)
  BY ColaEsSinLaPrimera
<1>3. q \in Procesos /\ l[q] = x /\ Lista(Muda(l, q, y), RemoveAt(s, 1), x)
  <2>1. q = s[1]
    BY <1>1
  <2>. QED  BY <1>1, <2>1, SaleDeLista
<1>. QED  BY <1>2, <1>3

\* The head of a list, if it has one, is its first position.
LEMMA CabezaEsLaPrimera ==
  ASSUME NEW S, NEW s \in Seq(S), s # <<>>
  PROVE  /\ 1 \in 1..Len(s) /\ s[1] = Head(s) /\ Head(s) \in S
         /\ Len(Tail(s)) = Len(s) - 1 /\ Len(s) \in Nat
         /\ \A i \in 1..Len(Tail(s)) : Tail(s)[i] = s[i + 1]
  BY HeadTailProperties

\* A thread takes a process.
LEMMA EntraALocal ==
  ASSUME NEW l \in [Procesos -> Sitios], NEW q \in Procesos, NEW x, l[q] # x,
         NEW f, NEW g, NEW T, NEW t, t \notin T, Local(l, f, T, x),
         \A u \in T : g[u] = f[u], g[t] = q
  PROVE  Local(Muda(l, q, x), g, T \cup {t}, x)
<1>1. \A p \in Procesos : Muda(l, q, x)[p] = IF p = q THEN x ELSE l[p]
  BY DEF Muda
<1>2. \A u \in T : f[u] # q
  BY DEF Local
<1>. QED  BY <1>1, <1>2 DEF Local

\* A thread leaves its process.
LEMMA SaleDeLocal ==
  ASSUME NEW l \in [Procesos -> Sitios], NEW x, NEW y, x # y,
         NEW f, NEW T, NEW t \in T, Local(l, f, T, x), NEW q \in Procesos, q = f[t]
  PROVE  l[q] = x /\ Local(Muda(l, q, y), f, T \ {t}, x)
<1>1. \A p \in Procesos : Muda(l, q, y)[p] = IF p = f[t] THEN y ELSE l[p]
  BY DEF Muda
<1>. QED  BY <1>1 DEF Local

\* The locals of the threads that hold processes are what matters.
LEMMA MismoLocal ==
  ASSUME NEW l, NEW x, NEW f, NEW g, NEW T, \A t \in T : g[t] = f[t],
         Local(l, f, T, x)
  PROVE  Local(l, g, T, x)
  BY DEF Local

\* A process enters the list of a device.
LEMMA EntraAListas ==
  ASSUME NEW l \in [Procesos -> Sitios], NEW q \in Procesos, NEW x, l[q] # x,
         NEW f \in [Dispositivos -> Seq(Procesos)], NEW d \in Dispositivos,
         Listas(l, f, Dispositivos, x)
  PROVE  Listas(Muda(l, q, x), [f EXCEPT ![d] = Append(@, q)], Dispositivos, x)
<1>. DEFINE g == [f EXCEPT ![d] = Append(@, q)]
            m == Muda(l, q, x)
            n == Len(f[d])
<1>0. \A a \in Dispositivos, b \in Dispositivos :
        \A i \in 1..Len(f[a]), j \in 1..Len(f[b]) : f[a][i] = f[b][j] => a = b /\ i = j
  BY DEF Listas
<1>1. /\ n \in Nat /\ Len(g[d]) = n + 1
      /\ \A i \in 1..n : g[d][i] = f[d][i]
      /\ g[d][n + 1] = q
      /\ \A e \in Dispositivos \ {d} : g[e] = f[e]
  OBVIOUS
<1>2. \A e \in Dispositivos : \A i \in 1..Len(f[e]) : f[e][i] # q
  BY DEF Listas
<1>3. \A p \in Procesos : m[p] = IF p = q THEN x ELSE l[p]
  BY DEF Muda
<1>. HIDE DEF g, m
<1>4. \A e \in Dispositivos : \A i \in 1..Len(g[e]) :
        (i \in 1..Len(f[e]) /\ g[e][i] = f[e][i]) \/ (e = d /\ i = n + 1 /\ g[e][i] = q)
  <2>. SUFFICES ASSUME NEW e \in Dispositivos, NEW i \in 1..Len(g[e])
                PROVE  (i \in 1..Len(f[e]) /\ g[e][i] = f[e][i])
                         \/ (e = d /\ i = n + 1 /\ g[e][i] = q)
    OBVIOUS
  <2>1. CASE e = d
    <3>1. i \in 1..n \/ i = n + 1
      BY <2>1, <1>1
    <3>. QED  BY <2>1, <3>1, <1>1
  <2>2. CASE e # d
    BY <2>2, <1>1
  <2>. QED  BY <2>1, <2>2
<1>5. ASSUME NEW e \in Dispositivos, NEW i \in 1..Len(f[e])
      PROVE  i \in 1..Len(g[e]) /\ g[e][i] = f[e][i]
  BY <1>1
<1>6. n + 1 \in 1..Len(g[d])
  BY <1>1
<1>. HIDE DEF n
<1>7. ASSUME NEW e \in Dispositivos, NEW h \in Dispositivos,
             NEW i \in 1..Len(g[e]), NEW j \in 1..Len(g[h]), g[e][i] = g[h][j]
      PROVE  e = h /\ i = j
  <2>1. CASE i \in 1..Len(f[e]) /\ g[e][i] = f[e][i]
    <3>1. g[h][j] = f[h][j] /\ j \in 1..Len(f[h])
      BY <2>1, <1>2, <1>4, <1>7
    <3>2. f[e][i] = f[h][j]
      BY <2>1, <3>1, <1>7
    <3>. QED  BY <2>1, <3>1, <3>2, <1>0
  <2>2. CASE e = d /\ i = n + 1 /\ g[e][i] = q
    BY <2>2, <1>2, <1>4, <1>7
  <2>. QED  BY <2>1, <2>2, <1>4
<1>8. ASSUME NEW p \in Procesos
      PROVE  m[p] = x <=> \E e \in Dispositivos : \E i \in 1..Len(g[e]) : g[e][i] = p
  <2>1. CASE p = q
    BY <2>1, <1>1, <1>3, <1>6
  <2>2. CASE p # q
    <3>1. l[p] = x <=> \E e \in Dispositivos : \E i \in 1..Len(f[e]) : f[e][i] = p
      BY DEF Listas
    <3>2. ASSUME NEW e \in Dispositivos, NEW i \in 1..Len(f[e]), f[e][i] = p
          PROVE  \E j \in 1..Len(g[e]) : g[e][j] = p
      BY <3>2, <1>5
    <3>3. ASSUME NEW e \in Dispositivos, NEW i \in 1..Len(g[e]), g[e][i] = p
          PROVE  \E j \in 1..Len(f[e]) : f[e][j] = p
      BY <2>2, <3>3, <1>4
    <3>. QED  BY <2>2, <1>3, <3>1, <3>2, <3>3
  <2>. QED  BY <2>1, <2>2
<1>. QED  BY <1>7, <1>8 DEF Listas, g, m

\* Where entry i of device e was, before the first one of device d left.
Antes(d, e, i) == IF e = d THEN i + 1 ELSE i

\* A device takes the head of its list.
LEMMA SaleDeListas ==
  ASSUME NEW l \in [Procesos -> Sitios], NEW x, NEW y, x # y,
         NEW f \in [Dispositivos -> Seq(Procesos)], NEW d \in Dispositivos,
         Listas(l, f, Dispositivos, x), f[d] # <<>>,
         NEW q, q = Head(f[d])
  PROVE  /\ q \in Procesos /\ l[q] = x
         /\ Listas(Muda(l, q, y), [f EXCEPT ![d] = Tail(@)], Dispositivos, x)
<1>. DEFINE g == [f EXCEPT ![d] = Tail(@)]
            m == Muda(l, q, y)
            n == Len(f[d])
<1>1. /\ 1 \in 1..n /\ f[d][1] = q /\ q \in Procesos /\ n \in Nat
      /\ Len(Tail(f[d])) = n - 1
      /\ \A i \in 1..Len(Tail(f[d])) : Tail(f[d])[i] = f[d][i + 1]
  BY CabezaEsLaPrimera
<1>2. g[d] = Tail(f[d]) /\ \A e \in Dispositivos \ {d} : g[e] = f[e]
  OBVIOUS
<1>3. \A p \in Procesos : m[p] = IF p = q THEN y ELSE l[p]
  BY DEF Muda
<1>. HIDE DEF g, m
<1>4. l[q] = x
  BY <1>1 DEF Listas
<1>5. ASSUME NEW e \in Dispositivos, NEW i \in 1..Len(g[e])
      PROVE  /\ Antes(d, e, i) \in 1..Len(f[e]) /\ g[e][i] = f[e][Antes(d, e, i)]
             /\ e = d => Antes(d, e, i) # 1
  <2>1. CASE e = d
    <3>1. i \in 1..(n - 1)
      BY <2>1, <1>1, <1>2
    <3>2. i + 1 \in 1..n /\ i + 1 # 1
      BY <3>1, <1>1
    <3>. QED  BY <2>1, <3>1, <3>2, <1>1, <1>2 DEF Antes
  <2>2. CASE e # d
    BY <2>2, <1>2 DEF Antes
  <2>. QED  BY <2>1, <2>2
<1>6. ASSUME NEW e \in Dispositivos, NEW h \in Dispositivos,
             NEW i \in 1..Len(g[e]), NEW j \in 1..Len(g[h]), g[e][i] = g[h][j]
      PROVE  e = h /\ i = j
  <2>1. e = h /\ Antes(d, e, i) = Antes(d, h, j)
    <3>1. f[e][Antes(d, e, i)] = f[h][Antes(d, h, j)]
      BY <1>5, <1>6, Zenon
    <3>2. Antes(d, e, i) \in 1..Len(f[e]) /\ Antes(d, h, j) \in 1..Len(f[h])
      BY <1>5, Zenon
    <3>. QED  BY <3>1, <3>2 DEF Listas
  <2>. QED  BY <2>1 DEF Antes
<1>7. ASSUME NEW e \in Dispositivos, NEW j \in 1..Len(f[e]), f[e][j] # q
      PROVE  \E i \in 1..Len(g[e]) : g[e][i] = f[e][j]
  <2>1. CASE e = d
    <3>1. j # 1 /\ j \in 1..n
      BY <2>1, <1>1, <1>7
    <3>2. j - 1 \in 1..Len(g[d]) /\ (j - 1) + 1 = j
      BY <3>1, <1>1, <1>2
    <3>. QED  BY <2>1, <3>2, <1>1, <1>2
  <2>2. CASE e # d
    BY <2>2, <1>2
  <2>. QED  BY <2>1, <2>2
<1>8. ASSUME NEW p \in Procesos
      PROVE  m[p] = x <=> \E e \in Dispositivos : \E i \in 1..Len(g[e]) : g[e][i] = p
  <2>1. CASE p = q
    <3>1. ASSUME NEW e \in Dispositivos, NEW i \in 1..Len(g[e]) PROVE g[e][i] # q
      <4>1. /\ Antes(d, e, i) \in 1..Len(f[e]) /\ g[e][i] = f[e][Antes(d, e, i)]
            /\ e = d => Antes(d, e, i) # 1
        BY <1>5, Zenon
      <4>. QED  BY <4>1, <1>1 DEF Listas
    <3>. QED  BY <2>1, <3>1, <1>3
  <2>2. CASE p # q
    <3>1. (\E e \in Dispositivos : \E i \in 1..Len(g[e]) : g[e][i] = p)
            => \E e \in Dispositivos : \E i \in 1..Len(f[e]) : f[e][i] = p
      BY <1>5, Zenon
    <3>2. ASSUME NEW e \in Dispositivos, NEW i \in 1..Len(f[e]), f[e][i] = p
          PROVE  \E j \in 1..Len(g[e]) : g[e][j] = p
      BY <2>2, <3>2, <1>7
    <3>3. l[p] = x <=> \E e \in Dispositivos : \E i \in 1..Len(f[e]) : f[e][i] = p
      BY DEF Listas
    <3>. QED  BY <2>2, <1>3, <3>1, <3>2, <3>3
  <2>. QED  BY <2>1, <2>2
<1>. QED  BY <1>1, <1>4, <1>6, <1>8 DEF Listas, g, m
-----------------------------------------------------------------------------
(* Every process has one site.                                             *)

\* The threads that hold a process before and after its client is served,
\* while it is, and when its wait is over.
DelCPU == {c \in CPUs : fase[c] \in {"tomado", "enExec", "aDispositivo"}}
Atendiendo ==
  {c \in CPUs : fase[c] \in {"avisa", "atiende", "respondeSignal"} \cup FasesLiberar}
Liberando == {t \in Hilos : fase[t] \in FasesLiberar}

EnNew(l) == Lista(l, procesosNew, "new")
EnNuevo(l) == Campo(l, nuevo, "nuevo")
EnReady(l) == Lista(l, procesosReady, "ready")
EnCPU(l) == Local(l, ejecutando, DelCPU, "cpu")
EnServida(l) == Local(l, ejecutando, Atendiendo, "servida")
EnIO(l) == Listas(l, listaEspera, Dispositivos, "io")
EnLibera(l) == Local(l, liberado, Liberando, "libera")
EnSusReady(l) == Lista(l, procesosSuspendedReady, "susReady")
EnPreparado(l) == Campo(l, preparado, "preparado")
EnFuera(l) ==
  \A p \in Procesos : l[p] = "fuera" <=> pedido[p] = "sinConectar" \/ p \in liberados

Ubicados(l) ==
  /\ EnNew(l) /\ EnNuevo(l) /\ EnReady(l) /\ EnCPU(l) /\ EnServida(l)
  /\ EnIO(l) /\ EnLibera(l) /\ EnSusReady(l) /\ EnPreparado(l) /\ EnFuera(l)

\* Nobody waits on a kernel semaphore.
Ubicacion ==
  \E l \in [Procesos -> Sitios] : Ubicados(l) /\ \A p \in Procesos : l[p] # "semaforo"

\* Only the threads that release a process hold it in liberado, and only
\* thread2_PMP, when it is about to add it to Ready, in preparado.
FasesComunes ==
  /\ \A t \in Hilos : fase[t] \notin FasesLiberar => liberado[t] = Nadie
  /\ fasePMP2 # "agrega" => preparado = Nadie
  /\ \A p \in liberados : pedido[p] # "sinConectar"

\* No CPU thread is in a call on a kernel semaphore.
SinSemaforos ==
  \A c \in CPUs : fase[c] \in {"espera", "tomado", "enExec", "avisa", "atiende",
                              "aDispositivo", "aBlocked", "calcula"}

FasesPropias == FasesComunes /\ SinSemaforos

\* The same threads hold the same processes in the local f.
Conservan(T, f) == T' = T /\ \A t \in T : f'[t] = f[t]

\* A step that leaves alone what is at a site leaves the map right about it.
LEMMA Queda ==
  ASSUME NEW l, NEW m, Ubicados(l)
  PROVE  /\ Igual(l, m, "new") /\ UNCHANGED procesosNew => EnNew(m)'
         /\ Igual(l, m, "nuevo") /\ UNCHANGED nuevo => EnNuevo(m)'
         /\ Igual(l, m, "ready") /\ UNCHANGED procesosReady => EnReady(m)'
         /\ Igual(l, m, "cpu") /\ Conservan(DelCPU, ejecutando) => EnCPU(m)'
         /\ Igual(l, m, "servida") /\ Conservan(Atendiendo, ejecutando) => EnServida(m)'
         /\ Igual(l, m, "io") /\ UNCHANGED listaEspera => EnIO(m)'
         /\ Igual(l, m, "libera") /\ Conservan(Liberando, liberado) => EnLibera(m)'
         /\ Igual(l, m, "susReady") /\ UNCHANGED procesosSuspendedReady => EnSusReady(m)'
         /\ Igual(l, m, "preparado") /\ UNCHANGED preparado => EnPreparado(m)'
         /\ Igual(l, m, "fuera") /\ UNCHANGED <<pedido, liberados>> => EnFuera(m)'
<1>1. Igual(l, m, "new") /\ UNCHANGED procesosNew => EnNew(m)'
  BY DEF Ubicados, Igual, EnNew, Lista
<1>2. Igual(l, m, "nuevo") /\ UNCHANGED nuevo => EnNuevo(m)'
  BY DEF Ubicados, Igual, EnNuevo, Campo
<1>3. Igual(l, m, "ready") /\ UNCHANGED procesosReady => EnReady(m)'
  BY DEF Ubicados, Igual, EnReady, Lista
<1>4. Igual(l, m, "cpu") /\ Conservan(DelCPU, ejecutando) => EnCPU(m)'
  <2>. SUFFICES ASSUME Igual(l, m, "cpu"), DelCPU' = DelCPU,
                       \A t \in DelCPU : ejecutando'[t] = ejecutando[t]
                PROVE  Local(m, ejecutando', DelCPU', "cpu")
    BY DEF Conservan, EnCPU
  <2>. QED  BY DEF Ubicados, Igual, EnCPU, Local
<1>5. Igual(l, m, "servida") /\ Conservan(Atendiendo, ejecutando) => EnServida(m)'
  <2>. SUFFICES ASSUME Igual(l, m, "servida"), Atendiendo' = Atendiendo,
                       \A t \in Atendiendo : ejecutando'[t] = ejecutando[t]
                PROVE  Local(m, ejecutando', Atendiendo', "servida")
    BY DEF Conservan, EnServida
  <2>. QED  BY DEF Ubicados, Igual, EnServida, Local
<1>6. Igual(l, m, "io") /\ UNCHANGED listaEspera => EnIO(m)'
  BY DEF Ubicados, Igual, EnIO, Listas
<1>7. Igual(l, m, "libera") /\ Conservan(Liberando, liberado) => EnLibera(m)'
  <2>. SUFFICES ASSUME Igual(l, m, "libera"), Liberando' = Liberando,
                       \A t \in Liberando : liberado'[t] = liberado[t]
                PROVE  Local(m, liberado', Liberando', "libera")
    BY DEF Conservan, EnLibera
  <2>. QED  BY DEF Ubicados, Igual, EnLibera, Local
<1>8. Igual(l, m, "susReady") /\ UNCHANGED procesosSuspendedReady => EnSusReady(m)'
  BY DEF Ubicados, Igual, EnSusReady, Lista
<1>9. Igual(l, m, "preparado") /\ UNCHANGED preparado => EnPreparado(m)'
  BY DEF Ubicados, Igual, EnPreparado, Campo
<1>10. Igual(l, m, "fuera") /\ UNCHANGED <<pedido, liberados>> => EnFuera(m)'
  BY DEF Ubicados, Igual, EnFuera
<1>. QED
  BY <1>1, <1>2, <1>3, <1>4, <1>5, <1>6, <1>7, <1>8, <1>9, <1>10, Zenon

\* What a change of phase does to the sets of threads.
LEMMA FaseDeCPU ==
  ASSUME fase \in [Hilos -> FasesCPU \cup FasesLiberar], NEW c \in CPUs, NEW x,
         fase[c] \notin FasesLiberar, x \notin FasesLiberar,
         fase' = [fase EXCEPT ![c] = x]
  PROVE  /\ DelCPU' = IF x \in {"tomado", "enExec", "aDispositivo"}
                      THEN DelCPU \cup {c} ELSE DelCPU \ {c}
         /\ Atendiendo' = IF x \in {"avisa", "atiende", "respondeSignal"}
                          THEN Atendiendo \cup {c} ELSE Atendiendo \ {c}
         /\ Liberando' = Liberando
<1>1. c \in Hilos /\ CPUs \subseteq Hilos
  BY DEF Hilos
<1>2. \A t \in Hilos : fase'[t] = IF t = c THEN x ELSE fase[t]
  BY <1>1
<1>. QED  BY <1>1, <1>2 DEF DelCPU, Atendiendo, Liberando

\* A device thread that changes phase is still no CPU thread.
LEMMA FaseDeDispositivo ==
  ASSUME fase \in [Hilos -> FasesCPU \cup FasesLiberar], NEW d \in Dispositivos,
         NEW x \in FasesLiberar, fase' = [fase EXCEPT ![d] = x]
  PROVE  DelCPU' = DelCPU /\ Atendiendo' = Atendiendo /\ Liberando' = Liberando \cup {d}
<1>1. d \in Hilos /\ d \notin CPUs /\ CPUs \subseteq Hilos
  BY ConstantesOK DEF Hilos
<1>2. \A t \in Hilos : fase'[t] = IF t = d THEN x ELSE fase[t]
  BY <1>1
<1>. QED  BY <1>1, <1>2 DEF DelCPU, Atendiendo, Liberando

\* A thread that goes on with a release, or ends it, serves whom it served.
LEMMA FaseDelQueLibera ==
  ASSUME fase \in [Hilos -> FasesCPU \cup FasesLiberar], NEW t \in Hilos, NEW x,
         fase[t] \in FasesLiberar, fase' = [fase EXCEPT ![t] = x]
  PROVE  /\ t \in Liberando
         /\ x \in FasesLiberar =>
              DelCPU' = DelCPU /\ Atendiendo' = Atendiendo /\ Liberando' = Liberando
         /\ x = (IF t \in CPUs THEN "respondeSignal" ELSE "espera") =>
              /\ DelCPU' = DelCPU /\ Atendiendo' = Atendiendo
              /\ Liberando' = Liberando \ {t}
<1>1. /\ \A u \in Hilos : fase'[u] = IF u = t THEN x ELSE fase[u]
      /\ CPUs \subseteq Hilos
  BY DEF Hilos
<1>2. t \in Liberando /\ t \notin DelCPU /\ (t \in CPUs => t \in Atendiendo)
  BY DEF Liberando, DelCPU, Atendiendo, FasesLiberar
<1>3. CASE x \in FasesLiberar
  BY <1>1, <1>2, <1>3 DEF Liberando, DelCPU, Atendiendo, FasesLiberar
<1>4. CASE x = (IF t \in CPUs THEN "respondeSignal" ELSE "espera")
  BY <1>1, <1>2, <1>4 DEF Liberando, DelCPU, Atendiendo, FasesLiberar
<1>. QED  BY <1>2, <1>3, <1>4

\* The kernel starts with every process outside.
LEMMA UbicacionInit == Init => FasesPropias /\ Ubicacion
<1>. SUFFICES ASSUME Init PROVE FasesPropias /\ Ubicacion
  OBVIOUS
<1>1. FasesPropias
  BY DEF Init, FasesPropias, FasesComunes, SinSemaforos, Hilos
<1>. DEFINE l == [p \in Procesos |-> "fuera"]
<1>2. l \in [Procesos -> Sitios] /\ \A p \in Procesos : l[p] = "fuera"
  BY DEF Sitios
<1>. HIDE DEF l
<1>3. DelCPU = {} /\ Atendiendo = {} /\ Liberando = {}
  BY DEF Init, DelCPU, Atendiendo, FasesLiberar, Liberando, Hilos
<1>0. \A p \in Procesos : l[p] # "semaforo"
  BY <1>2
<1>4. EnNew(l) /\ EnReady(l) /\ EnSusReady(l)
  BY <1>2 DEF Init, EnNew, EnReady, EnSusReady, Lista
<1>5. EnNuevo(l) /\ EnPreparado(l)
  BY <1>2, ConstantesOK DEF Init, EnNuevo, EnPreparado, Campo
<1>6. EnCPU(l) /\ EnServida(l) /\ EnLibera(l)
  BY <1>2, <1>3 DEF EnCPU, EnServida, EnLibera, Local
<1>7. EnIO(l)
  BY <1>2 DEF Init, EnIO, Listas
<1>8. EnFuera(l)
  BY <1>2 DEF Init, EnFuera
<1>. QED
  BY <1>0, <1>1, <1>2, <1>4, <1>5, <1>6, <1>7, <1>8 DEF Ubicacion, Ubicados

\* The threads let go of the process they release when they end.
LEMMA FasesComunesNext == Tipos /\ FasesComunes /\ [Next]_vars => FasesComunes'
<1>. SUFFICES ASSUME Tipos, FasesComunes PROVE [Next]_vars => FasesComunes'
  OBVIOUS
<1>t. /\ fase \in [Hilos -> FasesCPU \cup FasesLiberar]
      /\ liberado \in [Hilos -> Procesos \cup {Nadie}]
      /\ pedido \in [Procesos -> EstadosCliente]
      /\ liberados \subseteq Procesos
      /\ CPUs \subseteq Hilos /\ Dispositivos \subseteq Hilos
      /\ CPUs \cap Dispositivos = {}
  BY ConstantesOK DEF Tipos, TypeOK, Hilos
<1>1. ASSUME NEW p \in Procesos, LlegaProceso(p) PROVE FasesComunes'
  BY <1>1, <1>t DEF LlegaProceso, FasesComunes, hilos, medio
<1>2. ASSUME NEW p \in Procesos, RecibeRespuesta(p) PROVE FasesComunes'
  BY <1>2, <1>t DEF RecibeRespuesta, TrasRespuesta, FasesComunes, hilos, medio
<1>3. ASSUME NEW p \in Procesos, CaeCliente(p) PROVE FasesComunes'
  BY <1>3, <1>t DEF CaeCliente, FasesComunes, hilos, medio
<1>4. CASE LargoPlazoSaca \/ LargoPlazoAgrega
  BY <1>4 DEF LargoPlazoSaca, LargoPlazoAgrega, FasesComunes, hilos, clientes
<1>5. CASE CortoPlazo
  BY <1>5 DEF CortoPlazo, FasesComunes, hilos, medio, clientes
<1>6. ASSUME NEW c \in CPUs, TomaDeReady(c) PROVE FasesComunes'
  <2>1. /\ fase[c] = "espera" /\ fase' = [fase EXCEPT ![c] = "tomado"]
        /\ UNCHANGED <<liberado, fasePMP2, preparado, liberados, pedido>>
    BY <1>6 DEF TomaDeReady, medio, clientes
  <2>. QED  BY <2>1, <1>t DEF FasesComunes, FasesLiberar
<1>7. ASSUME NEW c \in CPUs, EntraEnExec(c) PROVE FasesComunes'
  BY <1>7, <1>t DEF EntraEnExec, FasesComunes, FasesLiberar, medio, clientes
<1>8. ASSUME NEW c \in CPUs, AvisaInicio(c) PROVE FasesComunes'
  BY <1>8, <1>t DEF AvisaInicio, FasesComunes, FasesLiberar, medio
<1>9. ASSUME NEW c \in CPUs, AvisaDesbloqueo(c) PROVE FasesComunes'
  <2>1. /\ fase[c] = "avisa" /\ fase' = [fase EXCEPT ![c] = "atiende"]
        /\ UNCHANGED <<liberado, fasePMP2, preparado, liberados, pedido>>
    BY <1>9 DEF AvisaDesbloqueo, medio
  <2>. QED  BY <2>1, <1>t DEF FasesComunes, FasesLiberar
<1>10. ASSUME NEW c \in CPUs, AtiendeOtra(c) PROVE FasesComunes'
  BY <1>10, <1>t DEF AtiendeOtra, Atiende, Llama, FasesComunes, FasesLiberar, medio
<1>11. ASSUME NEW c \in CPUs, NEW d \in Dispositivos, AtiendeIO(c, d) PROVE FasesComunes'
  BY <1>11, <1>t DEF AtiendeIO, Atiende, Llama, FasesComunes, FasesLiberar, medio
<1>12. ASSUME NEW c \in CPUs, AgregaADispositivo(c) PROVE FasesComunes'
  BY <1>12, <1>t DEF AgregaADispositivo, FasesComunes, FasesLiberar, medio, clientes
<1>13. ASSUME NEW c \in CPUs, AgregaABlocked(c) PROVE FasesComunes'
  BY <1>13, <1>t DEF AgregaABlocked, FasesComunes, FasesLiberar, medio, clientes
<1>14. ASSUME NEW c \in CPUs, CalculaEstimacion(c) PROVE FasesComunes'
  BY <1>14, <1>t DEF CalculaEstimacion, FasesComunes, FasesLiberar, medio, clientes
<1>15. ASSUME NEW c \in CPUs, AtiendeCerrar(c) PROVE FasesComunes'
  BY <1>15, <1>t DEF AtiendeCerrar, Atiende, Llama, FasesComunes, FasesLiberar, medio
<1>16. ASSUME NEW d \in Dispositivos, TerminaIO(d) PROVE FasesComunes'
  BY <1>16, <1>t DEF TerminaIO, FasesComunes, FasesLiberar, medio, clientes
<1>17. ASSUME NEW t \in Hilos, MiraSuspendidos(t) PROVE FasesComunes'
  <2>1. PICK x \in {"aSuspendedReady", "quitaDeBlocked"} : fase' = [fase EXCEPT ![t] = x]
    BY <1>17 DEF MiraSuspendidos
  <2>2. UNCHANGED <<liberado, fasePMP2, preparado, liberados, pedido>>
    BY <1>17 DEF MiraSuspendidos, medio, clientes
  <2>. QED  BY <2>1, <2>2, <1>t DEF FasesComunes, FasesLiberar
<1>18. ASSUME NEW t \in Hilos, ASuspendedReady(t) PROVE FasesComunes'
  BY <1>18, <1>t DEF ASuspendedReady, TrasLiberar, FasesComunes, medio, clientes
<1>19. ASSUME NEW t \in Hilos, QuitaDeBlocked(t) PROVE FasesComunes'
  BY <1>19, <1>t DEF QuitaDeBlocked, FasesComunes, FasesLiberar, medio, clientes
<1>20. ASSUME NEW t \in Hilos, AReady(t) PROVE FasesComunes'
  BY <1>20, <1>t DEF AReady, TrasLiberar, FasesComunes, medio, clientes
<1>21. CASE Suspende \/ NoSuspende
  BY <1>21 DEF Suspende, NoSuspende, FasesComunes, hilos, medio, clientes
<1>22. CASE PasoPMP2
  BY <1>22
  DEF PasoPMP2, DecideAdmision, SacaDeSuspendedReady, ReactivaSuspendido, FasesComunes,
      hilos, clientes
<1>23. CASE UNCHANGED vars
  BY <1>23 DEF vars, FasesComunes
<1>. QED
  BY <1>1, <1>2, <1>3, <1>4, <1>5, <1>6, <1>7, <1>8, <1>9, <1>10, <1>11, <1>12, <1>13,
     <1>14, <1>15, <1>16, <1>17, <1>18, <1>19, <1>20, <1>21, <1>22, <1>23
  DEF Next, PasoCPU, PasoLiberar, Reposo

\* Then a thread that releases a process is a device.
LEMMA LiberaUnDispositivo ==
  ASSUME SinSemaforos, NEW t \in Hilos, fase[t] \in FasesLiberar
  PROVE  t \in Dispositivos
  BY DEF SinSemaforos, Hilos, FasesLiberar

\* A CPU thread enters a call on a kernel semaphore by none of the steps here.
LEMMA SinSemaforosNext == Tipos /\ SinSemaforos /\ [Next]_vars => SinSemaforos'
<1>. SUFFICES ASSUME Tipos, SinSemaforos PROVE [Next]_vars => SinSemaforos'
  OBVIOUS
<1>t. fase \in [Hilos -> FasesCPU \cup FasesLiberar] /\ CPUs \subseteq Hilos
  BY DEF Tipos, TypeOK, Hilos
<1>d. \A d \in Dispositivos : d \notin CPUs
  BY ConstantesOK
<1>k. ASSUME UNCHANGED fase PROVE SinSemaforos'
  BY <1>k DEF SinSemaforos
<1>c. ASSUME NEW c \in CPUs,
             NEW x \in {"espera", "tomado", "enExec", "avisa", "atiende", "aDispositivo",
                        "aBlocked", "calcula"},
             fase' = [fase EXCEPT ![c] = x]
      PROVE  SinSemaforos'
  BY <1>c, <1>t DEF SinSemaforos
<1>h. ASSUME NEW d \in Dispositivos, NEW x, fase' = [fase EXCEPT ![d] = x]
      PROVE  SinSemaforos'
  BY <1>h, <1>t, <1>d DEF SinSemaforos
<1>1. ASSUME NEW p \in Procesos, LlegaProceso(p) \/ RecibeRespuesta(p) \/ CaeCliente(p)
      PROVE  SinSemaforos'
  BY <1>1, <1>k DEF LlegaProceso, RecibeRespuesta, CaeCliente, hilos
<1>2. CASE LargoPlazoSaca \/ LargoPlazoAgrega \/ CortoPlazo \/ Suspende \/ NoSuspende
           \/ PasoPMP2 \/ UNCHANGED vars
  BY <1>2, <1>k
  DEF LargoPlazoSaca, LargoPlazoAgrega, CortoPlazo, Suspende, NoSuspende, PasoPMP2,
      DecideAdmision, SacaDeSuspendedReady, ReactivaSuspendido, vars, hilos
<1>3. ASSUME NEW c \in CPUs, PasoCPU(c) PROVE SinSemaforos'
  BY <1>3, <1>c
  DEF PasoCPU, TomaDeReady, EntraEnExec, AvisaInicio, AvisaDesbloqueo, AtiendeOtra,
      AtiendeIO, AgregaADispositivo, AgregaABlocked, CalculaEstimacion, AtiendeCerrar
<1>4. ASSUME NEW d \in Dispositivos, TerminaIO(d) PROVE SinSemaforos'
  BY <1>4, <1>h DEF TerminaIO
<1>5. ASSUME NEW t \in Hilos, PasoLiberar(t) PROVE SinSemaforos'
  <2>1. t \in Dispositivos
    BY <1>5
    DEF SinSemaforos, Hilos, PasoLiberar, MiraSuspendidos, ASuspendedReady,
        QuitaDeBlocked, AReady
  <2>. QED
    BY <2>1, <1>5, <1>h
    DEF PasoLiberar, MiraSuspendidos, ASuspendedReady, QuitaDeBlocked, AReady, TrasLiberar
<1>. QED  BY <1>1, <1>2, <1>3, <1>4, <1>5 DEF Next, Reposo

\* A step moves one process from its site to the next one, or none.
LEMMA UbicadosNext ==
  ASSUME Tipos, NuncaSacaDeVacia, FasesComunes,
         NEW l \in [Procesos -> Sitios], Ubicados(l), [Next]_vars
  PROVE  \E m \in [Procesos -> Sitios] : Ubicados(m)' /\ Igual(l, m, "semaforo")
<1>t. /\ fase \in [Hilos -> FasesCPU \cup FasesLiberar]
      /\ ejecutando \in [CPUs -> Procesos \cup {Nadie}]
      /\ liberado \in [Hilos -> Procesos \cup {Nadie}]
      /\ pedido \in [Procesos -> EstadosCliente]
      /\ procesosNew \in Seq(Procesos) /\ procesosReady \in Seq(Procesos)
      /\ procesosSuspendedReady \in Seq(Procesos)
      /\ listaEspera \in [Dispositivos -> Seq(Procesos)]
      /\ CPUs \subseteq Hilos /\ Dispositivos \subseteq Hilos
  BY DEF Tipos, TypeOK, Hilos
<1>m. \A q \in Procesos, y \in Sitios :
        /\ Muda(l, q, y) \in [Procesos -> Sitios]
        /\ \A x \in Sitios \ {l[q], y} : Igual(l, Muda(l, q, y), x)
  BY OtroSitio DEF Muda
<1>f. \A c \in CPUs : fase[c] # "espera" => ejecutando[c] \in Procesos
  BY DEF Tipos, HilosConsistentes
\* a step that changes nothing of what the sites are about keeps the map
<1>k. ASSUME /\ Conservan(DelCPU, ejecutando) /\ Conservan(Atendiendo, ejecutando)
             /\ Conservan(Liberando, liberado)
             /\ UNCHANGED <<procesosNew, nuevo, procesosReady, listaEspera,
                            procesosSuspendedReady, preparado>>
             /\ \A p \in Procesos :
                  (pedido[p] = "sinConectar" \/ p \in liberados)
                    <=> (pedido'[p] = "sinConectar" \/ p \in liberados')
      PROVE  \E m \in [Procesos -> Sitios] : Ubicados(m)' /\ Igual(l, m, "semaforo")
  <2>1. \A x : Igual(l, l, x)
    BY DEF Igual
  <2>2. EnFuera(l)'
    BY <1>k DEF Ubicados, EnFuera
  <2>. QED  BY <1>k, <2>1, <2>2, Queda DEF Ubicados
<1>1. ASSUME NEW p \in Procesos, LlegaProceso(p)
      PROVE  \E m \in [Procesos -> Sitios] : Ubicados(m)' /\ Igual(l, m, "semaforo")
  <2>q. p \in Procesos /\ l[p] = "fuera" /\ "new" \in Sitios
    BY <1>1 DEF LlegaProceso, Ubicados, EnFuera, Sitios
  <2>. DEFINE m == Muda(l, p, "new")
  <2>m. m \in [Procesos -> Sitios]
    BY <2>q, <1>m
  <2>i. \A x \in Sitios \ {"fuera", "new"} : Igual(l, m, x)
    BY <2>q, <1>m
  <2>u. /\ procesosNew' = Append(procesosNew, p)
        /\ pedido' = [pedido EXCEPT ![p] = "INICIALIZAR_ESTRUCTURA"]
        /\ UNCHANGED <<procesosReady, procesosSuspendedReady, listaEspera, nuevo,
                       preparado, fase, ejecutando, liberado, liberados>>
        /\ Conservan(DelCPU, ejecutando) /\ Conservan(Atendiendo, ejecutando)
        /\ Conservan(Liberando, liberado)
    BY <1>1, <1>t DEF LlegaProceso, hilos, medio, Conservan, DelCPU, Atendiendo,
      FasesLiberar, Liberando
  <2>New. EnNew(m)'
    BY <2>q, <2>u, <1>t, EntraALista DEF Ubicados, EnNew
  <2>Fuera. EnFuera(m)'
    BY <2>q, <2>u, <1>1, <1>t DEF Ubicados, EnFuera, Muda, FasesComunes, LlegaProceso
  <2>. HIDE DEF m
  <2>o. /\ Igual(l, m, "semaforo")
        /\ EnNuevo(m)' /\ EnReady(m)' /\ EnCPU(m)' /\ EnServida(m)' /\ EnIO(m)'
        /\ EnLibera(m)' /\ EnSusReady(m)' /\ EnPreparado(m)'
    BY <2>i, <2>u, Queda DEF Sitios, Conservan
  <2>. QED  BY <2>m, <2>o, <2>New, <2>Fuera DEF Ubicados
<1>2. ASSUME NEW p \in Procesos, RecibeRespuesta(p) \/ CaeCliente(p)
      PROVE  \E m \in [Procesos -> Sitios] : Ubicados(m)' /\ Igual(l, m, "semaforo")
  <2>u. /\ UNCHANGED <<procesosNew, nuevo, procesosReady, listaEspera, fase, ejecutando,
                       liberado, procesosSuspendedReady, preparado, liberados>>
        /\ \A r \in Procesos : pedido[r] = "sinConectar" <=> pedido'[r] = "sinConectar"
        /\ Conservan(DelCPU, ejecutando) /\ Conservan(Atendiendo, ejecutando)
        /\ Conservan(Liberando, liberado)
    BY <1>2, <1>t DEF RecibeRespuesta, CaeCliente, TrasRespuesta, Codigos, colas, hilos,
      medio, Conservan, DelCPU, Atendiendo, FasesLiberar, Liberando
  <2>. QED  BY <2>u, <1>k
<1>3. CASE LargoPlazoSaca
  <2>1. procesosNew # <<>> /\ Head(procesosNew) \in Procesos
    BY <1>3, <1>t DEF LargoPlazoSaca, NuncaSacaDeVacia
  <2>2. PICK q \in Procesos : q = Head(procesosNew)
    BY <2>1
  <2>3. l[q] = "new" /\ Lista(Muda(l, q, "nuevo"), Tail(procesosNew), "new")
    BY <2>1, <2>2, <1>t, SaleLaCabeza, Zenon DEF Ubicados, EnNew
  <2>q. q \in Procesos /\ l[q] = "new" /\ "nuevo" \in Sitios
    BY <2>3 DEF Sitios
  <2>. DEFINE m == Muda(l, q, "nuevo")
  <2>m. m \in [Procesos -> Sitios]
    BY <2>q, <1>m
  <2>i. \A x \in Sitios \ {"new", "nuevo"} : Igual(l, m, x)
    BY <2>q, <1>m
  <2>u. /\ procesosNew' = Tail(procesosNew) /\ nuevo = Nadie /\ nuevo' = Head(procesosNew)
        /\ UNCHANGED <<procesosReady, procesosSuspendedReady, listaEspera, preparado,
                       fase, ejecutando, liberado, liberados, pedido>>
        /\ Conservan(DelCPU, ejecutando) /\ Conservan(Atendiendo, ejecutando)
        /\ Conservan(Liberando, liberado)
    BY <1>3, <1>t DEF LargoPlazoSaca, hilos, clientes, Conservan, DelCPU,
      Atendiendo, FasesLiberar, Liberando
  <2>New. EnNew(m)'
    BY <2>3, <2>u DEF EnNew
  <2>Nuevo. EnNuevo(m)'
    BY <2>2, <2>u, ConstantesOK DEF Ubicados, EnNuevo, Campo, Muda
  <2>. HIDE DEF m
  <2>o. /\ Igual(l, m, "semaforo")
        /\ EnReady(m)' /\ EnCPU(m)' /\ EnServida(m)' /\ EnIO(m)' /\ EnLibera(m)'
        /\ EnSusReady(m)' /\ EnPreparado(m)' /\ EnFuera(m)'
    BY <2>i, <2>u, Queda DEF Sitios, Conservan
  <2>. QED  BY <2>m, <2>o, <2>New, <2>Nuevo DEF Ubicados
<1>4. CASE LargoPlazoAgrega
  <2>1. PICK q \in Procesos : q = nuevo
    BY <1>4 DEF LargoPlazoAgrega, Tipos, TypeOK
  <2>q. q \in Procesos /\ l[q] = "nuevo" /\ "ready" \in Sitios
    BY <2>1 DEF Ubicados, EnNuevo, Campo, Sitios
  <2>. DEFINE m == Muda(l, q, "ready")
  <2>m. m \in [Procesos -> Sitios]
    BY <2>q, <1>m
  <2>i. \A x \in Sitios \ {"nuevo", "ready"} : Igual(l, m, x)
    BY <2>q, <1>m
  <2>u. /\ procesosReady' = Append(procesosReady, q) /\ nuevo' = Nadie
        /\ UNCHANGED <<procesosNew, procesosSuspendedReady, listaEspera, preparado,
                       fase, ejecutando, liberado, liberados, pedido>>
        /\ Conservan(DelCPU, ejecutando) /\ Conservan(Atendiendo, ejecutando)
        /\ Conservan(Liberando, liberado)
    BY <1>4, <1>t, <2>1 DEF LargoPlazoAgrega, hilos, clientes, Conservan, DelCPU,
      Atendiendo, FasesLiberar, Liberando
  <2>Ready. EnReady(m)'
    BY <2>q, <2>u, <1>t, EntraALista DEF Ubicados, EnReady
  <2>Nuevo. EnNuevo(m)'
    BY <2>1, <2>u, ConstantesOK DEF Ubicados, EnNuevo, Campo, Muda
  <2>. HIDE DEF m
  <2>o. /\ Igual(l, m, "semaforo")
        /\ EnNew(m)' /\ EnCPU(m)' /\ EnServida(m)' /\ EnIO(m)' /\ EnLibera(m)'
        /\ EnSusReady(m)' /\ EnPreparado(m)' /\ EnFuera(m)'
    BY <2>i, <2>u, Queda DEF Sitios, Conservan
  <2>. QED  BY <2>m, <2>o, <2>Ready, <2>Nuevo DEF Ubicados
<1>5. CASE CortoPlazo \/ Suspende \/ NoSuspende \/ DecideAdmision \/ UNCHANGED vars
  <2>u. /\ UNCHANGED <<procesosNew, nuevo, procesosReady, listaEspera, fase, ejecutando,
                       liberado, procesosSuspendedReady, preparado, liberados, pedido>>
        /\ Conservan(DelCPU, ejecutando) /\ Conservan(Atendiendo, ejecutando)
        /\ Conservan(Liberando, liberado)
    BY <1>5 DEF CortoPlazo, Suspende, NoSuspende, DecideAdmision, vars, colas, hilos,
      medio, clientes, Conservan, DelCPU, Atendiendo, FasesLiberar, Liberando
  <2>. QED  BY <2>u, <1>k
<1>6. ASSUME NEW c \in CPUs, TomaDeReady(c)
      PROVE  \E m \in [Procesos -> Sitios] : Ubicados(m)' /\ Igual(l, m, "semaforo")
  <2>1. PICK i \in 1..Len(procesosReady) :
          /\ ejecutando' = [ejecutando EXCEPT ![c] = procesosReady[i]]
          /\ procesosReady' = RemoveAt(procesosReady, i)
    BY <1>6 DEF TomaDeReady, PrimeroTrasOrdenar
  <2>2. PICK q \in Procesos : q = procesosReady[i]
    BY <1>t
  <2>3. l[q] = "ready" /\ Lista(Muda(l, q, "cpu"), RemoveAt(procesosReady, i), "ready")
    <3>1. Lista(l, procesosReady, "ready")
      BY DEF Ubicados, EnReady
    <3>2. "ready" # "cpu"
      OBVIOUS
    <3>. QED  BY <2>2, <3>1, <3>2, <1>t, SaleDeLista
  <2>q. q \in Procesos /\ l[q] = "ready" /\ "cpu" \in Sitios
    BY <2>3 DEF Sitios
  <2>4. fase' = [fase EXCEPT ![c] = "tomado"] /\ fase[c] = "espera"
    BY <1>6 DEF TomaDeReady
  <2>5. /\ DelCPU' = DelCPU \cup {c} /\ c \notin DelCPU /\ c \notin Atendiendo
        /\ Atendiendo' = Atendiendo /\ Liberando' = Liberando
    BY <2>4, <1>t, FaseDeCPU DEF DelCPU, Atendiendo, FasesLiberar
  <2>6. \A b \in CPUs : ejecutando'[b] = IF b = c THEN q ELSE ejecutando[b]
    BY <2>1, <2>2, <1>t
  <2>. DEFINE m == Muda(l, q, "cpu")
  <2>m. m \in [Procesos -> Sitios]
    BY <2>q, <1>m
  <2>i. \A x \in Sitios \ {"ready", "cpu"} : Igual(l, m, x)
    BY <2>q, <1>m
  <2>u. /\ UNCHANGED <<procesosNew, nuevo, procesosSuspendedReady, listaEspera, preparado,
                       liberado, liberados, pedido>>
        /\ Conservan(Atendiendo, ejecutando) /\ Conservan(Liberando, liberado)
    BY <1>6, <1>t, <2>5, <2>6 DEF TomaDeReady, medio, clientes, Conservan, Atendiendo,
      FasesLiberar
  <2>Ready. EnReady(m)'
    BY <2>1, <2>3 DEF EnReady
  <2>CPU. EnCPU(m)'
    <3>1. \A u \in DelCPU : ejecutando'[u] = ejecutando[u]
      BY <2>5, <2>6 DEF DelCPU
    <3>2. Local(l, ejecutando, DelCPU, "cpu") /\ l[q] # "cpu" /\ ejecutando'[c] = q
      BY <2>q, <2>6 DEF Ubicados, EnCPU
    <3>. QED  BY <2>q, <2>5, <3>1, <3>2, EntraALocal DEF EnCPU
  <2>. HIDE DEF m
  <2>o. /\ Igual(l, m, "semaforo")
        /\ EnNew(m)' /\ EnNuevo(m)' /\ EnServida(m)' /\ EnIO(m)' /\ EnLibera(m)'
        /\ EnSusReady(m)' /\ EnPreparado(m)' /\ EnFuera(m)'
    BY <2>i, <2>u, Queda DEF Sitios, Conservan
  <2>. QED  BY <2>m, <2>o, <2>Ready, <2>CPU DEF Ubicados
<1>7. ASSUME NEW c \in CPUs, EntraEnExec(c)
      PROVE  \E m \in [Procesos -> Sitios] : Ubicados(m)' /\ Igual(l, m, "semaforo")
  <2>1. /\ fase' = [fase EXCEPT ![c] = "enExec"] /\ fase[c] = "tomado"
        /\ UNCHANGED <<procesosNew, nuevo, procesosReady, listaEspera, ejecutando,
                       liberado, procesosSuspendedReady, preparado, liberados>>
        /\ \A r \in Procesos : pedido[r] = "sinConectar" <=> pedido'[r] = "sinConectar"
    BY <1>7, <1>t DEF EntraEnExec, medio, clientes
  <2>2. DelCPU' = DelCPU /\ Atendiendo' = Atendiendo /\ Liberando' = Liberando
    BY <2>1, <1>t, FaseDeCPU DEF DelCPU, Atendiendo, FasesLiberar
  <2>. QED  BY <2>1, <2>2, <1>k DEF Conservan
<1>8. ASSUME NEW c \in CPUs, AvisaInicio(c)
      PROVE  \E m \in [Procesos -> Sitios] : Ubicados(m)' /\ Igual(l, m, "semaforo")
  <2>1. fase' = [fase EXCEPT ![c] = "avisa"] /\ fase[c] = "enExec"
    BY <1>8 DEF AvisaInicio
  <2>2. PICK q \in Procesos : q = ejecutando[c]
    BY <2>1, <1>f
  <2>5. /\ DelCPU' = DelCPU \ {c} /\ c \in DelCPU
        /\ Atendiendo' = Atendiendo \cup {c} /\ c \notin Atendiendo
        /\ Liberando' = Liberando
    BY <2>1, <1>t, FaseDeCPU DEF DelCPU, Atendiendo, FasesLiberar
  <2>3. l[q] = "cpu" /\ Local(Muda(l, q, "servida"), ejecutando, DelCPU \ {c}, "cpu")
    <3>1. Local(l, ejecutando, DelCPU, "cpu")
      BY DEF Ubicados, EnCPU
    <3>2. "cpu" # "servida"
      OBVIOUS
    <3>. QED  BY <2>2, <2>5, <3>1, <3>2, SaleDeLocal
  <2>q. q \in Procesos /\ l[q] = "cpu" /\ "servida" \in Sitios
    BY <2>3 DEF Sitios
  <2>. DEFINE m == Muda(l, q, "servida")
  <2>m. m \in [Procesos -> Sitios]
    BY <2>q, <1>m
  <2>i. \A x \in Sitios \ {"cpu", "servida"} : Igual(l, m, x)
    BY <2>q, <1>m
  <2>u. /\ UNCHANGED <<procesosNew, nuevo, procesosReady, procesosSuspendedReady,
                       listaEspera, preparado, liberado, liberados, ejecutando>>
        /\ \A r \in Procesos : pedido[r] = "sinConectar" <=> pedido'[r] = "sinConectar"
        /\ Conservan(Liberando, liberado)
    BY <1>8, <1>t, <2>5 DEF AvisaInicio, colas, medio, clientes, Conservan
  <2>CPU. EnCPU(m)'
    BY <2>2, <2>3, <2>u, <2>5 DEF EnCPU
  <2>Servida. EnServida(m)'
    <3>1. l[q] # "servida" /\ Local(l, ejecutando, Atendiendo, "servida")
      BY <2>q DEF Ubicados, EnServida
    <3>. QED  BY <2>2, <2>5, <2>u, <3>1, EntraALocal DEF EnServida
  <2>Fuera. EnFuera(m)'
    BY <2>i, <2>u DEF Ubicados, EnFuera, Igual, Sitios
  <2>. HIDE DEF m
  <2>o. /\ Igual(l, m, "semaforo")
        /\ EnNew(m)' /\ EnNuevo(m)' /\ EnReady(m)' /\ EnIO(m)' /\ EnLibera(m)'
        /\ EnSusReady(m)' /\ EnPreparado(m)'
    BY <2>i, <2>u, Queda DEF Sitios, Conservan
  <2>. QED  BY <2>m, <2>o, <2>CPU, <2>Servida, <2>Fuera DEF Ubicados
<1>9. ASSUME NEW c \in CPUs, AvisaDesbloqueo(c)
      PROVE  \E m \in [Procesos -> Sitios] : Ubicados(m)' /\ Igual(l, m, "semaforo")
  <2>1. /\ fase' = [fase EXCEPT ![c] = "atiende"] /\ fase[c] = "avisa"
        /\ UNCHANGED <<procesosNew, nuevo, procesosReady, listaEspera, ejecutando,
                       liberado, procesosSuspendedReady, preparado, liberados>>
        /\ \A r \in Procesos : pedido[r] = "sinConectar" <=> pedido'[r] = "sinConectar"
    BY <1>9, <1>t DEF AvisaDesbloqueo, colas, medio
  <2>2. DelCPU' = DelCPU /\ Atendiendo' = Atendiendo /\ Liberando' = Liberando
    BY <2>1, <1>t, FaseDeCPU DEF DelCPU, Atendiendo, FasesLiberar
  <2>. QED  BY <2>1, <2>2, <1>k DEF Conservan
<1>10. ASSUME NEW c \in CPUs, AtiendeOtra(c)
      PROVE  \E m \in [Procesos -> Sitios] : Ubicados(m)' /\ Igual(l, m, "semaforo")
  <2>1. /\ fase' = [fase EXCEPT ![c] = "avisa"] /\ fase[c] = "atiende"
        /\ UNCHANGED <<procesosNew, nuevo, procesosReady, listaEspera, ejecutando,
                       liberado, procesosSuspendedReady, preparado, liberados>>
        /\ \A r \in Procesos : pedido[r] = "sinConectar" <=> pedido'[r] = "sinConectar"
    BY <1>10, <1>t DEF AtiendeOtra, Atiende, Llama, colas, medio
  <2>2. DelCPU' = DelCPU /\ Atendiendo' = Atendiendo /\ Liberando' = Liberando
    BY <2>1, <1>t, FaseDeCPU DEF DelCPU, Atendiendo, FasesLiberar
  <2>. QED  BY <2>1, <2>2, <1>k DEF Conservan
<1>11. ASSUME NEW c \in CPUs, NEW d \in Dispositivos, AtiendeIO(c, d)
      PROVE  \E m \in [Procesos -> Sitios] : Ubicados(m)' /\ Igual(l, m, "semaforo")
  <2>1. fase' = [fase EXCEPT ![c] = "aDispositivo"] /\ fase[c] = "atiende"
    BY <1>11 DEF AtiendeIO, Atiende, Llama
  <2>2. PICK q \in Procesos : q = ejecutando[c]
    BY <2>1, <1>f
  <2>5. /\ Atendiendo' = Atendiendo \ {c} /\ c \in Atendiendo
        /\ DelCPU' = DelCPU \cup {c} /\ c \notin DelCPU
        /\ Liberando' = Liberando
    BY <2>1, <1>t, FaseDeCPU DEF Atendiendo, FasesLiberar, DelCPU
  <2>3. l[q] = "servida" /\ Local(Muda(l, q, "cpu"), ejecutando, Atendiendo \ {c}, "servida")
    <3>1. Local(l, ejecutando, Atendiendo, "servida")
      BY DEF Ubicados, EnServida
    <3>2. "servida" # "cpu"
      OBVIOUS
    <3>. QED  BY <2>2, <2>5, <3>1, <3>2, SaleDeLocal
  <2>q. q \in Procesos /\ l[q] = "servida" /\ "cpu" \in Sitios
    BY <2>3 DEF Sitios
  <2>. DEFINE m == Muda(l, q, "cpu")
  <2>m. m \in [Procesos -> Sitios]
    BY <2>q, <1>m
  <2>i. \A x \in Sitios \ {"servida", "cpu"} : Igual(l, m, x)
    BY <2>q, <1>m
  <2>u. /\ UNCHANGED <<procesosNew, nuevo, procesosReady, procesosSuspendedReady,
                       listaEspera, preparado, liberado, liberados, ejecutando>>
        /\ \A r \in Procesos : pedido[r] = "sinConectar" <=> pedido'[r] = "sinConectar"
        /\ Conservan(Liberando, liberado)
    BY <1>11, <1>t, <2>5 DEF AtiendeIO, Atiende, Llama, colas, medio, clientes, Conservan
  <2>Servida. EnServida(m)'
    BY <2>2, <2>3, <2>u, <2>5 DEF EnServida
  <2>CPU. EnCPU(m)'
    <3>1. l[q] # "cpu" /\ Local(l, ejecutando, DelCPU, "cpu")
      BY <2>q DEF Ubicados, EnCPU
    <3>. QED  BY <2>2, <2>5, <2>u, <3>1, EntraALocal DEF EnCPU
  <2>Fuera. EnFuera(m)'
    BY <2>i, <2>u DEF Ubicados, EnFuera, Igual, Sitios
  <2>. HIDE DEF m
  <2>o. /\ Igual(l, m, "semaforo")
        /\ EnNew(m)' /\ EnNuevo(m)' /\ EnReady(m)' /\ EnIO(m)' /\ EnLibera(m)'
        /\ EnSusReady(m)' /\ EnPreparado(m)'
    BY <2>i, <2>u, Queda DEF Sitios, Conservan
  <2>. QED  BY <2>m, <2>o, <2>Servida, <2>CPU, <2>Fuera DEF Ubicados
<1>12. ASSUME NEW c \in CPUs, AgregaADispositivo(c)
      PROVE  \E m \in [Procesos -> Sitios] : Ubicados(m)' /\ Igual(l, m, "semaforo")
  <2>1. fase' = [fase EXCEPT ![c] = "aBlocked"] /\ fase[c] = "aDispositivo"
    BY <1>12 DEF AgregaADispositivo
  <2>2. PICK q \in Procesos : q = ejecutando[c]
    BY <2>1, <1>f
  <2>5. /\ DelCPU' = DelCPU \ {c} /\ c \in DelCPU
        /\ Atendiendo' = Atendiendo /\ Liberando' = Liberando
    BY <2>1, <1>t, FaseDeCPU DEF DelCPU, Atendiendo, FasesLiberar
  <2>3. l[q] = "cpu" /\ Local(Muda(l, q, "io"), ejecutando, DelCPU \ {c}, "cpu")
    <3>1. Local(l, ejecutando, DelCPU, "cpu")
      BY DEF Ubicados, EnCPU
    <3>2. "cpu" # "io"
      OBVIOUS
    <3>. QED  BY <2>2, <2>5, <3>1, <3>2, SaleDeLocal
  <2>4. PICK d \in Dispositivos : d = dispositivo[c]
    BY <2>1 DEF Tipos, HilosConsistentes
  <2>q. q \in Procesos /\ l[q] = "cpu" /\ "io" \in Sitios
    BY <2>3 DEF Sitios
  <2>. DEFINE m == Muda(l, q, "io")
  <2>m. m \in [Procesos -> Sitios]
    BY <2>q, <1>m
  <2>i. \A x \in Sitios \ {"cpu", "io"} : Igual(l, m, x)
    BY <2>q, <1>m
  <2>u. /\ listaEspera' = [listaEspera EXCEPT ![d] = Append(@, q)]
        /\ UNCHANGED <<procesosNew, nuevo, procesosReady, procesosSuspendedReady,
                       preparado, liberado, liberados, ejecutando, pedido>>
        /\ Conservan(Atendiendo, ejecutando) /\ Conservan(Liberando, liberado)
    BY <1>12, <1>t, <2>2, <2>4, <2>5 DEF AgregaADispositivo, colas, medio, clientes,
      Conservan
  <2>CPU. EnCPU(m)'
    BY <2>3, <2>5, <2>u DEF EnCPU
  <2>IO. EnIO(m)'
    <3>1. Listas(l, listaEspera, Dispositivos, "io") /\ l[q] # "io"
      BY <2>q DEF Ubicados, EnIO
    <3>. QED  BY <2>u, <3>1, <1>t, EntraAListas DEF EnIO
  <2>. HIDE DEF m
  <2>o. /\ Igual(l, m, "semaforo")
        /\ EnNew(m)' /\ EnNuevo(m)' /\ EnReady(m)' /\ EnServida(m)'
        /\ EnLibera(m)' /\ EnSusReady(m)' /\ EnPreparado(m)' /\ EnFuera(m)'
    BY <2>i, <2>u, Queda DEF Sitios, Conservan
  <2>. QED  BY <2>m, <2>o, <2>CPU, <2>IO DEF Ubicados
<1>13. ASSUME NEW c \in CPUs, AgregaABlocked(c)
      PROVE  \E m \in [Procesos -> Sitios] : Ubicados(m)' /\ Igual(l, m, "semaforo")
  <2>1. /\ fase' = [fase EXCEPT ![c] = "calcula"] /\ fase[c] = "aBlocked"
        /\ UNCHANGED <<procesosNew, nuevo, procesosReady, listaEspera, ejecutando,
                       liberado, procesosSuspendedReady, preparado, liberados>>
        /\ \A r \in Procesos : pedido[r] = "sinConectar" <=> pedido'[r] = "sinConectar"
    BY <1>13, <1>t DEF AgregaABlocked, medio, clientes
  <2>2. DelCPU' = DelCPU /\ Atendiendo' = Atendiendo /\ Liberando' = Liberando
    BY <2>1, <1>t, FaseDeCPU DEF DelCPU, Atendiendo, FasesLiberar
  <2>. QED  BY <2>1, <2>2, <1>k DEF Conservan
<1>14. ASSUME NEW c \in CPUs, CalculaEstimacion(c)
      PROVE  \E m \in [Procesos -> Sitios] : Ubicados(m)' /\ Igual(l, m, "semaforo")
  <2>1. /\ fase' = [fase EXCEPT ![c] = "espera"] /\ fase[c] = "calcula"
        /\ ejecutando' = [ejecutando EXCEPT ![c] = Nadie]
        /\ UNCHANGED <<procesosNew, nuevo, procesosReady, listaEspera, liberado,
                       procesosSuspendedReady, preparado, liberados, pedido>>
    BY <1>14 DEF CalculaEstimacion, colas, medio, clientes
  <2>2. /\ DelCPU' = DelCPU /\ Atendiendo' = Atendiendo /\ Liberando' = Liberando
        /\ c \notin DelCPU /\ c \notin Atendiendo
    BY <2>1, <1>t, FaseDeCPU DEF DelCPU, Atendiendo, FasesLiberar
  <2>3. \A b \in CPUs \ {c} : ejecutando'[b] = ejecutando[b]
    BY <2>1, <1>t
  <2>. QED  BY <2>1, <2>2, <2>3, <1>k DEF Conservan, DelCPU, Atendiendo, FasesLiberar
<1>15. ASSUME NEW c \in CPUs, AtiendeCerrar(c)
      PROVE  \E m \in [Procesos -> Sitios] : Ubicados(m)' /\ Igual(l, m, "semaforo")
  <2>1. fase' = [fase EXCEPT ![c] = "espera"] /\ fase[c] = "atiende"
    BY <1>15 DEF AtiendeCerrar, Atiende
  <2>2. PICK q \in Procesos : q = ejecutando[c]
    BY <2>1, <1>f
  <2>5. /\ Atendiendo' = Atendiendo \ {c} /\ c \in Atendiendo
        /\ DelCPU' = DelCPU /\ c \notin DelCPU /\ Liberando' = Liberando
    BY <2>1, <1>t, FaseDeCPU DEF DelCPU, Atendiendo, FasesLiberar
  <2>6. \A b \in CPUs \ {c} : ejecutando'[b] = ejecutando[b]
    BY <1>15, <1>t DEF AtiendeCerrar
  <2>3. l[q] = "servida" /\ Local(Muda(l, q, "fuera"), ejecutando', Atendiendo \ {c}, "servida")
    <3>1. Local(l, ejecutando, Atendiendo, "servida")
      BY DEF Ubicados, EnServida
    <3>2. "servida" # "fuera"
      OBVIOUS
    <3>3. \A b \in Atendiendo \ {c} : ejecutando'[b] = ejecutando[b]
      BY <2>6 DEF Atendiendo, FasesLiberar
    <3>4. l[q] = "servida" /\ Local(Muda(l, q, "fuera"), ejecutando, Atendiendo \ {c}, "servida")
      BY <2>2, <2>5, <3>1, <3>2, SaleDeLocal
    <3>. QED  BY <3>3, <3>4, MismoLocal
  <2>q. q \in Procesos /\ l[q] = "servida" /\ "fuera" \in Sitios
    BY <2>3 DEF Sitios
  <2>. DEFINE m == Muda(l, q, "fuera")
  <2>m. m \in [Procesos -> Sitios]
    BY <2>q, <1>m
  <2>i. \A x \in Sitios \ {"servida", "fuera"} : Igual(l, m, x)
    BY <2>q, <1>m
  <2>u. /\ liberados' = liberados \cup {q}
        /\ pedido' = [pedido EXCEPT ![q] = "CERRAR_INSTANCIA"] /\ pedido[q] = "ninguno"
        /\ UNCHANGED <<procesosNew, nuevo, procesosReady, procesosSuspendedReady,
                       listaEspera, preparado, liberado>>
        /\ Conservan(DelCPU, ejecutando) /\ Conservan(Liberando, liberado)
    BY <1>15, <1>t, <2>2, <2>5, <2>6 DEF AtiendeCerrar, Atiende, Llama, medio, Conservan,
      DelCPU
  <2>Servida. EnServida(m)'
    BY <2>3, <2>5 DEF EnServida
  <2>Fuera. EnFuera(m)'
    BY <2>q, <2>u, <1>t DEF Ubicados, EnFuera, Muda
  <2>. HIDE DEF m
  <2>o. /\ Igual(l, m, "semaforo")
        /\ EnNew(m)' /\ EnNuevo(m)' /\ EnReady(m)' /\ EnCPU(m)' /\ EnIO(m)'
        /\ EnLibera(m)' /\ EnSusReady(m)' /\ EnPreparado(m)'
    BY <2>i, <2>u, Queda DEF Sitios, Conservan
  <2>. QED  BY <2>m, <2>o, <2>Servida, <2>Fuera DEF Ubicados
<1>16. ASSUME NEW d \in Dispositivos, TerminaIO(d)
      PROVE  \E m \in [Procesos -> Sitios] : Ubicados(m)' /\ Igual(l, m, "semaforo")
  <2>1. /\ fase' = [fase EXCEPT ![d] = "miraSuspendidos"] /\ fase[d] = "espera"
        /\ liberado' = [liberado EXCEPT ![d] = Head(listaEspera[d])]
        /\ listaEspera[d] # <<>>
    BY <1>16 DEF TerminaIO, NuncaSacaDeVacia
  <2>2. PICK q \in Procesos : q = Head(listaEspera[d])
    BY <2>1, <1>t, CabezaEsLaPrimera
  <2>3. /\ l[q] = "io"
        /\ Listas(Muda(l, q, "libera"), [listaEspera EXCEPT ![d] = Tail(@)],
                  Dispositivos, "io")
    <3>1. Listas(l, listaEspera, Dispositivos, "io") /\ "io" # "libera"
      BY DEF Ubicados, EnIO
    <3>. QED  BY <2>1, <2>2, <3>1, <1>t, SaleDeListas
  <2>5. /\ Liberando' = Liberando \cup {d} /\ d \notin Liberando
        /\ DelCPU' = DelCPU /\ Atendiendo' = Atendiendo
    <3>1. "miraSuspendidos" \in FasesLiberar /\ "espera" \notin FasesLiberar
      BY DEF FasesLiberar
    <3>. QED  BY <2>1, <3>1, <1>t, FaseDeDispositivo DEF Liberando
  <2>6. \A t \in Hilos : liberado'[t] = IF t = d THEN q ELSE liberado[t]
    BY <2>1, <2>2, <1>t
  <2>q. q \in Procesos /\ l[q] = "io" /\ "libera" \in Sitios
    BY <2>3 DEF Sitios
  <2>. DEFINE m == Muda(l, q, "libera")
  <2>m. m \in [Procesos -> Sitios]
    BY <2>q, <1>m
  <2>i. \A x \in Sitios \ {"io", "libera"} : Igual(l, m, x)
    BY <2>q, <1>m
  <2>u. /\ listaEspera' = [listaEspera EXCEPT ![d] = Tail(@)]
        /\ UNCHANGED <<procesosNew, nuevo, procesosReady, procesosSuspendedReady,
                       preparado, liberados, ejecutando, pedido>>
        /\ Conservan(DelCPU, ejecutando) /\ Conservan(Atendiendo, ejecutando)
    BY <1>16, <1>t, <2>5 DEF TerminaIO, colas, medio, clientes, Conservan
  <2>IO. EnIO(m)'
    BY <2>3, <2>u DEF EnIO
  <2>Libera. EnLibera(m)'
    <3>1. \A u \in Liberando : liberado'[u] = liberado[u]
      BY <2>5, <2>6, <1>t DEF Liberando
    <3>2. Local(l, liberado, Liberando, "libera") /\ l[q] # "libera" /\ liberado'[d] = q
      BY <2>q, <2>6, <1>t DEF Ubicados, EnLibera
    <3>. QED  BY <2>5, <3>1, <3>2, EntraALocal DEF EnLibera
  <2>. HIDE DEF m
  <2>o. /\ Igual(l, m, "semaforo")
        /\ EnNew(m)' /\ EnNuevo(m)' /\ EnReady(m)' /\ EnCPU(m)' /\ EnServida(m)'
        /\ EnSusReady(m)' /\ EnPreparado(m)' /\ EnFuera(m)'
    BY <2>i, <2>u, Queda DEF Sitios, Conservan
  <2>. QED  BY <2>m, <2>o, <2>IO, <2>Libera DEF Ubicados
<1>17. ASSUME NEW t \in Hilos, MiraSuspendidos(t) \/ QuitaDeBlocked(t)
      PROVE  \E m \in [Procesos -> Sitios] : Ubicados(m)' /\ Igual(l, m, "semaforo")
  <2>1. /\ fase[t] \in FasesLiberar
        /\ \E x \in FasesLiberar : fase' = [fase EXCEPT ![t] = x]
    BY <1>17 DEF MiraSuspendidos, QuitaDeBlocked, FasesLiberar
  <2>2. UNCHANGED <<procesosNew, nuevo, procesosReady, listaEspera, ejecutando, liberado,
                    procesosSuspendedReady, preparado, liberados, pedido>>
    BY <1>17 DEF MiraSuspendidos, QuitaDeBlocked, medio, clientes
  <2>3. DelCPU' = DelCPU /\ Atendiendo' = Atendiendo /\ Liberando' = Liberando
    BY <2>1, <1>t, FaseDelQueLibera
  <2>. QED  BY <2>2, <2>3, <1>k DEF Conservan
<1>18. ASSUME NEW t \in Hilos, ASuspendedReady(t)
      PROVE  \E m \in [Procesos -> Sitios] : Ubicados(m)' /\ Igual(l, m, "semaforo")
  <2>1. /\ fase[t] \in FasesLiberar
        /\ fase' = [fase EXCEPT ![t] = IF t \in CPUs THEN "respondeSignal" ELSE "espera"]
        /\ liberado' = [liberado EXCEPT ![t] = Nadie]
    BY <1>18 DEF ASuspendedReady, TrasLiberar, FasesLiberar
  <2>2. PICK q \in Procesos : q = liberado[t]
    BY <2>1 DEF Tipos, HilosConsistentes
  <2>5. /\ t \in Liberando /\ Liberando' = Liberando \ {t}
        /\ DelCPU' = DelCPU /\ Atendiendo' = Atendiendo
    BY <2>1, <1>t, FaseDelQueLibera
  <2>3. l[q] = "libera" /\ Local(Muda(l, q, "susReady"), liberado', Liberando \ {t}, "libera")
    <3>1. Local(l, liberado, Liberando, "libera")
      BY DEF Ubicados, EnLibera
    <3>2. "libera" # "susReady"
      OBVIOUS
    <3>3. \A b \in Liberando \ {t} : liberado'[b] = liberado[b]
      BY <2>1, <1>t DEF Liberando
    <3>4. l[q] = "libera" /\ Local(Muda(l, q, "susReady"), liberado, Liberando \ {t}, "libera")
      BY <2>2, <2>5, <3>1, <3>2, SaleDeLocal
    <3>. QED  BY <3>3, <3>4, MismoLocal
  <2>q. q \in Procesos /\ l[q] = "libera" /\ "susReady" \in Sitios
    BY <2>3 DEF Sitios
  <2>. DEFINE m == Muda(l, q, "susReady")
  <2>m. m \in [Procesos -> Sitios]
    BY <2>q, <1>m
  <2>i. \A x \in Sitios \ {"libera", "susReady"} : Igual(l, m, x)
    BY <2>q, <1>m
  <2>u. /\ procesosSuspendedReady' = Append(procesosSuspendedReady, q)
        /\ UNCHANGED <<procesosNew, nuevo, procesosReady, listaEspera,
                       preparado, liberados, ejecutando, pedido>>
        /\ Conservan(DelCPU, ejecutando) /\ Conservan(Atendiendo, ejecutando)
    BY <1>18, <1>t, <2>2, <2>5 DEF ASuspendedReady, medio, clientes, Conservan
  <2>Libera. EnLibera(m)'
    BY <2>3, <2>5 DEF EnLibera
  <2>SusReady. EnSusReady(m)'
    BY <2>q, <2>u, <1>t, EntraALista DEF Ubicados, EnSusReady
  <2>. HIDE DEF m
  <2>o. /\ Igual(l, m, "semaforo")
        /\ EnNew(m)' /\ EnNuevo(m)' /\ EnReady(m)' /\ EnCPU(m)' /\ EnServida(m)'
        /\ EnIO(m)' /\ EnPreparado(m)' /\ EnFuera(m)'
    BY <2>i, <2>u, Queda DEF Sitios, Conservan
  <2>. QED  BY <2>m, <2>o, <2>Libera, <2>SusReady DEF Ubicados
<1>19. ASSUME NEW t \in Hilos, AReady(t)
      PROVE  \E m \in [Procesos -> Sitios] : Ubicados(m)' /\ Igual(l, m, "semaforo")
  <2>1. /\ fase[t] \in FasesLiberar
        /\ fase' = [fase EXCEPT ![t] = IF t \in CPUs THEN "respondeSignal" ELSE "espera"]
        /\ liberado' = [liberado EXCEPT ![t] = Nadie]
    BY <1>19 DEF AReady, TrasLiberar, FasesLiberar
  <2>2. PICK q \in Procesos : q = liberado[t]
    BY <2>1 DEF Tipos, HilosConsistentes
  <2>5. /\ t \in Liberando /\ Liberando' = Liberando \ {t}
        /\ DelCPU' = DelCPU /\ Atendiendo' = Atendiendo
    BY <2>1, <1>t, FaseDelQueLibera
  <2>3. l[q] = "libera" /\ Local(Muda(l, q, "ready"), liberado', Liberando \ {t}, "libera")
    <3>1. Local(l, liberado, Liberando, "libera")
      BY DEF Ubicados, EnLibera
    <3>2. "libera" # "ready"
      OBVIOUS
    <3>3. \A b \in Liberando \ {t} : liberado'[b] = liberado[b]
      BY <2>1, <1>t DEF Liberando
    <3>4. l[q] = "libera" /\ Local(Muda(l, q, "ready"), liberado, Liberando \ {t}, "libera")
      BY <2>2, <2>5, <3>1, <3>2, SaleDeLocal
    <3>. QED  BY <3>3, <3>4, MismoLocal
  <2>q. q \in Procesos /\ l[q] = "libera" /\ "ready" \in Sitios
    BY <2>3 DEF Sitios
  <2>. DEFINE m == Muda(l, q, "ready")
  <2>m. m \in [Procesos -> Sitios]
    BY <2>q, <1>m
  <2>i. \A x \in Sitios \ {"libera", "ready"} : Igual(l, m, x)
    BY <2>q, <1>m
  <2>u. /\ procesosReady' = Append(procesosReady, q)
        /\ UNCHANGED <<procesosNew, nuevo, procesosSuspendedReady, listaEspera,
                       preparado, liberados, ejecutando, pedido>>
        /\ Conservan(DelCPU, ejecutando) /\ Conservan(Atendiendo, ejecutando)
    BY <1>19, <1>t, <2>2, <2>5 DEF AReady, medio, clientes, Conservan
  <2>Libera. EnLibera(m)'
    BY <2>3, <2>5 DEF EnLibera
  <2>Ready. EnReady(m)'
    BY <2>q, <2>u, <1>t, EntraALista DEF Ubicados, EnReady
  <2>. HIDE DEF m
  <2>o. /\ Igual(l, m, "semaforo")
        /\ EnNew(m)' /\ EnNuevo(m)' /\ EnCPU(m)' /\ EnServida(m)' /\ EnIO(m)'
        /\ EnSusReady(m)' /\ EnPreparado(m)' /\ EnFuera(m)'
    BY <2>i, <2>u, Queda DEF Sitios, Conservan
  <2>. QED  BY <2>m, <2>o, <2>Libera, <2>Ready DEF Ubicados
<1>20. CASE SacaDeSuspendedReady
  <2>1. procesosSuspendedReady # <<>> /\ Head(procesosSuspendedReady) \in Procesos
    BY <1>20, <1>t DEF SacaDeSuspendedReady, NuncaSacaDeVacia
  <2>2. PICK q \in Procesos : q = Head(procesosSuspendedReady)
    BY <2>1
  <2>3. /\ l[q] = "susReady"
        /\ Lista(Muda(l, q, "preparado"), Tail(procesosSuspendedReady), "susReady")
    BY <2>1, <2>2, <1>t, SaleLaCabeza, Zenon DEF Ubicados, EnSusReady
  <2>q. q \in Procesos /\ l[q] = "susReady" /\ "preparado" \in Sitios
    BY <2>3 DEF Sitios
  <2>. DEFINE m == Muda(l, q, "preparado")
  <2>m. m \in [Procesos -> Sitios]
    BY <2>q, <1>m
  <2>i. \A x \in Sitios \ {"susReady", "preparado"} : Igual(l, m, x)
    BY <2>q, <1>m
  <2>u. /\ procesosSuspendedReady' = Tail(procesosSuspendedReady)
        /\ preparado = Nadie /\ preparado' = Head(procesosSuspendedReady)
        /\ UNCHANGED <<procesosNew, nuevo, procesosReady, listaEspera, fase, ejecutando,
                       liberado, liberados, pedido>>
        /\ Conservan(DelCPU, ejecutando) /\ Conservan(Atendiendo, ejecutando)
        /\ Conservan(Liberando, liberado)
    BY <1>20, <1>t DEF SacaDeSuspendedReady, FasesComunes, hilos, clientes, Conservan,
      DelCPU, Atendiendo, FasesLiberar, Liberando
  <2>SusReady. EnSusReady(m)'
    BY <2>3, <2>u DEF EnSusReady
  <2>Preparado. EnPreparado(m)'
    BY <2>2, <2>u, ConstantesOK DEF Ubicados, EnPreparado, Campo, Muda
  <2>. HIDE DEF m
  <2>o. /\ Igual(l, m, "semaforo")
        /\ EnNew(m)' /\ EnNuevo(m)' /\ EnReady(m)' /\ EnCPU(m)' /\ EnServida(m)'
        /\ EnIO(m)' /\ EnLibera(m)' /\ EnFuera(m)'
    BY <2>i, <2>u, Queda DEF Sitios, Conservan
  <2>. QED  BY <2>m, <2>o, <2>SusReady, <2>Preparado DEF Ubicados
<1>21. CASE ReactivaSuspendido
  <2>1. PICK q \in Procesos : q = preparado
    BY <1>21 DEF ReactivaSuspendido, Tipos, HilosConsistentes
  <2>q. q \in Procesos /\ l[q] = "preparado" /\ "ready" \in Sitios
    BY <2>1 DEF Ubicados, EnPreparado, Campo, Sitios
  <2>. DEFINE m == Muda(l, q, "ready")
  <2>m. m \in [Procesos -> Sitios]
    BY <2>q, <1>m
  <2>i. \A x \in Sitios \ {"preparado", "ready"} : Igual(l, m, x)
    BY <2>q, <1>m
  <2>u. /\ procesosReady' = Append(procesosReady, q) /\ preparado' = Nadie
        /\ UNCHANGED <<procesosNew, nuevo, procesosSuspendedReady, listaEspera, fase,
                       ejecutando, liberado, liberados, pedido>>
        /\ Conservan(DelCPU, ejecutando) /\ Conservan(Atendiendo, ejecutando)
        /\ Conservan(Liberando, liberado)
    BY <1>21, <1>t, <2>1 DEF ReactivaSuspendido, hilos, clientes, Conservan, DelCPU,
      Atendiendo, FasesLiberar, Liberando
  <2>Ready. EnReady(m)'
    BY <2>q, <2>u, <1>t, EntraALista DEF Ubicados, EnReady
  <2>Preparado. EnPreparado(m)'
    BY <2>1, <2>u, ConstantesOK DEF Ubicados, EnPreparado, Campo, Muda
  <2>. HIDE DEF m
  <2>o. /\ Igual(l, m, "semaforo")
        /\ EnNew(m)' /\ EnNuevo(m)' /\ EnCPU(m)' /\ EnServida(m)' /\ EnIO(m)'
        /\ EnLibera(m)' /\ EnSusReady(m)' /\ EnFuera(m)'
    BY <2>i, <2>u, Queda DEF Sitios, Conservan
  <2>. QED  BY <2>m, <2>o, <2>Ready, <2>Preparado DEF Ubicados
<1>. QED
  BY <1>1, <1>2, <1>3, <1>4, <1>5, <1>6, <1>7, <1>8, <1>9, <1>10, <1>11, <1>12, <1>13,
     <1>14, <1>15, <1>16, <1>17, <1>18, <1>19, <1>20, <1>21
  DEF Next, PasoCPU, PasoLiberar, PasoPMP2, Reposo

\* What the steps rely on.
InvUbicacion == Inv /\ FasesPropias /\ Ubicacion

\* It holds at all times.
LEMMA InvUbicacionSiempre == Spec => []InvUbicacion
<1>1. Init => InvUbicacion
  BY InvInit, UbicacionInit DEF InvUbicacion
<1>2. InvUbicacion /\ [Next]_vars => InvUbicacion'
  <2>. SUFFICES ASSUME InvUbicacion, [Next]_vars PROVE InvUbicacion'
    OBVIOUS
  <2>1. Inv'
    BY InvNoSacaDeVacia, TiposNext, PermisosNext, FichasDeIONext DEF Inv, InvUbicacion
  <2>2. FasesPropias'
    BY FasesComunesNext, SinSemaforosNext DEF Inv, InvUbicacion, FasesPropias
  <2>3. PICK l \in [Procesos -> Sitios] :
          Ubicados(l) /\ \A p \in Procesos : l[p] # "semaforo"
    BY DEF InvUbicacion, Ubicacion
  <2>4. PICK m \in [Procesos -> Sitios] : Ubicados(m)' /\ Igual(l, m, "semaforo")
    BY <2>3, InvNoSacaDeVacia, UbicadosNext DEF Inv, InvUbicacion, FasesPropias
  <2>5. \A p \in Procesos : m[p] # "semaforo"
    BY <2>3, <2>4 DEF Igual
  <2>. QED  BY <2>1, <2>2, <2>4, <2>5 DEF InvUbicacion, Ubicacion
<1>. QED  BY <1>1, <1>2, PTL DEF Spec

\* A set with one element when p is at site x, and none otherwise.
LEMMA UnoSiEsta ==
  ASSUME NEW l, NEW p, NEW x, NEW S,
         l[p] = x => \E e : S = {e}, l[p] # x => S = {}
  PROVE  Cardinality(S) = Uno(l[p] = x)
<1>1. CASE l[p] = x
  BY <1>1, FS_Singleton DEF Uno
<1>2. CASE l[p] # x
  BY <1>2, FS_EmptySet DEF Uno
<1>. QED  BY <1>1, <1>2

\* A process is in the list of its site once.
LEMMA UnaVezEnLista ==
  ASSUME NEW l, NEW x, NEW s, Lista(l, s, x), NEW p \in Procesos
  PROVE  Veces(s, p) = Uno(l[p] = x)
<1>. DEFINE S == {i \in 1..Len(s) : s[i] = p}
<1>1. l[p] = x => \E e : S = {e}
  <2>. SUFFICES ASSUME l[p] = x PROVE \E e : S = {e}
    OBVIOUS
  <2>1. PICK i \in 1..Len(s) : s[i] = p
    BY DEF Lista
  <2>2. S = {i}
    BY <2>1 DEF Lista
  <2>. QED  BY <2>2
<1>2. l[p] # x => S = {}
  BY DEF Lista
<1>3. Cardinality(S) = Uno(l[p] = x)
  <2>. HIDE DEF S
  <2>. QED  BY <1>1, <1>2, UnoSiEsta
<1>. QED  BY <1>3 DEF Veces

\* It is held by one of the threads of its site.
LEMMA UnHilo ==
  ASSUME NEW l, NEW x, NEW f, NEW T, Local(l, f, T, x), NEW p \in Procesos
  PROVE  Cardinality({t \in T : f[t] = p}) = Uno(l[p] = x)
<1>. DEFINE S == {t \in T : f[t] = p}
<1>1. l[p] = x => \E e : S = {e}
  <2>. SUFFICES ASSUME l[p] = x PROVE \E e : S = {e}
    OBVIOUS
  <2>1. PICK t \in T : f[t] = p
    BY DEF Local
  <2>2. S = {t}
    BY <2>1 DEF Local
  <2>. QED  BY <2>2
<1>2. l[p] # x => S = {}
  BY DEF Local
<1>. HIDE DEF S
<1>3. Cardinality(S) = Uno(l[p] = x)
  BY <1>1, <1>2, UnoSiEsta
<1>. QED  BY <1>3 DEF S

\* The entries of the lists f[d], of each d in D.
Entradas(f, D) == UNION {{d} \X DOMAIN f[d] : d \in D}

\* It is in one of the lists of its site, once.
LEMMA UnaEntrada ==
  ASSUME NEW l, NEW D, NEW f \in [D -> Seq(Procesos)], NEW x, Listas(l, f, D, x),
         NEW p \in Procesos
  PROVE  Cardinality({e \in Entradas(f, D) : f[e[1]][e[2]] = p}) = Uno(l[p] = x)
<1>. DEFINE S == {e \in Entradas(f, D) : f[e[1]][e[2]] = p}
<1>0. Entradas(f, D) = UNION {{d} \X (1..Len(f[d])) : d \in D}
  BY DEF Entradas
<1>1. l[p] = x => \E e : S = {e}
  <2>. SUFFICES ASSUME l[p] = x PROVE \E e : S = {e}
    OBVIOUS
  <2>1. PICK d \in D : \E i \in 1..Len(f[d]) : f[d][i] = p
    BY DEF Listas
  <2>2. PICK i \in 1..Len(f[d]) : f[d][i] = p
    BY <2>1
  <2>3. <<d, i>> \in S
    BY <1>0, <2>2
  <2>4. ASSUME NEW e \in S PROVE e = <<d, i>>
    <3>1. PICK h \in D : e \in {h} \X (1..Len(f[h]))
      BY <1>0
    <3>2. PICK j \in 1..Len(f[h]) : e = <<h, j>>
      BY <3>1
    <3>3. f[h][j] = p
      BY <3>2
    <3>4. h = d /\ j = i
      BY <3>3, <2>2 DEF Listas
    <3>. QED  BY <3>2, <3>4
  <2>. HIDE DEF S
  <2>5. S = {<<d, i>>}
    BY <2>3, <2>4
  <2>. QED  BY <2>5
<1>2. l[p] # x => S = {}
  <2>. SUFFICES ASSUME l[p] # x, NEW e \in S PROVE FALSE
    OBVIOUS
  <2>1. PICK h \in D : e \in {h} \X (1..Len(f[h]))
    BY <1>0
  <2>2. PICK j \in 1..Len(f[h]) : e = <<h, j>>
    BY <2>1
  <2>3. f[h][j] = p
    BY <2>2
  <2>. QED  BY <2>3 DEF Listas
<1>. HIDE DEF S
<1>3. Cardinality(S) = Uno(l[p] = x)
  BY <1>1, <1>2, UnoSiEsta
<1>. QED  BY <1>3 DEF S

\* A process is in one of the places unless its site is outside or a kernel
\* semaphore.
LEMMA LugaresDelSitio ==
  ASSUME Tipos, FasesComunes, NEW l \in [Procesos -> Sitios], Ubicados(l),
         NEW p \in Procesos
  PROVE  Lugares(p) = Uno(l[p] \notin {"fuera", "semaforo"})
<1>0. Ubicados(l)
  OBVIOUS
<1>t. /\ fase \in [Hilos -> FasesCPU \cup FasesLiberar]
      /\ listaEspera \in [Dispositivos -> Seq(Procesos)]
      /\ CPUs \subseteq Hilos /\ Dispositivos \subseteq Hilos
  BY DEF Tipos, TypeOK, Hilos
<1>1. Veces(procesosNew, p) = Uno(l[p] = "new")
  BY <1>0, UnaVezEnLista DEF Ubicados, EnNew
<1>2. Uno(nuevo = p) = Uno(l[p] = "nuevo")
  BY <1>0 DEF Ubicados, EnNuevo, Campo, Uno
<1>3. Veces(procesosReady, p) = Uno(l[p] = "ready")
  BY <1>0, UnaVezEnLista DEF Ubicados, EnReady
<1>4. Cardinality(DuenasCPU(p)) = Uno(l[p] = "cpu") + Uno(l[p] = "servida")
  <2>. DEFINE A == {c \in DelCPU : ejecutando[c] = p}
              B == {c \in Atendiendo : ejecutando[c] = p}
  <2>1. Cardinality(A) = Uno(l[p] = "cpu") /\ Cardinality(B) = Uno(l[p] = "servida")
    BY <1>0, UnHilo DEF Ubicados, EnCPU, EnServida
  <2>2. /\ l[p] # "cpu" => A = {}
        /\ l[p] # "servida" => B = {}
    BY <1>0 DEF Ubicados, EnCPU, EnServida, Local
  <2>3. DuenasCPU(p) = A \cup B
    BY <1>t DEF DuenasCPU, DelCPU, Atendiendo, FasesCPU, FasesLiberar
  <2>. HIDE DEF A, B
  <2>4. CASE l[p] # "cpu"
    BY <2>1, <2>2, <2>3, <2>4 DEF Uno
  <2>5. CASE l[p] = "cpu"
    BY <2>1, <2>2, <2>3, <2>5 DEF Uno
  <2>. QED  BY <2>4, <2>5
<1>5. Cardinality({e \in EsperanIO : listaEspera[e[1]][e[2]] = p}) = Uno(l[p] = "io")
  <2>1. EsperanIO = Entradas(listaEspera, Dispositivos)
    BY DEF EsperanIO, Entradas
  <2>. QED  BY <1>0, <1>t, <2>1, UnaEntrada DEF Ubicados, EnIO
<1>6. Cardinality({t \in Hilos : liberado[t] = p}) = Uno(l[p] = "libera")
  <2>1. {t \in Hilos : liberado[t] = p} = {t \in Liberando : liberado[t] = p}
    BY ConstantesOK DEF Liberando, FasesComunes
  <2>2. Cardinality({t \in Liberando : liberado[t] = p}) = Uno(l[p] = "libera")
    BY <1>0, UnHilo DEF Ubicados, EnLibera
  <2>. QED  BY <2>1, <2>2
<1>7. Veces(procesosSuspendedReady, p) = Uno(l[p] = "susReady")
  BY <1>0, UnaVezEnLista DEF Ubicados, EnSusReady
<1>8. Uno(preparado = p) = Uno(l[p] = "preparado")
  BY <1>0 DEF Ubicados, EnPreparado, Campo, Uno
<1>10. Lugares(p) = Uno(l[p] = "new") + Uno(l[p] = "nuevo") + Uno(l[p] = "ready")
                      + (Uno(l[p] = "cpu") + Uno(l[p] = "servida")) + Uno(l[p] = "io")
                      + Uno(l[p] = "libera") + Uno(l[p] = "susReady")
                      + Uno(l[p] = "preparado")
  BY <1>1, <1>2, <1>3, <1>4, <1>5, <1>6, <1>7, <1>8 DEF Lugares
<1>11. l[p] \in Sitios
  OBVIOUS
<1>. QED  BY <1>10, <1>11 DEF Sitios, Uno

\* A process with a site has its one place.
LEMMA UnSitioUnLugar == InvUbicacion => UnSoloLugar
<1>. SUFFICES ASSUME InvUbicacion, NEW p \in Procesos
              PROVE  Lugares(p) = Uno(pedido[p] # "sinConectar" /\ p \notin liberados)
  BY DEF UnSoloLugar
<1>1. PICK l \in [Procesos -> Sitios] : Ubicados(l) /\ l[p] # "semaforo"
  BY DEF InvUbicacion, Ubicacion
<1>2. Lugares(p) = Uno(l[p] \notin {"fuera", "semaforo"})
  BY <1>1, LugaresDelSitio DEF InvUbicacion, Inv, FasesPropias
<1>3. l[p] = "fuera" <=> pedido[p] = "sinConectar" \/ p \in liberados
  BY <1>1 DEF Ubicados, EnFuera
<1>. QED  BY <1>1, <1>2, <1>3 DEF Uno

\* A connected process is always in exactly one place that will move it on.
THEOREM UnLugarCadaUno == Spec => []UnSoloLugar
  BY InvUbicacionSiempre, UnSitioUnLugar, PTL


-----------------------------------------------------------------------------
(* The processes the CPU threads hold.                                     *)

\* A thread that holds a process holds a connected one of its own.
UnDuenio ==
  /\ \A c \in DelCPU \cup Atendiendo, d \in DelCPU \cup Atendiendo :
       ejecutando[c] = ejecutando[d] => c = d
  /\ \A c \in DelCPU \cup Atendiendo :
       /\ ejecutando[c] \in Procesos \ liberados
       /\ pedido[ejecutando[c]] # "sinConectar"

\* It follows from the site of the process.
LEMMA UnSitioUnDuenio == InvUbicacion => UnDuenio
<1>. SUFFICES ASSUME InvUbicacion PROVE UnDuenio
  OBVIOUS
<1>1. PICK l \in [Procesos -> Sitios] : Ubicados(l)
  BY DEF InvUbicacion, Ubicacion
<1>2. \A c \in DelCPU \cup Atendiendo : ejecutando[c] \in Procesos
  BY DEF InvUbicacion, Inv, Tipos, HilosConsistentes, DelCPU, Atendiendo, FasesLiberar
<1>3. /\ \A c \in DelCPU : l[ejecutando[c]] = "cpu"
      /\ \A c \in Atendiendo : l[ejecutando[c]] = "servida"
  BY <1>1, <1>2 DEF Ubicados, EnCPU, EnServida, Local
<1>4. ASSUME NEW c \in DelCPU \cup Atendiendo, NEW d \in DelCPU \cup Atendiendo,
             ejecutando[c] = ejecutando[d]
      PROVE  c = d
  <2>1. CASE c \in DelCPU /\ d \in DelCPU
    BY <1>1, <1>4, <2>1 DEF Ubicados, EnCPU, Local
  <2>2. CASE c \in Atendiendo /\ d \in Atendiendo
    BY <1>1, <1>4, <2>2 DEF Ubicados, EnServida, Local
  <2>. QED  BY <2>1, <2>2, <1>3, <1>4
<1>5. ASSUME NEW c \in DelCPU \cup Atendiendo
      PROVE  ejecutando[c] \notin liberados /\ pedido[ejecutando[c]] # "sinConectar"
  BY <1>1, <1>2, <1>3 DEF Ubicados, EnFuera
<1>. QED  BY <1>2, <1>4, <1>5 DEF UnDuenio

-----------------------------------------------------------------------------
(* Exec.                                                                   *)

\* The threads whose process is in Exec, and the map of the processes that
\* have one.
Sirviendo == {c \in CPUs : fase[c] \in {"enExec", "avisa", "atiende"}}
Servidos ==
  [p \in Procesos |-> IF \E c \in Sirviendo : ejecutando[c] = p THEN "servida" ELSE "fuera"]

\* Exec holds the processes that the threads serve, once each.
ExecCuadra == Lista(Servidos, procesosExec, "servida")

\* The threads that serve hold their process.
LEMMA SirviendoSonDuenios == Sirviendo \subseteq DelCPU \cup Atendiendo
  BY DEF Sirviendo, DelCPU, Atendiendo, FasesLiberar

\* The map is one of sites.
LEMMA ServidosEsMapa == Servidos \in [Procesos -> Sitios]
  BY DEF Servidos, Sitios

\* The process of thread c enters the map when c starts to serve.
LEMMA EmpiezaAServir ==
  ASSUME UnDuenio, NEW c \in DelCPU, c \notin Sirviendo, NEW q, q = ejecutando[c],
         Sirviendo' = Sirviendo \cup {c}, UNCHANGED ejecutando
  PROVE  q \in Procesos /\ Servidos[q] # "servida" /\ Servidos' = Muda(Servidos, q, "servida")
<1>1. q \in Procesos
  BY DEF UnDuenio
<1>2. \A b \in Sirviendo : ejecutando[b] # q
  BY SirviendoSonDuenios DEF UnDuenio
<1>3. \A p \in Procesos : (\E b \in Sirviendo' : ejecutando'[b] = p)
                            <=> p = q \/ \E b \in Sirviendo : ejecutando[b] = p
  OBVIOUS
<1>4. Servidos' = [p \in Procesos |->
        IF \E b \in Sirviendo' : ejecutando'[b] = p THEN "servida" ELSE "fuera"]
  BY DEF Servidos
<1>5. Servidos = [p \in Procesos |->
        IF \E b \in Sirviendo : ejecutando[b] = p THEN "servida" ELSE "fuera"]
  BY DEF Servidos
<1>. QED  BY <1>1, <1>2, <1>3, <1>4, <1>5 DEF Muda

\* It leaves the map when c gives it away.
LEMMA DejaDeServir ==
  ASSUME UnDuenio, NEW c \in Sirviendo, NEW q, q = ejecutando[c],
         Sirviendo' = Sirviendo \ {c},
         \A b \in Sirviendo \ {c} : ejecutando'[b] = ejecutando[b]
  PROVE  Servidos' = Muda(Servidos, q, "fuera")
<1>1. q \in Procesos
  BY SirviendoSonDuenios DEF UnDuenio
<1>2. \A b \in Sirviendo \ {c} : ejecutando[b] # q
  BY SirviendoSonDuenios DEF UnDuenio
<1>3. \A p \in Procesos : (\E b \in Sirviendo' : ejecutando'[b] = p)
                            <=> p # q /\ \E b \in Sirviendo : ejecutando[b] = p
  BY <1>2
<1>4. Servidos' = [p \in Procesos |->
        IF \E b \in Sirviendo' : ejecutando'[b] = p THEN "servida" ELSE "fuera"]
  BY DEF Servidos
<1>5. Servidos = [p \in Procesos |->
        IF \E b \in Sirviendo : ejecutando[b] = p THEN "servida" ELSE "fuera"]
  BY DEF Servidos
<1>. QED  BY <1>1, <1>3, <1>4, <1>5 DEF Muda

\* No entry of Exec is freed, so the process of c is found there and is the
\* entry that goes.
LEMMA SaleDeExec ==
  ASSUME UnDuenio, ExecCuadra, procesosExec \in Seq(Procesos),
         NEW c \in Sirviendo, NEW q, q = ejecutando[c],
         NEW hallado \in BOOLEAN, QuitaPorPid(procesosExec, q, procesosExec', hallado)
  PROVE  hallado /\ Lista(Muda(Servidos, q, "fuera"), procesosExec', "servida")
<1>1. q \in Procesos /\ Servidos[q] = "servida"
  BY SirviendoSonDuenios DEF UnDuenio, Servidos
<1>2. PICK k \in 1..Len(procesosExec) : procesosExec[k] = q
  BY <1>1 DEF ExecCuadra, Lista
<1>3. hallado
  BY <1>2 DEF QuitaPorPid, PuedeFaltar
<1>4. PICK i \in Hallazgos(procesosExec, q) : procesosExec' = RemoveAt(procesosExec, i)
  BY <1>3 DEF QuitaPorPid
<1>5. i \in 1..Len(procesosExec) /\ procesosExec[i] = q
  <2>1. i \in 1..Len(procesosExec) /\ PuedeSer(procesosExec[i], q)
    BY <1>4 DEF Hallazgos
  <2>2. procesosExec[i] \in Procesos /\ Servidos[procesosExec[i]] = "servida"
    BY <2>1 DEF ExecCuadra, Lista
  <2>3. procesosExec[i] \notin liberados
    BY <2>2, SirviendoSonDuenios DEF Servidos, UnDuenio
  <2>. QED  BY <2>1, <2>3 DEF PuedeSer
<1>6. Lista(Servidos, procesosExec, "servida") /\ "servida" # "fuera"
  BY DEF ExecCuadra
<1>7. Lista(Muda(Servidos, q, "fuera"), RemoveAt(procesosExec, i), "servida")
  BY <1>5, <1>6, ServidosEsMapa, SaleDeLista
<1>. QED  BY <1>3, <1>4, <1>7

\* What a change of phase does to the threads that serve.
LEMMA FaseAlServir ==
  ASSUME fase \in [Hilos -> FasesCPU \cup FasesLiberar], NEW t \in Hilos, NEW x,
         fase' = [fase EXCEPT ![t] = x]
  PROVE  /\ t \in CPUs =>
              Sirviendo' = IF x \in {"enExec", "avisa", "atiende"}
                           THEN Sirviendo \cup {t} ELSE Sirviendo \ {t}
         /\ t \notin CPUs => Sirviendo' = Sirviendo
<1>1. CPUs \subseteq Hilos
  BY DEF Hilos
<1>2. \A b \in Hilos : fase'[b] = IF b = t THEN x ELSE fase[b]
  OBVIOUS
<1>. QED  BY <1>1, <1>2 DEF Sirviendo

\* Exec starts empty, as the CPU threads.
LEMMA ExecInit == Init => ExecCuadra
<1>. SUFFICES ASSUME Init PROVE ExecCuadra
  OBVIOUS
<1>1. Sirviendo = {} /\ procesosExec = <<>>
  BY DEF Init, Sirviendo, Hilos
<1>2. \A p \in Procesos : Servidos[p] = "fuera"
  BY <1>1 DEF Servidos
<1>. QED  BY <1>1, <1>2 DEF ExecCuadra, Lista

\* Every step keeps Exec true to the threads.
LEMMA ExecNext ==
  ASSUME Tipos, FasesPropias, UnDuenio, ExecCuadra, [Next]_vars
  PROVE  ExecCuadra'
<1>t. /\ fase \in [Hilos -> FasesCPU \cup FasesLiberar]
      /\ ejecutando \in [CPUs -> Procesos \cup {Nadie}]
      /\ procesosExec \in Seq(Procesos)
      /\ CPUs \subseteq Hilos /\ Dispositivos \subseteq Hilos
  BY DEF Tipos, TypeOK, Hilos
\* a step that neither adds to Exec nor changes what is served keeps it
<1>k. ASSUME UNCHANGED procesosExec, Sirviendo' = Sirviendo,
             \A b \in Sirviendo : ejecutando'[b] = ejecutando[b]
      PROVE  ExecCuadra'
  <2>1. Servidos' = Servidos
    BY <1>k DEF Servidos
  <2>. QED  BY <1>k, <2>1 DEF ExecCuadra, Lista
<1>1. ASSUME UNCHANGED <<procesosExec, fase, ejecutando>> PROVE ExecCuadra'
  BY <1>1, <1>k DEF Sirviendo
<1>2. ASSUME NEW c \in CPUs, TomaDeReady(c) PROVE ExecCuadra'
  <2>1. /\ fase[c] = "espera" /\ fase' = [fase EXCEPT ![c] = "tomado"]
        /\ UNCHANGED procesosExec
        /\ \A b \in CPUs \ {c} : ejecutando'[b] = ejecutando[b]
    BY <1>2, <1>t DEF TomaDeReady, PrimeroTrasOrdenar
  <2>2. Sirviendo' = Sirviendo /\ c \notin Sirviendo
    BY <2>1, <1>t, FaseAlServir DEF Sirviendo
  <2>. QED  BY <2>1, <2>2, <1>k DEF Sirviendo
<1>3. ASSUME NEW c \in CPUs, EntraEnExec(c) PROVE ExecCuadra'
  <2>1. /\ fase[c] = "tomado" /\ fase' = [fase EXCEPT ![c] = "enExec"]
        /\ procesosExec' = Append(procesosExec, ejecutando[c])
        /\ UNCHANGED ejecutando
    BY <1>3 DEF EntraEnExec
  <2>2. c \in DelCPU /\ c \notin Sirviendo /\ Sirviendo' = Sirviendo \cup {c}
    BY <2>1, <1>t, FaseAlServir DEF Sirviendo, DelCPU
  <2>3. PICK q : q = ejecutando[c]
    OBVIOUS
  <2>4. /\ q \in Procesos /\ Servidos[q] # "servida"
        /\ Servidos' = Muda(Servidos, q, "servida")
    BY <2>1, <2>2, <2>3, EmpiezaAServir
  <2>5. Lista(Muda(Servidos, q, "servida"), Append(procesosExec, q), "servida")
    BY <2>4, <1>t, ServidosEsMapa, EntraALista DEF ExecCuadra
  <2>. QED  BY <2>1, <2>3, <2>4, <2>5 DEF ExecCuadra
<1>4. ASSUME NEW c \in CPUs, AvisaInicio(c) \/ AvisaDesbloqueo(c) \/ AtiendeOtra(c)
      PROVE  ExecCuadra'
  <2>1. PICK x \in {"avisa", "atiende"} : fase' = [fase EXCEPT ![c] = x]
    BY <1>4 DEF AvisaInicio, AvisaDesbloqueo, AtiendeOtra
  <2>2. fase[c] \in {"enExec", "avisa", "atiende"} /\ UNCHANGED <<procesosExec, ejecutando>>
    BY <1>4 DEF AvisaInicio, AvisaDesbloqueo, AtiendeOtra, Atiende, colas
  <2>3. Sirviendo' = Sirviendo
    BY <2>1, <2>2, <1>t, FaseAlServir DEF Sirviendo
  <2>. QED  BY <2>2, <2>3, <1>k
<1>5. ASSUME NEW c \in CPUs,
             (\E d \in Dispositivos : AtiendeIO(c, d)) \/ AtiendeCerrar(c)
      PROVE  ExecCuadra'
  <2>1. PICK x \in {"aDispositivo", "espera"} : fase' = [fase EXCEPT ![c] = x]
    BY <1>5 DEF AtiendeIO, AtiendeCerrar
  <2>2. /\ fase[c] = "atiende"
        /\ \A b \in CPUs \ {c} : ejecutando'[b] = ejecutando[b]
    BY <1>5, <1>t DEF AtiendeIO, AtiendeCerrar, Atiende
  <2>3. c \in Sirviendo /\ Sirviendo' = Sirviendo \ {c}
    BY <2>1, <2>2, <1>t, FaseAlServir DEF Sirviendo
  <2>4. PICK q : q = ejecutando[c]
    OBVIOUS
  <2>5. PICK hallado \in BOOLEAN : QuitaPorPid(procesosExec, q, procesosExec', hallado)
    BY <1>5, <2>4 DEF AtiendeIO, AtiendeCerrar
  <2>6. Lista(Muda(Servidos, q, "fuera"), procesosExec', "servida")
    BY <2>3, <2>4, <2>5, <1>t, SaleDeExec
  <2>7. Servidos' = Muda(Servidos, q, "fuera")
    BY <2>2, <2>3, <2>4, DejaDeServir DEF Sirviendo
  <2>. QED  BY <2>6, <2>7 DEF ExecCuadra
<1>6. ASSUME NEW c \in CPUs, AgregaADispositivo(c) \/ AgregaABlocked(c) \/ CalculaEstimacion(c)
      PROVE  ExecCuadra'
  <2>1. PICK x \in {"aBlocked", "calcula", "espera"} : fase' = [fase EXCEPT ![c] = x]
    BY <1>6 DEF AgregaADispositivo, AgregaABlocked, CalculaEstimacion
  <2>2. /\ fase[c] \in {"aDispositivo", "aBlocked", "calcula"} /\ UNCHANGED procesosExec
        /\ \A b \in CPUs \ {c} : ejecutando'[b] = ejecutando[b]
    BY <1>6, <1>t DEF AgregaADispositivo, AgregaABlocked, CalculaEstimacion, colas
  <2>3. Sirviendo' = Sirviendo /\ c \notin Sirviendo
    BY <2>1, <2>2, <1>t, FaseAlServir DEF Sirviendo
  <2>. QED  BY <2>2, <2>3, <1>k DEF Sirviendo
<1>7. ASSUME NEW t \in Hilos,
             \/ t \in Dispositivos /\ TerminaIO(t)
             \/ PasoLiberar(t)
      PROVE  ExecCuadra'
  <2>1. t \in Dispositivos /\ t \notin CPUs
    BY <1>7, LiberaUnDispositivo, ConstantesOK
    DEF FasesPropias, PasoLiberar, MiraSuspendidos, ASuspendedReady, QuitaDeBlocked, AReady,
        FasesLiberar
  <2>2. (\E x : fase' = [fase EXCEPT ![t] = x]) /\ UNCHANGED <<procesosExec, ejecutando>>
    <3>1. CASE TerminaIO(t)
      BY <3>1 DEF TerminaIO, colas
    <3>2. CASE MiraSuspendidos(t)
      BY <3>2 DEF MiraSuspendidos
    <3>3. CASE ASuspendedReady(t)
      BY <3>3 DEF ASuspendedReady, TrasLiberar
    <3>4. CASE QuitaDeBlocked(t)
      BY <3>4 DEF QuitaDeBlocked
    <3>5. CASE AReady(t)
      BY <3>5 DEF AReady, TrasLiberar
    <3>. QED  BY <3>1, <3>2, <3>3, <3>4, <3>5, <1>7 DEF PasoLiberar
  <2>3. Sirviendo' = Sirviendo
    BY <2>1, <2>2, <1>t, FaseAlServir
  <2>. QED  BY <2>2, <2>3, <1>k
<1>8. ASSUME NEW p \in Procesos, LlegaProceso(p) \/ RecibeRespuesta(p) \/ CaeCliente(p)
      PROVE  ExecCuadra'
  BY <1>8, <1>1 DEF LlegaProceso, RecibeRespuesta, CaeCliente, colas, hilos
<1>9. CASE LargoPlazoSaca \/ LargoPlazoAgrega \/ CortoPlazo \/ Suspende \/ NoSuspende
  BY <1>9, <1>1
  DEF LargoPlazoSaca, LargoPlazoAgrega, CortoPlazo, Suspende, NoSuspende, colas, hilos
<1>10. CASE PasoPMP2 \/ UNCHANGED vars
  BY <1>10, <1>1
  DEF PasoPMP2, DecideAdmision, SacaDeSuspendedReady, ReactivaSuspendido, vars, colas, hilos
<1>. QED
  BY <1>2, <1>3, <1>4, <1>5, <1>6, <1>7, <1>8, <1>9, <1>10
  DEF Next, PasoCPU, Reposo, Hilos

\* Exec has as many entries as threads that serve, and they are their processes.
LEMMA ExecDeLosQueSirven ==
  Tipos /\ FasesPropias /\ UnDuenio /\ ExecCuadra => ExecEsLoQueEjecutan
<1>. SUFFICES ASSUME Tipos, FasesPropias, UnDuenio, ExecCuadra PROVE ExecEsLoQueEjecutan
  OBVIOUS
<1>1. procesosExec \in Seq(Procesos) /\ IsFiniteSet(Sirviendo)
  BY ConstantesOK, FS_Subset DEF Tipos, TypeOK, Sirviendo
<1>2. Sirviendo = {c \in CPUs : fase[c] \in {"enExec", "avisa", "atiende",
                                             "respondeSignal"} \cup FasesLiberar}
  BY DEF Sirviendo, FasesPropias, SinSemaforos, FasesLiberar
<1>3. /\ \A i \in 1..Len(procesosExec), j \in 1..Len(procesosExec) :
           procesosExec[i] = procesosExec[j] => i = j
      /\ \A p \in Procesos : (\E c \in Sirviendo : ejecutando[c] = p)
                               <=> \E i \in 1..Len(procesosExec) : procesosExec[i] = p
  BY DEF ExecCuadra, Lista, Servidos
<1>4. \A c \in Sirviendo : ejecutando[c] \in Procesos
  BY SirviendoSonDuenios DEF UnDuenio
<1>5. ToSet(procesosExec) = {ejecutando[c] : c \in Sirviendo}
  <2>1. DOMAIN procesosExec = 1..Len(procesosExec)
    BY <1>1
  <2>2. \A i \in 1..Len(procesosExec) : procesosExec[i] \in Procesos
    BY <1>1
  <2>. QED  BY <2>1, <2>2, <1>3, <1>4 DEF ToSet
<1>6. Len(procesosExec) = Cardinality(Sirviendo)
  <2>. DEFINE f == [c \in Sirviendo |->
                      CHOOSE i \in 1..Len(procesosExec) : procesosExec[i] = ejecutando[c]]
  <2>1. \A c \in Sirviendo : /\ f[c] \in 1..Len(procesosExec)
                             /\ procesosExec[f[c]] = ejecutando[c]
    BY <1>3, <1>4
  <2>2. f \in [Sirviendo -> 1..Len(procesosExec)]
    BY <2>1
  <2>. HIDE DEF f
  <2>3. \A c \in Sirviendo, d \in Sirviendo : f[c] = f[d] => c = d
    BY <2>1, SirviendoSonDuenios DEF UnDuenio
  <2>4. ASSUME NEW i \in 1..Len(procesosExec) PROVE \E c \in Sirviendo : f[c] = i
    <3>1. procesosExec[i] \in Procesos
      BY <1>1
    <3>2. PICK c \in Sirviendo : ejecutando[c] = procesosExec[i]
      BY <3>1, <1>3
    <3>. QED  BY <3>2, <2>1, <1>3
  <2>5. ExistsBijection(Sirviendo, 1..Len(procesosExec))
    BY <2>2, <2>3, <2>4 DEF ExistsBijection, Bijection, Injection, Surjection, IsInjective
  <2>6. Cardinality(1..Len(procesosExec)) = Cardinality(Sirviendo)
    BY <2>5, <1>1, FS_Bijection
  <2>. QED  BY <2>6, <1>1, FS_Interval
<1>. QED  BY <1>2, <1>5, <1>6 DEF ExecEsLoQueEjecutan

-----------------------------------------------------------------------------
(* The conversation of each client with the kernel.                        *)

\* A thread serves the client of p.
Atendido(p) == \E c \in Atendiendo : ejecutando[c] = p

\* Where the call of p stands: its connection is cut; it has closed; its
\* answer waits for a CPU thread; or a thread serves it and the answer, if
\* not taken yet, is on its way, with nothing left to tell it.
Conversacion(p) ==
  \/ pedido[p] = "caido" /\ buzon[p] = <<>>
  \/ /\ p \in liberados
     /\ \/ pedido[p] = "CERRAR_INSTANCIA" /\ buzon[p] = <<pedido[p]>>
        \/ pedido[p] = "fin" /\ buzon[p] = <<>>
  \/ /\ p \notin liberados /\ buzon[p] = <<>>
     /\ \/ /\ pedido[p] \in {"sinConectar", "INICIALIZAR_ESTRUCTURA"}
           /\ vuelveDeBloqueo[p] = "NO_BLOQUEADO"
        \/ pedido[p] = "CONECTAR_IO" /\ vuelveDeBloqueo[p] = "BLOCK_IO"
  \/ /\ p \notin liberados /\ Atendido(p) /\ vuelveDeBloqueo[p] = "NO_BLOQUEADO"
     /\ \/ pedido[p] = "ninguno" /\ buzon[p] = <<>>
        \/ /\ pedido[p] \in {"INICIALIZAR_ESTRUCTURA", "OTRA", "CONECTAR_IO"}
           /\ buzon[p] = <<pedido[p]>>

Protocolo == \A p \in Procesos : Conversacion(p)

\* A step that leaves alone the client and its thread keeps where its call is.
LEMMA MismaConversacion ==
  ASSUME NEW p \in Procesos, Conversacion(p),
         pedido'[p] = pedido[p], buzon'[p] = buzon[p],
         vuelveDeBloqueo'[p] = vuelveDeBloqueo[p],
         p \in liberados' <=> p \in liberados,
         \A b \in Atendiendo : ejecutando[b] = p
                                 => b \in Atendiendo' /\ ejecutando'[b] = p
  PROVE  Conversacion(p)'
<1>1. Atendido(p) => Atendido(p)'
  BY DEF Atendido
<1>. QED  BY <1>1 DEF Conversacion

\* An answer reaches its client unless the connection is cut.
LEMMA EnviarLlega ==
  ASSUME buzon \in [Procesos -> Seq(Codigos)], NEW p \in Procesos, NEW x, Enviar(p, x)
  PROVE  /\ pedido[p] = "caido" => buzon'[p] = buzon[p]
         /\ pedido[p] # "caido" => buzon'[p] = Append(buzon[p], x)
         /\ \A r \in Procesos \ {p} : buzon'[r] = buzon[r]
  BY DEF Enviar

\* At first no client is connected.
LEMMA ProtocoloInit == Init => Protocolo
  BY DEF Init, Protocolo, Conversacion

\* Every step keeps every call where it should be.
LEMMA ProtocoloNext ==
  ASSUME Tipos, FasesPropias, UnDuenio, Protocolo, [Next]_vars
  PROVE  Protocolo'
<1>t. /\ fase \in [Hilos -> FasesCPU \cup FasesLiberar]
      /\ ejecutando \in [CPUs -> Procesos \cup {Nadie}]
      /\ pedido \in [Procesos -> EstadosCliente]
      /\ buzon \in [Procesos -> Seq(Codigos)]
      /\ vuelveDeBloqueo \in [Procesos -> Motivos]
      /\ CPUs \subseteq Hilos /\ Dispositivos \subseteq Hilos
  BY DEF Tipos, TypeOK, Hilos
<1>d. \A c \in DelCPU \cup Atendiendo :
        /\ ejecutando[c] \in Procesos /\ ejecutando[c] \notin liberados
        /\ pedido[ejecutando[c]] # "sinConectar"
  BY DEF UnDuenio
\* a step that leaves the clients alone and no thread that serves one
<1>k. ASSUME UNCHANGED <<pedido, buzon, vuelveDeBloqueo, liberados>>,
             \A b \in Atendiendo : b \in Atendiendo' /\ ejecutando'[b] = ejecutando[b]
      PROVE  Protocolo'
  BY <1>k, MismaConversacion DEF Protocolo
<1>1. ASSUME NEW q \in Procesos, LlegaProceso(q) PROVE Protocolo'
  <2>1. /\ pedido[q] = "sinConectar" /\ pedido'[q] = "INICIALIZAR_ESTRUCTURA"
        /\ \A p \in Procesos \ {q} : pedido'[p] = pedido[p]
        /\ UNCHANGED <<buzon, vuelveDeBloqueo, liberados, ejecutando>>
        /\ Atendiendo' = Atendiendo
    BY <1>1, <1>t DEF LlegaProceso, hilos, Atendiendo, FasesLiberar
  <2>2. Conversacion(q)'
    BY <2>1 DEF Protocolo, Conversacion
  <2>3. \A p \in Procesos \ {q} : Conversacion(p)'
    BY <2>1, MismaConversacion DEF Protocolo
  <2>. QED  BY <2>2, <2>3 DEF Protocolo
<1>2. ASSUME NEW q \in Procesos, RecibeRespuesta(q) \/ CaeCliente(q) PROVE Protocolo'
  <2>1. /\ UNCHANGED <<vuelveDeBloqueo, liberados, ejecutando>> /\ Atendiendo' = Atendiendo
        /\ \A p \in Procesos \ {q} : pedido'[p] = pedido[p] /\ buzon'[p] = buzon[p]
    BY <1>2, <1>t DEF RecibeRespuesta, CaeCliente, hilos, Atendiendo, FasesLiberar
  <2>2. \A p \in Procesos \ {q} : Conversacion(p)'
    BY <2>1, MismaConversacion DEF Protocolo
  <2>3. Conversacion(q)'
    <3>1. CASE CaeCliente(q)
      BY <3>1, <1>t DEF CaeCliente, Conversacion
    <3>2. CASE RecibeRespuesta(q)
      <4>1. /\ buzon[q] # <<>> /\ buzon'[q] = Tail(buzon[q])
            /\ pedido'[q] = TrasRespuesta(pedido[q], Head(buzon[q]))
        BY <3>2, <1>t DEF RecibeRespuesta
      <4>2. buzon[q] = <<pedido[q]>> => buzon'[q] = <<>>
        BY <4>1
      <4>3. Atendido(q) => Atendido(q)'
        BY <2>1 DEF Atendido
      <4>. QED  BY <4>1, <4>2, <4>3, <2>1 DEF Protocolo, Conversacion, TrasRespuesta
    <3>. QED  BY <3>1, <3>2, <1>2
  <2>. QED  BY <2>2, <2>3 DEF Protocolo
<1>3. ASSUME NEW c \in CPUs,
             TomaDeReady(c) \/ EntraEnExec(c) \/ AgregaADispositivo(c)
               \/ AgregaABlocked(c) \/ CalculaEstimacion(c)
      PROVE  Protocolo'
  <2>1. /\ fase[c] \notin {"avisa", "atiende", "respondeSignal"} \cup FasesLiberar
        /\ \E x : fase' = [fase EXCEPT ![c] = x]
        /\ \A b \in CPUs \ {c} : ejecutando'[b] = ejecutando[b]
        /\ UNCHANGED <<pedido, buzon, vuelveDeBloqueo, liberados>>
    BY <1>3, <1>t DEF TomaDeReady, EntraEnExec, AgregaADispositivo, AgregaABlocked,
      CalculaEstimacion, PrimeroTrasOrdenar, FasesLiberar, clientes
  <2>2. \A b \in Atendiendo : b # c /\ b \in Atendiendo'
    BY <2>1, <1>t DEF Atendiendo, FasesLiberar
  <2>. QED  BY <2>1, <2>2, <1>k DEF Atendiendo, FasesLiberar
<1>4. ASSUME NEW c \in CPUs, AvisaInicio(c) PROVE Protocolo'
  <2>1. /\ fase[c] = "enExec" /\ fase' = [fase EXCEPT ![c] = "avisa"]
        /\ UNCHANGED <<pedido, vuelveDeBloqueo, liberados, ejecutando>>
    BY <1>4 DEF AvisaInicio
  <2>2. c \in DelCPU /\ c \notin Atendiendo /\ Atendiendo' = Atendiendo \cup {c}
    BY <2>1, <1>t, FaseDeCPU DEF DelCPU, Atendiendo, FasesLiberar
  <2>3. PICK q \in Procesos : q = ejecutando[c]
    BY <2>2, <1>d
  <2>4. ~Atendido(q) /\ Atendido(q)'
    BY <2>1, <2>2, <2>3 DEF Atendido, UnDuenio
  <2>5. CASE vuelveDeBloqueo[q] = "NO_BLOQUEADO" /\ Enviar(q, "INICIALIZAR_ESTRUCTURA")
    <3>1. /\ pedido[q] = "caido" => buzon'[q] = buzon[q]
          /\ pedido[q] # "caido" => buzon'[q] = Append(buzon[q], "INICIALIZAR_ESTRUCTURA")
          /\ \A p \in Procesos \ {q} : buzon'[p] = buzon[p]
      BY <2>5, <1>t, EnviarLlega
    <3>2. Append(<<>>, "INICIALIZAR_ESTRUCTURA") = <<"INICIALIZAR_ESTRUCTURA">>
      OBVIOUS
    <3>3. Conversacion(q)'
      BY <3>1, <3>2, <2>1, <2>2, <2>3, <2>4, <2>5, <1>d DEF Protocolo, Conversacion
    <3>4. \A p \in Procesos \ {q} : Conversacion(p)'
      BY <3>1, <2>1, <2>2, MismaConversacion DEF Protocolo
    <3>. QED  BY <3>3, <3>4 DEF Protocolo
  <2>6. CASE UNCHANGED buzon
    BY <2>1, <2>2, <2>6, <1>k
  <2>. QED  BY <2>3, <2>5, <2>6, <1>4 DEF AvisaInicio
<1>5. ASSUME NEW c \in CPUs, AvisaDesbloqueo(c) PROVE Protocolo'
  <2>1. /\ fase[c] = "avisa" /\ fase' = [fase EXCEPT ![c] = "atiende"]
        /\ UNCHANGED <<pedido, liberados, ejecutando>>
    BY <1>5 DEF AvisaDesbloqueo
  <2>2. c \in Atendiendo /\ Atendiendo' = Atendiendo
    BY <2>1, <1>t, FaseDeCPU DEF Atendiendo, FasesLiberar
  <2>3. PICK q \in Procesos : q = ejecutando[c]
    BY <2>2, <1>d
  <2>4. /\ Atendido(q)'
        /\ vuelveDeBloqueo'[q] = "NO_BLOQUEADO"
        /\ \A p \in Procesos \ {q} : vuelveDeBloqueo'[p] = vuelveDeBloqueo[p]
    BY <1>5, <1>t, <2>1, <2>2, <2>3 DEF Atendido, AvisaDesbloqueo
  <2>5. CASE vuelveDeBloqueo[q] = "BLOCK_IO" /\ Enviar(q, "CONECTAR_IO")
    <3>1. /\ pedido[q] = "caido" => buzon'[q] = buzon[q]
          /\ pedido[q] # "caido" => buzon'[q] = Append(buzon[q], "CONECTAR_IO")
          /\ \A p \in Procesos \ {q} : buzon'[p] = buzon[p]
      BY <2>5, <1>t, EnviarLlega
    <3>2. Append(<<>>, "CONECTAR_IO") = <<"CONECTAR_IO">>
      OBVIOUS
    <3>3. Conversacion(q)'
      BY <3>1, <3>2, <2>1, <2>2, <2>3, <2>4, <2>5, <1>d DEF Protocolo, Conversacion
    <3>4. \A p \in Procesos \ {q} : Conversacion(p)'
      BY <3>1, <2>1, <2>2, <2>4, MismaConversacion DEF Protocolo
    <3>. QED  BY <3>3, <3>4 DEF Protocolo
  <2>6. CASE vuelveDeBloqueo[q] = "BLOCK_SEM" /\ Enviar(q, "SEM_WAIT")
    <3>1. /\ pedido[q] = "caido" => buzon'[q] = buzon[q]
          /\ \A p \in Procesos \ {q} : buzon'[p] = buzon[p]
      BY <2>6, <1>t, EnviarLlega
    <3>2. pedido[q] = "caido" /\ buzon[q] = <<>>
      BY <2>2, <2>3, <2>6, <1>d DEF Protocolo, Conversacion
    <3>3. Conversacion(q)'
      BY <3>1, <3>2, <2>1 DEF Conversacion
    <3>4. \A p \in Procesos \ {q} : Conversacion(p)'
      BY <3>1, <2>1, <2>2, <2>4, MismaConversacion DEF Protocolo
    <3>. QED  BY <3>3, <3>4 DEF Protocolo
  <2>7. CASE vuelveDeBloqueo[q] = "NO_BLOQUEADO" /\ UNCHANGED buzon
    <3>1. \A p \in Procesos : vuelveDeBloqueo'[p] = vuelveDeBloqueo[p]
      BY <2>4, <2>7
    <3>. QED  BY <3>1, <2>1, <2>2, <2>7, MismaConversacion DEF Protocolo
  <2>. QED  BY <2>3, <2>5, <2>6, <2>7, <1>5 DEF AvisaDesbloqueo
<1>6. ASSUME NEW c \in CPUs, AtiendeOtra(c) PROVE Protocolo'
  <2>1. /\ fase[c] = "atiende" /\ fase' = [fase EXCEPT ![c] = "avisa"]
        /\ UNCHANGED <<vuelveDeBloqueo, liberados, ejecutando>>
    BY <1>6 DEF AtiendeOtra, Atiende
  <2>2. c \in Atendiendo /\ Atendiendo' = Atendiendo
    BY <2>1, <1>t, FaseDeCPU DEF Atendiendo, FasesLiberar
  <2>3. PICK q \in Procesos : q = ejecutando[c]
    BY <2>2, <1>d
  <2>4. /\ pedido[q] = "ninguno" /\ pedido'[q] = "OTRA" /\ Enviar(q, "OTRA")
        /\ \A p \in Procesos \ {q} : pedido'[p] = pedido[p]
        /\ Atendido(q)'
    BY <1>6, <1>t, <2>1, <2>2, <2>3 DEF AtiendeOtra, Atiende, Llama, Atendido
  <2>5. /\ buzon'[q] = Append(buzon[q], "OTRA")
        /\ \A p \in Procesos \ {q} : buzon'[p] = buzon[p]
    BY <2>4, <1>t, EnviarLlega
  <2>6. Append(<<>>, "OTRA") = <<"OTRA">>
    OBVIOUS
  <2>7. Conversacion(q)'
    BY <2>1, <2>2, <2>3, <2>4, <2>5, <2>6, <1>d DEF Protocolo, Conversacion
  <2>8. \A p \in Procesos \ {q} : Conversacion(p)'
    BY <2>1, <2>2, <2>4, <2>5, MismaConversacion DEF Protocolo
  <2>. QED  BY <2>7, <2>8 DEF Protocolo
<1>7. ASSUME NEW c \in CPUs, NEW d \in Dispositivos, AtiendeIO(c, d) PROVE Protocolo'
  <2>1. /\ fase[c] = "atiende" /\ fase' = [fase EXCEPT ![c] = "aDispositivo"]
        /\ UNCHANGED <<buzon, liberados, ejecutando>>
    BY <1>7 DEF AtiendeIO, Atiende
  <2>2. c \in Atendiendo /\ Atendiendo' = Atendiendo \ {c}
    BY <2>1, <1>t, FaseDeCPU DEF Atendiendo, FasesLiberar
  <2>3. PICK q \in Procesos : q = ejecutando[c]
    BY <2>2, <1>d
  <2>4. /\ pedido[q] = "ninguno" /\ pedido'[q] = "CONECTAR_IO"
        /\ vuelveDeBloqueo'[q] = "BLOCK_IO"
        /\ \A p \in Procesos \ {q} :
             pedido'[p] = pedido[p] /\ vuelveDeBloqueo'[p] = vuelveDeBloqueo[p]
    BY <1>7, <1>t, <2>3 DEF AtiendeIO, Atiende, Llama
  <2>5. Conversacion(q)'
    BY <2>1, <2>2, <2>3, <2>4, <1>d DEF Protocolo, Conversacion
  <2>6. \A p \in Procesos \ {q} : Conversacion(p)'
    BY <2>1, <2>2, <2>3, <2>4, MismaConversacion DEF Protocolo
  <2>. QED  BY <2>5, <2>6 DEF Protocolo
<1>8. ASSUME NEW c \in CPUs, AtiendeCerrar(c) PROVE Protocolo'
  <2>1. fase[c] = "atiende" /\ fase' = [fase EXCEPT ![c] = "espera"] /\ UNCHANGED vuelveDeBloqueo
    BY <1>8 DEF AtiendeCerrar, Atiende
  <2>2. c \in Atendiendo /\ Atendiendo' = Atendiendo \ {c}
    BY <2>1, <1>t, FaseDeCPU DEF Atendiendo, FasesLiberar
  <2>3. PICK q \in Procesos : q = ejecutando[c]
    BY <2>2, <1>d
  <2>4. /\ pedido[q] = "ninguno" /\ pedido'[q] = "CERRAR_INSTANCIA"
        /\ Enviar(q, "CERRAR_INSTANCIA") /\ liberados' = liberados \cup {q}
        /\ \A p \in Procesos \ {q} : pedido'[p] = pedido[p]
        /\ \A b \in CPUs \ {c} : ejecutando'[b] = ejecutando[b]
    BY <1>8, <1>t, <2>3 DEF AtiendeCerrar, Atiende, Llama
  <2>5. /\ buzon'[q] = Append(buzon[q], "CERRAR_INSTANCIA")
        /\ \A p \in Procesos \ {q} : buzon'[p] = buzon[p]
    BY <2>4, <1>t, EnviarLlega
  <2>6. Append(<<>>, "CERRAR_INSTANCIA") = <<"CERRAR_INSTANCIA">>
    OBVIOUS
  <2>7. Conversacion(q)'
    BY <2>2, <2>3, <2>4, <2>5, <2>6, <1>d DEF Protocolo, Conversacion
  <2>8. \A p \in Procesos \ {q} : Conversacion(p)'
    BY <2>1, <2>2, <2>3, <2>4, <2>5, MismaConversacion DEF Protocolo, Atendiendo, FasesLiberar
  <2>. QED  BY <2>7, <2>8 DEF Protocolo
<1>9. ASSUME NEW t \in Hilos,
             \/ t \in Dispositivos /\ TerminaIO(t)
             \/ PasoLiberar(t)
      PROVE  Protocolo'
  <2>1. t \in Dispositivos
    BY <1>9, LiberaUnDispositivo
    DEF FasesPropias, PasoLiberar, MiraSuspendidos, ASuspendedReady, QuitaDeBlocked, AReady,
        FasesLiberar
  <2>2. /\ \E x : fase' = [fase EXCEPT ![t] = x]
        /\ UNCHANGED <<pedido, buzon, vuelveDeBloqueo, liberados, ejecutando>>
    <3>1. CASE TerminaIO(t)
      BY <3>1 DEF TerminaIO, clientes
    <3>2. CASE MiraSuspendidos(t)
      BY <3>2 DEF MiraSuspendidos, clientes
    <3>3. CASE ASuspendedReady(t)
      BY <3>3 DEF ASuspendedReady, TrasLiberar, clientes
    <3>4. CASE QuitaDeBlocked(t)
      BY <3>4 DEF QuitaDeBlocked, clientes
    <3>5. CASE AReady(t)
      BY <3>5 DEF AReady, TrasLiberar, clientes
    <3>. QED  BY <3>1, <3>2, <3>3, <3>4, <3>5, <1>9 DEF PasoLiberar
  <2>3. Atendiendo' = Atendiendo
    <3>1. t \notin CPUs
      BY <2>1, ConstantesOK
    <3>. QED  BY <2>2, <3>1, <1>t DEF Atendiendo
  <2>. QED  BY <2>2, <2>3, <1>k
<1>10. ASSUME UNCHANGED <<pedido, buzon, vuelveDeBloqueo, liberados, fase, ejecutando>>
       PROVE  Protocolo'
  BY <1>10, <1>k DEF Atendiendo, FasesLiberar
<1>11. CASE LargoPlazoSaca \/ LargoPlazoAgrega \/ CortoPlazo \/ Suspende \/ NoSuspende
  BY <1>11, <1>10
  DEF LargoPlazoSaca, LargoPlazoAgrega, CortoPlazo, Suspende, NoSuspende, hilos, clientes
<1>12. CASE PasoPMP2 \/ UNCHANGED vars
  BY <1>12, <1>10
  DEF PasoPMP2, DecideAdmision, SacaDeSuspendedReady, ReactivaSuspendido, vars, hilos,
      clientes
<1>. QED
  BY <1>1, <1>2, <1>3, <1>4, <1>5, <1>6, <1>7, <1>8, <1>9, <1>11, <1>12
  DEF Next, PasoCPU, Reposo, Hilos

-----------------------------------------------------------------------------
(* The theorems.                                                           *)

\* What the steps rely on.
InvEjecucion == InvUbicacion /\ ExecCuadra /\ Protocolo

\* It holds at all times.
LEMMA InvEjecucionSiempre == Spec => []InvEjecucion
<1>1. Init => ExecCuadra /\ Protocolo
  BY ExecInit, ProtocoloInit
<1>2. InvUbicacion /\ ExecCuadra /\ Protocolo /\ [Next]_vars => (ExecCuadra /\ Protocolo)'
  BY UnSitioUnDuenio, ExecNext, ProtocoloNext DEF InvUbicacion, Inv
<1>. QED  BY <1>1, <1>2, InvUbicacionSiempre, PTL DEF Spec, InvEjecucion

\* Exec holds exactly the processes that the CPU threads serve, once each:
\* the handlers that look their process up in Exec find it.
THEOREM ExecEsDeLasCPUs == Spec => []ExecEsLoQueEjecutan
<1>1. InvEjecucion => ExecEsLoQueEjecutan
  BY UnSitioUnDuenio, ExecDeLosQueSirven DEF InvEjecucion, InvUbicacion, Inv
<1>. QED  BY <1>1, InvEjecucionSiempre, PTL

\* A client never has more than one answer to take, and it is the answer of
\* the call it waits in.
THEOREM CadaLlamadaSuRespuesta == Spec => []RespuestasCorrectas
<1>1. InvEjecucion => RespuestasCorrectas
  BY DEF InvEjecucion, Protocolo, Conversacion, RespuestasCorrectas
<1>. QED  BY <1>1, InvEjecucionSiempre, PTL

-----------------------------------------------------------------------------
(* What holds a permit.                                                    *)

\* The CPU threads with a process, and the threads that are returning one that
\* they have not found suspended.
FasesConProceso ==
  {"tomado", "enExec", "avisa", "atiende", "aDispositivo", "respondeSignal"}
    \cup FasesLiberar
FasesDevuelve == {"miraSuspendidos", "quitaDeBlocked", "aReady"}
ConProceso == {c \in CPUs : fase[c] \in FasesConProceso}
Devuelven == {t \in Hilos : fase[t] \in FasesDevuelve}

\* The permits of the planners between two of their steps.
EnPMP2 == IF fasePMP2 = "espera" THEN 0 ELSE 1
EnLargoPlazo == IF nuevo = Nadie THEN 0 ELSE 1

\* The permits that are free or on their way, and the processes that have one,
\* of sets that are all finite.
Libres ==
  posix["nivelMultiProgramacionGeneral"] + posix["nivelMultiProgramacionBajaPrioridad"]
    + EnPMP2 + EnLargoPlazo
Tomados ==
  Len(procesosReady) + Cardinality(ConProceso) + Cardinality(EsperanIO)
    + Cardinality(Devuelven)

\* They are k, one more for each entry of SuspendedBlock, and one more for
\* each one lost. Here k is the degree of multiprogramming; SemaforosProofs
\* counts in k the waits on kernel semaphores and the kills.
Balance(k) == Libres + Tomados = k + perdidos + Len(procesosSuspendedBlock)

Credito(k) == k \in Int /\ IsFiniteSet(EsperanIO) /\ Balance(k)

\* The threads are finitely many.
LEMMA HilosFinitos ==
  /\ IsFiniteSet(ConProceso) /\ Cardinality(ConProceso) \in Nat
  /\ IsFiniteSet(Devuelven) /\ Cardinality(Devuelven) \in Nat
<1>1. ConProceso \subseteq CPUs /\ Devuelven \subseteq Hilos /\ IsFiniteSet(Hilos)
  BY ConstantesOK, FS_Union DEF ConProceso, Devuelven, Hilos
<1>. QED  BY <1>1, ConstantesOK, FS_Subset, FS_CardinalityType

\* All that the balance counts is a number.
LEMMA Contables ==
  ASSUME Tipos, IsFiniteSet(EsperanIO)
  PROVE  /\ posix["nivelMultiProgramacionGeneral"] \in Nat
         /\ posix["nivelMultiProgramacionBajaPrioridad"] \in Nat
         /\ EnPMP2 \in Nat /\ EnLargoPlazo \in Nat
         /\ Len(procesosReady) \in Nat /\ Len(procesosSuspendedBlock) \in Nat
         /\ Cardinality(ConProceso) \in Nat /\ Cardinality(Devuelven) \in Nat
         /\ Cardinality(EsperanIO) \in Nat /\ GradoMultiProgramacion \in Nat
         /\ perdidos \in Nat /\ Libres \in Nat /\ Tomados \in Nat
<1>1. /\ posix["nivelMultiProgramacionGeneral"] \in Nat
      /\ posix["nivelMultiProgramacionBajaPrioridad"] \in Nat
  BY DEF Tipos, TypeOK, NombresPosix
<1>2. EnPMP2 \in Nat /\ EnLargoPlazo \in Nat
  BY DEF EnPMP2, EnLargoPlazo
<1>3. Len(procesosReady) \in Nat /\ Len(procesosSuspendedBlock) \in Nat
  <2>1. procesosReady \in Seq(Procesos) /\ procesosSuspendedBlock \in Seq(Procesos)
    BY DEF Tipos, TypeOK
  <2>. QED  BY <2>1
<1>4. Cardinality(EsperanIO) \in Nat
  BY FS_CardinalityType
<1>5. GradoMultiProgramacion \in Nat /\ perdidos \in Nat
  BY ConstantesOK DEF Tipos, TypeOK
<1>6. Libres \in Nat
  BY <1>1, <1>2 DEF Libres
<1>7. Tomados \in Nat
  BY <1>3, <1>4, HilosFinitos DEF Tomados
<1>. QED  BY <1>1, <1>2, <1>3, <1>4, <1>5, <1>6, <1>7, HilosFinitos

\* They are those that the specification counts.
LEMMA LibresYTomados ==
  ASSUME Tipos
  PROVE  PermisosLibres = Libres /\ PermisosTomados = Tomados
<1>0. fase \in [Hilos -> FasesCPU \cup FasesLiberar]
  BY DEF Tipos, TypeOK
<1>1. {c \in CPUs : fase[c] \notin {"espera", "aBlocked", "aBlockedSem", "calcula"}} = ConProceso
  BY <1>0 DEF ConProceso, FasesConProceso, FasesCPU, FasesLiberar, Hilos
<1>2. {t \in Hilos : fase[t] \in FasesLiberar \ {"aSuspendedReady"}} = Devuelven
  BY <1>0 DEF FasesLiberar, Devuelven, FasesDevuelve
<1>3. PermisosLibres = Libres
  <2>1. Uno(fasePMP2 # "espera") = EnPMP2 /\ Uno(nuevo # Nadie) = EnLargoPlazo
    BY DEF Uno, EnPMP2, EnLargoPlazo
  <2>. QED  BY <2>1, Zenon DEF PermisosLibres, Libres
<1>4. PermisosTomados = Tomados
  BY <1>1, <1>2, Zenon DEF PermisosTomados, Tomados
<1>. QED  BY <1>3, <1>4

\* It is the balance of the specification.
LEMMA BalanceEsElCredito ==
  ASSUME Tipos
  PROVE  Credito(GradoMultiProgramacion) => CreditoDeMultiprogramacion
<1>. SUFFICES ASSUME Credito(GradoMultiProgramacion) PROVE CreditoDeMultiprogramacion
  OBVIOUS
<1>0. PermisosLibres = Libres /\ PermisosTomados = Tomados
  BY LibresYTomados
<1>. QED  BY <1>0 DEF CreditoDeMultiprogramacion, Credito, Balance

\* A CPU thread takes a process, goes on with it, or leaves it.
LEMMA FaseConProceso ==
  ASSUME fase \in [Hilos -> FasesCPU \cup FasesLiberar], NEW c \in CPUs, NEW x,
         fase' = [fase EXCEPT ![c] = x],
         fase[c] \notin FasesDevuelve, x \notin FasesDevuelve
  PROVE  /\ Devuelven' = Devuelven
         /\ x \in FasesConProceso /\ c \notin ConProceso
              => Cardinality(ConProceso') = Cardinality(ConProceso) + 1
         /\ x \in FasesConProceso /\ c \in ConProceso => ConProceso' = ConProceso
         /\ x \notin FasesConProceso /\ c \in ConProceso
              => Cardinality(ConProceso') = Cardinality(ConProceso) - 1
         /\ x \notin FasesConProceso /\ c \notin ConProceso => ConProceso' = ConProceso
<1>1. c \in Hilos /\ c \notin Dispositivos /\ CPUs \subseteq Hilos /\ Dispositivos \subseteq Hilos
  BY ConstantesOK DEF Hilos
<1>2. \A t \in Hilos : fase'[t] = IF t = c THEN x ELSE fase[t]
  BY <1>1
<1>3. Devuelven' = Devuelven
  BY <1>1, <1>2 DEF Devuelven
<1>4. CASE x \in FasesConProceso
  <2>1. ConProceso' = ConProceso \cup {c}
    BY <1>1, <1>2, <1>4 DEF ConProceso, FasesConProceso, FasesLiberar
  <2>2. c \notin ConProceso => Cardinality(ConProceso') = Cardinality(ConProceso) + 1
    BY <2>1, HilosFinitos, FS_AddElement
  <2>. QED  BY <2>1, <2>2, <1>3, <1>4
<1>5. CASE x \notin FasesConProceso
  <2>1. ConProceso' = ConProceso \ {c}
    BY <1>1, <1>2, <1>5 DEF ConProceso, FasesConProceso, FasesLiberar
  <2>2. c \in ConProceso => Cardinality(ConProceso') = Cardinality(ConProceso) - 1
    BY <2>1, HilosFinitos, FS_RemoveElement
  <2>. QED  BY <2>1, <2>2, <1>3, <1>5
<1>. QED  BY <1>4, <1>5

\* A thread starts to return a process, goes on, or is done with it.
LEMMA FaseDevuelve ==
  ASSUME fase \in [Hilos -> FasesCPU \cup FasesLiberar], NEW t \in Hilos, NEW x,
         fase' = [fase EXCEPT ![t] = x],
         t \in CPUs => fase[t] \in FasesConProceso /\ x \in FasesConProceso
  PROVE  /\ ConProceso' = ConProceso
         /\ x \in FasesDevuelve /\ t \notin Devuelven
              => Cardinality(Devuelven') = Cardinality(Devuelven) + 1
         /\ x \in FasesDevuelve /\ t \in Devuelven => Devuelven' = Devuelven
         /\ x \notin FasesDevuelve /\ t \in Devuelven
              => Cardinality(Devuelven') = Cardinality(Devuelven) - 1
         /\ x \notin FasesDevuelve /\ t \notin Devuelven => Devuelven' = Devuelven
<1>1. CPUs \subseteq Hilos
  BY DEF Hilos
<1>2. \A u \in Hilos : fase'[u] = IF u = t THEN x ELSE fase[u]
  BY <1>1
<1>3. ConProceso' = ConProceso
  BY <1>1, <1>2 DEF ConProceso
<1>4. CASE x \in FasesDevuelve
  <2>1. Devuelven' = Devuelven \cup {t}
    BY <1>1, <1>2, <1>4 DEF Devuelven, FasesDevuelve
  <2>2. t \notin Devuelven => Cardinality(Devuelven') = Cardinality(Devuelven) + 1
    BY <2>1, HilosFinitos, FS_AddElement
  <2>. QED  BY <2>1, <2>2, <1>3, <1>4
<1>5. CASE x \notin FasesDevuelve
  <2>1. Devuelven' = Devuelven \ {t}
    BY <1>1, <1>2, <1>5 DEF Devuelven, FasesDevuelve
  <2>2. t \in Devuelven => Cardinality(Devuelven') = Cardinality(Devuelven) - 1
    BY <2>1, HilosFinitos, FS_RemoveElement
  <2>. QED  BY <2>1, <2>2, <1>3, <1>5
<1>. QED  BY <1>4, <1>5

\* A process more in one of the lists is an entry more.
LEMMA UnaEntradaMas ==
  ASSUME NEW D, NEW f \in [D -> Seq(Procesos)], NEW g \in [D -> Seq(Procesos)],
         IsFiniteSet(Entradas(f, D)), NEW d \in D,
         Len(g[d]) = Len(f[d]) + 1, \A h \in D \ {d} : g[h] = f[h]
  PROVE  /\ IsFiniteSet(Entradas(g, D))
         /\ Cardinality(Entradas(g, D)) = Cardinality(Entradas(f, D)) + 1
<1>. DEFINE n == Len(f[d])
<1>1. /\ n \in Nat /\ Len(g[d]) = n + 1
  OBVIOUS
<1>2. /\ Entradas(f, D) = UNION {{h} \X (1..Len(f[h])) : h \in D}
      /\ Entradas(g, D) = UNION {{h} \X (1..Len(g[h])) : h \in D}
  BY <1>1 DEF Entradas
<1>3. 1..Len(g[d]) = 1..n \cup {n + 1} /\ n + 1 \notin 1..n
  BY <1>1
<1>. HIDE DEF n
<1>4. Entradas(g, D) = Entradas(f, D) \cup {<<d, n + 1>>}
  <2>1. ASSUME NEW e PROVE e \in Entradas(g, D) <=> e \in Entradas(f, D) \/ e = <<d, n + 1>>
    <3>1. e \in Entradas(g, D) <=> \E h \in D : \E i \in 1..Len(g[h]) : e = <<h, i>>
      BY <1>2
    <3>2. e \in Entradas(f, D) <=> \E h \in D : \E i \in 1..Len(f[h]) : e = <<h, i>>
      BY <1>2
    <3>3. \A h \in D : (\E i \in 1..Len(g[h]) : e = <<h, i>>)
            <=> (\E i \in 1..Len(f[h]) : e = <<h, i>>) \/ (h = d /\ e = <<d, n + 1>>)
      BY <1>1, <1>3 DEF n
    <3>. QED  BY <3>1, <3>2, <3>3
  <2>. QED  BY <2>1
<1>5. <<d, n + 1>> \notin Entradas(f, D)
  BY <1>2, <1>3 DEF n
<1>6. /\ IsFiniteSet(Entradas(f, D) \cup {<<d, n + 1>>})
      /\ Cardinality(Entradas(f, D) \cup {<<d, n + 1>>}) = Cardinality(Entradas(f, D)) + 1
  <2>1. PICK A, e : A = Entradas(f, D) /\ e = <<d, n + 1>>
    OBVIOUS
  <2>2. IsFiniteSet(A) /\ e \notin A
    BY <2>1, <1>5
  <2>3. IsFiniteSet(A \cup {e}) /\ Cardinality(A \cup {e}) = Cardinality(A) + 1
    BY <2>2, FS_AddElement
  <2>. QED  BY <2>1, <2>3
<1>. QED  BY <1>4, <1>6

\* One less, when the first one goes or another, is an entry less.
LEMMA UnaEntradaMenos ==
  ASSUME NEW D, NEW f \in [D -> Seq(Procesos)], NEW g \in [D -> Seq(Procesos)],
         IsFiniteSet(Entradas(f, D)), NEW d \in D,
         f[d] # <<>>, Len(g[d]) = Len(f[d]) - 1, \A h \in D \ {d} : g[h] = f[h]
  PROVE  /\ IsFiniteSet(Entradas(g, D))
         /\ Cardinality(Entradas(g, D)) = Cardinality(Entradas(f, D)) - 1
<1>. DEFINE n == Len(f[d])
<1>1. /\ n \in Nat /\ n > 0 /\ Len(g[d]) = n - 1
  OBVIOUS
<1>2. /\ Entradas(f, D) = UNION {{h} \X (1..Len(f[h])) : h \in D}
      /\ Entradas(g, D) = UNION {{h} \X (1..Len(g[h])) : h \in D}
  BY <1>1 DEF Entradas
<1>3. 1..n = 1..Len(g[d]) \cup {n} /\ n \notin 1..Len(g[d])
  BY <1>1
<1>. HIDE DEF n
<1>4. Entradas(g, D) = Entradas(f, D) \ {<<d, n>>}
  <2>1. ASSUME NEW e PROVE e \in Entradas(g, D) <=> e \in Entradas(f, D) /\ e # <<d, n>>
    <3>1. e \in Entradas(g, D) <=> \E h \in D : \E i \in 1..Len(g[h]) : e = <<h, i>>
      BY <1>2
    <3>2. e \in Entradas(f, D) <=> \E h \in D : \E i \in 1..Len(f[h]) : e = <<h, i>>
      BY <1>2
    <3>3. \A h \in D : (\E i \in 1..Len(g[h]) : e = <<h, i>>)
            <=> (\E i \in 1..Len(f[h]) : e = <<h, i>>) /\ e # <<d, n>>
      BY <1>1, <1>3 DEF n
    <3>. QED  BY <3>1, <3>2, <3>3
  <2>. QED  BY <2>1
<1>5. <<d, n>> \in Entradas(f, D)
  BY <1>1, <1>2, <1>3 DEF n
<1>. QED  BY <1>4, <1>5, FS_RemoveElement

-----------------------------------------------------------------------------
(* The steps.                                                              *)

\* At first every permit is free.
LEMMA CreditoInit == Init => Credito(GradoMultiProgramacion)
<1>. SUFFICES ASSUME Init PROVE Credito(GradoMultiProgramacion)
  OBVIOUS
<1>1. /\ posix["nivelMultiProgramacionGeneral"] = GradoMultiProgramacion
      /\ posix["nivelMultiProgramacionBajaPrioridad"] = 0
  BY DEF Init, NombresPosix
<1>2. ConProceso = {} /\ Devuelven = {} /\ EsperanIO = {}
  <2>1. \A t \in Hilos : fase[t] = "espera"
    BY DEF Init
  <2>2. ConProceso = {} /\ Devuelven = {}
    BY <2>1 DEF ConProceso, FasesConProceso, FasesLiberar, Devuelven, FasesDevuelve, Hilos
  <2>3. \A d \in Dispositivos : DOMAIN listaEspera[d] = {}
    BY DEF Init
  <2>4. EsperanIO = {}
    BY <2>3 DEF EsperanIO
  <2>. QED  BY <2>2, <2>4
<1>3. /\ EnPMP2 = 0 /\ EnLargoPlazo = 0 /\ perdidos = 0
      /\ Len(procesosReady) = 0 /\ Len(procesosSuspendedBlock) = 0
  BY DEF Init, EnPMP2, EnLargoPlazo
<1>4. GradoMultiProgramacion \in Nat
  BY ConstantesOK
<1>. QED  BY <1>1, <1>2, <1>3, <1>4, FS_EmptySet DEF Credito, Balance, Libres, Tomados

\* Whatever a thread gives up another one gets.
LEMMA CreditoNext ==
  ASSUME Tipos, NuncaSacaDeVacia, NEW k, Credito(k), [Next]_vars
  PROVE  Credito(k)'
<1>. DEFINE G == "nivelMultiProgramacionGeneral"
            B == "nivelMultiProgramacionBajaPrioridad"
<1>t. /\ fase \in [Hilos -> FasesCPU \cup FasesLiberar]
      /\ posix \in [NombresPosix -> Nat]
      /\ procesosReady \in Seq(Procesos) /\ procesosSuspendedBlock \in Seq(Procesos)
      /\ listaEspera \in [Dispositivos -> Seq(Procesos)]
      /\ IsFiniteSet(EsperanIO)
  BY DEF Tipos, TypeOK, Credito
<1>n. /\ posix[G] \in Nat /\ posix[B] \in Nat /\ perdidos \in Nat
      /\ Len(procesosReady) \in Nat /\ Len(procesosSuspendedBlock) \in Nat
      /\ Cardinality(ConProceso) \in Nat /\ Cardinality(Devuelven) \in Nat
      /\ Cardinality(EsperanIO) \in Nat /\ GradoMultiProgramacion \in Nat
  BY <1>t, Contables
<1>i. EnPMP2 \in Nat /\ EnLargoPlazo \in Nat /\ Libres \in Nat /\ Tomados \in Nat
  BY <1>t, Contables
<1>c. /\ \A x \in {"tomado", "enExec", "avisa", "atiende", "aDispositivo", "respondeSignal"} :
           x \in FasesConProceso /\ x \notin FasesDevuelve
      /\ \A x \in {"aBlocked", "calcula", "espera"} :
           x \notin FasesConProceso /\ x \notin FasesDevuelve
      /\ \A x \in {"miraSuspendidos", "quitaDeBlocked", "aReady"} :
           x \in FasesConProceso /\ x \in FasesDevuelve
      /\ "aSuspendedReady" \in FasesConProceso /\ "aSuspendedReady" \notin FasesDevuelve
  BY DEF FasesConProceso, FasesDevuelve, FasesLiberar
<1>d. \A d \in Dispositivos : d \in Hilos /\ d \notin CPUs
  BY ConstantesOK DEF Hilos
<1>b. Balance(k) /\ k \in Int
  BY DEF Credito
\* a step that leaves alone all that is counted
<1>k. ASSUME /\ posix'[G] = posix[G] /\ posix'[B] = posix[B]
             /\ UNCHANGED <<fasePMP2, nuevo, procesosReady, procesosSuspendedBlock,
                            listaEspera, perdidos>>
             /\ Cardinality(ConProceso') = Cardinality(ConProceso)
             /\ Cardinality(Devuelven') = Cardinality(Devuelven)
      PROVE  Credito(k)'
  <2>1. EsperanIO' = EsperanIO
    BY <1>k DEF EsperanIO
  <2>. QED  BY <1>k, <2>1 DEF Credito, Balance, Libres, Tomados, EnPMP2, EnLargoPlazo
\* a step that leaves alone the threads and the devices
<1>q. ASSUME UNCHANGED <<fase, listaEspera>>, Balance(k)' PROVE Credito(k)'
  BY <1>q, <1>t DEF Credito, EsperanIO
<1>e. UNCHANGED <<fase, listaEspera>>
        => /\ ConProceso' = ConProceso /\ Devuelven' = Devuelven /\ EsperanIO' = EsperanIO
  BY DEF ConProceso, FasesConProceso, Devuelven, EsperanIO
<1>1. ASSUME NEW p \in Procesos, LlegaProceso(p) \/ RecibeRespuesta(p) \/ CaeCliente(p)
      PROVE  Credito(k)'
  <2>1. posix'[G] = posix[G] /\ posix'[B] = posix[B]
    BY <1>1, <1>t DEF LlegaProceso, RecibeRespuesta, CaeCliente, NombresPosix
  <2>2. UNCHANGED <<fasePMP2, nuevo, procesosReady, procesosSuspendedBlock, listaEspera,
                    perdidos, fase>>
    BY <1>1 DEF LlegaProceso, RecibeRespuesta, CaeCliente, colas, hilos, medio
  <2>. QED  BY <2>1, <2>2, <1>k, <1>e
<1>2. CASE LargoPlazoSaca
  <2>1. posix'[G] = posix[G] /\ posix'[B] = posix[B] - 1
    BY <1>2, <1>t DEF LargoPlazoSaca, NombresPosix
  <2>2. nuevo = Nadie /\ nuevo' # Nadie
    BY <1>2, ConstantesOK DEF LargoPlazoSaca, NuncaSacaDeVacia, Tipos, TypeOK
  <2>3. UNCHANGED <<fasePMP2, procesosReady, procesosSuspendedBlock, listaEspera, perdidos,
                    fase>>
    BY <1>2 DEF LargoPlazoSaca, hilos
  <2>L. Libres' = Libres
    BY <2>1, <2>2, <2>3, <1>e, <1>n, <1>i DEF Libres, EnPMP2, EnLargoPlazo
  <2>T. Tomados' = Tomados
    BY <2>1, <2>2, <2>3, <1>e, <1>n, <1>i DEF Tomados
  <2>B. Balance(k)'
    BY <2>L, <2>T, <2>1, <2>2, <2>3, <1>b, <1>n, <1>i DEF Balance
  <2>. QED  BY <2>B, <2>1, <2>2, <2>3, <1>q
<1>3. CASE LargoPlazoAgrega
  <2>1. posix'[G] = posix[G] /\ posix'[B] = posix[B]
    BY <1>3, <1>t DEF LargoPlazoAgrega, NombresPosix
  <2>2. nuevo # Nadie /\ nuevo' = Nadie /\ Len(procesosReady') = Len(procesosReady) + 1
    BY <1>3, <1>t DEF LargoPlazoAgrega, Tipos, TypeOK
  <2>3. UNCHANGED <<fasePMP2, procesosSuspendedBlock, listaEspera, perdidos, fase>>
    BY <1>3 DEF LargoPlazoAgrega, hilos
  <2>L. Libres' = Libres - 1
    BY <2>1, <2>2, <2>3, <1>e, <1>n, <1>i DEF Libres, EnPMP2, EnLargoPlazo
  <2>T. Tomados' = Tomados + 1
    BY <2>1, <2>2, <2>3, <1>e, <1>n, <1>i DEF Tomados
  <2>B. Balance(k)'
    BY <2>L, <2>T, <2>1, <2>2, <2>3, <1>b, <1>n, <1>i DEF Balance
  <2>. QED  BY <2>B, <2>1, <2>2, <2>3, <1>q
<1>4. CASE CortoPlazo \/ NoSuspende \/ UNCHANGED vars
  <2>1. posix'[G] = posix[G] /\ posix'[B] = posix[B]
    BY <1>4, <1>t DEF CortoPlazo, NoSuspende, vars, NombresPosix
  <2>2. UNCHANGED <<fasePMP2, nuevo, procesosReady, procesosSuspendedBlock, listaEspera,
                    perdidos, fase>>
    BY <1>4 DEF CortoPlazo, NoSuspende, vars, colas, hilos, medio
  <2>. QED  BY <2>1, <2>2, <1>k, <1>e
<1>5. CASE Suspende
  <2>1. posix'[G] = posix[G] + 1 /\ posix'[B] = posix[B]
    BY <1>5, <1>t DEF Suspende, NombresPosix
  <2>2. \/ /\ Len(procesosSuspendedBlock') = Len(procesosSuspendedBlock) + 1
           /\ UNCHANGED perdidos
        \/ UNCHANGED procesosSuspendedBlock /\ perdidos' = perdidos + 1
    BY <1>5, <1>t DEF Suspende, AgregaASuspendedBlock
  <2>3. UNCHANGED <<fasePMP2, nuevo, procesosReady, listaEspera, fase>>
    BY <1>5 DEF Suspende, hilos, medio
  <2>L. Libres' = Libres + 1
    BY <2>1, <2>2, <2>3, <1>e, <1>n, <1>i DEF Libres, EnPMP2, EnLargoPlazo
  <2>T. Tomados' = Tomados
    BY <2>1, <2>2, <2>3, <1>e, <1>n, <1>i DEF Tomados
  <2>B. Balance(k)'
    BY <2>L, <2>T, <2>1, <2>2, <2>3, <1>b, <1>n, <1>i DEF Balance
  <2>. QED  BY <2>B, <2>1, <2>2, <2>3, <1>q
<1>6. CASE DecideAdmision
  <2>1. /\ posix'[G] = posix[G] - 1
        /\ \/ posix'[B] = posix[B] + 1 /\ fasePMP2' = "espera"
           \/ posix'[B] = posix[B] /\ fasePMP2' = "saca"
        /\ fasePMP2 = "espera"
    BY <1>6, <1>t DEF DecideAdmision, NombresPosix
  <2>2. UNCHANGED <<nuevo, procesosReady, procesosSuspendedBlock, listaEspera, perdidos, fase>>
    BY <1>6 DEF DecideAdmision, colas, hilos
  <2>3. EnPMP2 = 0 /\ EnLargoPlazo' = EnLargoPlazo
    BY <2>1, <2>2 DEF EnPMP2, EnLargoPlazo
  <2>4. \/ posix'[B] = posix[B] + 1 /\ EnPMP2' = 0
        \/ posix'[B] = posix[B] /\ EnPMP2' = 1
    BY <2>1 DEF EnPMP2
  <2>L. Libres' = Libres
    BY <2>1, <2>3, <2>4, <1>n, <1>i DEF Libres
  <2>T. Tomados' = Tomados
    BY <2>1, <2>2, <1>e, <1>n, <1>i DEF Tomados
  <2>B. Balance(k)'
    BY <2>L, <2>T, <2>1, <2>2, <1>b, <1>n, <1>i DEF Balance
  <2>. QED  BY <2>B, <2>1, <2>2, <1>q
<1>7. CASE SacaDeSuspendedReady
  <2>1. /\ fasePMP2 = "saca" /\ fasePMP2' = "agrega"
        /\ UNCHANGED <<posix, nuevo, procesosReady, procesosSuspendedBlock, listaEspera,
                       perdidos, fase>>
    BY <1>7 DEF SacaDeSuspendedReady, hilos
  <2>L. Libres' = Libres
    BY <2>1, <1>e, <1>n, <1>i DEF Libres, EnPMP2, EnLargoPlazo
  <2>T. Tomados' = Tomados
    BY <2>1, <1>e, <1>n, <1>i DEF Tomados
  <2>B. Balance(k)'
    BY <2>L, <2>T, <2>1, <1>b, <1>n, <1>i DEF Balance
  <2>. QED  BY <2>B, <2>1, <1>q
<1>8. CASE ReactivaSuspendido
  <2>1. posix'[G] = posix[G] /\ posix'[B] = posix[B]
    BY <1>8, <1>t DEF ReactivaSuspendido, NombresPosix
  <2>2. /\ fasePMP2 = "agrega" /\ fasePMP2' = "espera"
        /\ Len(procesosReady') = Len(procesosReady) + 1
    BY <1>8, <1>t DEF ReactivaSuspendido, Tipos, HilosConsistentes
  <2>3. UNCHANGED <<nuevo, procesosSuspendedBlock, listaEspera, perdidos, fase>>
    BY <1>8 DEF ReactivaSuspendido, hilos
  <2>L. Libres' = Libres - 1
    BY <2>1, <2>2, <2>3, <1>e, <1>n, <1>i DEF Libres, EnPMP2, EnLargoPlazo
  <2>T. Tomados' = Tomados + 1
    BY <2>1, <2>2, <2>3, <1>e, <1>n, <1>i DEF Tomados
  <2>B. Balance(k)'
    BY <2>L, <2>T, <2>1, <2>2, <2>3, <1>b, <1>n, <1>i DEF Balance
  <2>. QED  BY <2>B, <2>1, <2>2, <2>3, <1>q
<1>9. ASSUME NEW c \in CPUs, TomaDeReady(c) PROVE Credito(k)'
  <2>1. posix'[G] = posix[G] /\ posix'[B] = posix[B]
    BY <1>9, <1>t DEF TomaDeReady, NombresPosix
  <2>2. Len(procesosReady') = Len(procesosReady) - 1
    BY <1>9, <1>t, RemoveAtEsLista DEF TomaDeReady, PrimeroTrasOrdenar
  <2>3. fase[c] = "espera" /\ fase' = [fase EXCEPT ![c] = "tomado"]
    BY <1>9 DEF TomaDeReady
  <2>4. c \notin ConProceso
    BY <2>3 DEF ConProceso, FasesConProceso, FasesLiberar
  <2>5. Devuelven' = Devuelven /\ Cardinality(ConProceso') = Cardinality(ConProceso) + 1
    BY <2>3, <2>4, <1>t, <1>c, FaseConProceso
  <2>6. UNCHANGED <<fasePMP2, nuevo, procesosSuspendedBlock, listaEspera, perdidos>>
    BY <1>9 DEF TomaDeReady, medio
  <2>7. EsperanIO' = EsperanIO
    BY <2>6 DEF EsperanIO
  <2>L. Libres' = Libres
    BY <2>1, <2>2, <2>5, <2>6, <2>7, <1>n, <1>t, <1>i DEF Libres, EnPMP2, EnLargoPlazo
  <2>T. Tomados' = Tomados
    BY <2>1, <2>2, <2>5, <2>6, <2>7, <1>n, <1>t, <1>i DEF Tomados
  <2>B. Balance(k)'
    BY <2>L, <2>T, <2>1, <2>2, <2>5, <2>6, <2>7, <1>b, <1>n, <1>i DEF Balance
  <2>. QED  BY <2>B, <2>1, <2>2, <2>5, <2>6, <2>7, <1>t DEF Credito
<1>10. ASSUME NEW c \in CPUs,
              EntraEnExec(c) \/ AvisaInicio(c) \/ AvisaDesbloqueo(c) \/ AtiendeOtra(c)
                \/ \E d \in Dispositivos : AtiendeIO(c, d)
       PROVE  Credito(k)'
  <2>1. PICK x \in {"enExec", "avisa", "atiende", "aDispositivo"} :
          fase' = [fase EXCEPT ![c] = x]
    BY <1>10 DEF EntraEnExec, AvisaInicio, AvisaDesbloqueo, AtiendeOtra, AtiendeIO
  <2>0. fase[c] \in {"tomado", "enExec", "avisa", "atiende"}
    BY <1>10 DEF EntraEnExec, AvisaInicio, AvisaDesbloqueo, AtiendeOtra, AtiendeIO, Atiende
  <2>2. c \in ConProceso /\ fase[c] \notin FasesDevuelve
    BY <2>0, <1>c DEF ConProceso
  <2>3. Devuelven' = Devuelven /\ ConProceso' = ConProceso
    <3>1. x \in FasesConProceso /\ x \notin FasesDevuelve
      BY <1>c
    <3>. QED  BY <2>1, <2>2, <3>1, <1>t, FaseConProceso
  <2>4. UNCHANGED <<posix, fasePMP2, nuevo, procesosReady, procesosSuspendedBlock,
                    listaEspera, perdidos>>
    BY <1>10 DEF EntraEnExec, AvisaInicio, AvisaDesbloqueo, AtiendeOtra, AtiendeIO, colas,
      medio
  <2>. QED  BY <2>3, <2>4, <1>k, <1>n
<1>11. ASSUME NEW c \in CPUs, AgregaADispositivo(c) PROVE Credito(k)'
  <2>1. /\ fase[c] = "aDispositivo" /\ fase' = [fase EXCEPT ![c] = "aBlocked"]
        /\ listaEspera' = [listaEspera EXCEPT ![dispositivo[c]] = Append(@, ejecutando[c])]
        /\ UNCHANGED <<posix, fasePMP2, nuevo, procesosReady, procesosSuspendedBlock,
                       perdidos>>
    BY <1>11 DEF AgregaADispositivo, colas, medio
  <2>2. dispositivo[c] \in Dispositivos /\ ejecutando[c] \in Procesos
    BY <2>1 DEF Tipos, HilosConsistentes
  <2>3. IsFiniteSet(EsperanIO') /\ Cardinality(EsperanIO') = Cardinality(EsperanIO) + 1
    <3>1. PICK g \in [Dispositivos -> Seq(Procesos)] : g = listaEspera'
      <4>1. listaEspera' \in [Dispositivos -> Seq(Procesos)]
        BY <2>1, <2>2, <1>t
      <4>. QED  BY <4>1
    <3>2. /\ Len(g[dispositivo[c]]) = Len(listaEspera[dispositivo[c]]) + 1
          /\ \A h \in Dispositivos \ {dispositivo[c]} : g[h] = listaEspera[h]
      BY <3>1, <2>1, <2>2, <1>t
    <3>3. /\ EsperanIO' = Entradas(g, Dispositivos)
          /\ EsperanIO = Entradas(listaEspera, Dispositivos)
      BY <3>1 DEF EsperanIO, Entradas
    <3>4. PICK d \in Dispositivos : d = dispositivo[c]
      BY <2>2
    <3>5. Len(g[d]) = Len(listaEspera[d]) + 1 /\ \A h \in Dispositivos \ {d} : g[h] = listaEspera[h]
      BY <3>2, <3>4
    <3>6. /\ listaEspera \in [Dispositivos -> Seq(Procesos)]
          /\ IsFiniteSet(Entradas(listaEspera, Dispositivos))
      BY <3>3, <1>t
    <3>. QED  BY <3>3, <3>5, <3>6, UnaEntradaMas
  <2>4. c \in ConProceso
    BY <2>1 DEF ConProceso, FasesConProceso, FasesLiberar
  <2>5. Devuelven' = Devuelven /\ Cardinality(ConProceso') = Cardinality(ConProceso) - 1
    BY <2>1, <2>4, <1>t, <1>c, FaseConProceso
  <2>L. Libres' = Libres
    BY <2>1, <2>3, <2>5, <1>n, <1>i DEF Libres, EnPMP2, EnLargoPlazo
  <2>T. Tomados' = Tomados
    BY <2>1, <2>3, <2>5, <1>n, <1>i DEF Tomados
  <2>B. Balance(k)'
    BY <2>L, <2>T, <2>1, <2>3, <2>5, <1>b, <1>n, <1>i DEF Balance
  <2>. QED  BY <2>B, <2>1, <2>3, <2>5, <1>t DEF Credito
<1>12. ASSUME NEW c \in CPUs, AgregaABlocked(c) \/ CalculaEstimacion(c) PROVE Credito(k)'
  <2>1. PICK x \in {"calcula", "espera"} : fase' = [fase EXCEPT ![c] = x]
    BY <1>12 DEF AgregaABlocked, CalculaEstimacion
  <2>0. fase[c] \in {"aBlocked", "calcula"}
    BY <1>12 DEF AgregaABlocked, CalculaEstimacion
  <2>2. c \notin ConProceso /\ fase[c] \notin FasesDevuelve
    BY <2>0, <1>c DEF ConProceso
  <2>3. Devuelven' = Devuelven /\ ConProceso' = ConProceso
    <3>1. x \notin FasesConProceso /\ x \notin FasesDevuelve
      BY <1>c
    <3>. QED  BY <2>1, <2>2, <3>1, <1>t, FaseConProceso
  <2>4. posix'[G] = posix[G] /\ posix'[B] = posix[B]
    BY <1>12, <1>t DEF AgregaABlocked, CalculaEstimacion, NombresPosix
  <2>5. UNCHANGED <<fasePMP2, nuevo, procesosReady, procesosSuspendedBlock, listaEspera,
                    perdidos>>
    BY <1>12 DEF AgregaABlocked, CalculaEstimacion, colas, medio
  <2>. QED  BY <2>3, <2>4, <2>5, <1>k, <1>n
<1>13. ASSUME NEW c \in CPUs, AtiendeCerrar(c) PROVE Credito(k)'
  <2>1. posix'[G] = posix[G] + 1 /\ posix'[B] = posix[B]
    BY <1>13, <1>t DEF AtiendeCerrar, NombresPosix
  <2>2. fase[c] = "atiende" /\ fase' = [fase EXCEPT ![c] = "espera"]
    BY <1>13 DEF AtiendeCerrar, Atiende
  <2>3. c \in ConProceso
    BY <2>2 DEF ConProceso, FasesConProceso, FasesLiberar
  <2>4. Devuelven' = Devuelven /\ Cardinality(ConProceso') = Cardinality(ConProceso) - 1
    BY <2>2, <2>3, <1>t, <1>c, FaseConProceso
  <2>5. UNCHANGED <<fasePMP2, nuevo, procesosReady, procesosSuspendedBlock, listaEspera,
                    perdidos>>
    BY <1>13 DEF AtiendeCerrar, medio
  <2>6. EsperanIO' = EsperanIO
    BY <2>5 DEF EsperanIO
  <2>L. Libres' = Libres + 1
    BY <2>1, <2>4, <2>5, <2>6, <1>n, <1>t, <1>i DEF Libres, EnPMP2, EnLargoPlazo
  <2>T. Tomados' = Tomados - 1
    BY <2>1, <2>4, <2>5, <2>6, <1>n, <1>t, <1>i DEF Tomados
  <2>B. Balance(k)'
    BY <2>L, <2>T, <2>1, <2>4, <2>5, <2>6, <1>b, <1>n, <1>i DEF Balance
  <2>. QED  BY <2>B, <2>1, <2>4, <2>5, <2>6, <1>t DEF Credito
<1>14. ASSUME NEW d \in Dispositivos, TerminaIO(d) PROVE Credito(k)'
  <2>1. /\ fase[d] = "espera" /\ fase' = [fase EXCEPT ![d] = "miraSuspendidos"]
        /\ listaEspera[d] # <<>> /\ listaEspera' = [listaEspera EXCEPT ![d] = Tail(@)]
        /\ UNCHANGED <<posix, fasePMP2, nuevo, procesosReady, procesosSuspendedBlock,
                       perdidos>>
    BY <1>14 DEF TerminaIO, colas, medio, NuncaSacaDeVacia
  <2>2. IsFiniteSet(EsperanIO') /\ Cardinality(EsperanIO') = Cardinality(EsperanIO) - 1
    <3>1. PICK g \in [Dispositivos -> Seq(Procesos)] : g = listaEspera'
      <4>1. listaEspera' \in [Dispositivos -> Seq(Procesos)]
        BY <2>1, <1>t
      <4>. QED  BY <4>1
    <3>2. /\ Len(g[d]) = Len(listaEspera[d]) - 1
          /\ \A h \in Dispositivos \ {d} : g[h] = listaEspera[h]
      BY <3>1, <2>1, <1>t
    <3>3. /\ EsperanIO' = Entradas(g, Dispositivos)
          /\ EsperanIO = Entradas(listaEspera, Dispositivos)
      BY <3>1 DEF EsperanIO, Entradas
    <3>. QED  BY <3>2, <3>3, <2>1, <1>t, UnaEntradaMenos
  <2>3. d \notin Devuelven /\ d \in Hilos /\ d \notin CPUs
    BY <2>1, <1>d DEF Devuelven, FasesDevuelve
  <2>4. ConProceso' = ConProceso /\ Cardinality(Devuelven') = Cardinality(Devuelven) + 1
    BY <2>1, <2>3, <1>t, <1>c, <1>d, FaseDevuelve
  <2>L. Libres' = Libres
    BY <2>1, <2>2, <2>4, <1>n, <1>i DEF Libres, EnPMP2, EnLargoPlazo
  <2>T. Tomados' = Tomados
    BY <2>1, <2>2, <2>4, <1>n, <1>i DEF Tomados
  <2>B. Balance(k)'
    BY <2>L, <2>T, <2>1, <2>2, <2>4, <1>b, <1>n, <1>i DEF Balance
  <2>. QED  BY <2>B, <2>1, <2>2, <2>4, <1>t DEF Credito
<1>15. ASSUME NEW t \in Hilos, MiraSuspendidos(t) PROVE Credito(k)'
  <2>1. fase[t] = "miraSuspendidos"
    BY <1>15 DEF MiraSuspendidos
  <2>2. t \in Devuelven
    BY <2>1 DEF Devuelven, FasesDevuelve
  <2>3. PICK hallado \in BOOLEAN :
          /\ QuitaPorPid(procesosSuspendedBlock, liberado[t], procesosSuspendedBlock', hallado)
          /\ fase' = [fase EXCEPT ![t] = IF hallado THEN "aSuspendedReady"
                                         ELSE "quitaDeBlocked"]
    BY <1>15 DEF MiraSuspendidos
  <2>4. /\ UNCHANGED <<posix, fasePMP2, nuevo, procesosReady, listaEspera, perdidos>>
        /\ EsperanIO' = EsperanIO
    BY <1>15 DEF MiraSuspendidos, medio, EsperanIO
  <2>5. CASE hallado
    <3>1. Len(procesosSuspendedBlock') = Len(procesosSuspendedBlock) - 1
      BY <2>3, <2>5, <1>t, RemoveAtEsLista DEF QuitaPorPid, Hallazgos
    <3>2. /\ ConProceso' = ConProceso
          /\ Cardinality(Devuelven') = Cardinality(Devuelven) - 1
      BY <2>1, <2>2, <2>3, <2>5, <1>t, <1>c, <1>d, FaseDevuelve
    <3>L. Libres' = Libres
      BY <2>4, <3>1, <3>2, <1>n, <1>t, <1>i DEF Libres, EnPMP2, EnLargoPlazo
    <3>T. Tomados' = Tomados - 1
      BY <2>4, <3>1, <3>2, <1>n, <1>t, <1>i DEF Tomados
    <3>B. Balance(k)'
      BY <3>L, <3>T, <2>4, <3>1, <3>2, <1>b, <1>n, <1>i DEF Balance
    <3>. QED  BY <3>B, <2>4, <3>1, <3>2, <1>t DEF Credito
  <2>6. CASE ~hallado
    <3>1. procesosSuspendedBlock' = procesosSuspendedBlock
      BY <2>3, <2>6 DEF QuitaPorPid
    <3>2. /\ ConProceso' = ConProceso
          /\ Devuelven' = Devuelven
      BY <2>1, <2>2, <2>3, <2>6, <1>t, <1>c, <1>d, FaseDevuelve
    <3>. QED  BY <2>4, <3>1, <3>2, <1>k, <1>n
  <2>. QED  BY <2>5, <2>6
<1>16. ASSUME NEW t \in Hilos, ASuspendedReady(t) \/ QuitaDeBlocked(t) PROVE Credito(k)'
  <2>2. /\ posix'[G] = posix[G] /\ posix'[B] = posix[B]
        /\ UNCHANGED <<fasePMP2, nuevo, procesosReady, procesosSuspendedBlock, listaEspera,
                       perdidos>>
    BY <1>16, <1>t DEF ASuspendedReady, QuitaDeBlocked, NombresPosix, medio
  <2>3. CASE ASuspendedReady(t)
    <3>0. /\ fase[t] = "aSuspendedReady"
          /\ fase' = [fase EXCEPT ![t] = IF t \in CPUs THEN "respondeSignal" ELSE "espera"]
      BY <2>3 DEF ASuspendedReady, TrasLiberar
    <3>1. t \notin Devuelven
      BY <3>0, <1>c DEF Devuelven
    <3>2. /\ ConProceso' = ConProceso
          /\ Devuelven' = Devuelven
      BY <3>0, <3>1, <1>t, <1>c, FaseDevuelve
    <3>. QED  BY <2>2, <3>2, <1>k, <1>n
  <2>4. CASE QuitaDeBlocked(t)
    <3>0. fase[t] = "quitaDeBlocked" /\ fase' = [fase EXCEPT ![t] = "aReady"]
      BY <2>4 DEF QuitaDeBlocked
    <3>1. t \in Devuelven
      BY <3>0, <1>c DEF Devuelven
    <3>2. /\ ConProceso' = ConProceso
          /\ Devuelven' = Devuelven
      BY <3>0, <3>1, <1>t, <1>c, FaseDevuelve
    <3>. QED  BY <2>2, <3>2, <1>k, <1>n
  <2>. QED  BY <2>3, <2>4, <1>16
<1>17. ASSUME NEW t \in Hilos, AReady(t) PROVE Credito(k)'
  <2>2. /\ posix'[G] = posix[G] /\ posix'[B] = posix[B]
        /\ Len(procesosReady') = Len(procesosReady) + 1
    BY <1>17, <1>t DEF AReady, NombresPosix, Tipos, HilosConsistentes, FasesLiberar
  <2>3. /\ UNCHANGED <<fasePMP2, nuevo, procesosSuspendedBlock, listaEspera, perdidos>>
        /\ EsperanIO' = EsperanIO
    BY <1>17 DEF AReady, medio, EsperanIO
  <2>1. /\ fase[t] = "aReady"
        /\ fase' = [fase EXCEPT ![t] = IF t \in CPUs THEN "respondeSignal" ELSE "espera"]
    BY <1>17 DEF AReady, TrasLiberar
  <2>4. t \in Devuelven
    BY <2>1, <1>c DEF Devuelven
  <2>5. ConProceso' = ConProceso /\ Cardinality(Devuelven') = Cardinality(Devuelven) - 1
    BY <2>1, <2>4, <1>t, <1>c, <1>d, FaseDevuelve
  <2>L. Libres' = Libres
    BY <2>2, <2>3, <2>5, <1>n, <1>t, <1>i DEF Libres, EnPMP2, EnLargoPlazo
  <2>T. Tomados' = Tomados
    BY <2>2, <2>3, <2>5, <1>n, <1>t, <1>i DEF Tomados
  <2>B. Balance(k)'
    BY <2>L, <2>T, <2>2, <2>3, <2>5, <1>b, <1>n, <1>i DEF Balance
  <2>. QED  BY <2>B, <2>2, <2>3, <2>5, <1>t DEF Credito
<1>. QED
  BY <1>1, <1>2, <1>3, <1>4, <1>5, <1>6, <1>7, <1>8, <1>9, <1>10, <1>11, <1>12, <1>13,
     <1>14, <1>15, <1>16, <1>17
  DEF Next, PasoCPU, PasoLiberar, PasoPMP2, Reposo

\* The permits of multiprogramming are conserved: the ones that are free, on
\* their way, or held by a process in memory are the configured degree, and
\* one more for each entry that SuspendedBlock holds or has lost to the race.
THEOREM LosPermisosCuadran == Spec => []CreditoDeMultiprogramacion
<1>1. Init => Credito(GradoMultiProgramacion)
  BY CreditoInit
<1>2. InvUbicacion /\ Credito(GradoMultiProgramacion) /\ [Next]_vars
        => Credito(GradoMultiProgramacion)'
  BY CreditoNext, InvNoSacaDeVacia DEF InvUbicacion, Inv
<1>3. InvUbicacion /\ Credito(GradoMultiProgramacion) => CreditoDeMultiprogramacion
  BY BalanceEsElCredito DEF InvUbicacion, Inv
<1>. QED  BY <1>1, <1>2, <1>3, InvUbicacionSiempre, PTL DEF Spec

-----------------------------------------------------------------------------
(***************************************************************************)
(* The schedulers implement the life cycle of CicloDeVida: each step of a  *)
(* thread is one legal move of one process, or no move at all.             *)
(*                                                                         *)
(* The state of a process is read off the lists and the threads. Because   *)
(* a process is at one site the readings exclude each other, so it is      *)
(* enough to follow the one that applies.                                  *)
(***************************************************************************)

(* The mapping.                                                            *)

\* The variables of CicloDeVida, as Planificador has them.
Estado == [p \in Procesos |-> EstadoDe(p)]
Cola == (IF nuevo = Nadie THEN <<>> ELSE <<nuevo>>) \o procesosNew

\* Process q goes from one state to another, and the others stay.
Mueve(q, desde, hacia) ==
  Estado[q] = desde /\ Estado' = [Estado EXCEPT ![q] = hacia]

\* The devices with a process that they have found suspended, and the ones
\* with another process.
Reactivan == {d \in Dispositivos : fase[d] = "aSuspendedReady"}
Vuelven == {d \in Dispositivos : fase[d] \notin {"espera", "aSuspendedReady"}}

\* The readings.
EsNew(p) == p \in ToSet(procesosNew) \/ nuevo = p
EsReady(p) == p \in ToSet(procesosReady)
EsExec(p) == \E c \in ConProceso : ejecutando[c] = p
EsBlocked(p) ==
  \/ \E d \in Dispositivos : p \in ToSet(listaEspera[d])
  \/ \E d \in Vuelven : liberado[d] = p
EsSuspendedReady(p) ==
  \/ p \in ToSet(procesosSuspendedReady) \/ preparado = p
  \/ \E d \in Reactivan : liberado[d] = p

EnEstado(p, e) ==
  \/ e = "Fuera" /\ pedido[p] = "sinConectar"
  \/ e = "New" /\ EsNew(p)
  \/ e = "Ready" /\ EsReady(p)
  \/ e = "Exec" /\ EsExec(p)
  \/ e = "Blocked" /\ EsBlocked(p)
  \/ e = "SuspendedReady" /\ EsSuspendedReady(p)
  \/ e = "Exit" /\ p \in liberados

\* Each process has a reading, and any reading of it is its state.
LecturaUnica ==
  \A p \in Procesos : /\ \E e \in Ciclo!Estados : EnEstado(p, e)
                      /\ \A e : EnEstado(p, e) => EstadoDe(p) = e

\* The elements of a list, by position.
LEMMA EnLista == ASSUME NEW p, NEW S, NEW s \in Seq(S)
                 PROVE  p \in ToSet(s) <=> \E i \in 1..Len(s) : s[i] = p
  BY DEF ToSet

\* The site of a process gives its only reading.
LEMMA UnaLectura == InvUbicacion => LecturaUnica
<1>. SUFFICES ASSUME InvUbicacion, NEW p \in Procesos
              PROVE  /\ \E e \in Ciclo!Estados : EnEstado(p, e)
                     /\ \A e : EnEstado(p, e) => EstadoDe(p) = e
  BY DEF LecturaUnica
<1>1. PICK l \in [Procesos -> Sitios] :
        Ubicados(l) /\ \A q \in Procesos : l[q] # "semaforo"
  BY DEF InvUbicacion, Ubicacion
<1>t. /\ procesosNew \in Seq(Procesos) /\ procesosReady \in Seq(Procesos)
      /\ procesosSuspendedReady \in Seq(Procesos)
      /\ \A d \in Dispositivos : listaEspera[d] \in Seq(Procesos)
      /\ p # Nadie
  BY ConstantesOK DEF InvUbicacion, Inv, Tipos, TypeOK
<1>p. FasesPropias
  BY DEF InvUbicacion
<1>2. /\ p \in ToSet(procesosNew) <=> l[p] = "new"
      /\ nuevo = p <=> l[p] = "nuevo"
  BY <1>1, <1>t, EnLista DEF Ubicados, EnNew, EnNuevo, Lista, Campo
<1>3. EsReady(p) <=> l[p] = "ready"
  BY <1>1, <1>t, EnLista DEF Ubicados, EnReady, Lista, EsReady
<1>4. EsExec(p) <=> l[p] \in {"cpu", "servida"}
  <2>1. ConProceso = DelCPU \cup Atendiendo
    BY DEF ConProceso, FasesConProceso, FasesLiberar, DelCPU, Atendiendo
  <2>. QED  BY <1>1, <2>1 DEF Ubicados, EnCPU, EnServida, Local, EsExec
<1>5. DuenasCPU(p) # {} <=> EsExec(p)
  BY <1>p
  DEF FasesPropias, SinSemaforos, DuenasCPU, EsExec, ConProceso, FasesConProceso, FasesLiberar
<1>6. (\E d \in Dispositivos : p \in ToSet(listaEspera[d])) <=> l[p] = "io"
  <2>1. \A d \in Dispositivos : p \in ToSet(listaEspera[d])
          <=> \E i \in 1..Len(listaEspera[d]) : listaEspera[d][i] = p
    BY <1>t, EnLista
  <2>. QED  BY <1>1, <2>1 DEF Ubicados, EnIO, Listas
<1>7. /\ (\E d \in Vuelven \cup Reactivan : liberado[d] = p) <=> l[p] = "libera"
      /\ \A d \in Vuelven, e \in Reactivan : ~(liberado[d] = p /\ liberado[e] = p)
  <2>1. Liberando = Vuelven \cup Reactivan
    BY DEF Liberando, Vuelven, Reactivan, FasesLiberar, Hilos, SinSemaforos, FasesPropias,
      InvUbicacion, Inv, Tipos, HilosConsistentes
  <2>2. Vuelven \cap Reactivan = {}
    BY DEF Vuelven, Reactivan
  <2>. QED  BY <1>1, <2>1, <2>2 DEF Ubicados, EnLibera, Local
<1>8. (\E t \in Hilos : liberado[t] = p /\ fase[t] = "aSuspendedReady")
        <=> \E d \in Reactivan : liberado[d] = p
  BY <1>p, <1>t DEF FasesPropias, SinSemaforos, Hilos, Reactivan
<1>9. /\ p \in ToSet(procesosSuspendedReady) <=> l[p] = "susReady"
      /\ preparado = p <=> l[p] = "preparado"
  BY <1>1, <1>t, EnLista DEF Ubicados, EnSusReady, EnPreparado, Lista, Campo
<1>10. /\ l[p] = "fuera" <=> pedido[p] = "sinConectar" \/ p \in liberados
       /\ ~(pedido[p] = "sinConectar" /\ p \in liberados)
  BY <1>1, <1>p DEF Ubicados, EnFuera, FasesPropias, FasesComunes
<1>11. l[p] \in Sitios \ {"semaforo"}
  BY <1>1
<1>12. \E e \in Ciclo!Estados : EnEstado(p, e)
  BY <1>2, <1>3, <1>4, <1>6, <1>7, <1>9, <1>10, <1>11
  DEF Ciclo!Estados, Sitios, EnEstado, EsNew, EsBlocked, EsSuspendedReady
<1>13. ASSUME NEW e, EnEstado(p, e) PROVE EstadoDe(p) = e
  <2>1. CASE e = "Fuera" /\ pedido[p] = "sinConectar"
    BY <2>1, <1>2, <1>3, <1>4, <1>5, <1>7, <1>8, <1>9, <1>10 DEF EstadoDe, EsReady
  <2>2. CASE e = "Exit" /\ p \in liberados
    BY <2>2, <1>2, <1>3, <1>4, <1>5, <1>7, <1>8, <1>9, <1>10 DEF EstadoDe, EsReady
  <2>3. CASE e = "New" /\ EsNew(p)
    BY <2>3, <1>2, <1>3, <1>4, <1>5, <1>7, <1>8, <1>9, <1>10 DEF EstadoDe, EsReady, EsNew
  <2>4. CASE e = "Ready" /\ EsReady(p)
    BY <2>4, <1>2, <1>3, <1>4, <1>5, <1>7, <1>8, <1>9, <1>10 DEF EstadoDe, EsReady
  <2>5. CASE e = "Exec" /\ EsExec(p)
    BY <2>5, <1>2, <1>3, <1>4, <1>5, <1>7, <1>8, <1>9, <1>10 DEF EstadoDe, EsReady
  <2>6. CASE e = "Blocked" /\ EsBlocked(p)
    <3>1. ~\E d \in Reactivan : liberado[d] = p
      BY <2>6, <1>6, <1>7 DEF EsBlocked
    <3>2. l[p] \in {"io", "libera"}
      BY <2>6, <1>6, <1>7 DEF EsBlocked
    <3>. QED
      BY <2>6, <3>1, <3>2, <1>2, <1>3, <1>4, <1>5, <1>8, <1>9, <1>10 DEF EstadoDe, EsReady
  <2>7. CASE e = "SuspendedReady" /\ EsSuspendedReady(p)
    <3>1. l[p] \in {"susReady", "preparado", "libera"}
      BY <2>7, <1>7, <1>9 DEF EsSuspendedReady
    <3>. QED
      BY <2>7, <3>1, <1>2, <1>3, <1>4, <1>5, <1>8, <1>9, <1>10
      DEF EstadoDe, EsReady, EsSuspendedReady
  <2>. QED  BY <1>13, <2>1, <2>2, <2>3, <2>4, <2>5, <2>6, <2>7 DEF EnEstado
<1>. QED  BY <1>12, <1>13

\* A step changes the reading of q only.
LEMMA Movimiento ==
  ASSUME LecturaUnica, LecturaUnica', NEW q \in Procesos, NEW x, NEW y,
         EnEstado(q, x), EnEstado(q, y)',
         \A p \in Procesos \ {q} : \A e : EnEstado(p, e) => EnEstado(p, e)'
  PROVE  Mueve(q, x, y)
<1>1. \A p \in Procesos \ {q} : EstadoDe(p)' = EstadoDe(p)
  BY DEF LecturaUnica
<1>2. EstadoDe(q) = x /\ EstadoDe(q)' = y
  BY DEF LecturaUnica
<1>. QED  BY <1>1, <1>2 DEF Mueve, Estado

\* A step changes no reading.
LEMMA Quietud ==
  ASSUME LecturaUnica, LecturaUnica',
         \A p \in Procesos : \A e : EnEstado(p, e) => EnEstado(p, e)'
  PROVE  Estado' = Estado
<1>1. \A p \in Procesos : EstadoDe(p)' = EstadoDe(p)
  BY DEF LecturaUnica
<1>. QED  BY <1>1 DEF Estado

\* The moves are those of CicloDeVida.
LEMMA EsPasa ==
  ASSUME NEW q \in Procesos, NEW x, NEW y, Mueve(q, x, y)
  PROVE  Ciclo!Pasa(q, x, y)
  BY DEF Ciclo!Pasa, Mueve, Estado

\* What is added to a list is in it, with the rest.
LEMMA ListaCrece ==
  ASSUME NEW s \in Seq(Procesos), NEW q \in Procesos
  PROVE  ToSet(Append(s, q)) = ToSet(s) \cup {q}
<1>1. /\ Len(Append(s, q)) = Len(s) + 1 /\ Len(s) \in Nat
      /\ \A i \in 1..Len(s) : Append(s, q)[i] = s[i]
      /\ Append(s, q)[Len(s) + 1] = q
      /\ Append(s, q) \in Seq(Procesos)
  OBVIOUS
<1>2. ASSUME NEW p PROVE p \in ToSet(Append(s, q)) <=> p \in ToSet(s) \/ p = q
  <2>1. p \in ToSet(Append(s, q)) <=> \E i \in 1..Len(Append(s, q)) : Append(s, q)[i] = p
    BY <1>1, EnLista
  <2>2. p \in ToSet(s) <=> \E i \in 1..Len(s) : s[i] = p
    BY EnLista
  <2>3. \A i : i \in 1..Len(Append(s, q)) <=> i \in 1..Len(s) \/ i = Len(s) + 1
    BY <1>1
  <2>. QED  BY <1>1, <2>1, <2>2, <2>3
<1>. QED  BY <1>2

\* Only its head leaves a list that loses its head.
LEMMA ListaSinCabeza ==
  ASSUME NEW s \in Seq(Procesos), s # <<>>
  PROVE  /\ Head(s) \in ToSet(s) /\ Head(s) \in Procesos
         /\ \A p : p \in ToSet(s) => p = Head(s) \/ p \in ToSet(Tail(s))
<1>1. /\ Head(s) = s[1] /\ Len(Tail(s)) = Len(s) - 1 /\ Len(s) \in Nat /\ Len(s) > 0
      /\ \A i \in 1..Len(Tail(s)) : Tail(s)[i] = s[i + 1]
      /\ Tail(s) \in Seq(Procesos) /\ Head(s) \in Procesos
  BY CabezaEsLaPrimera
<1>2. Head(s) \in ToSet(s)
  BY <1>1, EnLista
<1>3. ASSUME NEW p \in ToSet(s), p # Head(s) PROVE p \in ToSet(Tail(s))
  <2>1. PICK i \in 1..Len(s) : s[i] = p
    BY EnLista
  <2>2. i # 1
    BY <1>1, <1>3, <2>1
  <2>3. i - 1 \in 1..Len(Tail(s)) /\ Tail(s)[i - 1] = p
    BY <1>1, <2>1, <2>2
  <2>. QED  BY <1>1, <2>3, EnLista
<1>. QED  BY <1>1, <1>2, <1>3

\* Only one process leaves a list that loses a position.
LEMMA ListaSinUno ==
  ASSUME NEW s \in Seq(Procesos), NEW k \in 1..Len(s)
  PROVE  /\ s[k] \in ToSet(s) /\ s[k] \in Procesos
         /\ \A p : p \in ToSet(s) => p = s[k] \/ p \in ToSet(RemoveAt(s, k))
<1>. DEFINE u == SubSeq(s, 1, k - 1)
            v == SubSeq(s, k + 1, Len(s))
<1>1. /\ k \in Nat /\ Len(s) \in Nat /\ s[k] \in Procesos
      /\ u \in Seq(Procesos) /\ Len(u) = k - 1
      /\ v \in Seq(Procesos) /\ Len(v) = Len(s) - k
      /\ \A j \in 1..(k - 1) : u[j] = s[j]
      /\ \A j \in 1..(Len(s) - k) : v[j] = s[k + j]
  OBVIOUS
<1>2. RemoveAt(s, k) = u \o v
  BY DEF RemoveAt
<1>. HIDE DEF u, v
<1>3. /\ u \o v \in Seq(Procesos) /\ Len(u \o v) = Len(u) + Len(v)
      /\ \A i \in 1..(Len(u) + Len(v)) :
           (u \o v)[i] = IF i <= Len(u) THEN u[i] ELSE v[i - Len(u)]
  BY <1>1, ConcatProperties
<1>4. ASSUME NEW p \in ToSet(s), p # s[k] PROVE p \in ToSet(u \o v)
  <2>1. PICK i \in 1..Len(s) : s[i] = p
    BY EnLista
  <2>2. CASE i < k
    <3>1. i \in 1..(k - 1) /\ i \in 1..(Len(u) + Len(v)) /\ i <= Len(u)
      BY <1>1, <2>1, <2>2
    <3>2. (u \o v)[i] = p
      BY <1>1, <1>3, <2>1, <3>1
    <3>. QED  BY <1>3, <3>1, <3>2, EnLista
  <2>3. CASE i > k
    <3>. DEFINE j == i - k
    <3>1. /\ j \in 1..(Len(s) - k) /\ k + j = i
          /\ i - 1 \in 1..(Len(u) + Len(v)) /\ ~(i - 1 <= Len(u))
          /\ (i - 1) - Len(u) = j
      BY <1>1, <2>1, <2>3
    <3>. HIDE DEF j
    <3>2. (u \o v)[i - 1] = p
      BY <1>1, <1>3, <2>1, <3>1
    <3>. QED  BY <1>3, <3>1, <3>2, EnLista
  <2>. QED  BY <1>1, <1>4, <2>1, <2>2, <2>3
<1>5. s[k] \in ToSet(s)
  BY EnLista
<1>. QED  BY <1>1, <1>2, <1>4, <1>5

\* A CPU thread changes phase: it has a process from then on, or it has none.
LEMMA PasaCPU ==
  ASSUME fase \in [Hilos -> FasesCPU \cup FasesLiberar], NEW c \in CPUs, NEW x,
         fase' = [fase EXCEPT ![c] = x]
  PROVE  /\ Reactivan' = Reactivan /\ Vuelven' = Vuelven
         /\ x \in FasesConProceso /\ c \in ConProceso => ConProceso' = ConProceso
         /\ x \in FasesConProceso /\ c \notin ConProceso => ConProceso' = ConProceso \cup {c}
         /\ x \notin FasesConProceso /\ c \in ConProceso => ConProceso' = ConProceso \ {c}
         /\ x \notin FasesConProceso /\ c \notin ConProceso => ConProceso' = ConProceso
<1>1. c \in Hilos /\ c \notin Dispositivos /\ CPUs \subseteq Hilos /\ Dispositivos \subseteq Hilos
  BY ConstantesOK DEF Hilos
<1>2. \A t \in Hilos : fase'[t] = IF t = c THEN x ELSE fase[t]
  BY <1>1
<1>. QED  BY <1>1, <1>2 DEF Reactivan, Vuelven, ConProceso, FasesConProceso, FasesLiberar

\* A device changes phase: its process comes back to Ready, goes by
\* SuspendedReady, or there is none.
LEMMA PasaDispositivo ==
  ASSUME fase \in [Hilos -> FasesCPU \cup FasesLiberar], NEW d \in Dispositivos, NEW x,
         fase' = [fase EXCEPT ![d] = x]
  PROVE  /\ ConProceso' = ConProceso
         /\ x = "miraSuspendidos" /\ d \notin Vuelven /\ d \notin Reactivan
              => Vuelven' = Vuelven \cup {d} /\ Reactivan' = Reactivan
         /\ x \in {"quitaDeBlocked", "aReady"} /\ d \in Vuelven
              => Vuelven' = Vuelven /\ Reactivan' = Reactivan
         /\ x = "aSuspendedReady" /\ d \in Vuelven
              => Vuelven' = Vuelven \ {d} /\ Reactivan' = Reactivan \cup {d}
         /\ x = "espera" /\ d \in Vuelven
              => Vuelven' = Vuelven \ {d} /\ Reactivan' = Reactivan
         /\ x = "espera" /\ d \in Reactivan
              => Vuelven' = Vuelven /\ Reactivan' = Reactivan \ {d}
<1>1. d \in Hilos /\ d \notin CPUs /\ CPUs \subseteq Hilos /\ Dispositivos \subseteq Hilos
  BY ConstantesOK DEF Hilos
<1>2. \A t \in Hilos : fase'[t] = IF t = d THEN x ELSE fase[t]
  BY <1>1
<1>3. ConProceso' = ConProceso
  BY <1>1, <1>2 DEF ConProceso
<1>. QED  BY <1>1, <1>2, <1>3 DEF Reactivan, Vuelven

\* CicloDeVida counts like Planificador.
LEMMA MismaCuenta == \A S : Ciclo!Cardinality(S) = Cardinality(S)
  BY DEF Ciclo!Cardinality, Cardinality

\* While a thread has no process, fewer than all of them have one.
LEMMA QuedaUnaCPU ==
  ASSUME InvUbicacion, NEW c \in CPUs, c \notin ConProceso
  PROVE  Cardinality(Ciclo!EnExec) < Cardinality(CPUs)
<1>1. \A b \in ConProceso : ejecutando[b] \in Procesos
  BY DEF InvUbicacion, Inv, Tipos, HilosConsistentes, ConProceso, FasesConProceso, FasesLiberar
<1>2. Ciclo!EnExec = {p \in Procesos : Estado[p] = "Exec"}
  BY DEF Ciclo!EnExec, Estado
<1>3. \A p \in Procesos : Estado[p] = "Exec" <=> EsExec(p)
  <2>. TAKE p \in Procesos
  <2>1. /\ \E e \in Ciclo!Estados : EnEstado(p, e)
        /\ \A e : EnEstado(p, e) => Estado[p] = e
    BY UnaLectura DEF LecturaUnica, Estado
  <2>2. EnEstado(p, "Exec") <=> EsExec(p)
    BY DEF EnEstado
  <2>. QED  BY <2>1, <2>2
<1>. DEFINE f == [b \in ConProceso |-> ejecutando[b]]
<1>4. f \in Surjection(ConProceso, Ciclo!EnExec)
  BY <1>1, <1>2, <1>3 DEF Surjection, EsExec
<1>5. Cardinality(Ciclo!EnExec) <= Cardinality(ConProceso) /\ IsFiniteSet(Ciclo!EnExec)
  <2>. HIDE DEF f
  <2>. QED  BY <1>4, HilosFinitos, FS_Surjection
<1>6. /\ Cardinality(ConProceso) <= Cardinality(CPUs \ {c})
      /\ Cardinality(CPUs \ {c}) = Cardinality(CPUs) - 1
  <2>1. ConProceso \subseteq CPUs \ {c}
    BY DEF ConProceso
  <2>2. IsFiniteSet(CPUs \ {c}) /\ Cardinality(CPUs \ {c}) = Cardinality(CPUs) - 1
    BY ConstantesOK, FS_RemoveElement
  <2>. QED  BY <2>1, <2>2, FS_Subset
<1>7. Cardinality(Ciclo!EnExec) \in Nat /\ Cardinality(ConProceso) \in Nat
      /\ Cardinality(CPUs) \in Nat
  BY <1>5, HilosFinitos, ConstantesOK, FS_CardinalityType
<1>. QED  BY <1>5, <1>6, <1>7

-----------------------------------------------------------------------------
(* The steps.                                                              *)

\* At first everyone is outside.
LEMMA CicloInit == Init => Ciclo!Init
<1>. SUFFICES ASSUME Init PROVE Ciclo!Init
  OBVIOUS
<1>1. Cola = <<>>
  BY DEF Init, Cola
<1>2. \A p \in Procesos : EstadoDe(p) = "Fuera"
  <2>. SUFFICES ASSUME NEW p \in Procesos PROVE EstadoDe(p) = "Fuera"
    OBVIOUS
  <2>1. InvUbicacion
    BY InvInit, UbicacionInit DEF InvUbicacion
  <2>2. EnEstado(p, "Fuera")
    BY DEF Init, EnEstado
  <2>. QED  BY <2>1, <2>2, UnaLectura DEF LecturaUnica
<1>. QED  BY <1>1, <1>2 DEF Ciclo!Init, Cola

\* Each step is a move or none.
LEMMA CicloNext ==
  ASSUME InvUbicacion, LecturaUnica, LecturaUnica', [Next]_vars
  PROVE  Ciclo!Next \/ UNCHANGED Ciclo!vars
<1>t. /\ fase \in [Hilos -> FasesCPU \cup FasesLiberar]
      /\ ejecutando \in [CPUs -> Procesos \cup {Nadie}]
      /\ liberado \in [Hilos -> Procesos \cup {Nadie}]
      /\ pedido \in [Procesos -> EstadosCliente]
      /\ procesosNew \in Seq(Procesos) /\ procesosReady \in Seq(Procesos)
      /\ procesosSuspendedReady \in Seq(Procesos)
      /\ listaEspera \in [Dispositivos -> Seq(Procesos)]
      /\ CPUs \subseteq Hilos /\ Dispositivos \subseteq Hilos
      /\ nuevo \in Procesos \cup {Nadie}
      /\ Nadie \notin Procesos
  BY ConstantesOK DEF InvUbicacion, Inv, Tipos, TypeOK, Hilos
<1>h. HilosConsistentes /\ FasesPropias /\ NuncaSacaDeVacia
  BY InvNoSacaDeVacia DEF InvUbicacion, Inv, Tipos
\* a step that changes nothing that a reading looks at
<1>k. ASSUME /\ UNCHANGED <<procesosNew, nuevo, procesosReady, listaEspera,
                            procesosSuspendedReady, preparado, liberados>>
             /\ \A p \in Procesos : pedido[p] = "sinConectar" => pedido'[p] = "sinConectar"
             /\ ConProceso' = ConProceso /\ Vuelven' = Vuelven /\ Reactivan' = Reactivan
             /\ \A c \in ConProceso : ejecutando'[c] = ejecutando[c]
             /\ \A d \in Vuelven \cup Reactivan : liberado'[d] = liberado[d]
      PROVE  UNCHANGED Ciclo!vars
  <2>1. ASSUME NEW p \in Procesos, NEW e, EnEstado(p, e) PROVE EnEstado(p, e)'
    BY <1>k, <2>1
    DEF EnEstado, EsNew, EsReady, EsExec, EsBlocked, EsSuspendedReady
  <2>2. Estado' = Estado
    BY <2>1, Quietud
  <2>3. Cola' = Cola
    BY <1>k DEF Cola
  <2>. QED  BY <2>2, <2>3 DEF Ciclo!vars, Estado, Cola
<1>1. ASSUME NEW q \in Procesos, LlegaProceso(q) PROVE Ciclo!Next
  <2>1. /\ pedido[q] = "sinConectar" /\ procesosNew' = Append(procesosNew, q)
        /\ \A p \in Procesos \ {q} : pedido'[p] = pedido[p]
        /\ UNCHANGED <<nuevo, procesosReady, listaEspera, procesosSuspendedReady,
                       preparado, liberados, fase, ejecutando, liberado>>
    BY <1>1, <1>t DEF LlegaProceso, hilos, medio
  <2>2. ToSet(procesosNew') = ToSet(procesosNew) \cup {q}
    BY <2>1, <1>t, ListaCrece
  <2>3. EnEstado(q, "Fuera") /\ EnEstado(q, "New")'
    BY <2>1, <2>2 DEF EnEstado, EsNew
  <2>4. ConProceso' = ConProceso /\ Vuelven' = Vuelven /\ Reactivan' = Reactivan
    BY <2>1 DEF ConProceso, Vuelven, Reactivan
  <2>5. ASSUME NEW p \in Procesos \ {q}, NEW e, EnEstado(p, e) PROVE EnEstado(p, e)'
    BY <2>1, <2>2, <2>4, <2>5
    DEF EnEstado, EsNew, EsReady, EsExec, EsBlocked, EsSuspendedReady
  <2>6. Mueve(q, "Fuera", "New")
    BY <2>3, <2>5, Movimiento
  <2>7. Cola' = Append(Cola, q)
    <3>. DEFINE a == IF nuevo = Nadie THEN <<>> ELSE <<nuevo>>
    <3>1. a \in Seq(Procesos)
      BY <1>t
    <3>2. /\ Append(procesosNew, q) = procesosNew \o <<q>>
          /\ Append(a \o procesosNew, q) = (a \o procesosNew) \o <<q>>
      BY <1>t, <3>1, AppendIsConcat, ConcatProperties
    <3>3. (a \o procesosNew) \o <<q>> = a \o (procesosNew \o <<q>>)
      BY <1>t, <3>1, ConcatAssociative
    <3>. QED  BY <2>1, <3>2, <3>3 DEF Cola
  <2>. QED  BY <2>6, <2>7, EsPasa DEF Ciclo!Next, Ciclo!Llega, Cola
<1>2. ASSUME NEW q \in Procesos, RecibeRespuesta(q) \/ CaeCliente(q)
      PROVE  UNCHANGED Ciclo!vars
  <2>1. /\ \A p \in Procesos : pedido[p] = "sinConectar" => pedido'[p] = "sinConectar"
        /\ UNCHANGED <<procesosNew, nuevo, procesosReady, listaEspera,
                       procesosSuspendedReady, preparado, liberados, fase, ejecutando,
                       liberado>>
    BY <1>2, <1>t DEF RecibeRespuesta, CaeCliente, Codigos, colas, hilos, medio
  <2>2. ConProceso' = ConProceso /\ Vuelven' = Vuelven /\ Reactivan' = Reactivan
    BY <2>1 DEF ConProceso, Vuelven, Reactivan
  <2>. QED  BY <2>1, <2>2, <1>k
<1>3. ASSUME LargoPlazoSaca PROVE UNCHANGED Ciclo!vars
  <2>1. /\ nuevo = Nadie /\ nuevo' = Head(procesosNew) /\ procesosNew' = Tail(procesosNew)
        /\ procesosNew # <<>>
        /\ UNCHANGED <<procesosReady, listaEspera, procesosSuspendedReady, preparado,
                       liberados, pedido, fase, ejecutando, liberado>>
    BY <1>3, <1>h DEF LargoPlazoSaca, NuncaSacaDeVacia, hilos, clientes
  <2>2. \A p : p \in ToSet(procesosNew) => p = nuevo' \/ p \in ToSet(procesosNew')
    BY <2>1, <1>t, ListaSinCabeza
  <2>3. ConProceso' = ConProceso /\ Vuelven' = Vuelven /\ Reactivan' = Reactivan
    BY <2>1 DEF ConProceso, Vuelven, Reactivan
  <2>4. ASSUME NEW p \in Procesos, NEW e, EnEstado(p, e) PROVE EnEstado(p, e)'
    BY <2>1, <2>2, <2>3, <2>4, <1>t
    DEF EnEstado, EsNew, EsReady, EsExec, EsBlocked, EsSuspendedReady
  <2>5. Estado' = Estado
    BY <2>4, Quietud
  <2>6. Cola' = Cola
    <3>1. Head(procesosNew) \in Procesos
      BY <2>1, <1>t, ListaSinCabeza
    <3>2. <<Head(procesosNew)>> \o Tail(procesosNew) = procesosNew
      BY <2>1, <1>t
    <3>3. <<>> \o procesosNew = procesosNew
      BY <1>t, ConcatEmptySeq
    <3>. QED  BY <2>1, <3>1, <3>2, <3>3, <1>t DEF Cola
  <2>. QED  BY <2>5, <2>6 DEF Ciclo!vars, Estado, Cola
<1>4. ASSUME LargoPlazoAgrega PROVE Ciclo!Next
  <2>q. PICK q : q = nuevo
    OBVIOUS
  <2>1. /\ q \in Procesos /\ nuevo' = Nadie /\ procesosReady' = Append(procesosReady, q)
        /\ UNCHANGED <<procesosNew, listaEspera, procesosSuspendedReady, preparado,
                       liberados, pedido, fase, ejecutando, liberado>>
    BY <2>q, <1>4, <1>t DEF LargoPlazoAgrega, hilos, clientes
  <2>2. ToSet(procesosReady') = ToSet(procesosReady) \cup {q}
    BY <2>1, <1>t, ListaCrece
  <2>3. EnEstado(q, "New") /\ EnEstado(q, "Ready")'
    <3>1. EnEstado(q, "New")
      BY <2>q DEF EnEstado, EsNew
    <3>2. q \in ToSet(procesosReady')
      BY <2>q, <2>2
    <3>. QED  BY <2>q, <3>1, <3>2 DEF EnEstado, EsReady
  <2>4. ConProceso' = ConProceso /\ Vuelven' = Vuelven /\ Reactivan' = Reactivan
    BY <2>q, <2>1 DEF ConProceso, Vuelven, Reactivan
  <2>5. ASSUME NEW p \in Procesos \ {q}, NEW e, EnEstado(p, e) PROVE EnEstado(p, e)'
    BY <2>q, <2>1, <2>2, <2>4, <2>5
    DEF EnEstado, EsNew, EsReady, EsExec, EsBlocked, EsSuspendedReady
  <2>6. Mueve(q, "New", "Ready")
    BY <2>1, <2>3, <2>5, Movimiento
  <2>7. Cola # <<>> /\ q = Head(Cola) /\ Cola' = Tail(Cola)
    <3>1. Cola = <<q>> \o procesosNew /\ Cola' = <<>> \o procesosNew
      BY <2>q, <2>1, <1>t DEF Cola
    <3>2. <<>> \o procesosNew = procesosNew
      BY <2>q, <1>t, ConcatEmptySeq
    <3>3. /\ <<q>> \o procesosNew # <<>> /\ Head(<<q>> \o procesosNew) = q
          /\ Tail(<<q>> \o procesosNew) = procesosNew
      BY <2>q, <2>1, <1>t, ConcatSimplifications
    <3>. QED  BY <2>q, <3>1, <3>2, <3>3
  <2>. QED  BY <2>1, <2>6, <2>7, EsPasa DEF Ciclo!Next, Ciclo!Admite, Cola
<1>5. ASSUME CortoPlazo \/ NoSuspende \/ Suspende \/ DecideAdmision \/ Reposo \/ vars' = vars
      PROVE  UNCHANGED Ciclo!vars
  <2>1. UNCHANGED <<procesosNew, nuevo, procesosReady, listaEspera, procesosSuspendedReady,
                    preparado, liberados, pedido, fase, ejecutando, liberado>>
    BY <1>5 DEF CortoPlazo, NoSuspende, Suspende, DecideAdmision, Reposo, vars, colas,
      hilos, medio, clientes
  <2>2. ConProceso' = ConProceso /\ Vuelven' = Vuelven /\ Reactivan' = Reactivan
    BY <2>1 DEF ConProceso, Vuelven, Reactivan
  <2>. QED  BY <2>1, <2>2, <1>k
<1>6. ASSUME SacaDeSuspendedReady PROVE UNCHANGED Ciclo!vars
  <2>1. /\ procesosSuspendedReady # <<>> /\ preparado = Nadie
        /\ preparado' = Head(procesosSuspendedReady)
        /\ procesosSuspendedReady' = Tail(procesosSuspendedReady)
        /\ UNCHANGED <<procesosNew, nuevo, procesosReady, listaEspera, liberados, pedido,
                       fase, ejecutando, liberado>>
    BY <1>6, <1>h
    DEF SacaDeSuspendedReady, HilosConsistentes, FasesPropias, FasesComunes, hilos, clientes
  <2>2. \A p : p \in ToSet(procesosSuspendedReady)
                 => p = preparado' \/ p \in ToSet(procesosSuspendedReady')
    BY <2>1, <1>t, ListaSinCabeza
  <2>3. ConProceso' = ConProceso /\ Vuelven' = Vuelven /\ Reactivan' = Reactivan
    BY <2>1 DEF ConProceso, Vuelven, Reactivan
  <2>4. ASSUME NEW p \in Procesos, NEW e, EnEstado(p, e) PROVE EnEstado(p, e)'
    BY <2>1, <2>2, <2>3, <2>4, <1>t
    DEF EnEstado, EsNew, EsReady, EsExec, EsBlocked, EsSuspendedReady
  <2>5. Estado' = Estado
    BY <2>4, Quietud
  <2>. QED  BY <2>1, <2>5 DEF Ciclo!vars, Estado
<1>7. ASSUME ReactivaSuspendido PROVE Ciclo!Next
  <2>q. PICK q : q = preparado
    OBVIOUS
  <2>1. /\ q \in Procesos /\ preparado' = Nadie /\ procesosReady' = Append(procesosReady, q)
        /\ UNCHANGED <<procesosNew, nuevo, listaEspera, procesosSuspendedReady,
                       liberados, pedido, fase, ejecutando, liberado>>
    BY <2>q, <1>7, <1>h DEF ReactivaSuspendido, HilosConsistentes, hilos, clientes
  <2>2. ToSet(procesosReady') = ToSet(procesosReady) \cup {q}
    BY <2>1, <1>t, ListaCrece
  <2>3. EnEstado(q, "SuspendedReady") /\ EnEstado(q, "Ready")'
    <3>1. EnEstado(q, "SuspendedReady")
      BY <2>q DEF EnEstado, EsSuspendedReady
    <3>2. q \in ToSet(procesosReady')
      BY <2>q, <2>2
    <3>. QED  BY <2>q, <3>1, <3>2 DEF EnEstado, EsReady
  <2>4. ConProceso' = ConProceso /\ Vuelven' = Vuelven /\ Reactivan' = Reactivan
    BY <2>q, <2>1 DEF ConProceso, Vuelven, Reactivan
  <2>5. ASSUME NEW p \in Procesos \ {q}, NEW e, EnEstado(p, e) PROVE EnEstado(p, e)'
    BY <2>q, <2>1, <2>2, <2>4, <2>5
    DEF EnEstado, EsNew, EsReady, EsExec, EsBlocked, EsSuspendedReady
  <2>6. Mueve(q, "SuspendedReady", "Ready")
    BY <2>1, <2>3, <2>5, Movimiento
  <2>. QED  BY <2>1, <2>6, EsPasa DEF Ciclo!Next, Ciclo!Readmite, Cola
<1>8. ASSUME NEW c \in CPUs, TomaDeReady(c) PROVE Ciclo!Next
  <2>1. PICK i \in 1..Len(procesosReady) :
          /\ ejecutando' = [ejecutando EXCEPT ![c] = procesosReady[i]]
          /\ procesosReady' = RemoveAt(procesosReady, i)
    BY <1>8 DEF TomaDeReady, PrimeroTrasOrdenar
  <2>q. PICK q : q = procesosReady[i]
    OBVIOUS
  <2>2. /\ fase[c] = "espera" /\ fase' = [fase EXCEPT ![c] = "tomado"]
        /\ UNCHANGED <<procesosNew, nuevo, listaEspera, procesosSuspendedReady,
                       preparado, liberados, pedido, liberado>>
    BY <2>q, <1>8 DEF TomaDeReady, medio, clientes
  <2>3. /\ q \in ToSet(procesosReady) /\ q \in Procesos
        /\ \A p : p \in ToSet(procesosReady) => p = q \/ p \in ToSet(procesosReady')
    BY <2>q, <2>1, <1>t, ListaSinUno
  <2>4. c \notin ConProceso
    BY <2>2 DEF ConProceso, FasesConProceso, FasesLiberar
  <2>5. /\ ConProceso' = ConProceso \cup {c}
        /\ Vuelven' = Vuelven /\ Reactivan' = Reactivan
    <3>1. "tomado" \in FasesConProceso
      BY DEF FasesConProceso, FasesLiberar
    <3>. QED  BY <2>2, <2>4, <3>1, <1>t, PasaCPU
  <2>6. /\ ejecutando'[c] = q
        /\ \A b \in ConProceso : b \in CPUs /\ ejecutando'[b] = ejecutando[b]
    BY <2>q, <2>1, <2>4, <1>t DEF ConProceso
  <2>7. EnEstado(q, "Ready") /\ EnEstado(q, "Exec")'
    BY <2>q, <2>3, <2>5, <2>6 DEF EnEstado, EsReady, EsExec
  <2>8. ASSUME NEW p \in Procesos \ {q}, NEW e, EnEstado(p, e) PROVE EnEstado(p, e)'
    BY <2>q, <2>2, <2>3, <2>5, <2>6, <2>8
    DEF EnEstado, EsNew, EsReady, EsExec, EsBlocked, EsSuspendedReady
  <2>9. Mueve(q, "Ready", "Exec")
    BY <2>3, <2>7, <2>8, Movimiento
  <2>10. Ciclo!Cardinality(Ciclo!EnExec) < Cardinality(CPUs)
    BY <2>4, QuedaUnaCPU, MismaCuenta
  <2>. QED  BY <2>2, <2>3, <2>9, <2>10, EsPasa DEF Ciclo!Next, Ciclo!Despacha, Cola
<1>9. ASSUME NEW c \in CPUs,
             EntraEnExec(c) \/ AvisaInicio(c) \/ AvisaDesbloqueo(c) \/ AtiendeOtra(c)
               \/ \E d \in Dispositivos : AtiendeIO(c, d)
      PROVE  UNCHANGED Ciclo!vars
  <2>1. PICK x \in {"enExec", "avisa", "atiende", "aDispositivo"} :
          fase' = [fase EXCEPT ![c] = x]
    BY <1>9 DEF EntraEnExec, AvisaInicio, AvisaDesbloqueo, AtiendeOtra, AtiendeIO
  <2>2. c \in ConProceso
    BY <1>9 DEF EntraEnExec, AvisaInicio, AvisaDesbloqueo, AtiendeOtra, AtiendeIO, Atiende,
      ConProceso, FasesConProceso, FasesLiberar
  <2>3. ConProceso' = ConProceso /\ Vuelven' = Vuelven /\ Reactivan' = Reactivan
    <3>1. x \in FasesConProceso
      BY DEF FasesConProceso, FasesLiberar
    <3>. QED  BY <2>1, <2>2, <3>1, <1>t, PasaCPU
  <2>4. UNCHANGED <<procesosNew, nuevo, procesosReady, listaEspera, procesosSuspendedReady,
                    preparado, liberados, ejecutando, liberado>>
    BY <1>9 DEF EntraEnExec, AvisaInicio, AvisaDesbloqueo, AtiendeOtra, AtiendeIO, colas, medio
  <2>5. \A p \in Procesos : pedido[p] = "sinConectar" => pedido'[p] = "sinConectar"
    BY <1>9, <1>t DEF EntraEnExec, AvisaInicio, AvisaDesbloqueo, AtiendeOtra, AtiendeIO,
      Atiende, Llama, clientes
  <2>. QED  BY <2>3, <2>4, <2>5, <1>k
<1>10. ASSUME NEW c \in CPUs, AgregaADispositivo(c) PROVE Ciclo!Next
  <2>q. PICK q : q = ejecutando[c]
    OBVIOUS
  <2>d. PICK d : d = dispositivo[c]
    OBVIOUS
  <2>1. /\ fase[c] = "aDispositivo" /\ fase' = [fase EXCEPT ![c] = "aBlocked"]
        /\ listaEspera' = [listaEspera EXCEPT ![d] = Append(@, q)]
        /\ UNCHANGED <<procesosNew, nuevo, procesosReady, procesosSuspendedReady, preparado,
                       liberados, pedido, ejecutando, liberado>>
    BY <2>q, <2>d, <1>10 DEF AgregaADispositivo, colas, medio, clientes
  <2>2. q \in Procesos /\ d \in Dispositivos
    BY <2>q, <2>d, <2>1, <1>h DEF HilosConsistentes
  <2>3. c \in ConProceso
    BY <2>1 DEF ConProceso, FasesConProceso, FasesLiberar
  <2>4. /\ ConProceso' = ConProceso \ {c}
        /\ Vuelven' = Vuelven /\ Reactivan' = Reactivan
    <3>1. "aBlocked" \notin FasesConProceso
      BY DEF FasesConProceso, FasesLiberar
    <3>. QED  BY <2>1, <2>3, <3>1, <1>t, PasaCPU
  <2>5. /\ ToSet(listaEspera'[d]) = ToSet(listaEspera[d]) \cup {q}
        /\ \A e \in Dispositivos \ {d} : listaEspera'[e] = listaEspera[e]
    BY <2>1, <2>2, <1>t, ListaCrece
  <2>6. EnEstado(q, "Exec") /\ EnEstado(q, "Blocked")'
    <3>1. EsExec(q)
      BY <2>q, <2>d, <2>3 DEF EsExec
    <3>2. q \in ToSet(listaEspera'[d])
      BY <2>q, <2>d, <2>5
    <3>. QED  BY <2>q, <2>d, <2>2, <3>1, <3>2 DEF EnEstado, EsBlocked
  <2>7. ASSUME NEW p \in Procesos \ {q}, NEW e, EnEstado(p, e) PROVE EnEstado(p, e)'
    <3>1. \A b \in Dispositivos : p \in ToSet(listaEspera[b]) => p \in ToSet(listaEspera'[b])
      BY <2>q, <2>d, <2>5
    <3>. QED
      BY <2>q, <2>d, <2>1, <2>4, <2>7, <3>1
      DEF EnEstado, EsNew, EsReady, EsExec, EsBlocked, EsSuspendedReady
  <2>8. Mueve(q, "Exec", "Blocked")
    BY <2>2, <2>6, <2>7, Movimiento
  <2>. QED  BY <2>1, <2>2, <2>8, EsPasa DEF Ciclo!Next, Ciclo!Bloquea, Cola
<1>11. ASSUME NEW c \in CPUs, AgregaABlocked(c) \/ CalculaEstimacion(c)
       PROVE  UNCHANGED Ciclo!vars
  <2>1. PICK x \in {"calcula", "espera"} : fase' = [fase EXCEPT ![c] = x]
    BY <1>11 DEF AgregaABlocked, CalculaEstimacion
  <2>2. c \notin ConProceso
    BY <1>11 DEF AgregaABlocked, CalculaEstimacion, ConProceso, FasesConProceso, FasesLiberar
  <2>3. ConProceso' = ConProceso /\ Vuelven' = Vuelven /\ Reactivan' = Reactivan
    <3>1. x \notin FasesConProceso
      BY DEF FasesConProceso, FasesLiberar
    <3>. QED  BY <2>1, <2>2, <3>1, <1>t, PasaCPU
  <2>4. UNCHANGED <<procesosNew, nuevo, procesosReady, listaEspera, procesosSuspendedReady,
                    preparado, liberados, pedido, liberado>>
    BY <1>11 DEF AgregaABlocked, CalculaEstimacion, colas, medio, clientes
  <2>5. \A b \in ConProceso : ejecutando'[b] = ejecutando[b]
    BY <1>11, <2>2, <1>t DEF AgregaABlocked, CalculaEstimacion, ConProceso
  <2>. QED  BY <2>3, <2>4, <2>5, <1>k
<1>12. ASSUME NEW c \in CPUs, AtiendeCerrar(c) PROVE Ciclo!Next
  <2>q. PICK q : q = ejecutando[c]
    OBVIOUS
  <2>1. /\ fase[c] = "atiende" /\ fase' = [fase EXCEPT ![c] = "espera"]
        /\ ejecutando' = [ejecutando EXCEPT ![c] = Nadie]
        /\ liberados' = liberados \cup {q}
        /\ UNCHANGED <<procesosNew, nuevo, procesosReady, listaEspera,
                       procesosSuspendedReady, preparado, liberado>>
    BY <2>q, <1>12 DEF AtiendeCerrar, Atiende, medio
  <2>2. q \in Procesos
    BY <2>q, <2>1, <1>h DEF HilosConsistentes
  <2>3. \A p \in Procesos : pedido[p] = "sinConectar" => pedido'[p] = "sinConectar"
    BY <2>q, <1>12, <1>t DEF AtiendeCerrar, Atiende, Llama
  <2>4. c \in ConProceso
    BY <2>1 DEF ConProceso, FasesConProceso, FasesLiberar
  <2>5. /\ ConProceso' = ConProceso \ {c}
        /\ Vuelven' = Vuelven /\ Reactivan' = Reactivan
    <3>1. "espera" \notin FasesConProceso
      BY DEF FasesConProceso, FasesLiberar
    <3>. QED  BY <2>1, <2>4, <3>1, <1>t, PasaCPU
  <2>6. \A b \in ConProceso \ {c} : ejecutando'[b] = ejecutando[b]
    BY <2>q, <2>1, <1>t DEF ConProceso
  <2>7. EnEstado(q, "Exec") /\ EnEstado(q, "Exit")'
    BY <2>q, <2>1, <2>4 DEF EnEstado, EsExec
  <2>8. ASSUME NEW p \in Procesos \ {q}, NEW e, EnEstado(p, e) PROVE EnEstado(p, e)'
    BY <2>q, <2>1, <2>3, <2>5, <2>6, <2>8
    DEF EnEstado, EsNew, EsReady, EsExec, EsBlocked, EsSuspendedReady
  <2>9. Mueve(q, "Exec", "Exit")
    BY <2>2, <2>7, <2>8, Movimiento
  <2>. QED  BY <2>1, <2>2, <2>9, EsPasa DEF Ciclo!Next, Ciclo!Termina, Cola
<1>13. ASSUME NEW d \in Dispositivos, TerminaIO(d) PROVE UNCHANGED Ciclo!vars
  <2>q. PICK q : q = Head(listaEspera[d])
    OBVIOUS
  <2>1. /\ fase[d] = "espera" /\ fase' = [fase EXCEPT ![d] = "miraSuspendidos"]
        /\ liberado' = [liberado EXCEPT ![d] = q]
        /\ listaEspera[d] # <<>> /\ listaEspera' = [listaEspera EXCEPT ![d] = Tail(@)]
        /\ UNCHANGED <<procesosNew, nuevo, procesosReady, procesosSuspendedReady, preparado,
                       liberados, pedido, ejecutando>>
    BY <2>q, <1>13, <1>h DEF TerminaIO, colas, medio, clientes, NuncaSacaDeVacia
  <2>2. d \notin Vuelven /\ d \notin Reactivan
    BY <2>1 DEF Vuelven, Reactivan
  <2>3. ConProceso' = ConProceso /\ Vuelven' = Vuelven \cup {d} /\ Reactivan' = Reactivan
    BY <2>1, <2>2, <1>t, PasaDispositivo
  <2>4. /\ \A p : p \in ToSet(listaEspera[d]) => p = q \/ p \in ToSet(listaEspera'[d])
        /\ \A e \in Dispositivos \ {d} : listaEspera'[e] = listaEspera[e]
    BY <2>q, <2>1, <1>t, ListaSinCabeza
  <2>5. /\ liberado'[d] = q
        /\ \A e \in Vuelven \cup Reactivan : liberado'[e] = liberado[e]
    BY <2>1, <2>2, <1>t DEF Vuelven, Reactivan
  <2>6. ASSUME NEW p \in Procesos, EsBlocked(p) PROVE EsBlocked(p)'
    BY <2>q, <2>3, <2>4, <2>5, <2>6 DEF EsBlocked
  <2>7. ASSUME NEW p \in Procesos, NEW e, EnEstado(p, e) PROVE EnEstado(p, e)'
    BY <2>q, <2>1, <2>3, <2>5, <2>6, <2>7 DEF EnEstado, EsNew, EsReady, EsExec, EsSuspendedReady
  <2>8. Estado' = Estado
    BY <2>7, Quietud
  <2>. QED  BY <2>q, <2>1, <2>8 DEF Ciclo!vars, Estado
<1>14. ASSUME NEW t \in Hilos, MiraSuspendidos(t) PROVE Ciclo!Next \/ UNCHANGED Ciclo!vars
  <2>q. PICK q : q = liberado[t]
    OBVIOUS
  <2>1. t \in Dispositivos /\ q \in Procesos
    BY <2>q, <1>14, <1>h, LiberaUnDispositivo
    DEF FasesPropias, MiraSuspendidos, HilosConsistentes, FasesLiberar
  <2>2. /\ fase[t] = "miraSuspendidos"
        /\ \/ fase' = [fase EXCEPT ![t] = "aSuspendedReady"]
           \/ fase' = [fase EXCEPT ![t] = "quitaDeBlocked"]
        /\ UNCHANGED <<procesosNew, nuevo, procesosReady, listaEspera,
                       procesosSuspendedReady, preparado, liberados, pedido, ejecutando,
                       liberado>>
    BY <2>q, <1>14 DEF MiraSuspendidos, medio, clientes
  <2>3. t \in Vuelven /\ t \notin Reactivan
    BY <2>1, <2>2 DEF Vuelven, Reactivan
  <2>4. CASE fase' = [fase EXCEPT ![t] = "quitaDeBlocked"]
    <3>1. ConProceso' = ConProceso /\ Vuelven' = Vuelven /\ Reactivan' = Reactivan
      BY <2>1, <2>3, <2>4, <1>t, PasaDispositivo
    <3>. QED  BY <2>2, <3>1, <1>k
  <2>5. CASE fase' = [fase EXCEPT ![t] = "aSuspendedReady"]
    <3>1. /\ ConProceso' = ConProceso /\ Vuelven' = Vuelven \ {t}
          /\ Reactivan' = Reactivan \cup {t}
      BY <2>1, <2>3, <2>5, <1>t, PasaDispositivo
    <3>2. EnEstado(q, "Blocked") /\ EnEstado(q, "SuspendedReady")'
      BY <2>q, <2>2, <2>3, <3>1 DEF EnEstado, EsBlocked, EsSuspendedReady
    <3>3. ASSUME NEW p \in Procesos \ {q}, NEW e, EnEstado(p, e) PROVE EnEstado(p, e)'
      BY <2>q, <2>2, <3>1, <3>3
      DEF EnEstado, EsNew, EsReady, EsExec, EsBlocked, EsSuspendedReady
    <3>4. Mueve(q, "Blocked", "SuspendedReady")
      BY <2>1, <3>2, <3>3, Movimiento
    <3>. QED  BY <2>1, <2>2, <3>4, EsPasa DEF Ciclo!Next, Ciclo!Desbloquea, Cola
  <2>. QED  BY <2>q, <2>2, <2>4, <2>5
<1>15. ASSUME NEW t \in Hilos, ASuspendedReady(t) PROVE UNCHANGED Ciclo!vars
  <2>q. PICK q : q = liberado[t]
    OBVIOUS
  <2>1. t \in Dispositivos /\ t \notin CPUs /\ q \in Procesos
    BY <2>q, <1>15, <1>h, LiberaUnDispositivo, ConstantesOK
    DEF FasesPropias, ASuspendedReady, HilosConsistentes, FasesLiberar
  <2>2. /\ fase[t] = "aSuspendedReady" /\ fase' = [fase EXCEPT ![t] = "espera"]
        /\ liberado' = [liberado EXCEPT ![t] = Nadie]
        /\ procesosSuspendedReady' = Append(procesosSuspendedReady, q)
        /\ UNCHANGED <<procesosNew, nuevo, procesosReady, listaEspera, preparado,
                       liberados, pedido, ejecutando>>
    BY <2>q, <1>15, <2>1 DEF ASuspendedReady, TrasLiberar, medio, clientes
  <2>3. t \notin Vuelven /\ t \in Reactivan
    BY <2>1, <2>2 DEF Vuelven, Reactivan
  <2>4. ConProceso' = ConProceso /\ Vuelven' = Vuelven /\ Reactivan' = Reactivan \ {t}
    BY <2>1, <2>2, <2>3, <1>t, PasaDispositivo
  <2>5. ToSet(procesosSuspendedReady') = ToSet(procesosSuspendedReady) \cup {q}
    BY <2>1, <2>2, <1>t, ListaCrece
  <2>6. \A e \in Vuelven \cup (Reactivan \ {t}) : liberado'[e] = liberado[e]
    BY <2>2, <2>3, <1>t DEF Vuelven, Reactivan
  <2>7. ASSUME NEW p \in Procesos, EsSuspendedReady(p) PROVE EsSuspendedReady(p)'
    BY <2>q, <2>2, <2>4, <2>5, <2>6, <2>7 DEF EsSuspendedReady
  <2>8. ASSUME NEW p \in Procesos, NEW e, EnEstado(p, e) PROVE EnEstado(p, e)'
    BY <2>q, <2>2, <2>4, <2>6, <2>7, <2>8 DEF EnEstado, EsNew, EsReady, EsExec, EsBlocked
  <2>9. Estado' = Estado
    BY <2>8, Quietud
  <2>. QED  BY <2>q, <2>2, <2>9 DEF Ciclo!vars, Estado
<1>16. ASSUME NEW t \in Hilos, QuitaDeBlocked(t) PROVE UNCHANGED Ciclo!vars
  <2>1. t \in Dispositivos
    BY <1>16, <1>h, LiberaUnDispositivo DEF FasesPropias, QuitaDeBlocked, FasesLiberar
  <2>2. /\ fase[t] = "quitaDeBlocked" /\ fase' = [fase EXCEPT ![t] = "aReady"]
        /\ UNCHANGED <<procesosNew, nuevo, procesosReady, listaEspera,
                       procesosSuspendedReady, preparado, liberados, pedido, ejecutando,
                       liberado>>
    BY <1>16 DEF QuitaDeBlocked, medio, clientes
  <2>3. t \in Vuelven /\ t \notin Reactivan
    BY <2>1, <2>2 DEF Vuelven, Reactivan
  <2>4. ConProceso' = ConProceso /\ Vuelven' = Vuelven /\ Reactivan' = Reactivan
    BY <2>1, <2>2, <2>3, <1>t, PasaDispositivo
  <2>. QED  BY <2>2, <2>4, <1>k
<1>17. ASSUME NEW t \in Hilos, AReady(t) PROVE Ciclo!Next
  <2>q. PICK q : q = liberado[t]
    OBVIOUS
  <2>1. t \in Dispositivos /\ t \notin CPUs /\ q \in Procesos
    BY <2>q, <1>17, <1>h, LiberaUnDispositivo, ConstantesOK
    DEF FasesPropias, AReady, HilosConsistentes, FasesLiberar
  <2>2. /\ fase[t] = "aReady" /\ fase' = [fase EXCEPT ![t] = "espera"]
        /\ liberado' = [liberado EXCEPT ![t] = Nadie]
        /\ procesosReady' = Append(procesosReady, q)
        /\ UNCHANGED <<procesosNew, nuevo, listaEspera, procesosSuspendedReady, preparado,
                       liberados, pedido, ejecutando>>
    BY <2>q, <1>17, <2>1 DEF AReady, TrasLiberar, medio, clientes
  <2>3. t \in Vuelven /\ t \notin Reactivan
    BY <2>1, <2>2 DEF Vuelven, Reactivan
  <2>4. ConProceso' = ConProceso /\ Vuelven' = Vuelven \ {t} /\ Reactivan' = Reactivan
    BY <2>1, <2>2, <2>3, <1>t, PasaDispositivo
  <2>5. ToSet(procesosReady') = ToSet(procesosReady) \cup {q}
    BY <2>1, <2>2, <1>t, ListaCrece
  <2>6. \A e \in (Vuelven \ {t}) \cup Reactivan : liberado'[e] = liberado[e]
    BY <2>2, <2>3, <1>t DEF Vuelven, Reactivan
  <2>7. EnEstado(q, "Blocked") /\ EnEstado(q, "Ready")'
    <3>1. EsBlocked(q)
      BY <2>q, <2>3 DEF EsBlocked
    <3>2. q \in ToSet(procesosReady')
      BY <2>q, <2>5
    <3>. QED  BY <2>q, <3>1, <3>2 DEF EnEstado, EsReady
  <2>8. ASSUME NEW p \in Procesos \ {q}, NEW e, EnEstado(p, e) PROVE EnEstado(p, e)'
    BY <2>q, <2>2, <2>4, <2>5, <2>6, <2>8
    DEF EnEstado, EsNew, EsReady, EsExec, EsBlocked, EsSuspendedReady
  <2>9. Mueve(q, "Blocked", "Ready")
    BY <2>1, <2>7, <2>8, Movimiento
  <2>. QED  BY <2>1, <2>2, <2>9, EsPasa DEF Ciclo!Next, Ciclo!Desbloquea, Cola
<1>. QED
  BY <1>1, <1>2, <1>3, <1>4, <1>5, <1>6, <1>7, <1>8, <1>9, <1>10, <1>11, <1>12, <1>13,
     <1>14, <1>15, <1>16, <1>17
  DEF Next, PasoCPU, PasoLiberar, PasoPMP2

\* The schedulers implement the life cycle: New is served in order of
\* arrival, no more processes execute than there are CPU threads, and every
\* step of a thread, whatever it races with, is a legal move or none.
THEOREM CumpleElCiclo == Spec => CumpleCiclo
<1>1. Init => Ciclo!Init
  BY CicloInit
<1>2. InvUbicacion => LecturaUnica
  BY UnaLectura
<1>3. InvUbicacion /\ LecturaUnica /\ LecturaUnica' /\ [Next]_vars
        => [Ciclo!Next]_(Ciclo!vars)
  BY CicloNext
<1>. QED
  BY <1>1, <1>2, <1>3, InvUbicacionSiempre, PTL DEF Spec, CumpleCiclo, Ciclo!Spec
=============================================================================
