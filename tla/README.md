# CarpinchOS in TLA+

CarpinchOS (the repository's `src/`) is a distributed operating-system exercise
in C: programs called *carpinchos* link with a client library (**MateLib**) and
talk over TCP to a **Kernel**, which schedules them, gives them semaphores and
IO devices and breaks their deadlocks; the kernel relays their memory calls to a
**Memoria** (heap, paging, TLB), and the memory keeps its evicted pages in
**SWAmP**, a swap server. This directory holds TLA+ models of the kernel, the
memory and the swap server, TLC configurations that check them on small
instances, and proofs, checked by TLAPS, of what matters most in them.

Identifiers are those of the source (in Spanish); comments are in English.

## 1. Inventory

| Component | Source | State it keeps | Operations | Status |
|---|---|---|---|---|
| Schedulers | `Kernel/src/Planificador*.c`, `Kernel.c` | six process lists, eight POSIX semaphores | long-term admission, dispatch, CPU threads, suspension and readmission | modelled |
| IO devices | `Kernel/src/DispositivosIO.c` | a waiting list and an activation semaphore per device | queue, serve, release | modelled |
| Kernel semaphores | `Kernel/src/Semaforos.c` | table by name; value and waiting list of each; what each process retains and asks for | create, destroy, wait, signal, release to Ready | modelled |
| Deadlock detector | `Kernel/src/Deadlock1.c` | none of its own | periodic detection, kill, hand-over | modelled |
| Mutexes | all of `Kernel/src` and `Memoria/src` | one per list, per device, per semaphore, two for the tables; nine of the memory | lock, unlock, a signal handler that locks | modelled |
| Server of the kernel | `Kernel/src/Servidor.c` | one connection per carpincho | arrival, dispatch of a call, close, relay to the memory, answers | partly: memory calls are relayed and answered, the failure of the memory is not there |
| MateLib | `MateLib/src/matelib.c` | connection and pid | one blocking call at a time | partly: calls and answers without their contents |
| SWAmP | `SWAmP/src/*.c` | files, partitions, the kind of assignment | ask for room, write, read, end of a process | modelled |
| Memoria: heap | `Memoria/src/memalloc.c`, `memwrite_read_free.c`, `Auxiliares.c` | blocks (HMD) chained over pages | alloc, reuse, growth, free, consolidation, read, write | modelled |
| Memoria: paging | `Memoria/src/memoriaVirtual.c`, `Funciones.c` | page tables, frames, TLB | access, page fault, new pages, LRU, CLOCK-M, TLB LRU and FIFO, FIJA and DINAMICA | modelled |
| Memoria: server, suspension | `Memoria/src/Conexiones.c`, `suspension.c`, `Auxiliares.c` | one thread per carpincho, the list of carpinchos | arrival, requests, suspension, close, SIGUSR2 | partly: metrics, the dump and a lost connection are not there |
| Messages, configuration, logs | `shared`, `Kernel.c`, `prueba_conexion.c` | none | serialise, parse, write | codes and delivery only: the rest is input and output |

### How the components interact

* A carpincho holds one connection. The thread that accepts it puts its process
  in New and ends; from then on only a **CPU thread** that is running the process
  reads its socket, so a carpincho that is not running gets no answer.
* The planners are threads connected by counting semaphores: each `sem_post`
  stands for one entry of some list, and each `list_remove(lista, 0)` comes after
  a `sem_wait`. There is no other check that the list has an entry.
* A device thread and a CPU thread that serves a SEM_SIGNAL both end the block
  of another process through `ponerEnElReadyIndicado`, while `thread1_PMP` may be
  moving that very process from Blocked to SuspendedBlock.
* The detector runs with every mutex of the kernel taken.
* The memory has a thread per carpincho, so that requests of one carpincho come
  in order and those of different carpinchos interleave at every critical
  section: over the frames, the TLB, the page tables and the connection to SWAmP.
* SWAmP serves one message at a time; the threads of the memory interleave
  between messages, and one of them asks for room in one message and uses it in
  later ones.

### What is hard here

1. Lists and the semaphores that count them are changed in separate critical
   sections, by six kinds of threads.
2. Two lookups of one operation (`ponerEnElReadyIndicado`, `crearSemaforo`, wait,
   signal) are separate critical sections, so what the first one saw may be stale.
3. `thread1_PMP` changes SuspendedBlock without its mutex.
4. Wait has two halves: the value and the waiting list under the semaphore's
   mutex, then Blocked and the field that says which answer is owed.
5. The detector kills a process and hands its semaphores on, with the process in
   lists that other threads follow.
6. Mutexes nest: semaphore, then Exec; the detector takes all of them; three
   are taken at once by `thread1_PMP`.
7. SWAmP answers that there is room and reserves nothing.
8. A client takes the next message as its answer whatever its code: one message
   out of place shifts all the later ones.
9. The memory looks a frame up under a mutex and uses it without: another thread
   may have given the frame to another page, or the carpincho may have closed.
10. Frames are reserved from a list made before the mutex was released, and marked as taken after the page on
   them can be seen by a replacement.
11. The heap's headers live in the pages, may be cut by the end of one, and are
   read back by code that assumes that pages are numbered from zero.
12. Suspension frees the frames and leaves the page table and the TLB as they were.

`PROJECT.json` lists each of these as a hazard at its line, with the properties
that watch it.

### What makes each component correct

* Schedulers: the semaphores count the lists; no thread removes from an empty
  list; every process is in exactly one place that will move it on; CPU and
  multiprogramming permits are conserved; the life cycle is the documented one
  (New to Ready in order of arrival, at most as many running as CPUs); everyone
  who connects gets to close.
* Semaphores: values agree with waiting lists, waiting lists with what processes
  ask for; the detector breaks every deadlock and loses no process.
* Table: a name keeps denoting the same semaphore while it exists.
* Mutexes: no circular wait.
* SWAmP: a store of pages; one file per carpincho; whole quotas under FIJA.
* Heap: the headers form a chain from the first byte to the last header; blocks in
  use have their place in it; reads and writes touch the bytes of their block.
* Paging: a frame has one owner; the TLB agrees with the page tables; what is
  written is read back through evictions; CLOCK-M takes a page of the best class.

## 2. Modules

| Module | Models | State and actions, in terms of the code |
|---|---|---|
| `Planificador` | schedulers, devices, arrival, close, clients | The lists are the code's lists; `posix` holds its semaphores; `fase` is the program counter of each CPU and device thread between critical sections, `ejecutando`, `liberado`, `nuevo`, `preparado` are the threads' locals. An action is one critical section with the waits before it and the posts after it. |
| `CicloDeVida` | abstract specification | One state per process and the moves the planners may make; `Planificador` implements it (`Ciclo`, `CumpleCiclo`). |
| `PlanificadorProofs` | proofs about `Planificador` | See section 6. |
| `SemaforosProofs`, `TablaProofs`, `CandadosProofs`, `SwampProofs`, `HeapProofs`, `PaginacionProofs` with `FallasProofs` | proofs about `Semaforos`, `TablaDeSemaforos`, `Candados`, `Swamp`, `Heap`, `Paginacion` | See section 6. |
| `Semaforos` | wait, signal, detector; EXTENDS `Planificador` | Adds values, waiting lists, retained and requested semaphores. The steps of `Planificador` are taken with the new variables unchanged; the detector's run is one action, because it holds every mutex. |
| `TablaDeSemaforos` | create, destroy, use by name | The lookup and the use of a call are separate actions, as the mutexes leave them. |
| `Candados` | every mutex of the kernel and of the memory | Each thread repeats scripts of locks and unlocks, read off its code; a signal puts the handler's script before what its thread was doing. |
| `Heap` | the heap of one carpincho | `cabeceras` is what the headers in its pages say, by position. An action is one request, because a carpincho's requests come one at a time. `vivos` is what the carpincho holds; `averia` says how the heap broke, and then it is not followed. |
| `Paginacion` | page tables, frames, TLB, replacement, requests, suspension, close | An action is one critical section of a carpincho's thread; `hilo` has its position and locals. `pagina`, `marcos` have the fields of `t_pagina` and `t_marco`; `punteroClock[Nadie]` is the global pointer. |
| `AlmacenDePaginas` | abstract specification | A store of pages that may refuse a new page. |
| `Swamp` | the swap server | One action per message; `Swamp` implements `AlmacenDePaginas`. |
| `MC*` | instances for TLC | symmetry sets and constant definitions only. |

`CicloDeVida` is above `Planificador`, `Planificador` is below `Semaforos`;
`TablaDeSemaforos` and `Candados` look at the same code from two other sides
(the life of table entries, and mutual exclusion), with the schedulers left out.
`Heap` says which positions of its pages a request touches, `Paginacion` what
happens when pages are touched in any order, and `Swamp` what becomes of the pages
sent to it: each takes the widest behaviour of the others as its environment.
Operators marked *Slip* are plausible mistakes in the definition that follows
them; no specification uses them, and they serve to see each property fail.

### Abstractions worth knowing

* **Sort of Ready.** `replanificacion` sorts by SJF or HRRN. Estimates and times
  are not modelled, so the first entry after the sort is any entry.
* **Lookups by pid.** `list_remove_by_condition` finds the first entry with the
  pid; a freed entry may read as any pid, which `QuitaPorPid` leaves open.
* **Lost additions.** An addition to SuspendedBlock that overlaps a removal may be
  lost (`AgregaASuspendedBlock`); `perdidos` counts those.
* **Freed semaphores.** The use of one is a choice between an abort, a return and a
  carpincho that is never found again (`UsaLiberado`).
* **Freed processes.** After a kill the detector's view of a freed entry of Blocked
  is not modelled further: such an entry has no semaphores and is not analysed.
* **Retained lists of a closed process** are kept as they were: nobody releases
  what a carpincho held when it closed.
* **Contents of pages.** A page's content is up to date (`<<p, i>>`) or `Vieja`. Writing it
  makes every other copy old, so that reading back an old copy is visible, whatever
  the bytes were.
* **Time of use.** LRU's victims, of pages and of TLB entries, are any: `ultimoUso` is
  set by `clock()` in too many places, some without a mutex, to promise more.
* **Frame fields.** `escribirMemoria` makes a new page present under `tabla_paginas` (`EscribeEn`) and writes
  the fields of its frame after it has released it (memalloc.c:312-313, `OcupaMarco`); `marcos_sem`, which it has, keeps
  other new pages out, not the replacements, which take only `swap` and `tabla_paginas`. The two fields are written in
  one step: whatever a replacement does between them it does to the page as well, and the fault is the same.
* **Use of a page.** `Usa` copies the bytes and sets the bits of the page in one step, where the code sets the
  bits. An eviction between the two has the page as its victim while it is used, which is a fault (`victimaEnUso`).
* **Candidates.** The list of
  candidates of a replacement under DINAMICA is taken in one step as well; that it is made with
  the mutex of the list taken and released for each carpincho is `ListaCorta`.
* **After a fault.** `fallas` records the ways of losing a page or of sharing a frame.
  Nothing is promised after one, and the memory is not followed any further (`Sigue`). The same goes
  for `caida`, its end, and for `averia` in `Heap`.
* **Reservation under DINAMICA.** The list of frames without an owner is taken at the
  start of a request and only used for the first pages.
* **Room in the swap** is granted in `Paginacion`: a refusal is a request that ends
  (`Termina`) with nothing done. `Swamp` has both answers.
* **Garbage.** A read of a page SWAmP does not have sends a fresh buffer, that is,
  any content.

## 3. Runs and bounds

| Run | Instance | Shows |
|---|---|---|
| `MCPlanificador` | 3 carpinchos of 1 call, any of which may be cut off, 2 CPUs, 1 device, 2 memory slots | accounts of the semaphores, no removal from an empty list, one place per process, Exec |
| `MCPlanificadorCiclo` | 2 carpinchos of 2 calls, 2 CPUs, 1 device, 1 slot, fairness | refinement of `CicloDeVida`, answers, multiprogramming permits, no deadlock, everyone gets to close |
| `MCPlanificadorMemoria` | 3 carpinchos, 1 slot | *violation*: more processes in memory than the degree |
| `MCSemaforos` | 2 carpinchos of 2 calls and a third that only wants a slot, 2 CPUs, 2 slots, 2 binary semaphores | values and lists, one place per process, the permits, through races of wait and signal, suspensions and kills |
| `MCSemaforosVivo` | 2 carpinchos of 2 calls, 2 CPUs, 2 binary semaphores, fairness | deadlocks are broken |
| `MCSemaforosRespuestas` | as above, 1 semaphore | *violation*: the answer of a wait reaches a later call |
| `MCTablaDeSemaforos` | 3 carpinchos, 2 names, 3 creations | duplicates are bounded, names are stable, waits meet their signals |
| `MCCandados` | kernel: every thread, 1 CPU, 1 device, 1 semaphore; memory: 3 threads, a signal | the only circular waits are detector and `thread1_PMP`, and a thread interrupted with the TLB taken |
| `MCSwamp` | 3 carpinchos of 2 pages, 2 files of 2 partitions, quota 2, both assignments | store of pages, one file each, whole quotas, reads |
| `MCPaginacion` | 2 carpinchos of up to 2 pages, 2 frames, five configurations | owners of frames, TLB, reading what was written, and the lists of faults and of ends for each configuration; CLOCK-M |
| `MCPaginacionReserva` | FIJA, one frame each, requests at once | *violation*: a reserved frame belongs to another |
| `MCHeap` | up to 3 pages of 16 to 64 bytes, two block sizes, five configurations | chain of headers, blocks in use, exact reads and writes, how it breaks |

**Why these bounds are enough.** The interesting cases need a process to be
suspended while another waits in New and a third runs or blocks: three
carpinchos and one or two slots. Two calls let a process block again while an
entry of its earlier block is still in a list. Two CPU threads give every race
between halves of operations, for which two carpinchos are enough. Deadlocks need two
semaphores; the third carpincho (`ElTerceroCompite`, a CONSTRAINT of `MCSemaforos`: it
calls nothing but the close) is there to wait in New, so that one of the two in deadlock is suspended
when the other's semaphores are handed on to it. Without the constraint the instance has 10.5 million
states and the same properties hold, but it takes a quarter of an hour. In
SWAmP two files of two partitions, three carpinchos of two pages and a quota of
two fill a file, both files, and make two carpinchos compete for the last
room. In `MCPaginacion` two frames for two carpinchos of two pages make every access a
choice of victim among pages of both; the configurations are FIJA and DINAMICA, CLOCK-M
and LRU, TLBs of one and of two entries, LRU and FIFO, quotas that fill the memory and a quota that does not
fit twice, one request at a time (`grado` 1) and two at once. In `MCHeap` three pages hold a
block that spans two and another after it, and headers fall within, across and right at the end of a page. In `MCCandados`
a circle of n threads needs n mutexes taken, each by a thread that waits for another: the
memory's threads nest at most three mutexes, always with
`recorrer_marcos_mutex`, `marcos_sem` and `swap` outside, so three threads show every pair and triple. Bounds on counters are `MaxOps`, `MaxSem`, `MaxValor`, `MaxPaginas`, `pedidos`, `MaxSeniales`;
`perdidos` grows by at most one for each entry into Blocked, which `MaxOps` bounds.

**Deadlock** is checked in `MCPlanificadorCiclo` and `MCPlanificadorMemoria` (`Reposo` is the state where all have closed). It is not
where the system does stop: a cut connection takes its CPU thread with it,
a carpincho may close with a semaphore taken, the table's carpinchos may all be waiting,
the detector and `thread1_PMP` do block each other, the carpinchos of the memory and of the swap end,
and the memory and a heap may break.

**Fairness.** Every kernel thread is an endless loop on its own pthread, so each
gets weak fairness on its own step (`Equidad`, `EquidadSem`): the operating system
keeps scheduling it, and a step that stays enabled is taken. The carpinchos take
their answers (they are blocked in `recv`), and the close is the CPU thread's step of
their last call. No strong fairness is assumed: a semaphore with one consumer
keeps that consumer enabled. The arrival of a carpincho and the cut of a connection have none.
The detector's condition is written out instead of ENABLED, for TLC's sake.

## 4. Disagreements between the code and its comments

Each is a run that TLC finds violated, quoted in `PROJECT.json`.

1. `MemoriaAcotada`. `ponerEnElReadyIndicado` asks whether the process is suspended,
   releases the mutex, and then readies it. If `thread1_PMP` suspends it in between,
   its slot is given to another process and it enters Ready as well.
2. `RespuestasSem`. A signal between the two halves of a wait readies the process
   before `vuelveDeBloqueo` is set; the process runs as if it had not been blocked.
3. `ReservaEsSuya`. `reservarMarcos` filters the frames without owner, releases the mutex,
   takes it again "porque sino podria venir otro proceso y pisar los mismos marcos", and
   takes its frames from the old list: the other process may have come in between.

Other behaviour the models contain, and that the passing properties are
stated around: a kill loses a multiprogramming permit (`KillPierdeUnPermiso`: one at
most, and no other step loses any), and may give one too many when its victim was left twice in
SuspendedBlock and hands on two semaphores (the exception that the proof
of `KillPierdeUnPermiso` asked for: it takes more calls than the instance has); two creations of a name may both succeed (`DuplicadosAcotados`
says how many); a semaphore destroyed with waiters strands them; a page written after its
owner's end keeps its partition; a process of SuspendedReady comes back only if
someone returns a permit, and nobody does when New is empty and all the slots
belong to processes blocked on a semaphore it holds; the detector follows one
holder per semaphore, so with a semaphore of value two it may kill without need; it
takes its victim out of Blocked only where a semaphore it retained has another waiter, so a freed process
may stay in the list; and SWAmP tells two carpinchos of the same room, acknowledges both their pages and drops one.

In the memory, one request at a time (`grado` 1), a page is lost in four ways only: a suspension leaves it present
(`suspension`), a full TLB takes in an absent page (`ausenteEnTLB`), merged headers are
written without marking the page (`cambioSinMarcar`) or to a frame it no longer has (`marcoViejo`); under
DINAMICA freeing everything also frees the frames of absent pages (`marcoAjeno`). With requests at once FIJA
adds only the stale reservation (`reservaVencida`), and the memory ends only after some carpincho got part of its quota.
Under DINAMICA, which has no such bound, a page may be evicted while it is used, a
frame may be taken in transit, a victim may close, and the memory may end for want of a frame or
of an entry of a list that shrank.

A frame may also be marked too late (`marcoPisado`; `MCPaginacion` reaches it with two requests under DINAMICA).
`escribirMemoria` marks the frame of a new page after the page is present, outside the mutexes that a replacement takes,
and its comment says that it should be inside ("deberiamos poner entre los semaforos", memalloc.c:310). Another carpincho may evict
the page in between and bring its own to the frame; the late mark then says that the frame is of the first, whose
close frees it under the other's page.

In the heap, a hole that fits is given without being divided nor marked, so the next request that fits gets it too
(`bloqueRepetido`); the first block, once freed, is given with no page nor offset (`primerHueco`); after all the pages have
gone once, ids are not places (`idsCorridos`); and unless all blocks are aligned to parts of a
page a cut header breaks it (`cabeceraCortada`, `vecinaCortada`, `cabeceraPisada`, `escribeAfuera`).

## 5. Properties

Each is stated in words above its definition. The ones that carry most:

* `UnSoloLugar`, `UnSoloLugarSem`: despite stale entries in Blocked and
  SuspendedBlock, each process is in one place that will move it on.
* `FichasDeAdmision`, `FichasDeReady`, `FichasDeIO`, `PermisosDeCPU`: what each
  semaphore stands for. `NuncaSacaDeVacia` is what they are for.
* `CreditoDeMultiprogramacion`: the permits balance through every race but the lost addition.
* `KillPierdeUnPermiso`: and, with semaphores, but for kills; it says what a kill may take and add.
* `SemaforoCuadra`: values, waiting lists and what each process asks for agree, through kills too.
* `CumpleCiclo`: the schedulers implement the life cycle.
* `CirculosConocidos`: a census of circular waits.
* `FallasConocidas`, `CaidasConocidas`, `AveriasConocidas`: censuses of the ways in which the paging and the heap break.
* `MarcosConDueno`, `TLBCoherente`, `SeLeeLoEscritoMem`: what holds until they do; no two present pages share a frame
  even while one of them is on a frame that its thread has still to mark.
* `AccesoExacto`: a read or a write goes through the bytes of its block and no page beyond.
* `SeLeeLoEscrito`, `CumpleAlmacen`: freed partitions keep old page numbers and a
  read ignores `hay_contenido`, and yet a stored page reads back as written.

## 6. Proofs

Proved, for any number of carpinchos, CPUs, devices, any degree of
multiprogramming and any number of calls, that `Spec` of `Planificador` implies

| Theorem | Module | Property |
|---|---|---|
| `TiposCorrectos` | `PlanificadorProofs` | `TypeOK`: no semaphore value goes below zero |
| `NingunaListaVacia` | `PlanificadorProofs` | `NuncaSacaDeVacia`: no `list_remove(lista, 0)` on an empty list |
| `AdmisionCuadra`, `DespachoCuadra`, `PermisosSeConservan`, `ActivacionesCuadran` | `PlanificadorProofs` | the four accounts: `FichasDeAdmision`, `FichasDeReady`, `PermisosDeCPU`, `FichasDeIO` |
| `UnLugarCadaUno` | `PlanificadorProofs` | `UnSoloLugar` |
| `ExecEsDeLasCPUs` | `PlanificadorProofs` | `ExecEsLoQueEjecutan` |
| `CadaLlamadaSuRespuesta` | `PlanificadorProofs` | `RespuestasCorrectas` |
| `LosPermisosCuadran` | `PlanificadorProofs` | `CreditoDeMultiprogramacion` |
| `CumpleElCiclo` | `PlanificadorProofs` | `CumpleCiclo`: `Planificador` implements `CicloDeVida` |

for any number of semaphores besides, with any initial values, that `SpecSem` of
`Semaforos` implies

| Theorem | Module | Property |
|---|---|---|
| `TiposDeSemaforos` | `SemaforosProofs` | `TypeOKSem` |
| `ElSemaforoCuadra` | `SemaforosProofs` | `SemaforoCuadra` |
| `UnLugarConSemaforos` | `SemaforosProofs` | `UnSoloLugarSem` |
| `SoloLosKillsMuevenPermisos` | `SemaforosProofs` | `KillPierdeUnPermiso`, of every step |
| `SoloLosKillsPierden` | `SemaforosProofs` | its sum: the permits lost so far are one for each kill at most |

for any number of carpinchos, names and semaphores, that `Spec` of
`TablaDeSemaforos` implies

| Theorem | Module | Property |
|---|---|---|
| `TiposDeLaTabla` | `TablaProofs` | `TypeOK`: each semaphore that exists is in the table once |
| `DuplicadosAcotadosSiempre` | `TablaProofs` | `DuplicadosAcotados` |
| `ElNombreEsEstable` | `TablaProofs` | `NombreEstable` |
| `LaEsperaCuadra` | `TablaProofs` | `EsperaCuadra` |

for any number of threads, devices, semaphores and clients of the memory, that `Spec`
of `Candados` implies

| Theorem | Module | Property |
|---|---|---|
| `TiposDeLosCandados` | `CandadosProofs` | `TypeOK` |
| `SoloDosCirculos` | `CandadosProofs` | `CirculosConocidos`: a circle has an interrupted thread of the memory, or both the detector and `thread1_PMP` |

for any number of carpinchos, pages, contents, files and partitions, with quotas and
without, that `Spec` of `Swamp` implies

| Theorem | Module | Property |
|---|---|---|
| `TiposDelSwap` | `SwampProofs` | `TypeOK` |
| `UnSoloArchivoSiempre` | `SwampProofs` | `UnSoloArchivo` |
| `CuotaFijaSiempre` | `SwampProofs` | `CuotaFija` |
| `SeLeeLoEscritoSiempre` | `SwampProofs` | `SeLeeLoEscrito` |
| `CumpleElAlmacen` | `SwampProofs` | `CumpleAlmacen`: `Swamp` implements `AlmacenDePaginas` |

for any page size that holds more than a header, any sizes asked for and any number of
pages, that `Spec` of `Heap` implies

| Theorem | Module | Property |
|---|---|---|
| `TiposDelHeap` | `HeapProofs` | `TypeOKHeap`: headers begin in the pages there are, also in a broken heap |
| `CadenaSiempreBienFormada` | `HeapProofs` | `CadenaBienFormada` |
| `VivosSiempreEnCadena` | `HeapProofs` | `VivosEnCadena` |
| `AccesoSiempreExacto` | `HeapProofs` | `AccesoExacto` |
| `SoloAveriasConocidas` | `HeapProofs` | `AveriasConocidas` |

and, for any number of carpinchos, frames, pages and TLB entries, any kind of assignment and of
replacement, and any number of requests at once, that `Spec` of `Paginacion` implies

| Theorem | Module | Property |
|---|---|---|
| `TiposDeLaMemoria` | `PaginacionProofs` | `TypeOKPag` |
| `MarcosDeLaMemoria` | `PaginacionProofs` | `MarcosConDueno` |
| `TLBDeLaMemoria` | `PaginacionProofs` | `TLBCoherente` |
| `ContenidoDeLaMemoria` | `PaginacionProofs` | `SeLeeLoEscritoMem` |
| `ClockDeLaMemoria` | `PaginacionProofs` | `ClockElijeLaMejor`, of every step |
| `FallasDeLaMemoria` | `FallasProofs` | `FallasConocidas` |
| `CaidasDeLaMemoria` | `FallasProofs` | `CaidasConocidas` |

**Assumptions**: `ConstantesOK` (finite sets of carpinchos, CPUs and devices,
CPUs and devices apart, at least one CPU, a positive degree), `SemaforosOK` (finitely many
semaphores, initial values that are not negative, pids that are numbers), `TablaOK` (finitely
many carpinchos, at least one name, values that are not negative), `CandadosOK` (the
semaphores come in an order, as they do in the table), `NombresDistintos` (a semaphore,
a device and a fixed mutex have different names, and so have the kinds of threads),
`SwampOK` (at least one file, a positive quota, finitely many carpinchos, none of them
-1, which marks a free partition), `HeapOK` (pages larger than a header, sizes that are
not negative) and `PaginacionOK` (finitely many carpinchos, at least one frame, a positive quota
and degree).

**Accounts (`PlanificadorProofs`).** `TypeOK` is not inductive alone: `Head` of an empty
list is no process, so types depend on `NuncaSacaDeVacia`, which depends on the
accounts, which depend on types and on which local a thread holds in which phase. The
inductive invariant is `Inv == Tipos /\ Permisos /\ FichasDeIO`, where `Tipos` is
`TypeOK` with `HilosConsistentes` (a thread in a phase that uses a local has a process or
a device there) and `Permisos` is the three accounts of `posix`. The proof goes round
the circle once: `InvNoSacaDeVacia` shows that the accounts make each removal safe in
the state before the step; safe removals keep the types (one step per action); and
types make the arithmetic of each account exact, with lemmas about the number of busy
CPU threads and of threads on their way to a device when one thread changes phase
(`OcupaUna`, `DesocupaUna`, `MismasOcupadas`, `MismosEnCamino` and their peers).

**Places (`PlanificadorProofs`).** `UnSoloLugar` counts over eight places and no step
preserves a count by itself: a list could hold a process twice and still add up. The
invariant says instead that there is *one map* from processes to sites (`Ubicados(l)`) that
agrees with every list, every local of a thread and every client, and that no list or
set of threads holds a process twice. Each action has one witness for the new map,
the old one with one process moved (`Muda`), and one lemma per kind of place says what
entering and leaving it does (`EntraALista`, `SaleDeLista`, `EntraALocal`,
`SaleDeListas`...). What is not at the two sites of the move is carried over by
`Queda`. Blocked and SuspendedBlock are not sites: no map could agree with the
stale entries that the races leave there.

**Execution and answers.** From the sites, one CPU thread at most
holds a process, and it is a connected one. `ExecCuadra` says that Exec is the list of
the map `Servidos`, so the lemmas on lists serve again. For the answers the
invariant is a protocol of one client and one thread (`Conversacion`): what
`vuelveDeBloqueo` may be, whether the client waits, and whether its mailbox is
empty, according to where its process is.

**Permits.** `Libres + Tomados` (permits free or on their way, and
processes that hold one) is the degree plus `perdidos` plus the length of SuspendedBlock.
Each action moves one unit between the three; the sets of threads change by one element at a
time (`FaseConProceso`, `FaseDevuelve`), and so do the entries of the devices' lists
(`UnaEntradaMas`, `UnaEntradaMenos`).

**Refinement.** The state of a process is a chain of readings of the
lists and the threads (`EstadoDe`). From the sites each process has exactly one
reading (`LecturaUnica`, before and after the step), so for each action it is enough to show that
the readings of the other processes go on holding, and which one the process that
moves leaves and reaches (`Movimiento`, `Quietud`). The bound on Exec comes from a map of
the threads with a process onto the processes in Exec (`QuedaUnaCPU`).

**Semaphores and detector (`SemaforosProofs`).** `InvSem` is `Inv` with the types of the new
variables, the rule that gives a waiting list its length from the value (`Cuadran`) and, in place of one
map, two that agree (`UbicacionSem`): the site of each process, and the semaphore it waits in,
which is the only one it asks for; a process waits in one exactly when its site is `semaforo`. A
step that touches no semaphore is a step of `Planificador` that leaves that site alone
(`PasoSinSemaforos`), so all that was proved of the schedulers is used again. A call moves one process by
both maps. The detector's run is one step that kills up to everyone, computed by three nested recursive
functions on a photo of the state (`Foto`), where no induction over data is available. What is needed of
each is proved by the least index at which it would fail (`PorInduccion`, `PorPasos`): one semaphore let
go keeps `Buena` (the photo has its types, its values agree with its lists, and there are two
maps as above in which only the victims and those released have moved), hence `DejaDePedir` and `DejaDeRetener` do
and a kill keeps `EnMarcha`, and so does the run. That a victim is in a waiting list, which `SueltaSolicitado`
takes for granted when it raises the value, comes from the detector choosing among those who ask for something (`LaVictimaPide`).

The permits are followed by their balance, `Saldo` (free, held and waiting, less those that SuspendedBlock's
lost entries gave): it does not change in the schedulers' steps (`SaldoDelPasoComun`) nor in the calls,
and `EnMarcha` says that a run takes away one for each victim at most, and adds none if no
victim was twice in SuspendedBlock, since each hand-over removes one entry of the
victim. `SaldoBasta` sums the losses over the history.

**Table of semaphores (`TablaProofs`).** `EsperaCuadra` counts the lists a carpincho
is in, which no step preserves by itself. The invariant `InvTabla` says that all the lists together
hold the blocked carpinchos, once each (`Ordenadas`, with a lemma for who enters and one
for who leaves), that every list is as long as its value is below zero, in
destroyed semaphores too, and that a thread in a call holds a semaphore that was created
(`UsosValidos`). `NombreEstable` is about first positions: an entry added comes after
the one a name denotes (`PrimeraAlCrear`), and one taken out from before it moves it
down without putting another of that name first (`PrimeraAlQuitar`).
`DuplicadosAcotados` is inductive over `TypeOK`: a creation starts only when no
entry has the name, and ends by changing a creation under way for an entry.

**Mutexes (`CandadosProofs`).** The usual argument needs one order of the mutexes that every
thread keeps; the kernel has none. It has two: the detector takes the semaphores and then the lists in an
order that every thread but `thread1_PMP` keeps, and `thread1_PMP` takes the lists in an order
(Exec, Ready, New, Blocked) that every thread but the detector keeps. `Guarda(r, M, g, H)`
says that a thread that holds `H` and has the script `g` left locks only above what it
holds, unlocks only what it holds and ends with nothing; there is one lemma for each way
to build a script, and from them one for each script of the code (`OperacionesEnOrden`). The
inductive invariant `IInv` says that each thread keeps the orders that are its own, or is a
thread of the memory that its own handler keeps waiting for the TLB (`Atrapado`). In a
circle without both exceptions all the threads keep one order, and the one that waits for
the highest mutex waits for a thread that waits for a higher one (`SinCirculo`). `Guarda` quantifies
over functions, so TLC checks `TypeOK` and `CirculosConocidos` and not `IInv`.

**Swap (`SwampProofs`).** A read takes the first partition with the page number and does not look at
`hay_contenido`, and a partition that was freed keeps its page number. It works because, as the invariant
`IInv` says of each file and carpincho, the partitions with content come first, no two of them
hold the same page, and without quotas all have content. With this come that
a carpincho is in one file only and that under FIJA it has a quota or nothing. `Puestos` counts the elements before each one
in a finite order, without induction over the data; from it come that `asignar_marcos_proceso` takes
exactly a quota, and that the sort of the files is a permutation. Each write
either changes the page that is written and no other (`GuardaONo`) or
refuses and changes nothing, so a step of `Swamp` is a step of the store or a stutter.

**Heap (`HeapProofs`).** None of the properties of the chain is inductive: once a hole has been
given, a block in use may be merged away, its header stays in the page out of the chain, and
freeing that block rewrites pointers around it. What no step breaks is the *direction* of the
pointers of every header ever written, in the chain or not (`Estructura`): next ones are a
header further on at least, previous ones are before, and all are below the only last one,
which `paginas` are just enough for. That alone gives the types, the forward half of
`CadenaBienFormada` and `AccesoExacto`. The first header needs a fact of its own
(`Primero`), because `LiberaTodo` gives all the pages back when it looks like the only one.
`Cadena` is a walk by a recursive function; `CaminoEsCadena` shows it is the least set
with the first header and the next one of each (`EsCadena`), with least counterexamples
in place of an induction. From there a merge is one header left out of a doubly
linked chain (`Salta`; both neighbours free is `Salta` twice) and an alloc one put at its end (`Alarga`).
When a size divides the page and the blocks, `Multiplos` keeps every header at a multiple of
it, and no header is cut or written over (`EnSuPagina`, `Separados`). TLC found `IInv` to hold as it
stands on the instance of `MCHeap` before it was proved.

**Paging (`PaginacionProofs`).** The types need the shape of each thread's locals in each phase of its
request (`Forma`): a thread that evicts holds the swap, the page it visits is not one of the new ones it
has yet to write, the ids are below the counter. CLOCK-M goes round by `%`, so that the victim is in the list, and the
pointer stays within the numbers, is arithmetic over `Vuelta` and least elements (`PrimeraEs`).
`MarcosConDueno` is not inductive: an eviction passes a frame from one page to another in three
steps, which other threads interleave with. `MarcosBien` follows the frame: while a thread carries it
(`Lleva`) it is free and no other thread carries it (`Transito`), the victim is on it until
it is taken away (`Victima`), and the pages that are being brought or are yet to be written are absent
(`Ausentes`). A thread that has made its new page present and has not marked the frame still carries it, with
the page on it (`SinMarcar`, `OcupaEs`), until it marks the frame or a replacement takes page and frame from it; that the mark then comes too
late is what `marcoPisado` records. That two threads are never there at once is the invariant `Turno`: who is writing
its new pages has `marcos_sem`. A step that would break this, such as a reservation from an old list or a page that goes
while it is used, records a fault, and the proof shows for each step which one. `TLBBien` adds that an
entry is of a present page or of one whose thread is about to take it out, and that a page that missed the TLB,
or has just been made, is not there yet (`FueraDeTLB`): only its own thread adds it, so no entry is repeated. `SeLeeLoEscritoMem`
says nothing of a page in the middle of a request, so `ContenidoBien` follows its content: from the frame to the copy the evicting
thread holds, from that copy to the swap (`Salida`), and back through the copy of the thread that asks for it (`Copiada`);
`AlDia` says of each page at rest where its last content is. That a write touches no other page comes from
`MarcosBien`, and that a page found through the TLB while it is being evicted records a fault from `TLBBien`. All were
checked by TLC on the instance of `MCPaginacion` before they were proved. A TLB without the entries of a carpincho, and a set of frames
in order, are given by ranks (`EnOrden`), about which the lemmas need no induction over data.

**Faults and ends (`FallasProofs`).** Which fault a step may bring depends on the frames a thread
read before, so the invariant `CensoBien` is a census of them, for one request at a time or FIJA. The frames of a thread's list that it
has not written on (`Resta`) are without owner, or its own and free under FIJA (`ListaBien`); what it uses is present
(`EnUsoBien`); under FIJA it evicts only its own pages, what it takes is its own, and each of its frames that is not free
has a page (`Propio`). `CuotaBien` is for the ends: unless a quota was cut, a carpincho has its whole quota or nothing, and when one
of its pages is out of the memory none of its frames is free but those in hand or still to be marked. So one that needs a
victim has as many candidates as its quota (`CandidatasLlenas`, a map of its pages onto its frames), and its CLOCK pointer is
below that number. A step of one thread leaves the census of the others as it was (`Respeta`, `CensoDeOtros`):
they are not in the middle of a request, or the frames are not theirs. TLC found the census to hold on the
instance of `MCPaginacion` before it was proved.

**Only model-checked**: liveness, and the findings. Liveness and ENABLED are out of the prover's reach. So is
induction over data: what a fold or a recursive function computes is proved only where a least
counterexample, over the natural numbers, does the work of the induction.

## 7. Not modelled, and plan

Not modelled:

* the sort keys of Ready (SJF, HRRN) and their clocks: the first entry after the sort is any;
* the clock and the time of last use of the frames (`ultimoUso`): the order of uses is kept, not its values;
* serialisation, logs and configuration, which copy bytes or write text;
* the manual client `prueba_conexion.c`;
* the failure of the kernel's connection with the memory, after which the pid is -1;
* the metrics and the dump of the memory (what they take is in `Candados`), and lost connections of its clients;
* `dividirAllocs` of `Auxiliares.c`, whose only call (memalloc.c:122) comes after a `break`.

What is left of the plan, in order:

1. *Failure of the memory* seen by the kernel: pid -1 and the lookups that meet it.
2. *Composition* of `Paginacion` with `Swamp` in place of the abstract store of pages.
