------------------------------- MODULE Swamp --------------------------------
(***************************************************************************)
(* SWAmP, the swap server: its files, their partitions, and how it gives   *)
(* them to the carpinchos, by fixed quota (FIJA) or one by one (DINAMICA). *)
(*                                                                         *)
(* SWAmP serves one message at a time, in the order in which the memory    *)
(* connects, so a message is an action.  The memory's threads interleave:  *)
(* one asks whether there is room and then writes its new pages, and other *)
(* threads may ask and write in between, because the mutex of the swap     *)
(* does not cover the two together.                                        *)
(***************************************************************************)
EXTENDS Integers, FiniteSets, Sequences, SequencesExt

CONSTANTS
  Pids,             \* the carpinchos
  CantArchivos,     \* length of ARCHIVOS_SWAMP
  CantParticiones,  \* TAMANIO_SWAMP / TAMANIO_PAGINA
  marcos_maximos,   \* MARCOS_POR_CARPINCHO
  MaxPaginas,       \* bound: pages of one carpincho
  Contenidos, Vacia, \* what a page may hold; Vacia, all zeros
  Ausente

ASSUME SwampOK ==
  /\ CantArchivos \in Nat \ {0} /\ CantParticiones \in Nat
  /\ marcos_maximos \in Nat \ {0} /\ MaxPaginas \in Nat
  /\ IsFiniteSet(Pids) /\ -1 \notin Pids
  /\ Vacia \in Contenidos /\ Ausente \notin Contenidos

Archivos == 1..CantArchivos
FIJA == 1
DINAMICA == 0

VARIABLES
  tipo_asignacion,   \* told by the memory when it starts
  lista_swap_files,  \* the files, in the order of the last list_sort
  particiones,       \* of each file: particiones_swap and what they hold
  paginas,           \* of each carpincho: the pages it has created
  concedidas,        \* pages it was told there is room for, not yet created
  cerrados,          \* carpinchos that have closed
  colgada            \* the memory waits for a page SWAmP does not answer

vars == <<tipo_asignacion, lista_swap_files, particiones, paginas, concedidas,
          cerrados, colgada>>

particion_nueva ==
  [num_pagina |-> -1, pid |-> -1, esta_libre |-> 1, hay_contenido |-> 0,
   contenido |-> Vacia]

Init ==
  /\ tipo_asignacion \in {FIJA, DINAMICA}
  /\ lista_swap_files = [i \in Archivos |-> i]
  /\ particiones = [a \in Archivos |-> [i \in 1..CantParticiones |-> particion_nueva]]
  /\ paginas = [p \in Pids |-> 0] /\ concedidas = [p \in Pids |-> 0]
  /\ cerrados = {}
  /\ colgada = FALSE

-----------------------------------------------------------------------------
(* Looking partitions and files up: the positions of those that satisfy a  *)
(* condition, of which list_find takes the first.                          *)

pagina_libre(ps) == {i \in 1..Len(ps) : ps[i].esta_libre = 1}
EsDe(pid, x) == x.esta_libre = 0 /\ x.pid = pid
Suyas(ps, pid) == {i \in 1..Len(ps) : EsDe(pid, ps[i])}
ParaEscribir(ps, pid) == {i \in Suyas(ps, pid) : ps[i].hay_contenido = 0}
ParaSobreescribir(ps, pid, pag) ==
  {i \in Suyas(ps, pid) : ps[i].hay_contenido = 1 /\ ps[i].num_pagina = pag}
ParaLeer(ps, pid, pag) == {i \in Suyas(ps, pid) : ps[i].num_pagina = pag}

cantidad_frames_disponibles(a) == Cardinality(pagina_libre(particiones[a]))

TieneArchivo(pid) == \E a \in Archivos : Suyas(particiones[a], pid) # {}

encontrar_swap_file_en_base_a_pid(pid) ==
  lista_swap_files[Min({i \in Archivos : Suyas(particiones[lista_swap_files[i]], pid) # {}})]

\* buscar_archivo_con_mayor_espacio sorts the list of files for good: each one
\* goes after those that have more room than it.
TieneMasEspacio(a, b) ==
  IF cantidad_frames_disponibles(a) = cantidad_frames_disponibles(b) THEN a < b
  ELSE cantidad_frames_disponibles(a) > cantidad_frames_disponibles(b)
Ordenados ==
  [i \in Archivos |->
     CHOOSE a \in Range(lista_swap_files) :
       Cardinality({b \in Range(lista_swap_files) : TieneMasEspacio(b, a)}) = i - 1]

-----------------------------------------------------------------------------
(* Giving partitions away and writing on them, as functions of the         *)
(* partitions ps of a file.                                                *)

Asigna(ps, is, pid) ==
  [i \in DOMAIN ps |->
     IF i \in is THEN [ps[i] EXCEPT !.esta_libre = 0, !.hay_contenido = 0, !.pid = pid]
     ELSE ps[i]]

PrimerasLibres(ps, n) ==
  {i \in pagina_libre(ps) : Cardinality({j \in pagina_libre(ps) : j < i}) < n}

\* Slip: one partition less than the quota.
AsignaUnaMenos(ps, pid) == Asigna(ps, PrimerasLibres(ps, marcos_maximos - 1), pid)

\* One round of the loop for each partition of the quota, and each takes the
\* first one that is free.
asignar_marcos_proceso(ps, pid) == Asigna(ps, PrimerasLibres(ps, marcos_maximos), pid)

asignar_marcos_maximos(ps, pid) ==
  IF Cardinality(pagina_libre(ps)) < marcos_maximos THEN ps
  ELSE asignar_marcos_proceso(ps, pid)

\* Slip: when none is free, the first one is taken.
AsignaOcupada(ps, pid) ==
  IF pagina_libre(ps) # {} THEN Asigna(ps, {Min(pagina_libre(ps))}, pid)
  ELSE [ps EXCEPT ![1].pid = pid, ![1].hay_contenido = 0]

asignacion_dinamica(ps, pid) ==
  IF pagina_libre(ps) = {} THEN ps ELSE Asigna(ps, {Min(pagina_libre(ps))}, pid)

\* The first write of a carpincho under FIJA reserves its quota.
AlElegirArchivo(ps, pid) ==
  IF tipo_asignacion = FIJA /\ ~TieneArchivo(pid)
  THEN asignar_marcos_maximos(ps, pid) ELSE ps

Escribe(ps, i, pag, v) ==
  [ps EXCEPT ![i].hay_contenido = 1, ![i].num_pagina = pag, ![i].contenido = v]

\* Slips: the page number is off by one; the last partition is used.
EscribeCorrida(ps, pid, pag, v) ==
  IF ParaEscribir(ps, pid) = {} THEN ps
  ELSE Escribe(ps, Min(ParaEscribir(ps, pid)), pag + 1, v)
EscribeEnLaUltima(ps, pid, pag, v) ==
  IF ParaEscribir(ps, pid) = {} THEN ps
  ELSE Escribe(ps, Max(ParaEscribir(ps, pid)), pag, v)

EscribeNueva(ps, pid, pag, v) ==
  IF ParaEscribir(ps, pid) = {} THEN ps
  ELSE Escribe(ps, Min(ParaEscribir(ps, pid)), pag, v)

escribirContenidoSobreElArchivo(ps, pid, pag, v) ==
  IF ParaSobreescribir(ps, pid, pag) # {}
  THEN [ps EXCEPT ![Min(ParaSobreescribir(ps, pid, pag))].contenido = v]
  ELSE EscribeNueva(IF tipo_asignacion = DINAMICA THEN asignacion_dinamica(ps, pid)
                    ELSE ps, pid, pag, v)

\* Slip: the file with most room, even for a carpincho that has a file.
EscribeDondeHayLugar(pid, pag, v) ==
  /\ lista_swap_files' = Ordenados
  /\ particiones' = [particiones EXCEPT ![Ordenados[1]] =
       escribirContenidoSobreElArchivo(AlElegirArchivo(@, pid), pid, pag, v)]

\* escribirContenido: the answer is 1 whether the page found a place or not.
escribirContenido(pid, pag, v) ==
  LET a == IF TieneArchivo(pid) THEN encontrar_swap_file_en_base_a_pid(pid)
           ELSE Ordenados[1]
  IN /\ lista_swap_files' = IF TieneArchivo(pid) THEN lista_swap_files ELSE Ordenados
     /\ particiones' = [particiones EXCEPT ![a] =
          escribirContenidoSobreElArchivo(AlElegirArchivo(@, pid), pid, pag, v)]

\* cantidad_frames_disponibles_para_proceso.
FramesPara(pid) ==
  LET a == IF TieneArchivo(pid) THEN encontrar_swap_file_en_base_a_pid(pid)
           ELSE Ordenados[1]
      libres == cantidad_frames_disponibles(a)
  IN IF tipo_asignacion = DINAMICA THEN libres
     ELSE IF TieneArchivo(pid)
          THEN Cardinality(ParaEscribir(particiones[a], pid))
     ELSE IF libres >= marcos_maximos THEN marcos_maximos ELSE 0

\* What leer_contenido may send for a page of a carpincho with a file: what it
\* finds, without a look at hay_contenido, or the garbage of a fresh buffer.
Lecturas(pid, pag) ==
  LET ps == particiones[encontrar_swap_file_en_base_a_pid(pid)]
  IN IF ParaLeer(ps, pid, pag) = {} THEN Contenidos
     ELSE {ps[Min(ParaLeer(ps, pid, pag))].contenido}

-----------------------------------------------------------------------------
(* The messages.                                                           *)

\* CONSULTAR_ESPACIO, by a carpincho that is about to create n pages.
ConsultaEspacio(pid, n) ==
  /\ ~colgada
  /\ pid \notin cerrados /\ concedidas[pid] = 0
  /\ paginas[pid] + n <= MaxPaginas
  /\ concedidas' = [concedidas EXCEPT ![pid] = IF FramesPara(pid) < n THEN 0 ELSE n]
  /\ lista_swap_files' = IF TieneArchivo(pid) THEN lista_swap_files ELSE Ordenados
  /\ UNCHANGED <<tipo_asignacion, particiones, paginas, cerrados, colgada>>

\* ESCRITURA_PAGINA of a page the memory has just created, empty.
CreaPagina(pid) ==
  /\ ~colgada
  /\ concedidas[pid] > 0
  /\ escribirContenido(pid, paginas[pid], Vacia)
  /\ concedidas' = [concedidas EXCEPT ![pid] = @ - 1]
  /\ paginas' = [paginas EXCEPT ![pid] = @ + 1]
  /\ UNCHANGED <<tipo_asignacion, cerrados, colgada>>

\* ESCRITURA_PAGINA of a page that loses its frame. Under DINAMICA another
\* carpincho's thread may have chosen it, and its owner may have closed since.
ReemplazaPagina(pid, pag, v) ==
  /\ ~colgada
  /\ pag < paginas[pid]
  /\ tipo_asignacion = FIJA => pid \notin cerrados
  /\ escribirContenido(pid, pag, v)
  /\ UNCHANGED <<tipo_asignacion, paginas, concedidas, cerrados, colgada>>

\* LECTURA_PAGINA of a page out of memory. With a file, the answer is one of
\* Lecturas and nothing changes. With none there is no answer, and the memory
\* waits for it with the mutex of the swap taken.
PidePagina(pid, pag) ==
  /\ ~colgada
  /\ pid \notin cerrados /\ pag < paginas[pid]
  /\ ~TieneArchivo(pid)
  /\ colgada' = TRUE
  /\ UNCHANGED <<tipo_asignacion, lista_swap_files, particiones, paginas,
                 concedidas, cerrados>>

\* vaciar_particion, and the fields limpiar_marcos_de_proceso resets: pid and
\* page number stay.
Vaciada(x) ==
  [x EXCEPT !.esta_libre = 1, !.hay_contenido = 0, !.contenido = Vacia]

\* FINALIZAR_PROCESO: limpiar_marcos_de_proceso.
FinalizaProceso(pid) ==
  /\ pid \notin cerrados /\ concedidas[pid] = 0
  /\ cerrados' = cerrados \cup {pid}
  /\ particiones' =
       IF ~TieneArchivo(pid) THEN particiones
       ELSE [particiones EXCEPT ![encontrar_swap_file_en_base_a_pid(pid)] =
               [i \in DOMAIN @ |->
                  IF @[i].pid # pid THEN @[i] ELSE Vaciada(@[i])]]
  /\ UNCHANGED <<tipo_asignacion, lista_swap_files, paginas, concedidas, colgada>>

Next ==
  \E pid \in Pids :
    \/ \E n \in 1..MaxPaginas : ConsultaEspacio(pid, n)
    \/ CreaPagina(pid)
    \/ \E pag \in 0..(MaxPaginas - 1) :
         PidePagina(pid, pag) \/ \E v \in Contenidos : ReemplazaPagina(pid, pag, v)
    \/ FinalizaProceso(pid)

Spec == Init /\ [][Next]_vars

-----------------------------------------------------------------------------
(* Properties.                                                             *)

Particion ==
  [num_pagina : {-1} \cup 0..(MaxPaginas - 1), pid : {-1} \cup Pids,
   esta_libre : {0, 1}, hay_contenido : {0, 1}, contenido : Contenidos]

\* Every variable keeps its type: page numbers are those of created pages, and
\* sorting the files loses none.
TypeOK ==
  /\ tipo_asignacion \in {FIJA, DINAMICA}
  /\ lista_swap_files \in [Archivos -> Archivos]
  /\ IsInjective(lista_swap_files)
  /\ particiones \in [Archivos -> [1..CantParticiones -> Particion]]
  /\ paginas \in [Pids -> 0..MaxPaginas]
  /\ concedidas \in [Pids -> 0..MaxPaginas]
  /\ cerrados \subseteq Pids
  /\ colgada \in BOOLEAN

De(pid, a) == Suyas(particiones[a], pid)

\* A carpincho has partitions in one file only, whatever file has most room
\* when it writes: the lookup by pid, which stops at the first file, misses
\* none.
UnSoloArchivo ==
  \A pid \in Pids, a, b \in Archivos :
    De(pid, a) # {} /\ De(pid, b) # {} => a = b

\* Under FIJA a carpincho has its whole quota or nothing.
CuotaFija ==
  tipo_asignacion = FIJA =>
    \A pid \in Pids, a \in Archivos :
      De(pid, a) # {} => Cardinality(De(pid, a)) = marcos_maximos

Guardadas(pid, pag) ==
  UNION {{particiones[a][i] : i \in ParaSobreescribir(particiones[a], pid, pag)} :
           a \in Archivos}

\* A page that is stored reads back as what was written last, although a read
\* does not look at hay_contenido and freed partitions keep their old page
\* numbers, which the next owner inherits with them.
SeLeeLoEscrito ==
  \A pid \in Pids, pag \in 0..(MaxPaginas - 1) :
    Guardadas(pid, pag) # {} =>
      Lecturas(pid, pag) = {x.contenido : x \in Guardadas(pid, pag)}

\* What is stored, as the abstract store of pages sees it.
Guardado ==
  [pid \in Pids |-> [pag \in 0..(MaxPaginas - 1) |->
     IF Guardadas(pid, pag) = {} THEN Ausente
     ELSE (CHOOSE x \in Guardadas(pid, pag) : TRUE).contenido]]
Almacen == INSTANCE AlmacenDePaginas WITH
  Paginas <- 0..(MaxPaginas - 1), guardado <- Guardado

\* SWAmP implements a store of pages: no message touches a page but the one it
\* names, and only the end of its carpincho takes a stored page away.
CumpleAlmacen == Almacen!Spec
=============================================================================
