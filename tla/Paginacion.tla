----------------------------- MODULE Paginacion -----------------------------
(***************************************************************************)
(* The paging of the memory: page tables, frames, TLB, page replacement,   *)
(* and the requests that use them.                                         *)
(*                                                                         *)
(* The memory has one thread per carpincho, which serves one request at a  *)
(* time, so the threads of different carpinchos interleave between their   *)
(* critical sections.  An action is one critical section, or several in a  *)
(* row when what another thread could do in between is the same as before  *)
(* or after them, or is recorded as a fault (victimaEnUso for Usa, whose   *)
(* bytes and bits the code writes apart).                                  *)
(* Which pages a request visits depends on addresses and headers (see      *)
(* Heap): here it visits any pages in any order.                           *)
(***************************************************************************)
EXTENDS Integers, FiniteSets, Sequences, SequencesExt, FiniteSetsExt

CONSTANTS
  Pids,             \* the carpinchos
  CantMarcos,       \* TAMANIO / TAMANIO_PAGINA
  Configuraciones,  \* the values of the configuration file, and the use of the
                    \* memory: grado, requests at once; pedidos, a bound of all
  MaxPaginas,       \* bound: page ids of a carpincho
  Nadie, Vieja

ASSUME PaginacionOK ==
  /\ IsFiniteSet(Pids) /\ Nadie \notin Pids
  /\ CantMarcos \in Nat \ {0} /\ MaxPaginas \in Nat
  /\ Configuraciones \subseteq
       [tipoAsignacion : {"FIJA", "DINAMICA"}, marcosMaximos : Nat \ {0},
        MMU : {"LRU", "CLOCK-M"}, TLB : {"LRU", "FIFO"}, cantidadEntradasTLB : Nat,
        grado : Nat \ {0}, pedidos : Nat]

Ids == 0..(MaxPaginas - 1)
Marcos == 1..CantMarcos
SinMarco == 0

VARIABLES
  config,
  carpinchos,        \* the list of carpinchos
  tabla_de_paginas,  \* of each carpincho: the ids of its pages, in order
  pagina,            \* of each carpincho and id: the fields of t_pagina
  contadorPag,       \* of each carpincho: the next page id
  punteroClock,      \* of each carpincho, and the global one (Nadie)
  marcos,            \* the list of frames: fields of t_marco
  memoriaPrincipal,  \* what each frame holds
  TLB,
  guardado,          \* what SWAmP keeps of each page
  swap, marcos_sem,  \* who holds these mutexes
  hilo,              \* the locals of each thread
  copia,             \* the page each thread has out of the memory
  pedidos,           \* requests served, for the bound
  fallas,            \* history: the ways of losing a page that have happened
  cuotaTrunca,       \* history: a carpincho was left with part of its quota
  caida              \* the memory has died, and of what

vars == <<config, carpinchos, tabla_de_paginas, pagina, contadorPag, punteroClock,
          marcos, memoriaPrincipal, TLB, guardado, swap, marcos_sem, hilo, pedidos,
          copia, fallas, cuotaTrunca, caida>>

FIJA == config.tipoAsignacion = "FIJA"
marcosMaximos == config.marcosMaximos
cantidadEntradasTLB == config.cantidadEntradasTLB

hilo_libre ==
  [fase |-> "libre", pedido |-> "ninguno", pag |-> 0, vuelve |-> "",
   victima |-> <<>>, marco |-> SinMarco, lista |-> <<>>, nuevas |-> <<>>, visitadas |-> {}]

\* Slip: a new page is not marked as changed.
pagina_sin_cambio == [presente |-> FALSE, marco |-> SinMarco, modificado |-> FALSE, uso |-> TRUE]
pagina_nueva == [presente |-> FALSE, marco |-> SinMarco, modificado |-> TRUE, uso |-> TRUE]

Init ==
  /\ config \in Configuraciones
  /\ carpinchos = {}
  /\ tabla_de_paginas = [p \in Pids |-> <<>>]
  /\ pagina = [p \in Pids |-> [i \in Ids |-> pagina_nueva]]
  /\ contadorPag = [p \in Pids |-> 0]
  /\ punteroClock = [p \in Pids \cup {Nadie} |-> 0]
  /\ marcos = [m \in Marcos |-> [proceso_asignado |-> Nadie, estaLibre |-> TRUE]]
  /\ memoriaPrincipal = [m \in Marcos |-> Vieja]
  /\ TLB = <<>>
  /\ guardado = [p \in Pids |-> [i \in Ids |-> Vieja]]
  /\ swap = Nadie /\ marcos_sem = Nadie
  /\ hilo = [p \in Pids |-> [hilo_libre EXCEPT !.fase = "afuera"]]
  /\ pedidos = 0
  /\ copia = [p \in Pids |-> Vieja]
  /\ fallas = {} /\ cuotaTrunca = FALSE
  /\ caida = "no"

-----------------------------------------------------------------------------
(* Frames and pages.                                                       *)

\* The numbers of a finite set, as a list in order.
EnOrden(S) ==
  [k \in 1..Cardinality(S) |-> CHOOSE m \in S : Cardinality({n \in S : n < m}) = k - 1]
MarcosDe(p) == {m \in Marcos : marcos[m].proceso_asignado = p}
PaginasDe(p) == Range(tabla_de_paginas[p])
Presentes(p) == {i \in PaginasDe(p) : pagina[p][i].presente}

\* A content is <<p, i>>, what page i of p must hold, or Vieja, anything older:
\* a write of the page on frame m makes every other content of it old.
Contenidos == (Pids \X Ids) \cup {Vieja}
Envejece(contenido, p, i) == IF contenido = <<p, i>> THEN Vieja ELSE contenido
Escribe(p, i, m) ==
  /\ memoriaPrincipal' = [n \in Marcos |->
       IF n = m THEN <<p, i>> ELSE Envejece(memoriaPrincipal[n], p, i)]
  /\ guardado' = [guardado EXCEPT ![p][i] = Vieja]
  /\ copia' = [q \in Pids |-> Envejece(copia[q], p, i)]

\* Requests being served: a close is answered before its last steps.
EnCurso ==
  {p \in Pids : hilo[p].fase \notin {"afuera", "libre", "cierraSwap", "cierraTLB", "fin"}}

\* After the first fault, or after its end, the memory is not followed.
Sigue == caida = "no" /\ fallas = {}

Puede(p) ==
  /\ Sigue /\ hilo[p].fase = "libre"
  /\ Cardinality(EnCurso) < config.grado

\* Page i of p, which its thread uses, has gone or is going.
SeFue(p, i) ==
  \/ ~pagina[p][i].presente
  \/ \E q \in Pids : hilo[q].fase \in {"saca", "quita"} /\ hilo[q].victima = <<p, i>>

\* Frames that other threads have emptied for themselves.
EnTransito(p) ==
  {hilo[q].marco : q \in {r \in Pids \ {p} : hilo[r].fase \in {"quita", "asigna", "escribeEn"}}}

\* Threads that are evicting a page of p.
Desalojan(p) ==
  {q \in Pids : hilo[q].fase \in {"saca", "quita"} /\ hilo[q].victima[1] = p}

-----------------------------------------------------------------------------
(* The TLB.                                                                *)

Quita(tlb, e) ==
  LET lugares == {k \in 1..Len(tlb) : tlb[k] = e}
  IN IF lugares # {} THEN RemoveAt(tlb, Min(lugares)) ELSE tlb

\* Without the pages of p, when they are freed.
SinLasDe(tlb, p) ==
  LET ks == EnOrden({k \in 1..Len(tlb) : tlb[k][1] # p})
  IN [j \in 1..Len(ks) |-> tlb[ks[j]]]

\* The first entry with that page id, of whatever carpincho.
PrimeraConId(tlb, i) ==
  Min({k \in 1..Len(tlb) : tlb[k][2] = i})

\* The entry used the longest ago is any: use times are not modelled.
AgregaLRU(tlb, e) ==
  {Append(RemoveAt(tlb, PrimeraConId(tlb, tlb[k][2])), e) : k \in 1..Len(tlb)}

\* Slip: a full TLB takes the new entry and none goes.
AgregaSinSacar(tlb, e, presente) == {Append(tlb, e)}

\* algoritmo_reemplazo_TLB: the lists the TLB may become.
algoritmo_reemplazo_TLB(tlb, e, presente) ==
  IF cantidadEntradasTLB = 0 THEN {tlb}
  ELSE IF Len(tlb) = cantidadEntradasTLB
       THEN IF config.TLB = "FIFO" THEN {Append(Tail(tlb), e)} ELSE AgregaLRU(tlb, e)
  ELSE {IF presente THEN Append(tlb, e) ELSE tlb}

\* A full TLB takes in a page that is not present.
EntraAusente(p, i) ==
  /\ cantidadEntradasTLB # 0 /\ Len(TLB) = cantidadEntradasTLB
  /\ ~pagina[p][i].presente

-----------------------------------------------------------------------------
(* Page replacement.                                                       *)

\* reemplazarPagina: the pages that may go, in the order of their frames.
\* Slip: under FIJA too, the pages of all.
CandidatasDeTodos(p) == {c \in carpinchos \X Ids : c[2] \in Presentes(c[1])}
Candidatas(p) ==
  {c \in (IF FIJA THEN {p} ELSE carpinchos) \X Ids : c[2] \in Presentes(c[1])}
MarcoDe(c) == pagina[c[1]][c[2]].marco
\* Pages of a carpincho that closes may share a frame with others: any order.
Ordenadas(p) ==
  {cs \in SetToSeqs(Candidatas(p)) :
     \A j, k \in DOMAIN cs : j < k => MarcoDe(cs[j]) <= MarcoDe(cs[k])}

\* CLOCK-M over the pages cs, from the position desde (counted from 0): the
\* first one without use nor change; else the first one without use, those
\* before it losing their use bit; else all lose it and the search is repeated.
Uso(cs, k) == pagina[cs[k + 1][1]][cs[k + 1][2]].uso
Modificada(cs, k) == pagina[cs[k + 1][1]][cs[k + 1][2]].modificado
Lugares(cs) == 0..(Len(cs) - 1)
Vuelta(cs, desde, k) == (k - desde + Len(cs)) % Len(cs)
PrimeraDesde(cs, desde, S) ==
  CHOOSE k \in S : \A j \in S : Vuelta(cs, desde, k) <= Vuelta(cs, desde, j)

\* Slip: when all have been used, the change of the pages is not looked at.
EligeSinMirarCambio(cs, desde) ==
  LET limpias == {k \in Lugares(cs) : ~Uso(cs, k) /\ ~Modificada(cs, k)}
      quietas == {k \in Lugares(cs) : ~Uso(cs, k)}
  IN [lugar |-> IF limpias # {} THEN PrimeraDesde(cs, desde, limpias)
                ELSE IF quietas # {} THEN PrimeraDesde(cs, desde, quietas) ELSE desde,
      sinUso |-> IF quietas # {} THEN {} ELSE Lugares(cs)]

EligeClock(cs, desde) ==
  LET limpias == {k \in Lugares(cs) : ~Uso(cs, k) /\ ~Modificada(cs, k)}
      quietas == {k \in Lugares(cs) : ~Uso(cs, k)}
      sinCambio == {k \in Lugares(cs) : ~Modificada(cs, k)}
      primera == PrimeraDesde(cs, desde, quietas)
  IN IF limpias # {} THEN [lugar |-> PrimeraDesde(cs, desde, limpias), sinUso |-> {}]
     ELSE IF quietas # {}
          THEN [lugar |-> primera,
                sinUso |-> {k \in Lugares(cs) :
                              Vuelta(cs, desde, k) < Vuelta(cs, desde, primera)}]
     ELSE [lugar |-> IF sinCambio # {} THEN PrimeraDesde(cs, desde, sinCambio)
                     ELSE desde,
           sinUso |-> Lugares(cs)]

\* The pointer a replacement by p uses, and where it is left: under FIJA it
\* moves one place, whatever the victim.
Puntero(p) == IF FIJA THEN p ELSE Nadie
\* Slip: the pointer does not go round.
PunteroSinVuelta(cs, desde, lugar) == (IF FIJA THEN desde ELSE lugar) + 1
PunteroTras(cs, desde, lugar) == ((IF FIJA THEN desde ELSE lugar) + 1) % Len(cs)

-----------------------------------------------------------------------------
(* Arrival, signals and the start of a request.                            *)

\* inicializar_carpincho. The ids of the carpinchos are given under a mutex.
Inicializa(p) ==
  /\ Sigue /\ hilo[p].fase = "afuera"
  /\ hilo' = [hilo EXCEPT ![p].fase = "libre"]
  /\ carpinchos' = carpinchos \cup {p}
  /\ UNCHANGED <<config, tabla_de_paginas, pagina, contadorPag, punteroClock, marcos,
                 memoriaPrincipal, TLB, guardado, swap, marcos_sem, pedidos, copia,
                 fallas, cuotaTrunca, caida>>

\* SIGUSR2.
LimpiaTLB ==
  /\ Sigue /\ TLB # <<>>
  /\ TLB' = <<>>
  /\ UNCHANGED <<config, carpinchos, tabla_de_paginas, pagina, contadorPag, punteroClock,
                 marcos, memoriaPrincipal, guardado, swap, marcos_sem, hilo, pedidos,
                 copia, fallas, cuotaTrunca, caida>>

\* MEMREAD, MEMWRITE ("acceso") and MEMFREE ("libera").
Pide(p, pedido) ==
  /\ Puede(p) /\ pedidos < config.pedidos
  /\ tabla_de_paginas[p] # <<>>
  /\ hilo' = [hilo EXCEPT ![p].fase = "recorre", ![p].pedido = pedido]
  /\ pedidos' = pedidos + 1
  /\ UNCHANGED <<config, carpinchos, tabla_de_paginas, pagina, contadorPag, punteroClock,
                 marcos, memoriaPrincipal, TLB, guardado, swap, marcos_sem, copia,
                 fallas, cuotaTrunca, caida>>

\* MEMALLOC: reservarMarcos looks for frames without owner, and lets the mutex go.
\* The list is for the first pages; later requests destroy it unused.
PideAlloc(p) ==
  /\ Puede(p) /\ pedidos < config.pedidos
  /\ marcos_sem = Nadie
  /\ hilo' = [hilo EXCEPT ![p].fase = IF FIJA THEN "reserva" ELSE "recorre",
                          ![p].pedido = "alloc",
                          ![p].lista = IF FIJA \/ tabla_de_paginas[p] = <<>>
                                       THEN EnOrden(MarcosDe(Nadie)) ELSE <<>>]
  /\ pedidos' = pedidos + 1
  /\ UNCHANGED <<config, carpinchos, tabla_de_paginas, pagina, contadorPag, punteroClock,
                 marcos, memoriaPrincipal, TLB, guardado, swap, marcos_sem, copia,
                 fallas, cuotaTrunca, caida>>

\* Its quota, if it has it whole; else as many again, from those seen before.
Tomados(p) ==
  IF Cardinality(MarcosDe(p)) = marcosMaximos THEN EnOrden(MarcosDe(p))
  ELSE SubSeq(hilo[p].lista, 1, Min({marcosMaximos, Len(hilo[p].lista)}))

\* reservarMarcos, FIJA, with the mutex again: the frames it takes are its own,
\* whoever owns them now.
ReservaFija(p) ==
  LET tomados == Tomados(p) IN
  /\ Sigue /\ hilo[p].fase = "reserva" /\ marcos_sem = Nadie
  /\ hilo' = [hilo EXCEPT ![p].fase = "recorre",
                          ![p].lista = IF tabla_de_paginas[p] = <<>> THEN tomados ELSE <<>>]
  /\ marcos' = [m \in Marcos |-> IF m \in Range(tomados)
                  THEN [marcos[m] EXCEPT !.proceso_asignado = p] ELSE marcos[m]]
  /\ fallas' = fallas \cup
       IF \E m \in Range(tomados) : marcos[m].proceso_asignado \notin {Nadie, p}
       THEN {"reservaVencida"} ELSE {}
  /\ cuotaTrunca' = (cuotaTrunca \/ Len(tomados) < marcosMaximos)
  /\ UNCHANGED <<config, carpinchos, tabla_de_paginas, pagina, contadorPag, punteroClock,
                 memoriaPrincipal, TLB, guardado, swap, marcos_sem, pedidos, copia,
                 caida>>

\* The request is answered.
Termina(p) ==
  /\ Sigue /\ hilo[p].fase = "recorre" /\ hilo[p].nuevas = <<>>
  /\ hilo' = [hilo EXCEPT ![p] = hilo_libre]
  /\ UNCHANGED <<config, carpinchos, tabla_de_paginas, pagina, contadorPag, punteroClock,
                 marcos, memoriaPrincipal, TLB, guardado, swap, marcos_sem, pedidos,
                 copia, fallas, cuotaTrunca, caida>>

-----------------------------------------------------------------------------
(* An access to a page: reemplazo, swapear.                                *)

\* buscar_TLB, then buscarEnTablaDePaginas: only this thread adds entries of
\* its carpincho, so a miss stays a miss until the table is looked at.
Accede(p, i) ==
  LET acierto == \E k \in 1..Len(TLB) : TLB[k] = <<p, i>> IN
  /\ Sigue /\ hilo[p].fase = "recorre"
  /\ i \in PaginasDe(p) \ Range(hilo[p].nuevas)
  /\ hilo' = [hilo EXCEPT ![p].pag = i,
                ![p].fase = IF acierto THEN "usa"
                            ELSE IF pagina[p][i].presente THEN "agrega" ELSE "falta"]
  /\ fallas' = fallas \cup
       IF acierto /\ ~pagina[p][i].presente THEN {"aciertoAusente"} ELSE {}
  /\ UNCHANGED <<config, carpinchos, tabla_de_paginas, pagina, contadorPag, punteroClock,
                 marcos, memoriaPrincipal, TLB, guardado, swap, marcos_sem, pedidos,
                 copia, cuotaTrunca, caida>>

AgregaATLB(p) ==
  /\ Sigue /\ hilo[p].fase = "agrega"
  /\ TLB' \in algoritmo_reemplazo_TLB(TLB, <<p, hilo[p].pag>>,
                                      pagina[p][hilo[p].pag].presente)
  /\ hilo' = [hilo EXCEPT ![p].fase = "usa"]
  /\ fallas' = fallas \cup
       IF EntraAusente(p, hilo[p].pag) THEN {"ausenteEnTLB"} ELSE {}
  /\ UNCHANGED <<config, carpinchos, tabla_de_paginas, pagina, contadorPag, punteroClock,
                 marcos, memoriaPrincipal, guardado, swap, marcos_sem, pedidos, copia,
                 cuotaTrunca, caida>>

\* The bytes are read or written, on the frame the page has or had, and the
\* fields of the page are set.
Usa(p) ==
  LET i == hilo[p].pag IN
  /\ Sigue /\ hilo[p].fase = "usa"
  /\ hilo' = [hilo EXCEPT ![p].fase = "recorre",
                ![p].visitadas = IF hilo[p].pedido = "libera" THEN @ \cup {i} ELSE @]
  /\ \/ \* it reads
        /\ pagina' = [pagina EXCEPT ![p][i].uso = TRUE]
        /\ UNCHANGED <<memoriaPrincipal, guardado, copia>>
     \/ \* it writes
        /\ pagina' = [pagina EXCEPT ![p][i].uso = TRUE, ![p][i].modificado = TRUE]
        /\ Escribe(p, i, pagina[p][i].marco)
  /\ fallas' = fallas \cup IF SeFue(p, i) THEN {"victimaEnUso"} ELSE {}
  /\ UNCHANGED <<config, carpinchos, tabla_de_paginas, contadorPag, punteroClock, marcos,
                 TLB, swap, marcos_sem, pedidos, cuotaTrunca, caida>>

\* consolidar_allocs: headers that are merged are written through pag->marco of
\* a page visited before, and modificado is left as it is.
FundeCabecera(p, i) ==
  /\ Sigue /\ hilo[p].fase = "recorre" /\ i \in hilo[p].visitadas
  /\ Escribe(p, i, pagina[p][i].marco)
  /\ fallas' = fallas
       \cup (IF SeFue(p, i) THEN {"marcoViejo"} ELSE {})
       \cup (IF pagina[p][i].modificado THEN {} ELSE {"cambioSinMarcar"})
  /\ UNCHANGED <<config, carpinchos, tabla_de_paginas, pagina, contadorPag, punteroClock,
                 marcos, TLB, swap, marcos_sem, hilo, pedidos, cuotaTrunca, caida>>

\* The thread of p needs a frame: for the page it visits, or for a new one.
NecesitaMarco(p) ==
  \/ hilo[p].fase = "falta"
  \/ /\ hilo[p].fase = "escribe" /\ hilo[p].pag < Len(hilo[p].nuevas)
     /\ hilo[p].pag >= Len(hilo[p].lista)

\* reemplazarPagina, with the mutex of the swap: no candidate is the end of the
\* memory, and so is a pointer beyond the last one.
NoHayVictima(p) ==
  LET n == Cardinality(Candidatas(p)) IN
  /\ Sigue /\ NecesitaMarco(p) /\ swap = Nadie
  /\ \/ n = 0 /\ caida' = "sinVictima"
     \/ /\ n > 0 /\ config.MMU = "CLOCK-M" /\ punteroClock[Puntero(p)] >= n
        /\ caida' = "punteroClock"
  /\ UNCHANGED <<config, carpinchos, tabla_de_paginas, pagina, contadorPag, punteroClock,
                 marcos, memoriaPrincipal, TLB, guardado, swap, marcos_sem, hilo, pedidos,
                 copia, fallas, cuotaTrunca>>

\* The victim c is copied before it leaves its frame.
Desaloja(p, c) ==
  /\ swap' = p
  /\ hilo' = [hilo EXCEPT ![p].fase = "saca", ![p].vuelve = hilo[p].fase,
                          ![p].victima = c, ![p].marco = MarcoDe(c)]
  /\ copia' = [copia EXCEPT ![p] = memoriaPrincipal[MarcoDe(c)]]
  /\ fallas' = fallas \cup
       IF hilo[c[1]].fase = "cierraLista" THEN {"victimaCerrada"} ELSE {}

EligeVictimaLRU(p) ==
  /\ Sigue /\ NecesitaMarco(p) /\ swap = Nadie /\ config.MMU = "LRU"
  /\ \E c \in Candidatas(p) : Desaloja(p, c)
  /\ UNCHANGED <<config, carpinchos, tabla_de_paginas, pagina, contadorPag, punteroClock,
                 marcos, memoriaPrincipal, TLB, guardado, marcos_sem, pedidos, 
                 cuotaTrunca, caida>>

EligeVictimaClock(p) ==
  LET desde == punteroClock[Puntero(p)] IN
  /\ Sigue /\ NecesitaMarco(p) /\ swap = Nadie /\ config.MMU = "CLOCK-M"
  /\ \E cs \in Ordenadas(p) :
       LET e == EligeClock(cs, desde) IN
       /\ desde < Len(cs)
       /\ Desaloja(p, cs[e.lugar + 1])
       /\ pagina' = [q \in Pids |-> [i \in Ids |->
            IF \E k \in e.sinUso : cs[k + 1] = <<q, i>>
            THEN [pagina[q][i] EXCEPT !.uso = FALSE] ELSE pagina[q][i]]]
       /\ punteroClock' = [punteroClock EXCEPT ![Puntero(p)] = PunteroTras(cs, desde, e.lugar)]
  /\ UNCHANGED <<config, carpinchos, tabla_de_paginas, contadorPag, marcos,
                 memoriaPrincipal, TLB, guardado, marcos_sem, pedidos, cuotaTrunca,
                 caida>>

\* Slip: the page that goes is still present.
SigueAdentro(pag) == pag
DejaMarco(pag) == [pag EXCEPT !.presente = FALSE]

\* A changed page goes to the swap, and the frame is free; under FIJA it stays
\* with its carpincho.
SacaVictima(p) ==
  LET q == hilo[p].victima[1]
      i == hilo[p].victima[2]
      m == hilo[p].marco
  IN
  /\ Sigue /\ hilo[p].fase = "saca"
  /\ guardado' = IF pagina[q][i].modificado
                 THEN [guardado EXCEPT ![q][i] = copia[p]] ELSE guardado
  /\ pagina' = [pagina EXCEPT ![q][i] = DejaMarco(@)]
  /\ marcos' = [marcos EXCEPT ![m].estaLibre = TRUE,
                              ![m].proceso_asignado = IF FIJA THEN @ ELSE Nadie]
  /\ hilo' = [hilo EXCEPT ![p].fase = "quita"]
  /\ UNCHANGED <<config, carpinchos, tabla_de_paginas, contadorPag, punteroClock,
                 memoriaPrincipal, TLB, swap, marcos_sem, pedidos, copia, fallas,
                 cuotaTrunca, caida>>

\* The victim leaves the TLB; for a page fault, the page is asked for as well
\* (pedir_pagina). The mutex of the swap is let go.
QuitaDeTLB(p) ==
  /\ Sigue /\ hilo[p].fase = "quita"
  /\ TLB' = Quita(TLB, hilo[p].victima)
  /\ hilo' = [hilo EXCEPT
       ![p].fase = IF hilo[p].vuelve = "falta" THEN "asigna" ELSE "escribeEn",
       ![p].vuelve = "", ![p].victima = <<>>]
  /\ copia' = [copia EXCEPT ![p] =
       IF hilo[p].vuelve = "falta" THEN guardado[p][hilo[p].pag] ELSE Vieja]
  /\ swap' = Nadie
  /\ UNCHANGED <<config, carpinchos, tabla_de_paginas, pagina, contadorPag, punteroClock,
                 marcos, memoriaPrincipal, guardado, marcos_sem, pedidos, fallas,
                 cuotaTrunca, caida>>

\* The end of swapear: the page takes the frame, and then its content is copied.
AsignaMarco(p) ==
  LET m == hilo[p].marco IN
  /\ Sigue /\ hilo[p].fase = "asigna"
  /\ marcos' = [marcos EXCEPT ![m] = [proceso_asignado |-> p, estaLibre |-> FALSE]]
  /\ pagina' = [pagina EXCEPT ![p][hilo[p].pag] =
                  [presente |-> TRUE, marco |-> m, modificado |-> FALSE, uso |-> TRUE]]
  /\ hilo' = [hilo EXCEPT ![p].fase = "copia", ![p].marco = SinMarco]
  /\ UNCHANGED <<config, carpinchos, tabla_de_paginas, contadorPag, punteroClock,
                 memoriaPrincipal, TLB, guardado, swap, marcos_sem, pedidos, copia,
                 fallas, cuotaTrunca, caida>>

CopiaPagina(p) ==
  LET i == hilo[p].pag IN
  /\ Sigue /\ hilo[p].fase = "copia"
  /\ memoriaPrincipal' = [memoriaPrincipal EXCEPT ![pagina[p][i].marco] = copia[p]]
  /\ hilo' = [hilo EXCEPT ![p].fase = "agrega"]
  /\ copia' = [copia EXCEPT ![p] = Vieja]
  /\ fallas' = fallas \cup IF SeFue(p, i) THEN {"victimaEnUso"} ELSE {}
  /\ UNCHANGED <<config, carpinchos, tabla_de_paginas, pagina, contadorPag, punteroClock,
                 marcos, TLB, guardado, swap, marcos_sem, pedidos, cuotaTrunca, caida>>

-----------------------------------------------------------------------------
(* New pages: administrar_paginas, crearAllocNuevo, escribirMemoria.       *)

\* Slip: the counter moves once for all the pages.
IdsRepetidos(p, n) == [k \in 1..n |-> contadorPag[p]]
generadorIdsPaginas(p, n) == [k \in 1..n |-> contadorPag[p] + k - 1]

\* SWAmP has room for n pages and gets them, empty.
CreaPaginas(p, n) ==
  LET primera == tabla_de_paginas[p] = <<>>
      ids == generadorIdsPaginas(p, n)
  IN
  /\ Sigue /\ hilo[p].fase = "recorre" /\ hilo[p].pedido = "alloc"
  /\ swap = Nadie /\ contadorPag[p] + n <= MaxPaginas
  /\ contadorPag' = [contadorPag EXCEPT ![p] = @ + n]
  /\ tabla_de_paginas' = [tabla_de_paginas EXCEPT ![p] = @ \o ids]
  /\ pagina' = [pagina EXCEPT ![p] =
                  [i \in Ids |-> IF i \in Range(ids) THEN pagina_nueva ELSE pagina[p][i]]]
  /\ guardado' = [guardado EXCEPT ![p] =
                    [i \in Ids |-> IF i \in Range(ids) THEN Vieja ELSE guardado[p][i]]]
  /\ hilo' = [hilo EXCEPT ![p].nuevas = ids, ![p].pedido = "alojado",
                ![p].fase = IF primera THEN "empieza" ELSE "buscaMarcos",
                ![p].lista = IF primera THEN @ ELSE <<>>]
  /\ UNCHANGED <<config, carpinchos, punteroClock, marcos, memoriaPrincipal, TLB, swap,
                 marcos_sem, pedidos, copia, fallas, cuotaTrunca, caida>>

buscarMarcosLibres(p) ==
  /\ Sigue /\ hilo[p].fase = "buscaMarcos" /\ marcos_sem = Nadie
  /\ hilo' = [hilo EXCEPT ![p].fase = "recorre",
       ![p].lista = EnOrden(IF FIJA THEN {m \in MarcosDe(p) : marcos[m].estaLibre}
                            ELSE MarcosDe(Nadie))]
  /\ UNCHANGED <<config, carpinchos, tabla_de_paginas, pagina, contadorPag, punteroClock,
                 marcos, memoriaPrincipal, TLB, guardado, swap, marcos_sem, pedidos,
                 copia, fallas, cuotaTrunca, caida>>

\* escribirMemoria, with the mutex of the frames from the first page to the last.
EmpiezaAEscribir(p) ==
  /\ Sigue /\ marcos_sem = Nadie
  /\ \/ hilo[p].fase = "empieza"
     \/ hilo[p].fase = "recorre" /\ hilo[p].nuevas # <<>>
  /\ marcos_sem' = p
  /\ hilo' = [hilo EXCEPT ![p].fase = "escribe", ![p].pag = 0]
  /\ UNCHANGED <<config, carpinchos, tabla_de_paginas, pagina, contadorPag, punteroClock,
                 marcos, memoriaPrincipal, TLB, guardado, swap, pedidos, copia, fallas,
                 cuotaTrunca, caida>>

\* The next new page is written on frame m, if it is free, and is present.
EscribeEn(p, m) ==
  LET i == hilo[p].nuevas[hilo[p].pag + 1] IN
  /\ IF marcos[m].estaLibre
     THEN /\ Escribe(p, i, m)
          /\ pagina' = [pagina EXCEPT ![p][i].marco = m, ![p][i].presente = TRUE]
          /\ hilo' = [hilo EXCEPT ![p].fase = "ocupa", ![p].pag = @ + 1, ![p].marco = m]
     ELSE /\ hilo' = [hilo EXCEPT ![p].fase = "escribe", ![p].pag = @ + 1,
                                  ![p].marco = SinMarco]
          /\ UNCHANGED <<memoriaPrincipal, guardado, copia, pagina>>
  /\ fallas' = fallas
       \cup (IF m \in EnTransito(p) THEN {"marcoEnTransito"} ELSE {})
       \cup (IF marcos[m].estaLibre THEN {} ELSE {"marcoOcupado"})
  /\ UNCHANGED <<config, carpinchos, tabla_de_paginas, contadorPag, punteroClock, marcos,
                 TLB, swap, marcos_sem, pedidos, cuotaTrunca, caida>>

\* Its frame is marked later, with no mutex that a replacement takes: by then
\* another thread may have evicted the page and have the frame for itself.
OcupaMarco(p) ==
  /\ Sigue /\ hilo[p].fase = "ocupa"
  /\ marcos' = [marcos EXCEPT ![hilo[p].marco] =
                  [proceso_asignado |-> p, estaLibre |-> FALSE]]
  /\ hilo' = [hilo EXCEPT ![p].fase = "escribe", ![p].marco = SinMarco]
  /\ fallas' = fallas \cup
       IF pagina[p][hilo[p].nuevas[hilo[p].pag]].presente THEN {} ELSE {"marcoPisado"}
  /\ UNCHANGED <<config, carpinchos, tabla_de_paginas, pagina, contadorPag, punteroClock,
                 memoriaPrincipal, TLB, guardado, swap, marcos_sem, pedidos, copia,
                 cuotaTrunca, caida>>

SinDueno(ms) == {k \in 1..Len(ms) : marcos[ms[k]].proceso_asignado = Nadie}

\* While the list of frames lasts; under DINAMICA the first one that is still
\* without owner, if any is.
EscribePagina(p) ==
  LET lista == hilo[p].lista IN
  /\ Sigue /\ hilo[p].fase = "escribe"
  /\ hilo[p].pag < Len(hilo[p].nuevas) /\ hilo[p].pag < Len(lista)
  /\ \/ FIJA /\ EscribeEn(p, lista[hilo[p].pag + 1])
     \/ ~FIJA /\ SinDueno(lista) # {} /\ EscribeEn(p, lista[Min(SinDueno(lista))])

\* list_find finds no frame, and its result is used.
NoHayMarco(p) ==
  /\ Sigue /\ hilo[p].fase = "escribe" /\ ~FIJA
  /\ hilo[p].pag < Len(hilo[p].nuevas) /\ hilo[p].pag < Len(hilo[p].lista)
  /\ SinDueno(hilo[p].lista) = {}
  /\ caida' = "sinMarco"
  /\ UNCHANGED <<config, carpinchos, tabla_de_paginas, pagina, contadorPag, punteroClock,
                 marcos, memoriaPrincipal, TLB, guardado, swap, marcos_sem, hilo, pedidos,
                 copia, fallas, cuotaTrunca>>

\* On the frame of a victim.
EscribeTrasDesalojar(p) ==
  /\ Sigue /\ hilo[p].fase = "escribeEn"
  /\ EscribeEn(p, hilo[p].marco)

TerminaDeEscribir(p) ==
  /\ Sigue /\ hilo[p].fase = "escribe" /\ hilo[p].pag = Len(hilo[p].nuevas)
  /\ marcos_sem' = Nadie
  /\ hilo' = [hilo EXCEPT ![p].fase = "agregaNuevas", ![p].pag = 0, ![p].lista = <<>>]
  /\ UNCHANGED <<config, carpinchos, tabla_de_paginas, pagina, contadorPag, punteroClock,
                 marcos, memoriaPrincipal, TLB, guardado, swap, pedidos, copia, fallas,
                 cuotaTrunca, caida>>

\* list_iterate of algoritmo_reemplazo_TLB over the new pages, one by one.
AgregaNueva(p) ==
  LET i == Head(hilo[p].nuevas) IN
  /\ Sigue /\ hilo[p].fase = "agregaNuevas"
  /\ TLB' \in algoritmo_reemplazo_TLB(TLB, <<p, i>>, pagina[p][i].presente)
  /\ hilo' = [hilo EXCEPT ![p].nuevas = Tail(@),
                ![p].fase = IF Len(hilo[p].nuevas) = 1 THEN "recorre" ELSE "agregaNuevas"]
  /\ fallas' = fallas \cup IF EntraAusente(p, i) THEN {"ausenteEnTLB"} ELSE {}
  /\ UNCHANGED <<config, carpinchos, tabla_de_paginas, pagina, contadorPag, punteroClock,
                 marcos, memoriaPrincipal, guardado, swap, marcos_sem, pedidos, copia,
                 cuotaTrunca, caida>>

-----------------------------------------------------------------------------
(* Pages that go: the last block is freed, suspension, close.              *)

\* consolidar_allocs, when the block that is freed is the only one.
LiberaTodo(p) ==
  LET suyos == {pagina[p][i].marco : i \in PaginasDe(p)}
      quedan == Cardinality(MarcosDe(p) \ suyos)
  IN
  /\ Sigue /\ hilo[p].fase = "recorre" /\ hilo[p].pedido = "libera"
  /\ hilo[p].visitadas # {}
  /\ TLB' = SinLasDe(TLB, p)
  /\ marcos' = [m \in Marcos |-> IF m \in suyos
                  THEN [proceso_asignado |-> Nadie, estaLibre |-> TRUE] ELSE marcos[m]]
  /\ tabla_de_paginas' = [tabla_de_paginas EXCEPT ![p] = <<>>]
  /\ contadorPag' = [contadorPag EXCEPT ![p] = @ - 1]
  /\ hilo' = [hilo EXCEPT ![p] = hilo_libre]
  /\ fallas' = fallas
       \cup (IF Desalojan(p) # {} THEN {"victimaCerrada"} ELSE {})
       \cup (IF \E m \in suyos : m # SinMarco /\ marcos[m].proceso_asignado # p
             THEN {"marcoAjeno"} ELSE {})
  /\ cuotaTrunca' = (cuotaTrunca \/ quedan \in 1..(marcosMaximos - 1))
  /\ pagina' = [pagina EXCEPT ![p] = [i \in Ids |-> pagina_nueva]]
  /\ UNCHANGED <<config, carpinchos, punteroClock, memoriaPrincipal, guardado,
                 swap, marcos_sem, pedidos, copia, caida>>

\* suspender_proceso: each present page is stored and its frame is free, while
\* the page stays present and in the TLB.
Suspende(p) ==
  LET presentes == Presentes(p)
      suyos == {pagina[p][i].marco : i \in presentes}
  IN
  /\ Puede(p) /\ pedidos < config.pedidos
  /\ pedidos' = pedidos + 1
  /\ guardado' = [guardado EXCEPT ![p] = [i \in Ids |->
       IF i \in presentes THEN memoriaPrincipal[pagina[p][i].marco] ELSE guardado[p][i]]]
  /\ marcos' = [m \in Marcos |-> IF m \in suyos
                  THEN [proceso_asignado |-> Nadie, estaLibre |-> TRUE] ELSE marcos[m]]
  /\ fallas' = fallas \cup IF presentes # {} THEN {"suspension"} ELSE {}
  /\ UNCHANGED <<config, carpinchos, tabla_de_paginas, pagina, contadorPag, punteroClock,
                 memoriaPrincipal, TLB, swap, marcos_sem, hilo, copia, cuotaTrunca, caida>>

\* cerrar_carpincho: the frames of p are looked for with the mutex, and are
\* free after it.
BuscaMarcosALiberar(p) ==
  /\ Puede(p) /\ marcos_sem = Nadie
  /\ hilo' = [hilo EXCEPT ![p].fase = "cierraMarcos", ![p].lista = EnOrden(MarcosDe(p))]
  /\ UNCHANGED <<config, carpinchos, tabla_de_paginas, pagina, contadorPag, punteroClock,
                 marcos, memoriaPrincipal, TLB, guardado, swap, marcos_sem, pedidos,
                 copia, fallas, cuotaTrunca, caida>>

CierraMarcos(p) ==
  LET suyos == Range(hilo[p].lista) IN
  /\ Sigue /\ hilo[p].fase = "cierraMarcos"
  /\ marcos' = [m \in Marcos |-> IF m \in suyos
                  THEN [proceso_asignado |-> Nadie, estaLibre |-> TRUE] ELSE marcos[m]]
  /\ hilo' = [hilo EXCEPT ![p].fase = "cierraLista", ![p].lista = <<>>]
  /\ fallas' = fallas
       \cup (IF \E m \in suyos : marcos[m].proceso_asignado # p THEN {"marcoAjeno"} ELSE {})
       \cup (IF Desalojan(p) # {} THEN {"victimaCerrada"} ELSE {})
  /\ UNCHANGED <<config, carpinchos, tabla_de_paginas, pagina, contadorPag, punteroClock,
                 memoriaPrincipal, TLB, guardado, swap, marcos_sem, pedidos, copia,
                 cuotaTrunca, caida>>

\* The carpincho leaves the list, and is answered.
CierraLista(p) ==
  /\ Sigue /\ hilo[p].fase = "cierraLista"
  /\ carpinchos' = carpinchos \ {p}
  /\ hilo' = [hilo EXCEPT ![p].fase = "cierraSwap"]
  /\ UNCHANGED <<config, tabla_de_paginas, pagina, contadorPag, punteroClock, marcos,
                 memoriaPrincipal, TLB, guardado, swap, marcos_sem, pedidos, copia,
                 fallas, cuotaTrunca, caida>>

\* A replacement of q that was going through the list asks for a carpincho
\* beyond its end.
ListaCorta(p) ==
  /\ Sigue /\ hilo[p].fase = "cierraLista"
  /\ ~FIJA /\ swap = Nadie /\ \E q \in Pids \ {p} : NecesitaMarco(q)
  /\ caida' = "listaCorta"
  /\ UNCHANGED <<config, carpinchos, tabla_de_paginas, pagina, contadorPag, punteroClock,
                 marcos, memoriaPrincipal, TLB, guardado, swap, marcos_sem, hilo, pedidos,
                 copia, fallas, cuotaTrunca>>

\* finalizar_swap.
CierraSwap(p) ==
  /\ Sigue /\ hilo[p].fase = "cierraSwap"
  /\ guardado' = [guardado EXCEPT ![p] = [i \in Ids |-> Vieja]]
  /\ hilo' = [hilo EXCEPT ![p].fase = "cierraTLB"]
  /\ UNCHANGED <<config, carpinchos, tabla_de_paginas, pagina, contadorPag, punteroClock,
                 marcos, memoriaPrincipal, TLB, swap, marcos_sem, pedidos, copia,
                 fallas, cuotaTrunca, caida>>

\* The pages leave the TLB and are freed; the thread ends.
CierraTLB(p) ==
  /\ Sigue /\ hilo[p].fase = "cierraTLB"
  /\ TLB' = SinLasDe(TLB, p)
  /\ tabla_de_paginas' = [tabla_de_paginas EXCEPT ![p] = <<>>]
  /\ hilo' = [hilo EXCEPT ![p] = [hilo_libre EXCEPT !.fase = "fin"]]
  /\ fallas' = fallas \cup IF Desalojan(p) # {} THEN {"victimaCerrada"} ELSE {}
  /\ pagina' = [pagina EXCEPT ![p] = [i \in Ids |-> pagina_nueva]]
  /\ UNCHANGED <<config, carpinchos, contadorPag, punteroClock, marcos, memoriaPrincipal,
                 guardado, swap, marcos_sem, pedidos, copia, cuotaTrunca, caida>>

-----------------------------------------------------------------------------

Reemplaza(p) ==
  \/ NoHayVictima(p) \/ EligeVictimaLRU(p) \/ EligeVictimaClock(p)
  \/ SacaVictima(p) \/ QuitaDeTLB(p) \/ AsignaMarco(p) \/ CopiaPagina(p)

Aloja(p) ==
  \/ PideAlloc(p) \/ ReservaFija(p)
  \/ \E n \in 1..MaxPaginas : CreaPaginas(p, n)
  \/ buscarMarcosLibres(p) \/ EmpiezaAEscribir(p) \/ EscribePagina(p) \/ NoHayMarco(p)
  \/ EscribeTrasDesalojar(p) \/ OcupaMarco(p) \/ TerminaDeEscribir(p) \/ AgregaNueva(p)

Cierra(p) ==
  \/ BuscaMarcosALiberar(p) \/ CierraMarcos(p) \/ CierraLista(p) \/ ListaCorta(p)
  \/ CierraSwap(p) \/ CierraTLB(p)

Next ==
  \/ LimpiaTLB
  \/ \E p \in Pids :
       \/ Inicializa(p)
       \/ \E pedido \in {"acceso", "libera"} : Pide(p, pedido)
       \/ \E i \in Ids : Accede(p, i) \/ FundeCabecera(p, i)
       \/ AgregaATLB(p) \/ Usa(p) \/ LiberaTodo(p) \/ Termina(p)
       \/ Reemplaza(p) \/ Aloja(p) \/ Suspende(p) \/ Cierra(p)

Spec == Init /\ [][Next]_vars

-----------------------------------------------------------------------------
(* Properties.                                                             *)

Fases ==
  {"afuera", "libre", "reserva", "recorre", "agrega", "usa", "falta", "saca", "quita",
   "asigna", "copia", "empieza", "buscaMarcos", "escribe", "escribeEn", "ocupa",
   "agregaNuevas", "cierraMarcos", "cierraLista", "cierraSwap", "cierraTLB", "fin"}

\* The state has its types: page tables without repeated ids, list of
\* frames within the memory, one holder at most of each mutex.
TypeOKPag ==
  /\ config \in Configuraciones /\ carpinchos \subseteq Pids
  /\ \A p \in Pids : Range(tabla_de_paginas[p]) \subseteq Ids /\ IsInjective(tabla_de_paginas[p])
  /\ pagina \in [Pids -> [Ids -> [presente : BOOLEAN, marco : Marcos \cup {SinMarco},
                                 modificado : BOOLEAN, uso : BOOLEAN]]]
  /\ \A p \in Pids : contadorPag[p] \in 0..MaxPaginas
  /\ \A p \in Pids \cup {Nadie} : punteroClock[p] \in Nat
  /\ marcos \in [Marcos -> [proceso_asignado : Pids \cup {Nadie}, estaLibre : BOOLEAN]]
  /\ \A p \in Pids : hilo[p].fase \in Fases /\ Range(hilo[p].lista) \subseteq Marcos
  /\ \A m \in Marcos : memoriaPrincipal[m] \in Contenidos
  /\ \A p \in Pids : copia[p] \in Contenidos /\ Range(guardado[p]) \subseteq Contenidos
  /\ swap \in Pids \cup {Nadie} /\ marcos_sem \in Pids \cup {Nadie}
  /\ caida \in {"no", "sinVictima", "punteroClock", "sinMarco", "listaCorta"}

\* A frame is never of two pages: the frame of a present page is its owner's and
\* is not free, but for a new page whose thread has still to mark the frame,
\* whatever evictions, new pages and closes run at once, as long as no fault has
\* happened.
Abiertos == {p \in Pids : hilo[p].fase \notin {"cierraLista", "cierraSwap", "cierraTLB"}}
SinMarcar(p, i) == hilo[p].fase = "ocupa" /\ i = hilo[p].nuevas[hilo[p].pag]
MarcosConDueno ==
  fallas = {} =>
    \A p \in Abiertos : \A i \in Presentes(p) :
      /\ ~SinMarcar(p, i) =>
           marcos[pagina[p][i].marco] = [proceso_asignado |-> p, estaLibre |-> FALSE]
      /\ \A q \in Abiertos : \A j \in Presentes(q) :
           pagina[q][j].marco = pagina[p][i].marco => <<q, j>> = <<p, i>>

\* A carpincho reads what it wrote last: between requests, each of its pages is
\* up to date where an access would look for it, the frame if the page is in the
\* TLB or present, else the swap, unless a fault has happened.
SeLeeLoEscritoMem ==
  fallas = {} =>
    \A p \in Pids : hilo[p].fase = "libre" =>
      \A i \in PaginasDe(p) :
        IF <<p, i>> \in Range(TLB) \/ pagina[p][i].presente
        THEN memoriaPrincipal[pagina[p][i].marco] = <<p, i>>
        ELSE guardado[p][i] = <<p, i>>

\* The TLB has no repeated entry, no more than its entries, and only pages that
\* are present, or being evicted by a thread that will take them out.
TLBCoherente ==
  fallas = {} =>
    /\ IsInjective(TLB) /\ Len(TLB) <= cantidadEntradasTLB
    /\ \A e \in Range(TLB) :
         \/ e[2] \in Presentes(e[1])
         \/ \E q \in Pids : hilo[q].fase = "quita" /\ hilo[q].victima = e

\* The ways of losing a page, by configuration. Served one at a time, requests
\* lose pages only by suspensions, absent pages in the TLB, merged headers, and,
\* under DINAMICA, frames of absent pages; and under FIJA threads that overlap
\* add only reservations of frames they saw before.
FallasConocidas ==
  LET deUno == {"suspension", "ausenteEnTLB", "cambioSinMarcar", "marcoViejo"} IN
  /\ config.grado = 1 => fallas \subseteq deUno \cup (IF FIJA THEN {} ELSE {"marcoAjeno"})
  /\ FIJA => fallas \subseteq deUno \cup {"reservaVencida"}

\* The ends of the memory, by configuration. Under FIJA it ends only if some
\* carpincho had part of its quota; without overlapping requests, only for the
\* lack of a candidate or a clock pointer beyond the last one.
CaidasConocidas ==
  caida # "no" =>
    /\ FIJA => cuotaTrunca
    /\ config.grado = 1 \/ FIJA => caida \in {"sinVictima", "punteroClock"}

\* CLOCK-M takes a page of the best class there is, by use and then by change,
\* wherever the pointer is.
Clase(c) ==
  (IF pagina[c[1]][c[2]].uso THEN 2 ELSE 0) + (IF pagina[c[1]][c[2]].modificado THEN 1 ELSE 0)
ClockElijeLaMejor ==
  [][\A p \in Pids :
       config.MMU = "CLOCK-M" /\ hilo[p].fase # "saca" /\ hilo'[p].fase = "saca" =>
         \A c \in Candidatas(p) : Clase(hilo'[p].victima) <= Clase(c)]_vars

\* A carpincho that serves a memalloc owns the frames it has reserved: what the
\* comment of reservarMarcos wants of its mutex. It is not so.
ReservaEsSuya ==
  \A p \in Pids :
    FIJA /\ hilo[p].fase = "empieza" => \A m \in Range(hilo[p].lista) : m \in MarcosDe(p)
=============================================================================
