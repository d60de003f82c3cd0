-------------------------------- MODULE Heap --------------------------------
(***************************************************************************)
(* The heap of one carpincho: the headers that memalloc and memfree write  *)
(* in its pages.                                                           *)
(*                                                                         *)
(* One thread serves the requests of a carpincho, one at a time, so a      *)
(* request is an action.  A position is a byte of the carpincho's pages,   *)
(* counted from the first one; where the pages are is the business of      *)
(* Paginacion.  Bytes that are not headers are not modelled: when the code *)
(* reads them as a header, writes outside of its page, or gives the same   *)
(* bytes twice, the heap has broken (averia) and is not followed any more. *)
(***************************************************************************)
EXTENDS Integers, FiniteSets, Sequences, Functions, FiniteSetsExt

CONSTANTS
  Configuraciones,  \* TAMANIO_PAGINA, and the sizes the carpincho asks for
  MaxPaginas        \* bound: pages of the carpincho

TAMANIO_HEAP == 9

ASSUME HeapOK ==
  /\ MaxPaginas \in Nat
  /\ \A c \in Configuraciones :
       c.tamanioPagina \in Nat /\ c.tamanioPagina > TAMANIO_HEAP /\ c.tamanios \subseteq Nat

VARIABLES
  config,
  cabeceras,    \* the headers written, by position: heapMetadata
  paginas,      \* how many pages the carpincho has
  primeraPag,   \* the id of the first one; the others follow it
  vivos,        \* the blocks given and not freed: position of the header, size
  reuso,        \* history: a hole has been given
  averia        \* how the heap has broken, or "no"

vars == <<config, cabeceras, paginas, primeraPag, vivos, reuso, averia>>

tamanioPagina == config.tamanioPagina
Techo(n) == (n + tamanioPagina - 1) \div tamanioPagina

Init ==
  /\ config \in Configuraciones
  /\ cabeceras = <<>> /\ paginas = 0 /\ primeraPag = 0
  /\ vivos = {} /\ reuso = FALSE /\ averia = "no"

\* A header that does not fit in what is left of its page.
Cortada(c) == (c % tamanioPagina) + TAMANIO_HEAP > tamanioPagina

\* The headers the code goes through from the first one.
siguiente ==
  [c \in 0..(MaxPaginas * tamanioPagina) |->
     IF c \in DOMAIN cabeceras /\ cabeceras[c].nextAlloc # -1 THEN cabeceras[c].nextAlloc ELSE c]
Cadena ==
  LET camino[k \in 0..Cardinality(DOMAIN cabeceras)] ==
        IF k = 0 THEN 0 ELSE siguiente[camino[k - 1]]
  IN Range(camino)

-----------------------------------------------------------------------------
(* memalloc: administrar_paginas, crearAllocNuevo.                         *)

\* Where the header after the block c begins. Slip: its own header does not count.
SiguienteSinCabecera(c, t) == c + t
SiguienteCabecera(c, t) == c + TAMANIO_HEAP + t

\* The first block, and the last header.
PrimerAlloc(t) ==
  /\ averia = "no" /\ paginas = 0
  /\ Techo(2 * TAMANIO_HEAP + t) <= MaxPaginas
  /\ paginas' = Techo(2 * TAMANIO_HEAP + t)
  /\ cabeceras' =
       [c \in {0, SiguienteCabecera(0, t)} |->
          IF c = 0
          THEN [isFree |-> FALSE, prevAlloc |-> -1, nextAlloc |-> SiguienteCabecera(0, t)]
          ELSE [isFree |-> TRUE, prevAlloc |-> 0, nextAlloc |-> -1]]
  /\ vivos' = {[cabecera |-> 0, tamanio |-> t]}
  /\ UNCHANGED <<config, primeraPag, reuso, averia>>

Ultima(c) == cabeceras[c].nextAlloc = -1

Cabe(c, t) ==
  LET espacio == cabeceras[c].nextAlloc - c - TAMANIO_HEAP IN
  t = espacio \/ t + TAMANIO_HEAP < espacio

\* Where the search stops: the first free header that fits, or the last one.
Hallada(t) ==
  Min({c \in Cadena : cabeceras[c].isFree /\ (Ultima(c) \/ Cabe(c, t))})

Solapa(c, t) ==
  \E b \in vivos :
    c < b.cabecera + TAMANIO_HEAP + b.tamanio /\ b.cabecera < c + TAMANIO_HEAP + t

\* A hole is given as it is, neither divided nor marked; when it is the first
\* block, the page and the offset of the answer have no value yet.
ReusaHueco(t) ==
  /\ averia = "no" /\ paginas > 0 /\ ~Ultima(Hallada(t))
  /\ vivos' = vivos \cup {[cabecera |-> Hallada(t), tamanio |-> t]}
  /\ averia' = IF Hallada(t) = 0 THEN "primerHueco"
               ELSE IF Solapa(Hallada(t), t) THEN "bloqueRepetido" ELSE "no"
  /\ reuso' = TRUE
  /\ UNCHANGED <<config, cabeceras, paginas, primeraPag>>

\* Slip: the pages are counted without the new last header.
FaltanSinCabecera(c, t) == Techo(TAMANIO_HEAP + t + c) - paginas
paginasAcrear(c, t) == Techo(2 * TAMANIO_HEAP + t + c) - paginas

\* The last header becomes the new block's, and another one goes after it.
crearAllocNuevo(t) ==
  LET c == Hallada(t)
      nueva == SiguienteCabecera(c, t)
  IN
  /\ averia = "no" /\ paginas > 0 /\ Ultima(c)
  /\ paginas + paginasAcrear(c, t) <= MaxPaginas
  /\ paginas' = paginas + paginasAcrear(c, t)
  /\ cabeceras' =
       [d \in DOMAIN cabeceras \cup {nueva} |->
          IF d = c
          THEN [isFree |-> FALSE, prevAlloc |-> cabeceras[c].prevAlloc, nextAlloc |-> nueva]
          ELSE IF d = nueva THEN [isFree |-> TRUE, prevAlloc |-> c, nextAlloc |-> -1]
          ELSE cabeceras[d]]
  /\ vivos' = vivos \cup {[cabecera |-> c, tamanio |-> t]}
  /\ UNCHANGED <<config, primeraPag, reuso, averia>>

-----------------------------------------------------------------------------
(* memfree: liberar_alloc, consolidar_allocs.                              *)

Anterior(c) == cabeceras[c].prevAlloc
Posterior(c) == cabeceras[c].nextAlloc
TieneAnterior(c) == Anterior(c) # -1
TieneSegunda(c) == ~Ultima(Posterior(c))

\* Slip: a header that follows is merged whatever it is of.
SiempreFundible(c) == TRUE
Fundible(c) == cabeceras[c].isFree

\* The headers that consolidar_allocs reads besides the freed one.
Leidas(c) ==
  {Posterior(c)} \cup (IF TieneAnterior(c) THEN {Anterior(c)} ELSE {})
                 \cup (IF TieneSegunda(c) THEN {Posterior(Posterior(c))} ELSE {})

\* The last block, after one in use: the merged header is written after its
\* place, over what the block held.
EscribeCorrido(c) == TieneAnterior(c) /\ ~Fundible(Anterior(c)) /\ ~TieneSegunda(c)

\* In the headers h, a is followed by s, and s is told that it follows q.
Enlaza(h, a, s, q) == [h EXCEPT ![a].nextAlloc = s, ![s].prevAlloc = q]

\* The headers h after block c, free now, is merged with its neighbours that
\* are free. Not merged: the first block, and the last one after a free one.
consolidar_allocs(h, c) ==
  LET a == Anterior(c)
      p == Posterior(c)
      s == Posterior(p)
  IN
  IF ~TieneAnterior(c) THEN h
  ELSE IF Fundible(a) /\ Fundible(p) /\ TieneSegunda(c) THEN Enlaza(h, a, s, a)
  ELSE IF Fundible(a) /\ ~Fundible(p) THEN Enlaza(h, a, p, a)
  ELSE IF ~Fundible(a) /\ Fundible(p) /\ TieneSegunda(c) THEN Enlaza(h, c, s, Anterior(p))
  ELSE h

\* Of the address of block c: its offset in its page.
desplazamiento(c) == (c + TAMANIO_HEAP) % tamanioPagina

\* What breaks when the block c is freed: a header that begins in the page
\* before (its address is less than a header into its page), pages whose ids
\* are not their places, a neighbour's header cut by the end of its page, and
\* the header written after its place.
Averias(c) ==
  (IF desplazamiento(c) < TAMANIO_HEAP THEN {"cabeceraCortada"} ELSE {}) \cup
  (IF primeraPag > 0 THEN {"idsCorridos"} ELSE {}) \cup
  (IF \E l \in Leidas(c) : Cortada(l) THEN {"vecinaCortada"} ELSE {}) \cup
  (IF EscribeCorrido(c) /\ Posterior(c) < c + 2 * TAMANIO_HEAP
   THEN {"cabeceraPisada"} ELSE {}) \cup
  (IF EscribeCorrido(c) /\ Cortada(c + TAMANIO_HEAP) THEN {"escribeAfuera"} ELSE {})

SeAveria(b) ==
  /\ averia = "no" /\ b \in vivos
  /\ averia' \in Averias(b.cabecera)
  /\ UNCHANGED <<config, cabeceras, paginas, primeraPag, vivos, reuso>>

liberar_alloc(b) ==
  LET c == b.cabecera IN
  /\ averia = "no" /\ b \in vivos /\ Averias(c) = {}
  /\ TieneAnterior(c) \/ TieneSegunda(c)
  /\ cabeceras' = consolidar_allocs([cabeceras EXCEPT ![c].isFree = TRUE], c)
  /\ vivos' = vivos \ {b}
  /\ UNCHANGED <<config, paginas, primeraPag, reuso, averia>>

\* The only block: all the pages go, and the counter of ids goes back by one.
LiberaTodo(b) ==
  LET c == b.cabecera IN
  /\ averia = "no" /\ b \in vivos /\ Averias(c) = {}
  /\ ~TieneAnterior(c) /\ ~TieneSegunda(c)
  /\ cabeceras' = <<>> /\ paginas' = 0
  /\ primeraPag' = primeraPag + paginas - 1
  /\ vivos' = vivos \ {b}
  /\ UNCHANGED <<config, reuso, averia>>

-----------------------------------------------------------------------------
(* memread, memwrite: leer_memoria, escribir_memoria.                      *)

\* The pieces of pages a request of tam bytes at a position goes through. When
\* it does not fit in its page, whole pages are added up until they exceed tam,
\* so the last piece may be empty.
Pieza(posicion, bytes) == [posicion |-> posicion, bytes |-> bytes]

PrimerosBytes(posicion) == tamanioPagina - (posicion % tamanioPagina)

\* Slip: the bytes of the first page are not taken off.
PaginasSinPrimera(posicion, tam) == tam \div tamanioPagina + 1
cantPaginas(posicion, tam) == (tam - PrimerosBytes(posicion)) \div tamanioPagina + 1

recorrido(posicion, tam) ==
  LET primeros == PrimerosBytes(posicion)
      n == cantPaginas(posicion, tam)
      resto == tamanioPagina - (primeros + n * tamanioPagina - tam)
      pagina == posicion \div tamanioPagina
  IN
  IF tam <= primeros THEN <<Pieza(posicion, tam)>>
  ELSE <<Pieza(posicion, primeros)>>
         \o [i \in 1..(n - 1) |-> Pieza((pagina + i) * tamanioPagina, tamanioPagina)]
         \o <<Pieza((pagina + n) * tamanioPagina, resto)>>

\* memfree, memread or memwrite of an address in a page the carpincho does not
\* have: the answer is to be an error, and the page is used all the same.
PideSinPagina ==
  /\ averia = "no"
  /\ averia' = "sinPagina"
  /\ UNCHANGED <<config, cabeceras, paginas, primeraPag, vivos, reuso>>

-----------------------------------------------------------------------------

Next ==
  \/ PideSinPagina
  \/ \E t \in config.tamanios : PrimerAlloc(t) \/ ReusaHueco(t) \/ crearAllocNuevo(t)
  \/ \E b \in vivos : SeAveria(b) \/ liberar_alloc(b) \/ LiberaTodo(b)

Spec == Init /\ [][Next]_vars

-----------------------------------------------------------------------------
(* Properties.                                                             *)

\* The state has its types: every header written begins within the pages the
\* carpincho has, and points at headers that have been written.
TypeOKHeap ==
  /\ config \in Configuraciones /\ paginas \in 0..MaxPaginas /\ primeraPag \in Nat
  /\ \A c \in DOMAIN cabeceras :
       /\ c \in 0..(paginas * tamanioPagina - 1)
       /\ cabeceras[c].isFree \in BOOLEAN
       /\ cabeceras[c].prevAlloc \in {-1} \cup DOMAIN cabeceras
       /\ cabeceras[c].nextAlloc \in {-1} \cup DOMAIN cabeceras
  /\ reuso \in BOOLEAN
  /\ averia \in {"no", "primerHueco", "bloqueRepetido", "cabeceraCortada", "idsCorridos",
                  "vecinaCortada", "cabeceraPisada", "escribeAfuera", "sinPagina"}

\* The chain is well formed whatever is asked and freed: from position 0, each
\* header is followed by one further on, as far as the only last one, which is
\* free, and the pages are just enough for it. Each header points back at the
\* one before it until a hole is given: it may be merged while it is in use, and
\* freeing it then writes old neighbours.
CadenaBienFormada ==
  averia = "no" /\ paginas > 0 =>
    /\ Cadena \subseteq DOMAIN cabeceras /\ cabeceras[0].prevAlloc = -1
    /\ \A c \in Cadena :
         IF Ultima(c)
         THEN cabeceras[c].isFree /\ paginas = Techo(c + TAMANIO_HEAP)
         ELSE Posterior(c) >= c + TAMANIO_HEAP /\ (Anterior(Posterior(c)) = c \/ reuso)

\* Until a hole is given, each block in use has a header of its own in the chain,
\* in use, and ends where the next header begins.
VivosEnCadena ==
  averia = "no" /\ ~reuso =>
    \A b \in vivos :
      /\ b.cabecera \in Cadena /\ ~cabeceras[b.cabecera].isFree
      /\ Posterior(b.cabecera) = b.cabecera + TAMANIO_HEAP + b.tamanio

\* A read or a write within a block goes through its bytes exactly, in order, and
\* through no page the carpincho does not have: the empty piece after a block
\* that ends with its page is in the page of the next header.
AccesoExacto ==
  averia = "no" =>
    \A b \in vivos : \A d \in 0..b.tamanio : \A tam \in 0..(b.tamanio - d) :
      LET posicion == b.cabecera + TAMANIO_HEAP + d
          r == recorrido(posicion, tam)
          Fin(k) == r[k].posicion + r[k].bytes
      IN /\ r[1].posicion = posicion /\ Fin(Len(r)) = posicion + tam
         /\ \A k \in 1..(Len(r) - 1) : Fin(k) = r[k + 1].posicion
         /\ \A k \in 1..Len(r) : r[k].bytes >= 0 /\ r[k].posicion \div tamanioPagina < paginas

\* When blocks with their headers are parts of a page, all multiples of a size
\* that holds two headers, no header is ever cut nor written over: the heap
\* breaks only by giving the first hole, by giving a hole that is in use, by
\* freeing after all the pages have gone once, and by addresses without a page.
Alineado ==
  \E g \in (2 * TAMANIO_HEAP)..tamanioPagina :
    tamanioPagina % g = 0 /\ \A t \in config.tamanios : (t + TAMANIO_HEAP) % g = 0
AveriasConocidas ==
  Alineado => averia \in {"no", "primerHueco", "bloqueRepetido", "idsCorridos", "sinPagina"}
=============================================================================
