---------------------------- MODULE FallasProofs ----------------------------
(***************************************************************************)
(* Which faults and which ends of the memory each configuration leaves,    *)
(* for any number of carpinchos, frames, pages, entries and requests.      *)
(*                                                                         *)
(* Both rest on a census of the frames, which holds for one request at a   *)
(* time or under FIJA: those of the list of a thread are still without     *)
(* owner, or its own, until it writes on them; those that a thread takes   *)
(* are its own under FIJA; and a carpincho has its whole quota or nothing, *)
(* with no free frame when it needs a victim, unless a quota was cut.      *)
(***************************************************************************)
EXTENDS PaginacionProofs

-----------------------------------------------------------------------------
(* The faults and the ends there can be.                                   *)

\* No thread takes a page or a frame of another: one request at a time, or FIJA.
Aislados == config.grado = 1 \/ FIJA

\* The frames of its list that a thread has not written on yet.
Resta(t) ==
  {hilo[t].lista[k] : k \in {j \in 1..Len(hilo[t].lista) : Escribiendo(t) => hilo[t].pag < j}}

\* A frame a thread may write a new page on.
Disponible(t, m) ==
  IF FIJA THEN marcos[m] = [proceso_asignado |-> t, estaLibre |-> TRUE]
  ELSE marcos[m].proceso_asignado = Nadie

\* The frame a thread takes from a victim, or has taken, or has still to mark.
EnMano(t) == hilo[t].fase \in {"quita", "asigna", "escribeEn", "ocupa"}
Toma(t) == Dentro(t) \/ EnMano(t)

\* The lists of frames: as they were seen until the reservation, its own in a
\* close, and in between frames that may be written on.
ListaBien(t) ==
  /\ IsInjective(hilo[t].lista)
  /\ t \notin EnCurso \/ hilo[t].fase \in {"agregaNuevas", "cierraLista"} => hilo[t].lista = <<>>
  /\ hilo[t].fase = "reserva" => FIJA
  /\ hilo[t].fase = "buscaMarcos" => hilo[t].pedido = "alojado"
  /\ hilo[t].fase \in {"cierraMarcos", "cierraLista", "cierraSwap"} => hilo[t].pedido = "ninguno"
  /\ Escribiendo(t) /\ hilo[t].fase \notin {"escribe", "ocupa"} =>
       hilo[t].pag >= Len(hilo[t].lista)
  /\ config.grado = 1 /\ hilo[t].fase = "reserva" => Range(hilo[t].lista) \subseteq MarcosDe(Nadie)
  /\ FIJA /\ hilo[t].fase = "cierraMarcos" => Range(hilo[t].lista) = MarcosDe(t)
  /\ Aislados /\ hilo[t].fase \notin {"reserva", "cierraMarcos"} =>
       \A m \in Resta(t) : Disponible(t, m) /\ (Toma(t) => m # hilo[t].marco)

\* What a thread uses is there.
EnUsoBien(t) ==
  Aislados =>
    /\ hilo[t].fase \in {"agrega", "usa", "copia"} => pagina[t][hilo[t].pag].presente
    /\ hilo[t].fase = "ocupa" => pagina[t][hilo[t].nuevas[hilo[t].pag]].presente

\* Under FIJA a thread takes its own pages out, its frames are its own, and
\* those that are not free have a page.
Propio(t) ==
  FIJA =>
    /\ Dentro(t) => hilo[t].victima[1] = t
    /\ Toma(t) => hilo[t].marco \in MarcosDe(t)
    /\ t \in Abiertos =>
         \A i \in PaginasDe(t) : pagina[t][i].marco \in MarcosDe(t) \cup {SinMarco}
    /\ \A m \in MarcosDe(t) : ~marcos[m].estaLibre =>
         t \in Abiertos /\ \E i \in Presentes(t) : pagina[t][i].marco = m

\* The free frames of a carpincho that are in no hands.
Libres(t) == {m \in MarcosDe(t) : marcos[m].estaLibre /\ ~(EnMano(t) /\ hilo[t].marco = m)}

\* A carpincho has its whole quota or nothing; one with a page out of the
\* memory has it full.
CuotaBien(t) ==
  FIJA /\ ~cuotaTrunca =>
    /\ MarcosDe(t) = {} \/ Cardinality(MarcosDe(t)) = marcosMaximos
    /\ punteroClock[t] < marcosMaximos
    /\ t \in Abiertos /\ tabla_de_paginas[t] # <<>> => MarcosDe(t) # {}
    /\ hilo[t].pedido = "alloc" /\ hilo[t].fase # "reserva" =>
         /\ MarcosDe(t) # {}
         /\ tabla_de_paginas[t] = <<>> => Range(hilo[t].lista) = MarcosDe(t)
    /\ hilo[t].nuevas # <<>> /\ hilo[t].fase \notin {"buscaMarcos", "agregaNuevas"} =>
         Libres(t) \subseteq Resta(t)
    /\ t \in Abiertos /\ (\E i \in PaginasDe(t) : ~pagina[t][i].presente /\ ~Pendiente(t, i)) =>
         Libres(t) = {}

\* The census: who is served, the frames without owner, and what each thread
\* has. A fault may break it, and nothing is followed after a fault.
CensoBien ==
  /\ config.grado = 1 => \A p, q \in EnCurso : p = q
  /\ \A m \in Marcos : marcos[m].proceso_asignado = Nadie => marcos[m].estaLibre
  /\ \A t \in Pids : ListaBien(t) /\ EnUsoBien(t) /\ Propio(t) /\ CuotaBien(t)

ICenso == fallas = {} => CensoBien

\* With one request at a time, the one that may start finds nobody being served.
LEMMA NadieEnCurso ==
  ASSUME NEW p, Puede(p), config.grado = 1
  PROVE  EnCurso = {}
<1>1. IsFiniteSet(EnCurso)
  <2>1. EnCurso \in SUBSET Pids
    BY DEF EnCurso
  <2>. QED BY <2>1, PaginacionOK, FS_Subset
<1>2. Cardinality(EnCurso) \in Nat /\ Cardinality(EnCurso) < 1
  BY <1>1, FS_CardinalityType DEF Puede
<1>3. Cardinality(EnCurso) = 0
  BY <1>2
<1>. QED BY <1>1, <1>3, FS_EmptySet

\* With one request at a time, a step of p does not bring a second one.
LEMMA UnoALaVez ==
  ASSUME NEW p \in Pids, \A q \in Pids \ {p} : hilo'[q] = hilo[q], config' = config,
         config.grado = 1 => \A q, r \in EnCurso : q = r,
         p \in EnCurso' => p \in EnCurso \/ Puede(p)
  PROVE  (config.grado = 1 => \A q, r \in EnCurso : q = r)'
<1>. SUFFICES ASSUME config.grado = 1, NEW q \in EnCurso', NEW r \in EnCurso' PROVE q = r
  OBVIOUS
<1>1. \A t \in EnCurso' : t = p \/ t \in EnCurso
  BY DEF EnCurso
<1>2. CASE p \in EnCurso \/ p \notin EnCurso'
  BY <1>1, <1>2
<1>3. CASE p \in EnCurso' /\ p \notin EnCurso
  BY <1>1, <1>3, NadieEnCurso
<1>. QED BY <1>2, <1>3

\* What a step of p may take from the others: under FIJA neither pages nor
\* frames, and outside of a request nothing.
Respeta(p) ==
  /\ config' = config /\ (cuotaTrunca => cuotaTrunca')
  /\ \A q \in Pids \ {p} : hilo'[q] = hilo[q] /\ tabla_de_paginas'[q] = tabla_de_paginas[q]
  /\ FIJA \/ p \notin EnCurso => \A q \in Pids \ {p}, i \in Ids :
       pagina'[q][i].presente = pagina[q][i].presente /\ pagina'[q][i].marco = pagina[q][i].marco
  /\ FIJA => \A q \in Pids \ {p} : punteroClock'[q] = punteroClock[q]
  /\ FIJA => \A m \in Marcos :
       \/ marcos'[m] = marcos[m]
       \/ {marcos[m].proceso_asignado, marcos'[m].proceso_asignado} \subseteq {p, Nadie}
  /\ p \notin EnCurso => marcos' = marcos

\* The frames of the others stay, under FIJA.
LEMMA MarcosAjenos ==
  ASSUME ITipos, NEW p \in Pids, Respeta(p), FIJA, NEW t \in Pids \ {p}
  PROVE  MarcosDe(t)' = MarcosDe(t) /\ \A m \in MarcosDe(t) : marcos'[m] = marcos[m]
<1>1. t # Nadie
  BY PaginacionOK
<1>2. \A m \in Marcos : marcos[m].proceso_asignado = t \/ marcos'[m].proceso_asignado = t =>
        marcos'[m] = marcos[m]
  BY <1>1 DEF Respeta
<1>3. \A m \in MarcosDe(t) : marcos'[m] = marcos[m]
  BY <1>2 DEF MarcosDe
<1>4. ASSUME NEW m \in Marcos
      PROVE  marcos'[m].proceso_asignado = t <=> marcos[m].proceso_asignado = t
  BY <1>2
<1>. QED BY <1>3, <1>4 DEF MarcosDe

\* The page a thread uses, and the one whose frame it has still to mark.
LEMMA EnUsoEs ==
  ASSUME ITipos, NEW t \in Pids
  PROVE  /\ hilo[t].fase \in {"agrega", "usa", "copia"} => hilo[t].pag \in Ids
         /\ hilo[t].fase = "ocupa" => hilo[t].nuevas[hilo[t].pag] \in Ids
<1>1. hilo[t].fase \in {"agrega", "usa", "copia"} => hilo[t].pag \in Ids
  BY VisitaEs DEF Visita
<1>. QED BY <1>1, SinMarcarEs

\* The other threads keep what they have to, whoever goes on.
LEMMA CensoDeOtros ==
  ASSUME ITipos, CensoBien, NEW p \in Pids, Respeta(p), NEW t \in Pids \ {p}
  PROVE  ListaBien(t)' /\ EnUsoBien(t)' /\ Propio(t)' /\ CuotaBien(t)'
<1>1. hilo'[t] = hilo[t] /\ config' = config /\ tabla_de_paginas'[t] = tabla_de_paginas[t]
  BY DEF Respeta
<1>2. /\ ListaBien(t) /\ EnUsoBien(t) /\ Propio(t) /\ CuotaBien(t)
      /\ config.grado = 1 => \A q, r \in EnCurso : q = r
  BY DEF CensoBien
<1>3. /\ Resta(t)' = Resta(t) /\ (Dentro(t)' <=> Dentro(t)) /\ (EnMano(t)' <=> EnMano(t))
      /\ (Toma(t)' <=> Toma(t)) /\ (Escribiendo(t)' <=> Escribiendo(t))
      /\ (t \in EnCurso' <=> t \in EnCurso) /\ (t \in Abiertos' <=> t \in Abiertos)
      /\ PaginasDe(t)' = PaginasDe(t) /\ PaginasDe(t) \subseteq Ids
  <2>1. (Escribiendo(t)' <=> Escribiendo(t)) /\ (Dentro(t)' <=> Dentro(t)) /\ (EnMano(t)' <=> EnMano(t))
    BY <1>1 DEF Escribiendo, Dentro, EnMano
  <2>2. Resta(t)' = Resta(t)
    BY <1>1, <2>1 DEF Resta
  <2>. QED BY <1>1, <2>1, <2>2, PaginasSon DEF Toma, EnCurso, Abiertos, PaginasDe
<1>4. \A i \in Ids : Pendiente(t, i)' <=> Pendiente(t, i)
  BY <1>1, <1>3 DEF Pendiente
<1>5. Range(hilo[t].lista) \subseteq Marcos /\ Resta(t) \subseteq Marcos
  <2>1. hilo[t].lista \in Seq(Marcos)
    BY Locales
  <2>. QED BY <2>1 DEF Range, Resta
<1>6. (FIJA' <=> FIJA) /\ (Aislados' <=> Aislados) /\ marcosMaximos' = marcosMaximos
  BY <1>1 DEF FIJA, Aislados, marcosMaximos
<1>7. CASE FIJA
  <2>1. MarcosDe(t)' = MarcosDe(t) /\ \A m \in MarcosDe(t) : marcos'[m] = marcos[m]
    BY <1>7, MarcosAjenos
  <2>2. \A i \in Ids : pagina'[t][i].presente = pagina[t][i].presente
                       /\ pagina'[t][i].marco = pagina[t][i].marco
    BY <1>7 DEF Respeta
  <2>3. Presentes(t)' = Presentes(t) /\ Presentes(t) \subseteq Ids
    BY <1>3, <2>2 DEF Presentes
  <2>4. Libres(t)' = Libres(t)
    BY <1>1, <1>3, <2>1 DEF Libres
  <2>5. ListaBien(t)'
    <3>1. config.grado = 1 /\ hilo[t].fase = "reserva" => marcos' = marcos
      <4>1. hilo[t].fase = "reserva" => t \in EnCurso
        BY DEF EnCurso
      <4>. QED BY <1>2, <4>1 DEF Respeta
    <3>2. config.grado = 1 /\ hilo[t].fase = "reserva" =>
            Range(hilo[t].lista) \subseteq MarcosDe(Nadie)'
      BY <1>2, <3>1 DEF ListaBien, MarcosDe
    <3>3. \A m \in Resta(t) : Disponible(t, m) => Disponible(t, m)'
      <4>1. TAKE m \in Resta(t)
      <4>2. HAVE Disponible(t, m)
      <4>3. marcos[m] = [proceso_asignado |-> t, estaLibre |-> TRUE]
        BY <1>7, <4>2 DEF Disponible
      <4>4. m \in MarcosDe(t)
        BY <1>5, <4>3 DEF MarcosDe
      <4>. QED BY <1>6, <1>7, <2>1, <4>3, <4>4 DEF Disponible
    <3>. QED BY <1>1, <1>2, <1>3, <1>6, <2>1, <3>2, <3>3 DEF ListaBien
  <2>6. EnUsoBien(t)'
    BY <1>1, <1>2, <1>6, <2>2, EnUsoEs DEF EnUsoBien
  <2>7. Propio(t)'
    BY <1>1, <1>2, <1>3, <1>6, <1>7, <2>1, <2>2, <2>3 DEF Propio
  <2>8. CuotaBien(t)'
    <3>1. punteroClock'[t] = punteroClock[t] /\ (cuotaTrunca => cuotaTrunca')
      BY <1>7 DEF Respeta
    <3>2. (\E i \in PaginasDe(t)' : ~pagina'[t][i].presente /\ ~Pendiente(t, i)') =>
            \E i \in PaginasDe(t) : ~pagina[t][i].presente /\ ~Pendiente(t, i)
      BY <1>3, <1>4, <2>2
    <3>. QED BY <1>1, <1>2, <1>3, <1>6, <1>7, <2>1, <2>4, <3>1, <3>2 DEF CuotaBien
  <2>. QED BY <2>5, <2>6, <2>7, <2>8
<1>8. CASE ~FIJA
  <2>1. Propio(t)' /\ CuotaBien(t)'
    BY <1>6, <1>8 DEF Propio, CuotaBien
  <2>2. CASE config.grado # 1
    BY <1>1, <1>2, <1>3, <1>6, <1>8, <2>1, <2>2 DEF ListaBien, EnUsoBien, Aislados
  <2>3. CASE config.grado = 1 /\ t \notin EnCurso
    <3>1. hilo[t].lista = <<>> /\ Resta(t) = {} /\ Range(hilo[t].lista) = {}
      BY <1>2, <2>3 DEF ListaBien, Resta, Range
    <3>2. ListaBien(t)'
      BY <1>1, <1>2, <1>3, <1>6, <1>8, <3>1 DEF ListaBien
    <3>3. hilo[t].fase \notin {"agrega", "usa", "copia", "ocupa"}
      BY <2>3 DEF EnCurso
    <3>. QED BY <1>1, <2>1, <3>2, <3>3 DEF EnUsoBien
  <2>4. CASE config.grado = 1 /\ t \in EnCurso
    <3>1. p \notin EnCurso
      BY <1>2, <2>4
    <3>2. marcos' = marcos /\ \A i \in Ids : pagina'[t][i].presente = pagina[t][i].presente
      BY <3>1 DEF Respeta
    <3>3. ListaBien(t)'
      BY <1>1, <1>2, <1>3, <1>6, <1>8, <3>2 DEF ListaBien, Disponible, MarcosDe
    <3>4. EnUsoBien(t)'
      BY <1>1, <1>2, <1>6, <3>2, EnUsoEs DEF EnUsoBien
    <3>. QED BY <2>1, <3>3, <3>4
  <2>. QED BY <2>2, <2>3, <2>4
<1>. QED BY <1>7, <1>8

\* A step of p, by what it leaves p.
LEMMA CensoPaso ==
  ASSUME ITipos, CensoBien, NEW p \in Pids, Respeta(p),
         p \in EnCurso' => p \in EnCurso \/ Puede(p),
         \A m \in Marcos : marcos'[m].proceso_asignado = Nadie => marcos'[m].estaLibre,
         ListaBien(p)', EnUsoBien(p)', Propio(p)', CuotaBien(p)'
  PROVE  CensoBien'
<1>1. (config.grado = 1 => \A q, r \in EnCurso : q = r)'
  BY UnoALaVez DEF CensoBien, Respeta
<1>2. \A t \in Pids : ListaBien(t)' /\ EnUsoBien(t)' /\ Propio(t)' /\ CuotaBien(t)'
  BY CensoDeOtros
<1>. QED BY <1>1, <1>2 DEF CensoBien

\* A step of p that takes no frame, page nor table.
Quieta(p) ==
  /\ UNCHANGED <<config, tabla_de_paginas, marcos, cuotaTrunca>>
  /\ \A q \in Pids \ {p} : hilo'[q] = hilo[q]
  /\ FIJA => \A q \in Pids :
       \/ punteroClock'[q] = punteroClock[q]
       \/ q = p /\ (cuotaTrunca \/ punteroClock'[p] < marcosMaximos)
  /\ \A q \in Pids, i \in Ids :
       pagina'[q][i].presente = pagina[q][i].presente /\ pagina'[q][i].marco = pagina[q][i].marco

\* It keeps the census if its locals do.
LEMMA CensoQuieto ==
  ASSUME ITipos, CensoBien, NEW p \in Pids, Quieta(p),
         p \in EnCurso' => p \in EnCurso \/ Puede(p), p \in Abiertos' <=> p \in Abiertos,
         ListaBien(p)', EnUsoBien(p)',
         FIJA /\ Dentro(p)' => hilo'[p].victima[1] = p,
         FIJA /\ Toma(p)' => hilo'[p].marco \in MarcosDe(p),
         FIJA /\ ~cuotaTrunca /\ hilo'[p].pedido = "alloc" /\ hilo'[p].fase # "reserva" =>
           /\ MarcosDe(p) # {}
           /\ tabla_de_paginas[p] = <<>> => Range(hilo'[p].lista) = MarcosDe(p),
         FIJA /\ ~cuotaTrunca /\ hilo'[p].nuevas # <<>>
           /\ hilo'[p].fase \notin {"buscaMarcos", "agregaNuevas"} => Libres(p)' \subseteq Resta(p)',
         FIJA => Libres(p)' \subseteq Libres(p),
         FIJA => \A i \in PaginasDe(p) : Pendiente(p, i) => Pendiente(p, i)' \/ pagina[p][i].presente
  PROVE  CensoBien'
<1>1. Respeta(p)
  BY DEF Quieta, Respeta
<1>2. (FIJA' <=> FIJA) /\ marcosMaximos' = marcosMaximos /\ \A q : MarcosDe(q)' = MarcosDe(q)
  BY DEF Quieta, FIJA, marcosMaximos, MarcosDe
<1>3. /\ PaginasDe(p)' = PaginasDe(p) /\ PaginasDe(p) \subseteq Ids
      /\ Presentes(p)' = Presentes(p) /\ Presentes(p) \subseteq Ids
  <2>1. PaginasDe(p)' = PaginasDe(p) /\ PaginasDe(p) \subseteq Ids
    BY PaginasSon DEF Quieta, PaginasDe
  <2>. QED BY <2>1 DEF Quieta, Presentes
<1>4. /\ Propio(p) /\ CuotaBien(p)
      /\ \A m \in Marcos : marcos'[m].proceso_asignado = Nadie => marcos'[m].estaLibre
  BY DEF CensoBien, Quieta
<1>5. Propio(p)'
  <2>1. \A i \in Ids : pagina'[p][i].marco = pagina[p][i].marco
    BY DEF Quieta
  <2>2. marcos' = marcos
    BY DEF Quieta
  <2>. QED BY <1>2, <1>3, <1>4, <2>1, <2>2 DEF Propio
<1>6. CuotaBien(p)'
  <2>1. \A i \in Ids : pagina'[p][i].presente = pagina[p][i].presente
    BY DEF Quieta
  <2>2. FIJA /\ (\E i \in PaginasDe(p) : ~pagina'[p][i].presente /\ ~Pendiente(p, i)') =>
          \E i \in PaginasDe(p) : ~pagina[p][i].presente /\ ~Pendiente(p, i)
    BY <1>3, <2>1
  <2>3. cuotaTrunca' = cuotaTrunca /\ tabla_de_paginas' = tabla_de_paginas
    BY DEF Quieta
  <2>4. FIJA /\ ~cuotaTrunca => punteroClock'[p] < marcosMaximos
    BY <1>4 DEF Quieta, CuotaBien
  <2>. QED BY <1>2, <1>3, <1>4, <2>2, <2>3, <2>4 DEF CuotaBien
<1>. QED BY <1>1, <1>4, <1>5, <1>6, CensoPaso

\* A thread without list has no frame left in it.
LEMMA SinLista ==
  ASSUME NEW p
  PROVE  /\ hilo[p].lista = <<>> => Resta(p) = {} /\ Range(hilo[p].lista) = {}
         /\ hilo'[p].lista = <<>> =>
              Resta(p)' = {} /\ Range(hilo'[p].lista) = {} /\ IsInjective(hilo'[p].lista)
BY DEF Resta, Range, IsInjective

\* A thread that does not write yet has its whole list.
LEMMA RestaEntera ==
  ASSUME NEW p, hilo'[p].lista \in Seq(Marcos), ~Escribiendo(p)' \/ hilo'[p].pag = 0
  PROVE  Resta(p)' = Range(hilo'[p].lista)
<1>1. \A j \in 1..Len(hilo'[p].lista) : Escribiendo(p)' => hilo'[p].pag < j
  OBVIOUS
<1>2. DOMAIN hilo'[p].lista = 1..Len(hilo'[p].lista)
  OBVIOUS
<1>. QED BY <1>1, <1>2 DEF Resta, Range

\* A thread that goes on with the same list and the same new pages.
LEMMA CensoSigue ==
  ASSUME ITipos, CensoBien, NEW p \in Pids, Quieta(p),
         hilo[p].fase \in {"recorre", "agrega", "usa", "copia", "empieza"},
         hilo'[p].fase \in {"recorre", "agrega", "usa", "falta", "escribe"},
         hilo'[p].lista = hilo[p].lista, hilo'[p].nuevas = hilo[p].nuevas,
         hilo'[p].pedido = hilo[p].pedido,
         hilo'[p].fase = "escribe" => hilo'[p].pag = 0,
         Aislados /\ hilo'[p].fase \in {"agrega", "usa"} => hilo'[p].pag \in Presentes(p)
  PROVE  CensoBien'
<1>1. /\ ListaBien(p) /\ EnUsoBien(p) /\ Propio(p) /\ CuotaBien(p)
      /\ hilo[p].lista \in Seq(Marcos)
  <2>1. hilo[p].lista \in Seq(Marcos)
    BY Locales
  <2>. QED BY <2>1 DEF CensoBien
<1>2. /\ ~Toma(p) /\ ~Toma(p)' /\ ~EnMano(p) /\ ~EnMano(p)' /\ ~Dentro(p)' /\ ~Escribiendo(p)
      /\ Escribiendo(p)' => hilo'[p].pag = 0 /\ hilo'[p].fase = "escribe"
  BY DEF Toma, EnMano, Dentro, Escribiendo
<1>3. (FIJA' <=> FIJA) /\ (Aislados' <=> Aislados) /\ \A q : MarcosDe(q)' = MarcosDe(q)
  BY DEF Quieta, FIJA, Aislados, MarcosDe
<1>4. Resta(p) = Range(hilo[p].lista) /\ Resta(p)' = Range(hilo[p].lista)
  <2>1. \A j \in 1..Len(hilo[p].lista) : Escribiendo(p) => hilo[p].pag < j
    BY <1>2
  <2>2. DOMAIN hilo[p].lista = 1..Len(hilo[p].lista)
    BY <1>1
  <2>3. Resta(p) = Range(hilo[p].lista)
    BY <2>1, <2>2 DEF Resta, Range
  <2>. QED BY <1>1, <1>2, <2>3, RestaEntera
<1>5. p \in EnCurso /\ p \in EnCurso' /\ p \in Abiertos /\ p \in Abiertos'
  BY DEF EnCurso, Abiertos
<1>6. ListaBien(p)'
  <2>1. \A m \in Resta(p) : Disponible(p, m)' <=> Disponible(p, m)
    BY <1>3 DEF Disponible, Quieta
  <2>2. Aislados => \A m \in Resta(p) : Disponible(p, m)
    BY <1>1 DEF ListaBien
  <2>3. Aislados' => \A m \in Resta(p)' : Disponible(p, m)'
    BY <1>3, <1>4, <2>1, <2>2
  <2>4. hilo'[p].fase \notin {"reserva", "buscaMarcos", "agregaNuevas", "cierraMarcos", "cierraLista",
                           "cierraSwap"}
    OBVIOUS
  <2>. QED BY <1>1, <1>2, <1>5, <2>3, <2>4 DEF ListaBien
<1>7. EnUsoBien(p)'
  <2>1. \A i \in Presentes(p) : pagina'[p][i].presente
    BY PresenteEs DEF Quieta
  <2>. QED BY <1>3, <2>1 DEF EnUsoBien
<1>8. MarcosDe(p) \subseteq Marcos /\ marcos' = marcos
  BY DEF MarcosDe, Quieta
<1>9. Libres(p)' = Libres(p)
  BY <1>2, <1>3, <1>8 DEF Libres
<1>10. FIJA => \A i \in PaginasDe(p) : Pendiente(p, i) => Pendiente(p, i)' \/ pagina[p][i].presente
  <2>1. \A i \in Ids : Pendiente(p, i)' <=> Pendiente(p, i)
    BY <1>2, MismosPendientes
  <2>. QED BY <2>1, PaginasSon
<1>11. FIJA /\ ~cuotaTrunca /\ hilo'[p].pedido = "alloc" /\ hilo'[p].fase # "reserva" =>
         /\ MarcosDe(p) # {}
         /\ tabla_de_paginas[p] = <<>> => Range(hilo'[p].lista) = MarcosDe(p)
  BY <1>1 DEF CuotaBien
<1>12. FIJA /\ ~cuotaTrunca /\ hilo'[p].nuevas # <<>>
         /\ hilo'[p].fase \notin {"buscaMarcos", "agregaNuevas"} => Libres(p)' \subseteq Resta(p)'
  BY <1>1, <1>4, <1>9 DEF CuotaBien
<1>. QED BY <1>2, <1>5, <1>6, <1>7, <1>9, <1>10, <1>11, <1>12, CensoQuieto

\* A step that goes on without a list, with no more pages to write.
LEMMA CensoSinLista ==
  ASSUME ITipos, CensoBien, NEW p \in Pids, Quieta(p),
         p \in EnCurso' => p \in EnCurso \/ Puede(p), p \in Abiertos' <=> p \in Abiertos,
         hilo[p].fase \notin {"quita", "asigna", "escribeEn", "ocupa"},
         hilo'[p].fase \notin {"reserva", "buscaMarcos", "cierraMarcos", "agrega", "usa", "copia"},
         ~Toma(p)', ~Escribiendo(p)', hilo'[p].lista = <<>>, hilo'[p].pedido # "alloc",
         hilo'[p].fase \in {"cierraLista", "cierraSwap"} => hilo'[p].pedido = "ninguno",
         hilo'[p].nuevas = <<>> \/ hilo'[p].fase = "agregaNuevas",
         \A i \in PaginasDe(p) : Pendiente(p, i) => Pendiente(p, i)' \/ pagina[p][i].presente
  PROVE  CensoBien'
<1>1. ListaBien(p)'
  BY SinLista DEF ListaBien
<1>2. EnUsoBien(p)'
  BY DEF EnUsoBien, Toma, EnMano
<1>3. Libres(p)' \subseteq Libres(p)
  <2>1. marcos' = marcos /\ MarcosDe(p)' = MarcosDe(p) /\ ~EnMano(p)
    BY DEF Quieta, MarcosDe, EnMano
  <2>. QED BY <2>1 DEF Libres
<1>. QED BY <1>1, <1>2, <1>3, CensoQuieto DEF Toma

\* Nothing is left to write before new pages are made, or after the last one.
LEMMA NadaPendiente ==
  ASSUME ITipos, NEW p \in Pids,
         \/ hilo[p].fase \in {"afuera", "libre", "agregaNuevas", "cierraLista", "cierraSwap"}
         \/ hilo[p].nuevas = <<>>
         \/ hilo[p].fase = "escribe" /\ hilo[p].pag = Len(hilo[p].nuevas)
  PROVE  \A i \in Ids : ~Pendiente(p, i)
<1>1. hilo[p].fase \in {"afuera", "libre", "cierraLista", "cierraSwap"} => hilo[p].nuevas = <<>>
  BY DEF ITipos, Forma
<1>2. CASE hilo[p].nuevas = <<>>
  BY <1>2, SinPendientes
<1>3. CASE hilo[p].fase = "agregaNuevas"
  BY <1>3 DEF Pendiente
<1>4. CASE hilo[p].fase = "escribe" /\ hilo[p].pag = Len(hilo[p].nuevas)
  <2>1. hilo[p].nuevas \in Seq(Ids) /\ Len(hilo[p].nuevas) \in Nat /\ Escribiendo(p)
    <3>1. hilo[p].nuevas \in Seq(Ids)
      BY Locales
    <3>. QED BY <1>4, <3>1 DEF Escribiendo
  <2>. QED BY <1>4, <2>1 DEF Pendiente
<1>. QED BY <1>1, <1>2, <1>3, <1>4

\* The steps that leave p without list.
LEMMA CensoControl ==
  ASSUME ITipos, CensoBien, NEW p \in Pids,
         \/ Inicializa(p) \/ \E pedido \in {"acceso", "libera"} : Pide(p, pedido)
         \/ Termina(p) \/ TerminaDeEscribir(p) \/ AgregaNueva(p) \/ CierraLista(p) \/ CierraSwap(p)
  PROVE  CensoBien'
<1>1. /\ p \notin EnCurso \/ hilo[p].fase \in {"agregaNuevas", "cierraLista"} => hilo[p].lista = <<>>
      /\ hilo[p].fase \in {"cierraLista", "cierraSwap"} => hilo[p].pedido = "ninguno"
  BY DEF CensoBien, ListaBien
<1>2. ASSUME \A q \in Pids \ {p} : hilo'[q] = hilo[q]
      PROVE  Quieta(p)
  BY <1>2 DEF Quieta, Inicializa, Pide, Termina, TerminaDeEscribir, AgregaNueva, CierraLista, CierraSwap
<1>3. CASE Inicializa(p)
  <2>1. Pasa(p, "libre", hilo[p].pedido, hilo[p].pag, hilo[p].vuelve, hilo[p].victima, hilo[p].marco,
             hilo[p].lista, hilo[p].nuevas, hilo[p].visitadas)
    BY <1>3, TiposInicializa
  <2>2. /\ hilo[p].fase = "afuera" /\ hilo'[p].fase = "libre" /\ Quieta(p)
        /\ hilo'[p].lista = hilo[p].lista /\ hilo'[p].nuevas = hilo[p].nuevas
        /\ hilo'[p].pedido = hilo[p].pedido
    BY <1>2, <1>3, <2>1 DEF Pasa, Inicializa
  <2>3. p \notin EnCurso /\ p \notin EnCurso' /\ p \in Abiertos /\ p \in Abiertos'
    BY <2>2 DEF EnCurso, Abiertos
  <2>4. hilo[p].nuevas = <<>> /\ hilo[p].pedido = "ninguno"
    BY <2>2 DEF ITipos, Forma
  <2>5. ~Toma(p)' /\ ~Escribiendo(p)'
    BY <2>2 DEF Toma, Dentro, EnMano, Escribiendo
  <2>. QED BY <1>1, <2>2, <2>3, <2>4, <2>5, NadaPendiente, PaginasSon, CensoSinLista
<1>4. ASSUME NEW pedido \in {"acceso", "libera"}, Pide(p, pedido) PROVE CensoBien'
  <2>1. Pasa(p, "recorre", pedido, hilo[p].pag, hilo[p].vuelve, hilo[p].victima, hilo[p].marco,
             hilo[p].lista, hilo[p].nuevas, hilo[p].visitadas)
    BY <1>4, TiposPide
  <2>2. /\ hilo[p].fase = "libre" /\ hilo'[p].fase = "recorre" /\ Quieta(p) /\ Puede(p)
        /\ hilo'[p].lista = hilo[p].lista /\ hilo'[p].nuevas = hilo[p].nuevas
        /\ hilo'[p].pedido = pedido
    BY <1>2, <1>4, <2>1 DEF Pasa, Pide, Puede
  <2>3. p \notin EnCurso /\ p \in Abiertos /\ p \in Abiertos'
    BY <2>2 DEF EnCurso, Abiertos
  <2>4. hilo[p].nuevas = <<>>
    BY <2>2 DEF ITipos, Forma
  <2>5. ~Toma(p)' /\ ~Escribiendo(p)'
    BY <2>2 DEF Toma, Dentro, EnMano, Escribiendo
  <2>. QED BY <1>1, <2>2, <2>3, <2>4, <2>5, NadaPendiente, PaginasSon, CensoSinLista
<1>5. CASE Termina(p)
  <2>1. Pasa(p, "libre", "ninguno", 0, "", <<>>, SinMarco, <<>>, <<>>, {})
    BY <1>5, TiposTermina
  <2>2. /\ hilo[p].fase = "recorre" /\ hilo'[p].fase = "libre" /\ Quieta(p)
        /\ hilo'[p].lista = <<>> /\ hilo'[p].nuevas = <<>> /\ hilo[p].nuevas = <<>>
        /\ hilo'[p].pedido = "ninguno"
    BY <1>2, <1>5, <2>1 DEF Pasa, Termina
  <2>3. p \notin EnCurso' /\ p \in Abiertos /\ p \in Abiertos'
    BY <2>2 DEF EnCurso, Abiertos
  <2>4. ~Toma(p)' /\ ~Escribiendo(p)'
    BY <2>2 DEF Toma, Dentro, EnMano, Escribiendo
  <2>. QED BY <2>2, <2>3, <2>4, NadaPendiente, PaginasSon, CensoSinLista
<1>6. CASE TerminaDeEscribir(p)
  <2>1. /\ hilo[p].fase = "escribe" /\ hilo[p].pag = Len(hilo[p].nuevas)
        /\ hilo'[p].fase = "agregaNuevas" /\ Quieta(p)
        /\ hilo'[p].lista = <<>> /\ hilo'[p].pedido = hilo[p].pedido
    BY <1>2, <1>6, TiposTerminaDeEscribir DEF Pasa, TerminaDeEscribir
  <2>2. p \in EnCurso /\ p \in Abiertos /\ p \in Abiertos'
    BY <2>1 DEF EnCurso, Abiertos
  <2>3. hilo[p].pedido = "alojado"
    <3>1. Escribiendo(p)
      BY <2>1 DEF Escribiendo
    <3>. QED BY <3>1 DEF ITipos, Forma
  <2>4. ~Toma(p)' /\ ~Escribiendo(p)'
    BY <2>1 DEF Toma, Dentro, EnMano, Escribiendo
  <2>. QED BY <2>1, <2>2, <2>3, <2>4, NadaPendiente, PaginasSon, CensoSinLista
<1>7. CASE AgregaNueva(p)
  <2>1. /\ hilo[p].fase = "agregaNuevas" /\ hilo'[p].fase \in {"recorre", "agregaNuevas"} /\ Quieta(p)
        /\ hilo'[p].lista = hilo[p].lista /\ hilo'[p].pedido = hilo[p].pedido
        /\ hilo'[p].nuevas = Tail(hilo[p].nuevas)
    BY <1>2, <1>7, TiposAgregaNueva DEF Pasa, AgregaNueva
  <2>2. p \in EnCurso /\ p \in Abiertos /\ p \in Abiertos'
    BY <2>1 DEF EnCurso, Abiertos
  <2>3. hilo[p].pedido = "alojado" /\ hilo[p].nuevas # <<>> /\ hilo[p].nuevas \in Seq(Ids)
    <3>1. hilo[p].nuevas \in Seq(Ids)
      BY Locales
    <3>. QED BY <2>1, <3>1 DEF ITipos, Forma
  <2>4. ~Toma(p)' /\ ~Escribiendo(p)'
    BY <2>1 DEF Toma, Dentro, EnMano, Escribiendo
  <2>5. hilo'[p].nuevas = <<>> \/ hilo'[p].fase = "agregaNuevas"
    <3>1. CASE Len(hilo[p].nuevas) = 1
      <4>1. IsInjective(hilo[p].nuevas)
        BY DEF ITipos, Forma
      <4>. QED BY <2>1, <2>3, <3>1, <4>1, ColaEs
    <3>2. CASE Len(hilo[p].nuevas) # 1
      <4>1. hilo \in [Pids -> TipoDeHilo] /\ "agregaNuevas" \in Fases
        BY DEF ITipos, TiposPag, Fases
      <4>2. hilo' = [hilo EXCEPT ![p].nuevas = Tail(hilo[p].nuevas), ![p].fase = "agregaNuevas"]
        BY <1>7, <3>2 DEF AgregaNueva
      <4>3. hilo'[p].fase = "agregaNuevas"
        BY <4>1, <4>2 DEF TipoDeHilo
      <4>. QED BY <4>3
    <3>. QED BY <3>1, <3>2
  <2>. QED BY <1>1, <2>1, <2>2, <2>3, <2>4, <2>5, NadaPendiente, PaginasSon, CensoSinLista
<1>8. CASE CierraLista(p) \/ CierraSwap(p)
  <2>1. /\ hilo[p].fase \in {"cierraLista", "cierraSwap"}
        /\ hilo'[p].fase \in {"cierraSwap", "cierraTLB"} /\ Quieta(p)
        /\ hilo'[p].lista = hilo[p].lista /\ hilo'[p].nuevas = hilo[p].nuevas
        /\ hilo'[p].pedido = hilo[p].pedido
    BY <1>2, <1>8, TiposCierraLista, TiposCierraSwap DEF Pasa, CierraLista, CierraSwap
  <2>2. p \notin EnCurso' /\ p \notin Abiertos /\ p \notin Abiertos'
    BY <2>1 DEF EnCurso, Abiertos
  <2>3. hilo[p].nuevas = <<>> /\ hilo[p].lista = <<>>
    <3>1. hilo[p].fase = "cierraSwap" => p \notin EnCurso
      BY DEF EnCurso
    <3>. QED BY <1>1, <2>1, <3>1 DEF ITipos, Forma
  <2>4. ~Toma(p)' /\ ~Escribiendo(p)'
    BY <2>1 DEF Toma, Dentro, EnMano, Escribiendo
  <2>. QED BY <1>1, <2>1, <2>2, <2>3, <2>4, NadaPendiente, PaginasSon, CensoSinLista
<1>. QED BY <1>3, <1>4, <1>5, <1>6, <1>7, <1>8

\* A step that looks for frames: the list is as they are now.
LEMMA CensoBusca ==
  ASSUME ITipos, CensoBien, NEW p \in Pids,
         PideAlloc(p) \/ buscarMarcosLibres(p) \/ BuscaMarcosALiberar(p)
  PROVE  CensoBien'
<1>1. /\ Quieta(p) /\ hilo'[p].nuevas = hilo[p].nuevas
      /\ hilo[p].fase \in {"libre", "buscaMarcos"}
      /\ hilo'[p].fase \in {"reserva", "recorre", "cierraMarcos"}
      /\ hilo'[p].lista \in Seq(Marcos)
      /\ hilo[p].fase = "libre" => Puede(p)
  <2>1. CASE PideAlloc(p)
    BY <2>1, TiposPideAlloc, ZenonT(60) DEF Pasa, PideAlloc, Puede, Quieta
  <2>2. CASE buscarMarcosLibres(p)
    BY <2>2, TiposBuscarMarcosLibres DEF Pasa, buscarMarcosLibres, Quieta
  <2>3. CASE BuscaMarcosALiberar(p)
    BY <2>3, TiposBuscaMarcosALiberar DEF Pasa, BuscaMarcosALiberar, Puede, Quieta
  <2>. QED BY <2>1, <2>2, <2>3
<1>2. /\ p \in EnCurso' => p \in EnCurso \/ Puede(p)
      /\ p \in Abiertos /\ p \in Abiertos' /\ p \in EnCurso'
  BY <1>1 DEF EnCurso, Abiertos
<1>3. /\ ~Toma(p) /\ ~Toma(p)' /\ ~EnMano(p) /\ ~EnMano(p)' /\ ~Dentro(p)' /\ ~Escribiendo(p)
      /\ ~Escribiendo(p)'
  BY <1>1 DEF Toma, EnMano, Dentro, Escribiendo
<1>4. /\ (FIJA' <=> FIJA) /\ (Aislados' <=> Aislados) /\ \A q : MarcosDe(q)' = MarcosDe(q)
      /\ config' = config /\ marcos' = marcos
  BY <1>1 DEF Quieta, FIJA, Aislados, MarcosDe
<1>5. Resta(p)' = Range(hilo'[p].lista)
  BY <1>1, <1>3, RestaEntera
<1>6. EnUsoBien(p)'
  BY <1>1 DEF EnUsoBien
<1>7. Libres(p)' = Libres(p) /\ MarcosDe(p) \subseteq Marcos
  BY <1>3, <1>4 DEF Libres, MarcosDe
<1>8. \A i \in PaginasDe(p) : Pendiente(p, i) => Pendiente(p, i)'
  BY <1>1, <1>3, MismosPendientes, PaginasSon
<1>9. ListaBien(p) /\ CuotaBien(p) /\ hilo \in [Pids -> TipoDeHilo]
  BY DEF CensoBien, ITipos, TiposPag
<1>10. CASE PideAlloc(p)
  <2>1. PICK l : l = IF FIJA \/ tabla_de_paginas[p] = <<>> THEN EnOrden(MarcosDe(Nadie)) ELSE <<>>
    OBVIOUS
  <2>2. PICK f : f = IF FIJA THEN "reserva" ELSE "recorre"
    OBVIOUS
  <2>3. hilo' = [hilo EXCEPT ![p].fase = f, ![p].pedido = "alloc", ![p].lista = l]
    BY <1>10, <2>1, <2>2 DEF PideAlloc
  <2>4. hilo'[p].fase = f /\ hilo'[p].pedido = "alloc" /\ hilo'[p].lista = l
    BY <1>9, <2>3 DEF TipoDeHilo
  <2>5. hilo[p].nuevas = <<>>
    BY <1>10 DEF PideAlloc, Puede, ITipos, Forma
  <2>6. MarcosDe(Nadie) \in SUBSET Marcos
    BY DEF MarcosDe
  <2>7. IsInjective(l) /\ Range(l) \subseteq MarcosDe(Nadie)
    <3>1. CASE FIJA \/ tabla_de_paginas[p] = <<>>
      BY <2>1, <2>6, <3>1, ListasDeMarcos
    <3>2. CASE ~(FIJA \/ tabla_de_paginas[p] = <<>>)
      BY <2>1, <3>2 DEF IsInjective, Range
    <3>. QED BY <3>1, <3>2
  <2>8. ListaBien(p)'
    <3>1. ~FIJA => \A m \in Range(l) : Disponible(p, m)'
      BY <1>4, <2>7 DEF Disponible, MarcosDe
    <3>. QED BY <1>2, <1>3, <1>4, <1>5, <2>2, <2>4, <2>7, <3>1 DEF ListaBien
  <2>. QED BY <1>1, <1>2, <1>3, <1>6, <1>7, <1>8, <2>2, <2>4, <2>5, <2>8, CensoQuieto
<1>11. CASE buscarMarcosLibres(p)
  <2>1. PICK S : S = {m \in MarcosDe(p) : marcos[m].estaLibre}
    OBVIOUS
  <2>2. PICK l : l = EnOrden(IF FIJA THEN S ELSE MarcosDe(Nadie))
    OBVIOUS
  <2>3. hilo' = [hilo EXCEPT ![p].fase = "recorre", ![p].lista = l]
    BY <1>11, <2>1, <2>2 DEF buscarMarcosLibres
  <2>4. hilo'[p].fase = "recorre" /\ hilo'[p].pedido = hilo[p].pedido /\ hilo'[p].lista = l
    BY <1>9, <2>3 DEF TipoDeHilo
  <2>5. hilo[p].fase = "buscaMarcos" /\ hilo[p].pedido = "alojado"
    BY <1>9, <1>11 DEF buscarMarcosLibres, ListaBien
  <2>6. MarcosDe(Nadie) \in SUBSET Marcos /\ S \in SUBSET Marcos
    BY <2>1 DEF MarcosDe
  <2>7. IsInjective(l) /\ Range(l) = IF FIJA THEN S ELSE MarcosDe(Nadie)
    BY <2>2, <2>6, ListasDeMarcos
  <2>8. ListaBien(p)'
    <3>1. \A m \in Range(l) : Disponible(p, m)'
      <4>1. TAKE m \in Range(l)
      <4>2. CASE FIJA
        <5>1. m \in Marcos /\ marcos[m].proceso_asignado = p /\ marcos[m].estaLibre
          BY <2>1, <2>7, <4>2 DEF MarcosDe
        <5>2. marcos[m] \in [proceso_asignado : Pids \cup {Nadie}, estaLibre : BOOLEAN]
          BY <5>1 DEF ITipos, TiposPag
        <5>3. marcos[m] = [proceso_asignado |-> p, estaLibre |-> TRUE]
          BY <5>1, <5>2
        <5>. QED BY <1>4, <4>2, <5>3 DEF Disponible
      <4>3. CASE ~FIJA
        BY <1>4, <2>7, <4>3 DEF Disponible, MarcosDe
      <4>. QED BY <4>2, <4>3
    <3>. QED BY <1>2, <1>3, <1>4, <1>5, <2>4, <2>7, <3>1 DEF ListaBien
  <2>9. FIJA => Libres(p)' \subseteq Resta(p)'
    BY <1>5, <1>7, <2>1, <2>4, <2>7 DEF Libres
  <2>. QED BY <1>1, <1>2, <1>3, <1>6, <1>7, <1>8, <2>4, <2>5, <2>8, <2>9, CensoQuieto
<1>12. CASE BuscaMarcosALiberar(p)
  <2>1. PICK l : l = EnOrden(MarcosDe(p))
    OBVIOUS
  <2>3. hilo' = [hilo EXCEPT ![p].fase = "cierraMarcos", ![p].lista = l]
    BY <1>12, <2>1 DEF BuscaMarcosALiberar
  <2>4. hilo'[p].fase = "cierraMarcos" /\ hilo'[p].pedido = hilo[p].pedido /\ hilo'[p].lista = l
    BY <1>9, <2>3 DEF TipoDeHilo
  <2>5. hilo[p].nuevas = <<>> /\ hilo[p].pedido = "ninguno"
    BY <1>12 DEF BuscaMarcosALiberar, Puede, ITipos, Forma
  <2>6. MarcosDe(p) \in SUBSET Marcos
    BY DEF MarcosDe
  <2>7. IsInjective(l) /\ Range(l) = MarcosDe(p)
    BY <2>1, <2>6, ListasDeMarcos
  <2>8. ListaBien(p)'
    BY <1>2, <1>3, <1>4, <2>4, <2>5, <2>7 DEF ListaBien
  <2>. QED BY <1>1, <1>2, <1>3, <1>6, <1>7, <1>8, <2>4, <2>5, <2>8, CensoQuieto
<1>. QED BY <1>10, <1>11, <1>12

\* A thread that evicts a page of p, which p may be using, is that of p.
LEMMA Seguras ==
  ASSUME ITipos, MarcosBien, CensoBien, Aislados, NEW p \in Pids, p \in EnCurso,
         NEW t \in Pids, Dentro(t), NEW i, hilo[t].victima = <<p, i>>
  PROVE  t = p
<1>1. t \in EnCurso
  BY DEF Dentro, EnCurso
<1>. QED BY <1>1 DEF CensoBien, Propio, Aislados

\* The page that is looked for is there, unless it faults.
LEMMA CensoRecorre ==
  ASSUME ITipos, MarcosBien, CensoBien, NEW p \in Pids, fallas' = {},
         \/ \E i \in Ids : Accede(p, i)
         \/ AgregaATLB(p) \/ Usa(p) \/ CopiaPagina(p) \/ EmpiezaAEscribir(p)
  PROVE  CensoBien'
<1>1. ListaBien(p) /\ EnUsoBien(p) /\ pagina \in [Pids -> [Ids -> TipoDePagina]]
  BY DEF CensoBien, ITipos, TiposPag
<1>2. hilo[p].fase \in {"agrega", "usa", "copia"} => hilo[p].pag \in PaginasDe(p)
  BY VisitaEs DEF Visita
<1>3. ASSUME NEW i \in Ids, Accede(p, i) PROVE CensoBien'
  <2>1. PICK f \in {"usa", "agrega", "falta"} :
          Pasa(p, f, hilo[p].pedido, i, hilo[p].vuelve, hilo[p].victima, hilo[p].marco,
               hilo[p].lista, hilo[p].nuevas, hilo[p].visitadas)
    BY <1>3, TiposAccede
  <2>2. hilo' = [hilo EXCEPT ![p].pag = i,
          ![p].fase = IF \E k \in 1..Len(TLB) : TLB[k] = <<p, i>> THEN "usa"
                      ELSE IF pagina[p][i].presente THEN "agrega" ELSE "falta"]
    BY <1>3 DEF Accede
  <2>3. hilo'[p].fase = IF \E k \in 1..Len(TLB) : TLB[k] = <<p, i>> THEN "usa"
                        ELSE IF pagina[p][i].presente THEN "agrega" ELSE "falta"
    <3>1. hilo \in [Pids -> TipoDeHilo]
      BY DEF ITipos, TiposPag
    <3>. QED BY <2>2, <3>1 DEF TipoDeHilo
  <2>4. (\E k \in 1..Len(TLB) : TLB[k] = <<p, i>>) => pagina[p][i].presente
    BY <1>3 DEF Accede
  <2>5. i \in PaginasDe(p)
    BY <1>3 DEF Accede
  <2>6. hilo'[p].fase # "falta" => i \in Presentes(p)
    BY <2>3, <2>4, <2>5 DEF Presentes
  <2>7. Quieta(p)
    BY <1>3, <2>1 DEF Accede, Pasa, Quieta
  <2>. QED BY <1>3, <2>1, <2>6, <2>7, CensoSigue DEF Pasa, Accede
<1>4. CASE AgregaATLB(p)
  <2>1. Pasa(p, "usa", hilo[p].pedido, hilo[p].pag, hilo[p].vuelve, hilo[p].victima, hilo[p].marco,
             hilo[p].lista, hilo[p].nuevas, hilo[p].visitadas)
    BY <1>4, TiposAgregaATLB
  <2>2. Quieta(p) /\ hilo[p].fase = "agrega"
    BY <1>4, <2>1 DEF AgregaATLB, Pasa, Quieta
  <2>3. Aislados => hilo[p].pag \in Presentes(p)
    BY <1>1, <1>2, <2>2 DEF EnUsoBien, Presentes
  <2>. QED BY <2>1, <2>2, <2>3, CensoSigue DEF Pasa
<1>5. CASE Usa(p)
  <2>1. PICK v \in SUBSET Ids :
          Pasa(p, "recorre", hilo[p].pedido, hilo[p].pag, hilo[p].vuelve, hilo[p].victima,
               hilo[p].marco, hilo[p].lista, hilo[p].nuevas, v)
    BY <1>5, TiposUsa
  <2>2. PICK i \in Ids, x \in TipoDePagina :
          /\ PaginaCambia(p, i, x)
          /\ x.presente = pagina[p][i].presente /\ x.marco = pagina[p][i].marco
    BY <1>5, FotoUsa
  <2>3. \A q \in Pids, j \in Ids :
          pagina'[q][j].presente = pagina[q][j].presente /\ pagina'[q][j].marco = pagina[q][j].marco
    <3>1. TAKE q \in Pids, j \in Ids
    <3>2. CASE q = p /\ j = i
      BY <2>2, <3>2 DEF PaginaCambia
    <3>3. CASE q # p \/ j # i
      BY <2>2, <3>3 DEF PaginaCambia
    <3>. QED BY <3>2, <3>3
  <2>4. Quieta(p) /\ hilo[p].fase = "usa"
    BY <1>5, <2>1, <2>3 DEF Usa, Pasa, Quieta
  <2>. QED BY <2>1, <2>4, CensoSigue DEF Pasa
<1>6. CASE CopiaPagina(p)
  <2>1. Pasa(p, "agrega", hilo[p].pedido, hilo[p].pag, hilo[p].vuelve, hilo[p].victima, hilo[p].marco,
             hilo[p].lista, hilo[p].nuevas, hilo[p].visitadas)
    BY <1>6, TiposCopiaPagina
  <2>2. Quieta(p) /\ hilo[p].fase = "copia"
    BY <1>6, <2>1 DEF CopiaPagina, Pasa, Quieta
  <2>3. Aislados => hilo[p].pag \in Presentes(p)
    BY <1>1, <1>2, <2>2 DEF EnUsoBien, Presentes
  <2>. QED BY <2>1, <2>2, <2>3, CensoSigue DEF Pasa
<1>7. CASE EmpiezaAEscribir(p)
  <2>1. Pasa(p, "escribe", hilo[p].pedido, 0, hilo[p].vuelve, hilo[p].victima, hilo[p].marco,
             hilo[p].lista, hilo[p].nuevas, hilo[p].visitadas)
    BY <1>7, TiposEmpiezaAEscribir
  <2>2. Quieta(p) /\ hilo[p].fase \in {"empieza", "recorre"}
    BY <1>7, <2>1 DEF EmpiezaAEscribir, Pasa, Quieta
  <2>. QED BY <2>1, <2>2, CensoSigue DEF Pasa
<1>. QED BY <1>3, <1>4, <1>5, <1>6, <1>7

\* Under FIJA, a thread that takes a frame from a page has no free one.
LEMMA SinLibres ==
  ASSUME ITipos, MarcosBien, CensoBien, NEW p \in Pids, FIJA, ~cuotaTrunca, p \in Abiertos,
         Falta(p) \/ (Escribiendo(p) /\ hilo[p].pag >= Len(hilo[p].lista))
  PROVE  Libres(p) = {} /\ tabla_de_paginas[p] # <<>>
<1>1. CuotaBien(p) /\ Forma(p) /\ Ausentes(p)
  BY DEF CensoBien, ITipos, MarcosBien
<1>2. PaginasDe(p) # {} => tabla_de_paginas[p] # <<>>
  BY DEF PaginasDe, Range
<1>3. CASE Falta(p)
  <2>1. hilo[p].pag \in PaginasDe(p) \ Range(hilo[p].nuevas)
    BY <1>3, VisitaEs DEF Visita
  <2>2. ~Pendiente(p, hilo[p].pag)
    BY <2>1 DEF Pendiente, Range
  <2>3. ~pagina[p][hilo[p].pag].presente
    BY <1>1, <1>3 DEF Ausentes
  <2>. QED BY <1>1, <1>2, <2>1, <2>2, <2>3 DEF CuotaBien
<1>4. CASE Escribiendo(p) /\ hilo[p].pag >= Len(hilo[p].lista)
  <2>1. hilo[p].nuevas # <<>> /\ Range(hilo[p].nuevas) \subseteq PaginasDe(p)
    BY <1>1, <1>4 DEF Forma
  <2>2. hilo[p].nuevas \in Seq(Ids) /\ hilo[p].lista \in Seq(Marcos) /\ hilo[p].pag \in Nat
    BY Locales
  <2>3. Range(hilo[p].nuevas) # {}
    <3>1. 1 \in DOMAIN hilo[p].nuevas
      BY <2>1, <2>2
    <3>. QED BY <3>1 DEF Range
  <2>4. Resta(p) = {}
    <3>1. Len(hilo[p].lista) \in Nat
      BY <2>2
    <3>. QED BY <1>4, <2>2, <3>1 DEF Resta
  <2>5. hilo[p].fase \notin {"buscaMarcos", "agregaNuevas"}
    BY <1>4 DEF Escribiendo, Dentro
  <2>6. Libres(p) \subseteq {}
    BY <1>1, <2>1, <2>4, <2>5 DEF CuotaBien
  <2>. QED BY <1>2, <2>1, <2>3, <2>6
<1>. QED BY <1>3, <1>4

\* Under FIJA, a thread that needs a frame has its quota full of present pages.
LEMMA CandidatasLlenas ==
  ASSUME ITipos, MarcosBien, CensoBien, NEW p \in Pids, FIJA, ~cuotaTrunca, NecesitaMarco(p)
  PROVE  Cardinality(Candidatas(p)) = marcosMaximos
<1>1. /\ hilo[p].fase \in {"falta", "escribe"} /\ ~EnMano(p) /\ p \in Abiertos
      /\ Falta(p) \/ (Escribiendo(p) /\ hilo[p].pag >= Len(hilo[p].lista))
  BY DEF NecesitaMarco, EnMano, Abiertos, Falta, Escribiendo
<1>2. CuotaBien(p) /\ Propio(p)
  BY DEF CensoBien
<1>4. Libres(p) = {} /\ tabla_de_paginas[p] # <<>>
  BY <1>1, SinLibres
<1>5. Cardinality(MarcosDe(p)) = marcosMaximos
  BY <1>1, <1>2, <1>4 DEF CuotaBien
<1>6. \A m \in MarcosDe(p) : ~marcos[m].estaLibre
  BY <1>1, <1>4 DEF Libres
<1>7. PICK f : f = [c \in Candidatas(p) |-> MarcoDe(c)]
  OBVIOUS
<1>8. \A c \in Candidatas(p) : c[1] = p /\ c[2] \in Presentes(p) /\ c = <<p, c[2]>>
  <2>1. TAKE c \in Candidatas(p)
  <2>2. c \in Pids \X Ids /\ c[2] \in Presentes(c[1]) /\ c[1] = p
    BY CandidatasSon
  <2>. QED BY <2>2
<1>9. ASSUME NEW c \in Candidatas(p) PROVE f[c] \in MarcosDe(p) /\ f[c] = pagina[p][c[2]].marco
  <2>1. /\ Ocupa(p, c[2]) /\ pagina[p][c[2]].marco \in Marcos
        /\ ~SinMarcar(p, c[2])
    BY <1>1, <1>8, PresenteEs DEF MarcosBien, SinMarcar
  <2>. QED BY <1>7, <1>8, <2>1 DEF MarcoDe, Ocupa, MarcosDe
<1>10. ASSUME NEW c \in Candidatas(p), NEW d \in Candidatas(p), f[c] = f[d] PROVE c = d
  <2>1. Ocupa(p, c[2]) /\ d[2] \in Presentes(p) /\ pagina[p][d[2]].marco = pagina[p][c[2]].marco
    BY <1>1, <1>8, <1>9, <1>10 DEF MarcosBien
  <2>2. d[2] = c[2]
    BY <2>1 DEF Ocupa
  <2>. QED BY <1>8, <2>2
<1>11. ASSUME NEW m \in MarcosDe(p) PROVE \E c \in Candidatas(p) : f[c] = m
  <2>1. PICK i \in Presentes(p) : pagina[p][i].marco = m
    BY <1>2, <1>6 DEF Propio
  <2>2. i \in Ids
    BY PresenteEs
  <2>3. <<p, i>> \in Candidatas(p)
    BY <2>2 DEF Candidatas
  <2>. QED BY <1>9, <2>1, <2>3
<1>12. f \in Bijection(Candidatas(p), MarcosDe(p))
  <2>1. f \in [Candidatas(p) -> MarcosDe(p)]
    BY <1>7, <1>9
  <2>. QED BY <1>10, <1>11, <2>1 DEF Bijection, Injection, Surjection, IsInjective
<1>. QED BY <1>5, <1>12, CandidatasFinitas, FS_Bijection DEF ExistsBijection

\* Under FIJA a replacement moves its own pointer, to within the pages there are.
LEMMA PunteroElige ==
  ASSUME ITipos, NEW p \in Pids, FIJA, EligeVictimaLRU(p) \/ EligeVictimaClock(p)
  PROVE  \A q \in Pids :
           \/ punteroClock'[q] = punteroClock[q]
           \/ q = p /\ punteroClock'[p] < Cardinality(Candidatas(p))
<1>1. CASE EligeVictimaLRU(p)
  BY <1>1 DEF EligeVictimaLRU
<1>2. CASE EligeVictimaClock(p)
  <2>1. PICK desde \in Nat : desde = punteroClock[p]
    BY DEF ITipos, TiposPag
  <2>2. PICK cs \in Ordenadas(p) :
          /\ desde < Len(cs)
          /\ punteroClock' = [punteroClock EXCEPT ![p] = (desde + 1) % Len(cs)]
    BY <1>2, <2>1 DEF EligeVictimaClock, Puntero, PunteroTras
  <2>3. PICK n \in Nat : n = Cardinality(Candidatas(p)) /\ n = Len(cs)
    BY CandidatasFinitas, EnumeraEs DEF Ordenadas
  <2>4. PICK x \in Nat : x = (desde + 1) % n /\ x < n
    <3>1. desde + 1 \in Int /\ n > 0
      BY <2>2, <2>3
    <3>. QED BY <2>3, <3>1
  <2>. QED BY <2>2, <2>3, <2>4 DEF ITipos, TiposPag
<1>. QED BY <1>1, <1>2

\* A victim is chosen: its frame is not one of the list.
LEMMA CensoElige ==
  ASSUME ITipos, MarcosBien, CensoBien, NEW p \in Pids,
         EligeVictimaLRU(p) \/ EligeVictimaClock(p), fallas' = {}
  PROVE  CensoBien'
<1>1. PICK c \in Candidatas(p) :
        /\ Desaloja(p, c) /\ NecesitaMarco(p) /\ swap = Nadie
        /\ UNCHANGED <<config, carpinchos, tabla_de_paginas, contadorPag, marcos,
                       memoriaPrincipal, TLB, guardado, marcos_sem, pedidos,
                       cuotaTrunca, caida>>
        /\ pagina' \in [Pids -> [Ids -> TipoDePagina]]
        /\ punteroClock' \in [Pids \cup {Nadie} -> Nat]
        /\ \A q \in Pids, i \in Ids :
             pagina'[q][i].presente = pagina[q][i].presente /\ pagina'[q][i].marco = pagina[q][i].marco
  BY FotoElige
<1>2. Pasa(p, "saca", hilo[p].pedido, hilo[p].pag, hilo[p].fase, c, MarcoDe(c),
           hilo[p].lista, hilo[p].nuevas, hilo[p].visitadas)
  BY <1>1, TiposDesaloja
<1>3. hilo[p].fase \in {"falta", "escribe"} /\ hilo'[p].fase = "saca"
  BY <1>1, <1>2 DEF NecesitaMarco, Pasa
<1>4. Quieta(p)
  <2>1. FIJA => \A q \in Pids :
          \/ punteroClock'[q] = punteroClock[q]
          \/ q = p /\ (cuotaTrunca \/ punteroClock'[p] < marcosMaximos)
    BY <1>1, PunteroElige, CandidatasLlenas
  <2>. QED BY <1>1, <1>2, <2>1 DEF Quieta, Pasa
<1>5. p \in EnCurso /\ p \in EnCurso' /\ p \in Abiertos /\ p \in Abiertos'
  BY <1>3 DEF EnCurso, Abiertos
<1>6. /\ ~Toma(p) /\ Toma(p)' /\ ~EnMano(p) /\ ~EnMano(p)' /\ Dentro(p)'
      /\ Escribiendo(p)' <=> Escribiendo(p)
      /\ Escribiendo(p) <=> hilo[p].fase = "escribe"
      /\ hilo'[p].pag = hilo[p].pag /\ hilo'[p].lista = hilo[p].lista
      /\ hilo'[p].nuevas = hilo[p].nuevas /\ hilo'[p].pedido = hilo[p].pedido
      /\ hilo'[p].marco = MarcoDe(c) /\ hilo'[p].victima = c
  BY <1>2, <1>3 DEF Toma, EnMano, Dentro, Escribiendo, Pasa
<1>7. /\ (FIJA' <=> FIJA) /\ (Aislados' <=> Aislados) /\ \A q : MarcosDe(q)' = MarcosDe(q)
      /\ Resta(p)' = Resta(p)
  BY <1>1, <1>6 DEF FIJA, Aislados, MarcosDe, Resta
<1>8. /\ ListaBien(p) /\ CuotaBien(p)
  BY DEF CensoBien
<1>9. /\ c[1] \in Pids /\ c[2] \in Presentes(c[1]) /\ (FIJA => c[1] = p)
      /\ MarcoDe(c) \in Marcos /\ c[1] \in Abiertos
  <2>1. /\ c \in Pids \X Ids /\ c[1] \in carpinchos /\ c[2] \in Presentes(c[1])
        /\ (FIJA => c[1] = p) /\ MarcoDe(c) \in Marcos
    BY <1>1, CandidatasSon
  <2>2. hilo[c[1]].fase # "cierraLista"
    BY <1>1 DEF Desaloja
  <2>3. hilo[c[1]].fase \notin {"cierraSwap", "cierraTLB"}
    BY <2>1 DEF ITipos, Forma
  <2>. QED BY <2>1, <2>2, <2>3 DEF Abiertos
<1>10. Aislados => marcos[MarcoDe(c)] = [proceso_asignado |-> c[1], estaLibre |-> FALSE]
  <2>. SUFFICES ASSUME Aislados
                PROVE  marcos[MarcoDe(c)] = [proceso_asignado |-> c[1], estaLibre |-> FALSE]
    OBVIOUS
  <2>1. PICK q \in Pids : q = c[1]
    BY <1>9
  <2>2. PICK i : i = c[2]
    OBVIOUS
  <2>3. hilo[q].fase # "ocupa"
    <3>1. hilo[q].fase = "ocupa" => q \in EnCurso
      BY DEF EnCurso
    <3>. QED BY <1>3, <1>5, <1>9, <2>1, <3>1 DEF Aislados, CensoBien
  <2>4. Ocupa(q, i) /\ ~SinMarcar(q, i)
    BY <1>9, <2>1, <2>2, <2>3 DEF MarcosBien, SinMarcar
  <2>. QED BY <2>1, <2>2, <2>4 DEF Ocupa, MarcoDe
<1>11. Aislados => \A m \in Resta(p) : Disponible(p, m) => Disponible(p, m)' /\ m # MarcoDe(c)
  <2>1. c[1] # Nadie
    BY <1>9, PaginacionOK
  <2>. QED BY <1>1, <1>7, <1>10, <2>1 DEF Disponible
<1>12. ListaBien(p)'
  <2>1. hilo[p].fase \notin {"reserva", "cierraMarcos"}
    BY <1>3
  <2>2. Escribiendo(p)' => hilo'[p].pag >= Len(hilo'[p].lista)
    BY <1>1, <1>3, <1>6 DEF NecesitaMarco
  <2>. QED BY <1>3, <1>5, <1>6, <1>7, <1>8, <1>11, <2>1, <2>2 DEF ListaBien
<1>13. EnUsoBien(p)'
  BY <1>3 DEF EnUsoBien
<1>14. Libres(p)' = Libres(p)
  BY <1>1, <1>6, <1>7 DEF Libres, MarcosDe
<1>15. \A i \in Ids : Pendiente(p, i)' <=> Pendiente(p, i)
  BY <1>3, <1>6, MismosPendientes
<1>16. FIJA => hilo'[p].marco \in MarcosDe(p)
  BY <1>6, <1>9, <1>10 DEF MarcosDe, Aislados
<1>17. FIJA /\ ~cuotaTrunca /\ hilo'[p].pedido = "alloc" =>
         /\ MarcosDe(p) # {}
         /\ tabla_de_paginas[p] = <<>> => Range(hilo'[p].lista) = MarcosDe(p)
  BY <1>3, <1>6, <1>8 DEF CuotaBien
<1>18. FIJA /\ ~cuotaTrunca /\ hilo'[p].nuevas # <<>> => Libres(p)' \subseteq Resta(p)'
  BY <1>3, <1>6, <1>7, <1>8, <1>14 DEF CuotaBien
<1>. QED BY <1>1, <1>4, <1>5, <1>6, <1>9, <1>12, <1>13, <1>14, <1>15, <1>16, <1>17, <1>18,
            PaginasSon, CensoQuieto

\* The victim has left its frame, which goes with the thread.
LEMMA CensoQuitaDeTLB ==
  ASSUME ITipos, CensoBien, NEW p \in Pids, QuitaDeTLB(p)
  PROVE  CensoBien'
<1>1. PICK f \in {"asigna", "escribeEn"} :
        /\ f = "asigna" <=> hilo[p].vuelve = "falta"
        /\ Pasa(p, f, hilo[p].pedido, hilo[p].pag, "", <<>>, hilo[p].marco, hilo[p].lista,
                hilo[p].nuevas, hilo[p].visitadas)
  BY TiposQuitaDeTLB
<1>2. hilo[p].fase = "quita" /\ hilo[p].vuelve \in {"falta", "escribe"}
  BY DentroEs DEF QuitaDeTLB, Dentro
<1>3. Quieta(p)
  BY <1>1 DEF QuitaDeTLB, Pasa, Quieta
<1>4. /\ p \in EnCurso /\ p \in EnCurso' /\ p \in Abiertos /\ p \in Abiertos'
      /\ Toma(p) /\ Toma(p)' /\ EnMano(p) /\ EnMano(p)' /\ ~Dentro(p)'
      /\ hilo'[p].pag = hilo[p].pag /\ hilo'[p].lista = hilo[p].lista
      /\ hilo'[p].nuevas = hilo[p].nuevas /\ hilo'[p].pedido = hilo[p].pedido
      /\ hilo'[p].marco = hilo[p].marco /\ hilo'[p].fase \in {"asigna", "escribeEn"}
  BY <1>1, <1>2 DEF EnCurso, Abiertos, Toma, EnMano, Dentro, Pasa
<1>5. Escribiendo(p)' <=> Escribiendo(p)
  BY <1>1, <1>2 DEF Escribiendo, Dentro, Pasa
<1>6. /\ (FIJA' <=> FIJA) /\ (Aislados' <=> Aislados) /\ \A q : MarcosDe(q)' = MarcosDe(q)
      /\ Resta(p)' = Resta(p) /\ marcos' = marcos
  BY <1>3, <1>4, <1>5 DEF Quieta, FIJA, Aislados, MarcosDe, Resta
<1>7. ListaBien(p) /\ CuotaBien(p) /\ Propio(p)
  BY DEF CensoBien
<1>8. ListaBien(p)'
  <2>1. \A m : Disponible(p, m)' <=> Disponible(p, m)
    BY <1>6 DEF Disponible
  <2>2. hilo[p].fase \notin {"reserva", "cierraMarcos", "escribe", "ocupa"}
    BY <1>2
  <2>. QED BY <1>4, <1>5, <1>6, <1>7, <2>1, <2>2 DEF ListaBien
<1>9. EnUsoBien(p)'
  BY <1>4 DEF EnUsoBien
<1>10. Libres(p)' = Libres(p)
  BY <1>4, <1>6 DEF Libres
<1>11. \A i \in Ids : Pendiente(p, i)' <=> Pendiente(p, i)
  BY <1>2, <1>4, <1>5, MismosPendientes
<1>12. FIJA /\ ~cuotaTrunca /\ hilo'[p].pedido = "alloc" =>
         /\ MarcosDe(p) # {}
         /\ tabla_de_paginas[p] = <<>> => Range(hilo'[p].lista) = MarcosDe(p)
  BY <1>2, <1>4, <1>7 DEF CuotaBien
<1>13. FIJA /\ ~cuotaTrunca /\ hilo'[p].nuevas # <<>> => Libres(p)' \subseteq Resta(p)'
  BY <1>2, <1>4, <1>6, <1>7, <1>10 DEF CuotaBien
<1>14. FIJA => hilo'[p].marco \in MarcosDe(p)
  BY <1>4, <1>7 DEF Propio
<1>. QED BY <1>3, <1>4, <1>8, <1>9, <1>10, <1>11, <1>12, <1>13, <1>14, PaginasSon, CensoQuieto

\* A victim leaves its frame, which its thread takes.
LEMMA CensoSacaVictima ==
  ASSUME ITipos, MarcosBien, CensoBien, NEW p \in Pids, SacaVictima(p)
  PROVE  CensoBien'
<1>1. Pasa(p, "quita", hilo[p].pedido, hilo[p].pag, hilo[p].vuelve, hilo[p].victima,
           hilo[p].marco, hilo[p].lista, hilo[p].nuevas, hilo[p].visitadas)
  BY TiposSacaVictima
<1>2. /\ hilo[p].fase = "saca" /\ Dentro(p) /\ Toma(p) /\ ~EnMano(p)
      /\ p \in EnCurso /\ p \in Abiertos
      /\ UNCHANGED <<config, tabla_de_paginas, punteroClock, cuotaTrunca>>
  BY DEF SacaVictima, Dentro, Toma, EnMano, EnCurso, Abiertos
<1>3. PICK q \in Pids, i \in Ids : hilo[p].victima = <<q, i>>
  BY <1>2, DentroEs
<1>4. PICK m \in Marcos : m = hilo[p].marco
  BY <1>2, DentroEs
<1>5. PICK x \in TipoDePagina :
        PaginaCambia(q, i, x) /\ x.presente = FALSE /\ x.marco = pagina[q][i].marco
  BY <1>3, FotoSaca
<1>6. MarcoCambia(m, [proceso_asignado |-> IF FIJA THEN marcos[m].proceso_asignado ELSE Nadie,
                      estaLibre |-> TRUE])
  BY <1>3, <1>4, FotoSaca
<1>7. /\ ListaBien(p) /\ CuotaBien(p) /\ Propio(p)
      /\ \A n \in Marcos : marcos[n].proceso_asignado = Nadie => marcos[n].estaLibre
  BY DEF CensoBien
<1>8. FIJA => q = p /\ marcos[m].proceso_asignado = p /\ marcos'[m].proceso_asignado = p
  BY <1>2, <1>3, <1>4, <1>6, <1>7 DEF Propio, MarcosDe, MarcoCambia
<1>9. pagina[q][i].marco = m /\ (FIJA => marcos[m].estaLibre = FALSE)
  <2>1. q \in Abiertos /\ i \in PaginasDe(q) /\ pagina[q][i].presente /\ pagina[q][i].marco = m
    BY <1>2, <1>3, <1>4 DEF MarcosBien, Victima
  <2>2. Ocupa(q, i)
    BY <2>1 DEF MarcosBien, Presentes
  <2>3. FIJA => ~SinMarcar(q, i)
    BY <1>2, <1>8 DEF SinMarcar
  <2>. QED BY <2>1, <2>2, <2>3 DEF Ocupa
<1>10. /\ hilo'[p].fase = "quita" /\ Dentro(p)' /\ Toma(p)' /\ EnMano(p)'
       /\ p \in EnCurso' /\ p \in Abiertos' /\ (Escribiendo(p)' <=> Escribiendo(p))
       /\ hilo'[p].pag = hilo[p].pag /\ hilo'[p].lista = hilo[p].lista
       /\ hilo'[p].nuevas = hilo[p].nuevas /\ hilo'[p].pedido = hilo[p].pedido
       /\ hilo'[p].marco = m /\ hilo'[p].victima = <<q, i>>
  BY <1>1, <1>2, <1>3, <1>4 DEF Dentro, Toma, EnMano, EnCurso, Abiertos, Escribiendo, Pasa
<1>11. \A r \in Pids, j \in Ids :
         /\ pagina'[r][j].marco = pagina[r][j].marco
         /\ r # q \/ j # i => pagina'[r][j] = pagina[r][j]
  BY <1>5 DEF PaginaCambia
<1>12. /\ \A n \in Marcos \ {m} : marcos'[n] = marcos[n]
       /\ marcos'[m].estaLibre = TRUE
  BY <1>6 DEF MarcoCambia
<1>13. /\ (FIJA' <=> FIJA) /\ (Aislados' <=> Aislados) /\ marcosMaximos' = marcosMaximos
       /\ Resta(p)' = Resta(p) /\ (FIJA => MarcosDe(p)' = MarcosDe(p))
  <2>1. FIJA => \A n \in Marcos : marcos'[n].proceso_asignado = p <=> marcos[n].proceso_asignado = p
    BY <1>8, <1>12
  <2>2. FIJA => MarcosDe(p)' = MarcosDe(p)
    BY <2>1 DEF MarcosDe
  <2>. QED BY <1>2, <1>10, <2>2 DEF FIJA, Aislados, marcosMaximos, Resta
<1>14. Respeta(p)
  <2>1. FIJA => \A r \in Pids \ {p}, j \in Ids : pagina'[r][j] = pagina[r][j]
    BY <1>8, <1>11
  <2>2. FIJA => \A n \in Marcos :
          \/ marcos'[n] = marcos[n]
          \/ {marcos[n].proceso_asignado, marcos'[n].proceso_asignado} \subseteq {p, Nadie}
    BY <1>8, <1>12
  <2>. QED BY <1>1, <1>2, <2>1, <2>2 DEF Respeta, Pasa
<1>15. Resta(p) \subseteq Marcos /\ PaginasDe(p) \subseteq Ids /\ PaginasDe(p)' = PaginasDe(p)
  <2>1. hilo[p].lista \in Seq(Marcos)
    BY Locales
  <2>. QED BY <1>2, <2>1, PaginasSon DEF Resta, PaginasDe
<1>16. ListaBien(p)'
  <2>1. Aislados => \A n \in Resta(p) : Disponible(p, n) /\ n # m
    BY <1>2, <1>4, <1>7 DEF ListaBien
  <2>2. \A n \in Resta(p) : Disponible(p, n) /\ n # m => Disponible(p, n)'
    BY <1>12, <1>13, <1>15 DEF Disponible
  <2>3. Escribiendo(p) => hilo[p].pag >= Len(hilo[p].lista)
    BY <1>2, <1>7 DEF ListaBien
  <2>. QED BY <1>7, <1>10, <1>13, <2>1, <2>2, <2>3 DEF ListaBien
<1>17. EnUsoBien(p)'
  BY <1>10 DEF EnUsoBien
<1>18. Propio(p)'
  <2>. SUFFICES ASSUME FIJA PROVE Propio(p)'
    BY <1>13 DEF Propio
  <2>1. \A j \in PaginasDe(p) : pagina[p][j].marco \in MarcosDe(p) \cup {SinMarco}
    BY <1>2, <1>7 DEF Propio
  <2>2. ASSUME NEW n \in MarcosDe(p), ~marcos'[n].estaLibre
        PROVE  \E j \in Presentes(p)' : pagina'[p][j].marco = n
    <3>1. n \in Marcos /\ n # m
      BY <1>12, <2>2 DEF MarcosDe
    <3>2. PICK j \in Presentes(p) : pagina[p][j].marco = n
      BY <1>7, <1>12, <2>2, <3>1 DEF Propio
    <3>3. j \in Ids /\ j \in PaginasDe(p) /\ pagina[p][j].presente
      BY PresenteEs
    <3>4. pagina'[p][j] = pagina[p][j]
      BY <1>8, <1>9, <1>11, <3>1, <3>2, <3>3
    <3>. QED BY <1>15, <3>2, <3>3, <3>4 DEF Presentes
  <2>3. m \in MarcosDe(p)
    BY <1>8 DEF MarcosDe
  <2>. QED BY <1>8, <1>10, <1>11, <1>13, <1>15, <2>1, <2>2, <2>3 DEF Propio
<1>19. CuotaBien(p)'
  <2>. SUFFICES ASSUME FIJA, ~cuotaTrunca PROVE CuotaBien(p)'
    BY <1>2, <1>13 DEF CuotaBien
  <2>1. Libres(p)' = Libres(p)
    <3>1. ASSUME NEW n \in MarcosDe(p)
          PROVE  marcos'[n].estaLibre /\ n # m <=> marcos[n].estaLibre
      <4>1. n \in Marcos
        BY DEF MarcosDe
      <4>. QED BY <1>9, <1>12, <4>1
    <3>. QED BY <1>2, <1>10, <1>13, <3>1 DEF Libres
  <2>2. Libres(p) = {}
    <3>1. Falta(p) \/ (Escribiendo(p) /\ hilo[p].pag >= Len(hilo[p].lista))
      <4>1. hilo[p].vuelve \in {"falta", "escribe"}
        BY <1>2, DentroEs
      <4>. QED BY <1>2, <1>7, <4>1 DEF Falta, Escribiendo, ListaBien
    <3>. QED BY <1>2, <3>1, SinLibres
  <2>. QED BY <1>2, <1>7, <1>10, <1>13, <2>1, <2>2 DEF CuotaBien
<1>20. \A n \in Marcos : marcos'[n].proceso_asignado = Nadie => marcos'[n].estaLibre
  BY <1>7, <1>12
<1>. QED BY <1>2, <1>14, <1>16, <1>17, <1>18, <1>19, <1>20, CensoPaso

\* A page takes a frame, which is of no other and, under FIJA, its owner's: the
\* frame is marked, or its thread has still to mark it.
LEMMA CensoOcupa ==
  ASSUME ITipos, MarcosBien, CensoBien, NEW p \in Pids, NEW i \in PaginasDe(p), NEW m \in Marcos,
         NEW x \in TipoDePagina, PaginaCambia(p, i, x), x.presente = TRUE, x.marco = m,
         \/ MarcoCambia(m, [proceso_asignado |-> p, estaLibre |-> FALSE]) /\ ~Toma(p)'
         \/ marcos' = marcos /\ EnMano(p)' /\ hilo'[p].marco = m,
         ~pagina[p][i].presente, FIJA => m \in MarcosDe(p), ~Dentro(p)',
         UNCHANGED <<config, tabla_de_paginas, punteroClock, cuotaTrunca>>,
         \A t \in Pids \ {p} : hilo'[t] = hilo[t],
         p \in EnCurso, p \in Abiertos, p \in Abiertos',
         EnMano(p) => hilo[p].marco = m, ListaBien(p)', EnUsoBien(p)',
         FIJA /\ ~cuotaTrunca /\ hilo'[p].pedido = "alloc" /\ hilo'[p].fase # "reserva" =>
           /\ MarcosDe(p) # {}
           /\ tabla_de_paginas[p] = <<>> => Range(hilo'[p].lista) = MarcosDe(p),
         FIJA /\ ~cuotaTrunca /\ hilo'[p].nuevas # <<>>
           /\ hilo'[p].fase \notin {"buscaMarcos", "agregaNuevas"} =>
             Libres(p) \ {m} \subseteq Resta(p)',
         \A j \in PaginasDe(p) \ {i} : Pendiente(p, j) => Pendiente(p, j)'
  PROVE  CensoBien'
<1>1. Propio(p) /\ CuotaBien(p) /\ \A n \in Marcos : marcos[n].proceso_asignado = Nadie => marcos[n].estaLibre
  BY DEF CensoBien
<1>2. /\ \A n \in Marcos \ {m} : marcos'[n] = marcos[n]
      /\ FIJA => marcos'[m].proceso_asignado = p
      /\ \/ marcos'[m].proceso_asignado = p /\ marcos'[m].estaLibre = FALSE
         \/ marcos'[m] = marcos[m]
      /\ marcos'[m].estaLibre => EnMano(p)' /\ hilo'[p].marco = m
  BY <1>1 DEF MarcoCambia, MarcosDe
<1>3. /\ pagina'[p][i].presente = TRUE /\ pagina'[p][i].marco = m
      /\ \A r \in Pids, j \in Ids : r # p \/ j # i => pagina'[r][j] = pagina[r][j]
  BY DEF PaginaCambia
<1>4. /\ (FIJA' <=> FIJA) /\ marcosMaximos' = marcosMaximos
      /\ FIJA => MarcosDe(p)' = MarcosDe(p)
  <2>1. FIJA => \A n \in Marcos : marcos'[n].proceso_asignado = p <=> marcos[n].proceso_asignado = p
    BY <1>2 DEF MarcosDe
  <2>. QED BY <2>1 DEF FIJA, marcosMaximos, MarcosDe
<1>5. PaginasDe(p) \subseteq Ids /\ PaginasDe(p)' = PaginasDe(p)
  BY PaginasSon DEF PaginasDe
<1>6. Respeta(p)
  <2>1. FIJA => \A n \in Marcos :
          \/ marcos'[n] = marcos[n]
          \/ {marcos[n].proceso_asignado, marcos'[n].proceso_asignado} \subseteq {p, Nadie}
    BY <1>2 DEF MarcosDe
  <2>. QED BY <1>3, <2>1 DEF Respeta
<1>7. Toma(p)' => hilo'[p].marco = m
  BY DEF Toma
<1>8. Propio(p)'
  <2>. SUFFICES ASSUME FIJA PROVE Propio(p)'
    BY <1>4 DEF Propio
  <2>1. \A j \in PaginasDe(p) : pagina'[p][j].marco \in MarcosDe(p) \cup {SinMarco}
    <3>1. TAKE j \in PaginasDe(p)
    <3>2. CASE j = i
      BY <1>3, <3>2
    <3>3. CASE j # i
      BY <1>1, <1>3, <1>5, <3>3 DEF Propio
    <3>. QED BY <3>2, <3>3
  <2>2. ASSUME NEW n \in MarcosDe(p), ~marcos'[n].estaLibre
        PROVE  \E j \in Presentes(p)' : pagina'[p][j].marco = n
    <3>1. CASE n = m
      BY <1>3, <1>5, <3>1 DEF Presentes
    <3>2. CASE n # m
      <4>1. n \in Marcos /\ ~marcos[n].estaLibre
        BY <1>2, <2>2, <3>2 DEF MarcosDe
      <4>2. PICK j \in Presentes(p) : pagina[p][j].marco = n
        BY <1>1, <4>1 DEF Propio
      <4>3. j \in Ids /\ j \in PaginasDe(p) /\ pagina[p][j].presente
        BY PresenteEs
      <4>4. pagina'[p][j] = pagina[p][j]
        BY <1>3, <4>3
      <4>. QED BY <1>5, <4>2, <4>3, <4>4 DEF Presentes
    <3>. QED BY <3>1, <3>2
  <2>. QED BY <1>4, <1>5, <1>7, <2>1, <2>2 DEF Propio
<1>9. CuotaBien(p)'
  <2>. SUFFICES ASSUME FIJA, ~cuotaTrunca PROVE CuotaBien(p)'
    BY <1>4 DEF CuotaBien
  <2>1. Libres(p)' \subseteq Libres(p) \ {m}
    <3>. SUFFICES ASSUME NEW n \in Libres(p)' PROVE n \in Libres(p) /\ n # m
      OBVIOUS
    <3>2. /\ n \in MarcosDe(p) /\ marcos'[n].estaLibre /\ n \in Marcos
          /\ ~(EnMano(p)' /\ hilo'[p].marco = n)
      BY <1>4 DEF Libres, MarcosDe
    <3>3. n # m /\ marcos[n].estaLibre
      BY <1>2, <3>2
    <3>. QED BY <3>2, <3>3 DEF Libres
  <2>2. ASSUME NEW j \in PaginasDe(p), ~pagina'[p][j].presente, ~Pendiente(p, j)'
        PROVE  ~pagina[p][j].presente /\ ~Pendiente(p, j)
    BY <1>3, <1>5, <2>2
  <2>3. (\E j \in PaginasDe(p) : ~pagina'[p][j].presente /\ ~Pendiente(p, j)') => Libres(p)' = {}
    BY <1>1, <1>5, <2>1, <2>2 DEF CuotaBien
  <2>. QED BY <1>1, <1>4, <1>5, <2>1, <2>3 DEF CuotaBien
<1>10. \A n \in Marcos : marcos'[n].proceso_asignado = Nadie => marcos'[n].estaLibre
  <2>1. p # Nadie
    BY PaginacionOK
  <2>. QED BY <1>1, <1>2, <2>1
<1>. QED BY <1>6, <1>8, <1>9, <1>10, CensoPaso

\* The page that faulted takes the frame of the victim.
LEMMA CensoAsignaMarco ==
  ASSUME ITipos, MarcosBien, CensoBien, NEW p \in Pids, AsignaMarco(p)
  PROVE  CensoBien'
<1>1. Pasa(p, "copia", hilo[p].pedido, hilo[p].pag, hilo[p].vuelve, hilo[p].victima, SinMarco,
           hilo[p].lista, hilo[p].nuevas, hilo[p].visitadas)
  BY TiposAsignaMarco
<1>2. PICK i \in Ids, m \in Marcos : i = hilo[p].pag /\ m = hilo[p].marco
  BY FotoAsigna
<1>3. PICK x : x = [presente |-> TRUE, marco |-> m, modificado |-> FALSE, uso |-> TRUE]
  OBVIOUS
<1>4. x \in TipoDePagina /\ x.presente = TRUE /\ x.marco = m
  BY <1>3 DEF TipoDePagina
<1>5. PaginaCambia(p, i, x) /\ MarcoCambia(m, [proceso_asignado |-> p, estaLibre |-> FALSE])
  BY <1>2, <1>3, FotoAsigna
<1>6. /\ hilo[p].fase = "asigna" /\ Falta(p) /\ Toma(p) /\ EnMano(p) /\ ~Escribiendo(p)
      /\ p \in EnCurso /\ p \in Abiertos
      /\ UNCHANGED <<config, tabla_de_paginas, punteroClock, cuotaTrunca>>
  BY DEF AsignaMarco, Falta, Dentro, Toma, EnMano, EnCurso, Abiertos, Escribiendo
<1>7. /\ hilo'[p].fase = "copia" /\ ~Toma(p)' /\ ~Dentro(p)' /\ ~Escribiendo(p)'
      /\ p \in EnCurso' /\ p \in Abiertos' /\ hilo'[p].lista = hilo[p].lista /\ hilo'[p].nuevas = hilo[p].nuevas
      /\ hilo'[p].pedido = hilo[p].pedido /\ hilo'[p].pag = i
  BY <1>1, <1>2 DEF Dentro, Toma, EnMano, EnCurso, Abiertos, Escribiendo, Pasa
<1>8. i \in PaginasDe(p) /\ ~pagina[p][i].presente
  BY <1>2, <1>6, VisitaEs DEF Visita, MarcosBien, Ausentes
<1>9. ListaBien(p) /\ CuotaBien(p) /\ (FIJA => m \in MarcosDe(p))
  BY <1>2, <1>6 DEF CensoBien, Propio
<1>10. Resta(p) \subseteq Marcos /\ Resta(p)' = Resta(p)
  <2>1. hilo[p].lista \in Seq(Marcos)
    BY Locales
  <2>. QED BY <1>6, <1>7, <2>1 DEF Resta
<1>11. ListaBien(p)'
  <2>1. Aislados => \A n \in Resta(p) : Disponible(p, n) /\ n # m
    BY <1>2, <1>6, <1>9 DEF ListaBien
  <2>2. \A n \in Marcos \ {m} : marcos'[n] = marcos[n]
    BY <1>5 DEF MarcoCambia
  <2>3. (FIJA' <=> FIJA) /\ (Aislados' <=> Aislados)
    BY <1>6 DEF FIJA, Aislados
  <2>4. \A n \in Resta(p) : Disponible(p, n) /\ n # m => Disponible(p, n)'
    BY <1>10, <2>2, <2>3 DEF Disponible
  <2>. QED BY <1>7, <1>9, <1>10, <2>1, <2>3, <2>4 DEF ListaBien
<1>12. EnUsoBien(p)'
  <2>1. pagina'[p][i].presente
    BY <1>4, <1>5 DEF PaginaCambia
  <2>. QED BY <1>7, <2>1 DEF EnUsoBien
<1>13. \A j \in Ids : Pendiente(p, j)' <=> Pendiente(p, j)
  BY <1>6, <1>7, MismosPendientes
<1>14. FIJA /\ ~cuotaTrunca /\ hilo'[p].pedido = "alloc" =>
         /\ MarcosDe(p) # {}
         /\ tabla_de_paginas[p] = <<>> => Range(hilo'[p].lista) = MarcosDe(p)
  BY <1>6, <1>7, <1>9 DEF CuotaBien
<1>15. FIJA /\ ~cuotaTrunca /\ hilo'[p].nuevas # <<>> => Libres(p) \subseteq Resta(p)'
  BY <1>6, <1>7, <1>9, <1>10 DEF CuotaBien
<1>. QED BY <1>1, <1>2, <1>4, <1>5, <1>6, <1>7, <1>8, <1>9, <1>11, <1>12, <1>13, <1>14, <1>15,
            PaginasSon, CensoOcupa DEF Pasa

\* The frame of a new page is among those that the list has given up to now.
LEMMA EscribeEnLaLista ==
  ASSUME ITipos, NEW p \in Pids, EscribePagina(p),
         ~FIJA => \A m \in Resta(p) : marcos[m].proceso_asignado = Nadie
  PROVE  \E j \in 1..Len(hilo[p].lista) :
           j <= hilo[p].pag + 1 /\ (FIJA => j = hilo[p].pag + 1) /\ EscribeEn(p, hilo[p].lista[j])
<1>1. PICK l \in Seq(Marcos), k \in Nat : l = hilo[p].lista /\ k = hilo[p].pag
  BY Locales
<1>2. PICK n \in Nat : n = Len(l)
  BY <1>1
<1>3. hilo[p].fase = "escribe" /\ k < n /\ k + 1 \in 1..n
  BY <1>1, <1>2 DEF EscribePagina
<1>4. CASE FIJA
  <2>1. EscribeEn(p, l[k + 1])
    BY <1>1, <1>4 DEF EscribePagina
  <2>. QED BY <1>1, <1>2, <1>3, <2>1
<1>5. CASE ~FIJA
  <2>1. PICK j : j = Min(SinDueno(l))
    OBVIOUS
  <2>2. EscribeEn(p, l[j])
    BY <1>1, <1>5, <2>1 DEF EscribePagina
  <2>3. l[k + 1] \in Resta(p)
    <3>1. Escribiendo(p)
      BY <1>3 DEF Escribiendo
    <3>. QED BY <1>1, <1>2, <1>3, <3>1 DEF Resta
  <2>4. k + 1 \in SinDueno(l) /\ SinDueno(l) \subseteq 1..n
    BY <1>2, <1>3, <1>5, <2>3 DEF SinDueno
  <2>5. SinDueno(l) \subseteq Nat /\ SinDueno(l) # {}
    BY <2>4
  <2>6. j \in SinDueno(l) /\ j <= k + 1
    BY <2>1, <2>4, <2>5, MinEs
  <2>. QED BY <1>1, <1>2, <1>5, <2>2, <2>4, <2>6
<1>. QED BY <1>4, <1>5

\* The frame of a new page leaves the list, and is free under any configuration.
LEMMA EscribeEnLibre ==
  ASSUME ITipos, MarcosBien, CensoBien, NEW p \in Pids, EscribePagina(p) \/ EscribeTrasDesalojar(p)
  PROVE  \E m \in Marcos :
           /\ EscribeEn(p, m) /\ hilo[p].fase \in {"escribe", "escribeEn"}
           /\ hilo[p].pag < Len(hilo[p].nuevas)
           /\ EnMano(p) => hilo[p].marco = m
           /\ FIJA => m \in MarcosDe(p) /\ marcos[m].estaLibre
           /\ Aislados => \A k \in 1..Len(hilo[p].lista) :
                hilo[p].pag + 1 < k => hilo[p].lista[k] # m
           /\ FIJA => \A k \in 1..Len(hilo[p].lista) :
                hilo[p].pag < k /\ hilo[p].lista[k] # m => hilo[p].pag + 1 < k
<1>1. PICK l \in Seq(Marcos), k0 \in Nat : l = hilo[p].lista /\ k0 = hilo[p].pag
  BY Locales
<1>2. PICK n \in Nat : n = Len(l)
  BY <1>1
<1>3. ListaBien(p) /\ Propio(p) /\ Transito(p)
  BY DEF CensoBien, MarcosBien
<1>4. CASE EscribeTrasDesalojar(p)
  <2>1. /\ hilo[p].fase = "escribeEn" /\ EscribeEn(p, hilo[p].marco) /\ EnMano(p) /\ Toma(p)
        /\ Escribiendo(p)
    BY <1>4 DEF EscribeTrasDesalojar, EnMano, Toma, Escribiendo
  <2>2. hilo[p].marco \in Marcos /\ k0 < Len(hilo[p].nuevas)
    BY <1>1, <2>1 DEF ITipos, Forma
  <2>3. k0 >= n
    BY <1>1, <1>2, <1>3, <2>1 DEF ListaBien
  <2>4. \A k \in 1..n : ~(k0 < k)
    BY <2>3
  <2>5. \A k \in 1..n : ~(k0 + 1 < k)
    BY <2>3
  <2>6. FIJA => hilo[p].marco \in MarcosDe(p) /\ marcos[hilo[p].marco].estaLibre
    BY <1>3, <2>1 DEF Propio, Transito, Lleva
  <2>. QED BY <1>1, <1>2, <2>1, <2>2, <2>4, <2>5, <2>6
<1>5. CASE EscribePagina(p)
  <2>1. hilo[p].fase = "escribe" /\ Escribiendo(p) /\ ~EnMano(p) /\ k0 < Len(hilo[p].nuevas) /\ k0 < n
    BY <1>1, <1>2, <1>5 DEF EscribePagina, Escribiendo, EnMano
  <2>2. Aislados => \A m \in Resta(p) : Disponible(p, m)
    BY <1>3, <2>1 DEF ListaBien
  <2>3. CASE Aislados
    <3>1. ~FIJA => \A m \in Resta(p) : marcos[m].proceso_asignado = Nadie
      BY <2>2, <2>3 DEF Disponible
    <3>2. PICK j \in 1..n : j <= k0 + 1 /\ (FIJA => j = k0 + 1) /\ EscribeEn(p, l[j])
      BY <1>1, <1>2, <1>5, <3>1, EscribeEnLaLista
    <3>3. \A a, b \in 1..n : l[a] = l[b] => a = b
      BY <1>1, <1>2, <1>3 DEF ListaBien, IsInjective
    <3>4. ASSUME NEW k \in 1..n, k0 + 1 < k PROVE l[k] # l[j]
      BY <3>2, <3>3, <3>4
    <3>5. l[j] \in Marcos
      BY <1>2, <3>2
    <3>6. FIJA => l[j] \in MarcosDe(p) /\ marcos[l[j]].estaLibre
      <4>1. HAVE FIJA
      <4>2. j = k0 + 1
        BY <3>2, <4>1
      <4>3. k0 < j
        BY <4>2
      <4>4. l[j] \in Resta(p)
        BY <1>1, <1>2, <2>1, <3>2, <4>3 DEF Resta
      <4>. QED BY <2>2, <2>3, <3>5, <4>1, <4>4 DEF Disponible, MarcosDe
    <3>7. ASSUME FIJA, NEW k \in 1..n, k0 < k, l[k] # l[j] PROVE k0 + 1 < k
      <4>1. k # k0 + 1
        BY <3>2, <3>7
      <4>. QED BY <3>7, <4>1
    <3>. QED BY <1>1, <1>2, <2>1, <3>2, <3>4, <3>5, <3>6, <3>7
  <2>4. CASE ~Aislados
    <3>1. ~FIJA
      BY <2>4 DEF Aislados
    <3>. QED BY <1>1, <1>5, <2>1, <2>4, <3>1, EscribeEnAlguno
  <2>. QED BY <2>3, <2>4
<1>. QED BY <1>4, <1>5

\* A new page is written on a free frame, which is not marked yet.
LEMMA CensoEscribe ==
  ASSUME ITipos, MarcosBien, CensoBien, NEW p \in Pids,
         EscribePagina(p) \/ EscribeTrasDesalojar(p), fallas' = {}
  PROVE  CensoBien'
<1>1. PICK m \in Marcos :
        /\ EscribeEn(p, m) /\ hilo[p].fase \in {"escribe", "escribeEn"}
        /\ hilo[p].pag < Len(hilo[p].nuevas)
        /\ EnMano(p) => hilo[p].marco = m
        /\ FIJA => m \in MarcosDe(p) /\ marcos[m].estaLibre
        /\ Aislados => \A k \in 1..Len(hilo[p].lista) :
             hilo[p].pag + 1 < k => hilo[p].lista[k] # m
        /\ FIJA => \A k \in 1..Len(hilo[p].lista) :
             hilo[p].pag < k /\ hilo[p].lista[k] # m => hilo[p].pag + 1 < k
  BY EscribeEnLibre
<1>2. marcos[m].estaLibre
  BY <1>1 DEF EscribeEn
<1>3. Pasa(p, "ocupa", hilo[p].pedido, hilo[p].pag + 1, hilo[p].vuelve, hilo[p].victima,
           m, hilo[p].lista, hilo[p].nuevas, hilo[p].visitadas)
  BY <1>1, <1>2, TiposEscribeEn
<1>4. /\ Escribiendo(p) /\ p \in EnCurso /\ p \in Abiertos
      /\ UNCHANGED <<config, tabla_de_paginas, punteroClock, cuotaTrunca, marcos>>
  BY <1>1 DEF EscribeEn, Escribiendo, EnCurso, Abiertos
<1>5. /\ hilo'[p].fase = "ocupa" /\ EnMano(p)' /\ ~Dentro(p)' /\ Escribiendo(p)'
      /\ p \in EnCurso' /\ p \in Abiertos' /\ hilo'[p].marco = m
      /\ hilo'[p].lista = hilo[p].lista /\ hilo'[p].nuevas = hilo[p].nuevas
      /\ hilo'[p].pedido = hilo[p].pedido /\ hilo'[p].pag = hilo[p].pag + 1
  BY <1>3 DEF Dentro, EnMano, EnCurso, Abiertos, Escribiendo, Pasa
<1>6. PICK i \in Ids :
        /\ i = hilo[p].nuevas[hilo[p].pag + 1] /\ hilo[p].pag + 1 \in 1..Len(hilo[p].nuevas)
        /\ \E x \in TipoDePagina : PaginaCambia(p, i, x) /\ x.presente = TRUE /\ x.marco = m
  BY <1>1, <1>2, FotoEscribe
<1>7. PICK x \in TipoDePagina : PaginaCambia(p, i, x) /\ x.presente = TRUE /\ x.marco = m
  BY <1>6
<1>8. hilo[p].lista \in Seq(Marcos) /\ hilo[p].pag \in Nat /\ hilo[p].nuevas \in Seq(Ids)
  BY Locales
<1>9. Pendiente(p, i)
  <2>1. hilo[p].pag < hilo[p].pag + 1
    BY <1>8
  <2>. QED BY <1>1, <1>6, <2>1 DEF Pendiente
<1>10. i \in PaginasDe(p) /\ ~pagina[p][i].presente
  <2>1. Range(hilo[p].nuevas) \subseteq PaginasDe(p) /\ Ausentes(p)
    BY DEF ITipos, Forma, MarcosBien
  <2>. QED BY <1>9, <2>1, NuevasSon DEF Ausentes
<1>11. ListaBien(p) /\ CuotaBien(p)
  BY DEF CensoBien
<1>12. Resta(p)' = {hilo[p].lista[k] : k \in {j \in 1..Len(hilo[p].lista) : hilo[p].pag + 1 < j}}
  BY <1>5 DEF Resta
<1>13. Resta(p) = {hilo[p].lista[k] : k \in {j \in 1..Len(hilo[p].lista) : hilo[p].pag < j}}
  BY <1>4 DEF Resta
<1>14. ListaBien(p)'
  <2>1. Aislados => \A n \in Resta(p) : Disponible(p, n)
    BY <1>1, <1>11 DEF ListaBien
  <2>2. Resta(p)' \subseteq Resta(p)
    <3>1. \A j \in 1..Len(hilo[p].lista) : hilo[p].pag + 1 < j => hilo[p].pag < j
      BY <1>8
    <3>. QED BY <1>8, <1>12, <1>13, <3>1
  <2>3. Aislados => \A n \in Resta(p)' : n # m
    BY <1>1, <1>12
  <2>4. (FIJA' <=> FIJA) /\ (Aislados' <=> Aislados)
    BY <1>4 DEF FIJA, Aislados
  <2>5. Aislados => \A n \in Resta(p)' : Disponible(p, n)' /\ n # m
    BY <1>4, <2>1, <2>2, <2>3, <2>4 DEF Disponible
  <2>. QED BY <1>5, <1>11, <2>4, <2>5 DEF ListaBien
<1>15. EnUsoBien(p)'
  <2>1. pagina'[p][i].presente
    BY <1>7 DEF PaginaCambia
  <2>. QED BY <1>5, <1>6, <2>1 DEF EnUsoBien
<1>16. ASSUME NEW j \in PaginasDe(p) \ {i}, Pendiente(p, j) PROVE Pendiente(p, j)'
  <2>1. PICK k \in 1..Len(hilo[p].nuevas) : hilo[p].nuevas[k] = j /\ hilo[p].pag < k
    BY <1>4, <1>16 DEF Pendiente
  <2>2. k \in Nat /\ k # hilo[p].pag + 1
    BY <1>6, <1>8, <2>1
  <2>3. hilo[p].pag + 1 < k
    BY <1>8, <2>1, <2>2
  <2>. QED BY <1>5, <2>1, <2>3 DEF Pendiente
<1>17. hilo'[p].pedido # "alloc"
  BY <1>4, <1>5 DEF ITipos, Forma
<1>18. FIJA /\ ~cuotaTrunca /\ hilo'[p].nuevas # <<>> => Libres(p) \ {m} \subseteq Resta(p)'
  <2>1. FIJA /\ ~cuotaTrunca /\ hilo'[p].nuevas # <<>> => Libres(p) \subseteq Resta(p)
    BY <1>1, <1>5, <1>11 DEF CuotaBien
  <2>. QED BY <1>1, <1>12, <1>13, <2>1
<1>19. \A t \in Pids \ {p} : hilo'[t] = hilo[t]
  BY <1>3 DEF Pasa
<1>. QED BY <1>1, <1>4, <1>5, <1>7, <1>10, <1>14, <1>15, <1>16, <1>17, <1>18, <1>19, CensoOcupa

\* Its frame is marked: with no overlap, the page is still there.
LEMMA CensoOcupaMarco ==
  ASSUME ITipos, MarcosBien, CensoBien, NEW p \in Pids, OcupaMarco(p)
  PROVE  CensoBien'
<1>1. /\ hilo[p].fase = "ocupa" /\ Toma(p) /\ EnMano(p) /\ Escribiendo(p)
      /\ p \in EnCurso /\ p \in Abiertos
      /\ UNCHANGED <<config, tabla_de_paginas, pagina, punteroClock, cuotaTrunca>>
  BY DEF OcupaMarco, Toma, EnMano, Escribiendo, EnCurso, Abiertos
<1>2. Pasa(p, "escribe", hilo[p].pedido, hilo[p].pag, hilo[p].vuelve, hilo[p].victima, SinMarco,
           hilo[p].lista, hilo[p].nuevas, hilo[p].visitadas)
  BY TiposOcupaMarco
<1>3. /\ hilo'[p].fase = "escribe" /\ ~Toma(p)' /\ ~EnMano(p)' /\ ~Dentro(p)' /\ Escribiendo(p)'
      /\ p \in EnCurso' /\ p \in Abiertos'
      /\ hilo'[p].lista = hilo[p].lista /\ hilo'[p].nuevas = hilo[p].nuevas
      /\ hilo'[p].pedido = hilo[p].pedido /\ hilo'[p].pag = hilo[p].pag
      /\ \A t \in Pids \ {p} : hilo'[t] = hilo[t]
  BY <1>2 DEF Toma, EnMano, Dentro, Escribiendo, EnCurso, Abiertos, Pasa
<1>4. PICK m \in Marcos :
        m = hilo[p].marco /\ MarcoCambia(m, [proceso_asignado |-> p, estaLibre |-> FALSE])
  BY FotoOcupaMarco
<1>5. /\ \A n \in Marcos \ {m} : marcos'[n] = marcos[n]
      /\ marcos'[m].proceso_asignado = p /\ marcos'[m].estaLibre = FALSE
  BY <1>4 DEF MarcoCambia
<1>6. /\ ListaBien(p) /\ EnUsoBien(p) /\ Propio(p) /\ CuotaBien(p)
      /\ \A n \in Marcos : marcos[n].proceso_asignado = Nadie => marcos[n].estaLibre
  BY DEF CensoBien
<1>7. /\ (FIJA' <=> FIJA) /\ (Aislados' <=> Aislados) /\ marcosMaximos' = marcosMaximos
      /\ PaginasDe(p)' = PaginasDe(p) /\ Presentes(p)' = Presentes(p) /\ Resta(p)' = Resta(p)
  BY <1>1, <1>3 DEF FIJA, Aislados, marcosMaximos, PaginasDe, Presentes, Resta
<1>8. FIJA => m \in MarcosDe(p) /\ MarcosDe(p)' = MarcosDe(p)
  <2>1. FIJA => m \in MarcosDe(p)
    BY <1>1, <1>4, <1>6 DEF Propio
  <2>2. FIJA => \A n \in Marcos : marcos'[n].proceso_asignado = p <=> marcos[n].proceso_asignado = p
    BY <1>5, <2>1 DEF MarcosDe
  <2>. QED BY <2>1, <2>2 DEF MarcosDe
<1>9. Respeta(p)
  <2>1. FIJA => \A n \in Marcos :
          \/ marcos'[n] = marcos[n]
          \/ {marcos[n].proceso_asignado, marcos'[n].proceso_asignado} \subseteq {p, Nadie}
    BY <1>5, <1>8 DEF MarcosDe
  <2>. QED BY <1>1, <1>3, <2>1 DEF Respeta
<1>10. ListaBien(p)'
  <2>1. Resta(p) \subseteq Marcos
    <3>1. hilo[p].lista \in Seq(Marcos)
      BY Locales
    <3>. QED BY <3>1 DEF Resta
  <2>2. Aislados => \A n \in Resta(p) : Disponible(p, n) /\ n # m
    BY <1>1, <1>4, <1>6 DEF ListaBien
  <2>3. Aislados => \A n \in Resta(p) : Disponible(p, n)'
    BY <1>5, <1>7, <2>1, <2>2 DEF Disponible
  <2>. QED BY <1>3, <1>6, <1>7, <2>3 DEF ListaBien
<1>11. EnUsoBien(p)'
  BY <1>3 DEF EnUsoBien
<1>12. Propio(p)'
  <2>. SUFFICES ASSUME FIJA PROVE Propio(p)'
    BY <1>7 DEF Propio
  <2>1. \E j \in Presentes(p) : pagina[p][j].marco = m
    <3>1. PICK j \in PaginasDe(p) : j = hilo[p].nuevas[hilo[p].pag] /\ SinMarcar(p, j)
      BY <1>1, SinMarcarEs
    <3>2. j \in Presentes(p)
      BY <1>1, <1>6, <3>1 DEF EnUsoBien, Aislados, Presentes
    <3>3. Ocupa(p, j)
      BY <1>1, <3>2 DEF MarcosBien
    <3>. QED BY <1>4, <3>1, <3>2, <3>3 DEF Ocupa
  <2>2. ASSUME NEW n \in MarcosDe(p), ~marcos'[n].estaLibre
        PROVE  \E j \in Presentes(p) : pagina[p][j].marco = n
    <3>1. CASE n = m
      BY <2>1, <3>1
    <3>2. CASE n # m
      BY <1>5, <1>6, <2>2, <3>2 DEF Propio, MarcosDe
    <3>. QED BY <3>1, <3>2
  <2>3. \A j \in PaginasDe(p) : pagina[p][j].marco \in MarcosDe(p) \cup {SinMarco}
    BY <1>1, <1>6 DEF Propio
  <2>. QED BY <1>1, <1>3, <1>7, <1>8, <2>2, <2>3 DEF Propio
<1>13. CuotaBien(p)'
  <2>. SUFFICES ASSUME FIJA, ~cuotaTrunca PROVE CuotaBien(p)'
    BY <1>1, <1>7 DEF CuotaBien
  <2>1. Libres(p)' \subseteq Libres(p)
    BY <1>4, <1>5, <1>8 DEF Libres, MarcosDe
  <2>2. \A j \in Ids : Pendiente(p, j)' <=> Pendiente(p, j)
    BY <1>1, <1>3, MismosPendientes
  <2>3. (\E j \in PaginasDe(p) : ~pagina'[p][j].presente /\ ~Pendiente(p, j)') => Libres(p)' = {}
    BY <1>1, <1>6, <2>1, <2>2, PaginasSon DEF CuotaBien
  <2>4. hilo'[p].pedido # "alloc"
    BY <1>1, <1>3 DEF ITipos, Forma
  <2>5. hilo[p].nuevas # <<>> => Libres(p)' \subseteq Resta(p)
    BY <1>1, <1>6, <2>1 DEF CuotaBien
  <2>. QED BY <1>1, <1>3, <1>6, <1>7, <1>8, <2>3, <2>4, <2>5 DEF CuotaBien
<1>14. \A n \in Marcos : marcos'[n].proceso_asignado = Nadie => marcos'[n].estaLibre
  <2>1. p # Nadie
    BY PaginacionOK
  <2>. QED BY <1>5, <1>6, <2>1
<1>. QED BY <1>1, <1>9, <1>10, <1>11, <1>12, <1>13, <1>14, CensoPaso

\* New pages are on no frame yet.
LEMMA CensoCreaPaginas ==
  ASSUME ITipos, CensoBien, NEW p \in Pids, NEW n \in 1..MaxPaginas, CreaPaginas(p, n)
  PROVE  CensoBien'
<1>1. PICK ids : ids = generadorIdsPaginas(p, n)
  OBVIOUS
<1>2. PICK f \in {"empieza", "buscaMarcos"}, l \in Seq(Marcos) :
        Pasa(p, f, "alojado", hilo[p].pag, hilo[p].vuelve, hilo[p].victima, hilo[p].marco,
             l, ids, hilo[p].visitadas)
  BY <1>1, TiposCreaPaginas
<1>3. /\ hilo[p].fase = "recorre" /\ hilo[p].pedido = "alloc" /\ hilo \in [Pids -> TipoDeHilo]
      /\ UNCHANGED <<config, marcos, punteroClock, cuotaTrunca>>
      /\ tabla_de_paginas' = [tabla_de_paginas EXCEPT ![p] = @ \o ids]
      /\ pagina' = [pagina EXCEPT ![p] =
                     [i \in Ids |-> IF i \in Range(ids) THEN pagina_nueva ELSE pagina[p][i]]]
  BY <1>1 DEF CreaPaginas, ITipos, TiposPag
<1>4. /\ hilo'[p].fase = IF tabla_de_paginas[p] = <<>> THEN "empieza" ELSE "buscaMarcos"
      /\ hilo'[p].lista = IF tabla_de_paginas[p] = <<>> THEN hilo[p].lista ELSE <<>>
  <2>1. PICK g, k : /\ g = IF tabla_de_paginas[p] = <<>> THEN "empieza" ELSE "buscaMarcos"
                    /\ k = IF tabla_de_paginas[p] = <<>> THEN hilo[p].lista ELSE <<>>
    OBVIOUS
  <2>2. hilo' = [hilo EXCEPT ![p].nuevas = ids, ![p].pedido = "alojado", ![p].fase = g, ![p].lista = k]
    BY <1>1, <2>1 DEF CreaPaginas
  <2>3. hilo'[p].fase = g /\ hilo'[p].lista = k
    BY <1>3, <2>2 DEF TipoDeHilo
  <2>. QED BY <2>1, <2>3
<1>5. /\ hilo'[p].fase \in {"empieza", "buscaMarcos"} /\ hilo'[p].pedido = "alojado"
      /\ hilo'[p].nuevas = ids /\ \A q \in Pids \ {p} : hilo'[q] = hilo[q]
  BY <1>2 DEF Pasa
<1>6. /\ ~Toma(p) /\ ~Toma(p)' /\ ~EnMano(p) /\ ~EnMano(p)' /\ ~Dentro(p)' /\ ~Escribiendo(p)
      /\ ~Escribiendo(p)' /\ p \in EnCurso /\ p \in Abiertos /\ p \in Abiertos'
  BY <1>3, <1>5 DEF Toma, EnMano, Dentro, Escribiendo, EnCurso, Abiertos
<1>7. /\ (FIJA' <=> FIJA) /\ (Aislados' <=> Aislados) /\ marcosMaximos' = marcosMaximos
      /\ \A q : MarcosDe(q)' = MarcosDe(q)
      /\ MarcosDe(p) \subseteq Marcos
  BY <1>3 DEF FIJA, Aislados, marcosMaximos, MarcosDe
<1>8. ListaBien(p) /\ Propio(p) /\ CuotaBien(p) /\ hilo[p].nuevas = <<>>
      /\ \A m \in Marcos : marcos[m].proceso_asignado = Nadie => marcos[m].estaLibre
  BY <1>3 DEF CensoBien, ITipos, Forma
<1>9. PICK u : /\ u = tabla_de_paginas[p] \o ids /\ Range(u) = PaginasDe(p) \cup Range(ids)
               /\ Range(ids) \cap PaginasDe(p) = {} /\ ids \in Seq(Ids) /\ u \in Seq(Ids)
  <2>1. contadorPag[p] + n <= MaxPaginas
    BY DEF CreaPaginas
  <2>. QED BY <1>1, <2>1, NuevasEs
<1>10. tabla_de_paginas'[p] = u /\ \A q \in Pids \ {p} : tabla_de_paginas'[q] = tabla_de_paginas[q]
  BY <1>3, <1>9 DEF ITipos, TiposPag
<1>11. /\ PaginasDe(p)' = PaginasDe(p) \cup Range(ids) /\ PaginasDe(p) \subseteq Ids
       /\ Range(ids) \subseteq Ids
  <2>1. Range(ids) \subseteq Ids
    BY <1>9 DEF Range
  <2>. QED BY <1>9, <1>10, <2>1, PaginasSon DEF PaginasDe
<1>12. /\ \A q \in Pids \ {p} : pagina'[q] = pagina[q]
       /\ \A i \in Ids \ Range(ids) : pagina'[p][i] = pagina[p][i]
       /\ \A i \in Range(ids) : pagina'[p][i].presente = FALSE /\ pagina'[p][i].marco = SinMarco
  <2>1. pagina \in [Pids -> [Ids -> TipoDePagina]]
    BY DEF ITipos, TiposPag
  <2>2. pagina_nueva.presente = FALSE /\ pagina_nueva.marco = SinMarco
    BY DEF pagina_nueva
  <2>. QED BY <1>3, <1>11, <2>1, <2>2
<1>13. Respeta(p)
  BY <1>3, <1>5, <1>6, <1>10, <1>12 DEF Respeta
<1>14. Resta(p)' = Range(hilo'[p].lista) /\ Resta(p) = Range(hilo[p].lista)
       /\ hilo[p].lista \in Seq(Marcos)
  <2>1. hilo[p].lista \in Seq(Marcos) /\ hilo'[p].lista \in Seq(Marcos)
    BY <1>2, Locales DEF Pasa
  <2>2. DOMAIN hilo[p].lista = 1..Len(hilo[p].lista)
    BY <2>1
  <2>3. Resta(p) = Range(hilo[p].lista)
    BY <1>6, <2>2 DEF Resta, Range
  <2>. QED BY <1>6, <2>1, <2>3, RestaEntera
<1>15. ListaBien(p)'
  <2>1. CASE tabla_de_paginas[p] = <<>>
    <3>1. \A m : Disponible(p, m)' <=> Disponible(p, m)
      BY <1>3, <1>7 DEF Disponible
    <3>2. Aislados => \A m \in Resta(p) : Disponible(p, m)
      BY <1>3, <1>8 DEF ListaBien
    <3>3. p \in EnCurso'
      BY <1>5 DEF EnCurso
    <3>. QED BY <1>4, <1>5, <1>6, <1>7, <1>8, <1>14, <2>1, <3>1, <3>2, <3>3 DEF ListaBien
  <2>2. CASE tabla_de_paginas[p] # <<>>
    BY <1>4, <1>5, <1>6, <2>2, SinLista DEF ListaBien
  <2>. QED BY <2>1, <2>2
<1>16. EnUsoBien(p)'
  BY <1>5 DEF EnUsoBien
<1>17. Propio(p)'
  <2>. SUFFICES ASSUME FIJA PROVE Propio(p)'
    BY <1>7 DEF Propio
  <2>1. \A i \in PaginasDe(p)' : pagina'[p][i].marco \in MarcosDe(p) \cup {SinMarco}
    BY <1>6, <1>8, <1>11, <1>12 DEF Propio
  <2>2. ASSUME NEW m \in MarcosDe(p), ~marcos'[m].estaLibre
        PROVE  \E i \in Presentes(p)' : pagina'[p][i].marco = m
    <3>1. PICK i \in Presentes(p) : pagina[p][i].marco = m
      BY <1>3, <1>8, <2>2 DEF Propio
    <3>2. i \in PaginasDe(p) /\ i \in Ids \ Range(ids) /\ pagina[p][i].presente
      BY <1>9, PresenteEs
    <3>. QED BY <1>11, <1>12, <3>1, <3>2 DEF Presentes
  <2>. QED BY <1>6, <1>7, <2>1, <2>2 DEF Propio, Toma
<1>18. CuotaBien(p)'
  <2>. SUFFICES ASSUME FIJA, ~cuotaTrunca PROVE CuotaBien(p)'
    BY <1>3, <1>7 DEF CuotaBien
  <2>1. /\ MarcosDe(p) # {} /\ Cardinality(MarcosDe(p)) = marcosMaximos
        /\ punteroClock'[p] < marcosMaximos
        /\ tabla_de_paginas[p] = <<>> => Range(hilo[p].lista) = MarcosDe(p)
    BY <1>3, <1>8 DEF CuotaBien
  <2>2. Libres(p)' = Libres(p) /\ Libres(p) \subseteq MarcosDe(p)
    BY <1>3, <1>6, <1>7 DEF Libres
  <2>3. hilo'[p].fase # "buscaMarcos" => Libres(p)' \subseteq Resta(p)'
    BY <1>4, <1>14, <2>1, <2>2
  <2>4. ASSUME NEW i \in PaginasDe(p)', ~pagina'[p][i].presente, ~Pendiente(p, i)'
        PROVE  i \in PaginasDe(p) /\ ~pagina[p][i].presente /\ ~Pendiente(p, i)
    <3>1. i \notin Range(ids)
      <4>1. \A k \in 1..Len(ids) : ids[k] # i
        BY <1>5, <1>6, <2>4 DEF Pendiente
      <4>2. DOMAIN ids = 1..Len(ids)
        BY <1>9
      <4>. QED BY <4>1, <4>2 DEF Range
    <3>2. i \in PaginasDe(p) /\ i \in Ids
      BY <1>11, <3>1
    <3>. QED BY <1>8, <1>12, <2>4, <3>1, <3>2, SinPendientes
  <2>5. (\E i \in PaginasDe(p)' : ~pagina'[p][i].presente /\ ~Pendiente(p, i)') => Libres(p)' = {}
    BY <1>6, <1>8, <2>2, <2>4 DEF CuotaBien
  <2>. QED BY <1>5, <1>7, <2>1, <2>3, <2>5 DEF CuotaBien
<1>. QED BY <1>3, <1>6, <1>8, <1>13, <1>15, <1>16, <1>17, <1>18, CensoPaso

\* A list without repetitions has as many elements as its length.
LEMMA LargoEs ==
  ASSUME NEW E, NEW s \in Seq(E), IsInjective(s)
  PROVE  IsFiniteSet(Range(s)) /\ Cardinality(Range(s)) = Len(s)
<1>1. PICK n \in Nat : n = Len(s) /\ DOMAIN s = 1..n
  OBVIOUS
<1>2. PICK f : f = [k \in 1..n |-> s[k]]
  OBVIOUS
<1>3. f \in Bijection(1..n, Range(s))
  <2>1. f \in [1..n -> Range(s)]
    BY <1>1, <1>2 DEF Range
  <2>2. \A a, b \in 1..n : f[a] = f[b] => a = b
    BY <1>1, <1>2 DEF IsInjective
  <2>3. \A e \in Range(s) : \E k \in 1..n : f[k] = e
    BY <1>1, <1>2 DEF Range
  <2>. QED BY <2>1, <2>2, <2>3 DEF Bijection, Injection, Surjection, IsInjective
<1>4. IsFiniteSet(1..n) /\ Cardinality(1..n) = n
  BY FS_Interval
<1>. QED BY <1>1, <1>3, <1>4, FS_Bijection DEF ExistsBijection

\* A quota is of frames of p, or of its list, and is no more than the whole.
LEMMA CuotaEs ==
  ASSUME ITipos, NEW p \in Pids, IsInjective(hilo[p].lista)
  PROVE  /\ Tomados(p) \in Seq(Marcos) /\ IsInjective(Tomados(p))
         /\ Cardinality(Range(Tomados(p))) = Len(Tomados(p))
         /\ Len(Tomados(p)) \in Nat /\ Len(Tomados(p)) <= marcosMaximos
         /\ IF Cardinality(MarcosDe(p)) = marcosMaximos THEN Range(Tomados(p)) = MarcosDe(p)
            ELSE Range(Tomados(p)) \subseteq Range(hilo[p].lista)
<1>1. PICK s \in Seq(Marcos) : s = hilo[p].lista
  BY Locales
<1>2. PICK n \in Nat, c \in Nat : n = Len(s) /\ c = marcosMaximos
  <2>1. Len(s) \in Nat
    OBVIOUS
  <2>2. marcosMaximos \in Nat
    BY PaginacionOK DEF ITipos, TiposPag, marcosMaximos
  <2>. QED BY <2>1, <2>2
<1>3. CASE Cardinality(MarcosDe(p)) = marcosMaximos
  <2>1. Tomados(p) = EnOrden(MarcosDe(p))
    BY <1>3 DEF Tomados
  <2>2. MarcosDe(p) \in SUBSET Marcos
    BY DEF MarcosDe
  <2>. QED BY <1>2, <1>3, <2>1, <2>2, ListasDeMarcos
<1>4. CASE Cardinality(MarcosDe(p)) # marcosMaximos
  <2>1. Min({c, n}) \in {c, n} /\ \A j \in {c, n} : Min({c, n}) <= j
    BY <1>2, MinEs
  <2>2. PICK k \in Nat : k = Min({c, n}) /\ k <= n /\ k <= c
    BY <1>2, <2>1
  <2>3. Tomados(p) = SubSeq(s, 1, k)
    BY <1>1, <1>2, <1>4, <2>2 DEF Tomados
  <2>4. SubSeq(s, 1, k) = [j \in 1..k |-> s[j]] /\ \A j \in 1..k : j \in 1..n
    <3>1. \A j \in 1..k : j \in 1..n
      BY <1>2, <2>2
    <3>2. SubSeq(s, 1, k) = [j \in 1..k |-> s[j]]
      BY <1>2, <2>2
    <3>. QED BY <3>1, <3>2
  <2>5. PICK t : t = [j \in 1..k |-> s[j]]
    OBVIOUS
  <2>6. t \in Seq(Marcos) /\ Len(t) = k /\ DOMAIN t = 1..k
    BY <1>2, <2>4, <2>5
  <2>7. \A a, b \in 1..n : s[a] = s[b] => a = b
    BY <1>1, <1>2 DEF IsInjective
  <2>8. IsInjective(t)
    BY <2>4, <2>5, <2>6, <2>7 DEF IsInjective
  <2>9. Range(t) \subseteq Range(s)
    BY <1>2, <2>4, <2>5, <2>6 DEF Range
  <2>. QED BY <1>1, <1>2, <1>4, <2>2, <2>3, <2>4, <2>5, <2>6, <2>8, <2>9, LargoEs
<1>. QED BY <1>3, <1>4

\* The frames of a quota are its carpincho's, and they are free for its first pages.
LEMMA CensoReservaFija ==
  ASSUME ITipos, CensoBien, NEW p \in Pids, ReservaFija(p), fallas' = {}
  PROVE  CensoBien'
<1>1. PICK l \in Seq(Marcos) :
        Pasa(p, "recorre", hilo[p].pedido, hilo[p].pag, hilo[p].vuelve, hilo[p].victima,
             hilo[p].marco, l, hilo[p].nuevas, hilo[p].visitadas)
  BY TiposReservaFija
<1>2. PICK T : T = Range(Tomados(p))
  OBVIOUS
<1>3. /\ hilo[p].fase = "reserva" /\ \A m \in T : marcos[m].proceso_asignado \in {Nadie, p}
      /\ marcos' = [m \in Marcos |-> IF m \in T
                      THEN [marcos[m] EXCEPT !.proceso_asignado = p] ELSE marcos[m]]
      /\ UNCHANGED <<config, tabla_de_paginas, pagina, punteroClock>>
      /\ cuotaTrunca' = (cuotaTrunca \/ Len(Tomados(p)) < marcosMaximos)
  BY <1>2 DEF ReservaFija
<1>4. hilo'[p].lista = IF tabla_de_paginas[p] = <<>> THEN Tomados(p) ELSE <<>>
  <2>1. PICK k : k = IF tabla_de_paginas[p] = <<>> THEN Tomados(p) ELSE <<>>
    OBVIOUS
  <2>2. hilo' = [hilo EXCEPT ![p].fase = "recorre", ![p].lista = k]
    BY <2>1 DEF ReservaFija
  <2>3. hilo \in [Pids -> TipoDeHilo]
    BY DEF ITipos, TiposPag
  <2>. QED BY <2>1, <2>2, <2>3 DEF TipoDeHilo
<1>5. /\ ListaBien(p) /\ Propio(p) /\ CuotaBien(p) /\ FIJA /\ hilo[p].nuevas = <<>>
      /\ \A m \in Marcos : marcos[m].proceso_asignado = Nadie => marcos[m].estaLibre
  BY <1>3 DEF CensoBien, ListaBien, ITipos, Forma
<1>6. /\ hilo'[p].fase = "recorre" /\ hilo'[p].nuevas = <<>> /\ hilo'[p].pedido = hilo[p].pedido
      /\ \A q \in Pids \ {p} : hilo'[q] = hilo[q]
  BY <1>1, <1>5 DEF Pasa
<1>7. /\ ~Toma(p)' /\ ~EnMano(p) /\ ~EnMano(p)' /\ ~Dentro(p)' /\ ~Escribiendo(p)'
      /\ p \in EnCurso /\ p \in EnCurso' /\ p \in Abiertos /\ p \in Abiertos'
  BY <1>3, <1>6 DEF Toma, EnMano, Dentro, Escribiendo, EnCurso, Abiertos
<1>8. /\ Tomados(p) \in Seq(Marcos) /\ IsInjective(Tomados(p)) /\ T \subseteq Marcos
      /\ Cardinality(T) = Len(Tomados(p))
      /\ Len(Tomados(p)) \in Nat /\ Len(Tomados(p)) <= marcosMaximos
      /\ Cardinality(MarcosDe(p)) = marcosMaximos => T = MarcosDe(p)
  <2>1. Tomados(p) \in Seq(Marcos)
    BY <1>5, CuotaEs DEF ListaBien
  <2>2. IsInjective(hilo[p].lista)
    BY <1>5 DEF ListaBien
  <2>3. T \subseteq Marcos
    BY <1>2, <2>1 DEF Range
  <2>. QED BY <1>2, <2>1, <2>2, <2>3, CuotaEs
<1>9. ASSUME NEW m \in Marcos
      PROVE  /\ marcos'[m].estaLibre = marcos[m].estaLibre
             /\ marcos'[m].proceso_asignado = IF m \in T THEN p ELSE marcos[m].proceso_asignado
             /\ marcos'[m] \in [proceso_asignado : Pids \cup {Nadie}, estaLibre : BOOLEAN]
             /\ m \notin T => marcos'[m] = marcos[m]
  <2>1. PICK w \in [proceso_asignado : Pids \cup {Nadie}, estaLibre : BOOLEAN] : w = marcos[m]
    BY DEF ITipos, TiposPag
  <2>2. CASE m \notin T
    BY <1>3, <2>1, <2>2
  <2>3. CASE m \in T
    <3>1. marcos'[m] = [w EXCEPT !.proceso_asignado = p]
      BY <1>3, <2>1, <2>3
    <3>. QED BY <2>1, <2>3, <3>1
  <2>. QED BY <2>2, <2>3
<1>10. /\ (FIJA' <=> FIJA) /\ (Aislados' <=> Aislados) /\ marcosMaximos' = marcosMaximos
       /\ MarcosDe(p)' = MarcosDe(p) \cup T
  <2>1. \A m \in Marcos : marcos'[m].proceso_asignado = p <=> m \in T \/ marcos[m].proceso_asignado = p
    BY <1>9
  <2>2. MarcosDe(p)' = MarcosDe(p) \cup T
    BY <1>8, <2>1 DEF MarcosDe
  <2>. QED BY <1>3, <2>2 DEF FIJA, Aislados, marcosMaximos
<1>11. Respeta(p)
  <2>1. \A m \in Marcos :
          \/ marcos'[m] = marcos[m]
          \/ {marcos[m].proceso_asignado, marcos'[m].proceso_asignado} \subseteq {p, Nadie}
    BY <1>3, <1>9
  <2>. QED BY <1>3, <1>6, <1>7, <2>1 DEF Respeta
<1>12. Resta(p)' = Range(hilo'[p].lista)
  <2>1. hilo'[p].lista \in Seq(Marcos)
    BY <1>1 DEF Pasa
  <2>. QED BY <1>7, <2>1, RestaEntera
<1>13. PaginasDe(p)' = PaginasDe(p) /\ Presentes(p)' = Presentes(p)
       /\ (tabla_de_paginas[p] = <<>> => PaginasDe(p) = {})
  BY <1>3 DEF PaginasDe, Presentes, Range
<1>14. ASSUME NEW m \in T, tabla_de_paginas[p] = <<>> PROVE marcos[m].estaLibre
  <2>1. Presentes(p) = {}
    BY <1>13, <1>14 DEF Presentes
  <2>2. marcos[m].proceso_asignado = p => marcos[m].estaLibre
    BY <1>5, <1>8, <2>1 DEF Propio, MarcosDe
  <2>. QED BY <1>3, <1>5, <1>8, <2>2
<1>15. ListaBien(p)'
  <2>1. \A m \in Resta(p)' : Disponible(p, m)'
    <3>1. TAKE m \in Resta(p)'
    <3>2. m \in T /\ tabla_de_paginas[p] = <<>>
      BY <1>2, <1>4, <1>12, SinLista
    <3>3. /\ marcos'[m].estaLibre = TRUE /\ marcos'[m].proceso_asignado = p
          /\ marcos'[m] \in [proceso_asignado : Pids \cup {Nadie}, estaLibre : BOOLEAN]
      <4>1. marcos[m].estaLibre = TRUE
        <5>1. marcos[m].estaLibre \in BOOLEAN
          BY <1>8, <3>2 DEF ITipos, TiposPag
        <5>. QED BY <1>14, <3>2, <5>1
      <4>. QED BY <1>8, <1>9, <3>2, <4>1
    <3>. QED BY <1>5, <1>10, <3>3 DEF Disponible
  <2>2. IsInjective(hilo'[p].lista)
    BY <1>4, <1>8, SinLista
  <2>. QED BY <1>6, <1>7, <2>1, <2>2 DEF ListaBien
<1>16. EnUsoBien(p)'
  BY <1>6 DEF EnUsoBien
<1>17. Propio(p)'
  <2>1. \A i \in PaginasDe(p) : pagina[p][i].marco \in MarcosDe(p) \cup T \cup {SinMarco}
    BY <1>5, <1>7 DEF Propio
  <2>2. ASSUME NEW m \in MarcosDe(p) \cup T, ~marcos'[m].estaLibre
        PROVE  \E i \in Presentes(p) : pagina[p][i].marco = m
    <3>1. m \in Marcos /\ ~marcos[m].estaLibre
      <4>1. m \in Marcos
        BY <1>8 DEF MarcosDe
      <4>. QED BY <1>9, <2>2, <4>1
    <3>2. marcos[m].proceso_asignado = p
      BY <1>3, <1>5, <3>1 DEF MarcosDe
    <3>. QED BY <1>5, <3>1, <3>2 DEF Propio, MarcosDe
  <2>. QED BY <1>3, <1>7, <1>10, <1>13, <2>1, <2>2 DEF Propio
<1>18. CuotaBien(p)'
  <2>. SUFFICES ASSUME ~cuotaTrunca' PROVE CuotaBien(p)'
    BY <1>10 DEF CuotaBien
  <2>1. ~cuotaTrunca /\ ~(Len(Tomados(p)) < marcosMaximos)
    BY <1>3
  <2>2. marcosMaximos \in Nat /\ marcosMaximos > 0
    BY PaginacionOK DEF ITipos, TiposPag, marcosMaximos
  <2>3. Cardinality(T) = marcosMaximos /\ T # {}
    <3>1. Cardinality(T) = marcosMaximos
      BY <1>8, <2>1, <2>2
    <3>2. T = {} => Cardinality(T) = 0
      BY FS_EmptySet, Zenon
    <3>. QED BY <2>2, <3>1, <3>2
  <2>4. MarcosDe(p) = {} \/ MarcosDe(p) = T
    BY <1>5, <1>8, <2>1 DEF CuotaBien
  <2>5. MarcosDe(p)' = T
    BY <1>10, <2>4
  <2>6. tabla_de_paginas[p] = <<>> => Range(hilo'[p].lista) = T
    BY <1>2, <1>4
  <2>7. ASSUME NEW i \in PaginasDe(p), ~pagina[p][i].presente PROVE Libres(p)' = {}
    <3>1. ~Pendiente(p, i)
      BY <1>5, <2>7, SinPendientes, PaginasSon
    <3>2. Libres(p) = {}
      BY <1>5, <1>7, <2>1, <2>7, <3>1 DEF CuotaBien
    <3>3. MarcosDe(p) = T
      BY <1>5, <1>7, <1>13, <2>1, <2>4, <2>7 DEF CuotaBien
    <3>4. \A m \in T : marcos'[m].estaLibre = marcos[m].estaLibre
      BY <1>8, <1>9
    <3>. QED BY <1>7, <2>5, <3>2, <3>3, <3>4 DEF Libres
  <2>. QED BY <1>3, <1>5, <1>6, <1>10, <1>13, <2>1, <2>3, <2>5, <2>6, <2>7 DEF CuotaBien
<1>19. \A m \in Marcos : marcos'[m].proceso_asignado = Nadie => marcos'[m].estaLibre
  <2>1. p # Nadie
    BY PaginacionOK
  <2>. QED BY <1>5, <1>9, <2>1
<1>. QED BY <1>7, <1>11, <1>15, <1>16, <1>17, <1>18, <1>19, CensoPaso

\* A step that leaves p without pages, lists nor those of its frames in S.
LEMMA CensoVacio ==
  ASSUME ITipos, CensoBien, NEW p \in Pids, NEW S,
         MarcosCambian(S, [proceso_asignado |-> Nadie, estaLibre |-> TRUE]),
         \A m \in Marcos : m \in S => marcos[m].proceso_asignado = p,
         config' = config, punteroClock' = punteroClock, cuotaTrunca => cuotaTrunca',
         \A q \in Pids \ {p} :
           hilo'[q] = hilo[q] /\ pagina'[q] = pagina[q] /\ tabla_de_paginas'[q] = tabla_de_paginas[q],
         p \in EnCurso' => p \in EnCurso, p \notin EnCurso => marcos' = marcos,
         hilo'[p].fase \in {"libre", "cierraLista", "fin"}, hilo'[p].pedido = "ninguno",
         hilo'[p].lista = <<>>, hilo'[p].nuevas = <<>>,
         p \in Abiertos' => tabla_de_paginas'[p] = <<>>,
         FIJA => \A m \in MarcosDe(p) \ S : marcos[m].estaLibre,
         FIJA /\ ~cuotaTrunca' =>
           MarcosDe(p) \ S = {} \/ Cardinality(MarcosDe(p) \ S) = marcosMaximos
  PROVE  CensoBien'
<1>1. /\ CuotaBien(p)
      /\ \A m \in Marcos : marcos[m].proceso_asignado = Nadie => marcos[m].estaLibre
  BY DEF CensoBien
<1>2. /\ \A m \in Marcos : m \in S => marcos'[m].proceso_asignado = Nadie /\ marcos'[m].estaLibre
      /\ \A m \in Marcos : m \notin S => marcos'[m] = marcos[m]
  <2>1. PICK w : w = [proceso_asignado |-> Nadie, estaLibre |-> TRUE]
    OBVIOUS
  <2>2. \A m \in Marcos : marcos'[m] = IF m \in S THEN w ELSE marcos[m]
    BY <2>1 DEF MarcosCambian
  <2>. QED BY <2>1, <2>2
<1>3. /\ (FIJA' <=> FIJA) /\ (Aislados' <=> Aislados) /\ marcosMaximos' = marcosMaximos
      /\ MarcosDe(p)' = MarcosDe(p) \ S
  <2>1. \A m \in Marcos :
          marcos'[m].proceso_asignado = p <=> m \notin S /\ marcos[m].proceso_asignado = p
    BY <1>2, PaginacionOK
  <2>2. MarcosDe(p)' = MarcosDe(p) \ S
    BY <2>1 DEF MarcosDe
  <2>. QED BY <2>2 DEF FIJA, Aislados, marcosMaximos
<1>4. /\ ~Toma(p)' /\ ~Dentro(p)' /\ ~Escribiendo(p)' /\ Resta(p)' = {}
      /\ p \in Abiertos' => PaginasDe(p)' = {}
  BY SinLista DEF Toma, EnMano, Dentro, Escribiendo, PaginasDe, Range
<1>5. Respeta(p)
  <2>1. \A m \in Marcos :
          \/ marcos'[m] = marcos[m]
          \/ {marcos[m].proceso_asignado, marcos'[m].proceso_asignado} \subseteq {p, Nadie}
    BY <1>2
  <2>. QED BY <2>1 DEF Respeta
<1>6. ListaBien(p)'
  BY <1>4, SinLista DEF ListaBien
<1>7. EnUsoBien(p)'
  BY DEF EnUsoBien
<1>8. \A m \in Marcos : marcos'[m].proceso_asignado = Nadie => marcos'[m].estaLibre
  BY <1>1, <1>2
<1>9. Propio(p)'
  <2>1. FIJA => \A m \in MarcosDe(p)' : marcos'[m].estaLibre
    BY <1>2, <1>3 DEF MarcosDe
  <2>. QED BY <1>3, <1>4, <2>1 DEF Propio
<1>10. CuotaBien(p)'
  BY <1>1, <1>3, <1>4 DEF CuotaBien
<1>. QED BY <1>5, <1>6, <1>7, <1>8, <1>9, <1>10, CensoPaso

\* The last block is freed, with the pages and their frames.
LEMMA CensoLiberaTodo ==
  ASSUME ITipos, CensoBien, NEW p \in Pids, LiberaTodo(p), fallas' = {}
  PROVE  CensoBien'
<1>1. PICK S : S = {pagina[p][i].marco : i \in PaginasDe(p)}
  OBVIOUS
<1>2. /\ Pasa(p, "libre", "ninguno", 0, "", <<>>, SinMarco, <<>>, <<>>, {})
      /\ MarcosCambian(S, [proceso_asignado |-> Nadie, estaLibre |-> TRUE])
  BY <1>1, TiposLiberaTodo
<1>3. /\ \A m \in S : m # SinMarco => marcos[m].proceso_asignado = p
      /\ cuotaTrunca' = (cuotaTrunca \/ Cardinality(MarcosDe(p) \ S) \in 1..(marcosMaximos - 1))
      /\ UNCHANGED <<config, punteroClock>> /\ hilo[p].fase = "recorre"
  BY <1>1 DEF LiberaTodo
<1>4. \A q \in Pids \ {p} : pagina'[q] = pagina[q] /\ tabla_de_paginas'[q] = tabla_de_paginas[q]
  BY PaginasNuevas DEF LiberaTodo
<1>5. tabla_de_paginas'[p] = <<>>
  BY DEF LiberaTodo, ITipos, TiposPag
<1>6. /\ \A q \in Pids \ {p} : hilo'[q] = hilo[q]
      /\ hilo'[p].fase = "libre" /\ hilo'[p].pedido = "ninguno"
      /\ hilo'[p].lista = <<>> /\ hilo'[p].nuevas = <<>>
  BY <1>2 DEF Pasa
<1>7. p \in EnCurso /\ p \in Abiertos
  BY <1>3 DEF EnCurso, Abiertos
<1>8. \A m \in Marcos : m \in S => marcos[m].proceso_asignado = p
  <2>1. \A m \in Marcos : m # SinMarco
    BY PaginacionOK DEF Marcos, SinMarco
  <2>. QED BY <1>3, <2>1
<1>9. FIJA => \A m \in MarcosDe(p) \ S : marcos[m].estaLibre
  <2>1. Propio(p)
    BY DEF CensoBien
  <2>2. \A i \in Presentes(p) : pagina[p][i].marco \in S
    BY <1>1 DEF Presentes
  <2>. QED BY <2>1, <2>2 DEF Propio
<1>10. FIJA /\ ~cuotaTrunca' =>
         MarcosDe(p) \ S = {} \/ Cardinality(MarcosDe(p) \ S) = marcosMaximos
  <2>. SUFFICES ASSUME FIJA, ~cuotaTrunca', MarcosDe(p) \ S # {}
                PROVE  Cardinality(MarcosDe(p) \ S) = marcosMaximos
    OBVIOUS
  <2>1. PICK R : R = MarcosDe(p) \ S
    OBVIOUS
  <2>2. IsFiniteSet(MarcosDe(p))
    <3>1. MarcosDe(p) \in SUBSET Marcos
      BY DEF MarcosDe
    <3>. QED BY <3>1, ListasDeMarcos
  <2>3. R \in SUBSET MarcosDe(p)
    BY <2>1
  <2>4. /\ IsFiniteSet(R) /\ Cardinality(R) <= Cardinality(MarcosDe(p))
        /\ Cardinality(R) \in Nat /\ Cardinality(MarcosDe(p)) \in Nat
    BY <2>2, <2>3, FS_Subset, FS_CardinalityType
  <2>5. Cardinality(R) # 0
    BY <2>1, <2>4, FS_EmptySet
  <2>6. Cardinality(MarcosDe(p)) = marcosMaximos
    <3>1. CuotaBien(p) /\ ~cuotaTrunca
      BY <1>3 DEF CensoBien
    <3>. QED BY <3>1 DEF CuotaBien
  <2>7. Cardinality(R) \notin 1..(marcosMaximos - 1)
    BY <1>3, <2>1
  <2>. QED BY <2>1, <2>4, <2>5, <2>6, <2>7
<1>11. cuotaTrunca => cuotaTrunca'
  BY <1>3
<1>12. p \notin EnCurso'
  BY <1>6 DEF EnCurso
<1>13. config' = config /\ punteroClock' = punteroClock
  BY <1>3
<1>. QED BY <1>2, <1>4, <1>5, <1>6, <1>7, <1>8, <1>9, <1>10, <1>11, <1>12, <1>13, CensoVacio, ZenonT(60)

\* A carpincho that closes frees all its frames, under FIJA.
LEMMA CensoCierraMarcos ==
  ASSUME ITipos, CensoBien, NEW p \in Pids, CierraMarcos(p), fallas' = {}
  PROVE  CensoBien'
<1>1. PICK S : S = Range(hilo[p].lista)
  OBVIOUS
<1>2. /\ \A q \in Pids \ {p} : hilo'[q] = hilo[q]
      /\ hilo'[p].fase = "cierraLista" /\ hilo'[p].pedido = hilo[p].pedido
      /\ hilo'[p].lista = <<>> /\ hilo'[p].nuevas = hilo[p].nuevas
  BY TiposCierraMarcos DEF Pasa
<1>3. MarcosCambian(S, [proceso_asignado |-> Nadie, estaLibre |-> TRUE])
  <2>1. [proceso_asignado |-> Nadie, estaLibre |-> TRUE]
          \in [proceso_asignado : Pids \cup {Nadie}, estaLibre : BOOLEAN]
    OBVIOUS
  <2>. QED BY <1>1, <2>1, CambianMarcos DEF CierraMarcos
<1>4. /\ \A m \in S : marcos[m].proceso_asignado = p
      /\ UNCHANGED <<config, punteroClock, pagina, tabla_de_paginas, cuotaTrunca>>
      /\ hilo[p].fase = "cierraMarcos"
  BY <1>1 DEF CierraMarcos
<1>5. hilo[p].pedido = "ninguno" /\ hilo[p].nuevas = <<>> /\ (FIJA => S = MarcosDe(p))
  BY <1>1, <1>4 DEF CensoBien, ListaBien, ITipos, Forma
<1>6. p \in EnCurso /\ p \notin Abiertos'
  BY <1>2, <1>4 DEF EnCurso, Abiertos
<1>. QED BY <1>2, <1>3, <1>4, <1>5, <1>6, CensoVacio

\* The pages of a carpincho that has closed are freed.
LEMMA CensoCierraTLB ==
  ASSUME ITipos, CensoBien, NEW p \in Pids, CierraTLB(p)
  PROVE  CensoBien'
<1>1. /\ \A q \in Pids \ {p} : hilo'[q] = hilo[q]
      /\ hilo'[p].fase = "fin" /\ hilo'[p].pedido = "ninguno"
      /\ hilo'[p].lista = <<>> /\ hilo'[p].nuevas = <<>>
  BY TiposCierraTLB DEF Pasa
<1>2. \A q \in Pids \ {p} : pagina'[q] = pagina[q] /\ tabla_de_paginas'[q] = tabla_de_paginas[q]
  BY PaginasNuevas DEF CierraTLB
<1>3. tabla_de_paginas'[p] = <<>>
  BY DEF CierraTLB, ITipos, TiposPag
<1>4. /\ UNCHANGED <<config, punteroClock, marcos, cuotaTrunca>> /\ hilo[p].fase = "cierraTLB"
  BY DEF CierraTLB
<1>5. PICK S : S = {}
  OBVIOUS
<1>6. MarcosCambian(S, [proceso_asignado |-> Nadie, estaLibre |-> TRUE])
  BY <1>4, <1>5 DEF MarcosCambian, ITipos, TiposPag
<1>7. p \notin EnCurso /\ p \notin EnCurso' /\ p \notin Abiertos
  BY <1>1, <1>4 DEF EnCurso, Abiertos
<1>8. Propio(p) /\ CuotaBien(p) /\ MarcosDe(p) \ S = MarcosDe(p)
  BY <1>5 DEF CensoBien
<1>9. FIJA => \A m \in MarcosDe(p) \ S : marcos[m].estaLibre
  BY <1>7, <1>8 DEF Propio
<1>10. FIJA /\ ~cuotaTrunca' =>
         MarcosDe(p) \ S = {} \/ Cardinality(MarcosDe(p) \ S) = marcosMaximos
  BY <1>4, <1>8 DEF CuotaBien
<1>11. \A m \in Marcos : m \in S => marcos[m].proceso_asignado = p
  BY <1>5
<1>12. config' = config /\ punteroClock' = punteroClock /\ marcos' = marcos
       /\ cuotaTrunca' = cuotaTrunca
  BY <1>4
<1>. QED BY <1>1, <1>2, <1>3, <1>6, <1>7, <1>9, <1>10, <1>11, <1>12, CensoVacio, ZenonT(60)

\* Steps that change neither page, table, frame, quota nor local.
LEMMA CensoIguales ==
  ASSUME CensoBien,
         UNCHANGED <<config, marcos, pagina, tabla_de_paginas, hilo, cuotaTrunca, punteroClock>>
  PROVE  CensoBien'
<1>1. /\ (FIJA' <=> FIJA) /\ (Aislados' <=> Aislados) /\ marcosMaximos' = marcosMaximos
      /\ EnCurso' = EnCurso /\ Abiertos' = Abiertos
      /\ \A t : MarcosDe(t)' = MarcosDe(t) /\ PaginasDe(t)' = PaginasDe(t)
  BY DEF FIJA, Aislados, marcosMaximos, EnCurso, Abiertos, MarcosDe, PaginasDe
<1>2. ASSUME NEW t \in Pids
      PROVE  /\ Presentes(t)' = Presentes(t) /\ (Dentro(t)' <=> Dentro(t)) /\ (EnMano(t)' <=> EnMano(t))
             /\ (Escribiendo(t)' <=> Escribiendo(t)) /\ (Toma(t)' <=> Toma(t))
             /\ Resta(t)' = Resta(t) /\ Libres(t)' = Libres(t)
             /\ \A i : Pendiente(t, i)' <=> Pendiente(t, i)
  BY <1>1 DEF Presentes, Dentro, EnMano, Escribiendo, Toma, Resta, Libres, Pendiente
<1>3. ASSUME NEW t \in Pids PROVE ListaBien(t)' /\ EnUsoBien(t)' /\ Propio(t)' /\ CuotaBien(t)'
  <2>1. ListaBien(t) /\ EnUsoBien(t) /\ Propio(t) /\ CuotaBien(t)
    BY DEF CensoBien
  <2>2. ListaBien(t)'
    BY <1>1, <1>2, <2>1 DEF ListaBien, Disponible
  <2>3. EnUsoBien(t)'
    BY <1>1, <2>1 DEF EnUsoBien
  <2>4. Propio(t)'
    BY <1>1, <1>2, <2>1 DEF Propio
  <2>5. CuotaBien(t)'
    BY <1>1, <1>2, <2>1 DEF CuotaBien
  <2>. QED BY <2>2, <2>3, <2>4, <2>5
<1>. QED BY <1>1, <1>3 DEF CensoBien

\* A suspension without present pages frees no frame.
LEMMA CensoSuspende ==
  ASSUME ITipos, CensoBien, NEW p \in Pids, Suspende(p), fallas' = {}
  PROVE  CensoBien'
<1>1. PICK S : S = {pagina[p][i].marco : i \in Presentes(p)}
  OBVIOUS
<1>2. S = {}
  BY <1>1 DEF Suspende
<1>3. MarcosCambian(S, [proceso_asignado |-> Nadie, estaLibre |-> TRUE])
  BY <1>1, FotoSuspende
<1>4. marcos' = marcos
  <2>1. \A m \in Marcos : marcos'[m] = marcos[m]
    BY <1>2, <1>3 DEF MarcosCambian
  <2>2. /\ marcos \in [Marcos -> [proceso_asignado : Pids \cup {Nadie}, estaLibre : BOOLEAN]]
        /\ marcos' \in [Marcos -> [proceso_asignado : Pids \cup {Nadie}, estaLibre : BOOLEAN]]
    BY <1>3 DEF ITipos, TiposPag, MarcosCambian
  <2>. QED BY <2>1, <2>2
<1>. QED BY <1>4, CensoIguales DEF Suspende

\* Every step keeps the census, unless it brings a fault.
LEMMA CensoCadaPaso ==
  ASSUME ITipos, IMarcos, ICenso, [Next]_vars
  PROVE  ICenso'
<1>. SUFFICES ASSUME fallas' = {} PROVE CensoBien'
  BY DEF ICenso
<1>1. CASE UNCHANGED vars
  BY <1>1, CensoIguales DEF ICenso, vars
<1>2. CASE LimpiaTLB
  BY <1>2, CensoIguales DEF ICenso, LimpiaTLB, Sigue
<1>. SUFFICES ASSUME NEW p \in Pids,
                     \/ Inicializa(p)
                     \/ \E pedido \in {"acceso", "libera"} : Pide(p, pedido)
                     \/ \E i \in Ids : Accede(p, i) \/ FundeCabecera(p, i)
                     \/ AgregaATLB(p) \/ Usa(p) \/ LiberaTodo(p) \/ Termina(p)
                     \/ Reemplaza(p) \/ Aloja(p) \/ Suspende(p) \/ Cierra(p)
              PROVE  CensoBien'
  BY <1>1, <1>2 DEF Next
<1>3. fallas = {}
  BY DEF Inicializa, Pide, Accede, FundeCabecera, AgregaATLB, Usa, LiberaTodo, Termina, Reemplaza,
         Aloja, Suspende, Cierra, NoHayVictima, EligeVictimaLRU, EligeVictimaClock, SacaVictima,
         QuitaDeTLB, AsignaMarco, CopiaPagina, PideAlloc, ReservaFija, CreaPaginas,
         buscarMarcosLibres, EmpiezaAEscribir, EscribePagina, NoHayMarco, EscribeTrasDesalojar,
         OcupaMarco, TerminaDeEscribir, AgregaNueva, BuscaMarcosALiberar, CierraMarcos, CierraLista, ListaCorta,
         CierraSwap, CierraTLB, Puede, Sigue
<1>4. MarcosBien /\ CensoBien
  BY <1>3 DEF IMarcos, ICenso
<1>5. CASE (\E i \in Ids : Accede(p, i)) \/ AgregaATLB(p) \/ Usa(p)
  BY <1>4, <1>5, CensoRecorre
<1>6. CASE \E i \in Ids : FundeCabecera(p, i)
  BY <1>4, <1>6, CensoIguales DEF FundeCabecera
<1>7. CASE \/ Inicializa(p) \/ \E pedido \in {"acceso", "libera"} : Pide(p, pedido)
           \/ Termina(p)
  BY <1>4, <1>7, CensoControl
<1>8. CASE LiberaTodo(p) \/ Suspende(p)
  BY <1>4, <1>8, CensoLiberaTodo, CensoSuspende
<1>9. CASE Reemplaza(p)
  <2>1. CASE NoHayVictima(p)
    BY <1>4, <2>1, CensoIguales DEF NoHayVictima
  <2>. QED BY <1>4, <1>9, <2>1, CensoElige, CensoSacaVictima, CensoQuitaDeTLB, CensoAsignaMarco,
              CensoRecorre DEF Reemplaza
<1>10. CASE Aloja(p)
  <2>1. CASE NoHayMarco(p)
    BY <1>4, <2>1, CensoIguales DEF NoHayMarco
  <2>. QED BY <1>4, <1>10, <2>1, CensoBusca, CensoReservaFija, CensoCreaPaginas, CensoRecorre,
              CensoEscribe, CensoOcupaMarco, CensoControl DEF Aloja
<1>11. CASE Cierra(p)
  <2>1. CASE ListaCorta(p)
    BY <1>4, <2>1, CensoIguales DEF ListaCorta
  <2>. QED BY <1>4, <1>11, <2>1, CensoBusca, CensoCierraMarcos, CensoControl, CensoCierraTLB
           DEF Cierra
<1>. QED BY <1>5, <1>6, <1>7, <1>8, <1>9, <1>10, <1>11

\* At the start nobody has a frame, and nothing is being served.
LEMMA CensoInit ==
  ASSUME Init
  PROVE  CensoBien
<1>1. \A t \in Pids :
        /\ tabla_de_paginas[t] = <<>> /\ punteroClock[t] = 0
        /\ hilo[t].fase = "afuera" /\ hilo[t].pedido = "ninguno"
        /\ hilo[t].lista = <<>> /\ hilo[t].nuevas = <<>>
  <2>1. /\ tabla_de_paginas = [p \in Pids |-> <<>>]
        /\ punteroClock = [p \in Pids \cup {Nadie} |-> 0]
        /\ hilo = [p \in Pids |-> [hilo_libre EXCEPT !.fase = "afuera"]]
    BY DEF Init
  <2>. QED BY <2>1 DEF hilo_libre
<1>2. \A m \in Marcos : marcos[m] = [proceso_asignado |-> Nadie, estaLibre |-> TRUE]
  BY DEF Init
<1>3. EnCurso = {}
  BY <1>1 DEF EnCurso
<1>4. \A m \in Marcos : marcos[m].proceso_asignado = Nadie => marcos[m].estaLibre
  BY <1>2
<1>5. marcosMaximos \in Nat \ {0}
  BY TiposInit, PaginacionOK DEF ITipos, TiposPag, marcosMaximos
<1>6. ASSUME NEW t \in Pids PROVE ListaBien(t) /\ EnUsoBien(t) /\ Propio(t) /\ CuotaBien(t)
  <2>1. MarcosDe(t) = {}
    <3>1. t # Nadie
      BY PaginacionOK
    <3>. QED BY <1>2, <3>1 DEF MarcosDe
  <2>2. PaginasDe(t) = {} /\ Presentes(t) = {}
    BY <1>1 DEF PaginasDe, Presentes, Range
  <2>3. ~Dentro(t) /\ ~Toma(t) /\ ~EnMano(t) /\ ~Escribiendo(t) /\ t \notin EnCurso
    BY <1>1 DEF Dentro, Toma, EnMano, Escribiendo, EnCurso
  <2>4. Resta(t) = {} /\ IsInjective(hilo[t].lista)
    BY <1>1, SinLista DEF IsInjective
  <2>5. ListaBien(t)
    BY <1>1, <2>3, <2>4 DEF ListaBien
  <2>6. EnUsoBien(t)
    BY <1>1 DEF EnUsoBien
  <2>7. Propio(t)
    BY <2>1, <2>2, <2>3 DEF Propio
  <2>8. CuotaBien(t)
    <3>1. punteroClock[t] < marcosMaximos
      BY <1>1, <1>5
    <3>. QED BY <1>1, <2>1, <2>2, <3>1 DEF CuotaBien
  <2>. QED BY <2>5, <2>6, <2>7, <2>8
<1>. QED BY <1>3, <1>4, <1>6 DEF CensoBien

\* A fault that FallasConocidas allows, with the configuration there is.
Conocida(f) ==
  LET deUno == {"suspension", "ausenteEnTLB", "cambioSinMarcar", "marcoViejo"} IN
  /\ config.grado = 1 => f \in deUno \cup (IF FIJA THEN {} ELSE {"marcoAjeno"})
  /\ FIJA => f \in deUno \cup {"reservaVencida"}

\* Any fault is known but under one request at a time or FIJA; some always are.
LEMMA Conocidas ==
  /\ FallasConocidas <=> \A f \in fallas : Conocida(f)
  /\ ~Aislados => \A f : Conocida(f)
  /\ \A f \in {"suspension", "ausenteEnTLB", "cambioSinMarcar", "marcoViejo"} : Conocida(f)
  /\ config.grado # 1 => Conocida("reservaVencida")
  /\ ~FIJA => Conocida("marcoAjeno")
<1>1. FallasConocidas <=> \A f \in fallas : Conocida(f)
  BY DEF FallasConocidas, Conocida
<1>. QED BY <1>1 DEF Conocida, Aislados

\* Nobody takes a page of a carpincho that is served, but its own thread.
LEMMA NadieLeDesaloja ==
  ASSUME ITipos, MarcosBien, CensoBien, Aislados, NEW p \in Pids, p \in EnCurso, ~Dentro(p)
  PROVE  Desalojan(p) = {} /\ \A i \in Ids : ~Saliendo(p, i)
<1>1. ASSUME NEW t \in Pids, Dentro(t), hilo[t].victima[1] = p PROVE FALSE
  <2>1. PICK q \in Pids, i \in Ids : hilo[t].victima = <<q, i>>
    BY <1>1, DentroEs
  <2>2. q = p
    BY <1>1, <2>1
  <2>3. t = p
    BY <1>1, <2>1, <2>2, Seguras
  <2>. QED BY <1>1, <2>3
<1>2. Desalojan(p) = {}
  BY <1>1 DEF Desalojan, Dentro
<1>3. ASSUME NEW i \in Ids, Saliendo(p, i) PROVE FALSE
  <2>1. PICK t \in Pids : hilo[t].fase = "quita" /\ hilo[t].victima = <<p, i>>
    BY <1>3 DEF Saliendo
  <2>2. Dentro(t) /\ hilo[t].victima[1] = p
    BY <2>1 DEF Dentro
  <2>. QED BY <1>1, <2>2
<1>. QED BY <1>2, <1>3

\* A page that a thread visits is in the TLB only if it is there, and is not
\* going while it is used.
LEMMA FallasDelAcceso ==
  ASSUME ITipos, MarcosBien, TLBBien, CensoBien, fallas = {}, NEW p \in Pids,
         \/ \E i \in Ids : Accede(p, i) \/ FundeCabecera(p, i)
         \/ AgregaATLB(p) \/ Usa(p) \/ CopiaPagina(p) \/ AgregaNueva(p)
  PROVE  \A f \in fallas' : Conocida(f)
<1>. SUFFICES ASSUME Aislados PROVE \A f \in fallas' : Conocida(f)
  BY Conocidas
<1>1. ASSUME NEW i \in Ids, Accede(p, i) PROVE fallas' = {}
  <2>1. hilo[p].fase = "recorre"
    BY <1>1 DEF Accede
  <2>2. p \in EnCurso /\ ~Dentro(p)
    BY <2>1 DEF EnCurso, Dentro
  <2>3. ASSUME NEW k \in 1..Len(TLB), TLB[k] = <<p, i>> PROVE pagina[p][i].presente
    <3>1. TLB \in Seq(Pids \X Ids)
      BY DEF TLBBien
    <3>2. EnTLB(p, i)
      BY <2>3, <3>1 DEF EnTLB, Range
    <3>3. EntradaBien(p, i)
      BY <3>2 DEF TLBBien
    <3>. QED BY <2>2, <3>3, NadieLeDesaloja DEF EntradaBien
  <2>. QED BY <1>1, <2>3 DEF Accede
<1>2. ASSUME NEW i \in Ids, FundeCabecera(p, i) PROVE \A f \in fallas' : Conocida(f)
  <2>1. \A f \in fallas' : f \in {"marcoViejo", "cambioSinMarcar"}
    BY <1>2 DEF FundeCabecera
  <2>. QED BY <2>1, Conocidas
<1>3. CASE AgregaATLB(p) \/ AgregaNueva(p)
  <2>1. \A f \in fallas' : f = "ausenteEnTLB"
    BY <1>3 DEF AgregaATLB, AgregaNueva
  <2>. QED BY <2>1, Conocidas
<1>4. CASE Usa(p) \/ CopiaPagina(p)
  <2>1. hilo[p].fase \in {"usa", "copia"}
    BY <1>4 DEF Usa, CopiaPagina
  <2>2. p \in EnCurso /\ ~Dentro(p) /\ Visita(p)
    BY <2>1 DEF EnCurso, Dentro, Visita
  <2>3. PICK i \in Ids : i = hilo[p].pag
    BY <2>2, VisitaEs
  <2>4. pagina[p][i].presente
    BY <2>1, <2>3 DEF CensoBien, EnUsoBien
  <2>5. ASSUME NEW q \in Pids, hilo[q].fase \in {"saca", "quita"}, hilo[q].victima = <<p, i>>
        PROVE  FALSE
    BY <2>2, <2>5, Seguras DEF Dentro
  <2>6. ~SeFue(p, hilo[p].pag)
    BY <2>3, <2>4, <2>5 DEF SeFue
  <2>7. fallas' = {}
    BY <1>4, <2>6 DEF Usa, CopiaPagina
  <2>. QED BY <2>7
<1>. QED BY <1>1, <1>2, <1>3, <1>4

\* Without overlap a reservation takes the frames that it saw.
LEMMA FallasDeLaReserva ==
  ASSUME ITipos, CensoBien, fallas = {}, NEW p \in Pids, ReservaFija(p)
  PROVE  \A f \in fallas' : Conocida(f)
<1>. SUFFICES ASSUME config.grado = 1 PROVE \A f \in fallas' : Conocida(f)
  <2>1. \A f \in fallas' : f = "reservaVencida"
    BY DEF ReservaFija
  <2>. QED BY <2>1, Conocidas
<1>1. hilo[p].fase = "reserva" /\ ListaBien(p)
  BY DEF ReservaFija, CensoBien
<1>2. Range(hilo[p].lista) \subseteq MarcosDe(Nadie) /\ IsInjective(hilo[p].lista)
  BY <1>1 DEF ListaBien
<1>3. \/ Range(Tomados(p)) = MarcosDe(p)
      \/ Range(Tomados(p)) \subseteq Range(hilo[p].lista)
  BY <1>2, CuotaEs
<1>4. \A m \in Range(Tomados(p)) : marcos[m].proceso_asignado \in {Nadie, p}
  BY <1>2, <1>3 DEF MarcosDe
<1>5. fallas' = {}
  BY <1>4 DEF ReservaFija
<1>. QED BY <1>5

\* The victim is of a carpincho that is not closing.
LEMMA FallasDelDesalojo ==
  ASSUME ITipos, CensoBien, fallas = {}, NEW p \in Pids, EligeVictimaLRU(p) \/ EligeVictimaClock(p)
  PROVE  \A f \in fallas' : Conocida(f)
<1>. SUFFICES ASSUME Aislados PROVE \A f \in fallas' : Conocida(f)
  BY Conocidas
<1>1. PICK c \in Candidatas(p) : Desaloja(p, c) /\ NecesitaMarco(p)
  BY FotoElige
<1>2. c[1] \in Pids /\ (FIJA => c[1] = p)
  BY <1>1, CandidatasSon
<1>3. hilo[p].fase \in {"falta", "escribe"}
  BY <1>1 DEF NecesitaMarco
<1>4. hilo[c[1]].fase # "cierraLista"
  <2>1. SUFFICES ASSUME hilo[c[1]].fase = "cierraLista" PROVE FALSE
    OBVIOUS
  <2>2. c[1] # p
    BY <1>3, <2>1
  <2>3. c[1] \in EnCurso /\ p \in EnCurso
    BY <1>2, <1>3, <2>1 DEF EnCurso
  <2>. QED BY <1>2, <2>2, <2>3 DEF Aislados, CensoBien
<1>5. fallas' = {}
  BY <1>1, <1>4 DEF Desaloja
<1>. QED BY <1>5

\* A new page is written on a frame that is free, and in no other hands.
LEMMA FallasDeLaEscritura ==
  ASSUME ITipos, MarcosBien, CensoBien, fallas = {}, NEW p \in Pids,
         EscribePagina(p) \/ EscribeTrasDesalojar(p)
  PROVE  \A f \in fallas' : Conocida(f)
<1>. SUFFICES ASSUME Aislados PROVE \A f \in fallas' : Conocida(f)
  BY Conocidas
<1>1. PICK m \in Marcos :
        /\ EscribeEn(p, m) /\ hilo[p].fase \in {"escribe", "escribeEn"}
        /\ marcos[m].estaLibre /\ (FIJA => m \in MarcosDe(p))
  <2>1. CASE FIJA
    BY <2>1, EscribeEnLibre
  <2>2. CASE ~FIJA
    <3>1. PICK m \in Marcos :
            /\ EscribeEn(p, m) /\ hilo[p].fase \in {"escribe", "escribeEn"}
            /\ \/ hilo[p].fase = "escribeEn" /\ m = hilo[p].marco
               \/ marcos[m].proceso_asignado = Nadie
      BY <2>2, EscribeEnAlguno
    <3>2. marcos[m].estaLibre
      BY <3>1 DEF MarcosBien, CensoBien, Transito, Lleva
    <3>. QED BY <2>2, <3>1, <3>2
  <2>. QED BY <2>1, <2>2
<1>2. ASSUME NEW q \in Pids \ {p}, hilo[q].fase \in {"quita", "asigna", "escribeEn"},
             hilo[q].marco = m
      PROVE  FALSE
  <2>1. Toma(q) /\ Propio(q) /\ q \in EnCurso /\ p \in EnCurso
    BY <1>1, <1>2 DEF Toma, EnMano, EnCurso, CensoBien
  <2>2. CASE FIJA
    BY <1>1, <1>2, <2>1, <2>2 DEF Propio, MarcosDe
  <2>3. CASE config.grado = 1
    BY <2>1, <2>3 DEF CensoBien
  <2>. QED BY <2>2, <2>3 DEF Aislados
<1>3. m \notin EnTransito(p)
  BY <1>2 DEF EnTransito
<1>4. fallas' = {}
  BY <1>1, <1>3 DEF EscribeEn
<1>. QED BY <1>4

\* A frame is marked while its page is still there.
LEMMA FallasDeLaMarca ==
  ASSUME CensoBien, fallas = {}, NEW p \in Pids, OcupaMarco(p)
  PROVE  \A f \in fallas' : Conocida(f)
<1>. SUFFICES ASSUME Aislados PROVE \A f \in fallas' : Conocida(f)
  BY Conocidas
<1>1. hilo[p].fase = "ocupa"
  BY DEF OcupaMarco
<1>2. pagina[p][hilo[p].nuevas[hilo[p].pag]].presente
  BY <1>1 DEF CensoBien, EnUsoBien
<1>3. fallas' = {}
  BY <1>2 DEF OcupaMarco
<1>. QED BY <1>3

\* The frames that are freed are the carpincho's under FIJA, and nobody is taking
\* its pages.
LEMMA FallasDelCierre ==
  ASSUME ITipos, MarcosBien, CensoBien, fallas = {}, NEW p \in Pids,
         LiberaTodo(p) \/ CierraMarcos(p) \/ CierraTLB(p)
  PROVE  \A f \in fallas' : Conocida(f)
<1>. SUFFICES ASSUME Aislados PROVE \A f \in fallas' : Conocida(f)
  BY Conocidas
<1>1. ListaBien(p) /\ Propio(p)
  BY DEF CensoBien
<1>2. CASE LiberaTodo(p) \/ CierraMarcos(p)
  <2>1. hilo[p].fase \in {"recorre", "cierraMarcos"}
    BY <1>2 DEF LiberaTodo, CierraMarcos
  <2>2. p \in EnCurso /\ p \in Abiertos /\ ~Dentro(p)
    BY <2>1 DEF EnCurso, Abiertos, Dentro
  <2>3. Desalojan(p) = {}
    BY <2>2, NadieLeDesaloja
  <2>4. \A f \in fallas' : f = "marcoAjeno"
    BY <1>2, <2>3 DEF LiberaTodo, CierraMarcos
  <2>5. CASE ~FIJA
    BY <2>4, <2>5, Conocidas
  <2>6. CASE FIJA /\ LiberaTodo(p)
    <3>1. \A i \in PaginasDe(p) : pagina[p][i].marco # SinMarco => pagina[p][i].marco \in MarcosDe(p)
      BY <1>1, <2>2, <2>6 DEF Propio
    <3>2. \A i \in PaginasDe(p) :
            pagina[p][i].marco # SinMarco => marcos[pagina[p][i].marco].proceso_asignado = p
      BY <3>1 DEF MarcosDe
    <3>3. fallas' = {}
      BY <2>3, <2>6, <3>2 DEF LiberaTodo
    <3>. QED BY <3>3
  <2>7. CASE FIJA /\ CierraMarcos(p)
    <3>1. Range(hilo[p].lista) = MarcosDe(p)
      BY <1>1, <2>7 DEF ListaBien, CierraMarcos
    <3>2. \A m \in Range(hilo[p].lista) : marcos[m].proceso_asignado = p
      BY <3>1 DEF MarcosDe
    <3>3. fallas' = {}
      BY <2>3, <2>7, <3>2 DEF CierraMarcos
    <3>. QED BY <3>3
  <2>. QED BY <1>2, <2>5, <2>6, <2>7
<1>3. CASE CierraTLB(p)
  <2>1. p \notin Abiertos
    BY <1>3 DEF CierraTLB, Abiertos
  <2>2. Desalojan(p) = {}
    BY <2>1 DEF Desalojan, MarcosBien, Victima, Dentro
  <2>3. fallas' = {}
    BY <1>3, <2>2 DEF CierraTLB
  <2>. QED BY <2>3
<1>. QED BY <1>2, <1>3

\* Every step brings only known faults.
LEMMA FallasPaso ==
  ASSUME ITipos, IMarcos, ITLB, ICenso, FallasConocidas, [Next]_vars
  PROVE  FallasConocidas'
<1>1. CASE UNCHANGED vars
  BY <1>1 DEF FallasConocidas, FIJA, vars
<1>2. CASE LimpiaTLB
  BY <1>2 DEF FallasConocidas, FIJA, LimpiaTLB
<1>. SUFFICES ASSUME NEW p \in Pids,
                     \/ Inicializa(p)
                     \/ \E pedido \in {"acceso", "libera"} : Pide(p, pedido)
                     \/ \E i \in Ids : Accede(p, i) \/ FundeCabecera(p, i)
                     \/ AgregaATLB(p) \/ Usa(p) \/ LiberaTodo(p) \/ Termina(p)
                     \/ Reemplaza(p) \/ Aloja(p) \/ Suspende(p) \/ Cierra(p)
              PROVE  FallasConocidas'
  BY <1>1, <1>2 DEF Next
<1>3. fallas = {} /\ config' = config
  BY DEF Inicializa, Pide, Accede, FundeCabecera, AgregaATLB, Usa, LiberaTodo, Termina, Reemplaza,
         Aloja, Suspende, Cierra, NoHayVictima, EligeVictimaLRU, EligeVictimaClock, SacaVictima,
         QuitaDeTLB, AsignaMarco, CopiaPagina, PideAlloc, ReservaFija, CreaPaginas,
         buscarMarcosLibres, EmpiezaAEscribir, EscribePagina, NoHayMarco, EscribeTrasDesalojar,
         EscribeEn, OcupaMarco, TerminaDeEscribir, AgregaNueva, BuscaMarcosALiberar, CierraMarcos, CierraLista,
         ListaCorta, CierraSwap, CierraTLB, Puede, Sigue
<1>4. MarcosBien /\ TLBBien /\ CensoBien
  BY <1>3 DEF IMarcos, ITLB, ICenso
<1>. SUFFICES \A f \in fallas' : Conocida(f)
  BY <1>3 DEF FallasConocidas, Conocida, FIJA
<1>5. CASE \/ \E i \in Ids : Accede(p, i) \/ FundeCabecera(p, i)
           \/ AgregaATLB(p) \/ Usa(p) \/ CopiaPagina(p) \/ AgregaNueva(p)
  BY <1>3, <1>4, <1>5, FallasDelAcceso
<1>6. CASE EligeVictimaLRU(p) \/ EligeVictimaClock(p)
  BY <1>3, <1>4, <1>6, FallasDelDesalojo
<1>7. CASE EscribePagina(p) \/ EscribeTrasDesalojar(p)
  BY <1>3, <1>4, <1>7, FallasDeLaEscritura
<1>8. CASE ReservaFija(p)
  BY <1>3, <1>4, <1>8, FallasDeLaReserva
<1>9. CASE LiberaTodo(p) \/ CierraMarcos(p) \/ CierraTLB(p)
  BY <1>3, <1>4, <1>9, FallasDelCierre
<1>10. CASE Suspende(p)
  <2>1. \A f \in fallas' : f = "suspension"
    BY <1>3, <1>10 DEF Suspende
  <2>. QED BY <2>1, Conocidas
<1>11. CASE \/ Inicializa(p) \/ \E pedido \in {"acceso", "libera"} : Pide(p, pedido)
            \/ Termina(p) \/ NoHayVictima(p) \/ SacaVictima(p) \/ QuitaDeTLB(p) \/ AsignaMarco(p)
            \/ PideAlloc(p) \/ (\E n \in 1..MaxPaginas : CreaPaginas(p, n))
            \/ buscarMarcosLibres(p) \/ EmpiezaAEscribir(p) \/ NoHayMarco(p)
            \/ TerminaDeEscribir(p) \/ BuscaMarcosALiberar(p) \/ CierraLista(p) \/ ListaCorta(p)
            \/ CierraSwap(p)
  <2>1. fallas' = fallas
    BY <1>11 DEF Inicializa, Pide, Termina, NoHayVictima, SacaVictima, QuitaDeTLB, AsignaMarco,
                 PideAlloc, CreaPaginas, buscarMarcosLibres, EmpiezaAEscribir, NoHayMarco,
                 TerminaDeEscribir, BuscaMarcosALiberar, CierraLista, ListaCorta, CierraSwap
  <2>. QED BY <1>3, <2>1
<1>12. CASE OcupaMarco(p)
  BY <1>3, <1>4, <1>12, FallasDeLaMarca
<1>. QED BY <1>5, <1>6, <1>7, <1>8, <1>9, <1>10, <1>11, <1>12 DEF Reemplaza, Aloja, Cierra

\* The memory ends for the lack of a victim only if a quota is not whole.
LEMMA CaidaSinVictima ==
  ASSUME ITipos, MarcosBien, CensoBien, NEW p \in Pids, NoHayVictima(p), FIJA
  PROVE  cuotaTrunca
<1>. SUFFICES ASSUME ~cuotaTrunca PROVE FALSE
  OBVIOUS
<1>1. PICK n : n = Cardinality(Candidatas(p))
  OBVIOUS
<1>2. n = marcosMaximos
  BY <1>1, CandidatasLlenas DEF NoHayVictima
<1>3. n \in Nat \ {0}
  BY <1>2, PaginacionOK DEF ITipos, TiposPag, marcosMaximos
<1>4. punteroClock[p] \in Nat /\ punteroClock[p] < n
  <2>1. CuotaBien(p) /\ punteroClock \in [Pids \cup {Nadie} -> Nat]
    BY DEF CensoBien, ITipos, TiposPag
  <2>. QED BY <1>2, <2>1 DEF CuotaBien
<1>5. n = 0 \/ punteroClock[p] >= n
  BY <1>1 DEF NoHayVictima, Puntero
<1>. QED BY <1>3, <1>4, <1>5

\* A thread that is served alone finds a frame of its list without owner.
LEMMA CaidaSinMarco ==
  ASSUME ITipos, CensoBien, NEW p \in Pids, NoHayMarco(p)
  PROVE  ~Aislados
<1>. SUFFICES ASSUME Aislados PROVE FALSE
  OBVIOUS
<1>1. PICK l \in Seq(Marcos), k \in Nat : l = hilo[p].lista /\ k = hilo[p].pag
  BY Locales
<1>2. PICK n \in Nat : n = Len(l)
  BY <1>1
<1>3. hilo[p].fase = "escribe" /\ ~FIJA /\ k < n /\ SinDueno(l) = {}
  BY <1>1, <1>2 DEF NoHayMarco
<1>4. k + 1 \in 1..n /\ k < k + 1
  BY <1>3
<1>5. l[k + 1] \in Resta(p)
  BY <1>1, <1>2, <1>4 DEF Resta
<1>6. ListaBien(p)
  BY DEF CensoBien
<1>7. Disponible(p, l[k + 1])
  BY <1>3, <1>5, <1>6 DEF ListaBien
<1>8. k + 1 \in SinDueno(l)
  BY <1>2, <1>3, <1>4, <1>7 DEF Disponible, SinDueno
<1>. QED BY <1>3, <1>8

\* A thread that is served alone closes while nobody looks for a victim.
LEMMA CaidaListaCorta ==
  ASSUME CensoBien, NEW p \in Pids, ListaCorta(p)
  PROVE  ~Aislados
<1>. SUFFICES ASSUME config.grado = 1 PROVE FALSE
  BY DEF ListaCorta, Aislados
<1>1. PICK q \in Pids \ {p} : NecesitaMarco(q)
  BY DEF ListaCorta
<1>2. q \in EnCurso /\ p \in EnCurso
  BY <1>1 DEF NecesitaMarco, ListaCorta, EnCurso
<1>. QED BY <1>2 DEF CensoBien

\* Every step brings only known ends.
LEMMA CaidasPaso ==
  ASSUME ITipos, IMarcos, ICenso, CaidasConocidas, [Next]_vars
  PROVE  CaidasConocidas'
<1>1. CASE UNCHANGED vars
  BY <1>1 DEF CaidasConocidas, FIJA, vars
<1>. SUFFICES ASSUME Next PROVE CaidasConocidas'
  BY <1>1
<1>2. ASSUME NEW p \in Pids, NoHayVictima(p) \/ NoHayMarco(p) \/ ListaCorta(p)
      PROVE  CaidasConocidas'
  <2>1. fallas = {} /\ config' = config /\ cuotaTrunca' = cuotaTrunca
    BY <1>2 DEF NoHayVictima, NoHayMarco, ListaCorta, Sigue
  <2>2. MarcosBien /\ CensoBien
    BY <2>1 DEF IMarcos, ICenso
  <2>3. CASE NoHayVictima(p)
    <3>1. caida' \in {"sinVictima", "punteroClock"} /\ (FIJA => cuotaTrunca)
      BY <2>2, <2>3, CaidaSinVictima DEF NoHayVictima
    <3>. QED BY <2>1, <3>1 DEF CaidasConocidas, FIJA
  <2>4. CASE NoHayMarco(p) \/ ListaCorta(p)
    <3>1. ~Aislados
      BY <2>2, <2>4, CaidaSinMarco, CaidaListaCorta
    <3>. QED BY <2>1, <3>1 DEF CaidasConocidas, FIJA, Aislados
  <2>. QED BY <1>2, <2>3, <2>4
<1>3. ASSUME caida' = caida, caida = "no" PROVE CaidasConocidas'
  BY <1>3 DEF CaidasConocidas
<1>4. CASE LimpiaTLB
  BY <1>3, <1>4 DEF LimpiaTLB, Sigue
<1>5. ASSUME NEW p \in Pids,
             \/ Inicializa(p)
             \/ \E pedido \in {"acceso", "libera"} : Pide(p, pedido)
             \/ \E i \in Ids : Accede(p, i) \/ FundeCabecera(p, i)
             \/ AgregaATLB(p) \/ Usa(p) \/ LiberaTodo(p) \/ Termina(p) \/ Suspende(p)
             \/ (Reemplaza(p) /\ ~NoHayVictima(p)) \/ (Aloja(p) /\ ~NoHayMarco(p))
             \/ (Cierra(p) /\ ~ListaCorta(p))
      PROVE  caida' = caida /\ caida = "no"
  BY <1>5 DEF Inicializa, Pide, Accede, FundeCabecera, AgregaATLB, Usa, LiberaTodo, Termina,
         Reemplaza, Aloja, Suspende, Cierra, EligeVictimaLRU, EligeVictimaClock, SacaVictima,
         QuitaDeTLB, AsignaMarco, CopiaPagina, PideAlloc, ReservaFija, CreaPaginas,
         buscarMarcosLibres, EmpiezaAEscribir, EscribePagina, EscribeTrasDesalojar,
         EscribeEn, OcupaMarco, TerminaDeEscribir, AgregaNueva, BuscaMarcosALiberar, CierraMarcos, CierraLista,
         CierraSwap, CierraTLB, Puede, Sigue
<1>. QED BY <1>2, <1>3, <1>4, <1>5 DEF Next, Reemplaza, Aloja, Cierra

\* The inductive invariant: types, frames, TLB and census, and what they leave.
LEMMA CensoDeLaMemoria ==
  Spec => [](ITipos /\ IMarcos /\ ITLB /\ ICenso /\ FallasConocidas /\ CaidasConocidas)
<1>1. Init => ITipos /\ IMarcos /\ ITLB /\ ICenso /\ FallasConocidas /\ CaidasConocidas
  <2>. SUFFICES ASSUME Init
                PROVE  ITipos /\ IMarcos /\ ITLB /\ ICenso /\ FallasConocidas /\ CaidasConocidas
    OBVIOUS
  <2>1. TLB = <<>> /\ fallas = {} /\ caida = "no"
    BY DEF Init
  <2>2. ITipos /\ IMarcos /\ ITLB /\ ICenso
    BY <2>1, TiposInit, MarcosInit, TLBVacia, CensoInit DEF IMarcos, ITLB, ICenso
  <2>. QED BY <2>1, <2>2 DEF FallasConocidas, CaidasConocidas
<1>2. /\ ITipos /\ IMarcos /\ ITLB /\ ICenso /\ FallasConocidas /\ CaidasConocidas
      /\ [Next]_vars
      => (ITipos /\ IMarcos /\ ITLB /\ ICenso /\ FallasConocidas /\ CaidasConocidas)'
  BY TiposPaso, MarcosPaso, TLBCadaPaso, CensoCadaPaso, FallasPaso, CaidasPaso
<1>. QED BY <1>1, <1>2, PTL DEF Spec

\* FallasConocidas: the ways of losing a page that a configuration leaves, whatever
\* the number of carpinchos, frames, pages, entries and requests.
THEOREM FallasDeLaMemoria == Spec => []FallasConocidas
BY CensoDeLaMemoria, PTL

\* CaidasConocidas: the ends of the memory that a configuration leaves, whatever
\* the number of carpinchos, frames, pages, entries and requests.
THEOREM CaidasDeLaMemoria == Spec => []CaidasConocidas
BY CensoDeLaMemoria, PTL
=============================================================================
