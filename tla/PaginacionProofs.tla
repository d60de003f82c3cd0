-------------------------- MODULE PaginacionProofs --------------------------
(***************************************************************************)
(* Paginacion for any number of carpinchos, frames and pages, and any      *)
(* configuration: the types of the state, the frames, the TLB, the choice  *)
(* of CLOCK-M, and that a carpincho reads what it wrote last.              *)
(*                                                                         *)
(* The mutex of the swap is held only while a victim leaves, and that of   *)
(* the frames only while new pages are written, so what the threads do     *)
(* between them overlaps freely. The invariants follow a frame and a TLB   *)
(* entry through those overlaps: a frame that is in the hands of a thread  *)
(* is free and of no other thread, and the page that left it stays in the  *)
(* TLB only until the same thread takes it out. They follow a content too: *)
(* from the frame to the copy of the thread that evicts it, to the swap,   *)
(* and back through the copy of the thread that asks for it.               *)
(***************************************************************************)
EXTENDS Paginacion, FiniteSetTheorems, SequenceTheorems, WellFoundedInduction, TLAPS

-----------------------------------------------------------------------------
(* Lists.                                                                  *)

\* A set of natural numbers that is not empty has a least element.
LEMMA MinEs ==
  ASSUME NEW T, T \subseteq Nat, T # {}
  PROVE  Min(T) \in T /\ \A j \in T : Min(T) <= j
<1>1. IsWellFoundedOn(OpToRel(<, Nat), Nat)
  BY NatLessThanWellFounded
<1>2. PICK i \in T : \A j \in T : ~ (<<j, i>> \in OpToRel(<, Nat))
  BY <1>1, WFMin
<1>3. ASSUME NEW j \in T PROVE i <= j
  <2>1. i \in Nat /\ j \in Nat
    OBVIOUS
  <2>2. ~ (<<j, i>> \in OpToRel(<, Nat))
    BY <1>2
  <2>3. ~ (j < i)
    BY <2>1, <2>2 DEF OpToRel
  <2>. QED BY <2>1, <2>3
<1>. QED BY <1>3 DEF Min

\* A finite set of numbers in order loses none and repeats none.
LEMMA EnOrdenEs ==
  ASSUME NEW S, IsFiniteSet(S), S \subseteq Int
  PROVE  /\ EnOrden(S) \in Seq(S) /\ Len(EnOrden(S)) = Cardinality(S)
         /\ Range(EnOrden(S)) = S /\ IsInjective(EnOrden(S))
<1>. DEFINE Antes(a) == {b \in S : b < a}
            f == [a \in S |-> Cardinality(Antes(a))]
<1>1. PICK m \in Nat : m = Cardinality(S)
  BY FS_CardinalityType
<1>2. \A a \in S : IsFiniteSet(Antes(a)) /\ Cardinality(Antes(a)) \in 0..(m - 1)
  <2>1. TAKE a \in S
  <2>2. Antes(a) \in SUBSET (S \ {a})
    OBVIOUS
  <2>3. IsFiniteSet(S \ {a}) /\ Cardinality(S \ {a}) = m - 1
    BY <1>1, FS_RemoveElement
  <2>. HIDE DEF Antes
  <2>4. IsFiniteSet(Antes(a)) /\ Cardinality(Antes(a)) <= m - 1
    BY <2>2, <2>3, FS_Subset
  <2>5. Cardinality(Antes(a)) \in Nat
    BY <2>4, FS_CardinalityType
  <2>. QED BY <2>4, <2>5
<1>3. ASSUME NEW a \in S, NEW b \in S, a < b
      PROVE  Cardinality(Antes(a)) < Cardinality(Antes(b))
  <2>1. Antes(a) \cup {a} \in SUBSET Antes(b) /\ a \notin Antes(a)
    <3>1. a \in Int /\ b \in Int /\ \A c \in S : c \in Int
      OBVIOUS
    <3>2. a \notin Antes(a) /\ a \in Antes(b)
      BY <3>1, <1>3
    <3>3. \A c \in Antes(a) : c \in Antes(b)
      BY <3>1, <1>3
    <3>. QED BY <3>2, <3>3
  <2>. HIDE DEF Antes
  <2>2. IsFiniteSet(Antes(a)) /\ IsFiniteSet(Antes(b))
        /\ Cardinality(Antes(a)) \in Nat /\ Cardinality(Antes(b)) \in Nat
    BY <1>2
  <2>3. Cardinality(Antes(a) \cup {a}) = Cardinality(Antes(a)) + 1
    BY <2>1, <2>2, FS_AddElement
  <2>4. Cardinality(Antes(a) \cup {a}) <= Cardinality(Antes(b))
    BY <2>1, <2>2, FS_Subset
  <2>. QED BY <2>2, <2>3, <2>4
<1>4. f \in [S -> 0..(m - 1)] /\ \A a \in S : f[a] = Cardinality(Antes(a))
  <2>. HIDE DEF Antes
  <2>. QED BY <1>2
<1>5. \A a, b \in S : f[a] = f[b] => a = b
  <2>1. SUFFICES ASSUME NEW a \in S, NEW b \in S, a # b
                 PROVE  f[a] # f[b]
    OBVIOUS
  <2>2. a < b \/ b < a
    BY <2>1
  <2>. HIDE DEF Antes, f
  <2>3. Cardinality(Antes(a)) < Cardinality(Antes(b)) \/ Cardinality(Antes(b)) < Cardinality(Antes(a))
    BY <1>3, <2>2
  <2>4. Cardinality(Antes(a)) \in Nat /\ Cardinality(Antes(b)) \in Nat
    BY <1>2
  <2>. QED BY <2>3, <2>4, <1>4
<1>6. \A k \in 0..(m - 1) : \E a \in S : f[a] = k
  <2>. HIDE DEF f
  <2>1. f \in Injection(S, 0..(m - 1))
    BY <1>4, <1>5 DEF Injection, IsInjective
  <2>2. 0 \in Int /\ m - 1 \in Int
    OBVIOUS
  <2>3. IsFiniteSet(0..(m - 1)) /\ Cardinality(0..(m - 1)) = IF 0 > m - 1 THEN 0 ELSE m - 1 - 0 + 1
    BY <2>2, FS_Interval
  <2>4. Cardinality(0..(m - 1)) = m
    BY <2>3
  <2>5. f \in Surjection(S, 0..(m - 1))
    BY <2>1, <2>3, <2>4, <1>1, FS_Injection
  <2>. QED BY <2>5 DEF Surjection
<1>7. PICK s : s = EnOrden(S)
  OBVIOUS
<1>8. s = [k \in 1..m |-> CHOOSE a \in S : Cardinality(Antes(a)) = k - 1]
  BY <1>1, <1>7 DEF EnOrden
<1>9. ASSUME NEW k \in 1..m PROVE s[k] \in S /\ f[s[k]] = k - 1
  <2>1. s[k] = CHOOSE a \in S : Cardinality(Antes(a)) = k - 1
    BY <1>8
  <2>. HIDE DEF Antes, f
  <2>2. PICK a \in S : f[a] = k - 1
    BY <1>6
  <2>3. Cardinality(Antes(a)) = k - 1
    BY <1>4, <2>2
  <2>4. s[k] \in S /\ Cardinality(Antes(s[k])) = k - 1
    BY <2>1, <2>3
  <2>. QED BY <1>4, <2>4
<1>10. DOMAIN s = 1..m /\ s = [k \in 1..m |-> s[k]]
  BY <1>8, SMTT(30)
<1>. HIDE DEF Antes, f
<1>11. s \in Seq(S) /\ Len(s) = m
  BY <1>9, <1>10
<1>12. Range(s) = S
  <2>1. \A a \in S : f[a] + 1 \in 1..m /\ s[f[a] + 1] = a
    <3>1. TAKE a \in S
    <3>2. f[a] \in 0..(m - 1)
      BY <1>4
    <3>3. f[a] + 1 \in 1..m /\ (f[a] + 1) - 1 = f[a]
      BY <3>2
    <3>4. s[f[a] + 1] \in S /\ f[s[f[a] + 1]] = f[a]
      BY <1>9, <3>3
    <3>. QED BY <1>5, <3>3, <3>4
  <2>. QED BY <1>9, <1>10, <2>1 DEF Range
<1>13. IsInjective(s)
  <2>1. \A j, k \in 1..m : s[j] = s[k] => j = k
    BY <1>9
  <2>. QED BY <1>10, <2>1 DEF IsInjective
<1>. QED BY <1>1, <1>7, <1>11, <1>12, <1>13

\* Taking one position out.
LEMMA RemoveAtEs ==
  ASSUME NEW E, NEW s \in Seq(E), NEW i \in 1..Len(s), IsInjective(s), NEW u, u = RemoveAt(s, i)
  PROVE  /\ u \in Seq(E) /\ IsInjective(u) /\ Len(u) = Len(s) - 1
         /\ Range(u) \subseteq Range(s) /\ s[i] \notin Range(u)
<1>1. PICK n \in Nat : n = Len(s)
  OBVIOUS
<1>2. PICK a, b : a = SubSeq(s, 1, i - 1) /\ b = SubSeq(s, i + 1, Len(s))
  OBVIOUS
<1>3. /\ a \in Seq(E) /\ Len(a) = i - 1 /\ \A k \in 1..(i - 1) : a[k] = s[k]
      /\ b \in Seq(E) /\ Len(b) = n - i /\ \A k \in 1..(n - i) : b[k] = s[i + k]
  BY <1>1, <1>2
<1>4. u = a \o b
  BY <1>2 DEF RemoveAt
<1>5. /\ u \in Seq(E) /\ Len(u) = n - 1
      /\ \A k \in 1..(n - 1) : u[k] = IF k < i THEN s[k] ELSE s[k + 1]
  <2>1. u \in Seq(E) /\ Len(u) = Len(a) + Len(b)
    BY <1>3, <1>4
  <2>2. Len(u) = n - 1
    BY <1>1, <1>3, <2>1
  <2>3. ASSUME NEW k \in 1..(n - 1), k < i PROVE u[k] = s[k]
    BY <1>1, <1>3, <1>4, <2>3
  <2>4. ASSUME NEW k \in 1..(n - 1), ~ (k < i) PROVE u[k] = s[k + 1]
    <3>1. k - (i - 1) \in 1..(n - i) /\ i + (k - (i - 1)) = k + 1
      BY <1>1, <2>4
    <3>2. u[k] = b[k - (i - 1)]
      BY <1>1, <1>3, <1>4, <2>4
    <3>. QED BY <1>3, <3>1, <3>2
  <2>. QED BY <2>1, <2>2, <2>3, <2>4
<1>6. \A j, k \in 1..n : s[j] = s[k] => j = k
  BY <1>1 DEF IsInjective
<1>7. \A j, k \in 1..(n - 1) : u[j] = u[k] => j = k
  BY <1>1, <1>5, <1>6
<1>8. \A k \in 1..(n - 1) : u[k] # s[i] /\ \E j \in 1..n : u[k] = s[j]
  BY <1>1, <1>5, <1>6
<1>9. DOMAIN u = 1..(n - 1) /\ DOMAIN s = 1..n
  BY <1>1, <1>5
<1>10. IsInjective(u)
  BY <1>7, <1>9 DEF IsInjective
<1>11. Range(u) \subseteq Range(s) /\ s[i] \notin Range(u)
  BY <1>8, <1>9 DEF Range
<1>. QED BY <1>1, <1>5, <1>10, <1>11

\* An entry leaves the TLB, and no other one.
LEMMA QuitaEs ==
  ASSUME NEW E, NEW s \in Seq(E), IsInjective(s), NEW e, NEW u, u = Quita(s, e)
  PROVE  /\ u \in Seq(E) /\ IsInjective(u) /\ Len(u) <= Len(s)
         /\ Range(u) \subseteq Range(s) /\ e \notin Range(u)
<1>1. PICK n \in Nat : n = Len(s)
  OBVIOUS
<1>2. PICK K : K = {k \in 1..Len(s) : s[k] = e}
  OBVIOUS
<1>3. CASE K = {}
  <2>1. u = s
    BY <1>2, <1>3 DEF Quita
  <2>2. \A k \in 1..n : s[k] # e
    BY <1>1, <1>2, <1>3
  <2>. QED BY <1>1, <2>1, <2>2 DEF Range
<1>4. CASE K # {}
  <2>1. u = RemoveAt(s, Min(K))
    BY <1>2, <1>4 DEF Quita
  <2>2. K \subseteq Nat
    BY <1>1, <1>2
  <2>3. Min(K) \in K
    BY <2>2, <1>4, MinEs
  <2>4. Min(K) \in 1..Len(s) /\ s[Min(K)] = e
    BY <1>2, <2>3
  <2>5. PICK i \in 1..Len(s) : i = Min(K)
    BY <2>4
  <2>6. u = RemoveAt(s, i) /\ s[i] = e
    BY <2>1, <2>4, <2>5
  <2>7. /\ u \in Seq(E) /\ IsInjective(u) /\ Len(u) = Len(s) - 1
        /\ Range(u) \subseteq Range(s) /\ s[i] \notin Range(u)
    BY <2>6, RemoveAtEs
  <2>. QED BY <1>1, <2>6, <2>7
<1>. QED BY <1>3, <1>4

\* The entries of a carpincho leave the TLB, and no other ones.
LEMMA SinLasDeEs ==
  ASSUME NEW s \in Seq(Pids \X Ids), IsInjective(s), NEW p, NEW u, u = SinLasDe(s, p)
  PROVE  /\ u \in Seq(Pids \X Ids) /\ IsInjective(u) /\ Len(u) <= Len(s)
         /\ Range(u) = {e \in Range(s) : e[1] # p}
<1>1. PICK n \in Nat : n = Len(s)
  OBVIOUS
<1>2. PICK K : K = {k \in 1..Len(s) : s[k][1] # p}
  OBVIOUS
<1>3. K \in SUBSET (1..n) /\ K \subseteq Int
  BY <1>1, <1>2
<1>4. IsFiniteSet(1..n) /\ Cardinality(1..n) = n
  <2>1. 1 \in Int /\ n \in Int
    OBVIOUS
  <2>2. IsFiniteSet(1..n) /\ Cardinality(1..n) = IF 1 > n THEN 0 ELSE n - 1 + 1
    BY <2>1, FS_Interval
  <2>. QED BY <2>2
<1>5. IsFiniteSet(K) /\ Cardinality(K) <= n
  BY <1>3, <1>4, FS_Subset
<1>6. PICK ks : ks = EnOrden(K)
  OBVIOUS
<1>7. /\ ks \in Seq(K) /\ Len(ks) = Cardinality(K) /\ Range(ks) = K /\ IsInjective(ks)
  BY <1>3, <1>5, <1>6, EnOrdenEs
<1>8. PICK m \in Nat : m = Len(ks)
  BY <1>7
<1>9. /\ \A j \in 1..m : ks[j] \in K
      /\ \A i, j \in 1..m : ks[i] = ks[j] => i = j
      /\ \A k \in K : \E j \in 1..m : ks[j] = k
  <2>1. DOMAIN ks = 1..m
    BY <1>7, <1>8
  <2>2. \A j \in 1..m : ks[j] \in Range(ks)
    BY <2>1 DEF Range
  <2>3. \A k \in Range(ks) : \E j \in 1..m : ks[j] = k
    BY <2>1 DEF Range
  <2>4. \A i, j \in 1..m : ks[i] = ks[j] => i = j
    BY <1>7, <2>1 DEF IsInjective
  <2>. QED BY <1>7, <2>2, <2>3, <2>4
<1>10. u = [j \in 1..m |-> s[ks[j]]]
  BY <1>2, <1>6, <1>8 DEF SinLasDe
<1>11. \A j \in 1..m : ks[j] \in 1..n /\ u[j] = s[ks[j]] /\ u[j] \in Pids \X Ids
  <2>1. \A k \in 1..n : s[k] \in Pids \X Ids
    BY <1>1
  <2>2. TAKE j \in 1..m
  <2>3. ks[j] \in K
    BY <1>9
  <2>4. ks[j] \in 1..n
    BY <1>3, <2>3
  <2>5. u[j] = s[ks[j]]
    BY <1>10
  <2>. QED BY <2>1, <2>4, <2>5
<1>12. u \in Seq(Pids \X Ids) /\ Len(u) = m /\ DOMAIN u = 1..m
  <2>1. u = [j \in 1..m |-> u[j]]
    BY <1>10
  <2>2. [j \in 1..m |-> u[j]] \in Seq(Pids \X Ids)
    BY <1>11
  <2>. QED BY <2>1, <2>2, <1>10
<1>13. IsInjective(u)
  <2>1. \A i, j \in 1..n : s[i] = s[j] => i = j
    BY <1>1 DEF IsInjective
  <2>2. ASSUME NEW i \in 1..m, NEW j \in 1..m, u[i] = u[j] PROVE i = j
    <3>1. ks[i] \in 1..n /\ ks[j] \in 1..n /\ s[ks[i]] = s[ks[j]]
      BY <1>11, <2>2
    <3>2. ks[i] = ks[j]
      BY <2>1, <3>1
    <3>. QED BY <1>9, <3>2
  <2>. QED BY <1>12, <2>2 DEF IsInjective
<1>14. Range(u) = {e \in Range(s) : e[1] # p}
  <2>1. DOMAIN s = 1..n
    BY <1>1
  <2>2. ASSUME NEW j \in 1..m PROVE u[j] \in Range(s) /\ u[j][1] # p
    <3>1. ks[j] \in K /\ u[j] = s[ks[j]] /\ ks[j] \in 1..n
      BY <1>9, <1>11
    <3>2. s[ks[j]][1] # p
      BY <1>2, <3>1
    <3>. QED BY <2>1, <3>1, <3>2 DEF Range
  <2>3. ASSUME NEW k \in 1..n, s[k][1] # p PROVE \E j \in 1..m : u[j] = s[k]
    <3>1. k \in K
      BY <1>1, <1>2, <2>3
    <3>. QED BY <1>9, <1>11, <3>1
  <2>4. Range(u) = {u[j] : j \in 1..m}
    BY <1>12 DEF Range
  <2>5. Range(s) = {s[k] : k \in 1..n}
    BY <2>1 DEF Range
  <2>6. \A e \in Range(u) : e \in Range(s) /\ e[1] # p
    BY <2>2, <2>4
  <2>7. \A e \in Range(s) : e[1] # p => e \in Range(u)
    BY <2>3, <2>4, <2>5
  <2>. QED BY <2>6, <2>7
<1>. QED BY <1>1, <1>5, <1>7, <1>8, <1>12, <1>13, <1>14

-----------------------------------------------------------------------------
(* The types of the state and of the locals of the threads.                *)

\* The requests a thread serves: "alojado" once its new pages are made.
Pedidos == {"ninguno", "acceso", "libera", "alloc", "alojado"}

\* The locals of a thread.
TipoDeHilo ==
  [fase : Fases, pedido : Pedidos, pag : Nat, vuelve : {"", "falta", "escribe"},
   victima : (Pids \X Ids) \cup {<<>>}, marco : Marcos \cup {SinMarco},
   lista : Seq(Marcos), nuevas : Seq(Ids), visitadas : SUBSET Ids]

\* The thread holds the swap, visits a page, writes new pages.
Dentro(t) == hilo[t].fase \in {"saca", "quita"}
Falta(t) ==
  hilo[t].fase \in {"falta", "asigna"} \/ (Dentro(t) /\ hilo[t].vuelve = "falta")
Visita(t) == Falta(t) \/ hilo[t].fase \in {"agrega", "usa", "copia"}
Escribiendo(t) ==
  hilo[t].fase \in {"escribe", "escribeEn", "ocupa"} \/ (Dentro(t) /\ hilo[t].vuelve = "escribe")

\* The new pages that have not been written.
Pendiente(t, i) ==
  /\ hilo[t].fase # "agregaNuevas"
  /\ \E k \in 1..Len(hilo[t].nuevas) :
       hilo[t].nuevas[k] = i /\ (Escribiendo(t) => hilo[t].pag < k)

\* What the locals of a thread say in each phase of its request: who holds the
\* swap, which pages it visits and writes, and what it still carries.
Forma(t) ==
  /\ Dentro(t) <=> swap = t
  /\ Dentro(t) => hilo[t].victima \in Pids \X Ids /\ hilo[t].vuelve # ""
  /\ hilo[t].fase \in {"saca", "quita", "asigna", "escribeEn", "ocupa"} => hilo[t].marco \in Marcos
  /\ Visita(t) => hilo[t].pag \in PaginasDe(t) \ Range(hilo[t].nuevas)
  /\ Escribiendo(t) =>
       /\ hilo[t].pag <= Len(hilo[t].nuevas)
       /\ hilo[t].fase \notin {"escribe", "ocupa"} => hilo[t].pag < Len(hilo[t].nuevas)
  /\ hilo[t].fase = "ocupa" => hilo[t].pag >= 1
  /\ Range(hilo[t].nuevas) \subseteq PaginasDe(t) /\ IsInjective(hilo[t].nuevas)
  /\ Escribiendo(t) \/ hilo[t].fase \in {"empieza", "agregaNuevas"} => hilo[t].nuevas # <<>>
  /\ hilo[t].fase \in {"afuera", "libre"} =>
       hilo[t].pedido = "ninguno"
  /\ hilo[t].fase \in {"afuera", "libre", "reserva", "cierraMarcos", "cierraLista", "cierraSwap",
                       "cierraTLB", "fin"} => hilo[t].nuevas = <<>>
  /\ hilo[t].visitadas # {} => hilo[t].pedido = "libera"
  /\ hilo[t].pedido # "alojado" => hilo[t].nuevas = <<>>
  /\ hilo[t].visitadas \subseteq PaginasDe(t)
  /\ t \in carpinchos <=> hilo[t].fase \notin {"afuera", "cierraSwap", "cierraTLB", "fin"}
  /\ IsInjective(tabla_de_paginas[t]) /\ \A i \in PaginasDe(t) : i < contadorPag[t]

\* A present page has a frame.
TipoDePagina ==
  {x \in [presente : BOOLEAN, marco : Marcos \cup {SinMarco}, modificado : BOOLEAN,
          uso : BOOLEAN] : x.presente => x.marco \in Marcos}
\* The types of the variables.
TiposPag ==
  /\ config \in Configuraciones /\ carpinchos \subseteq Pids
  /\ tabla_de_paginas \in [Pids -> Seq(Ids)]
  /\ pagina \in [Pids -> [Ids -> TipoDePagina]]
  /\ contadorPag \in [Pids -> 0..MaxPaginas]
  /\ punteroClock \in [Pids \cup {Nadie} -> Nat]
  /\ marcos \in [Marcos -> [proceso_asignado : Pids \cup {Nadie}, estaLibre : BOOLEAN]]
  /\ memoriaPrincipal \in [Marcos -> Contenidos]
  /\ guardado \in [Pids -> [Ids -> Contenidos]]
  /\ copia \in [Pids -> Contenidos]
  /\ swap \in Pids \cup {Nadie} /\ marcos_sem \in Pids \cup {Nadie}
  /\ hilo \in [Pids -> TipoDeHilo] /\ pedidos \in Nat
  /\ cuotaTrunca \in BOOLEAN /\ caida \in {"no", "sinVictima", "punteroClock", "sinMarco", "listaCorta"}

ITipos == TiposPag /\ \A t \in Pids : Forma(t)

\* The thread of p goes on with these locals, and the other threads stay.
Pasa(p, fase, pedido, pag, vuelve, victima, marco, lista, nuevas, visitadas) ==
  /\ hilo' \in [Pids -> TipoDeHilo]
  /\ \A q \in Pids \ {p} : hilo'[q] = hilo[q]
  /\ hilo'[p].fase = fase /\ hilo'[p].pedido = pedido /\ hilo'[p].pag = pag
  /\ hilo'[p].vuelve = vuelve /\ hilo'[p].victima = victima /\ hilo'[p].marco = marco
  /\ hilo'[p].lista = lista /\ hilo'[p].nuevas = nuevas /\ hilo'[p].visitadas = visitadas

\* The locals of a thread, one by one.
LEMMA Locales ==
  ASSUME ITipos, NEW p \in Pids
  PROVE  /\ hilo[p] = [fase |-> hilo[p].fase, pedido |-> hilo[p].pedido, pag |-> hilo[p].pag,
                       vuelve |-> hilo[p].vuelve, victima |-> hilo[p].victima,
                       marco |-> hilo[p].marco, lista |-> hilo[p].lista,
                       nuevas |-> hilo[p].nuevas, visitadas |-> hilo[p].visitadas]
         /\ hilo[p].fase \in Fases /\ hilo[p].pedido \in Pedidos /\ hilo[p].pag \in Nat
         /\ hilo[p].vuelve \in {"", "falta", "escribe"}
         /\ hilo[p].victima \in (Pids \X Ids) \cup {<<>>}
         /\ hilo[p].marco \in Marcos \cup {SinMarco} /\ hilo[p].lista \in Seq(Marcos)
         /\ hilo[p].nuevas \in Seq(Ids) /\ hilo[p].visitadas \in SUBSET Ids
<1>1. hilo[p] \in TipoDeHilo
  BY DEF ITipos, TiposPag
<1>. QED BY <1>1 DEF TipoDeHilo

\* One thread goes on, in terms of its locals.
LEMMA PasaBien ==
  ASSUME ITipos, NEW p \in Pids, NEW h \in TipoDeHilo, hilo' = [hilo EXCEPT ![p] = h]
  PROVE  Pasa(p, h.fase, h.pedido, h.pag, h.vuelve, h.victima, h.marco, h.lista, h.nuevas,
              h.visitadas)
<1>1. hilo \in [Pids -> TipoDeHilo]
  BY DEF ITipos, TiposPag
<1>2. hilo' \in [Pids -> TipoDeHilo] /\ hilo'[p] = h /\ \A q \in Pids \ {p} : hilo'[q] = hilo[q]
  BY <1>1
<1>. QED BY <1>2 DEF Pasa

\* The other threads stay as they are.
LEMMA FormaDeOtros ==
  ASSUME ITipos, NEW p \in Pids,
         \A q \in Pids \ {p} :
           /\ hilo'[q] = hilo[q] /\ tabla_de_paginas'[q] = tabla_de_paginas[q]
           /\ contadorPag'[q] = contadorPag[q]
           /\ q \in carpinchos' <=> q \in carpinchos
           /\ swap' = q <=> swap = q
  PROVE  \A q \in Pids \ {p} : Forma(q)'
<1>1. TAKE q \in Pids \ {p}
<1>2. Forma(q)
  BY DEF ITipos
<1>. QED BY <1>2 DEF Forma, Visita, Falta, Dentro, Escribiendo, PaginasDe

\* Some frames in order are a list of frames.
LEMMA ListasDeMarcos ==
  /\ \A S \in SUBSET Marcos :
       /\ EnOrden(S) \in Seq(Marcos) /\ Range(EnOrden(S)) = S /\ IsInjective(EnOrden(S))
       /\ IsFiniteSet(S) /\ Len(EnOrden(S)) = Cardinality(S)
  /\ \A p : EnOrden(MarcosDe(p)) \in Seq(Marcos)
  /\ \A p : EnOrden({m \in MarcosDe(p) : marcos[m].estaLibre}) \in Seq(Marcos)
  /\ <<>> \in Seq(Marcos)
<1>1. IsFiniteSet(Marcos) /\ Marcos \subseteq Int
  <2>1. 1 \in Int /\ CantMarcos \in Int
    BY PaginacionOK
  <2>. QED BY <2>1, FS_Interval DEF Marcos
<1>2. ASSUME NEW S \in SUBSET Marcos
      PROVE  /\ EnOrden(S) \in Seq(Marcos) /\ Range(EnOrden(S)) = S /\ IsInjective(EnOrden(S))
             /\ IsFiniteSet(S) /\ Len(EnOrden(S)) = Cardinality(S)
  <2>1. IsFiniteSet(S) /\ S \subseteq Int
    BY <1>1, FS_Subset
  <2>2. /\ EnOrden(S) \in Seq(S) /\ Range(EnOrden(S)) = S /\ IsInjective(EnOrden(S))
        /\ Len(EnOrden(S)) = Cardinality(S)
    BY <2>1, EnOrdenEs
  <2>3. \A u \in Seq(S) : u \in Seq(Marcos)
    OBVIOUS
  <2>. QED BY <2>1, <2>2, <2>3
<1>3. \A p : MarcosDe(p) \in SUBSET Marcos /\ {m \in MarcosDe(p) : marcos[m].estaLibre} \in SUBSET Marcos
  BY DEF MarcosDe
<1>. QED BY <1>2, <1>3

\* The pages of a carpincho are page ids.
LEMMA PaginasSon ==
  ASSUME ITipos, NEW p \in Pids
  PROVE  PaginasDe(p) \subseteq Ids
<1>1. tabla_de_paginas[p] \in Seq(Ids)
  BY DEF ITipos, TiposPag
<1>. QED BY <1>1 DEF PaginasDe, Range

\* The frames of a quota.
LEMMA TomadosEs ==
  ASSUME ITipos, NEW p \in Pids
  PROVE  /\ Tomados(p) \in Seq(Marcos) /\ <<>> \in Seq(Marcos)
         /\ Tomados(p) = EnOrden(MarcosDe(p)) \/
              \E k \in Nat : k <= Len(hilo[p].lista) /\ Tomados(p) = SubSeq(hilo[p].lista, 1, k)
<1>1. EnOrden(MarcosDe(p)) \in Seq(Marcos) /\ <<>> \in Seq(Marcos)
  BY ListasDeMarcos
<1>2. PICK s \in Seq(Marcos) : s = hilo[p].lista
  BY Locales
<1>3. PICK n \in Nat, c \in Nat : n = Len(s) /\ c = marcosMaximos
  <2>1. Len(s) \in Nat
    OBVIOUS
  <2>2. marcosMaximos \in Nat
    BY PaginacionOK DEF ITipos, TiposPag, marcosMaximos
  <2>. QED BY <2>1, <2>2
<1>4. Min({c, n}) \in {c, n} /\ \A j \in {c, n} : Min({c, n}) <= j
  BY <1>3, MinEs
<1>5. PICK k \in Nat : k = Min({c, n}) /\ k <= n
  BY <1>3, <1>4
<1>6. SubSeq(s, 1, k) \in Seq(Marcos)
  <2>1. \A j \in 1..k : s[j] \in Marcos
    BY <1>3, <1>5
  <2>2. SubSeq(s, 1, k) = [j \in 1..k |-> s[j]]
    BY <1>3, <1>5
  <2>. QED BY <2>1, <2>2
<1>7. Tomados(p) \in {EnOrden(MarcosDe(p)), SubSeq(s, 1, k)}
  BY <1>2, <1>3, <1>5 DEF Tomados
<1>. QED BY <1>1, <1>2, <1>3, <1>5, <1>6, <1>7

\* The candidates to go are present pages.
LEMMA CandidatasSon ==
  ASSUME ITipos, NEW p \in Pids, NEW c \in Candidatas(p), NecesitaMarco(p)
  PROVE  /\ c \in Pids \X Ids /\ c[1] \in carpinchos /\ c[2] \in Presentes(c[1])
         /\ FIJA => c[1] = p
         /\ MarcoDe(c) \in Marcos
<1>1. /\ c \in (IF FIJA THEN {p} ELSE carpinchos) \X Ids /\ c[2] \in Presentes(c[1])
      /\ carpinchos \subseteq Pids /\ pagina \in [Pids -> [Ids -> TipoDePagina]]
  BY DEF Candidatas, ITipos, TiposPag
<1>2. c \in Pids \X Ids /\ c[1] \in Pids /\ c[2] \in Ids /\ (FIJA => c[1] = p)
  BY <1>1
<1>3. pagina[c[1]][c[2]] \in TipoDePagina /\ pagina[c[1]][c[2]].presente
  BY <1>1, <1>2 DEF Presentes
<1>4. MarcoDe(c) \in Marcos
  BY <1>3 DEF MarcoDe, TipoDePagina
<1>5. c[1] \in carpinchos
  <2>1. Forma(p) /\ hilo[p].fase \in {"falta", "escribe"}
    BY DEF ITipos, NecesitaMarco
  <2>2. p \in carpinchos
    BY <2>1 DEF Forma
  <2>. QED BY <1>1, <2>2
<1>. QED BY <1>1, <1>2, <1>4, <1>5

-----------------------------------------------------------------------------
(* What a step leaves of pages, frames and contents.                       *)

\* One page changes, and the others stay.
PaginaCambia(p, i, x) ==
  /\ pagina' \in [Pids -> [Ids -> TipoDePagina]] /\ pagina'[p][i] = x
  /\ \A q \in Pids, j \in Ids : q # p \/ j # i => pagina'[q][j] = pagina[q][j]

\* The fields of one page are set.
LEMMA CambiaPagina ==
  ASSUME ITipos, NEW p \in Pids, NEW i \in Ids, NEW x \in TipoDePagina,
         pagina' = [pagina EXCEPT ![p][i] = x]
  PROVE  PaginaCambia(p, i, x)
<1>1. pagina \in [Pids -> [Ids -> TipoDePagina]]
  BY DEF ITipos, TiposPag
<1>. QED BY <1>1 DEF PaginaCambia

\* One frame changes, and the others stay.
MarcoCambia(m, x) ==
  /\ marcos' \in [Marcos -> [proceso_asignado : Pids \cup {Nadie}, estaLibre : BOOLEAN]]
  /\ marcos'[m] = x /\ \A n \in Marcos \ {m} : marcos'[n] = marcos[n]

\* The fields of one frame are set.
LEMMA CambiaMarco ==
  ASSUME ITipos, NEW m \in Marcos, NEW x, marcos' = [marcos EXCEPT ![m] = x],
         x \in [proceso_asignado : Pids \cup {Nadie}, estaLibre : BOOLEAN]
  PROVE  MarcoCambia(m, x)
<1>1. marcos \in [Marcos -> [proceso_asignado : Pids \cup {Nadie}, estaLibre : BOOLEAN]]
  BY DEF ITipos, TiposPag
<1>. QED BY <1>1 DEF MarcoCambia

\* Some frames are given to w or left free, and the others stay.
MarcosCambian(S, x) ==
  /\ marcos' \in [Marcos -> [proceso_asignado : Pids \cup {Nadie}, estaLibre : BOOLEAN]]
  /\ \A n \in Marcos : marcos'[n] = IF n \in S THEN x ELSE marcos[n]

\* The fields of some frames are set.
LEMMA CambianMarcos ==
  ASSUME ITipos, NEW S, NEW x,
         x \in [proceso_asignado : Pids \cup {Nadie}, estaLibre : BOOLEAN],
         marcos' = [m \in Marcos |-> IF m \in S THEN x ELSE marcos[m]]
  PROVE  MarcosCambian(S, x)
<1>1. marcos \in [Marcos -> [proceso_asignado : Pids \cup {Nadie}, estaLibre : BOOLEAN]]
  BY DEF ITipos, TiposPag
<1>. QED BY <1>1 DEF MarcosCambian

\* The content of page i of p is written on frame m, and every other copy of it
\* is old.
LEMMA EscribeEs ==
  ASSUME ITipos, NEW p \in Pids, NEW i \in Ids, NEW m, Escribe(p, i, m)
  PROVE  /\ memoriaPrincipal' \in [Marcos -> Contenidos]
         /\ guardado' \in [Pids -> [Ids -> Contenidos]]
         /\ copia' \in [Pids -> Contenidos]
         /\ m \in Marcos => memoriaPrincipal'[m] = <<p, i>>
         /\ \A n \in Marcos : n # m /\ memoriaPrincipal[n] # <<p, i>> =>
              memoriaPrincipal'[n] = memoriaPrincipal[n]
         /\ \A q \in Pids, j \in Ids : q # p \/ j # i => guardado'[q][j] = guardado[q][j]
         /\ \A q \in Pids : copia[q] # <<p, i>> => copia'[q] = copia[q]
<1>1. /\ memoriaPrincipal \in [Marcos -> Contenidos] /\ guardado \in [Pids -> [Ids -> Contenidos]]
      /\ copia \in [Pids -> Contenidos] /\ Vieja \in Contenidos /\ <<p, i>> \in Contenidos
  BY DEF ITipos, TiposPag, Contenidos
<1>2. \A c \in Contenidos : Envejece(c, p, i) \in Contenidos /\ (c # <<p, i>> => Envejece(c, p, i) = c)
  BY <1>1 DEF Envejece
<1>3. /\ memoriaPrincipal' = [n \in Marcos |->
           IF n = m THEN <<p, i>> ELSE Envejece(memoriaPrincipal[n], p, i)]
      /\ guardado' = [guardado EXCEPT ![p][i] = Vieja]
      /\ copia' = [q \in Pids |-> Envejece(copia[q], p, i)]
  BY DEF Escribe
<1>4. /\ memoriaPrincipal' \in [Marcos -> Contenidos]
      /\ m \in Marcos => memoriaPrincipal'[m] = <<p, i>>
      /\ \A n \in Marcos : n # m /\ memoriaPrincipal[n] # <<p, i>> =>
           memoriaPrincipal'[n] = memoriaPrincipal[n]
  BY <1>1, <1>2, <1>3
<1>5. /\ guardado' \in [Pids -> [Ids -> Contenidos]]
      /\ \A q \in Pids, j \in Ids : q # p \/ j # i => guardado'[q][j] = guardado[q][j]
  BY <1>1, <1>3
<1>6. /\ copia' \in [Pids -> Contenidos]
      /\ \A q \in Pids : copia[q] # <<p, i>> => copia'[q] = copia[q]
  BY <1>1, <1>2, <1>3
<1>. QED BY <1>4, <1>5, <1>6

\* The page a thread visits is a page of its carpincho.
LEMMA VisitaEs ==
  ASSUME ITipos, NEW p \in Pids, Visita(p)
  PROVE  /\ hilo[p].pag \in Ids /\ hilo[p].pag \in PaginasDe(p) \ Range(hilo[p].nuevas)
         /\ pagina[p][hilo[p].pag] \in TipoDePagina
<1>1. hilo[p].pag \in PaginasDe(p) \ Range(hilo[p].nuevas)
  BY DEF Forma, ITipos
<1>2. hilo[p].pag \in Ids
  BY <1>1, PaginasSon
<1>. QED BY <1>1, <1>2 DEF ITipos, TiposPag

\* A thread that evicts.
LEMMA DentroEs ==
  ASSUME ITipos, NEW p \in Pids, Dentro(p)
  PROVE  /\ swap = p /\ hilo[p].marco \in Marcos /\ hilo[p].vuelve \in {"falta", "escribe"}
         /\ \E q \in Pids, i \in Ids : hilo[p].victima = <<q, i>>
<1>1. Forma(p) /\ hilo[p].vuelve \in {"", "falta", "escribe"}
  BY Locales DEF ITipos
<1>2. swap = p /\ hilo[p].marco \in Marcos /\ hilo[p].vuelve # ""
  BY <1>1 DEF Forma, Dentro
<1>3. hilo[p].victima \in Pids \X Ids
  BY <1>1 DEF Forma
<1>4. \E q \in Pids, i \in Ids : hilo[p].victima = <<q, i>>
  BY <1>3
<1>. QED BY <1>1, <1>2, <1>4

\* What the use of a page changes.
LEMMA FotoUsa ==
  ASSUME ITipos, NEW p \in Pids, Usa(p)
  PROVE  /\ hilo[p].pag \in Ids
         /\ \E x \in TipoDePagina :
              /\ PaginaCambia(p, hilo[p].pag, x)
              /\ x.presente = pagina[p][hilo[p].pag].presente
              /\ x.marco = pagina[p][hilo[p].pag].marco
              /\ \/ /\ x.modificado = pagina[p][hilo[p].pag].modificado
                    /\ UNCHANGED <<memoriaPrincipal, guardado, copia>>
                 \/ /\ x.modificado = TRUE
                    /\ Escribe(p, hilo[p].pag, pagina[p][hilo[p].pag].marco)
<1>1. PICK i \in Ids : i = hilo[p].pag /\ pagina[p][i] \in TipoDePagina
  BY VisitaEs DEF Usa, Visita
<1>2. pagina \in [Pids -> [Ids -> TipoDePagina]]
  BY DEF ITipos, TiposPag
<1>3. CASE /\ pagina' = [pagina EXCEPT ![p][i].uso = TRUE]
           /\ UNCHANGED <<memoriaPrincipal, guardado, copia>>
  <2>1. PICK x : x = [pagina[p][i] EXCEPT !.uso = TRUE]
    OBVIOUS
  <2>2. /\ x \in TipoDePagina /\ x.presente = pagina[p][i].presente
        /\ x.marco = pagina[p][i].marco /\ x.modificado = pagina[p][i].modificado
    BY <1>1, <2>1 DEF TipoDePagina
  <2>3. pagina' = [pagina EXCEPT ![p][i] = x]
    BY <1>2, <1>3, <2>1
  <2>4. PaginaCambia(p, i, x)
    BY <2>2, <2>3, CambiaPagina
  <2>. QED BY <1>1, <1>3, <2>2, <2>4
<1>4. CASE /\ pagina' = [pagina EXCEPT ![p][i].uso = TRUE, ![p][i].modificado = TRUE]
           /\ Escribe(p, i, pagina[p][i].marco)
  <2>1. PICK x : x = [pagina[p][i] EXCEPT !.uso = TRUE, !.modificado = TRUE]
    OBVIOUS
  <2>2. /\ x \in TipoDePagina /\ x.presente = pagina[p][i].presente
        /\ x.marco = pagina[p][i].marco /\ x.modificado = TRUE
    BY <1>1, <2>1 DEF TipoDePagina
  <2>3. pagina' = [pagina EXCEPT ![p][i] = x]
    BY <1>2, <1>4, <2>1
  <2>4. PaginaCambia(p, i, x)
    BY <2>2, <2>3, CambiaPagina
  <2>. QED BY <1>1, <1>4, <2>2, <2>4
<1>. QED BY <1>1, <1>3, <1>4 DEF Usa

\* What the way out of a victim changes.
LEMMA FotoSaca ==
  ASSUME ITipos, NEW p \in Pids, SacaVictima(p), NEW q \in Pids, NEW i \in Ids,
         hilo[p].victima = <<q, i>>
  PROVE  /\ \E x \in TipoDePagina :
              /\ PaginaCambia(q, i, x) /\ x.presente = FALSE
              /\ x.marco = pagina[q][i].marco /\ x.modificado = pagina[q][i].modificado
         /\ hilo[p].marco \in Marcos
         /\ MarcoCambia(hilo[p].marco,
                [proceso_asignado |-> IF FIJA THEN marcos[hilo[p].marco].proceso_asignado ELSE Nadie,
                 estaLibre |-> TRUE])
         /\ guardado' \in [Pids -> [Ids -> Contenidos]]
         /\ guardado'[q][i] = IF pagina[q][i].modificado THEN copia[p] ELSE guardado[q][i]
         /\ \A r \in Pids, j \in Ids : r # q \/ j # i => guardado'[r][j] = guardado[r][j]
<1>1. /\ pagina \in [Pids -> [Ids -> TipoDePagina]] /\ copia[p] \in Contenidos
      /\ guardado \in [Pids -> [Ids -> Contenidos]]
      /\ marcos \in [Marcos -> [proceso_asignado : Pids \cup {Nadie}, estaLibre : BOOLEAN]]
  BY DEF ITipos, TiposPag
<1>2. hilo[p].marco \in Marcos
  BY DentroEs DEF SacaVictima, Dentro
<1>3. PICK x : x = [pagina[q][i] EXCEPT !.presente = FALSE]
  OBVIOUS
<1>4. pagina[q][i] \in TipoDePagina
  BY <1>1
<1>5. /\ x \in TipoDePagina /\ x.presente = FALSE
      /\ x.marco = pagina[q][i].marco /\ x.modificado = pagina[q][i].modificado
  BY <1>3, <1>4 DEF TipoDePagina
<1>6. hilo[p].victima[1] = q /\ hilo[p].victima[2] = i
  OBVIOUS
<1>7. pagina' = [pagina EXCEPT ![q][i] = x]
  BY <1>1, <1>3, <1>6 DEF SacaVictima, DejaMarco
<1>8. PaginaCambia(q, i, x)
  BY <1>5, <1>7, CambiaPagina
<1>9. PICK m \in Marcos : m = hilo[p].marco
  BY <1>2
<1>10. PICK y : y = [proceso_asignado |-> IF FIJA THEN marcos[m].proceso_asignado ELSE Nadie,
                     estaLibre |-> TRUE]
  OBVIOUS
<1>11. y \in [proceso_asignado : Pids \cup {Nadie}, estaLibre : BOOLEAN]
  BY <1>1, <1>10
<1>12. marcos' = [marcos EXCEPT ![m] = y]
  <2>1. marcos' = [marcos EXCEPT ![m].estaLibre = TRUE,
                                 ![m].proceso_asignado = IF FIJA THEN @ ELSE Nadie]
    BY <1>9 DEF SacaVictima
  <2>2. marcos[m] \in [proceso_asignado : Pids \cup {Nadie}, estaLibre : BOOLEAN]
    BY <1>1
  <2>3. PICK w \in [proceso_asignado : Pids \cup {Nadie}, estaLibre : BOOLEAN] : w = marcos[m]
    BY <2>2
  <2>4. PICK z : z = [w EXCEPT !.estaLibre = TRUE,
                               !.proceso_asignado = IF FIJA THEN @ ELSE Nadie]
    OBVIOUS
  <2>5. z = [proceso_asignado |-> IF FIJA THEN w.proceso_asignado ELSE Nadie, estaLibre |-> TRUE]
    BY <2>4
  <2>6. marcos' = [marcos EXCEPT ![m] = z]
    BY <1>1, <2>1, <2>3, <2>4
  <2>. QED BY <1>10, <2>3, <2>5, <2>6
<1>13. MarcoCambia(m, y)
  BY <1>11, <1>12, CambiaMarco
<1>14. /\ guardado' \in [Pids -> [Ids -> Contenidos]]
       /\ guardado'[q][i] = IF pagina[q][i].modificado THEN copia[p] ELSE guardado[q][i]
       /\ \A r \in Pids, j \in Ids : r # q \/ j # i => guardado'[r][j] = guardado[r][j]
  BY <1>1, <1>6 DEF SacaVictima
<1>. QED BY <1>5, <1>8, <1>9, <1>10, <1>13, <1>14

\* What taking a frame changes.
LEMMA FotoAsigna ==
  ASSUME ITipos, NEW p \in Pids, AsignaMarco(p)
  PROVE  /\ hilo[p].pag \in Ids /\ hilo[p].marco \in Marcos
         /\ PaginaCambia(p, hilo[p].pag, [presente |-> TRUE, marco |-> hilo[p].marco,
                                          modificado |-> FALSE, uso |-> TRUE])
         /\ MarcoCambia(hilo[p].marco, [proceso_asignado |-> p, estaLibre |-> FALSE])
<1>1. hilo[p].fase = "asigna" /\ Forma(p)
  BY DEF AsignaMarco, ITipos
<1>2. hilo[p].marco \in Marcos
  BY <1>1 DEF Forma
<1>3. PICK i \in Ids, m \in Marcos : i = hilo[p].pag /\ m = hilo[p].marco
  BY <1>1, <1>2, VisitaEs DEF Visita, Falta
<1>4. PICK x : x = [presente |-> TRUE, marco |-> m, modificado |-> FALSE, uso |-> TRUE]
  OBVIOUS
<1>5. x \in TipoDePagina
  BY <1>4 DEF TipoDePagina
<1>6. pagina' = [pagina EXCEPT ![p][i] = x]
  BY <1>3, <1>4 DEF AsignaMarco
<1>7. PaginaCambia(p, i, x)
  BY <1>5, <1>6, CambiaPagina
<1>8. PICK y : y = [proceso_asignado |-> p, estaLibre |-> FALSE]
  OBVIOUS
<1>9. marcos' = [marcos EXCEPT ![m] = y]
  BY <1>3, <1>8 DEF AsignaMarco
<1>10. MarcoCambia(m, y)
  BY <1>8, <1>9, CambiaMarco
<1>. QED BY <1>3, <1>4, <1>7, <1>8, <1>10

\* What the writing of a new page changes.
LEMMA FotoEscribe ==
  ASSUME ITipos, NEW p \in Pids, NEW m \in Marcos, EscribeEn(p, m),
         hilo[p].pag < Len(hilo[p].nuevas)
  PROVE  \E i \in Ids :
           /\ i = hilo[p].nuevas[hilo[p].pag + 1] /\ hilo[p].pag + 1 \in 1..Len(hilo[p].nuevas)
           /\ \/ /\ marcos[m].estaLibre /\ Escribe(p, i, m) /\ marcos' = marcos
                 /\ \E x \in TipoDePagina :
                      /\ PaginaCambia(p, i, x) /\ x.presente = TRUE /\ x.marco = m
                      /\ x.modificado = pagina[p][i].modificado
              \/ /\ ~marcos[m].estaLibre
                 /\ UNCHANGED <<memoriaPrincipal, guardado, copia, pagina, marcos>>
<1>1. hilo[p].nuevas \in Seq(Ids) /\ hilo[p].pag \in Nat
  BY Locales
<1>2. PICK s \in Seq(Ids), k \in Nat : s = hilo[p].nuevas /\ k = hilo[p].pag
  BY <1>1
<1>3. Len(s) \in Nat /\ k + 1 \in 1..Len(s) /\ s[k + 1] \in Ids
  BY <1>2
<1>4. PICK i \in Ids : i = s[k + 1]
  BY <1>3
<1>5. i = hilo[p].nuevas[hilo[p].pag + 1] /\ hilo[p].pag + 1 \in 1..Len(hilo[p].nuevas)
  BY <1>2, <1>3, <1>4
<1>6. CASE ~marcos[m].estaLibre
  BY <1>5, <1>6 DEF EscribeEn
<1>7. CASE marcos[m].estaLibre
  <2>1. /\ Escribe(p, i, m)
        /\ pagina' = [pagina EXCEPT ![p][i].marco = m, ![p][i].presente = TRUE]
        /\ marcos' = marcos
    BY <1>5, <1>7 DEF EscribeEn
  <2>2. pagina \in [Pids -> [Ids -> TipoDePagina]]
    BY DEF ITipos, TiposPag
  <2>3. PICK w \in TipoDePagina : w = pagina[p][i]
    BY <2>2
  <2>4. PICK x : x = [w EXCEPT !.marco = m, !.presente = TRUE]
    OBVIOUS
  <2>5. x \in TipoDePagina /\ x.presente = TRUE /\ x.marco = m /\ x.modificado = w.modificado
    BY <2>4 DEF TipoDePagina
  <2>6. pagina' = [pagina EXCEPT ![p][i] = x]
    BY <2>1, <2>2, <2>3, <2>4
  <2>7. PaginaCambia(p, i, x)
    BY <2>5, <2>6, CambiaPagina
  <2>. QED BY <1>5, <1>7, <2>1, <2>3, <2>5, <2>7
<1>. QED BY <1>6, <1>7

\* What the marking of its frame changes.
LEMMA FotoOcupaMarco ==
  ASSUME ITipos, NEW p \in Pids, OcupaMarco(p)
  PROVE  /\ hilo[p].marco \in Marcos
         /\ MarcoCambia(hilo[p].marco, [proceso_asignado |-> p, estaLibre |-> FALSE])
<1>1. PICK m : m = hilo[p].marco
  OBVIOUS
<1>2. hilo[p].fase = "ocupa" /\ marcos' = [marcos EXCEPT ![m] =
                                       [proceso_asignado |-> p, estaLibre |-> FALSE]]
  BY <1>1 DEF OcupaMarco
<1>3. m \in Marcos
  BY <1>1, <1>2 DEF ITipos, Forma
<1>4. PICK y : y = [proceso_asignado |-> p, estaLibre |-> FALSE]
  OBVIOUS
<1>5. MarcoCambia(m, y)
  BY <1>2, <1>3, <1>4, CambiaMarco
<1>. QED BY <1>1, <1>3, <1>4, <1>5

\* The page whose frame a thread has still to mark is one of its new pages.
LEMMA SinMarcarEs ==
  ASSUME ITipos, NEW p \in Pids, hilo[p].fase = "ocupa"
  PROVE  \E k \in 1..Len(hilo[p].nuevas) :
           /\ k = hilo[p].pag /\ hilo[p].nuevas[k] \in Ids /\ hilo[p].nuevas[k] \in PaginasDe(p)
           /\ \A i : SinMarcar(p, i) <=> i = hilo[p].nuevas[k]
<1>1. PICK l \in Seq(Ids), k \in Nat : l = hilo[p].nuevas /\ k = hilo[p].pag
  BY Locales
<1>2. Escribiendo(p) /\ Forma(p)
  BY DEF Escribiendo, ITipos
<1>3. k <= Len(l) /\ k >= 1 /\ Range(l) \subseteq PaginasDe(p)
  BY <1>1, <1>2 DEF Forma
<1>4. Len(l) \in Nat /\ DOMAIN l = 1..Len(l)
  BY <1>1
<1>5. k \in 1..Len(l)
  BY <1>3, <1>4
<1>6. l[k] \in Ids /\ l[k] \in Range(l)
  BY <1>1, <1>4, <1>5 DEF Range
<1>. QED BY <1>1, <1>3, <1>5, <1>6 DEF SinMarcar

\* The rest of a list.
LEMMA ColaEs ==
  ASSUME NEW E, NEW s \in Seq(E), s # <<>>, IsInjective(s)
  PROVE  /\ Tail(s) \in Seq(E) /\ IsInjective(Tail(s))
         /\ Range(s) = Range(Tail(s)) \cup {Head(s)} /\ Head(s) \notin Range(Tail(s))
         /\ Head(s) \in E /\ Len(s) \in Nat /\ Tail(s) = <<>> <=> Len(s) = 1
<1>1. PICK n \in Nat : n = Len(s) /\ n > 0 /\ DOMAIN s = 1..n
  OBVIOUS
<1>2. PICK t : t = Tail(s)
  OBVIOUS
<1>3. t \in Seq(E) /\ Len(t) = n - 1 /\ \A k \in 1..(n - 1) : t[k] = s[k + 1]
  BY <1>1, <1>2
<1>4. DOMAIN t = 1..(n - 1) /\ (t = <<>> <=> n = 1)
  BY <1>1, <1>3
<1>5. \A j, k \in 1..n : s[j] = s[k] => j = k
  BY <1>1 DEF IsInjective
<1>6. IsInjective(t)
  <2>1. \A j, k \in 1..(n - 1) : j + 1 \in 1..n /\ k + 1 \in 1..n
    BY <1>1
  <2>. QED BY <1>1, <1>3, <1>4, <1>5, <2>1 DEF IsInjective
<1>7. Head(s) = s[1] /\ 1 \in 1..n /\ s[1] \in E
  BY <1>1
<1>8. Range(s) = Range(t) \cup {s[1]}
  <2>1. Range(t) = {t[k] : k \in 1..(n - 1)} /\ Range(s) = {s[k] : k \in 1..n}
    BY <1>1, <1>4 DEF Range
  <2>2. \A k \in 1..n : k = 1 \/ (k - 1 \in 1..(n - 1) /\ t[k - 1] = s[k])
    BY <1>1, <1>3
  <2>3. \A k \in 1..(n - 1) : k + 1 \in 1..n /\ t[k] = s[k + 1]
    BY <1>1, <1>3
  <2>. QED BY <1>7, <2>1, <2>2, <2>3
<1>9. s[1] \notin Range(t)
  <2>1. ASSUME NEW k \in 1..(n - 1), t[k] = s[1] PROVE FALSE
    <3>1. k + 1 \in 1..n /\ k + 1 # 1
      BY <1>1
    <3>. QED BY <1>3, <1>5, <1>7, <2>1, <3>1
  <2>. QED BY <1>4, <2>1 DEF Range
<1>. QED BY <1>1, <1>2, <1>3, <1>4, <1>6, <1>7, <1>8, <1>9

\* The ids of the new pages are new.
LEMMA NuevasEs ==
  ASSUME ITipos, NEW p \in Pids, NEW n \in 1..MaxPaginas, contadorPag[p] + n <= MaxPaginas,
         NEW ids, ids = generadorIdsPaginas(p, n), NEW u, u = tabla_de_paginas[p] \o ids
  PROVE  /\ ids \in Seq(Ids) /\ IsInjective(ids) /\ ids # <<>>
         /\ Range(ids) \cap PaginasDe(p) = {}
         /\ u \in Seq(Ids) /\ IsInjective(u) /\ Range(u) = PaginasDe(p) \cup Range(ids)
         /\ \A i \in Range(u) : i < contadorPag[p] + n
         /\ contadorPag[p] + n \in 0..MaxPaginas
<1>1. PICK c \in Nat : c = contadorPag[p] /\ c + n \in 0..MaxPaginas
  <2>1. contadorPag[p] \in 0..MaxPaginas /\ MaxPaginas \in Nat
    BY PaginacionOK DEF ITipos, TiposPag
  <2>. QED BY <2>1
<1>2. MaxPaginas \in Nat /\ n \in Nat
  BY PaginacionOK
<1>3. \A k \in 1..n : c + k - 1 \in Ids
  BY <1>1, <1>2 DEF Ids
<1>4. ids = [k \in 1..n |-> c + k - 1]
  BY <1>1 DEF generadorIdsPaginas
<1>5. ids \in Seq(Ids) /\ Len(ids) = n /\ DOMAIN ids = 1..n
  BY <1>2, <1>3, <1>4
<1>6. IsInjective(ids)
  BY <1>1, <1>2, <1>4, <1>5 DEF IsInjective
<1>7. ids # <<>>
  BY <1>2, <1>5
<1>8. \A i \in Range(ids) : i \in Ids /\ i >= c /\ i < c + n
  BY <1>1, <1>2, <1>3, <1>4, <1>5 DEF Range
<1>9. PICK s : s = tabla_de_paginas[p]
  OBVIOUS
<1>10. s \in Seq(Ids) /\ IsInjective(s) /\ \A i \in Range(s) : i < c
  BY <1>1, <1>9 DEF ITipos, TiposPag, Forma, PaginasDe
<1>11. PICK l \in Nat : l = Len(s) /\ DOMAIN s = 1..l
  BY <1>10
<1>12. u = s \o ids /\ u \in Seq(Ids) /\ Len(u) = l + n
  <2>1. u = s \o ids
    BY <1>9
  <2>2. s \in Seq(Ids) /\ ids \in Seq(Ids) /\ Len(s) = l /\ Len(ids) = n
    BY <1>5, <1>10, <1>11
  <2>3. s \o ids \in Seq(Ids) /\ Len(s \o ids) = Len(s) + Len(ids)
    BY <2>2, ConcatProperties
  <2>. QED BY <2>1, <2>2, <2>3
<1>13. /\ \A k \in 1..l : k \in 1..(l + n) /\ u[k] = s[k]
       /\ \A k \in 1..n : l + k \in 1..(l + n) /\ u[l + k] = ids[k]
  BY <1>2, <1>5, <1>10, <1>11, <1>12
<1>14. \A k \in 1..(l + n) : k \in 1..l \/ (k - l \in 1..n /\ u[k] = ids[k - l])
  <2>1. TAKE k \in 1..(l + n)
  <2>2. k \in 1..l \/ (k - l \in 1..n /\ l + (k - l) = k)
    BY <1>2, <1>11
  <2>. QED BY <1>13, <2>2
<1>15. DOMAIN u = 1..(l + n)
  BY <1>2, <1>12
<1>16. Range(u) = Range(s) \cup Range(ids)
  <2>1. /\ Range(u) = {u[k] : k \in 1..(l + n)} /\ Range(s) = {s[k] : k \in 1..l}
        /\ Range(ids) = {ids[k] : k \in 1..n}
    BY <1>5, <1>11, <1>15 DEF Range
  <2>2. Range(s) \subseteq Range(u) /\ Range(ids) \subseteq Range(u)
    BY <1>13, <2>1
  <2>3. ASSUME NEW k \in 1..(l + n) PROVE u[k] \in Range(s) \cup Range(ids)
    <3>1. CASE k \in 1..l
      BY <1>13, <2>1, <3>1
    <3>2. CASE k - l \in 1..n /\ u[k] = ids[k - l]
      BY <2>1, <3>2
    <3>. QED BY <1>14, <3>1, <3>2
  <2>4. Range(u) \subseteq Range(s) \cup Range(ids)
    BY <2>1, <2>3
  <2>. QED BY <2>2, <2>4
<1>17. Range(ids) \cap Range(s) = {}
  <2>1. \A i \in Range(s) : i \in Ids
    BY <1>10 DEF Range
  <2>2. ASSUME NEW i \in Range(ids), i \in Range(s) PROVE FALSE
    <3>1. i \in Int /\ i >= c /\ i < c
      BY <1>8, <1>10, <2>2 DEF Ids
    <3>. QED BY <1>1, <3>1
  <2>. QED BY <2>2
<1>18. IsInjective(u)
  <2>1. ASSUME NEW j \in 1..(l + n), NEW k \in 1..(l + n), u[j] = u[k] PROVE j = k
    <3>1. CASE j \in 1..l /\ k \in 1..l
      BY <1>10, <1>11, <1>13, <2>1, <3>1 DEF IsInjective
    <3>2. CASE j \in 1..l /\ k \notin 1..l
      <4>1. u[j] \in Range(s) /\ u[k] \in Range(ids)
        BY <1>5, <1>11, <1>13, <1>14, <3>2 DEF Range
      <4>. QED BY <1>17, <2>1, <4>1
    <3>3. CASE j \notin 1..l /\ k \in 1..l
      <4>1. u[k] \in Range(s) /\ u[j] \in Range(ids)
        BY <1>5, <1>11, <1>13, <1>14, <3>3 DEF Range
      <4>. QED BY <1>17, <2>1, <4>1
    <3>4. CASE j \notin 1..l /\ k \notin 1..l
      <4>1. j - l \in 1..n /\ k - l \in 1..n /\ ids[j - l] = ids[k - l]
        BY <1>14, <2>1, <3>4
      <4>2. j - l = k - l
        BY <1>5, <1>6, <4>1 DEF IsInjective
      <4>. QED BY <1>2, <1>11, <4>2
    <3>. QED BY <3>1, <3>2, <3>3, <3>4
  <2>. QED BY <1>15, <2>1 DEF IsInjective
<1>19. \A i \in Range(u) : i < c + n
  <2>1. \A i \in Range(s) : i \in Int /\ i < c
    <3>1. \A k \in 1..l : s[k] \in Ids /\ s[k] \in Int
      BY <1>2, <1>10, <1>11 DEF Ids
    <3>2. Range(s) = {s[k] : k \in 1..l}
      BY <1>11 DEF Range
    <3>. QED BY <1>10, <3>1, <3>2
  <2>. QED BY <1>1, <1>2, <1>8, <1>16, <2>1
<1>. QED BY <1>1, <1>5, <1>6, <1>7, <1>9, <1>12, <1>16, <1>17, <1>18, <1>19 DEF PaginasDe

-----------------------------------------------------------------------------
(* The steps, one by one, keep the types.                                  *)

\* A carpincho arrives.
LEMMA TiposInicializa ==
  ASSUME ITipos, NEW p \in Pids, Inicializa(p)
  PROVE  /\ ITipos'
         /\ Pasa(p, "libre", hilo[p].pedido, hilo[p].pag, hilo[p].vuelve, hilo[p].victima,
                 hilo[p].marco, hilo[p].lista, hilo[p].nuevas, hilo[p].visitadas)
<1>1. PICK g \in TipoDeHilo : g = hilo[p]
  BY DEF ITipos, TiposPag
<1>2. hilo' = [hilo EXCEPT ![p].fase = "libre"]
  BY DEF Inicializa
<1>3. PICK h : h = [g EXCEPT !.fase = "libre"]
  OBVIOUS
<1>4. hilo' = [hilo EXCEPT ![p] = h]
  BY <1>1, <1>2, <1>3
<1>5. "libre" \in Fases
  BY DEF Fases, Pedidos
<1>6. /\ h.fase = "libre" /\ h.pedido = g.pedido /\ h.pag = g.pag
      /\ h.vuelve = g.vuelve /\ h.victima = g.victima /\ h.marco = g.marco
      /\ h.lista = g.lista /\ h.nuevas = g.nuevas /\ h.visitadas = g.visitadas
  BY <1>1, <1>3 DEF TipoDeHilo
<1>7. h \in TipoDeHilo
  BY <1>1, <1>3, <1>5 DEF TipoDeHilo
<1>8. Pasa(p, "libre", hilo[p].pedido, hilo[p].pag, hilo[p].vuelve, hilo[p].victima,
           hilo[p].marco, hilo[p].lista, hilo[p].nuevas, hilo[p].visitadas)
  BY <1>1, <1>4, <1>6, <1>7, PasaBien
<1>9. TiposPag'
  BY <1>8 DEF Inicializa, Pasa, ITipos, TiposPag
<1>10. Forma(p)'
  <2>1. Forma(p)
    BY DEF ITipos
  <2>. QED BY <1>5, <1>8, <2>1 DEF Inicializa, Pasa, Forma, Visita, Falta, Dentro, Escribiendo, PaginasDe
<1>11. \A q \in Pids \ {p} : Forma(q)'
  BY <1>8, FormaDeOtros, PaginacionOK DEF Inicializa, Pasa
<1>. QED BY <1>8, <1>9, <1>10, <1>11 DEF ITipos

\* A request is taken.
LEMMA TiposPide ==
  ASSUME ITipos, NEW p \in Pids, NEW pedido \in {"acceso", "libera"}, Pide(p, pedido)
  PROVE  /\ ITipos'
         /\ Pasa(p, "recorre", pedido, hilo[p].pag, hilo[p].vuelve, hilo[p].victima,
                 hilo[p].marco, hilo[p].lista, hilo[p].nuevas, hilo[p].visitadas)
<1>1. PICK g \in TipoDeHilo : g = hilo[p]
  BY DEF ITipos, TiposPag
<1>2. hilo' = [hilo EXCEPT ![p].fase = "recorre", ![p].pedido = pedido]
  BY DEF Pide
<1>3. PICK h : h = [g EXCEPT !.fase = "recorre", !.pedido = pedido]
  OBVIOUS
<1>4. hilo' = [hilo EXCEPT ![p] = h]
  BY <1>1, <1>2, <1>3
<1>5. "recorre" \in Fases /\ pedido \in Pedidos
  BY DEF Fases, Pedidos
<1>6. /\ h.fase = "recorre" /\ h.pedido = pedido /\ h.pag = g.pag
      /\ h.vuelve = g.vuelve /\ h.victima = g.victima /\ h.marco = g.marco
      /\ h.lista = g.lista /\ h.nuevas = g.nuevas /\ h.visitadas = g.visitadas
  BY <1>1, <1>3 DEF TipoDeHilo
<1>7. h \in TipoDeHilo
  BY <1>1, <1>3, <1>5 DEF TipoDeHilo
<1>8. Pasa(p, "recorre", pedido, hilo[p].pag, hilo[p].vuelve, hilo[p].victima,
           hilo[p].marco, hilo[p].lista, hilo[p].nuevas, hilo[p].visitadas)
  BY <1>1, <1>4, <1>6, <1>7, PasaBien
<1>9. TiposPag'
  BY <1>8 DEF Pide, Pasa, ITipos, TiposPag
<1>10. Forma(p)'
  <2>1. Forma(p)
    BY DEF ITipos
  <2>. QED BY <1>5, <1>8, <2>1 DEF Pide, Puede, Pasa, Forma, Visita, Falta, Dentro, Escribiendo, PaginasDe
<1>11. \A q \in Pids \ {p} : Forma(q)'
  BY <1>8, FormaDeOtros, PaginacionOK DEF Pide, Pasa
<1>. QED BY <1>8, <1>9, <1>10, <1>11 DEF ITipos

\* A memalloc is taken.
LEMMA TiposPideAlloc ==
  ASSUME ITipos, NEW p \in Pids, PideAlloc(p)
  PROVE  /\ ITipos'
         /\ \E f \in {"reserva", "recorre"}, l \in Seq(Marcos) :
              Pasa(p, f, "alloc", hilo[p].pag, hilo[p].vuelve, hilo[p].victima, hilo[p].marco, l,
                   hilo[p].nuevas, hilo[p].visitadas)
<1>1. PICK g \in TipoDeHilo : g = hilo[p]
  BY DEF ITipos, TiposPag
<1>2. PICK f \in {"reserva", "recorre"}, l \in Seq(Marcos) :
        hilo' = [hilo EXCEPT ![p].fase = f, ![p].pedido = "alloc", ![p].lista = l]
  <2>1. EnOrden(MarcosDe(Nadie)) \in Seq(Marcos) /\ <<>> \in Seq(Marcos)
    BY ListasDeMarcos
  <2>. QED BY <2>1 DEF PideAlloc
<1>3. PICK h : h = [g EXCEPT !.fase = f, !.pedido = "alloc", !.lista = l]
  OBVIOUS
<1>4. hilo' = [hilo EXCEPT ![p] = h]
  BY <1>1, <1>2, <1>3
<1>5. f \in Fases /\ "alloc" \in Pedidos
  BY DEF Fases, Pedidos
<1>6. /\ h.fase = f /\ h.pedido = "alloc" /\ h.pag = g.pag
      /\ h.vuelve = g.vuelve /\ h.victima = g.victima /\ h.marco = g.marco
      /\ h.lista = l /\ h.nuevas = g.nuevas /\ h.visitadas = g.visitadas
  BY <1>1, <1>3 DEF TipoDeHilo
<1>7. h \in TipoDeHilo
  BY <1>1, <1>3, <1>5 DEF TipoDeHilo
<1>8. Pasa(p, f, "alloc", hilo[p].pag, hilo[p].vuelve, hilo[p].victima, hilo[p].marco, l,
           hilo[p].nuevas, hilo[p].visitadas)
  BY <1>1, <1>4, <1>6, <1>7, PasaBien
<1>9. TiposPag'
  BY <1>8 DEF PideAlloc, Pasa, ITipos, TiposPag
<1>10. Forma(p)'
  <2>1. Forma(p)
    BY DEF ITipos
  <2>. QED BY <1>5, <1>8, <2>1 DEF PideAlloc, Puede, Pasa, Forma, Visita, Falta, Dentro, Escribiendo, PaginasDe
<1>11. \A q \in Pids \ {p} : Forma(q)'
  BY <1>8, FormaDeOtros, PaginacionOK DEF PideAlloc, Pasa
<1>. QED BY <1>8, <1>9, <1>10, <1>11 DEF ITipos

\* A quota is taken.
LEMMA TiposReservaFija ==
  ASSUME ITipos, NEW p \in Pids, ReservaFija(p)
  PROVE  /\ ITipos'
         /\ \E l \in Seq(Marcos) :
              Pasa(p, "recorre", hilo[p].pedido, hilo[p].pag, hilo[p].vuelve, hilo[p].victima,
                   hilo[p].marco, l, hilo[p].nuevas, hilo[p].visitadas)
<1>1. PICK g \in TipoDeHilo : g = hilo[p]
  BY DEF ITipos, TiposPag
<1>2. PICK l \in Seq(Marcos) : hilo' = [hilo EXCEPT ![p].fase = "recorre", ![p].lista = l]
  <2>1. Tomados(p) \in Seq(Marcos) /\ <<>> \in Seq(Marcos)
    BY TomadosEs
  <2>. QED BY <2>1 DEF ReservaFija
<1>3. PICK h : h = [g EXCEPT !.fase = "recorre", !.lista = l]
  OBVIOUS
<1>4. hilo' = [hilo EXCEPT ![p] = h]
  BY <1>1, <1>2, <1>3
<1>5. "recorre" \in Fases
  BY DEF Fases, Pedidos
<1>6. /\ h.fase = "recorre" /\ h.pedido = g.pedido /\ h.pag = g.pag
      /\ h.vuelve = g.vuelve /\ h.victima = g.victima /\ h.marco = g.marco
      /\ h.lista = l /\ h.nuevas = g.nuevas /\ h.visitadas = g.visitadas
  BY <1>1, <1>3 DEF TipoDeHilo
<1>7. h \in TipoDeHilo
  BY <1>1, <1>3, <1>5 DEF TipoDeHilo
<1>8. Pasa(p, "recorre", hilo[p].pedido, hilo[p].pag, hilo[p].vuelve, hilo[p].victima,
           hilo[p].marco, l, hilo[p].nuevas, hilo[p].visitadas)
  BY <1>1, <1>4, <1>6, <1>7, PasaBien
<1>9. TiposPag'
  <2>1. PICK S : S = Range(Tomados(p))
    OBVIOUS
  <2>2. marcos \in [Marcos -> [proceso_asignado : Pids \cup {Nadie}, estaLibre : BOOLEAN]]
    BY DEF ITipos, TiposPag
  <2>3. \A m \in Marcos : [marcos[m] EXCEPT !.proceso_asignado = p]
                            \in [proceso_asignado : Pids \cup {Nadie}, estaLibre : BOOLEAN]
    BY <2>2
  <2>4. marcos' = [m \in Marcos |-> IF m \in S THEN [marcos[m] EXCEPT !.proceso_asignado = p]
                                    ELSE marcos[m]]
    BY <2>1 DEF ReservaFija
  <2>5. marcos' \in [Marcos -> [proceso_asignado : Pids \cup {Nadie}, estaLibre : BOOLEAN]]
    BY <2>2, <2>3, <2>4
  <2>6. cuotaTrunca' \in BOOLEAN
    <3>1. cuotaTrunca' = (cuotaTrunca \/ Len(Tomados(p)) < marcosMaximos)
      BY DEF ReservaFija
    <3>. QED BY <3>1
  <2>. QED BY <1>8, <2>5, <2>6 DEF ReservaFija, Pasa, ITipos, TiposPag
<1>10. Forma(p)'
  <2>1. Forma(p)
    BY DEF ITipos
  <2>. QED BY <1>5, <1>8, <2>1 DEF ReservaFija, Pasa, Forma, Visita, Falta, Dentro, Escribiendo, PaginasDe
<1>11. \A q \in Pids \ {p} : Forma(q)'
  BY <1>8, FormaDeOtros, PaginacionOK DEF ReservaFija, Pasa
<1>. QED BY <1>8, <1>9, <1>10, <1>11 DEF ITipos

\* A page is looked for.
LEMMA TiposAccede ==
  ASSUME ITipos, NEW p \in Pids, NEW i \in Ids, Accede(p, i)
  PROVE  /\ ITipos'
         /\ \E f \in {"usa", "agrega", "falta"} :
              Pasa(p, f, hilo[p].pedido, i, hilo[p].vuelve, hilo[p].victima, hilo[p].marco,
                   hilo[p].lista, hilo[p].nuevas, hilo[p].visitadas)
<1>1. PICK g \in TipoDeHilo : g = hilo[p]
  BY DEF ITipos, TiposPag
<1>2. PICK f \in {"usa", "agrega", "falta"} : hilo' = [hilo EXCEPT ![p].fase = f, ![p].pag = i]
  BY DEF Accede
<1>3. PICK h : h = [g EXCEPT !.fase = f, !.pag = i]
  OBVIOUS
<1>4. hilo' = [hilo EXCEPT ![p] = h]
  BY <1>1, <1>2, <1>3
<1>5. f \in Fases /\ i \in Nat
  BY PaginacionOK DEF Fases, Pedidos, Ids
<1>6. /\ h.fase = f /\ h.pedido = g.pedido /\ h.pag = i /\ h.vuelve = g.vuelve
      /\ h.victima = g.victima /\ h.marco = g.marco /\ h.lista = g.lista
      /\ h.nuevas = g.nuevas /\ h.visitadas = g.visitadas
  BY <1>1, <1>3 DEF TipoDeHilo
<1>7. h \in TipoDeHilo
  BY <1>1, <1>3, <1>5 DEF TipoDeHilo
<1>8. Pasa(p, f, hilo[p].pedido, i, hilo[p].vuelve, hilo[p].victima, hilo[p].marco,
           hilo[p].lista, hilo[p].nuevas, hilo[p].visitadas)
  BY <1>1, <1>4, <1>6, <1>7, PasaBien
<1>9. TiposPag'
  BY <1>8 DEF Accede, Pasa, ITipos, TiposPag
<1>10. Forma(p)'
  <2>1. Forma(p)
    BY DEF ITipos
  <2>. QED BY <1>5, <1>8, <2>1 DEF Accede, Pasa, Forma, Visita, Falta, Dentro, Escribiendo, PaginasDe
<1>11. \A q \in Pids \ {p} : Forma(q)'
  BY <1>8, FormaDeOtros, PaginacionOK DEF Accede, Pasa
<1>. QED BY <1>8, <1>9, <1>10, <1>11 DEF ITipos

\* A page enters the TLB.
LEMMA TiposAgregaATLB ==
  ASSUME ITipos, NEW p \in Pids, AgregaATLB(p)
  PROVE  /\ ITipos'
         /\ Pasa(p, "usa", hilo[p].pedido, hilo[p].pag, hilo[p].vuelve, hilo[p].victima,
                 hilo[p].marco, hilo[p].lista, hilo[p].nuevas, hilo[p].visitadas)
<1>1. PICK g \in TipoDeHilo : g = hilo[p]
  BY DEF ITipos, TiposPag
<1>2. hilo' = [hilo EXCEPT ![p].fase = "usa"]
  BY DEF AgregaATLB
<1>3. PICK h : h = [g EXCEPT !.fase = "usa"]
  OBVIOUS
<1>4. hilo' = [hilo EXCEPT ![p] = h]
  BY <1>1, <1>2, <1>3
<1>5. "usa" \in Fases
  BY DEF Fases, Pedidos
<1>6. /\ h.fase = "usa" /\ h.pedido = g.pedido /\ h.pag = g.pag
      /\ h.vuelve = g.vuelve /\ h.victima = g.victima /\ h.marco = g.marco
      /\ h.lista = g.lista /\ h.nuevas = g.nuevas /\ h.visitadas = g.visitadas
  BY <1>1, <1>3 DEF TipoDeHilo
<1>7. h \in TipoDeHilo
  BY <1>1, <1>3, <1>5 DEF TipoDeHilo
<1>8. Pasa(p, "usa", hilo[p].pedido, hilo[p].pag, hilo[p].vuelve, hilo[p].victima,
           hilo[p].marco, hilo[p].lista, hilo[p].nuevas, hilo[p].visitadas)
  BY <1>1, <1>4, <1>6, <1>7, PasaBien
<1>9. TiposPag'
  BY <1>8 DEF AgregaATLB, Pasa, ITipos, TiposPag
<1>10. Forma(p)'
  <2>1. Forma(p)
    BY DEF ITipos
  <2>. QED BY <1>5, <1>8, <2>1 DEF AgregaATLB, Pasa, Forma, Visita, Falta, Dentro, Escribiendo, PaginasDe
<1>11. \A q \in Pids \ {p} : Forma(q)'
  BY <1>8, FormaDeOtros, PaginacionOK DEF AgregaATLB, Pasa
<1>. QED BY <1>8, <1>9, <1>10, <1>11 DEF ITipos

\* A page is used.
LEMMA TiposUsa ==
  ASSUME ITipos, NEW p \in Pids, Usa(p)
  PROVE  /\ ITipos'
         /\ \E v \in SUBSET Ids :
              /\ hilo[p].visitadas \subseteq v /\ v \subseteq hilo[p].visitadas \cup {hilo[p].pag}
              /\ Pasa(p, "recorre", hilo[p].pedido, hilo[p].pag, hilo[p].vuelve, hilo[p].victima,
                      hilo[p].marco, hilo[p].lista, hilo[p].nuevas, v)
<1>1. PICK g \in TipoDeHilo : g = hilo[p]
  BY DEF ITipos, TiposPag
<1>2. PICK v \in SUBSET Ids :
        /\ hilo' = [hilo EXCEPT ![p].fase = "recorre", ![p].visitadas = v]
        /\ v = IF hilo[p].pedido = "libera" THEN hilo[p].visitadas \cup {hilo[p].pag}
               ELSE hilo[p].visitadas
  <2>1. hilo[p].visitadas \in SUBSET Ids /\ hilo[p].pag \in Ids
    <3>1. hilo[p].pag \in PaginasDe(p) /\ PaginasDe(p) \subseteq Ids
      BY PaginasSon DEF Usa, Visita, Forma, ITipos
    <3>. QED BY <3>1, Locales
  <2>. QED BY <2>1 DEF Usa
<1>3. PICK h : h = [g EXCEPT !.fase = "recorre", !.visitadas = v]
  OBVIOUS
<1>4. hilo' = [hilo EXCEPT ![p] = h]
  BY <1>1, <1>2, <1>3
<1>5. "recorre" \in Fases
  BY DEF Fases, Pedidos
<1>6. /\ h.fase = "recorre" /\ h.pedido = g.pedido /\ h.pag = g.pag
      /\ h.vuelve = g.vuelve /\ h.victima = g.victima /\ h.marco = g.marco
      /\ h.lista = g.lista /\ h.nuevas = g.nuevas /\ h.visitadas = v
  BY <1>1, <1>3 DEF TipoDeHilo
<1>7. h \in TipoDeHilo
  BY <1>1, <1>3, <1>5 DEF TipoDeHilo
<1>8. Pasa(p, "recorre", hilo[p].pedido, hilo[p].pag, hilo[p].vuelve, hilo[p].victima,
           hilo[p].marco, hilo[p].lista, hilo[p].nuevas, v)
  BY <1>1, <1>4, <1>6, <1>7, PasaBien
<1>9. TiposPag'
  <2>1. pagina' \in [Pids -> [Ids -> TipoDePagina]]
    BY FotoUsa DEF PaginaCambia
  <2>2. /\ memoriaPrincipal' \in [Marcos -> Contenidos]
        /\ guardado' \in [Pids -> [Ids -> Contenidos]] /\ copia' \in [Pids -> Contenidos]
    <3>1. CASE UNCHANGED <<memoriaPrincipal, guardado, copia>>
      BY <3>1 DEF ITipos, TiposPag
    <3>2. CASE Escribe(p, hilo[p].pag, pagina[p][hilo[p].pag].marco)
      BY <3>2, FotoUsa, EscribeEs
    <3>. QED BY <3>1, <3>2, FotoUsa
  <2>. QED BY <1>8, <2>1, <2>2 DEF Usa, Pasa, ITipos, TiposPag
<1>10. Forma(p)'
  <2>1. Forma(p) /\ hilo[p].pag \in PaginasDe(p)
    BY VisitaEs DEF ITipos, Usa, Visita
  <2>. QED BY <1>2, <1>5, <1>8, <2>1 DEF Usa, Pasa, Forma, Visita, Falta, Dentro, Escribiendo, PaginasDe
<1>11. \A q \in Pids \ {p} : Forma(q)'
  BY <1>8, FormaDeOtros, PaginacionOK DEF Usa, Pasa
<1>. QED BY <1>2, <1>8, <1>9, <1>10, <1>11 DEF ITipos

\* A victim is chosen.
LEMMA TiposDesaloja ==
  ASSUME ITipos, NEW p \in Pids, NEW c \in Candidatas(p), Desaloja(p, c),
         NecesitaMarco(p), swap = Nadie,
         pagina' \in [Pids -> [Ids -> TipoDePagina]], punteroClock' \in [Pids \cup {Nadie} -> Nat],
         UNCHANGED <<config, carpinchos, tabla_de_paginas, contadorPag, marcos,
                     memoriaPrincipal, TLB, guardado, marcos_sem, pedidos, cuotaTrunca, caida>>
  PROVE  /\ ITipos'
         /\ Pasa(p, "saca", hilo[p].pedido, hilo[p].pag, hilo[p].fase, c, MarcoDe(c),
                 hilo[p].lista, hilo[p].nuevas, hilo[p].visitadas)
<1>1. PICK g \in TipoDeHilo : g = hilo[p]
  BY DEF ITipos, TiposPag
<1>2. hilo' = [hilo EXCEPT ![p].fase = "saca", ![p].vuelve = hilo[p].fase, ![p].victima = c, ![p].marco = MarcoDe(c)]
  BY DEF Desaloja
<1>3. PICK h : h = [g EXCEPT !.fase = "saca", !.vuelve = g.fase, !.victima = c, !.marco = MarcoDe(c)]
  OBVIOUS
<1>4. hilo' = [hilo EXCEPT ![p] = h]
  BY <1>1, <1>2, <1>3
<1>5. /\ "saca" \in Fases /\ g.fase \in {"falta", "escribe"}
      /\ c \in Pids \X Ids /\ MarcoDe(c) \in Marcos
  BY <1>1, CandidatasSon DEF Fases, NecesitaMarco
<1>6. /\ h.fase = "saca" /\ h.pedido = g.pedido /\ h.pag = g.pag
      /\ h.vuelve = g.fase /\ h.victima = c /\ h.marco = MarcoDe(c)
      /\ h.lista = g.lista /\ h.nuevas = g.nuevas /\ h.visitadas = g.visitadas
  BY <1>1, <1>3 DEF TipoDeHilo
<1>7. h \in TipoDeHilo
  BY <1>1, <1>3, <1>5 DEF TipoDeHilo
<1>8. Pasa(p, "saca", hilo[p].pedido, hilo[p].pag, hilo[p].fase, c, MarcoDe(c),
           hilo[p].lista, hilo[p].nuevas, hilo[p].visitadas)
  BY <1>1, <1>4, <1>6, <1>7, PasaBien
<1>9. TiposPag'
  <2>1. copia' \in [Pids -> Contenidos] /\ swap' \in Pids
    BY <1>5 DEF Desaloja, ITipos, TiposPag
  <2>. QED BY <1>8, <2>1 DEF Pasa, ITipos, TiposPag
<1>10. Forma(p)'
  <2>1. Forma(p) /\ swap' = p /\ hilo[p].fase = g.fase
    BY <1>1 DEF ITipos, Desaloja
  <2>2. g.fase = "escribe" => hilo[p].pag < Len(hilo[p].nuevas)
    BY <1>1 DEF NecesitaMarco
  <2>. QED BY <1>5, <1>8, <2>1, <2>2 DEF Pasa, Forma, Visita, Falta, Dentro, Escribiendo, PaginasDe
<1>11. \A q \in Pids \ {p} : Forma(q)'
  <2>1. \A q \in Pids \ {p} : swap' # q /\ swap # q
    BY PaginacionOK DEF Desaloja
  <2>. QED BY <1>8, <2>1, FormaDeOtros DEF Pasa
<1>. QED BY <1>8, <1>9, <1>10, <1>11 DEF ITipos

\* The victim goes.
LEMMA TiposSacaVictima ==
  ASSUME ITipos, NEW p \in Pids, SacaVictima(p)
  PROVE  /\ ITipos'
         /\ Pasa(p, "quita", hilo[p].pedido, hilo[p].pag, hilo[p].vuelve, hilo[p].victima,
                 hilo[p].marco, hilo[p].lista, hilo[p].nuevas, hilo[p].visitadas)
<1>1. PICK g \in TipoDeHilo : g = hilo[p]
  BY DEF ITipos, TiposPag
<1>2. hilo' = [hilo EXCEPT ![p].fase = "quita"]
  BY DEF SacaVictima
<1>3. PICK h : h = [g EXCEPT !.fase = "quita"]
  OBVIOUS
<1>4. hilo' = [hilo EXCEPT ![p] = h]
  BY <1>1, <1>2, <1>3
<1>5. "quita" \in Fases
  BY DEF Fases, Pedidos
<1>6. /\ h.fase = "quita" /\ h.pedido = g.pedido /\ h.pag = g.pag
      /\ h.vuelve = g.vuelve /\ h.victima = g.victima /\ h.marco = g.marco
      /\ h.lista = g.lista /\ h.nuevas = g.nuevas /\ h.visitadas = g.visitadas
  BY <1>1, <1>3 DEF TipoDeHilo
<1>7. h \in TipoDeHilo
  BY <1>1, <1>3, <1>5 DEF TipoDeHilo
<1>8. Pasa(p, "quita", hilo[p].pedido, hilo[p].pag, hilo[p].vuelve, hilo[p].victima,
           hilo[p].marco, hilo[p].lista, hilo[p].nuevas, hilo[p].visitadas)
  BY <1>1, <1>4, <1>6, <1>7, PasaBien
<1>9. TiposPag'
  <2>1. PICK q \in Pids, i \in Ids : hilo[p].victima = <<q, i>>
    BY DentroEs DEF SacaVictima, Dentro
  <2>2. /\ pagina' \in [Pids -> [Ids -> TipoDePagina]]
        /\ marcos' \in [Marcos -> [proceso_asignado : Pids \cup {Nadie}, estaLibre : BOOLEAN]]
        /\ guardado' \in [Pids -> [Ids -> Contenidos]]
    BY <2>1, FotoSaca DEF PaginaCambia, MarcoCambia
  <2>. QED BY <1>8, <2>2 DEF SacaVictima, Pasa, ITipos, TiposPag
<1>10. Forma(p)'
  <2>1. Forma(p)
    BY DEF ITipos
  <2>. QED BY <1>5, <1>8, <2>1 DEF SacaVictima, Pasa, Forma, Visita, Falta, Dentro, Escribiendo, PaginasDe
<1>11. \A q \in Pids \ {p} : Forma(q)'
  BY <1>8, FormaDeOtros, PaginacionOK DEF SacaVictima, Pasa
<1>. QED BY <1>8, <1>9, <1>10, <1>11 DEF ITipos

\* The victim leaves the TLB.
LEMMA TiposQuitaDeTLB ==
  ASSUME ITipos, NEW p \in Pids, QuitaDeTLB(p)
  PROVE  /\ ITipos'
         /\ \E f \in {"asigna", "escribeEn"} :
              /\ f = "asigna" <=> hilo[p].vuelve = "falta"
              /\ Pasa(p, f, hilo[p].pedido, hilo[p].pag, "", <<>>, hilo[p].marco, hilo[p].lista,
                      hilo[p].nuevas, hilo[p].visitadas)
<1>1. PICK g \in TipoDeHilo : g = hilo[p]
  BY DEF ITipos, TiposPag
<1>2. PICK f \in {"asigna", "escribeEn"} :
        /\ hilo' = [hilo EXCEPT ![p].fase = f, ![p].vuelve = "", ![p].victima = <<>>]
        /\ f = "asigna" <=> hilo[p].vuelve = "falta"
  BY DEF QuitaDeTLB
<1>3. Dentro(p) /\ Forma(p) /\ swap = p
  BY DentroEs DEF QuitaDeTLB, Dentro, ITipos
<1>4. PICK h : h = [g EXCEPT !.fase = f, !.vuelve = "", !.victima = <<>>]
  OBVIOUS
<1>5. hilo' = [hilo EXCEPT ![p] = h]
  BY <1>1, <1>2, <1>4
<1>6. f \in Fases
  BY DEF Fases, Pedidos
<1>7. /\ h.fase = f /\ h.pedido = g.pedido /\ h.pag = g.pag /\ h.vuelve = ""
      /\ h.victima = <<>> /\ h.marco = g.marco /\ h.lista = g.lista
      /\ h.nuevas = g.nuevas /\ h.visitadas = g.visitadas
  BY <1>1, <1>4 DEF TipoDeHilo
<1>8. h \in TipoDeHilo
  BY <1>1, <1>4, <1>6 DEF TipoDeHilo
<1>9. Pasa(p, f, hilo[p].pedido, hilo[p].pag, "", <<>>, hilo[p].marco, hilo[p].lista,
           hilo[p].nuevas, hilo[p].visitadas)
  BY <1>1, <1>5, <1>7, <1>8, PasaBien
<1>10. TiposPag'
  <2>1. Vieja \in Contenidos
    BY DEF Contenidos
  <2>2. hilo[p].vuelve = "falta" => hilo[p].pag \in Ids
    BY <1>3, VisitaEs DEF Visita, Falta
  <2>3. PICK c : c = IF hilo[p].vuelve = "falta" THEN guardado[p][hilo[p].pag] ELSE Vieja
    OBVIOUS
  <2>4. c \in Contenidos
    BY <2>1, <2>2, <2>3 DEF ITipos, TiposPag
  <2>5. copia' = [copia EXCEPT ![p] = c]
    BY <2>3 DEF QuitaDeTLB
  <2>6. copia' \in [Pids -> Contenidos]
    BY <2>4, <2>5 DEF ITipos, TiposPag
  <2>. QED BY <1>9, <2>6 DEF QuitaDeTLB, Pasa, ITipos, TiposPag
<1>11. Forma(p)'
  <2>1. swap' # p /\ hilo[p].vuelve \in {"falta", "escribe"} /\ hilo[p].marco \in Marcos
    BY <1>3, DentroEs, PaginacionOK DEF QuitaDeTLB
  <2>. QED BY <1>2, <1>9, <1>3, <2>1 DEF QuitaDeTLB, Pasa, Forma, Visita, Falta, Dentro, Escribiendo, PaginasDe
<1>12. \A q \in Pids \ {p} : Forma(q)'
  <2>1. swap' = Nadie /\ swap = p
    BY <1>3 DEF QuitaDeTLB
  <2>2. \A q \in Pids \ {p} : swap' = q <=> swap = q
    BY <2>1, PaginacionOK
  <2>3. \A q \in Pids \ {p} :
           /\ hilo'[q] = hilo[q] /\ tabla_de_paginas'[q] = tabla_de_paginas[q]
           /\ contadorPag'[q] = contadorPag[q]
           /\ q \in carpinchos' <=> q \in carpinchos
           /\ swap' = q <=> swap = q
    BY <1>9, <2>2 DEF QuitaDeTLB, Pasa
  <2>. QED BY <2>3, FormaDeOtros
<1>. QED BY <1>2, <1>9, <1>10, <1>11, <1>12 DEF ITipos

\* The page takes the frame.
LEMMA TiposAsignaMarco ==
  ASSUME ITipos, NEW p \in Pids, AsignaMarco(p)
  PROVE  /\ ITipos'
         /\ Pasa(p, "copia", hilo[p].pedido, hilo[p].pag, hilo[p].vuelve, hilo[p].victima,
                 SinMarco, hilo[p].lista, hilo[p].nuevas, hilo[p].visitadas)
<1>1. PICK g \in TipoDeHilo : g = hilo[p]
  BY DEF ITipos, TiposPag
<1>2. hilo' = [hilo EXCEPT ![p].fase = "copia", ![p].marco = SinMarco]
  BY DEF AsignaMarco
<1>3. PICK h : h = [g EXCEPT !.fase = "copia", !.marco = SinMarco]
  OBVIOUS
<1>4. hilo' = [hilo EXCEPT ![p] = h]
  BY <1>1, <1>2, <1>3
<1>5. "copia" \in Fases
  BY DEF Fases, Pedidos
<1>6. /\ h.fase = "copia" /\ h.pedido = g.pedido /\ h.pag = g.pag
      /\ h.vuelve = g.vuelve /\ h.victima = g.victima /\ h.marco = SinMarco
      /\ h.lista = g.lista /\ h.nuevas = g.nuevas /\ h.visitadas = g.visitadas
  BY <1>1, <1>3 DEF TipoDeHilo
<1>7. h \in TipoDeHilo
  BY <1>1, <1>3, <1>5 DEF TipoDeHilo
<1>8. Pasa(p, "copia", hilo[p].pedido, hilo[p].pag, hilo[p].vuelve, hilo[p].victima,
           SinMarco, hilo[p].lista, hilo[p].nuevas, hilo[p].visitadas)
  BY <1>1, <1>4, <1>6, <1>7, PasaBien
<1>9. TiposPag'
  BY <1>8, FotoAsigna DEF AsignaMarco, PaginaCambia, MarcoCambia, Pasa, ITipos, TiposPag
<1>10. Forma(p)'
  <2>1. Forma(p)
    BY DEF ITipos
  <2>. QED BY <1>5, <1>8, <2>1 DEF AsignaMarco, Pasa, Forma, Visita, Falta, Dentro, Escribiendo, PaginasDe
<1>11. \A q \in Pids \ {p} : Forma(q)'
  BY <1>8, FormaDeOtros, PaginacionOK DEF AsignaMarco, Pasa
<1>. QED BY <1>8, <1>9, <1>10, <1>11 DEF ITipos

\* The content is copied.
LEMMA TiposCopiaPagina ==
  ASSUME ITipos, NEW p \in Pids, CopiaPagina(p)
  PROVE  /\ ITipos'
         /\ Pasa(p, "agrega", hilo[p].pedido, hilo[p].pag, hilo[p].vuelve, hilo[p].victima,
                 hilo[p].marco, hilo[p].lista, hilo[p].nuevas, hilo[p].visitadas)
<1>1. PICK g \in TipoDeHilo : g = hilo[p]
  BY DEF ITipos, TiposPag
<1>2. hilo' = [hilo EXCEPT ![p].fase = "agrega"]
  BY DEF CopiaPagina
<1>3. PICK h : h = [g EXCEPT !.fase = "agrega"]
  OBVIOUS
<1>4. hilo' = [hilo EXCEPT ![p] = h]
  BY <1>1, <1>2, <1>3
<1>5. "agrega" \in Fases
  BY DEF Fases, Pedidos
<1>6. /\ h.fase = "agrega" /\ h.pedido = g.pedido /\ h.pag = g.pag
      /\ h.vuelve = g.vuelve /\ h.victima = g.victima /\ h.marco = g.marco
      /\ h.lista = g.lista /\ h.nuevas = g.nuevas /\ h.visitadas = g.visitadas
  BY <1>1, <1>3 DEF TipoDeHilo
<1>7. h \in TipoDeHilo
  BY <1>1, <1>3, <1>5 DEF TipoDeHilo
<1>8. Pasa(p, "agrega", hilo[p].pedido, hilo[p].pag, hilo[p].vuelve, hilo[p].victima,
           hilo[p].marco, hilo[p].lista, hilo[p].nuevas, hilo[p].visitadas)
  BY <1>1, <1>4, <1>6, <1>7, PasaBien
<1>9. TiposPag'
  <2>1. Vieja \in Contenidos /\ copia[p] \in Contenidos
    BY DEF Contenidos, ITipos, TiposPag
  <2>. QED BY <1>8, <2>1 DEF CopiaPagina, Pasa, ITipos, TiposPag
<1>10. Forma(p)'
  <2>1. Forma(p)
    BY DEF ITipos
  <2>. QED BY <1>5, <1>8, <2>1 DEF CopiaPagina, Pasa, Forma, Visita, Falta, Dentro, Escribiendo, PaginasDe
<1>11. \A q \in Pids \ {p} : Forma(q)'
  BY <1>8, FormaDeOtros, PaginacionOK DEF CopiaPagina, Pasa
<1>. QED BY <1>8, <1>9, <1>10, <1>11 DEF ITipos

\* Pages are created.
LEMMA TiposCreaPaginas ==
  ASSUME ITipos, NEW p \in Pids, NEW n \in 1..MaxPaginas, CreaPaginas(p, n)
  PROVE  /\ ITipos'
         /\ \E f \in {"empieza", "buscaMarcos"}, l \in Seq(Marcos) :
              Pasa(p, f, "alojado", hilo[p].pag, hilo[p].vuelve, hilo[p].victima, hilo[p].marco,
                   l, generadorIdsPaginas(p, n), hilo[p].visitadas)
<1>1. PICK g \in TipoDeHilo : g = hilo[p]
  BY DEF ITipos, TiposPag
<1>2. PICK ids : ids = generadorIdsPaginas(p, n)
  OBVIOUS
<1>3. contadorPag[p] + n <= MaxPaginas /\ tabla_de_paginas[p] \in Seq(Ids)
  BY DEF CreaPaginas, ITipos, TiposPag
<1>4. PICK u : u = tabla_de_paginas[p] \o ids
  OBVIOUS
<1>5. /\ ids \in Seq(Ids) /\ IsInjective(ids) /\ ids # <<>>
      /\ u \in Seq(Ids) /\ IsInjective(u) /\ Range(u) = PaginasDe(p) \cup Range(ids)
      /\ \A i \in Range(u) : i < contadorPag[p] + n
      /\ contadorPag[p] + n \in 0..MaxPaginas
  BY <1>2, <1>3, <1>4, NuevasEs
<1>6. PICK f \in {"empieza", "buscaMarcos"}, l \in Seq(Marcos) :
        hilo' = [hilo EXCEPT ![p].nuevas = ids, ![p].pedido = "alojado", ![p].fase = f,
                             ![p].lista = l]
  <2>1. hilo[p].lista \in Seq(Marcos) /\ <<>> \in Seq(Marcos)
    BY Locales, ListasDeMarcos
  <2>2. hilo' = [hilo EXCEPT ![p].nuevas = ids, ![p].pedido = "alojado",
                ![p].fase = IF tabla_de_paginas[p] = <<>> THEN "empieza" ELSE "buscaMarcos",
                ![p].lista = IF tabla_de_paginas[p] = <<>> THEN @ ELSE <<>>]
    BY <1>2 DEF CreaPaginas
  <2>3. CASE tabla_de_paginas[p] = <<>>
    <3>1. hilo' = [hilo EXCEPT ![p].nuevas = ids, ![p].pedido = "alojado",
                               ![p].fase = "empieza", ![p].lista = hilo[p].lista]
      BY <2>2, <2>3, Zenon
    <3>. QED BY <2>1, <3>1
  <2>4. CASE tabla_de_paginas[p] # <<>>
    <3>1. hilo' = [hilo EXCEPT ![p].nuevas = ids, ![p].pedido = "alojado",
                               ![p].fase = "buscaMarcos", ![p].lista = <<>>]
      BY <2>2, <2>4, Zenon
    <3>. QED BY <2>1, <3>1
  <2>. QED BY <2>3, <2>4
<1>7. PICK h : h = [g EXCEPT !.nuevas = ids, !.pedido = "alojado", !.fase = f, !.lista = l]
  OBVIOUS
<1>8. hilo' = [hilo EXCEPT ![p] = h]
  BY <1>1, <1>7, <1>6
<1>9. f \in Fases /\ "alojado" \in Pedidos
  BY DEF Fases, Pedidos
<1>10. /\ h.fase = f /\ h.pedido = "alojado" /\ h.pag = g.pag
      /\ h.vuelve = g.vuelve /\ h.victima = g.victima /\ h.marco = g.marco
      /\ h.lista = l /\ h.nuevas = ids
      /\ h.visitadas = g.visitadas
  BY <1>1, <1>7 DEF TipoDeHilo
<1>11. h \in TipoDeHilo
  BY <1>1, <1>7, <1>9, <1>5 DEF TipoDeHilo
<1>12. Pasa(p, f, "alojado", hilo[p].pag, hilo[p].vuelve, hilo[p].victima, hilo[p].marco,
           l, ids, hilo[p].visitadas)
  BY <1>1, <1>8, <1>10, <1>11, PasaBien
<1>13. /\ tabla_de_paginas' = [tabla_de_paginas EXCEPT ![p] = u]
      /\ contadorPag' = [contadorPag EXCEPT ![p] = contadorPag[p] + n]
      /\ pagina' = [pagina EXCEPT ![p] = [i \in Ids |->
                      IF i \in Range(ids) THEN pagina_nueva ELSE pagina[p][i]]]
      /\ guardado' = [guardado EXCEPT ![p] =
                        [i \in Ids |-> IF i \in Range(ids) THEN Vieja ELSE guardado[p][i]]]
  BY <1>2, <1>4 DEF CreaPaginas
<1>14. TiposPag'
  <2>1. Vieja \in Contenidos /\ pagina_nueva \in TipoDePagina
    BY DEF Contenidos, pagina_nueva, TipoDePagina
  <2>2. /\ tabla_de_paginas' \in [Pids -> Seq(Ids)]
        /\ contadorPag' \in [Pids -> 0..MaxPaginas]
    BY <1>5, <1>13 DEF ITipos, TiposPag
  <2>3. pagina' \in [Pids -> [Ids -> TipoDePagina]]
    BY <1>13, <2>1 DEF ITipos, TiposPag
  <2>4. guardado' \in [Pids -> [Ids -> Contenidos]]
    BY <1>13, <2>1 DEF ITipos, TiposPag
  <2>. QED BY <1>12, <2>2, <2>3, <2>4 DEF CreaPaginas, Pasa, ITipos, TiposPag
<1>15. Forma(p)'
  <2>1. Forma(p) /\ hilo[p].fase = "recorre" /\ hilo[p].pedido = "alloc"
    BY DEF ITipos, CreaPaginas
  <2>2. /\ tabla_de_paginas'[p] = u /\ contadorPag'[p] = contadorPag[p] + n
        /\ carpinchos' = carpinchos /\ swap' = swap
    BY <1>13 DEF CreaPaginas, ITipos, TiposPag
  <2>3. PaginasDe(p)' = PaginasDe(p) \cup Range(ids)
    BY <1>5, <2>2 DEF PaginasDe
  <2>4. \A i \in PaginasDe(p)' : i < contadorPag'[p]
    BY <1>5, <2>2, <2>3
  <2>. QED BY <1>12, <1>5, <2>1, <2>2, <2>3, <2>4 DEF Pasa, Forma, Visita, Falta, Dentro, Escribiendo
<1>16. \A q \in Pids \ {p} : Forma(q)'
  BY <1>12, <1>13, FormaDeOtros, PaginacionOK DEF CreaPaginas, Pasa
<1>. QED BY <1>2, <1>12, <1>14, <1>15, <1>16 DEF ITipos

\* Frames are looked for.
LEMMA TiposBuscarMarcosLibres ==
  ASSUME ITipos, NEW p \in Pids, buscarMarcosLibres(p)
  PROVE  /\ ITipos'
         /\ \E l \in Seq(Marcos) :
              Pasa(p, "recorre", hilo[p].pedido, hilo[p].pag, hilo[p].vuelve, hilo[p].victima,
                   hilo[p].marco, l, hilo[p].nuevas, hilo[p].visitadas)
<1>1. PICK g \in TipoDeHilo : g = hilo[p]
  BY DEF ITipos, TiposPag
<1>2. PICK l \in Seq(Marcos) : hilo' = [hilo EXCEPT ![p].fase = "recorre", ![p].lista = l]
  <2>1. /\ EnOrden({m \in MarcosDe(p) : marcos[m].estaLibre}) \in Seq(Marcos)
        /\ EnOrden(MarcosDe(Nadie)) \in Seq(Marcos)
    BY ListasDeMarcos
  <2>. QED BY <2>1 DEF buscarMarcosLibres
<1>3. PICK h : h = [g EXCEPT !.fase = "recorre", !.lista = l]
  OBVIOUS
<1>4. hilo' = [hilo EXCEPT ![p] = h]
  BY <1>1, <1>2, <1>3
<1>5. "recorre" \in Fases
  BY DEF Fases, Pedidos
<1>6. /\ h.fase = "recorre" /\ h.pedido = g.pedido /\ h.pag = g.pag
      /\ h.vuelve = g.vuelve /\ h.victima = g.victima /\ h.marco = g.marco
      /\ h.lista = l /\ h.nuevas = g.nuevas /\ h.visitadas = g.visitadas
  BY <1>1, <1>3 DEF TipoDeHilo
<1>7. h \in TipoDeHilo
  BY <1>1, <1>3, <1>5 DEF TipoDeHilo
<1>8. Pasa(p, "recorre", hilo[p].pedido, hilo[p].pag, hilo[p].vuelve, hilo[p].victima,
           hilo[p].marco, l, hilo[p].nuevas, hilo[p].visitadas)
  BY <1>1, <1>4, <1>6, <1>7, PasaBien
<1>9. TiposPag'
  BY <1>8 DEF buscarMarcosLibres, Pasa, ITipos, TiposPag
<1>10. Forma(p)'
  <2>1. Forma(p)
    BY DEF ITipos
  <2>. QED BY <1>5, <1>8, <2>1 DEF buscarMarcosLibres, Pasa, Forma, Visita, Falta, Dentro, Escribiendo, PaginasDe
<1>11. \A q \in Pids \ {p} : Forma(q)'
  BY <1>8, FormaDeOtros, PaginacionOK DEF buscarMarcosLibres, Pasa
<1>. QED BY <1>8, <1>9, <1>10, <1>11 DEF ITipos

\* The new pages are going to be written.
LEMMA TiposEmpiezaAEscribir ==
  ASSUME ITipos, NEW p \in Pids, EmpiezaAEscribir(p)
  PROVE  /\ ITipos'
         /\ Pasa(p, "escribe", hilo[p].pedido, 0, hilo[p].vuelve, hilo[p].victima,
                 hilo[p].marco, hilo[p].lista, hilo[p].nuevas, hilo[p].visitadas)
<1>1. PICK g \in TipoDeHilo : g = hilo[p]
  BY DEF ITipos, TiposPag
<1>2. hilo' = [hilo EXCEPT ![p].fase = "escribe", ![p].pag = 0]
  BY DEF EmpiezaAEscribir
<1>3. PICK h : h = [g EXCEPT !.fase = "escribe", !.pag = 0]
  OBVIOUS
<1>4. hilo' = [hilo EXCEPT ![p] = h]
  BY <1>1, <1>2, <1>3
<1>5. "escribe" \in Fases
  BY DEF Fases, Pedidos
<1>6. /\ h.fase = "escribe" /\ h.pedido = g.pedido /\ h.pag = 0
      /\ h.vuelve = g.vuelve /\ h.victima = g.victima /\ h.marco = g.marco
      /\ h.lista = g.lista /\ h.nuevas = g.nuevas /\ h.visitadas = g.visitadas
  BY <1>1, <1>3 DEF TipoDeHilo
<1>7. h \in TipoDeHilo
  BY <1>1, <1>3, <1>5 DEF TipoDeHilo
<1>8. Pasa(p, "escribe", hilo[p].pedido, 0, hilo[p].vuelve, hilo[p].victima,
           hilo[p].marco, hilo[p].lista, hilo[p].nuevas, hilo[p].visitadas)
  BY <1>1, <1>4, <1>6, <1>7, PasaBien
<1>9. TiposPag'
  BY <1>8 DEF EmpiezaAEscribir, Pasa, ITipos, TiposPag
<1>10. Forma(p)'
  <2>1. Forma(p) /\ hilo[p].nuevas \in Seq(Ids) /\ hilo[p].fase \in {"empieza", "recorre"}
    BY Locales DEF ITipos, EmpiezaAEscribir
  <2>2. hilo[p].nuevas # <<>>
    BY <2>1 DEF EmpiezaAEscribir, Forma
  <2>3. 0 <= Len(hilo[p].nuevas)
    BY <2>1
  <2>4. Len(hilo'[p].nuevas) = Len(hilo[p].nuevas) /\ hilo'[p].pag = 0 /\ hilo'[p].fase = "escribe"
    BY <1>8 DEF Pasa
  <2>. QED BY <1>8, <2>1, <2>2, <2>3, <2>4 DEF EmpiezaAEscribir, Pasa, Forma, Visita, Falta, Dentro, Escribiendo, PaginasDe
<1>11. \A q \in Pids \ {p} : Forma(q)'
  BY <1>8, FormaDeOtros, PaginacionOK DEF EmpiezaAEscribir, Pasa
<1>. QED BY <1>8, <1>9, <1>10, <1>11 DEF ITipos

\* A new page is written.
LEMMA TiposEscribeEn ==
  ASSUME ITipos, NEW p \in Pids, NEW m \in Marcos, EscribeEn(p, m),
         hilo[p].fase \in {"escribe", "escribeEn"}, hilo[p].pag < Len(hilo[p].nuevas)
  PROVE  /\ ITipos'
         /\ \E f \in {"ocupa", "escribe"}, n \in Marcos \cup {SinMarco} :
              /\ IF marcos[m].estaLibre THEN f = "ocupa" /\ n = m ELSE f = "escribe" /\ n = SinMarco
              /\ Pasa(p, f, hilo[p].pedido, hilo[p].pag + 1, hilo[p].vuelve,
                      hilo[p].victima, n, hilo[p].lista, hilo[p].nuevas, hilo[p].visitadas)
<1>1. PICK g \in TipoDeHilo : g = hilo[p]
  BY DEF ITipos, TiposPag
<1>2. PICK f \in {"ocupa", "escribe"}, n \in Marcos \cup {SinMarco} :
        /\ IF marcos[m].estaLibre THEN f = "ocupa" /\ n = m ELSE f = "escribe" /\ n = SinMarco
        /\ hilo' = [hilo EXCEPT ![p].fase = f, ![p].pag = hilo[p].pag + 1, ![p].marco = n]
  BY DEF EscribeEn
<1>3. PICK h : h = [g EXCEPT !.fase = f, !.pag = g.pag + 1, !.marco = n]
  OBVIOUS
<1>4. hilo' = [hilo EXCEPT ![p] = h]
  BY <1>1, <1>2, <1>3
<1>5. f \in Fases /\ g.pag + 1 \in Nat
  <2>1. g.pag \in Nat
    BY DEF TipoDeHilo
  <2>. QED BY <1>2, <2>1 DEF Fases
<1>6. /\ h.fase = f /\ h.pedido = g.pedido /\ h.pag = g.pag + 1
      /\ h.vuelve = g.vuelve /\ h.victima = g.victima /\ h.marco = n
      /\ h.lista = g.lista /\ h.nuevas = g.nuevas /\ h.visitadas = g.visitadas
  BY <1>1, <1>3 DEF TipoDeHilo
<1>7. h \in TipoDeHilo
  BY <1>1, <1>2, <1>3, <1>5 DEF TipoDeHilo
<1>8. Pasa(p, f, hilo[p].pedido, hilo[p].pag + 1, hilo[p].vuelve,
           hilo[p].victima, n, hilo[p].lista, hilo[p].nuevas, hilo[p].visitadas)
  BY <1>1, <1>4, <1>6, <1>7, PasaBien
<1>9. TiposPag'
  <2>1. CASE UNCHANGED <<memoriaPrincipal, guardado, copia, pagina, marcos>>
    BY <1>8, <2>1 DEF EscribeEn, Pasa, ITipos, TiposPag
  <2>2. CASE /\ \E i \in Ids : Escribe(p, i, m) /\ \E x \in TipoDePagina : PaginaCambia(p, i, x)
             /\ marcos' = marcos
    <3>1. /\ memoriaPrincipal' \in [Marcos -> Contenidos]
          /\ guardado' \in [Pids -> [Ids -> Contenidos]] /\ copia' \in [Pids -> Contenidos]
      BY <2>2, EscribeEs
    <3>. QED BY <1>8, <2>2, <3>1 DEF EscribeEn, PaginaCambia, Pasa, ITipos, TiposPag
  <2>. QED BY <2>1, <2>2, FotoEscribe
<1>10. Forma(p)'
  <2>1. Forma(p)
    BY DEF ITipos
  <2>2. hilo[p].pag \in Nat /\ Len(hilo[p].nuevas) \in Nat
    <3>1. hilo[p].nuevas \in Seq(Ids) /\ hilo[p].pag \in Nat
      BY Locales
    <3>. QED BY <3>1
  <2>3. hilo[p].pag + 1 <= Len(hilo[p].nuevas) /\ hilo[p].pag + 1 >= 1
    BY <2>2
  <2>4. f = "ocupa" => n \in Marcos
    BY <1>2
  <2>. QED BY <1>2, <1>8, <2>1, <2>3, <2>4 DEF EscribeEn, Pasa, Forma, Visita, Falta, Dentro, Escribiendo, PaginasDe
<1>11. \A q \in Pids \ {p} : Forma(q)'
  BY <1>8, FormaDeOtros, PaginacionOK DEF EscribeEn, Pasa
<1>. QED BY <1>2, <1>8, <1>9, <1>10, <1>11 DEF ITipos

\* Its frame is marked.
LEMMA TiposOcupaMarco ==
  ASSUME ITipos, NEW p \in Pids, OcupaMarco(p)
  PROVE  /\ ITipos'
         /\ Pasa(p, "escribe", hilo[p].pedido, hilo[p].pag, hilo[p].vuelve,
                 hilo[p].victima, SinMarco, hilo[p].lista, hilo[p].nuevas, hilo[p].visitadas)
<1>1. PICK g \in TipoDeHilo : g = hilo[p]
  BY DEF ITipos, TiposPag
<1>2. hilo' = [hilo EXCEPT ![p].fase = "escribe", ![p].marco = SinMarco] /\ hilo[p].fase = "ocupa"
  BY DEF OcupaMarco
<1>3. PICK h : h = [g EXCEPT !.fase = "escribe", !.marco = SinMarco]
  OBVIOUS
<1>4. hilo' = [hilo EXCEPT ![p] = h]
  BY <1>1, <1>2, <1>3
<1>5. "escribe" \in Fases
  BY DEF Fases
<1>6. /\ h.fase = "escribe" /\ h.pedido = g.pedido /\ h.pag = g.pag
      /\ h.vuelve = g.vuelve /\ h.victima = g.victima /\ h.marco = SinMarco
      /\ h.lista = g.lista /\ h.nuevas = g.nuevas /\ h.visitadas = g.visitadas
  BY <1>1, <1>3 DEF TipoDeHilo
<1>7. h \in TipoDeHilo
  BY <1>1, <1>3, <1>5 DEF TipoDeHilo
<1>8. Pasa(p, "escribe", hilo[p].pedido, hilo[p].pag, hilo[p].vuelve,
           hilo[p].victima, SinMarco, hilo[p].lista, hilo[p].nuevas, hilo[p].visitadas)
  BY <1>1, <1>4, <1>6, <1>7, PasaBien
<1>9. TiposPag'
  <2>1. MarcoCambia(hilo[p].marco, [proceso_asignado |-> p, estaLibre |-> FALSE])
    BY FotoOcupaMarco
  <2>. QED BY <1>8, <2>1 DEF OcupaMarco, MarcoCambia, Pasa, ITipos, TiposPag
<1>10. Forma(p)'
  <2>1. Forma(p)
    BY DEF ITipos
  <2>. QED BY <1>2, <1>8, <2>1 DEF OcupaMarco, Pasa, Forma, Visita, Falta, Dentro, Escribiendo, PaginasDe
<1>11. \A q \in Pids \ {p} : Forma(q)'
  BY <1>8, FormaDeOtros, PaginacionOK DEF OcupaMarco, Pasa
<1>. QED BY <1>8, <1>9, <1>10, <1>11 DEF ITipos

\* All the new pages are written.
LEMMA TiposTerminaDeEscribir ==
  ASSUME ITipos, NEW p \in Pids, TerminaDeEscribir(p)
  PROVE  /\ ITipos'
         /\ Pasa(p, "agregaNuevas", hilo[p].pedido, 0, hilo[p].vuelve, hilo[p].victima,
                 hilo[p].marco, <<>>, hilo[p].nuevas, hilo[p].visitadas)
<1>1. PICK g \in TipoDeHilo : g = hilo[p]
  BY DEF ITipos, TiposPag
<1>2. hilo' = [hilo EXCEPT ![p].fase = "agregaNuevas", ![p].pag = 0, ![p].lista = <<>>]
  BY DEF TerminaDeEscribir
<1>3. PICK h : h = [g EXCEPT !.fase = "agregaNuevas", !.pag = 0, !.lista = <<>>]
  OBVIOUS
<1>4. hilo' = [hilo EXCEPT ![p] = h]
  BY <1>1, <1>2, <1>3
<1>5. "agregaNuevas" \in Fases /\ 0 \in Nat /\ <<>> \in Seq(Marcos)
  BY DEF Fases
<1>6. /\ h.fase = "agregaNuevas" /\ h.pedido = g.pedido /\ h.pag = 0
      /\ h.vuelve = g.vuelve /\ h.victima = g.victima /\ h.marco = g.marco
      /\ h.lista = <<>> /\ h.nuevas = g.nuevas /\ h.visitadas = g.visitadas
  BY <1>1, <1>3 DEF TipoDeHilo
<1>7. h \in TipoDeHilo
  BY <1>1, <1>3, <1>5 DEF TipoDeHilo
<1>8. Pasa(p, "agregaNuevas", hilo[p].pedido, 0, hilo[p].vuelve, hilo[p].victima,
           hilo[p].marco, <<>>, hilo[p].nuevas, hilo[p].visitadas)
  BY <1>1, <1>4, <1>6, <1>7, PasaBien
<1>9. TiposPag'
  BY <1>8 DEF TerminaDeEscribir, Pasa, ITipos, TiposPag
<1>10. Forma(p)'
  <2>1. Forma(p)
    BY DEF ITipos
  <2>. QED BY <1>5, <1>8, <2>1 DEF TerminaDeEscribir, Pasa, Forma, Visita, Falta, Dentro, Escribiendo, PaginasDe
<1>11. \A q \in Pids \ {p} : Forma(q)'
  BY <1>8, FormaDeOtros, PaginacionOK DEF TerminaDeEscribir, Pasa
<1>. QED BY <1>8, <1>9, <1>10, <1>11 DEF ITipos

\* A new page enters the TLB.
LEMMA TiposAgregaNueva ==
  ASSUME ITipos, NEW p \in Pids, AgregaNueva(p)
  PROVE  /\ ITipos'
         /\ \E f \in {"recorre", "agregaNuevas"} :
              Pasa(p, f, hilo[p].pedido, hilo[p].pag, hilo[p].vuelve, hilo[p].victima,
                   hilo[p].marco, hilo[p].lista, Tail(hilo[p].nuevas), hilo[p].visitadas)
<1>1. PICK g \in TipoDeHilo : g = hilo[p]
  BY DEF ITipos, TiposPag
<1>2. PICK f \in {"recorre", "agregaNuevas"} :
        /\ hilo' = [hilo EXCEPT ![p].fase = f, ![p].nuevas = Tail(hilo[p].nuevas)]
        /\ f = "recorre" <=> Len(hilo[p].nuevas) = 1
  BY DEF AgregaNueva
<1>3. /\ hilo[p].nuevas \in Seq(Ids) /\ hilo[p].nuevas # <<>> /\ IsInjective(hilo[p].nuevas)
      /\ Forma(p)
  BY Locales DEF AgregaNueva, ITipos, Forma
<1>4. /\ Tail(hilo[p].nuevas) \in Seq(Ids) /\ IsInjective(Tail(hilo[p].nuevas))
      /\ Range(Tail(hilo[p].nuevas)) \subseteq Range(hilo[p].nuevas)
      /\ Tail(hilo[p].nuevas) = <<>> <=> Len(hilo[p].nuevas) = 1
  BY <1>3, ColaEs
<1>5. PICK h : h = [g EXCEPT !.fase = f, !.nuevas = Tail(g.nuevas)]
  OBVIOUS
<1>6. hilo' = [hilo EXCEPT ![p] = h]
  BY <1>1, <1>2, <1>5
<1>7. f \in Fases /\ Tail(g.nuevas) \in Seq(Ids)
  BY <1>1, <1>4 DEF Fases
<1>8. /\ h.fase = f /\ h.pedido = g.pedido /\ h.pag = g.pag
      /\ h.vuelve = g.vuelve /\ h.victima = g.victima /\ h.marco = g.marco
      /\ h.lista = g.lista /\ h.nuevas = Tail(g.nuevas)
      /\ h.visitadas = g.visitadas
  BY <1>1, <1>5 DEF TipoDeHilo
<1>9. h \in TipoDeHilo
  BY <1>1, <1>5, <1>7 DEF TipoDeHilo
<1>10. Pasa(p, f, hilo[p].pedido, hilo[p].pag, hilo[p].vuelve, hilo[p].victima,
           hilo[p].marco, hilo[p].lista, Tail(hilo[p].nuevas), hilo[p].visitadas)
  BY <1>1, <1>6, <1>8, <1>9, PasaBien
<1>11. TiposPag'
  BY <1>10 DEF AgregaNueva, Pasa, ITipos, TiposPag
<1>12. Forma(p)'
  BY <1>2, <1>10, <1>3, <1>4 DEF AgregaNueva, Pasa, Forma, Visita, Falta, Dentro, Escribiendo, PaginasDe
<1>13. \A q \in Pids \ {p} : Forma(q)'
  BY <1>10, FormaDeOtros, PaginacionOK DEF AgregaNueva, Pasa
<1>. QED BY <1>10, <1>11, <1>12, <1>13 DEF ITipos

\* A close starts.
LEMMA TiposBuscaMarcosALiberar ==
  ASSUME ITipos, NEW p \in Pids, BuscaMarcosALiberar(p)
  PROVE  /\ ITipos'
         /\ \E l \in Seq(Marcos) :
              Pasa(p, "cierraMarcos", hilo[p].pedido, hilo[p].pag, hilo[p].vuelve,
                   hilo[p].victima, hilo[p].marco, l, hilo[p].nuevas, hilo[p].visitadas)
<1>1. PICK g \in TipoDeHilo : g = hilo[p]
  BY DEF ITipos, TiposPag
<1>2. PICK l \in Seq(Marcos) : hilo' = [hilo EXCEPT ![p].fase = "cierraMarcos", ![p].lista = l]
  <2>1. EnOrden(MarcosDe(p)) \in Seq(Marcos)
    BY ListasDeMarcos
  <2>. QED BY <2>1 DEF BuscaMarcosALiberar
<1>3. PICK h : h = [g EXCEPT !.fase = "cierraMarcos", !.lista = l]
  OBVIOUS
<1>4. hilo' = [hilo EXCEPT ![p] = h]
  BY <1>1, <1>2, <1>3
<1>5. "cierraMarcos" \in Fases
  BY DEF Fases, Pedidos
<1>6. /\ h.fase = "cierraMarcos" /\ h.pedido = g.pedido /\ h.pag = g.pag
      /\ h.vuelve = g.vuelve /\ h.victima = g.victima /\ h.marco = g.marco
      /\ h.lista = l /\ h.nuevas = g.nuevas /\ h.visitadas = g.visitadas
  BY <1>1, <1>3 DEF TipoDeHilo
<1>7. h \in TipoDeHilo
  BY <1>1, <1>3, <1>5 DEF TipoDeHilo
<1>8. Pasa(p, "cierraMarcos", hilo[p].pedido, hilo[p].pag, hilo[p].vuelve,
           hilo[p].victima, hilo[p].marco, l, hilo[p].nuevas, hilo[p].visitadas)
  BY <1>1, <1>4, <1>6, <1>7, PasaBien
<1>9. TiposPag'
  BY <1>8 DEF BuscaMarcosALiberar, Pasa, ITipos, TiposPag
<1>10. Forma(p)'
  <2>1. Forma(p)
    BY DEF ITipos
  <2>. QED BY <1>5, <1>8, <2>1 DEF BuscaMarcosALiberar, Puede, Pasa, Forma, Visita, Falta, Dentro, Escribiendo, PaginasDe
<1>11. \A q \in Pids \ {p} : Forma(q)'
  BY <1>8, FormaDeOtros, PaginacionOK DEF BuscaMarcosALiberar, Pasa
<1>. QED BY <1>8, <1>9, <1>10, <1>11 DEF ITipos

\* The frames are free.
LEMMA TiposCierraMarcos ==
  ASSUME ITipos, NEW p \in Pids, CierraMarcos(p)
  PROVE  /\ ITipos'
         /\ Pasa(p, "cierraLista", hilo[p].pedido, hilo[p].pag, hilo[p].vuelve,
                 hilo[p].victima, hilo[p].marco, <<>>, hilo[p].nuevas, hilo[p].visitadas)
<1>1. PICK g \in TipoDeHilo : g = hilo[p]
  BY DEF ITipos, TiposPag
<1>2. hilo' = [hilo EXCEPT ![p].fase = "cierraLista", ![p].lista = <<>>]
  BY DEF CierraMarcos
<1>3. PICK h : h = [g EXCEPT !.fase = "cierraLista", !.lista = <<>>]
  OBVIOUS
<1>4. hilo' = [hilo EXCEPT ![p] = h]
  BY <1>1, <1>2, <1>3
<1>5. "cierraLista" \in Fases /\ <<>> \in Seq(Marcos)
  BY DEF Fases
<1>6. /\ h.fase = "cierraLista" /\ h.pedido = g.pedido /\ h.pag = g.pag
      /\ h.vuelve = g.vuelve /\ h.victima = g.victima /\ h.marco = g.marco
      /\ h.lista = <<>> /\ h.nuevas = g.nuevas /\ h.visitadas = g.visitadas
  BY <1>1, <1>3 DEF TipoDeHilo
<1>7. h \in TipoDeHilo
  BY <1>1, <1>3, <1>5 DEF TipoDeHilo
<1>8. Pasa(p, "cierraLista", hilo[p].pedido, hilo[p].pag, hilo[p].vuelve,
           hilo[p].victima, hilo[p].marco, <<>>, hilo[p].nuevas, hilo[p].visitadas)
  BY <1>1, <1>4, <1>6, <1>7, PasaBien
<1>9. TiposPag'
  <2>1. PICK S : S = Range(hilo[p].lista)
    OBVIOUS
  <2>2. PICK x : x = [proceso_asignado |-> Nadie, estaLibre |-> TRUE]
    OBVIOUS
  <2>3. x \in [proceso_asignado : Pids \cup {Nadie}, estaLibre : BOOLEAN]
    BY <2>2
  <2>4. marcos' = [m \in Marcos |-> IF m \in S THEN x ELSE marcos[m]]
    BY <2>1, <2>2 DEF CierraMarcos
  <2>5. MarcosCambian(S, x)
    BY <2>3, <2>4, CambianMarcos
  <2>. QED BY <1>8, <2>5 DEF CierraMarcos, MarcosCambian, Pasa, ITipos, TiposPag
<1>10. Forma(p)'
  <2>1. Forma(p)
    BY DEF ITipos
  <2>. QED BY <1>5, <1>8, <2>1 DEF CierraMarcos, Pasa, Forma, Visita, Falta, Dentro, Escribiendo, PaginasDe
<1>11. \A q \in Pids \ {p} : Forma(q)'
  BY <1>8, FormaDeOtros, PaginacionOK DEF CierraMarcos, Pasa
<1>. QED BY <1>8, <1>9, <1>10, <1>11 DEF ITipos

\* The carpincho leaves the list.
LEMMA TiposCierraLista ==
  ASSUME ITipos, NEW p \in Pids, CierraLista(p)
  PROVE  /\ ITipos'
         /\ Pasa(p, "cierraSwap", hilo[p].pedido, hilo[p].pag, hilo[p].vuelve, hilo[p].victima,
                 hilo[p].marco, hilo[p].lista, hilo[p].nuevas, hilo[p].visitadas)
<1>1. PICK g \in TipoDeHilo : g = hilo[p]
  BY DEF ITipos, TiposPag
<1>2. hilo' = [hilo EXCEPT ![p].fase = "cierraSwap"]
  BY DEF CierraLista
<1>3. PICK h : h = [g EXCEPT !.fase = "cierraSwap"]
  OBVIOUS
<1>4. hilo' = [hilo EXCEPT ![p] = h]
  BY <1>1, <1>2, <1>3
<1>5. "cierraSwap" \in Fases
  BY DEF Fases, Pedidos
<1>6. /\ h.fase = "cierraSwap" /\ h.pedido = g.pedido /\ h.pag = g.pag
      /\ h.vuelve = g.vuelve /\ h.victima = g.victima /\ h.marco = g.marco
      /\ h.lista = g.lista /\ h.nuevas = g.nuevas /\ h.visitadas = g.visitadas
  BY <1>1, <1>3 DEF TipoDeHilo
<1>7. h \in TipoDeHilo
  BY <1>1, <1>3, <1>5 DEF TipoDeHilo
<1>8. Pasa(p, "cierraSwap", hilo[p].pedido, hilo[p].pag, hilo[p].vuelve, hilo[p].victima,
           hilo[p].marco, hilo[p].lista, hilo[p].nuevas, hilo[p].visitadas)
  BY <1>1, <1>4, <1>6, <1>7, PasaBien
<1>9. TiposPag'
  BY <1>8 DEF CierraLista, Pasa, ITipos, TiposPag
<1>10. Forma(p)'
  <2>1. Forma(p)
    BY DEF ITipos
  <2>. QED BY <1>5, <1>8, <2>1 DEF CierraLista, Pasa, Forma, Visita, Falta, Dentro, Escribiendo, PaginasDe
<1>11. \A q \in Pids \ {p} : Forma(q)'
  BY <1>8, FormaDeOtros, PaginacionOK DEF CierraLista, Pasa
<1>. QED BY <1>8, <1>9, <1>10, <1>11 DEF ITipos

\* The swap forgets the carpincho.
LEMMA TiposCierraSwap ==
  ASSUME ITipos, NEW p \in Pids, CierraSwap(p)
  PROVE  /\ ITipos'
         /\ Pasa(p, "cierraTLB", hilo[p].pedido, hilo[p].pag, hilo[p].vuelve, hilo[p].victima,
                 hilo[p].marco, hilo[p].lista, hilo[p].nuevas, hilo[p].visitadas)
<1>1. PICK g \in TipoDeHilo : g = hilo[p]
  BY DEF ITipos, TiposPag
<1>2. hilo' = [hilo EXCEPT ![p].fase = "cierraTLB"]
  BY DEF CierraSwap
<1>3. PICK h : h = [g EXCEPT !.fase = "cierraTLB"]
  OBVIOUS
<1>4. hilo' = [hilo EXCEPT ![p] = h]
  BY <1>1, <1>2, <1>3
<1>5. "cierraTLB" \in Fases
  BY DEF Fases, Pedidos
<1>6. /\ h.fase = "cierraTLB" /\ h.pedido = g.pedido /\ h.pag = g.pag
      /\ h.vuelve = g.vuelve /\ h.victima = g.victima /\ h.marco = g.marco
      /\ h.lista = g.lista /\ h.nuevas = g.nuevas /\ h.visitadas = g.visitadas
  BY <1>1, <1>3 DEF TipoDeHilo
<1>7. h \in TipoDeHilo
  BY <1>1, <1>3, <1>5 DEF TipoDeHilo
<1>8. Pasa(p, "cierraTLB", hilo[p].pedido, hilo[p].pag, hilo[p].vuelve, hilo[p].victima,
           hilo[p].marco, hilo[p].lista, hilo[p].nuevas, hilo[p].visitadas)
  BY <1>1, <1>4, <1>6, <1>7, PasaBien
<1>9. TiposPag'
  <2>1. Vieja \in Contenidos
    BY DEF Contenidos
  <2>2. guardado' \in [Pids -> [Ids -> Contenidos]]
    BY <2>1 DEF CierraSwap, ITipos, TiposPag
  <2>. QED BY <1>8, <2>2 DEF CierraSwap, Pasa, ITipos, TiposPag
<1>10. Forma(p)'
  <2>1. Forma(p)
    BY DEF ITipos
  <2>. QED BY <1>5, <1>8, <2>1 DEF CierraSwap, Pasa, Forma, Visita, Falta, Dentro, Escribiendo, PaginasDe
<1>11. \A q \in Pids \ {p} : Forma(q)'
  BY <1>8, FormaDeOtros, PaginacionOK DEF CierraSwap, Pasa
<1>. QED BY <1>8, <1>9, <1>10, <1>11 DEF ITipos

\* The list of nothing.
LEMMA ListaVacia ==
  ASSUME NEW S
  PROVE  <<>> \in Seq(S)
<1>. QED OBVIOUS

\* A thread without request.
LEMMA QuedaLibre ==
  ASSUME ITipos, NEW p \in Pids, NEW f \in Fases, NEW h, hilo' = [hilo EXCEPT ![p] = h],
         h = [fase |-> f, pedido |-> "ninguno", pag |-> 0, vuelve |-> "", victima |-> <<>>,
              marco |-> SinMarco, lista |-> <<>>, nuevas |-> <<>>, visitadas |-> {}]
  PROVE  Pasa(p, f, "ninguno", 0, "", <<>>, SinMarco, <<>>, <<>>, {})
<1>1. /\ h.fase = f /\ h.pedido = "ninguno" /\ h.pag = 0 /\ h.vuelve = ""
      /\ h.victima = <<>> /\ h.marco = SinMarco /\ h.lista = <<>> /\ h.nuevas = <<>>
      /\ h.visitadas = {}
  OBVIOUS
<1>2. h \in TipoDeHilo
  <2>1. <<>> \in Seq(Marcos) /\ <<>> \in Seq(Ids)
    BY ListaVacia
  <2>3. 0 \in Nat /\ "ninguno" \in Pedidos
    BY DEF Pedidos
  <2>2. SinMarco \in Marcos \cup {SinMarco} /\ <<>> \in (Pids \X Ids) \cup {<<>>}
        /\ "" \in {"", "falta", "escribe"} /\ {} \in SUBSET Ids
    OBVIOUS
  <2>. QED BY <2>1, <2>2, <2>3 DEF TipoDeHilo
<1>3. Pasa(p, h.fase, h.pedido, h.pag, h.vuelve, h.victima, h.marco, h.lista, h.nuevas,
           h.visitadas)
  BY <1>2, PasaBien
<1>. QED BY <1>1, <1>3

\* Nothing a thread knows changes.
LEMMA FormaQuieta ==
  ASSUME ITipos, UNCHANGED <<hilo, tabla_de_paginas, contadorPag, carpinchos, swap>>
  PROVE  \A q \in Pids : Forma(q)'
<1>1. TAKE q \in Pids
<1>2. Forma(q)
  BY DEF ITipos
<1>. QED BY <1>2 DEF Forma, Visita, Falta, Dentro, Escribiendo, PaginasDe

\* The pages of p are forgotten.
LEMMA PaginasNuevas ==
  ASSUME ITipos, NEW p \in Pids,
         pagina' = [pagina EXCEPT ![p] = [i \in Ids |-> pagina_nueva]],
         tabla_de_paginas' = [tabla_de_paginas EXCEPT ![p] = <<>>]
  PROVE  /\ pagina' \in [Pids -> [Ids -> TipoDePagina]]
         /\ \A q \in Pids \ {p} : pagina'[q] = pagina[q]
         /\ tabla_de_paginas' \in [Pids -> Seq(Ids)] /\ tabla_de_paginas'[p] = <<>>
         /\ \A q \in Pids \ {p} : tabla_de_paginas'[q] = tabla_de_paginas[q]
         /\ PaginasDe(p)' = {}
<1>1. pagina_nueva \in TipoDePagina
  BY DEF pagina_nueva, TipoDePagina
<1>2. /\ pagina \in [Pids -> [Ids -> TipoDePagina]] /\ tabla_de_paginas \in [Pids -> Seq(Ids)]
      /\ <<>> \in Seq(Ids)
  BY DEF ITipos, TiposPag
<1>3. /\ pagina' \in [Pids -> [Ids -> TipoDePagina]]
      /\ \A q \in Pids \ {p} : pagina'[q] = pagina[q]
  BY <1>1, <1>2
<1>4. /\ tabla_de_paginas' \in [Pids -> Seq(Ids)] /\ tabla_de_paginas'[p] = <<>>
      /\ \A q \in Pids \ {p} : tabla_de_paginas'[q] = tabla_de_paginas[q]
  BY <1>2
<1>5. PaginasDe(p)' = {}
  BY <1>4 DEF PaginasDe, Range
<1>. QED BY <1>3, <1>4, <1>5

\* A request is answered.
LEMMA TiposTermina ==
  ASSUME ITipos, NEW p \in Pids, Termina(p)
  PROVE  ITipos' /\ Pasa(p, "libre", "ninguno", 0, "", <<>>, SinMarco, <<>>, <<>>, {})
<1>1. Pasa(p, "libre", "ninguno", 0, "", <<>>, SinMarco, <<>>, <<>>, {})
  <2>1. "libre" \in Fases
    BY DEF Fases
  <2>2. hilo' = [hilo EXCEPT ![p] = hilo_libre]
    BY DEF Termina
  <2>. QED BY <2>1, <2>2, QuedaLibre DEF hilo_libre
<1>2. TiposPag'
  BY <1>1 DEF Termina, Pasa, ITipos, TiposPag
<1>3. Forma(p)'
  <2>1. Forma(p) /\ Range(<<>>) = {} /\ IsInjective(<<>>)
    BY DEF ITipos, Range, IsInjective
  <2>. QED BY <1>1, <2>1 DEF Termina, Pasa, Forma, Visita, Falta, Dentro, Escribiendo, PaginasDe
<1>4. \A q \in Pids \ {p} : Forma(q)'
  BY <1>1, FormaDeOtros DEF Termina, Pasa
<1>. QED BY <1>1, <1>2, <1>3, <1>4 DEF ITipos

\* The last block is freed.
LEMMA TiposLiberaTodo ==
  ASSUME ITipos, NEW p \in Pids, LiberaTodo(p)
  PROVE  /\ ITipos' /\ Pasa(p, "libre", "ninguno", 0, "", <<>>, SinMarco, <<>>, <<>>, {})
         /\ MarcosCambian({pagina[p][i].marco : i \in PaginasDe(p)},
                          [proceso_asignado |-> Nadie, estaLibre |-> TRUE])
<1>1. Pasa(p, "libre", "ninguno", 0, "", <<>>, SinMarco, <<>>, <<>>, {})
  <2>1. "libre" \in Fases
    BY DEF Fases
  <2>2. hilo' = [hilo EXCEPT ![p] = hilo_libre]
    BY DEF LiberaTodo
  <2>. QED BY <2>1, <2>2, QuedaLibre DEF hilo_libre
<1>2. /\ pagina' = [pagina EXCEPT ![p] = [i \in Ids |-> pagina_nueva]]
      /\ tabla_de_paginas' = [tabla_de_paginas EXCEPT ![p] = <<>>]
      /\ contadorPag' = [contadorPag EXCEPT ![p] = @ - 1]
      /\ hilo[p].visitadas # {}
  BY DEF LiberaTodo
<1>3. /\ pagina' \in [Pids -> [Ids -> TipoDePagina]]
      /\ tabla_de_paginas' \in [Pids -> Seq(Ids)] /\ tabla_de_paginas'[p] = <<>>
      /\ \A q \in Pids \ {p} : tabla_de_paginas'[q] = tabla_de_paginas[q]
      /\ PaginasDe(p)' = {}
  BY <1>2, PaginasNuevas
<1>4. /\ contadorPag' \in [Pids -> 0..MaxPaginas]
      /\ \A q \in Pids \ {p} : contadorPag'[q] = contadorPag[q]
  <2>1. PICK i : i \in hilo[p].visitadas
    BY <1>2
  <2>2. i \in Ids /\ i < contadorPag[p] /\ contadorPag \in [Pids -> 0..MaxPaginas]
    <3>1. i \in PaginasDe(p) /\ i < contadorPag[p]
      BY <2>1 DEF ITipos, Forma
    <3>2. contadorPag \in [Pids -> 0..MaxPaginas]
      BY DEF ITipos, TiposPag
    <3>. QED BY <3>1, <3>2, PaginasSon
  <2>3. contadorPag[p] - 1 \in 0..MaxPaginas
    <3>1. i \in Nat /\ contadorPag[p] \in 0..MaxPaginas /\ MaxPaginas \in Nat
      BY <2>2, PaginacionOK DEF Ids
    <3>. QED BY <2>2, <3>1
  <2>. QED BY <1>2, <2>2, <2>3
<1>5. MarcosCambian({pagina[p][i].marco : i \in PaginasDe(p)},
                    [proceso_asignado |-> Nadie, estaLibre |-> TRUE])
  <2>1. PICK S : S = {pagina[p][i].marco : i \in PaginasDe(p)}
    OBVIOUS
  <2>2. PICK x : x = [proceso_asignado |-> Nadie, estaLibre |-> TRUE]
    OBVIOUS
  <2>3. x \in [proceso_asignado : Pids \cup {Nadie}, estaLibre : BOOLEAN]
    BY <2>2
  <2>4. marcos' = [m \in Marcos |-> IF m \in S THEN x ELSE marcos[m]]
    BY <2>1, <2>2 DEF LiberaTodo
  <2>5. MarcosCambian(S, x)
    BY <2>3, <2>4, CambianMarcos
  <2>. QED BY <2>1, <2>2, <2>5
<1>6. TiposPag'
  <2>1. cuotaTrunca' \in BOOLEAN
    <3>1. PICK b \in BOOLEAN : cuotaTrunca' = (cuotaTrunca \/ b)
      <4>. DEFINE b == Cardinality(MarcosDe(p) \ {pagina[p][i].marco : i \in PaginasDe(p)})
                        \in 1..(marcosMaximos - 1)
      <4>1. cuotaTrunca' = (cuotaTrunca \/ b) /\ b \in BOOLEAN
        BY DEF LiberaTodo
      <4>. QED BY <4>1
    <3>. QED BY <3>1 DEF ITipos, TiposPag
  <2>. QED BY <1>1, <1>3, <1>4, <1>5, <2>1
       DEF LiberaTodo, MarcosCambian, Pasa, ITipos, TiposPag
<1>7. Forma(p)'
  <2>1. Forma(p) /\ Range(<<>>) = {} /\ IsInjective(<<>>)
    BY DEF ITipos, Range, IsInjective
  <2>2. tabla_de_paginas'[p] = <<>>
    BY <1>3
  <2>. QED BY <1>1, <1>3, <2>1, <2>2 DEF LiberaTodo, Pasa, Forma, Visita, Falta, Dentro, Escribiendo
<1>8. \A q \in Pids \ {p} : Forma(q)'
  BY <1>1, <1>3, <1>4, FormaDeOtros DEF LiberaTodo, Pasa
<1>. QED BY <1>1, <1>5, <1>6, <1>7, <1>8 DEF ITipos

\* A carpincho ends.
LEMMA TiposCierraTLB ==
  ASSUME ITipos, NEW p \in Pids, CierraTLB(p)
  PROVE  ITipos' /\ Pasa(p, "fin", "ninguno", 0, "", <<>>, SinMarco, <<>>, <<>>, {})
<1>1. Pasa(p, "fin", "ninguno", 0, "", <<>>, SinMarco, <<>>, <<>>, {})
  <2>1. "fin" \in Fases
    BY DEF Fases
  <2>2. PICK h : h = [hilo_libre EXCEPT !.fase = "fin"]
    OBVIOUS
  <2>3. h = [fase |-> "fin", pedido |-> "ninguno", pag |-> 0, vuelve |-> "", victima |-> <<>>,
             marco |-> SinMarco, lista |-> <<>>, nuevas |-> <<>>, visitadas |-> {}]
    BY <2>2 DEF hilo_libre
  <2>4. hilo' = [hilo EXCEPT ![p] = h]
    BY <2>2 DEF CierraTLB
  <2>. QED BY <2>1, <2>3, <2>4, QuedaLibre
<1>2. /\ pagina' = [pagina EXCEPT ![p] = [i \in Ids |-> pagina_nueva]]
      /\ tabla_de_paginas' = [tabla_de_paginas EXCEPT ![p] = <<>>]
  BY DEF CierraTLB
<1>3. /\ pagina' \in [Pids -> [Ids -> TipoDePagina]]
      /\ tabla_de_paginas' \in [Pids -> Seq(Ids)] /\ tabla_de_paginas'[p] = <<>>
      /\ \A q \in Pids \ {p} : tabla_de_paginas'[q] = tabla_de_paginas[q]
      /\ PaginasDe(p)' = {}
  BY <1>2, PaginasNuevas
<1>4. TiposPag'
  BY <1>1, <1>3 DEF CierraTLB, Pasa, ITipos, TiposPag
<1>5. Forma(p)'
  <2>1. Forma(p) /\ Range(<<>>) = {} /\ IsInjective(<<>>)
    BY DEF ITipos, Range, IsInjective
  <2>2. tabla_de_paginas'[p] = <<>>
    BY <1>3
  <2>. QED BY <1>1, <1>3, <2>1, <2>2 DEF CierraTLB, Pasa, Forma, Visita, Falta, Dentro, Escribiendo
<1>6. \A q \in Pids \ {p} : Forma(q)'
  BY <1>1, <1>3, FormaDeOtros DEF CierraTLB, Pasa
<1>. QED BY <1>1, <1>4, <1>5, <1>6 DEF ITipos

\* What a suspension changes.
LEMMA FotoSuspende ==
  ASSUME ITipos, NEW p \in Pids, Suspende(p)
  PROVE  /\ guardado' \in [Pids -> [Ids -> Contenidos]]
         /\ MarcosCambian({pagina[p][i].marco : i \in Presentes(p)},
                          [proceso_asignado |-> Nadie, estaLibre |-> TRUE])
<1>1. \A i \in Presentes(p) : i \in Ids /\ pagina[p][i].marco \in Marcos
  <2>1. TAKE i \in Presentes(p)
  <2>2. i \in Ids /\ pagina[p][i].presente
    BY PaginasSon DEF Presentes
  <2>3. pagina[p][i] \in TipoDePagina
    BY <2>2 DEF ITipos, TiposPag
  <2>. QED BY <2>2, <2>3 DEF TipoDePagina
<1>2. /\ guardado \in [Pids -> [Ids -> Contenidos]] /\ memoriaPrincipal \in [Marcos -> Contenidos]
  BY DEF ITipos, TiposPag
<1>3. guardado' = [guardado EXCEPT ![p] = [i \in Ids |->
         IF i \in Presentes(p) THEN memoriaPrincipal[pagina[p][i].marco] ELSE guardado[p][i]]]
  BY DEF Suspende
<1>4. guardado' \in [Pids -> [Ids -> Contenidos]]
  BY <1>1, <1>2, <1>3
<1>5. PICK S : S = {pagina[p][i].marco : i \in Presentes(p)}
  OBVIOUS
<1>6. PICK x : x = [proceso_asignado |-> Nadie, estaLibre |-> TRUE]
  OBVIOUS
<1>7. x \in [proceso_asignado : Pids \cup {Nadie}, estaLibre : BOOLEAN]
  BY <1>6
<1>8. marcos' = [m \in Marcos |-> IF m \in S THEN x ELSE marcos[m]]
  BY <1>5, <1>6 DEF Suspende
<1>9. MarcosCambian(S, x)
  BY <1>7, <1>8, CambianMarcos
<1>. QED BY <1>4, <1>5, <1>6, <1>9

\* A suspension sets the frames and what the swap keeps.
LEMMA TiposSuspende ==
  ASSUME ITipos, NEW p \in Pids, Suspende(p)
  PROVE  ITipos'
<1>1. pedidos + 1 \in Nat
  BY DEF ITipos, TiposPag
<1>2. TiposPag'
  BY <1>1, FotoSuspende DEF Suspende, MarcosCambian, ITipos, TiposPag
<1>3. \A q \in Pids : Forma(q)'
  BY FormaQuieta DEF Suspende
<1>. QED BY <1>2, <1>3 DEF ITipos

\* The steps that change no local.
LEMMA TiposQuietos ==
  ASSUME ITipos, NEW p \in Pids,
         LimpiaTLB \/ NoHayVictima(p) \/ NoHayMarco(p) \/ ListaCorta(p)
  PROVE  ITipos'
<1>1. caida' \in {caida, "sinVictima", "punteroClock", "sinMarco", "listaCorta"}
  BY DEF LimpiaTLB, NoHayVictima, NoHayMarco, ListaCorta
<1>2. UNCHANGED <<config, carpinchos, tabla_de_paginas, pagina, contadorPag, punteroClock,
                  marcos, memoriaPrincipal, guardado, swap, marcos_sem, hilo, pedidos,
                  copia, cuotaTrunca>>
  BY DEF LimpiaTLB, NoHayVictima, NoHayMarco, ListaCorta
<1>3. TiposPag'
  BY <1>1, <1>2 DEF ITipos, TiposPag
<1>4. \A q \in Pids : Forma(q)'
  BY <1>2, FormaQuieta
<1>. QED BY <1>3, <1>4 DEF ITipos

\* Headers are merged.
LEMMA TiposFundeCabecera ==
  ASSUME ITipos, NEW p \in Pids, NEW i \in Ids, FundeCabecera(p, i)
  PROVE  ITipos'
<1>1. /\ memoriaPrincipal' \in [Marcos -> Contenidos]
      /\ guardado' \in [Pids -> [Ids -> Contenidos]] /\ copia' \in [Pids -> Contenidos]
  BY EscribeEs DEF FundeCabecera
<1>2. TiposPag'
  BY <1>1 DEF FundeCabecera, ITipos, TiposPag
<1>3. \A q \in Pids : Forma(q)'
  BY FormaQuieta DEF FundeCabecera
<1>. QED BY <1>2, <1>3 DEF ITipos

\* A new page is written on a frame of the list, or on the frame of a victim.
LEMMA EscribeEnAlguno ==
  ASSUME ITipos, NEW p \in Pids, EscribePagina(p) \/ EscribeTrasDesalojar(p)
  PROVE  \E m \in Marcos :
           /\ EscribeEn(p, m) /\ hilo[p].fase \in {"escribe", "escribeEn"}
           /\ hilo[p].pag < Len(hilo[p].nuevas)
           /\ \/ hilo[p].fase = "escribeEn" /\ m = hilo[p].marco
              \/ hilo[p].fase = "escribe" /\ ~FIJA /\ marcos[m].proceso_asignado = Nadie
              \/ hilo[p].fase = "escribe" /\ FIJA /\ hilo[p].pag < Len(hilo[p].lista)
                 /\ m = hilo[p].lista[hilo[p].pag + 1]
<1>1. PICK s \in Seq(Marcos), k \in Nat : s = hilo[p].lista /\ k = hilo[p].pag
  BY Locales
<1>2. PICK n \in Nat : n = Len(s) /\ \A j \in 1..n : s[j] \in Marcos
  OBVIOUS
<1>3. CASE EscribeTrasDesalojar(p)
  <2>1. hilo[p].marco \in Marcos /\ hilo[p].pag < Len(hilo[p].nuevas) /\ hilo[p].fase = "escribeEn"
    BY <1>3 DEF ITipos, Forma, EscribeTrasDesalojar, Escribiendo
  <2>. QED BY <1>3, <2>1 DEF EscribeTrasDesalojar
<1>4. CASE EscribePagina(p)
  <2>1. /\ hilo[p].fase = "escribe" /\ hilo[p].pag < Len(hilo[p].nuevas) /\ k < n
        /\ \/ FIJA /\ EscribeEn(p, s[k + 1])
           \/ ~FIJA /\ SinDueno(s) # {} /\ EscribeEn(p, s[Min(SinDueno(s))])
    BY <1>1, <1>2, <1>4 DEF EscribePagina
  <2>2. k + 1 \in 1..n
    BY <2>1
  <2>3. CASE FIJA /\ EscribeEn(p, s[k + 1])
    BY <1>1, <1>2, <2>1, <2>2, <2>3
  <2>4. CASE ~FIJA /\ SinDueno(s) # {} /\ EscribeEn(p, s[Min(SinDueno(s))])
    <3>1. SinDueno(s) \subseteq Nat
      BY <1>2 DEF SinDueno
    <3>2. Min(SinDueno(s)) \in SinDueno(s)
      BY <2>4, <3>1, MinEs
    <3>3. PICK j \in 1..n : j = Min(SinDueno(s)) /\ marcos[s[j]].proceso_asignado = Nadie
      BY <1>2, <3>2 DEF SinDueno
    <3>. QED BY <1>2, <2>1, <2>4, <3>3
  <2>. QED BY <2>1, <2>3, <2>4
<1>. QED BY <1>3, <1>4

-----------------------------------------------------------------------------
(* The choice of a victim.                                                 *)

\* The search of CLOCK-M from a place finds the first one there is.
LEMMA PrimeraEs ==
  ASSUME NEW cs, NEW n \in Nat, Len(cs) = n, NEW desde \in Nat, desde < n,
         NEW S, S \subseteq Lugares(cs), S # {}
  PROVE  PrimeraDesde(cs, desde, S) \in S
<1>1. \A k \in Lugares(cs) : Vuelta(cs, desde, k) \in Nat
  <2>1. TAKE k \in Lugares(cs)
  <2>2. k \in Nat /\ k - desde + n \in Nat /\ n > 0
    BY DEF Lugares
  <2>3. (k - desde + n) % n \in Nat
    BY <2>2
  <2>. QED BY <2>3 DEF Vuelta
<1>2. PICK T : T = {Vuelta(cs, desde, k) : k \in S}
  OBVIOUS
<1>3. T \subseteq Nat /\ T # {}
  BY <1>1, <1>2
<1>4. Min(T) \in T /\ \A j \in T : Min(T) <= j
  BY <1>3, MinEs
<1>5. \E k \in S : \A j \in S : Vuelta(cs, desde, k) <= Vuelta(cs, desde, j)
  <2>1. PICK k \in S : Vuelta(cs, desde, k) = Min(T)
    BY <1>2, <1>4
  <2>2. \A j \in S : Vuelta(cs, desde, k) <= Vuelta(cs, desde, j)
    BY <1>2, <1>4, <2>1
  <2>. QED BY <2>2
<1>. QED BY <1>5 DEF PrimeraDesde

\* An enumeration of a finite set has each member at some place.
LEMMA EnumeraEs ==
  ASSUME NEW S, IsFiniteSet(S), NEW cs \in SetToSeqs(S)
  PROVE  /\ cs \in Seq(S) /\ Len(cs) = Cardinality(S) /\ Cardinality(S) \in Nat
         /\ \A c \in S : \E k \in Lugares(cs) : cs[k + 1] = c
         /\ \A k \in Lugares(cs) : k \in Nat /\ cs[k + 1] \in S
<1>1. PICK n \in Nat : n = Cardinality(S)
  BY FS_CardinalityType
<1>2. cs \in [1..n -> S] /\ \A i, j \in 1..n : i # j => cs[i] # cs[j]
  BY <1>1 DEF SetToSeqs
<1>3. cs \in Seq(S) /\ Len(cs) = n
  BY <1>2
<1>4. cs \in Injection(1..n, S)
  BY <1>2 DEF Injection, IsInjective
<1>5. IsFiniteSet(1..n) /\ Cardinality(1..n) = n
  <2>1. 1 \in Int /\ n \in Int
    OBVIOUS
  <2>. QED BY <2>1, FS_Interval
<1>6. cs \in Surjection(1..n, S)
  BY <1>1, <1>4, <1>5, FS_Injection
<1>9. \A c \in S : \E k \in Lugares(cs) : cs[k + 1] = c
  <2>1. TAKE c \in S
  <2>2. PICK k \in 1..n : cs[k] = c
    BY <1>6 DEF Surjection
  <2>3. k - 1 \in Lugares(cs) /\ (k - 1) + 1 = k
    BY <1>3 DEF Lugares
  <2>. QED BY <2>2, <2>3
<1>10. \A k \in Lugares(cs) : k \in Nat /\ cs[k + 1] \in S
  <2>1. TAKE k \in Lugares(cs)
  <2>2. k \in Nat /\ k + 1 \in 1..n
    BY <1>3 DEF Lugares
  <2>. QED BY <1>2, <2>2
<1>. QED BY <1>1, <1>3, <1>9, <1>10

\* The classes of CLOCK-M.
LEMMA ClaseEs ==
  ASSUME ITipos, NEW c \in Pids \X Ids
  PROVE  /\ Clase(c) \in Nat /\ Clase(c) <= 3
         /\ ~pagina[c[1]][c[2]].uso => Clase(c) <= 1
         /\ pagina[c[1]][c[2]].uso => Clase(c) >= 2
         /\ ~pagina[c[1]][c[2]].modificado => Clase(c) \in {0, 2}
         /\ pagina[c[1]][c[2]].modificado => Clase(c) \in {1, 3}
<1>1. c[1] \in Pids /\ c[2] \in Ids /\ pagina \in [Pids -> [Ids -> TipoDePagina]]
  BY DEF ITipos, TiposPag
<1>2. pagina[c[1]][c[2]] \in TipoDePagina
  BY <1>1
<1>3. PICK u \in BOOLEAN, m \in BOOLEAN :
        u = pagina[c[1]][c[2]].uso /\ m = pagina[c[1]][c[2]].modificado
  BY <1>2 DEF TipoDePagina
<1>4. Clase(c) = (IF u THEN 2 ELSE 0) + (IF m THEN 1 ELSE 0)
  BY <1>3 DEF Clase
<1>. QED BY <1>3, <1>4

\* The place CLOCK-M chooses is a place, and of the best class.
LEMMA EligeClockEs ==
  ASSUME ITipos, NEW cs \in Seq(Pids \X Ids), NEW n \in Nat, Len(cs) = n,
         NEW desde \in Nat, desde < n, NEW e, e = EligeClock(cs, desde)
  PROVE  /\ e.lugar \in Lugares(cs) /\ e.lugar \in Nat
         /\ \A k \in Lugares(cs) : Clase(cs[e.lugar + 1]) <= Clase(cs[k + 1])
<1>1. \A k \in Lugares(cs) : k \in Nat /\ cs[k + 1] \in Pids \X Ids
  <2>1. TAKE k \in Lugares(cs)
  <2>2. k \in Nat /\ k + 1 \in 1..n
    BY DEF Lugares
  <2>. QED BY <2>2
<1>2. desde \in Lugares(cs)
  BY DEF Lugares
<1>3. PICK limpias, quietas, sinCambio :
        /\ limpias = {k \in Lugares(cs) : ~Uso(cs, k) /\ ~Modificada(cs, k)}
        /\ quietas = {k \in Lugares(cs) : ~Uso(cs, k)}
        /\ sinCambio = {k \in Lugares(cs) : ~Modificada(cs, k)}
  OBVIOUS
<1>4. /\ limpias # {} => PrimeraDesde(cs, desde, limpias) \in limpias
      /\ quietas # {} => PrimeraDesde(cs, desde, quietas) \in quietas
      /\ sinCambio # {} => PrimeraDesde(cs, desde, sinCambio) \in sinCambio
  <2>1. limpias \subseteq Lugares(cs) /\ quietas \subseteq Lugares(cs) /\ sinCambio \subseteq Lugares(cs)
    BY <1>3
  <2>. QED BY <2>1, PrimeraEs
<1>5. e.lugar = IF limpias # {} THEN PrimeraDesde(cs, desde, limpias)
                ELSE IF quietas # {} THEN PrimeraDesde(cs, desde, quietas)
                ELSE IF sinCambio # {} THEN PrimeraDesde(cs, desde, sinCambio) ELSE desde
  BY <1>3 DEF EligeClock
<1>6. PICK v : v = e.lugar
  OBVIOUS
<1>7. \A k \in Lugares(cs) :
        /\ Clase(cs[k + 1]) \in Nat /\ Clase(cs[k + 1]) <= 3
        /\ ~Uso(cs, k) => Clase(cs[k + 1]) <= 1
        /\ Uso(cs, k) => Clase(cs[k + 1]) >= 2
        /\ ~Modificada(cs, k) => Clase(cs[k + 1]) \in {0, 2}
        /\ Modificada(cs, k) => Clase(cs[k + 1]) \in {1, 3}
  BY <1>1, ClaseEs DEF Uso, Modificada
<1>8. CASE limpias # {}
  <2>1. v \in limpias
    BY <1>4, <1>5, <1>6, <1>8
  <2>2. v \in Lugares(cs) /\ Clase(cs[v + 1]) = 0
    BY <1>3, <1>7, <2>1
  <2>. QED BY <1>1, <1>6, <1>7, <2>2
<1>9. CASE limpias = {} /\ quietas # {}
  <2>1. v \in quietas
    BY <1>4, <1>5, <1>6, <1>9
  <2>2. v \in Lugares(cs) /\ Clase(cs[v + 1]) \in Nat /\ Clase(cs[v + 1]) <= 1
    BY <1>3, <1>7, <2>1
  <2>3. \A k \in Lugares(cs) : Clase(cs[k + 1]) \in Nat /\ Clase(cs[k + 1]) >= 1
    <3>1. TAKE k \in Lugares(cs)
    <3>2. Uso(cs, k) \/ Modificada(cs, k)
      BY <1>3, <1>9
    <3>. QED BY <1>7, <3>2
  <2>. QED BY <1>1, <1>6, <2>2, <2>3
<1>10. CASE limpias = {} /\ quietas = {} /\ sinCambio # {}
  <2>1. v \in sinCambio
    BY <1>4, <1>5, <1>6, <1>10
  <2>2. v \in Lugares(cs) /\ Clase(cs[v + 1]) \in {0, 2}
    BY <1>3, <1>7, <2>1
  <2>3. \A k \in Lugares(cs) : Clase(cs[k + 1]) \in Nat /\ Clase(cs[k + 1]) >= 2
    BY <1>3, <1>7, <1>10
  <2>. QED BY <1>1, <1>6, <2>2, <2>3
<1>11. CASE limpias = {} /\ quietas = {} /\ sinCambio = {}
  <2>1. v = desde
    BY <1>5, <1>6, <1>11
  <2>2. \A k \in Lugares(cs) : Clase(cs[k + 1]) = 3
    <3>1. TAKE k \in Lugares(cs)
    <3>2. Uso(cs, k) /\ Modificada(cs, k)
      BY <1>3, <1>11
    <3>3. Clase(cs[k + 1]) \in {1, 3} /\ Clase(cs[k + 1]) >= 2
      BY <1>7, <3>2
    <3>. QED BY <3>3
  <2>3. v \in Lugares(cs) /\ v \in Nat /\ Clase(cs[v + 1]) = 3
    BY <1>2, <2>1, <2>2
  <2>. QED BY <1>6, <2>2, <2>3
<1>. QED BY <1>8, <1>9, <1>10, <1>11

\* There are finitely many candidates.
LEMMA CandidatasFinitas ==
  ASSUME ITipos, NEW p \in Pids
  PROVE  IsFiniteSet(Candidatas(p)) /\ Candidatas(p) \subseteq Pids \X Ids
<1>1. Candidatas(p) \in SUBSET (Pids \X Ids)
  BY DEF Candidatas, ITipos, TiposPag
<1>2. IsFiniteSet(Pids) /\ IsFiniteSet(Ids)
  <2>1. 0 \in Int /\ MaxPaginas - 1 \in Int
    BY PaginacionOK
  <2>. QED BY <2>1, PaginacionOK, FS_Interval DEF Ids
<1>3. IsFiniteSet(Pids \X Ids)
  BY <1>2, FS_Product
<1>. QED BY <1>1, <1>3, FS_Subset

\* What the choice of a victim changes.
LEMMA FotoElige ==
  ASSUME ITipos, NEW p \in Pids, EligeVictimaLRU(p) \/ EligeVictimaClock(p)
  PROVE  \E c \in Candidatas(p) :
           /\ Desaloja(p, c) /\ NecesitaMarco(p) /\ swap = Nadie
           /\ UNCHANGED <<config, carpinchos, tabla_de_paginas, contadorPag, marcos,
                          memoriaPrincipal, TLB, guardado, marcos_sem, pedidos,
                          cuotaTrunca, caida>>
           /\ pagina' \in [Pids -> [Ids -> TipoDePagina]]
           /\ \A q \in Pids, i \in Ids :
                /\ pagina'[q][i].presente = pagina[q][i].presente
                /\ pagina'[q][i].marco = pagina[q][i].marco
                /\ pagina'[q][i].modificado = pagina[q][i].modificado
           /\ punteroClock' \in [Pids \cup {Nadie} -> Nat]
           /\ config.MMU = "CLOCK-M" => \A d \in Candidatas(p) : Clase(c) <= Clase(d)
<1>1. CASE EligeVictimaLRU(p)
  <2>1. PICK c \in Candidatas(p) : Desaloja(p, c)
    BY <1>1 DEF EligeVictimaLRU
  <2>2. /\ pagina' \in [Pids -> [Ids -> TipoDePagina]]
        /\ punteroClock' \in [Pids \cup {Nadie} -> Nat]
        /\ config.MMU # "CLOCK-M"
    BY <1>1 DEF EligeVictimaLRU, ITipos, TiposPag
  <2>. QED BY <1>1, <2>1, <2>2 DEF EligeVictimaLRU
<1>2. CASE EligeVictimaClock(p)
  <2>1. PICK desde \in Nat : desde = punteroClock[Puntero(p)]
    BY DEF ITipos, TiposPag, Puntero
  <2>2. PICK cs \in Ordenadas(p) :
          /\ desde < Len(cs)
          /\ Desaloja(p, cs[EligeClock(cs, desde).lugar + 1])
          /\ pagina' = [q \in Pids |-> [i \in Ids |->
               IF \E k \in EligeClock(cs, desde).sinUso : cs[k + 1] = <<q, i>>
               THEN [pagina[q][i] EXCEPT !.uso = FALSE] ELSE pagina[q][i]]]
          /\ punteroClock' = [punteroClock EXCEPT ![Puntero(p)] =
                                PunteroTras(cs, desde, EligeClock(cs, desde).lugar)]
    BY <1>2, <2>1 DEF EligeVictimaClock
  <2>3. PICK e : e = EligeClock(cs, desde)
    OBVIOUS
  <2>4. PICK n \in Nat :
          /\ cs \in Seq(Candidatas(p)) /\ Len(cs) = n
          /\ \A c \in Candidatas(p) : \E k \in Lugares(cs) : cs[k + 1] = c
          /\ \A k \in Lugares(cs) : k \in Nat /\ cs[k + 1] \in Candidatas(p)
    BY CandidatasFinitas, EnumeraEs DEF Ordenadas
  <2>5. cs \in Seq(Pids \X Ids)
    BY <2>4, CandidatasFinitas
  <2>6. /\ e.lugar \in Lugares(cs) /\ e.lugar \in Nat
        /\ \A k \in Lugares(cs) : Clase(cs[e.lugar + 1]) <= Clase(cs[k + 1])
    BY <2>2, <2>3, <2>4, <2>5, EligeClockEs
  <2>7. PICK c \in Candidatas(p) : c = cs[e.lugar + 1]
    BY <2>4, <2>6
  <2>8. \A d \in Candidatas(p) : Clase(c) <= Clase(d)
    BY <2>4, <2>6, <2>7
  <2>9. \A x \in TipoDePagina :
          /\ [x EXCEPT !.uso = FALSE] \in TipoDePagina
          /\ [x EXCEPT !.uso = FALSE].presente = x.presente
          /\ [x EXCEPT !.uso = FALSE].marco = x.marco
          /\ [x EXCEPT !.uso = FALSE].modificado = x.modificado
    BY DEF TipoDePagina
  <2>10. pagina \in [Pids -> [Ids -> TipoDePagina]]
    BY DEF ITipos, TiposPag
  <2>11. /\ pagina' \in [Pids -> [Ids -> TipoDePagina]]
         /\ \A q \in Pids, i \in Ids :
              pagina'[q][i] \in {pagina[q][i], [pagina[q][i] EXCEPT !.uso = FALSE]}
    BY <2>2, <2>9, <2>10
  <2>12. \A q \in Pids, i \in Ids :
           /\ pagina'[q][i].presente = pagina[q][i].presente
           /\ pagina'[q][i].marco = pagina[q][i].marco
           /\ pagina'[q][i].modificado = pagina[q][i].modificado
    <3>1. TAKE q \in Pids, i \in Ids
    <3>2. pagina[q][i] \in TipoDePagina
      BY <2>10
    <3>. QED BY <2>9, <2>11, <3>2
  <2>13. punteroClock' \in [Pids \cup {Nadie} -> Nat]
    <3>1. PICK x : x = PunteroTras(cs, desde, e.lugar)
      OBVIOUS
    <3>2. x \in Nat
      <4>1. PICK y \in Nat : y = (IF FIJA THEN desde ELSE e.lugar) + 1
        BY <2>6
      <4>2. y % n \in Nat
        BY <2>2, <2>4
      <4>. QED BY <2>4, <3>1, <4>1, <4>2 DEF PunteroTras
    <3>3. punteroClock' = [punteroClock EXCEPT ![Puntero(p)] = x]
      BY <2>2, <2>3, <3>1
    <3>. QED BY <3>2, <3>3 DEF ITipos, TiposPag
  <2>14. /\ NecesitaMarco(p) /\ swap = Nadie
         /\ UNCHANGED <<config, carpinchos, tabla_de_paginas, contadorPag, marcos,
                        memoriaPrincipal, TLB, guardado, marcos_sem, pedidos,
                        cuotaTrunca, caida>>
    BY <1>2 DEF EligeVictimaClock
  <2>. QED BY <2>2, <2>3, <2>7, <2>8, <2>11, <2>12, <2>13, <2>14
<1>. QED BY <1>1, <1>2

-----------------------------------------------------------------------------
(* The types, from the first state on.                                     *)

\* A victim, by either algorithm.
LEMMA TiposElige ==
  ASSUME ITipos, NEW p \in Pids, EligeVictimaLRU(p) \/ EligeVictimaClock(p)
  PROVE  /\ ITipos'
         /\ \E c \in Candidatas(p) :
              Pasa(p, "saca", hilo[p].pedido, hilo[p].pag, hilo[p].fase, c, MarcoDe(c),
                   hilo[p].lista, hilo[p].nuevas, hilo[p].visitadas)
<1>1. PICK c \in Candidatas(p) :
        /\ Desaloja(p, c) /\ NecesitaMarco(p) /\ swap = Nadie
        /\ UNCHANGED <<config, carpinchos, tabla_de_paginas, contadorPag, marcos,
                       memoriaPrincipal, TLB, guardado, marcos_sem, pedidos,
                       cuotaTrunca, caida>>
        /\ pagina' \in [Pids -> [Ids -> TipoDePagina]]
        /\ punteroClock' \in [Pids \cup {Nadie} -> Nat]
  BY FotoElige
<1>. QED BY <1>1, TiposDesaloja

\* A new page is written, on a frame of the list or on that of a victim.
LEMMA TiposEscribe ==
  ASSUME ITipos, NEW p \in Pids, EscribePagina(p) \/ EscribeTrasDesalojar(p)
  PROVE  /\ ITipos'
         /\ \E f \in {"ocupa", "escribe"}, n \in Marcos \cup {SinMarco} :
              Pasa(p, f, hilo[p].pedido, hilo[p].pag + 1, hilo[p].vuelve,
                   hilo[p].victima, n, hilo[p].lista, hilo[p].nuevas, hilo[p].visitadas)
<1>1. PICK m \in Marcos :
        /\ EscribeEn(p, m) /\ hilo[p].fase \in {"escribe", "escribeEn"}
        /\ hilo[p].pag < Len(hilo[p].nuevas)
  BY EscribeEnAlguno
<1>. QED BY <1>1, TiposEscribeEn

\* The memory starts without carpinchos.
LEMMA TiposInit ==
  ASSUME Init
  PROVE  ITipos
<1>1. /\ pagina_nueva \in TipoDePagina /\ Vieja \in Contenidos /\ "afuera" \in Fases
  BY DEF pagina_nueva, TipoDePagina, Contenidos, Fases
<1>2. MaxPaginas \in Nat /\ 0 \in 0..MaxPaginas
  BY PaginacionOK
<1>3. PICK h : h = [hilo_libre EXCEPT !.fase = "afuera"]
  OBVIOUS
<1>4. h = [fase |-> "afuera", pedido |-> "ninguno", pag |-> 0, vuelve |-> "", victima |-> <<>>,
           marco |-> SinMarco, lista |-> <<>>, nuevas |-> <<>>, visitadas |-> {}]
  BY <1>3 DEF hilo_libre
<1>5. /\ h.fase = "afuera" /\ h.pedido = "ninguno" /\ h.pag = 0 /\ h.vuelve = ""
      /\ h.victima = <<>> /\ h.marco = SinMarco /\ h.lista = <<>> /\ h.nuevas = <<>>
      /\ h.visitadas = {}
  BY <1>4
<1>6. h \in TipoDeHilo
  <2>1. <<>> \in Seq(Marcos) /\ <<>> \in Seq(Ids)
    BY ListaVacia
  <2>2. SinMarco \in Marcos \cup {SinMarco} /\ <<>> \in (Pids \X Ids) \cup {<<>>}
        /\ "" \in {"", "falta", "escribe"} /\ {} \in SUBSET Ids /\ 0 \in Nat
        /\ "ninguno" \in Pedidos
    BY DEF Pedidos
  <2>. QED BY <1>1, <1>4, <2>1, <2>2 DEF TipoDeHilo
<1>7. /\ config \in Configuraciones /\ carpinchos = {}
      /\ tabla_de_paginas = [p \in Pids |-> <<>>]
      /\ pagina = [p \in Pids |-> [i \in Ids |-> pagina_nueva]]
      /\ contadorPag = [p \in Pids |-> 0]
      /\ punteroClock = [p \in Pids \cup {Nadie} |-> 0]
      /\ swap = Nadie /\ marcos_sem = Nadie
      /\ hilo = [p \in Pids |-> h]
      /\ pedidos = 0 /\ cuotaTrunca = FALSE /\ caida = "no"
  BY <1>3 DEF Init
<1>8. /\ marcos = [m \in Marcos |-> [proceso_asignado |-> Nadie, estaLibre |-> TRUE]]
      /\ memoriaPrincipal = [m \in Marcos |-> Vieja]
      /\ guardado = [p \in Pids |-> [i \in Ids |-> Vieja]]
      /\ copia = [p \in Pids |-> Vieja]
  BY DEF Init
<1>9. TiposPag
  <2>1. <<>> \in Seq(Ids)
    BY ListaVacia
  <2>2. /\ tabla_de_paginas \in [Pids -> Seq(Ids)]
        /\ pagina \in [Pids -> [Ids -> TipoDePagina]]
        /\ contadorPag \in [Pids -> 0..MaxPaginas]
        /\ punteroClock \in [Pids \cup {Nadie} -> Nat]
        /\ hilo \in [Pids -> TipoDeHilo]
    BY <1>1, <1>2, <1>6, <1>7, <2>1
  <2>3. /\ marcos \in [Marcos -> [proceso_asignado : Pids \cup {Nadie}, estaLibre : BOOLEAN]]
        /\ memoriaPrincipal \in [Marcos -> Contenidos]
        /\ guardado \in [Pids -> [Ids -> Contenidos]] /\ copia \in [Pids -> Contenidos]
    BY <1>1, <1>8
  <2>. QED BY <1>7, <2>2, <2>3 DEF TiposPag
<1>10. ASSUME NEW p \in Pids PROVE Forma(p)
  <2>1. /\ hilo[p].fase = "afuera" /\ hilo[p].pedido = "ninguno" /\ hilo[p].nuevas = <<>>
        /\ hilo[p].visitadas = {}
    BY <1>5, <1>7
  <2>2. Range(<<>>) = {} /\ IsInjective(<<>>)
    BY DEF Range, IsInjective
  <2>3. tabla_de_paginas[p] = <<>> /\ PaginasDe(p) = {} /\ swap # p
    BY <1>7, <2>2, PaginacionOK DEF PaginasDe
  <2>. QED BY <1>7, <2>1, <2>2, <2>3 DEF Forma, Visita, Falta, Dentro, Escribiendo
<1>. QED BY <1>9, <1>10 DEF ITipos

\* Every step keeps the types.
LEMMA TiposPaso ==
  ASSUME ITipos, [Next]_vars
  PROVE  ITipos'
<1>1. CASE UNCHANGED vars
  <2>1. TiposPag'
    BY <1>1 DEF vars, ITipos, TiposPag
  <2>2. \A q \in Pids : Forma(q)'
    BY <1>1, FormaQuieta DEF vars
  <2>. QED BY <2>1, <2>2 DEF ITipos
<1>2. CASE LimpiaTLB /\ Pids = {}
  BY <1>2 DEF ITipos, TiposPag, LimpiaTLB
<1>3. CASE LimpiaTLB /\ Pids # {}
  BY <1>3, TiposQuietos
<1>4. ASSUME NEW p \in Pids, NEW pedido \in {"acceso", "libera"}, Pide(p, pedido)
      PROVE  ITipos'
  BY <1>4, TiposPide
<1>5. ASSUME NEW p \in Pids, NEW i \in Ids, Accede(p, i) \/ FundeCabecera(p, i)
      PROVE  ITipos'
  BY <1>5, TiposAccede, TiposFundeCabecera
<1>6. ASSUME NEW p \in Pids,
             Inicializa(p) \/ AgregaATLB(p) \/ Usa(p) \/ LiberaTodo(p) \/ Termina(p) \/ Suspende(p)
      PROVE  ITipos'
  BY <1>6, TiposInicializa, TiposAgregaATLB, TiposUsa, TiposLiberaTodo, TiposTermina,
     TiposSuspende
<1>7. ASSUME NEW p \in Pids, Reemplaza(p) PROVE ITipos'
  BY <1>7, TiposQuietos, TiposElige, TiposSacaVictima, TiposQuitaDeTLB, TiposAsignaMarco,
     TiposCopiaPagina DEF Reemplaza
<1>8. ASSUME NEW p \in Pids, NEW n \in 1..MaxPaginas, CreaPaginas(p, n) PROVE ITipos'
  BY <1>8, TiposCreaPaginas
<1>9. ASSUME NEW p \in Pids, Aloja(p) PROVE ITipos'
  BY <1>8, <1>9, TiposPideAlloc, TiposReservaFija, TiposBuscarMarcosLibres,
     TiposEmpiezaAEscribir, TiposEscribe, TiposOcupaMarco, TiposQuietos,
     TiposTerminaDeEscribir, TiposAgregaNueva DEF Aloja
<1>10. ASSUME NEW p \in Pids, Cierra(p) PROVE ITipos'
  BY <1>10, TiposBuscaMarcosALiberar, TiposCierraMarcos, TiposCierraLista, TiposQuietos,
     TiposCierraSwap, TiposCierraTLB DEF Cierra
<1>. QED BY <1>1, <1>2, <1>3, <1>4, <1>5, <1>6, <1>7, <1>9, <1>10 DEF Next

\* TypeOKPag, whatever the number of carpinchos, frames and pages.
THEOREM TiposDeLaMemoria == Spec => []TypeOKPag
<1>1. Init => ITipos
  BY TiposInit
<1>2. ITipos /\ [Next]_vars => ITipos'
  BY TiposPaso
<1>3. ITipos => TypeOKPag
  <2>. SUFFICES ASSUME ITipos PROVE TypeOKPag
    OBVIOUS
  <2>1. \A p \in Pids : Range(tabla_de_paginas[p]) \subseteq Ids /\ IsInjective(tabla_de_paginas[p])
    BY PaginasSon DEF PaginasDe, ITipos, Forma
  <2>2. pagina \in [Pids -> [Ids -> [presente : BOOLEAN, marco : Marcos \cup {SinMarco},
                                     modificado : BOOLEAN, uso : BOOLEAN]]]
    BY DEF ITipos, TiposPag, TipoDePagina
  <2>3. \A p \in Pids : hilo[p].fase \in Fases /\ Range(hilo[p].lista) \subseteq Marcos
    <3>1. TAKE p \in Pids
    <3>2. hilo[p].fase \in Fases /\ hilo[p].lista \in Seq(Marcos)
      BY Locales
    <3>. QED BY <3>2 DEF Range
  <2>4. \A p \in Pids : Range(guardado[p]) \subseteq Contenidos
    BY DEF ITipos, TiposPag, Range
  <2>5. /\ config \in Configuraciones /\ carpinchos \subseteq Pids
        /\ \A p \in Pids : contadorPag[p] \in 0..MaxPaginas
        /\ \A p \in Pids \cup {Nadie} : punteroClock[p] \in Nat
        /\ marcos \in [Marcos -> [proceso_asignado : Pids \cup {Nadie}, estaLibre : BOOLEAN]]
        /\ \A m \in Marcos : memoriaPrincipal[m] \in Contenidos
        /\ \A p \in Pids : copia[p] \in Contenidos
        /\ swap \in Pids \cup {Nadie} /\ marcos_sem \in Pids \cup {Nadie}
        /\ caida \in {"no", "sinVictima", "punteroClock", "sinMarco", "listaCorta"}
    BY DEF ITipos, TiposPag
  <2>. QED BY <2>1, <2>2, <2>3, <2>4, <2>5 DEF TypeOKPag
<1>. QED BY <1>1, <1>2, <1>3, PTL DEF Spec

-----------------------------------------------------------------------------
(* CLOCK-M.                                                                *)

\* No step but the choice of a victim takes a thread to "saca".
LEMMA SoloEligeVictima ==
  ASSUME ITipos, Next, NEW q \in Pids, hilo[q].fase # "saca", hilo'[q].fase = "saca"
  PROVE  EligeVictimaLRU(q) \/ EligeVictimaClock(q)
<1>1. CASE LimpiaTLB
  BY <1>1 DEF LimpiaTLB
<1>2. ASSUME NEW p \in Pids, NEW pedido \in {"acceso", "libera"}, Pide(p, pedido) PROVE FALSE
  BY <1>2, TiposPide DEF Pasa
<1>3. ASSUME NEW p \in Pids, NEW i \in Ids, Accede(p, i) \/ FundeCabecera(p, i) PROVE FALSE
  <2>1. CASE Accede(p, i)
    <3>1. PICK f \in {"usa", "agrega", "falta"} :
            Pasa(p, f, hilo[p].pedido, i, hilo[p].vuelve, hilo[p].victima, hilo[p].marco,
                 hilo[p].lista, hilo[p].nuevas, hilo[p].visitadas)
      BY <2>1, TiposAccede
    <3>. QED BY <3>1 DEF Pasa
  <2>2. CASE FundeCabecera(p, i)
    BY <2>2 DEF FundeCabecera
  <2>. QED BY <1>3, <2>1, <2>2
<1>4. ASSUME NEW p \in Pids,
             Inicializa(p) \/ AgregaATLB(p) \/ Usa(p) \/ LiberaTodo(p) \/ Termina(p) \/ Suspende(p)
      PROVE  FALSE
  <2>1. CASE Inicializa(p)
    BY <2>1, TiposInicializa DEF Pasa
  <2>2. CASE AgregaATLB(p)
    BY <2>2, TiposAgregaATLB DEF Pasa
  <2>3. CASE Usa(p)
    BY <2>3, TiposUsa DEF Pasa
  <2>4. CASE LiberaTodo(p)
    BY <2>4, TiposLiberaTodo DEF Pasa
  <2>5. CASE Termina(p)
    BY <2>5, TiposTermina DEF Pasa
  <2>6. CASE Suspende(p)
    BY <2>6 DEF Suspende
  <2>. QED BY <1>4, <2>1, <2>2, <2>3, <2>4, <2>5, <2>6
<1>5. ASSUME NEW p \in Pids, Reemplaza(p)
      PROVE  EligeVictimaLRU(q) \/ EligeVictimaClock(q)
  <2>1. CASE NoHayVictima(p)
    BY <2>1 DEF NoHayVictima
  <2>2. CASE EligeVictimaLRU(p) \/ EligeVictimaClock(p)
    <3>1. PICK c \in Candidatas(p) :
            Pasa(p, "saca", hilo[p].pedido, hilo[p].pag, hilo[p].fase, c, MarcoDe(c),
                 hilo[p].lista, hilo[p].nuevas, hilo[p].visitadas)
      BY <2>2, TiposElige
    <3>2. q = p
      BY <3>1 DEF Pasa
    <3>. QED BY <2>2, <3>2
  <2>3. CASE SacaVictima(p)
    BY <2>3, TiposSacaVictima DEF Pasa
  <2>4. CASE QuitaDeTLB(p)
    BY <2>4, TiposQuitaDeTLB DEF Pasa
  <2>5. CASE AsignaMarco(p)
    BY <2>5, TiposAsignaMarco DEF Pasa
  <2>6. CASE CopiaPagina(p)
    BY <2>6, TiposCopiaPagina DEF Pasa
  <2>. QED BY <1>5, <2>1, <2>2, <2>3, <2>4, <2>5, <2>6 DEF Reemplaza
<1>6. ASSUME NEW p \in Pids, NEW n \in 1..MaxPaginas, CreaPaginas(p, n) PROVE FALSE
  BY <1>6, TiposCreaPaginas DEF Pasa
<1>7. ASSUME NEW p \in Pids, Aloja(p) PROVE FALSE
  <2>1. CASE PideAlloc(p)
    BY <2>1, TiposPideAlloc DEF Pasa
  <2>2. CASE ReservaFija(p)
    BY <2>2, TiposReservaFija DEF Pasa
  <2>3. CASE buscarMarcosLibres(p)
    BY <2>3, TiposBuscarMarcosLibres DEF Pasa
  <2>4. CASE EmpiezaAEscribir(p)
    BY <2>4, TiposEmpiezaAEscribir DEF Pasa
  <2>5. CASE EscribePagina(p) \/ EscribeTrasDesalojar(p)
    BY <2>5, TiposEscribe DEF Pasa
  <2>6. CASE NoHayMarco(p)
    BY <2>6 DEF NoHayMarco
  <2>7. CASE TerminaDeEscribir(p)
    BY <2>7, TiposTerminaDeEscribir DEF Pasa
  <2>8. CASE AgregaNueva(p)
    BY <2>8, TiposAgregaNueva DEF Pasa
  <2>9. CASE OcupaMarco(p)
    BY <2>9, TiposOcupaMarco DEF Pasa
  <2>. QED BY <1>6, <1>7, <2>1, <2>2, <2>3, <2>4, <2>5, <2>6, <2>7, <2>8, <2>9 DEF Aloja
<1>8. ASSUME NEW p \in Pids, Cierra(p) PROVE FALSE
  <2>1. CASE BuscaMarcosALiberar(p)
    BY <2>1, TiposBuscaMarcosALiberar DEF Pasa
  <2>2. CASE CierraMarcos(p)
    BY <2>2, TiposCierraMarcos DEF Pasa
  <2>3. CASE CierraLista(p)
    BY <2>3, TiposCierraLista DEF Pasa
  <2>4. CASE ListaCorta(p)
    BY <2>4 DEF ListaCorta
  <2>5. CASE CierraSwap(p)
    BY <2>5, TiposCierraSwap DEF Pasa
  <2>6. CASE CierraTLB(p)
    BY <2>6, TiposCierraTLB DEF Pasa
  <2>. QED BY <1>8, <2>1, <2>2, <2>3, <2>4, <2>5, <2>6 DEF Cierra
<1>. QED BY <1>1, <1>2, <1>3, <1>4, <1>5, <1>7, <1>8 DEF Next

\* The page that CLOCK-M takes is of the best class of its candidates, whatever
\* the pages, the pointers and the carpinchos are.
THEOREM ClockDeLaMemoria == Spec => ClockElijeLaMejor
<1>1. Init => ITipos
  BY TiposInit
<1>2. ITipos /\ [Next]_vars => ITipos'
  BY TiposPaso
<1>3. ITipos /\ [Next]_vars =>
        [\A p \in Pids :
           config.MMU = "CLOCK-M" /\ hilo[p].fase # "saca" /\ hilo'[p].fase = "saca" =>
             \A c \in Candidatas(p) : Clase(hilo'[p].victima) <= Clase(c)]_vars
  <2>. SUFFICES ASSUME ITipos, Next, NEW p \in Pids, config.MMU = "CLOCK-M",
                       hilo[p].fase # "saca", hilo'[p].fase = "saca", NEW d \in Candidatas(p)
                PROVE  Clase(hilo'[p].victima) <= Clase(d)
    OBVIOUS
  <2>1. EligeVictimaLRU(p) \/ EligeVictimaClock(p)
    BY SoloEligeVictima
  <2>2. PICK c \in Candidatas(p) :
          Desaloja(p, c) /\ \A e \in Candidatas(p) : Clase(c) <= Clase(e)
    BY <2>1, FotoElige
  <2>3. hilo'[p].victima = c
    <3>1. PICK g \in TipoDeHilo : g = hilo[p]
      BY DEF ITipos, TiposPag
    <3>2. hilo \in [Pids -> TipoDeHilo]
      BY DEF ITipos, TiposPag
    <3>3. hilo'[p] = [g EXCEPT !.fase = "saca", !.vuelve = hilo[p].fase, !.victima = c,
                               !.marco = MarcoDe(c)]
      BY <2>2, <3>1, <3>2 DEF Desaloja
    <3>. QED BY <3>1, <3>3 DEF TipoDeHilo
  <2>. QED BY <2>2, <2>3
<1>. QED BY <1>1, <1>2, <1>3, PTL DEF Spec, ClockElijeLaMejor

-----------------------------------------------------------------------------
(* The frames.                                                             *)

\* The frame of page i of p is its own, or the one its thread has still to mark,
\* and of none of its other pages.
Ocupa(p, i) ==
  /\ IF SinMarcar(p, i) THEN pagina[p][i].marco = hilo[p].marco
     ELSE marcos[pagina[p][i].marco] = [proceso_asignado |-> p, estaLibre |-> FALSE]
  /\ \A j \in Presentes(p) : pagina[p][j].marco = pagina[p][i].marco => j = i

\* The thread has emptied a frame for itself, or has put a new page on one and
\* has still to mark it: the frame is free, and no other thread has it.
Lleva(t) ==
  \/ hilo[t].fase \in {"quita", "asigna", "escribeEn"}
  \/ hilo[t].fase = "ocupa" /\ pagina[t][hilo[t].nuevas[hilo[t].pag]].presente
Transito(t) ==
  Lleva(t) =>
    /\ marcos[hilo[t].marco].estaLibre
    /\ \A u \in Pids \ {t} : Lleva(u) => hilo[u].marco # hilo[t].marco

\* The victim, until its frame is taken away, is a page that is on it.
Victima(t) ==
  LET q == hilo[t].victima[1]
      i == hilo[t].victima[2]
  IN
  Dentro(t) =>
    /\ q \in Abiertos /\ i \in PaginasDe(q)
    /\ hilo[t].fase = "saca" => pagina[q][i].presente /\ pagina[q][i].marco = hilo[t].marco

\* A page that is being brought, or is yet to be written, is absent.
Ausentes(t) ==
  /\ Falta(t) => ~pagina[t][hilo[t].pag].presente
  /\ \A i \in Ids : Pendiente(t, i) => ~pagina[t][i].presente /\ pagina[t][i].modificado

MarcosBien ==
  /\ \A p \in Abiertos : \A i \in Presentes(p) : Ocupa(p, i)
  /\ \A t \in Pids : Transito(t) /\ Victima(t) /\ Ausentes(t)

\* Who writes new pages has the mutex of the frames.
Turno == \A t \in Pids : Escribiendo(t) => marcos_sem = t

IMarcos == Turno /\ (fallas = {} => MarcosBien)

\* A present page is on a frame.
LEMMA PresenteEs ==
  ASSUME ITipos, NEW p \in Pids, NEW i \in Presentes(p)
  PROVE  i \in Ids /\ i \in PaginasDe(p) /\ pagina[p][i].presente /\ pagina[p][i].marco \in Marcos
<1>1. i \in Ids /\ i \in PaginasDe(p) /\ pagina[p][i].presente
  BY PaginasSon DEF Presentes
<1>2. pagina[p][i] \in TipoDePagina
  BY <1>1 DEF ITipos, TiposPag
<1>. QED BY <1>1, <1>2 DEF TipoDePagina

\* A frame in the hands of a thread is one.
LEMMA LlevaEs ==
  ASSUME ITipos, NEW t \in Pids, Lleva(t)
  PROVE  hilo[t].marco \in Marcos
BY DEF ITipos, Forma, Lleva

\* A thread that stays takes no frame in its hands.
LEMMA LlevaSigue ==
  ASSUME ITipos, NEW t \in Pids, hilo'[t] = hilo[t],
         \A i \in Ids : pagina'[t][i].presente => pagina[t][i].presente
  PROVE  Lleva(t)' => Lleva(t)
<1>. SUFFICES ASSUME Lleva(t)' PROVE Lleva(t)
  OBVIOUS
<1>1. CASE hilo[t].fase \in {"quita", "asigna", "escribeEn"}
  BY <1>1 DEF Lleva
<1>2. CASE hilo[t].fase = "ocupa"
  <2>1. PICK i \in Ids : i = hilo[t].nuevas[hilo[t].pag]
    BY <1>2, SinMarcarEs
  <2>2. pagina'[t][i].presente
    BY <1>2, <2>1 DEF Lleva
  <2>. QED BY <1>2, <2>1, <2>2 DEF Lleva
<1>. QED BY <1>1, <1>2 DEF Lleva

\* The frame of a present page is its owner's, or in the hands of its thread.
LEMMA OcupaEs ==
  ASSUME ITipos, MarcosBien, NEW p \in Abiertos, NEW i \in Presentes(p)
  PROVE  /\ p \in Pids /\ i \in Ids /\ Ocupa(p, i) /\ pagina[p][i].marco \in Marcos
         /\ \/ /\ ~SinMarcar(p, i)
               /\ marcos[pagina[p][i].marco] = [proceso_asignado |-> p, estaLibre |-> FALSE]
            \/ /\ SinMarcar(p, i) /\ Lleva(p) /\ hilo[p].fase = "ocupa"
               /\ hilo[p].marco = pagina[p][i].marco /\ marcos[pagina[p][i].marco].estaLibre
<1>1. /\ p \in Pids /\ i \in Ids /\ Ocupa(p, i) /\ pagina[p][i].marco \in Marcos
      /\ pagina[p][i].presente
  BY PresenteEs DEF Abiertos, MarcosBien
<1>2. CASE ~SinMarcar(p, i)
  BY <1>1, <1>2 DEF Ocupa
<1>3. CASE SinMarcar(p, i)
  <2>1. Lleva(p) /\ hilo[p].fase = "ocupa"
    BY <1>1, <1>3 DEF SinMarcar, Lleva
  <2>2. hilo[p].marco = pagina[p][i].marco
    BY <1>1, <1>3 DEF Ocupa
  <2>3. marcos[hilo[p].marco].estaLibre
    BY <1>1, <2>1 DEF MarcosBien, Transito
  <2>. QED BY <1>1, <1>3, <2>1, <2>2, <2>3
<1>. QED BY <1>2, <1>3, <1>1

\* The frame of a page that is marked is of the carpincho of the page.
LEMMA MarcadoEs ==
  ASSUME ITipos, MarcosBien, NEW p \in Abiertos, NEW i \in Presentes(p), ~SinMarcar(p, i)
  PROVE  /\ marcos[pagina[p][i].marco].proceso_asignado = p
         /\ ~marcos[pagina[p][i].marco].estaLibre
<1>1. marcos[pagina[p][i].marco] = [proceso_asignado |-> p, estaLibre |-> FALSE]
  BY OcupaEs
<1>. QED BY <1>1

\* The frame of a present page is taken, or the thread is about to mark it.
LEMMA TomadoEs ==
  ASSUME ITipos, MarcosBien, NEW p \in Abiertos, NEW i \in Presentes(p)
  PROVE  \/ ~marcos[pagina[p][i].marco].estaLibre
         \/ Lleva(p) /\ hilo[p].fase = "ocupa" /\ hilo[p].marco = pagina[p][i].marco
<1>1. CASE SinMarcar(p, i)
  BY <1>1, OcupaEs
<1>2. CASE ~SinMarcar(p, i)
  BY <1>2, MarcadoEs
<1>. QED BY <1>1, <1>2

\* No frame has two pages.
LEMMA MarcosDistintos ==
  ASSUME ITipos, MarcosBien, NEW p \in Abiertos, NEW i \in Presentes(p),
         NEW q \in Abiertos, NEW j \in Presentes(q), pagina[q][j].marco = pagina[p][i].marco
  PROVE  q = p /\ j = i
<1>1. PICK m \in Marcos : m = pagina[p][i].marco /\ m = pagina[q][j].marco
  BY OcupaEs
<1>2. p \in Pids /\ q \in Pids /\ Ocupa(p, i)
  BY OcupaEs
<1>3. \/ marcos[m] = [proceso_asignado |-> p, estaLibre |-> FALSE]
      \/ Lleva(p) /\ hilo[p].marco = m /\ marcos[m].estaLibre
  BY <1>1, OcupaEs
<1>4. \/ marcos[m] = [proceso_asignado |-> q, estaLibre |-> FALSE]
      \/ Lleva(q) /\ hilo[q].marco = m /\ marcos[m].estaLibre
  BY <1>1, OcupaEs
<1>5. q = p
  <2>1. CASE ~marcos[m].estaLibre
    BY <1>3, <1>4, <2>1
  <2>2. CASE marcos[m].estaLibre
    <3>1. Lleva(p) /\ hilo[p].marco = m /\ Lleva(q) /\ hilo[q].marco = m
      BY <1>3, <1>4, <2>2
    <3>2. Transito(p)
      BY <1>2 DEF MarcosBien
    <3>. QED BY <1>2, <3>1, <3>2 DEF Transito
  <2>. QED BY <2>1, <2>2
<1>. QED BY <1>1, <1>2, <1>5 DEF Ocupa

\* A step of p that takes no frame and no page.
LEMMA MarcosQuietos ==
  ASSUME ITipos, MarcosBien, NEW p \in Pids,
         \A q \in Pids \ {p} : hilo'[q] = hilo[q],
         \A q \in Pids, i \in Ids :
           /\ pagina'[q][i].presente = pagina[q][i].presente
           /\ pagina'[q][i].marco = pagina[q][i].marco
           /\ pagina[q][i].modificado => pagina'[q][i].modificado,
         tabla_de_paginas' = tabla_de_paginas,
         p \in Abiertos' <=> p \in Abiertos,
         hilo[p].fase # "ocupa", hilo'[p].fase # "ocupa",
         \A m \in Marcos : marcos[m].estaLibre => marcos'[m].estaLibre,
         \A q \in Abiertos : \A i \in Presentes(q) :
           SinMarcar(q, i) \/ marcos'[pagina[q][i].marco] = marcos[pagina[q][i].marco],
         Lleva(p)' => Lleva(p) /\ hilo'[p].marco = hilo[p].marco,
         Victima(p)', Ausentes(p)'
  PROVE  MarcosBien'
<1>1. Abiertos' = Abiertos
  BY DEF Abiertos
<1>2. \A q \in Pids : PaginasDe(q)' = PaginasDe(q) /\ PaginasDe(q) \subseteq Ids
  BY PaginasSon DEF PaginasDe
<1>3. \A q \in Pids : Presentes(q)' = Presentes(q)
  BY <1>2 DEF Presentes
<1>4. \A q \in Abiertos' : \A i \in Presentes(q)' : Ocupa(q, i)'
  <2>1. TAKE q \in Abiertos'
  <2>2. TAKE i \in Presentes(q)'
  <2>3. q \in Abiertos /\ q \in Pids /\ i \in Presentes(q) /\ Ocupa(q, i)
    BY <1>1, <1>3 DEF MarcosBien, Abiertos
  <2>4. \A j \in Presentes(q) : j \in Ids
    BY <1>2, <2>3 DEF Presentes
  <2>5. \A j \in Presentes(q)' :
          j \in Presentes(q) /\ pagina'[q][j].marco = pagina[q][j].marco
    BY <1>3, <2>3, <2>4
  <2>6. CASE SinMarcar(q, i)
    <3>1. q # p /\ SinMarcar(q, i)' /\ hilo'[q] = hilo[q]
      BY <2>3, <2>6 DEF SinMarcar
    <3>. QED BY <2>3, <2>4, <2>5, <2>6, <3>1 DEF Ocupa
  <2>7. CASE ~SinMarcar(q, i)
    <3>1. ~SinMarcar(q, i)'
      <4>1. CASE q = p
        BY <4>1 DEF SinMarcar
      <4>2. CASE q # p
        BY <2>3, <2>7, <4>2 DEF SinMarcar
      <4>. QED BY <4>1, <4>2
    <3>2. marcos'[pagina[q][i].marco] = marcos[pagina[q][i].marco]
      BY <2>3, <2>7
    <3>. QED BY <2>3, <2>4, <2>5, <2>7, <3>1, <3>2 DEF Ocupa
  <2>. QED BY <2>6, <2>7
<1>5. \A t \in Pids : Lleva(t)' => Lleva(t) /\ hilo'[t].marco = hilo[t].marco
  BY LlevaSigue
<1>6. ASSUME NEW t \in Pids PROVE Transito(t)'
  <2>1. Transito(t) /\ (Lleva(t) => hilo[t].marco \in Marcos)
    BY LlevaEs DEF MarcosBien
  <2>. QED BY <1>5, <2>1 DEF Transito
<1>7. ASSUME NEW t \in Pids, t # p PROVE Victima(t)' /\ Ausentes(t)'
  <2>1. Victima(t) /\ Ausentes(t) /\ hilo'[t] = hilo[t]
    BY <1>7 DEF MarcosBien
  <2>2. Victima(t)'
    <3>1. CASE ~Dentro(t)
      BY <2>1, <3>1 DEF Victima, Dentro
    <3>2. CASE Dentro(t)
      <4>1. PICK q \in Pids, i \in Ids : hilo[t].victima = <<q, i>>
        BY <3>2, DentroEs
      <4>. QED BY <1>1, <1>2, <2>1, <4>1 DEF Victima, Dentro
    <3>. QED BY <3>1, <3>2
  <2>3. Ausentes(t)'
    <3>1. Falta(t)' <=> Falta(t)
      BY <2>1 DEF Falta, Dentro
    <3>2. \A i \in Ids : Pendiente(t, i)' <=> Pendiente(t, i)
      BY <2>1 DEF Pendiente, Escribiendo, Dentro
    <3>3. Falta(t) => hilo[t].pag \in Ids
      BY VisitaEs DEF Visita
    <3>. QED BY <2>1, <3>1, <3>2, <3>3 DEF Ausentes
  <2>. QED BY <2>2, <2>3
<1>. QED BY <1>4, <1>6, <1>7 DEF MarcosBien

\* A thread without new pages has none to write.
LEMMA SinPendientes ==
  ASSUME NEW p \in Pids
  PROVE  /\ hilo[p].nuevas = <<>> => \A i \in Ids : ~Pendiente(p, i)
         /\ hilo'[p].nuevas = <<>> => \A i \in Ids : ~Pendiente(p, i)'
<1>1. Len(<<>>) = 0 /\ \A k \in 1..0 : FALSE
  OBVIOUS
<1>. QED BY <1>1 DEF Pendiente

\* A step that neither starts to write nor goes back has no more pages to write.
LEMMA PendientesQuedan ==
  ASSUME ITipos, NEW p \in Pids, hilo'[p].nuevas = hilo[p].nuevas, hilo[p].fase # "agregaNuevas",
         Escribiendo(p) => Escribiendo(p)' /\ hilo'[p].pag \in Nat /\ hilo'[p].pag >= hilo[p].pag
  PROVE  \A i \in Ids : Pendiente(p, i)' => Pendiente(p, i)
<1>1. TAKE i \in Ids
<1>2. HAVE Pendiente(p, i)'
<1>3. PICK k \in 1..Len(hilo[p].nuevas) :
        hilo[p].nuevas[k] = i /\ (Escribiendo(p)' => hilo'[p].pag < k)
  BY <1>2 DEF Pendiente
<1>4. hilo[p].pag \in Nat /\ hilo[p].nuevas \in Seq(Ids)
  BY Locales
<1>5. Len(hilo[p].nuevas) \in Nat
  BY <1>4
<1>6. k \in Nat
  BY <1>5
<1>7. Escribiendo(p) => hilo[p].pag < k
  BY <1>3, <1>4, <1>6
<1>. QED BY <1>3, <1>7 DEF Pendiente

\* A step of p that touches no frame and no page.
LEMMA MarcosControl ==
  ASSUME ITipos, MarcosBien, NEW p \in Pids,
         \A q \in Pids \ {p} : hilo'[q] = hilo[q],
         UNCHANGED <<pagina, tabla_de_paginas, marcos>>,
         p \in Abiertos' <=> p \in Abiertos, hilo[p].fase # "ocupa",
         hilo'[p].fase \notin {"saca", "quita", "asigna", "escribeEn", "ocupa"},
         hilo'[p].fase = "falta" => ~pagina[p][hilo'[p].pag].presente,
         \A i \in Ids : Pendiente(p, i)' => Pendiente(p, i)
  PROVE  MarcosBien'
<1>1. ~Lleva(p)' /\ ~Dentro(p)'
  BY DEF Lleva, Dentro
<1>2. Victima(p)'
  BY <1>1 DEF Victima
<1>3. Ausentes(p)'
  <2>1. Ausentes(p)
    BY DEF MarcosBien
  <2>2. Falta(p)' => hilo'[p].fase = "falta"
    BY <1>1 DEF Falta
  <2>. QED BY <2>1, <2>2 DEF Ausentes
<1>. QED BY <1>1, <1>2, <1>3, MarcosQuietos

\* A step of a thread that has no new pages, and goes on without.
LEMMA MarcosSinNuevas ==
  ASSUME ITipos, MarcosBien, NEW p \in Pids,
         \A q \in Pids \ {p} : hilo'[q] = hilo[q],
         UNCHANGED <<pagina, tabla_de_paginas, marcos>>,
         p \in Abiertos' <=> p \in Abiertos, hilo[p].fase # "ocupa",
         hilo'[p].fase \notin {"saca", "quita", "asigna", "escribeEn", "ocupa", "falta"},
         hilo'[p].nuevas = <<>>
  PROVE  MarcosBien'
BY SinPendientes, MarcosControl

\* Arrival, start and end of a request, and the steps of a close that take no page.
LEMMA MarcosInicializa ==
  ASSUME ITipos, MarcosBien, NEW p \in Pids,
         \/ Inicializa(p) \/ \E pedido \in {"acceso", "libera"} : Pide(p, pedido)
         \/ PideAlloc(p) \/ Termina(p) \/ BuscaMarcosALiberar(p) \/ CierraLista(p)
         \/ CierraSwap(p)
  PROVE  MarcosBien'
<1>1. hilo[p].fase \in {"afuera", "libre", "reserva", "cierraMarcos", "cierraLista", "cierraSwap",
                        "cierraTLB", "fin"} => hilo[p].nuevas = <<>>
  BY DEF ITipos, Forma
<1>2. CASE Inicializa(p)
  <2>1. Pasa(p, "libre", hilo[p].pedido, hilo[p].pag, hilo[p].vuelve, hilo[p].victima,
             hilo[p].marco, hilo[p].lista, hilo[p].nuevas, hilo[p].visitadas)
    BY <1>2, TiposInicializa
  <2>. QED BY <1>1, <1>2, <2>1, MarcosSinNuevas DEF Inicializa, Pasa, Abiertos
<1>3. ASSUME NEW pedido \in {"acceso", "libera"}, Pide(p, pedido) PROVE MarcosBien'
  <2>1. Pasa(p, "recorre", pedido, hilo[p].pag, hilo[p].vuelve, hilo[p].victima,
             hilo[p].marco, hilo[p].lista, hilo[p].nuevas, hilo[p].visitadas)
    BY <1>3, TiposPide
  <2>. QED BY <1>1, <1>3, <2>1, MarcosSinNuevas DEF Pide, Puede, Pasa, Abiertos
<1>4. CASE PideAlloc(p)
  <2>1. PICK f \in {"reserva", "recorre"}, l \in Seq(Marcos) :
          Pasa(p, f, "alloc", hilo[p].pag, hilo[p].vuelve, hilo[p].victima, hilo[p].marco, l,
               hilo[p].nuevas, hilo[p].visitadas)
    BY <1>4, TiposPideAlloc
  <2>. QED BY <1>1, <1>4, <2>1, MarcosSinNuevas DEF PideAlloc, Puede, Pasa, Abiertos
<1>5. CASE Termina(p)
  <2>1. Pasa(p, "libre", "ninguno", 0, "", <<>>, SinMarco, <<>>, <<>>, {})
    BY <1>5, TiposTermina
  <2>. QED BY <1>5, <2>1, MarcosSinNuevas DEF Termina, Pasa, Abiertos
<1>6. CASE BuscaMarcosALiberar(p)
  <2>1. PICK l \in Seq(Marcos) :
          Pasa(p, "cierraMarcos", hilo[p].pedido, hilo[p].pag, hilo[p].vuelve, hilo[p].victima,
               hilo[p].marco, l, hilo[p].nuevas, hilo[p].visitadas)
    BY <1>6, TiposBuscaMarcosALiberar
  <2>. QED BY <1>1, <1>6, <2>1, MarcosSinNuevas DEF BuscaMarcosALiberar, Puede, Pasa, Abiertos
<1>7. CASE CierraLista(p)
  <2>1. Pasa(p, "cierraSwap", hilo[p].pedido, hilo[p].pag, hilo[p].vuelve, hilo[p].victima,
             hilo[p].marco, hilo[p].lista, hilo[p].nuevas, hilo[p].visitadas)
    BY <1>7, TiposCierraLista
  <2>. QED BY <1>1, <1>7, <2>1, MarcosSinNuevas DEF CierraLista, Pasa, Abiertos
<1>8. CASE CierraSwap(p)
  <2>1. Pasa(p, "cierraTLB", hilo[p].pedido, hilo[p].pag, hilo[p].vuelve, hilo[p].victima,
             hilo[p].marco, hilo[p].lista, hilo[p].nuevas, hilo[p].visitadas)
    BY <1>8, TiposCierraSwap
  <2>. QED BY <1>1, <1>8, <2>1, MarcosSinNuevas DEF CierraSwap, Pasa, Abiertos
<1>. QED BY <1>2, <1>3, <1>4, <1>5, <1>6, <1>7, <1>8

\* An access looks for its page: it faults only if the page is absent.
LEMMA MarcosAccede ==
  ASSUME ITipos, MarcosBien, NEW p \in Pids, NEW i \in Ids, Accede(p, i), fallas' = {}
  PROVE  MarcosBien'
<1>1. PICK f \in {"usa", "agrega", "falta"} :
        Pasa(p, f, hilo[p].pedido, i, hilo[p].vuelve, hilo[p].victima, hilo[p].marco,
             hilo[p].lista, hilo[p].nuevas, hilo[p].visitadas)
  BY TiposAccede
<1>2. /\ \A q \in Pids \ {p} : hilo'[q] = hilo[q]
      /\ hilo'[p].fase = f /\ hilo'[p].pag = i /\ hilo'[p].nuevas = hilo[p].nuevas
  BY <1>1 DEF Pasa
<1>3. f = "falta" => ~pagina[p][i].presente
  <2>1. hilo' = [hilo EXCEPT ![p].pag = i,
                   ![p].fase = IF \E k \in 1..Len(TLB) : TLB[k] = <<p, i>> THEN "usa"
                               ELSE IF pagina[p][i].presente THEN "agrega" ELSE "falta"]
    BY DEF Accede
  <2>2. hilo \in [Pids -> TipoDeHilo]
    BY DEF ITipos, TiposPag
  <2>3. hilo'[p].fase = IF \E k \in 1..Len(TLB) : TLB[k] = <<p, i>> THEN "usa"
                        ELSE IF pagina[p][i].presente THEN "agrega" ELSE "falta"
    BY <2>1, <2>2 DEF TipoDeHilo
  <2>. QED BY <1>2, <2>3
<1>4. \A j \in Ids : Pendiente(p, j)' => Pendiente(p, j)
  BY <1>2, PendientesQuedan DEF Accede, Escribiendo, Dentro
<1>. QED BY <1>2, <1>3, <1>4, MarcosControl DEF Accede, Abiertos

\* The page enters the TLB.
LEMMA MarcosAgregaATLB ==
  ASSUME ITipos, MarcosBien, NEW p \in Pids,
         AgregaATLB(p) \/ CopiaPagina(p) \/ buscarMarcosLibres(p) \/ EmpiezaAEscribir(p)
  PROVE  MarcosBien'
<1>1. CASE AgregaATLB(p)
  <2>1. Pasa(p, "usa", hilo[p].pedido, hilo[p].pag, hilo[p].vuelve, hilo[p].victima,
             hilo[p].marco, hilo[p].lista, hilo[p].nuevas, hilo[p].visitadas)
    BY <1>1, TiposAgregaATLB
  <2>2. \A i \in Ids : Pendiente(p, i)' => Pendiente(p, i)
    BY <1>1, <2>1, PendientesQuedan DEF AgregaATLB, Pasa, Escribiendo, Dentro
  <2>. QED BY <1>1, <2>1, <2>2, MarcosControl DEF AgregaATLB, Pasa, Abiertos
<1>2. CASE CopiaPagina(p)
  <2>1. Pasa(p, "agrega", hilo[p].pedido, hilo[p].pag, hilo[p].vuelve, hilo[p].victima,
             hilo[p].marco, hilo[p].lista, hilo[p].nuevas, hilo[p].visitadas)
    BY <1>2, TiposCopiaPagina
  <2>2. \A i \in Ids : Pendiente(p, i)' => Pendiente(p, i)
    BY <1>2, <2>1, PendientesQuedan DEF CopiaPagina, Pasa, Escribiendo, Dentro
  <2>. QED BY <1>2, <2>1, <2>2, MarcosControl DEF CopiaPagina, Pasa, Abiertos
<1>3. CASE buscarMarcosLibres(p)
  <2>1. PICK l \in Seq(Marcos) :
          Pasa(p, "recorre", hilo[p].pedido, hilo[p].pag, hilo[p].vuelve, hilo[p].victima,
               hilo[p].marco, l, hilo[p].nuevas, hilo[p].visitadas)
    BY <1>3, TiposBuscarMarcosLibres
  <2>2. \A i \in Ids : Pendiente(p, i)' => Pendiente(p, i)
    BY <1>3, <2>1, PendientesQuedan DEF buscarMarcosLibres, Pasa, Escribiendo, Dentro
  <2>. QED BY <1>3, <2>1, <2>2, MarcosControl DEF buscarMarcosLibres, Pasa, Abiertos
<1>4. CASE EmpiezaAEscribir(p)
  <2>1. Pasa(p, "escribe", hilo[p].pedido, 0, hilo[p].vuelve, hilo[p].victima,
             hilo[p].marco, hilo[p].lista, hilo[p].nuevas, hilo[p].visitadas)
    BY <1>4, TiposEmpiezaAEscribir
  <2>2. hilo[p].fase \in {"empieza", "recorre"}
    BY <1>4 DEF EmpiezaAEscribir
  <2>3. \A i \in Ids : Pendiente(p, i)' => Pendiente(p, i)
    BY <2>1, <2>2, PendientesQuedan DEF Pasa, Escribiendo, Dentro
  <2>4. UNCHANGED <<pagina, tabla_de_paginas, marcos>>
    BY <1>4 DEF EmpiezaAEscribir
  <2>. QED BY <2>1, <2>2, <2>3, <2>4, MarcosControl DEF Pasa, Abiertos
<1>. QED BY <1>1, <1>2, <1>3, <1>4

\* A new page enters the TLB.
LEMMA MarcosAgregaNueva ==
  ASSUME ITipos, MarcosBien, NEW p \in Pids, AgregaNueva(p) \/ TerminaDeEscribir(p)
  PROVE  MarcosBien'
<1>1. CASE AgregaNueva(p)
  <2>1. PICK f \in {"recorre", "agregaNuevas"} :
          Pasa(p, f, hilo[p].pedido, hilo[p].pag, hilo[p].vuelve, hilo[p].victima,
               hilo[p].marco, hilo[p].lista, Tail(hilo[p].nuevas), hilo[p].visitadas)
    BY <1>1, TiposAgregaNueva
  <2>2. hilo'[p].fase = IF Len(hilo[p].nuevas) = 1 THEN "recorre" ELSE "agregaNuevas"
    <3>1. hilo \in [Pids -> TipoDeHilo]
      BY DEF ITipos, TiposPag
    <3>2. hilo' = [hilo EXCEPT ![p].nuevas = Tail(@),
                     ![p].fase = IF Len(hilo[p].nuevas) = 1 THEN "recorre" ELSE "agregaNuevas"]
      BY <1>1 DEF AgregaNueva
    <3>. QED BY <3>1, <3>2 DEF TipoDeHilo
  <2>3. hilo[p].nuevas \in Seq(Ids) /\ hilo[p].nuevas # <<>> /\ IsInjective(hilo[p].nuevas)
    BY <1>1, Locales DEF AgregaNueva, ITipos, Forma
  <2>4. hilo'[p].fase = "recorre" => hilo'[p].nuevas = <<>>
    <3>1. hilo'[p].fase = "recorre" => Len(hilo[p].nuevas) = 1
      BY <2>2
    <3>2. Len(hilo[p].nuevas) = 1 => Tail(hilo[p].nuevas) = <<>>
      BY <2>3, ColaEs
    <3>. QED BY <2>1, <3>1, <3>2 DEF Pasa
  <2>5. \A i \in Ids : ~Pendiente(p, i)'
    <3>1. CASE hilo'[p].fase = "recorre"
      BY <2>4, <3>1, SinPendientes
    <3>2. CASE hilo'[p].fase = "agregaNuevas"
      BY <3>2 DEF Pendiente
    <3>. QED BY <2>2, <3>1, <3>2
  <2>6. UNCHANGED <<pagina, tabla_de_paginas, marcos>> /\ hilo[p].fase = "agregaNuevas"
    BY <1>1 DEF AgregaNueva
  <2>. QED BY <2>1, <2>5, <2>6, MarcosControl DEF Pasa, Abiertos
<1>2. CASE TerminaDeEscribir(p)
  <2>1. Pasa(p, "agregaNuevas", hilo[p].pedido, 0, hilo[p].vuelve, hilo[p].victima,
             hilo[p].marco, <<>>, hilo[p].nuevas, hilo[p].visitadas)
    BY <1>2, TiposTerminaDeEscribir
  <2>2. \A i \in Ids : ~Pendiente(p, i)'
    BY <2>1 DEF Pasa, Pendiente
  <2>. QED BY <1>2, <2>1, <2>2, MarcosControl DEF TerminaDeEscribir, Pasa, Abiertos
<1>. QED BY <1>1, <1>2

\* The page is used, which takes no frame.
LEMMA MarcosUsa ==
  ASSUME ITipos, MarcosBien, NEW p \in Pids, Usa(p)
  PROVE  MarcosBien'
<1>1. PICK v \in SUBSET Ids :
        Pasa(p, "recorre", hilo[p].pedido, hilo[p].pag, hilo[p].vuelve, hilo[p].victima,
             hilo[p].marco, hilo[p].lista, hilo[p].nuevas, v)
  BY TiposUsa
<1>2. PICK i \in Ids, x \in TipoDePagina :
        /\ i = hilo[p].pag /\ PaginaCambia(p, i, x)
        /\ x.presente = pagina[p][i].presente /\ x.marco = pagina[p][i].marco
        /\ x.modificado = pagina[p][i].modificado \/ x.modificado = TRUE
  BY FotoUsa
<1>3. \A q \in Pids, j \in Ids :
        /\ pagina'[q][j].presente = pagina[q][j].presente
        /\ pagina'[q][j].marco = pagina[q][j].marco
        /\ pagina[q][j].modificado => pagina'[q][j].modificado
  <2>1. TAKE q \in Pids, j \in Ids
  <2>2. CASE q = p /\ j = i
    BY <1>2, <2>2 DEF PaginaCambia
  <2>3. CASE q # p \/ j # i
    BY <1>2, <2>3 DEF PaginaCambia
  <2>. QED BY <2>2, <2>3
<1>4. \A j \in Ids : Pendiente(p, j)' => Pendiente(p, j)
  BY <1>1, PendientesQuedan DEF Usa, Pasa, Escribiendo, Dentro
<1>5. ~Lleva(p)' /\ ~Dentro(p)' /\ ~Falta(p)'
  BY <1>1 DEF Pasa, Lleva, Dentro, Falta
<1>6. Victima(p)' /\ Ausentes(p)'
  <2>1. Ausentes(p)
    BY DEF MarcosBien
  <2>. QED BY <1>3, <1>4, <1>5, <2>1 DEF Victima, Ausentes
<1>7. /\ p \in Abiertos' <=> p \in Abiertos
      /\ \A q \in Pids \ {p} : hilo'[q] = hilo[q]
      /\ tabla_de_paginas' = tabla_de_paginas /\ marcos' = marcos
  BY <1>1 DEF Usa, Pasa, Abiertos
<1>8. hilo[p].fase # "ocupa" /\ hilo'[p].fase # "ocupa"
  BY <1>1 DEF Usa, Pasa
<1>9. /\ \A m \in Marcos : marcos[m].estaLibre => marcos'[m].estaLibre
      /\ \A q \in Abiertos : \A j \in Presentes(q) :
           SinMarcar(q, j) \/ marcos'[pagina[q][j].marco] = marcos[pagina[q][j].marco]
  BY <1>7
<1>. QED BY <1>3, <1>5, <1>6, <1>7, <1>8, <1>9, MarcosQuietos

\* A victim is of a carpincho that has not given up its frames.
LEMMA MarcosElige ==
  ASSUME ITipos, MarcosBien, NEW p \in Pids, EligeVictimaLRU(p) \/ EligeVictimaClock(p),
         fallas' = {}
  PROVE  MarcosBien'
<1>1. PICK c \in Candidatas(p) :
        /\ Desaloja(p, c) /\ NecesitaMarco(p) /\ swap = Nadie
        /\ UNCHANGED <<config, carpinchos, tabla_de_paginas, contadorPag, marcos,
                       memoriaPrincipal, TLB, guardado, marcos_sem, pedidos,
                       cuotaTrunca, caida>>
        /\ pagina' \in [Pids -> [Ids -> TipoDePagina]]
        /\ punteroClock' \in [Pids \cup {Nadie} -> Nat]
        /\ \A q \in Pids, i \in Ids :
             /\ pagina'[q][i].presente = pagina[q][i].presente
             /\ pagina'[q][i].marco = pagina[q][i].marco
             /\ pagina'[q][i].modificado = pagina[q][i].modificado
  BY FotoElige
<1>2. Pasa(p, "saca", hilo[p].pedido, hilo[p].pag, hilo[p].fase, c, MarcoDe(c),
           hilo[p].lista, hilo[p].nuevas, hilo[p].visitadas)
  BY <1>1, TiposDesaloja
<1>3. PICK q \in Pids, i \in Ids :
        c = <<q, i>> /\ q \in carpinchos /\ i \in Presentes(q) /\ MarcoDe(c) = pagina[q][i].marco
  BY <1>1, CandidatasSon DEF MarcoDe
<1>4. hilo[q].fase # "cierraLista"
  BY <1>1, <1>3 DEF Desaloja
<1>5. q \in Abiertos /\ hilo[p].fase \in {"falta", "escribe"} /\ p \in Abiertos
  <2>1. q \in carpinchos <=> hilo[q].fase \notin {"afuera", "cierraSwap", "cierraTLB", "fin"}
    BY DEF ITipos, Forma
  <2>. QED BY <1>1, <1>3, <1>4, <2>1 DEF Abiertos, NecesitaMarco
<1>6. q \in Abiertos' /\ p \in Abiertos'
  BY <1>2, <1>5 DEF Abiertos, Pasa
<1>7. i \in PaginasDe(q)' /\ pagina'[q][i].presente /\ pagina'[q][i].marco = hilo'[p].marco
  BY <1>1, <1>2, <1>3, PresenteEs, SMTT(30) DEF Pasa, PaginasDe
<1>8. hilo'[p].victima = <<q, i>>
  BY <1>2, <1>3 DEF Pasa
<1>9. Victima(p)'
  BY <1>6, <1>7, <1>8 DEF Victima
<1>10. \A j \in Ids : Pendiente(p, j)' => Pendiente(p, j)
  <2>1. Escribiendo(p) => Escribiendo(p)' /\ hilo'[p].pag \in Nat /\ hilo'[p].pag >= hilo[p].pag
    <3>1. hilo[p].pag \in Nat
      BY Locales
    <3>. QED BY <1>2, <1>5, <3>1 DEF Pasa, Escribiendo, Dentro
  <2>. QED BY <1>2, <1>5, <2>1, PendientesQuedan DEF Pasa
<1>11. Ausentes(p)'
  <2>1. Ausentes(p)
    BY DEF MarcosBien
  <2>2. Falta(p)' => Falta(p) /\ hilo'[p].pag = hilo[p].pag
    BY <1>2, <1>5 DEF Pasa, Falta, Dentro
  <2>3. Falta(p) => hilo[p].pag \in Ids
    BY VisitaEs DEF Visita
  <2>. QED BY <1>1, <1>10, <2>1, <2>2, <2>3 DEF Ausentes
<1>12. ~Lleva(p)'
  BY <1>2 DEF Pasa, Lleva
<1>. QED BY <1>1, <1>2, <1>5, <1>6, <1>9, <1>11, <1>12, MarcosQuietos DEF Pasa

\* The victim has left its frame, which goes with the thread.
LEMMA MarcosQuitaDeTLB ==
  ASSUME ITipos, MarcosBien, NEW p \in Pids, QuitaDeTLB(p)
  PROVE  MarcosBien'
<1>1. PICK f \in {"asigna", "escribeEn"} :
        /\ f = "asigna" <=> hilo[p].vuelve = "falta"
        /\ Pasa(p, f, hilo[p].pedido, hilo[p].pag, "", <<>>, hilo[p].marco, hilo[p].lista,
                hilo[p].nuevas, hilo[p].visitadas)
  BY TiposQuitaDeTLB
<1>2. hilo[p].fase = "quita" /\ hilo[p].vuelve \in {"falta", "escribe"} /\ hilo[p].pag \in Nat
  BY DentroEs, Locales DEF QuitaDeTLB, Dentro
<1>3. \A j \in Ids : Pendiente(p, j)' => Pendiente(p, j)
  <2>1. Escribiendo(p) => Escribiendo(p)' /\ hilo'[p].pag \in Nat /\ hilo'[p].pag >= hilo[p].pag
    <3>1. hilo'[p].fase = f /\ hilo'[p].pag = hilo[p].pag
      BY <1>1 DEF Pasa
    <3>2. Escribiendo(p) => hilo[p].vuelve = "escribe"
      BY <1>2 DEF Escribiendo
    <3>3. Escribiendo(p) => f = "escribeEn"
      BY <1>1, <3>2
    <3>. QED BY <1>2, <3>1, <3>3 DEF Escribiendo
  <2>. QED BY <1>1, <1>2, <2>1, PendientesQuedan DEF Pasa
<1>4. Ausentes(p)'
  <2>1. Ausentes(p) /\ pagina' = pagina
    BY DEF MarcosBien, QuitaDeTLB
  <2>2. Falta(p)' => Falta(p) /\ hilo'[p].pag = hilo[p].pag
    BY <1>1, <1>2 DEF Pasa, Falta, Dentro
  <2>. QED BY <1>3, <2>1, <2>2 DEF Ausentes
<1>5. ~Dentro(p)' /\ Lleva(p) /\ hilo'[p].marco = hilo[p].marco
  BY <1>1, <1>2 DEF Pasa, Lleva, Dentro
<1>6. Victima(p)'
  BY <1>5 DEF Victima
<1>7. /\ p \in Abiertos' <=> p \in Abiertos
      /\ \A q \in Pids \ {p} : hilo'[q] = hilo[q]
      /\ UNCHANGED <<pagina, tabla_de_paginas, marcos>>
  BY <1>1, <1>2 DEF QuitaDeTLB, Pasa, Abiertos
<1>8. hilo[p].fase # "ocupa" /\ hilo'[p].fase # "ocupa"
  BY <1>1, <1>2 DEF Pasa
<1>9. /\ \A m \in Marcos : marcos[m].estaLibre => marcos'[m].estaLibre
      /\ \A q \in Abiertos : \A j \in Presentes(q) :
           SinMarcar(q, j) \/ marcos'[pagina[q][j].marco] = marcos[pagina[q][j].marco]
      /\ \A q \in Pids, j \in Ids :
           /\ pagina'[q][j].presente = pagina[q][j].presente
           /\ pagina'[q][j].marco = pagina[q][j].marco
           /\ pagina[q][j].modificado => pagina'[q][j].modificado
  BY <1>7
<1>. QED BY <1>4, <1>5, <1>6, <1>7, <1>8, <1>9, MarcosQuietos

\* A quota takes no frame of another carpincho, unless it was seen without owner.
LEMMA MarcosReservaFija ==
  ASSUME ITipos, MarcosBien, NEW p \in Pids, ReservaFija(p), fallas' = {}
  PROVE  MarcosBien'
<1>1. PICK l \in Seq(Marcos) :
        Pasa(p, "recorre", hilo[p].pedido, hilo[p].pag, hilo[p].vuelve, hilo[p].victima,
             hilo[p].marco, l, hilo[p].nuevas, hilo[p].visitadas)
  BY TiposReservaFija
<1>2. PICK T : T = Range(Tomados(p))
  OBVIOUS
<1>3. /\ \A m \in T : marcos[m].proceso_asignado \in {Nadie, p}
      /\ marcos' = [m \in Marcos |-> IF m \in T
                      THEN [marcos[m] EXCEPT !.proceso_asignado = p] ELSE marcos[m]]
  BY <1>2 DEF ReservaFija
<1>4. marcos \in [Marcos -> [proceso_asignado : Pids \cup {Nadie}, estaLibre : BOOLEAN]]
  BY DEF ITipos, TiposPag
<1>5. ASSUME NEW m \in Marcos
      PROVE  /\ marcos'[m].estaLibre = marcos[m].estaLibre
             /\ marcos[m].proceso_asignado # Nadie => marcos'[m] = marcos[m]
  <2>1. PICK w \in [proceso_asignado : Pids \cup {Nadie}, estaLibre : BOOLEAN] : w = marcos[m]
    BY <1>4
  <2>2. CASE m \notin T
    BY <1>3, <2>2
  <2>3. CASE m \in T
    <3>1. marcos'[m] = [w EXCEPT !.proceso_asignado = p]
      BY <1>3, <2>1, <2>3
    <3>2. w.proceso_asignado = p => [w EXCEPT !.proceso_asignado = p] = w
      OBVIOUS
    <3>. QED BY <1>3, <2>1, <2>3, <3>1, <3>2
  <2>. QED BY <2>2, <2>3
<1>6. \A q \in Abiertos : \A i \in Presentes(q) :
        SinMarcar(q, i) \/ marcos'[pagina[q][i].marco] = marcos[pagina[q][i].marco]
  <2>1. TAKE q \in Abiertos
  <2>2. TAKE i \in Presentes(q)
  <2>3. CASE ~SinMarcar(q, i)
    <3>1. q \in Pids /\ pagina[q][i].marco \in Marcos
      BY OcupaEs
    <3>2. marcos[pagina[q][i].marco].proceso_asignado = q
      BY <2>3, MarcadoEs
    <3>3. marcos[pagina[q][i].marco].proceso_asignado # Nadie
      BY <3>1, <3>2, PaginacionOK
    <3>. QED BY <1>5, <3>1, <3>3
  <2>. QED BY <2>3
<1>7. /\ \A q \in Pids \ {p} : hilo'[q] = hilo[q]
      /\ hilo[p].fase = "reserva" /\ hilo'[p].fase = "recorre" /\ hilo'[p].nuevas = <<>>
      /\ pagina' = pagina /\ tabla_de_paginas' = tabla_de_paginas
  BY <1>1 DEF ReservaFija, Pasa, ITipos, Forma
<1>8. Victima(p)' /\ Ausentes(p)' /\ ~Lleva(p)'
  BY <1>7, SinPendientes DEF Victima, Ausentes, Lleva, Dentro, Falta
<1>. QED BY <1>5, <1>6, <1>7, <1>8, MarcosQuietos DEF Abiertos

\* A frame is left by the page that is going out, and by no other.
LEMMA MarcosSacaVictima ==
  ASSUME ITipos, MarcosBien, NEW p \in Pids, SacaVictima(p)
  PROVE  MarcosBien'
<1>1. hilo[p].fase = "saca" /\ Dentro(p) /\ Victima(p) /\ Ausentes(p)
  BY DEF SacaVictima, Dentro, MarcosBien
<1>2. PICK q \in Pids, i \in Ids : hilo[p].victima = <<q, i>>
  BY <1>1, DentroEs
<1>3. /\ q \in Abiertos /\ i \in Presentes(q) /\ pagina[q][i].marco = hilo[p].marco
  BY <1>1, <1>2 DEF Victima, Presentes
<1>4. PICK m \in Marcos : m = hilo[p].marco
  BY <1>3, PresenteEs
<1>5. PICK x \in TipoDePagina :
        /\ PaginaCambia(q, i, x) /\ x.presente = FALSE
        /\ x.modificado = pagina[q][i].modificado
  BY <1>2, FotoSaca
<1>6. PICK y : MarcoCambia(m, y) /\ y.estaLibre = TRUE
  <2>1. PICK y : y = [proceso_asignado |-> IF FIJA THEN marcos[m].proceso_asignado ELSE Nadie,
                      estaLibre |-> TRUE]
    OBVIOUS
  <2>2. MarcoCambia(m, y)
    BY <1>2, <1>4, <2>1, FotoSaca
  <2>. QED BY <2>1, <2>2
<1>7. Pasa(p, "quita", hilo[p].pedido, hilo[p].pag, hilo[p].vuelve, hilo[p].victima,
           hilo[p].marco, hilo[p].lista, hilo[p].nuevas, hilo[p].visitadas)
  BY TiposSacaVictima
<1>8. \/ marcos[m] = [proceso_asignado |-> q, estaLibre |-> FALSE]
      \/ SinMarcar(q, i) /\ Lleva(q) /\ hilo[q].marco = m /\ hilo[q].fase = "ocupa"
  BY <1>3, <1>4, OcupaEs
<1>9. Abiertos' = Abiertos
  BY <1>1, <1>7 DEF Pasa, Abiertos
<1>10. \A r \in Pids : PaginasDe(r)' = PaginasDe(r)
  BY DEF SacaVictima, PaginasDe
<1>11. ASSUME NEW r \in Abiertos, NEW j \in Presentes(r)'
       PROVE  j \in Presentes(r) /\ pagina'[r][j] = pagina[r][j] /\ (r # q \/ j # i)
  <2>1. r \in Pids /\ j \in PaginasDe(r) /\ j \in Ids /\ pagina'[r][j].presente
    BY <1>10, PaginasSon DEF Presentes, Abiertos
  <2>2. r # q \/ j # i
    BY <1>5, <2>1 DEF PaginaCambia
  <2>3. pagina'[r][j] = pagina[r][j]
    BY <1>5, <2>1, <2>2 DEF PaginaCambia
  <2>. QED BY <2>1, <2>2, <2>3 DEF Presentes
<1>12. \A r \in Abiertos' : \A j \in Presentes(r)' : Ocupa(r, j)'
  <2>1. TAKE r \in Abiertos'
  <2>2. TAKE j \in Presentes(r)'
  <2>3. /\ r \in Abiertos /\ r \in Pids /\ j \in Presentes(r) /\ Ocupa(r, j)
        /\ pagina'[r][j] = pagina[r][j] /\ (r # q \/ j # i)
    BY <1>9, <1>11 DEF MarcosBien, Abiertos
  <2>4. PICK n \in Marcos : n = pagina[r][j].marco
    BY <2>3, PresenteEs
  <2>5. SinMarcar(r, j)' <=> SinMarcar(r, j)
    <3>1. CASE r = p
      BY <1>1, <1>7, <3>1 DEF SinMarcar, Pasa
    <3>2. CASE r # p
      BY <1>7, <2>3, <3>2 DEF SinMarcar, Pasa
    <3>. QED BY <3>1, <3>2
  <2>6. n # m
    BY <1>3, <1>4, <2>3, <2>4, MarcosDistintos
  <2>7. marcos'[n] = marcos[n] /\ (SinMarcar(r, j) => hilo'[r] = hilo[r])
    BY <1>1, <1>6, <1>7, <2>3, <2>6 DEF MarcoCambia, SinMarcar, Pasa
  <2>8. \A k \in Presentes(r)' : k \in Presentes(r) /\ pagina'[r][k] = pagina[r][k]
    BY <1>11, <2>3
  <2>. QED BY <2>3, <2>4, <2>5, <2>7, <2>8 DEF Ocupa
<1>13. \A t \in Pids \ {p} : Lleva(t)' => Lleva(t) /\ hilo[t].marco \in Marcos /\ hilo[t].marco # m
  <2>1. TAKE t \in Pids \ {p}
  <2>2. HAVE Lleva(t)'
  <2>3. \A j \in Ids : pagina'[t][j].presente => pagina[t][j].presente
    BY <1>5 DEF PaginaCambia
  <2>4. hilo'[t] = hilo[t]
    BY <1>7 DEF Pasa
  <2>5. Lleva(t)
    BY <2>2, <2>3, <2>4, LlevaSigue
  <2>6. hilo[t].marco \in Marcos /\ marcos[hilo[t].marco].estaLibre
    BY <2>5, LlevaEs DEF MarcosBien, Transito
  <2>7. CASE marcos[m] = [proceso_asignado |-> q, estaLibre |-> FALSE]
    BY <2>5, <2>6, <2>7
  <2>8. CASE SinMarcar(q, i) /\ Lleva(q) /\ hilo[q].marco = m /\ hilo[q].fase = "ocupa"
    <3>1. t # q
      <4>1. SUFFICES ASSUME t = q PROVE FALSE
        OBVIOUS
      <4>2. i = hilo[t].nuevas[hilo[t].pag] /\ hilo[t].fase = "ocupa"
        BY <2>8, <4>1 DEF SinMarcar
      <4>3. ~pagina'[t][i].presente
        BY <1>5, <4>1 DEF PaginaCambia
      <4>. QED BY <2>2, <2>4, <4>2, <4>3 DEF Lleva
    <3>2. Transito(q)
      BY DEF MarcosBien
    <3>. QED BY <2>5, <2>6, <2>8, <3>1, <3>2 DEF Transito
  <2>. QED BY <1>8, <2>7, <2>8
<1>14. /\ hilo'[p].marco = m /\ hilo'[p].victima = <<q, i>> /\ hilo'[p].fase = "quita"
       /\ hilo'[p].pag = hilo[p].pag /\ hilo'[p].vuelve = hilo[p].vuelve
       /\ hilo'[p].nuevas = hilo[p].nuevas /\ \A t \in Pids \ {p} : hilo'[t] = hilo[t]
  BY <1>2, <1>4, <1>7 DEF Pasa
<1>15. ASSUME NEW t \in Pids PROVE Transito(t)'
  <2>2. CASE t = p
    BY <1>6, <1>13, <1>14, <2>2 DEF Transito, MarcoCambia
  <2>3. CASE t # p
    <3>1. Transito(t)
      BY DEF MarcosBien
    <3>2. \A n \in Marcos : n # m => marcos'[n] = marcos[n]
      BY <1>6 DEF MarcoCambia
    <3>. QED BY <1>13, <1>14, <2>3, <3>1, <3>2 DEF Transito
  <2>. QED BY <2>2, <2>3
<1>16. ASSUME NEW t \in Pids PROVE Victima(t)'
  <2>1. CASE t = p
    BY <1>3, <1>9, <1>10, <1>14, <2>1 DEF Victima, Presentes
  <2>2. CASE t # p
    <3>1. swap = p /\ (Dentro(t) => swap = t)
      BY <1>1, DentroEs
    <3>. QED BY <1>14, <2>2, <3>1 DEF Victima, Dentro
  <2>. QED BY <2>1, <2>2
<1>17. \A r \in Pids, j \in Ids :
         /\ pagina'[r][j].modificado = pagina[r][j].modificado
         /\ ~pagina[r][j].presente => ~pagina'[r][j].presente
  <2>1. TAKE r \in Pids, j \in Ids
  <2>2. CASE r = q /\ j = i
    BY <1>5, <2>2 DEF PaginaCambia
  <2>3. CASE r # q \/ j # i
    BY <1>5, <2>3 DEF PaginaCambia
  <2>. QED BY <2>2, <2>3
<1>18. ASSUME NEW t \in Pids PROVE Ausentes(t)'
  <2>1. Falta(t)' <=> Falta(t)
    <3>1. CASE t = p
      BY <1>1, <1>14, <3>1 DEF Falta, Dentro
    <3>2. CASE t # p
      BY <1>14, <3>2 DEF Falta, Dentro
    <3>. QED BY <3>1, <3>2
  <2>2. Escribiendo(t)' <=> Escribiendo(t)
    <3>1. CASE t = p
      BY <1>1, <1>14, <3>1 DEF Escribiendo, Dentro
    <3>2. CASE t # p
      BY <1>14, <3>2 DEF Escribiendo, Dentro
    <3>. QED BY <3>1, <3>2
  <2>3. hilo'[t].pag = hilo[t].pag /\ hilo'[t].nuevas = hilo[t].nuevas
        /\ (hilo'[t].fase = "agregaNuevas" <=> hilo[t].fase = "agregaNuevas")
    BY <1>1, <1>14
  <2>4. \A j \in Ids : Pendiente(t, j)' => Pendiente(t, j)
    BY <2>2, <2>3 DEF Pendiente
  <2>5. Falta(t) => hilo[t].pag \in Ids
    BY VisitaEs DEF Visita
  <2>6. Ausentes(t)
    BY DEF MarcosBien
  <2>. QED BY <1>17, <2>1, <2>3, <2>4, <2>5, <2>6 DEF Ausentes
<1>. QED BY <1>12, <1>15, <1>16, <1>18 DEF MarcosBien

\* Page i of p takes frame m, which was free and is of no other thread: marked
\* already, or still to be marked.
LEMMA MarcosOcupa ==
  ASSUME ITipos, MarcosBien, NEW p \in Pids, NEW i \in PaginasDe(p), NEW m \in Marcos,
         NEW x \in TipoDePagina, PaginaCambia(p, i, x), x.presente = TRUE, x.marco = m,
         \/ /\ MarcoCambia(m, [proceso_asignado |-> p, estaLibre |-> FALSE])
            /\ ~Lleva(p)' /\ hilo'[p].fase # "ocupa"
         \/ /\ marcos' = marcos
            /\ hilo'[p].fase = "ocupa" /\ hilo'[p].marco = m /\ i = hilo'[p].nuevas[hilo'[p].pag],
         marcos[m].estaLibre, ~pagina[p][i].presente, hilo[p].fase # "ocupa",
         \A t \in Pids \ {p} : hilo'[t] = hilo[t],
         \A t \in Pids \ {p} : Lleva(t) => hilo[t].marco # m,
         tabla_de_paginas' = tabla_de_paginas,
         p \in Abiertos, p \in Abiertos', ~Dentro(p)', Ausentes(p)'
  PROVE  MarcosBien'
<1>1. Abiertos' = Abiertos
  BY DEF Abiertos
<1>2. \A r \in Pids : PaginasDe(r)' = PaginasDe(r)
  BY DEF PaginasDe
<1>3. i \in Ids
  BY PaginasSon
<1>4. ASSUME NEW r \in Abiertos, NEW j \in Presentes(r)', r # p \/ j # i
      PROVE  j \in Presentes(r) /\ pagina'[r][j] = pagina[r][j] /\ Ocupa(r, j)
             /\ pagina[r][j].marco \in Marcos /\ pagina[r][j].marco # m
  <2>1. r \in Pids /\ j \in PaginasDe(r) /\ j \in Ids /\ pagina'[r][j].presente
    BY <1>2, PaginasSon DEF Presentes, Abiertos
  <2>2. pagina'[r][j] = pagina[r][j]
    BY <1>4, <2>1 DEF PaginaCambia
  <2>3. j \in Presentes(r) /\ Ocupa(r, j)
    BY <2>1, <2>2 DEF Presentes, MarcosBien
  <2>4. pagina[r][j].marco \in Marcos
    BY <2>3, OcupaEs
  <2>5. pagina[r][j].marco # m
    <3>1. CASE ~marcos[pagina[r][j].marco].estaLibre
      BY <3>1
    <3>2. CASE Lleva(r) /\ hilo[r].fase = "ocupa" /\ hilo[r].marco = pagina[r][j].marco
      BY <2>1, <3>2
    <3>3. ~marcos[pagina[r][j].marco].estaLibre
          \/ (Lleva(r) /\ hilo[r].fase = "ocupa" /\ hilo[r].marco = pagina[r][j].marco)
      BY <2>3, TomadoEs
    <3>. QED BY <3>1, <3>2, <3>3
  <2>. QED BY <2>2, <2>3, <2>4, <2>5
<1>5. pagina'[p][i].marco = m /\ pagina'[p][i].presente
  BY DEF PaginaCambia
<1>6. ASSUME NEW r \in Abiertos, NEW j \in Presentes(r)' PROVE Ocupa(r, j)'
  <2>1. CASE r = p /\ j = i
    <3>1. IF SinMarcar(p, i)' THEN m = hilo'[p].marco
          ELSE marcos'[m] = [proceso_asignado |-> p, estaLibre |-> FALSE]
      BY DEF MarcoCambia, SinMarcar
    <3>2. \A k \in Presentes(p)' : k # i => pagina'[p][k].marco # m
      BY <1>4
    <3>. QED BY <1>5, <2>1, <3>1, <3>2 DEF Ocupa
  <2>2. CASE r # p \/ j # i
    <3>1. PICK n \in Marcos : n = pagina[r][j].marco /\ n # m /\ pagina'[r][j].marco = n
      BY <1>4, <2>2
    <3>2. marcos'[n] = marcos[n] /\ Ocupa(r, j)
      BY <1>4, <2>2, <3>1 DEF MarcoCambia
    <3>4. (SinMarcar(r, j)' <=> SinMarcar(r, j)) /\ (SinMarcar(r, j) => hilo'[r] = hilo[r])
      <4>1. CASE r = p
        <5>1. ~SinMarcar(p, j)
          BY DEF SinMarcar
        <5>2. ~SinMarcar(p, j)'
          BY <2>2, <4>1 DEF SinMarcar
        <5>. QED BY <4>1, <5>1, <5>2
      <4>2. CASE r # p
        BY <4>2 DEF SinMarcar, Abiertos
      <4>. QED BY <4>1, <4>2
    <3>3. \A k \in Presentes(r)' : pagina'[r][k].marco = n => k = j
      <4>1. TAKE k \in Presentes(r)'
      <4>2. CASE r = p /\ k = i
        BY <1>5, <3>1, <4>2
      <4>3. CASE r # p \/ k # i
        BY <1>4, <3>1, <3>2, <4>3 DEF Ocupa
      <4>. QED BY <4>2, <4>3
    <3>. QED BY <3>1, <3>2, <3>3, <3>4 DEF Ocupa
  <2>. QED BY <2>1, <2>2
<1>7. ASSUME NEW t \in Pids PROVE Transito(t)'
  <2>1. \A u \in Pids \ {p} : Lleva(u)' => Lleva(u) /\ hilo'[u] = hilo[u]
    <3>1. \A u \in Pids \ {p} : \A j \in Ids : pagina'[u][j] = pagina[u][j]
      BY DEF PaginaCambia
    <3>. QED BY <3>1, LlevaSigue
  <2>2. CASE t = p
    <3>1. Lleva(p)' => marcos' = marcos /\ hilo'[p].marco = m
      OBVIOUS
    <3>. QED BY <2>1, <2>2, <3>1 DEF Transito
  <2>3. CASE t # p
    <3>1. Transito(t)
      BY DEF MarcosBien
    <3>2. \A n \in Marcos : n # m => marcos'[n] = marcos[n]
      BY DEF MarcoCambia
    <3>3. Lleva(t) => hilo[t].marco \in Marcos
      BY LlevaEs
    <3>4. Lleva(p)' => hilo'[p].marco = m
      OBVIOUS
    <3>. QED BY <2>1, <2>3, <3>1, <3>2, <3>3, <3>4 DEF Transito
  <2>. QED BY <2>2, <2>3
<1>8. ASSUME NEW t \in Pids PROVE Victima(t)'
  <2>1. CASE ~Dentro(t)'
    BY <2>1 DEF Victima
  <2>2. CASE Dentro(t)'
    <3>1. t # p /\ hilo'[t] = hilo[t] /\ Dentro(t) /\ Victima(t)
      BY <2>2 DEF Dentro, MarcosBien
    <3>2. PICK q \in Pids, j \in Ids : hilo[t].victima = <<q, j>>
      BY <3>1, DentroEs
    <3>3. hilo[t].fase = "saca" => q # p \/ j # i
      BY <3>1, <3>2 DEF Victima
    <3>4. hilo[t].fase = "saca" => pagina'[q][j] = pagina[q][j]
      BY <3>3 DEF PaginaCambia
    <3>. QED BY <1>1, <1>2, <3>1, <3>2, <3>4 DEF Victima
  <2>. QED BY <2>1, <2>2
<1>9. ASSUME NEW t \in Pids, t # p PROVE Ausentes(t)'
  <2>1. Ausentes(t) /\ hilo'[t] = hilo[t]
    BY <1>9 DEF MarcosBien
  <2>2. Falta(t)' <=> Falta(t)
    BY <2>1 DEF Falta, Dentro
  <2>3. \A j \in Ids : Pendiente(t, j)' <=> Pendiente(t, j)
    BY <2>1 DEF Pendiente, Escribiendo, Dentro
  <2>4. \A j \in Ids : pagina'[t][j] = pagina[t][j]
    BY <1>9 DEF PaginaCambia
  <2>5. Falta(t) => hilo[t].pag \in Ids
    BY VisitaEs DEF Visita
  <2>. QED BY <2>1, <2>2, <2>3, <2>4, <2>5 DEF Ausentes
<1>. QED BY <1>1, <1>6, <1>7, <1>8, <1>9 DEF MarcosBien

\* The page takes the frame its thread has emptied.
LEMMA MarcosAsignaMarco ==
  ASSUME ITipos, MarcosBien, NEW p \in Pids, AsignaMarco(p)
  PROVE  MarcosBien'
<1>1. hilo[p].fase = "asigna" /\ tabla_de_paginas' = tabla_de_paginas
  BY DEF AsignaMarco
<1>2. PICK i \in Ids, m \in Marcos : i = hilo[p].pag /\ m = hilo[p].marco
  BY FotoAsigna
<1>3. PICK x : x = [presente |-> TRUE, marco |-> m, modificado |-> FALSE, uso |-> TRUE]
  OBVIOUS
<1>4. x \in TipoDePagina /\ x.presente = TRUE /\ x.marco = m
  BY <1>3 DEF TipoDePagina
<1>5. PaginaCambia(p, i, x) /\ MarcoCambia(m, [proceso_asignado |-> p, estaLibre |-> FALSE])
  BY <1>2, <1>3, FotoAsigna
<1>6. Pasa(p, "copia", hilo[p].pedido, hilo[p].pag, hilo[p].vuelve, hilo[p].victima, SinMarco,
           hilo[p].lista, hilo[p].nuevas, hilo[p].visitadas)
  BY TiposAsignaMarco
<1>7. Lleva(p) /\ Falta(p) /\ Visita(p)
  BY <1>1 DEF Lleva, Falta, Visita
<1>8. i \in PaginasDe(p) /\ i \notin Range(hilo[p].nuevas)
  BY <1>2, <1>7, VisitaEs
<1>9. Transito(p) /\ Ausentes(p)
  BY DEF MarcosBien
<1>10. ~pagina[p][i].presente /\ marcos[m].estaLibre
  BY <1>2, <1>7, <1>9 DEF Ausentes, Transito
<1>11. \A t \in Pids \ {p} : Lleva(t) => hilo[t].marco # m
  BY <1>2, <1>7, <1>9 DEF Transito
<1>12. ~Lleva(p)' /\ ~Dentro(p)' /\ p \in Abiertos /\ p \in Abiertos'
       /\ hilo[p].fase # "ocupa" /\ hilo'[p].fase # "ocupa" /\ \A t \in Pids \ {p} : hilo'[t] = hilo[t]
  BY <1>1, <1>6 DEF Pasa, Lleva, Dentro, Abiertos
<1>13. Ausentes(p)'
  <2>1. ~Falta(p)'
    BY <1>6 DEF Pasa, Falta, Dentro
  <2>2. \A j \in Ids : Pendiente(p, j)' => Pendiente(p, j)
    BY <1>1, <1>6, PendientesQuedan DEF Pasa, Escribiendo, Dentro
  <2>3. \A j \in Ids : Pendiente(p, j) => j # i
    <3>1. hilo[p].nuevas \in Seq(Ids)
      BY Locales
    <3>2. \A k \in 1..Len(hilo[p].nuevas) : hilo[p].nuevas[k] \in Range(hilo[p].nuevas)
      BY <3>1 DEF Range
    <3>. QED BY <1>8, <3>2 DEF Pendiente
  <2>4. \A j \in Ids : j # i => pagina'[p][j] = pagina[p][j]
    BY <1>5 DEF PaginaCambia
  <2>. QED BY <1>9, <2>1, <2>2, <2>3, <2>4 DEF Ausentes
<1>. QED BY <1>1, <1>4, <1>5, <1>8, <1>10, <1>11, <1>12, <1>13, MarcosOcupa

\* A new page takes a frame that is free and that no other thread has: one that
\* has emptied it, or one that has still to mark it, which would have the mutex.
LEMMA MarcosEscribe ==
  ASSUME ITipos, MarcosBien, Turno, NEW p \in Pids, EscribePagina(p) \/ EscribeTrasDesalojar(p),
         fallas' = {}
  PROVE  MarcosBien'
<1>1. PICK m \in Marcos :
        /\ EscribeEn(p, m) /\ hilo[p].fase \in {"escribe", "escribeEn"}
        /\ hilo[p].pag < Len(hilo[p].nuevas)
  BY EscribeEnAlguno
<1>2. /\ m \notin EnTransito(p) /\ marcos[m].estaLibre /\ tabla_de_paginas' = tabla_de_paginas
      /\ marcos' = marcos
  BY <1>1 DEF EscribeEn
<1>3. PICK i \in Ids, x \in TipoDePagina :
        /\ i = hilo[p].nuevas[hilo[p].pag + 1] /\ hilo[p].pag + 1 \in 1..Len(hilo[p].nuevas)
        /\ PaginaCambia(p, i, x) /\ x.presente = TRUE /\ x.marco = m
  BY <1>1, <1>2, FotoEscribe
<1>4. Pasa(p, "ocupa", hilo[p].pedido, hilo[p].pag + 1, hilo[p].vuelve, hilo[p].victima,
           m, hilo[p].lista, hilo[p].nuevas, hilo[p].visitadas)
  BY <1>1, <1>2, TiposEscribeEn
<1>5. PICK s \in Seq(Ids), k \in Nat : s = hilo[p].nuevas /\ k = hilo[p].pag
  BY Locales
<1>6. /\ Len(s) \in Nat /\ k + 1 \in 1..Len(s) /\ s[k + 1] = i /\ DOMAIN s = 1..Len(s)
      /\ IsInjective(s) /\ Range(s) \subseteq PaginasDe(p)
  <2>1. Len(s) \in Nat /\ DOMAIN s = 1..Len(s)
    OBVIOUS
  <2>2. IsInjective(s) /\ Range(s) \subseteq PaginasDe(p)
    BY <1>5 DEF ITipos, Forma
  <2>3. k + 1 \in 1..Len(s) /\ s[k + 1] = i
    BY <1>3, <1>5
  <2>. QED BY <2>1, <2>2, <2>3
<1>7. i \in PaginasDe(p)
  BY <1>6 DEF Range
<1>8. Escribiendo(p) /\ hilo[p].fase # "agregaNuevas" /\ Ausentes(p)
  BY <1>1 DEF Escribiendo, MarcosBien
<1>9. ~pagina[p][i].presente
  <2>1. Pendiente(p, i)
    BY <1>5, <1>6, <1>8 DEF Pendiente
  <2>. QED BY <1>8, <2>1 DEF Ausentes
<1>10. \A t \in Pids \ {p} : Lleva(t) => hilo[t].marco # m
  <2>1. TAKE t \in Pids \ {p}
  <2>2. hilo[t].fase # "ocupa"
    <3>1. marcos_sem = p
      BY <1>8 DEF Turno
    <3>. QED BY <3>1 DEF Turno, Escribiendo
  <2>. QED BY <1>2, <2>2 DEF EnTransito, Lleva
<1>11. ~Dentro(p)' /\ p \in Abiertos /\ p \in Abiertos' /\ ~Falta(p)'
       /\ \A t \in Pids \ {p} : hilo'[t] = hilo[t]
  BY <1>1, <1>4 DEF Pasa, Dentro, Abiertos, Falta
<1>12. ASSUME NEW j \in Ids, Pendiente(p, j)' PROVE Pendiente(p, j) /\ j # i
  <2>1. hilo'[p].nuevas = s /\ hilo'[p].pag = k + 1 /\ hilo'[p].fase = "ocupa"
    BY <1>4, <1>5 DEF Pasa
  <2>2. PICK n \in 1..Len(s) : s[n] = j /\ k + 1 < n
    BY <1>12, <2>1 DEF Pendiente, Escribiendo
  <2>3. n \in Nat /\ k < n /\ n # k + 1
    BY <1>6, <2>2
  <2>4. j # i
    BY <1>6, <2>2, <2>3 DEF IsInjective
  <2>. QED BY <1>5, <1>8, <2>2, <2>3, <2>4 DEF Pendiente
<1>13. Ausentes(p)'
  <2>1. \A j \in Ids : j # i => pagina'[p][j] = pagina[p][j]
    BY <1>3 DEF PaginaCambia
  <2>. QED BY <1>8, <1>11, <1>12, <2>1 DEF Ausentes
<1>14. hilo'[p].fase = "ocupa" /\ hilo'[p].marco = m /\ i = hilo'[p].nuevas[hilo'[p].pag]
  BY <1>3, <1>4 DEF Pasa
<1>. QED BY <1>1, <1>2, <1>3, <1>7, <1>9, <1>10, <1>11, <1>13, <1>14, MarcosOcupa

\* The frame that a thread marks late is still in its hands, unless there is a
\* fault.
LEMMA MarcosOcupaMarco ==
  ASSUME ITipos, MarcosBien, NEW p \in Pids, OcupaMarco(p), fallas' = {}
  PROVE  MarcosBien'
<1>1. /\ hilo[p].fase = "ocupa" /\ pagina' = pagina /\ tabla_de_paginas' = tabla_de_paginas
      /\ pagina[p][hilo[p].nuevas[hilo[p].pag]].presente
  BY DEF OcupaMarco
<1>2. PICK m \in Marcos : m = hilo[p].marco
  BY FotoOcupaMarco
<1>3. MarcoCambia(m, [proceso_asignado |-> p, estaLibre |-> FALSE])
  BY <1>2, FotoOcupaMarco
<1>4. Pasa(p, "escribe", hilo[p].pedido, hilo[p].pag, hilo[p].vuelve, hilo[p].victima, SinMarco,
           hilo[p].lista, hilo[p].nuevas, hilo[p].visitadas)
  BY TiposOcupaMarco
<1>5. /\ \A t \in Pids \ {p} : hilo'[t] = hilo[t]
      /\ hilo'[p].fase = "escribe" /\ hilo'[p].pag = hilo[p].pag
      /\ hilo'[p].nuevas = hilo[p].nuevas
  BY <1>4 DEF Pasa
<1>6. Lleva(p) /\ Transito(p) /\ p \in Abiertos /\ Abiertos' = Abiertos
  BY <1>1, <1>5 DEF Lleva, MarcosBien, Abiertos
<1>7. \A r \in Pids : PaginasDe(r)' = PaginasDe(r) /\ Presentes(r)' = Presentes(r)
  BY <1>1 DEF PaginasDe, Presentes
<1>8. ~Lleva(p)' /\ ~Dentro(p)' /\ ~Falta(p)'
  BY <1>5 DEF Lleva, Dentro, Falta
<1>9. \A t \in Pids \ {p} : Lleva(t)' => Lleva(t) /\ hilo[t].marco \in Marcos /\ hilo[t].marco # m
  <2>1. TAKE t \in Pids \ {p}
  <2>2. Lleva(t)' => Lleva(t)
    BY <1>1, <1>5, LlevaSigue
  <2>. QED BY <1>2, <1>6, <2>2, LlevaEs DEF Transito
<1>10. ASSUME NEW r \in Abiertos', NEW j \in Presentes(r)' PROVE Ocupa(r, j)'
  <2>1. r \in Abiertos /\ r \in Pids /\ j \in Presentes(r) /\ Ocupa(r, j)
    BY <1>6, <1>7 DEF Abiertos, MarcosBien
  <2>2. CASE SinMarcar(r, j) /\ r = p
    <3>1. pagina[p][j].marco = m /\ ~SinMarcar(p, j)'
      BY <1>2, <1>5, <2>1, <2>2 DEF Ocupa, SinMarcar
    <3>. QED BY <1>1, <1>3, <1>7, <2>1, <2>2, <3>1 DEF Ocupa, MarcoCambia
  <2>3. CASE SinMarcar(r, j) /\ r # p
    <3>1. SinMarcar(r, j)' /\ hilo'[r] = hilo[r]
      BY <1>5, <2>1, <2>3 DEF SinMarcar
    <3>. QED BY <1>1, <1>7, <2>1, <2>3, <3>1 DEF Ocupa
  <2>4. CASE ~SinMarcar(r, j)
    <3>1. ~SinMarcar(r, j)'
      BY <1>5, <2>1, <2>4 DEF SinMarcar
    <3>2. PICK n \in Marcos : n = pagina[r][j].marco
      BY <2>1, OcupaEs
    <3>3. ~marcos[n].estaLibre
      <4>1. ~marcos[pagina[r][j].marco].estaLibre
        BY <2>1, <2>4, MarcadoEs
      <4>. QED BY <3>2, <4>1
    <3>4. marcos'[n] = marcos[n]
      BY <1>2, <1>3, <1>6, <3>3 DEF MarcoCambia, Transito
    <3>. QED BY <1>1, <1>7, <2>1, <2>4, <3>1, <3>2, <3>4 DEF Ocupa
  <2>. QED BY <2>2, <2>3, <2>4
<1>11. ASSUME NEW t \in Pids PROVE Transito(t)'
  <2>1. CASE t = p
    BY <1>8, <2>1 DEF Transito
  <2>2. CASE t # p
    <3>1. Transito(t)
      BY DEF MarcosBien
    <3>. QED BY <1>3, <1>5, <1>8, <1>9, <2>2, <3>1 DEF Transito, MarcoCambia
  <2>. QED BY <2>1, <2>2
<1>12. ASSUME NEW t \in Pids PROVE Victima(t)'
  <2>1. CASE t = p
    BY <1>8, <2>1 DEF Victima
  <2>2. CASE t # p
    <3>1. Victima(t) /\ hilo'[t] = hilo[t]
      BY <1>5, <2>2 DEF MarcosBien
    <3>2. CASE Dentro(t)
      <4>1. PICK q \in Pids, j \in Ids : hilo[t].victima = <<q, j>>
        BY <3>2, DentroEs
      <4>. QED BY <1>1, <1>6, <1>7, <3>1, <4>1 DEF Victima, Dentro
    <3>3. CASE ~Dentro(t)
      BY <3>1, <3>3 DEF Victima, Dentro
    <3>. QED BY <3>2, <3>3
  <2>. QED BY <2>1, <2>2
<1>13. ASSUME NEW t \in Pids PROVE Ausentes(t)'
  <2>1. Ausentes(t)
    BY DEF MarcosBien
  <2>2. CASE t = p
    <3>1. \A j \in Ids : Pendiente(p, j)' => Pendiente(p, j)
      BY <1>1, <1>5 DEF Pendiente, Escribiendo
    <3>. QED BY <1>1, <1>8, <2>1, <2>2, <3>1 DEF Ausentes
  <2>3. CASE t # p
    BY <1>1, <1>5, <2>1, <2>3 DEF Ausentes, Falta, Dentro, Pendiente, Escribiendo
  <2>. QED BY <2>2, <2>3
<1>. QED BY <1>10, <1>11, <1>12, <1>13 DEF MarcosBien

\* The pages of p go or come, while nobody evicts one of them.
LEMMA MarcosSinVictimas ==
  ASSUME ITipos, MarcosBien, NEW p \in Pids,
         \A q \in Pids \ {p} :
           hilo'[q] = hilo[q] /\ pagina'[q] = pagina[q] /\ tabla_de_paginas'[q] = tabla_de_paginas[q],
         \A m \in Marcos : marcos[m].estaLibre => marcos'[m].estaLibre,
         \A q \in Abiertos \ {p} : \A i \in Presentes(q) :
           SinMarcar(q, i) \/ marcos'[pagina[q][i].marco] = marcos[pagina[q][i].marco],
         hilo[p].fase # "ocupa", hilo'[p].fase # "ocupa",
         p \in Abiertos' =>
           \A i \in Presentes(p)' :
             /\ p \in Abiertos /\ i \in Presentes(p) /\ pagina'[p][i] = pagina[p][i]
             /\ marcos'[pagina[p][i].marco] = marcos[pagina[p][i].marco],
         \A t \in Pids : Dentro(t) => hilo[t].victima[1] # p,
         ~Lleva(p)', ~Dentro(p)', Ausentes(p)'
  PROVE  MarcosBien'
<1>1. \A q \in Pids \ {p} :
        /\ q \in Abiertos' <=> q \in Abiertos
        /\ PaginasDe(q)' = PaginasDe(q) /\ Presentes(q)' = Presentes(q)
  BY DEF Abiertos, PaginasDe, Presentes
<1>2. ASSUME NEW q \in Abiertos', NEW i \in Presentes(q)'
      PROVE  /\ q \in Pids /\ i \in Presentes(q) /\ Ocupa(q, i) /\ pagina'[q][i] = pagina[q][i]
             /\ SinMarcar(q, i) \/ marcos'[pagina[q][i].marco] = marcos[pagina[q][i].marco]
             /\ (SinMarcar(q, i)' <=> SinMarcar(q, i)) /\ (SinMarcar(q, i) => hilo'[q] = hilo[q])
  <2>1. q \in Pids
    BY DEF Abiertos
  <2>2. q \in Abiertos /\ i \in Presentes(q)
    BY <1>1, <2>1
  <2>3. (SinMarcar(q, i)' <=> SinMarcar(q, i)) /\ (SinMarcar(q, i) => hilo'[q] = hilo[q])
    BY <2>1 DEF SinMarcar
  <2>. QED BY <2>1, <2>2, <2>3 DEF MarcosBien
<1>3. ASSUME NEW q \in Abiertos', NEW i \in Presentes(q)' PROVE Ocupa(q, i)'
  BY <1>2 DEF Ocupa
<1>4. ASSUME NEW t \in Pids PROVE Transito(t)'
  <2>1. Transito(t) /\ \A u \in Pids \ {p} : Lleva(u)' => Lleva(u)
    BY LlevaSigue DEF MarcosBien
  <2>2. Lleva(t) => hilo[t].marco \in Marcos
    BY LlevaEs
  <2>. QED BY <2>1, <2>2 DEF Transito
<1>5. ASSUME NEW t \in Pids PROVE Victima(t)'
  <2>1. CASE ~Dentro(t)'
    BY <2>1 DEF Victima
  <2>2. CASE Dentro(t)'
    <3>1. t # p /\ hilo'[t] = hilo[t] /\ Dentro(t) /\ Victima(t)
      BY <2>2 DEF Dentro, MarcosBien
    <3>2. PICK q \in Pids, j \in Ids : hilo[t].victima = <<q, j>>
      BY <3>1, DentroEs
    <3>3. q # p
      BY <3>1, <3>2
    <3>. QED BY <1>1, <3>1, <3>2, <3>3 DEF Victima
  <2>. QED BY <2>1, <2>2
<1>6. ASSUME NEW t \in Pids, t # p PROVE Ausentes(t)'
  <2>1. Ausentes(t) /\ hilo'[t] = hilo[t] /\ pagina'[t] = pagina[t]
    BY <1>6 DEF MarcosBien
  <2>2. Falta(t)' <=> Falta(t)
    BY <2>1 DEF Falta, Dentro
  <2>3. \A j \in Ids : Pendiente(t, j)' <=> Pendiente(t, j)
    BY <2>1 DEF Pendiente, Escribiendo, Dentro
  <2>. QED BY <2>1, <2>2, <2>3 DEF Ausentes
<1>. QED BY <1>3, <1>4, <1>5, <1>6 DEF MarcosBien

\* Nobody that evicts a page of p, if the step of p brings no fault.
LEMMA NadieDesaloja ==
  ASSUME ITipos, NEW p \in Pids, Desalojan(p) = {}
  PROVE  \A t \in Pids : Dentro(t) => hilo[t].victima[1] # p
BY DEF Desalojan, Dentro

\* The new pages are absent until they are written.
LEMMA MarcosCreaPaginas ==
  ASSUME ITipos, MarcosBien, NEW p \in Pids, NEW n \in 1..MaxPaginas, CreaPaginas(p, n)
  PROVE  MarcosBien'
<1>1. PICK ids : ids = generadorIdsPaginas(p, n)
  OBVIOUS
<1>2. PICK f \in {"empieza", "buscaMarcos"}, l \in Seq(Marcos) :
        Pasa(p, f, "alojado", hilo[p].pag, hilo[p].vuelve, hilo[p].victima, hilo[p].marco,
             l, ids, hilo[p].visitadas)
  BY <1>1, TiposCreaPaginas
<1>3. PICK u : u = tabla_de_paginas[p] \o ids
  OBVIOUS
<1>4. /\ ids \in Seq(Ids) /\ Range(ids) \cap PaginasDe(p) = {}
      /\ Range(u) = PaginasDe(p) \cup Range(ids)
  <2>1. contadorPag[p] + n <= MaxPaginas
    BY DEF CreaPaginas
  <2>. QED BY <1>1, <1>3, <2>1, NuevasEs
<1>5. /\ \A q \in Pids \ {p} : tabla_de_paginas'[q] = tabla_de_paginas[q] /\ pagina'[q] = pagina[q]
      /\ PaginasDe(p)' = PaginasDe(p) \cup Range(ids)
      /\ \A i \in Ids :
           pagina'[p][i] = IF i \in Range(ids) THEN pagina_nueva ELSE pagina[p][i]
  <2>1. /\ tabla_de_paginas \in [Pids -> Seq(Ids)] /\ pagina \in [Pids -> [Ids -> TipoDePagina]]
    BY DEF ITipos, TiposPag
  <2>2. /\ tabla_de_paginas' = [tabla_de_paginas EXCEPT ![p] = @ \o ids]
        /\ pagina' = [pagina EXCEPT ![p] =
                        [i \in Ids |-> IF i \in Range(ids) THEN pagina_nueva ELSE pagina[p][i]]]
    BY <1>1 DEF CreaPaginas
  <2>3. tabla_de_paginas'[p] = u
    BY <1>3, <2>1, <2>2
  <2>4. PaginasDe(p)' = PaginasDe(p) \cup Range(ids)
    BY <1>4, <2>3 DEF PaginasDe
  <2>. QED BY <2>1, <2>2, <2>4
<1>6. /\ \A q \in Pids \ {p} : hilo'[q] = hilo[q]
      /\ hilo'[p].fase = f /\ hilo'[p].nuevas = ids
      /\ swap = Nadie /\ hilo[p].fase = "recorre" /\ marcos' = marcos
  BY <1>2 DEF Pasa, CreaPaginas
<1>7. /\ p \in Abiertos /\ p \in Abiertos' /\ ~Lleva(p)' /\ ~Dentro(p)' /\ ~Falta(p)'
      /\ hilo[p].fase # "ocupa" /\ hilo'[p].fase # "ocupa"
  BY <1>6 DEF Abiertos, Lleva, Dentro, Falta
<1>8. \A t \in Pids : ~Dentro(t)
  BY <1>6, DentroEs, PaginacionOK
<1>9. ASSUME NEW i \in Presentes(p)'
      PROVE  i \in Presentes(p) /\ pagina'[p][i] = pagina[p][i]
  <2>1. i \in PaginasDe(p) \cup Range(ids) /\ pagina'[p][i].presente
    BY <1>5 DEF Presentes
  <2>2. i \in Ids
    BY <1>4, <2>1, PaginasSon DEF Range
  <2>3. i \notin Range(ids)
    BY <1>5, <2>1, <2>2 DEF pagina_nueva
  <2>. QED BY <1>5, <2>1, <2>2, <2>3 DEF Presentes
<1>10. Ausentes(p)'
  <2>1. \A i \in Ids : Pendiente(p, i)' => i \in Range(ids)
    BY <1>4, <1>6 DEF Pendiente, Range
  <2>2. \A i \in Ids : i \in Range(ids) => ~pagina'[p][i].presente /\ pagina'[p][i].modificado
    BY <1>5 DEF pagina_nueva
  <2>. QED BY <1>7, <2>1, <2>2 DEF Ausentes
<1>. QED BY <1>5, <1>6, <1>7, <1>8, <1>9, <1>10, MarcosSinVictimas

\* The pages that are freed leave their frames.
LEMMA MarcosLiberaTodo ==
  ASSUME ITipos, MarcosBien, NEW p \in Pids, LiberaTodo(p), fallas' = {}
  PROVE  MarcosBien'
<1>1. PICK S : S = {pagina[p][i].marco : i \in PaginasDe(p)}
  OBVIOUS
<1>2. /\ Pasa(p, "libre", "ninguno", 0, "", <<>>, SinMarco, <<>>, <<>>, {})
      /\ MarcosCambian(S, [proceso_asignado |-> Nadie, estaLibre |-> TRUE])
  BY <1>1, TiposLiberaTodo
<1>3. Desalojan(p) = {} /\ \A m \in S : m # SinMarco => marcos[m].proceso_asignado = p
  BY <1>1 DEF LiberaTodo
<1>4. /\ \A q \in Pids \ {p} : pagina'[q] = pagina[q] /\ tabla_de_paginas'[q] = tabla_de_paginas[q]
      /\ PaginasDe(p)' = {}
  BY PaginasNuevas DEF LiberaTodo
<1>5. /\ \A q \in Pids \ {p} : hilo'[q] = hilo[q]
      /\ hilo'[p].fase = "libre" /\ hilo'[p].nuevas = <<>>
  BY <1>2 DEF Pasa
<1>6. /\ ~Lleva(p)' /\ ~Dentro(p)' /\ Ausentes(p)'
      /\ hilo[p].fase # "ocupa" /\ hilo'[p].fase # "ocupa"
  BY <1>5, SinPendientes DEF Lleva, Dentro, Falta, Ausentes, LiberaTodo
<1>7. \A m \in Marcos : marcos[m].estaLibre => marcos'[m].estaLibre
  <2>1. TAKE m \in Marcos
  <2>2. CASE m \in S
    <3>1. marcos'[m] = [proceso_asignado |-> Nadie, estaLibre |-> TRUE]
      BY <1>2, <2>2 DEF MarcosCambian
    <3>. QED BY <3>1
  <2>3. CASE m \notin S
    BY <1>2, <2>3 DEF MarcosCambian
  <2>. QED BY <2>2, <2>3
<1>8. ASSUME NEW q \in Abiertos \ {p}, NEW i \in Presentes(q)
      PROVE  SinMarcar(q, i) \/ marcos'[pagina[q][i].marco] = marcos[pagina[q][i].marco]
  <2>. SUFFICES ASSUME ~SinMarcar(q, i)
                PROVE  marcos'[pagina[q][i].marco] = marcos[pagina[q][i].marco]
    OBVIOUS
  <2>1. PICK m \in Marcos : m = pagina[q][i].marco
    BY OcupaEs
  <2>2. marcos[m].proceso_asignado = q
    <3>1. marcos[pagina[q][i].marco].proceso_asignado = q
      BY MarcadoEs
    <3>. QED BY <2>1, <3>1
  <2>3. m # SinMarco
    BY PaginacionOK DEF Marcos, SinMarco
  <2>. QED BY <1>2, <1>3, <2>1, <2>2, <2>3 DEF MarcosCambian
<1>9. Presentes(p)' = {}
  BY <1>4 DEF Presentes
<1>. QED BY <1>3, <1>4, <1>5, <1>6, <1>7, <1>8, <1>9, NadieDesaloja, MarcosSinVictimas

\* A carpincho that closes frees its own frames only, unless there is a fault.
LEMMA MarcosCierraMarcos ==
  ASSUME ITipos, MarcosBien, NEW p \in Pids, CierraMarcos(p), fallas' = {}
  PROVE  MarcosBien'
<1>1. PICK S : S = Range(hilo[p].lista)
  OBVIOUS
<1>2. Pasa(p, "cierraLista", hilo[p].pedido, hilo[p].pag, hilo[p].vuelve, hilo[p].victima,
           hilo[p].marco, <<>>, hilo[p].nuevas, hilo[p].visitadas)
  BY TiposCierraMarcos
<1>3. MarcosCambian(S, [proceso_asignado |-> Nadie, estaLibre |-> TRUE])
  <2>1. [proceso_asignado |-> Nadie, estaLibre |-> TRUE]
          \in [proceso_asignado : Pids \cup {Nadie}, estaLibre : BOOLEAN]
    OBVIOUS
  <2>. QED BY <1>1, <2>1, CambianMarcos DEF CierraMarcos
<1>4. Desalojan(p) = {} /\ \A m \in S : marcos[m].proceso_asignado = p
  BY <1>1 DEF CierraMarcos
<1>5. /\ \A q \in Pids \ {p} : hilo'[q] = hilo[q]
      /\ hilo'[p].fase = "cierraLista" /\ hilo'[p].nuevas = <<>>
      /\ pagina' = pagina /\ tabla_de_paginas' = tabla_de_paginas
  BY <1>2 DEF Pasa, CierraMarcos, ITipos, Forma
<1>6. /\ ~Lleva(p)' /\ ~Dentro(p)' /\ Ausentes(p)' /\ p \notin Abiertos'
      /\ hilo[p].fase # "ocupa" /\ hilo'[p].fase # "ocupa"
  BY <1>5, SinPendientes DEF Lleva, Dentro, Falta, Ausentes, Abiertos, CierraMarcos
<1>7. \A m \in Marcos : marcos[m].estaLibre => marcos'[m].estaLibre
  BY <1>3 DEF MarcosCambian
<1>8. ASSUME NEW q \in Abiertos \ {p}, NEW i \in Presentes(q)
      PROVE  SinMarcar(q, i) \/ marcos'[pagina[q][i].marco] = marcos[pagina[q][i].marco]
  <2>. SUFFICES ASSUME ~SinMarcar(q, i)
                PROVE  marcos'[pagina[q][i].marco] = marcos[pagina[q][i].marco]
    OBVIOUS
  <2>1. PICK m \in Marcos : m = pagina[q][i].marco
    BY OcupaEs
  <2>2. marcos[m].proceso_asignado = q
    <3>1. marcos[pagina[q][i].marco].proceso_asignado = q
      BY MarcadoEs
    <3>. QED BY <2>1, <3>1
  <2>. QED BY <1>3, <1>4, <2>1, <2>2 DEF MarcosCambian
<1>. QED BY <1>4, <1>5, <1>6, <1>7, <1>8, NadieDesaloja, MarcosSinVictimas

\* The pages of a carpincho that closes are no longer looked at.
LEMMA MarcosCierraTLB ==
  ASSUME ITipos, MarcosBien, NEW p \in Pids, CierraTLB(p), fallas' = {}
  PROVE  MarcosBien'
<1>1. Pasa(p, "fin", "ninguno", 0, "", <<>>, SinMarco, <<>>, <<>>, {})
  BY TiposCierraTLB
<1>2. /\ \A q \in Pids \ {p} : pagina'[q] = pagina[q] /\ tabla_de_paginas'[q] = tabla_de_paginas[q]
      /\ PaginasDe(p)' = {} /\ marcos' = marcos /\ Desalojan(p) = {}
  BY PaginasNuevas DEF CierraTLB
<1>3. /\ \A q \in Pids \ {p} : hilo'[q] = hilo[q]
      /\ hilo'[p].fase = "fin" /\ hilo'[p].nuevas = <<>>
  BY <1>1 DEF Pasa
<1>4. /\ ~Lleva(p)' /\ ~Dentro(p)' /\ Ausentes(p)'
      /\ hilo[p].fase # "ocupa" /\ hilo'[p].fase # "ocupa"
  BY <1>3, SinPendientes DEF Lleva, Dentro, Falta, Ausentes, CierraTLB
<1>5. Presentes(p)' = {}
  BY <1>2 DEF Presentes
<1>. QED BY <1>2, <1>3, <1>4, <1>5, NadieDesaloja, MarcosSinVictimas

\* Steps that change neither page, table, frame nor local.
LEMMA MarcosIguales ==
  ASSUME MarcosBien, UNCHANGED <<marcos, pagina, tabla_de_paginas, hilo>>
  PROVE  MarcosBien'
<1>1. /\ Abiertos' = Abiertos /\ \A p : PaginasDe(p)' = PaginasDe(p) /\ Presentes(p)' = Presentes(p)
  BY DEF Abiertos, PaginasDe, Presentes
<1>2. \A p \in Abiertos' : \A i \in Presentes(p)' : Ocupa(p, i)'
  BY <1>1, ZenonT(60) DEF MarcosBien, Ocupa, SinMarcar
<1>3. ASSUME NEW t \in Pids PROVE Transito(t)' /\ Victima(t)' /\ Ausentes(t)'
  <2>1. Transito(t) /\ Victima(t) /\ Ausentes(t)
    BY DEF MarcosBien
  <2>2. Transito(t)'
    BY <2>1 DEF Transito, Lleva
  <2>3. Victima(t)'
    BY <1>1, <2>1 DEF Victima, Dentro
  <2>4. Ausentes(t)'
    BY <2>1 DEF Ausentes, Falta, Dentro, Pendiente, Escribiendo
  <2>. QED BY <2>2, <2>3, <2>4
<1>. QED BY <1>2, <1>3 DEF MarcosBien

\* A suspension without present pages frees no frame.
LEMMA MarcosSuspende ==
  ASSUME ITipos, MarcosBien, NEW p \in Pids, Suspende(p), fallas' = {}
  PROVE  MarcosBien'
<1>1. PICK S : S = {pagina[p][i].marco : i \in Presentes(p)}
  OBVIOUS
<1>2. S = {}
  BY <1>1 DEF Suspende
<1>3. MarcosCambian(S, [proceso_asignado |-> Nadie, estaLibre |-> TRUE])
  BY <1>1, FotoSuspende
<1>4. marcos' = marcos
  <2>1. \A m \in Marcos : marcos'[m] = marcos[m]
    BY <1>2, <1>3 DEF MarcosCambian
  <2>2. /\ marcos \in [Marcos -> [proceso_asignado : Pids \cup {Nadie}, estaLibre : BOOLEAN]]
        /\ marcos' \in [Marcos -> [proceso_asignado : Pids \cup {Nadie}, estaLibre : BOOLEAN]]
    BY <1>3 DEF ITipos, TiposPag, MarcosCambian
  <2>. QED BY <2>1, <2>2
<1>. QED BY <1>4, MarcosIguales DEF Suspende

\* A step of p keeps the turn: it goes on with the mutex as it is, or takes it
\* when nobody has it, or leaves it.
LEMMA TurnoSigue ==
  ASSUME Turno, NEW p \in Pids, \A q \in Pids \ {p} : hilo'[q] = hilo[q],
         \/ marcos_sem' = marcos_sem /\ (Escribiendo(p)' => Escribiendo(p))
         \/ marcos_sem = Nadie /\ marcos_sem' = p
         \/ Escribiendo(p) /\ ~Escribiendo(p)'
  PROVE  Turno'
<1>1. \A q \in Pids \ {p} : Escribiendo(q)' <=> Escribiendo(q)
  BY DEF Escribiendo, Dentro
<1>2. ASSUME NEW t \in Pids, Escribiendo(t)' PROVE marcos_sem' = t
  BY <1>1, <1>2, PaginacionOK DEF Turno
<1>. QED BY <1>2 DEF Turno

\* Whoever writes new pages has the mutex of the frames, from the first to the last.
LEMMA TurnoPaso ==
  ASSUME ITipos, Turno, [Next]_vars
  PROVE  Turno'
<1>. DEFINE Igual(p) == marcos_sem' = marcos_sem /\ (Escribiendo(p)' => Escribiendo(p))
<1>1. CASE UNCHANGED vars \/ LimpiaTLB
  BY <1>1 DEF Turno, Escribiendo, Dentro, LimpiaTLB, vars
<1>2. ASSUME NEW p \in Pids, NEW pedido \in {"acceso", "libera"}, Pide(p, pedido)
      PROVE  Turno'
  <2>1. Igual(p)
    BY <1>2, TiposPide DEF Pide, Pasa, Escribiendo, Dentro
  <2>. QED BY <1>2, <2>1, TurnoSigue, TiposPide DEF Pasa
<1>3. ASSUME NEW p \in Pids, NEW i \in Ids, Accede(p, i) \/ FundeCabecera(p, i)
      PROVE  Turno'
  <2>1. CASE Accede(p, i)
    <3>1. PICK f \in {"usa", "agrega", "falta"} :
            Pasa(p, f, hilo[p].pedido, i, hilo[p].vuelve, hilo[p].victima, hilo[p].marco,
                 hilo[p].lista, hilo[p].nuevas, hilo[p].visitadas)
      BY <2>1, TiposAccede
    <3>2. Igual(p)
      BY <2>1, <3>1 DEF Accede, Pasa, Escribiendo, Dentro
    <3>. QED BY <3>1, <3>2, TurnoSigue DEF Pasa
  <2>2. CASE FundeCabecera(p, i)
    BY <2>2 DEF FundeCabecera, Turno, Escribiendo, Dentro
  <2>. QED BY <1>3, <2>1, <2>2
<1>4. ASSUME NEW p \in Pids,
             Inicializa(p) \/ AgregaATLB(p) \/ Usa(p) \/ LiberaTodo(p) \/ Termina(p) \/ Suspende(p)
      PROVE  Turno'
  <2>1. CASE Inicializa(p)
    BY <2>1, TurnoSigue, TiposInicializa DEF Inicializa, Pasa, Escribiendo, Dentro
  <2>2. CASE AgregaATLB(p)
    BY <2>2, TurnoSigue, TiposAgregaATLB DEF AgregaATLB, Pasa, Escribiendo, Dentro
  <2>3. CASE Usa(p)
    BY <2>3, TurnoSigue, TiposUsa DEF Usa, Pasa, Escribiendo, Dentro
  <2>4. CASE LiberaTodo(p)
    BY <2>4, TurnoSigue, TiposLiberaTodo DEF LiberaTodo, Pasa, Escribiendo, Dentro
  <2>5. CASE Termina(p)
    BY <2>5, TurnoSigue, TiposTermina DEF Termina, Pasa, Escribiendo, Dentro
  <2>6. CASE Suspende(p)
    BY <2>6 DEF Suspende, Turno, Escribiendo, Dentro
  <2>. QED BY <1>4, <2>1, <2>2, <2>3, <2>4, <2>5, <2>6
<1>5. ASSUME NEW p \in Pids, Reemplaza(p) PROVE Turno'
  <2>1. CASE NoHayVictima(p)
    BY <2>1 DEF NoHayVictima, Turno, Escribiendo, Dentro
  <2>2. CASE EligeVictimaLRU(p) \/ EligeVictimaClock(p)
    <3>1. PICK c \in Candidatas(p) :
            Pasa(p, "saca", hilo[p].pedido, hilo[p].pag, hilo[p].fase, c, MarcoDe(c),
                 hilo[p].lista, hilo[p].nuevas, hilo[p].visitadas)
      BY <2>2, TiposElige
    <3>2. marcos_sem' = marcos_sem
      BY <2>2 DEF EligeVictimaLRU, EligeVictimaClock
    <3>3. hilo'[p].fase = "saca" /\ hilo'[p].vuelve = hilo[p].fase
      BY <3>1 DEF Pasa
    <3>4. Escribiendo(p)' => Escribiendo(p)
      BY <3>3 DEF Escribiendo, Dentro
    <3>5. Igual(p)
      BY <3>2, <3>4
    <3>. QED BY <3>1, <3>5, TurnoSigue DEF Pasa
  <2>3. CASE SacaVictima(p)
    <3>1. hilo'[p].fase = "quita" /\ hilo'[p].vuelve = hilo[p].vuelve
          /\ \A q \in Pids \ {p} : hilo'[q] = hilo[q]
      BY <2>3, TiposSacaVictima DEF Pasa
    <3>2. hilo[p].fase = "saca" /\ marcos_sem' = marcos_sem
      BY <2>3 DEF SacaVictima
    <3>3. Igual(p)
      BY <3>1, <3>2 DEF Escribiendo, Dentro
    <3>. QED BY <3>1, <3>3, TurnoSigue
  <2>4. CASE QuitaDeTLB(p)
    <3>1. PICK f \in {"asigna", "escribeEn"} :
            /\ f = "asigna" <=> hilo[p].vuelve = "falta"
            /\ Pasa(p, f, hilo[p].pedido, hilo[p].pag, "", <<>>, hilo[p].marco, hilo[p].lista,
                    hilo[p].nuevas, hilo[p].visitadas)
      BY <2>4, TiposQuitaDeTLB
    <3>2. hilo[p].fase = "quita" /\ hilo[p].vuelve \in {"falta", "escribe"}
      BY <2>4, DentroEs DEF QuitaDeTLB, Dentro
    <3>3. Igual(p)
      BY <2>4, <3>1, <3>2 DEF QuitaDeTLB, Pasa, Escribiendo, Dentro
    <3>. QED BY <3>1, <3>3, TurnoSigue DEF Pasa
  <2>5. CASE AsignaMarco(p)
    <3>1. hilo'[p].fase = "copia" /\ hilo'[p].vuelve = hilo[p].vuelve
          /\ \A q \in Pids \ {p} : hilo'[q] = hilo[q]
      BY <2>5, TiposAsignaMarco DEF Pasa
    <3>2. hilo[p].fase = "asigna" /\ marcos_sem' = marcos_sem
      BY <2>5 DEF AsignaMarco
    <3>3. Igual(p)
      BY <3>1, <3>2 DEF Escribiendo, Dentro
    <3>. QED BY <3>1, <3>3, TurnoSigue
  <2>6. CASE CopiaPagina(p)
    <3>1. hilo'[p].fase = "agrega" /\ hilo'[p].vuelve = hilo[p].vuelve
          /\ \A q \in Pids \ {p} : hilo'[q] = hilo[q]
      BY <2>6, TiposCopiaPagina DEF Pasa
    <3>2. hilo[p].fase = "copia" /\ marcos_sem' = marcos_sem
      BY <2>6 DEF CopiaPagina
    <3>3. Igual(p)
      BY <3>1, <3>2 DEF Escribiendo, Dentro
    <3>. QED BY <3>1, <3>3, TurnoSigue
  <2>. QED BY <1>5, <2>1, <2>2, <2>3, <2>4, <2>5, <2>6 DEF Reemplaza
<1>6. ASSUME NEW p \in Pids, NEW n \in 1..MaxPaginas, CreaPaginas(p, n) PROVE Turno'
  BY <1>6, TurnoSigue, TiposCreaPaginas DEF CreaPaginas, Pasa, Escribiendo, Dentro
<1>7. ASSUME NEW p \in Pids, Aloja(p) PROVE Turno'
  <2>1. CASE PideAlloc(p)
    BY <2>1, TurnoSigue, TiposPideAlloc DEF PideAlloc, Pasa, Escribiendo, Dentro
  <2>2. CASE ReservaFija(p)
    BY <2>2, TurnoSigue, TiposReservaFija DEF ReservaFija, Pasa, Escribiendo, Dentro
  <2>3. CASE buscarMarcosLibres(p)
    BY <2>3, TurnoSigue, TiposBuscarMarcosLibres DEF buscarMarcosLibres, Pasa, Escribiendo, Dentro
  <2>4. CASE EmpiezaAEscribir(p)
    BY <2>4, TurnoSigue, TiposEmpiezaAEscribir DEF EmpiezaAEscribir, Pasa
  <2>5. CASE EscribePagina(p) \/ EscribeTrasDesalojar(p)
    <3>1. PICK f \in {"ocupa", "escribe"}, n \in Marcos \cup {SinMarco} :
            Pasa(p, f, hilo[p].pedido, hilo[p].pag + 1, hilo[p].vuelve, hilo[p].victima, n,
                 hilo[p].lista, hilo[p].nuevas, hilo[p].visitadas)
      BY <2>5, TiposEscribe
    <3>2. PICK m \in Marcos : EscribeEn(p, m) /\ hilo[p].fase \in {"escribe", "escribeEn"}
      BY <2>5, EscribeEnAlguno
    <3>3. Igual(p)
      BY <3>2 DEF EscribeEn, Escribiendo
    <3>. QED BY <3>1, <3>3, TurnoSigue DEF Pasa
  <2>6. CASE NoHayMarco(p)
    BY <2>6 DEF NoHayMarco, Turno, Escribiendo, Dentro
  <2>7. CASE TerminaDeEscribir(p)
    BY <2>7, TurnoSigue, TiposTerminaDeEscribir DEF TerminaDeEscribir, Pasa, Escribiendo, Dentro
  <2>8. CASE AgregaNueva(p)
    BY <2>8, TurnoSigue, TiposAgregaNueva DEF AgregaNueva, Pasa, Escribiendo, Dentro
  <2>9. CASE OcupaMarco(p)
    BY <2>9, TurnoSigue, TiposOcupaMarco DEF OcupaMarco, Pasa, Escribiendo, Dentro
  <2>. QED BY <1>6, <1>7, <2>1, <2>2, <2>3, <2>4, <2>5, <2>6, <2>7, <2>8, <2>9 DEF Aloja
<1>8. ASSUME NEW p \in Pids, Cierra(p) PROVE Turno'
  <2>1. CASE BuscaMarcosALiberar(p)
    BY <2>1, TurnoSigue, TiposBuscaMarcosALiberar DEF BuscaMarcosALiberar, Pasa, Escribiendo, Dentro
  <2>2. CASE CierraMarcos(p)
    BY <2>2, TurnoSigue, TiposCierraMarcos DEF CierraMarcos, Pasa, Escribiendo, Dentro
  <2>3. CASE CierraLista(p)
    BY <2>3, TurnoSigue, TiposCierraLista DEF CierraLista, Pasa, Escribiendo, Dentro
  <2>4. CASE ListaCorta(p)
    BY <2>4 DEF ListaCorta, Turno, Escribiendo, Dentro
  <2>5. CASE CierraSwap(p)
    BY <2>5, TurnoSigue, TiposCierraSwap DEF CierraSwap, Pasa, Escribiendo, Dentro
  <2>6. CASE CierraTLB(p)
    BY <2>6, TurnoSigue, TiposCierraTLB DEF CierraTLB, Pasa, Escribiendo, Dentro
  <2>. QED BY <1>8, <2>1, <2>2, <2>3, <2>4, <2>5, <2>6 DEF Cierra
<1>. QED BY <1>1, <1>2, <1>3, <1>4, <1>5, <1>7, <1>8 DEF Next

\* Every step keeps the frames as they must be, unless it brings a fault.
LEMMA MarcosPaso ==
  ASSUME ITipos, IMarcos, [Next]_vars
  PROVE  IMarcos'
<1>. SUFFICES ASSUME fallas' = {} PROVE MarcosBien'
  BY TurnoPaso DEF IMarcos
<1>1. CASE UNCHANGED vars
  BY <1>1, MarcosIguales DEF IMarcos, vars
<1>2. CASE LimpiaTLB
  BY <1>2, MarcosIguales DEF IMarcos, LimpiaTLB, Sigue
<1>3. ASSUME NEW p \in Pids, NEW pedido \in {"acceso", "libera"}, Pide(p, pedido)
      PROVE  MarcosBien'
  BY <1>3, MarcosInicializa DEF IMarcos, Pide, Puede, Sigue
<1>4. ASSUME NEW p \in Pids, NEW i \in Ids, Accede(p, i) \/ FundeCabecera(p, i)
      PROVE  MarcosBien'
  <2>1. CASE Accede(p, i)
    BY <2>1, MarcosAccede DEF IMarcos, Accede, Sigue
  <2>2. CASE FundeCabecera(p, i)
    BY <2>2, MarcosIguales DEF IMarcos, FundeCabecera, Sigue
  <2>. QED BY <1>4, <2>1, <2>2
<1>5. ASSUME NEW p \in Pids,
             Inicializa(p) \/ AgregaATLB(p) \/ Usa(p) \/ LiberaTodo(p) \/ Termina(p) \/ Suspende(p)
      PROVE  MarcosBien'
  <2>1. MarcosBien
    BY <1>5 DEF IMarcos, Inicializa, AgregaATLB, Usa, LiberaTodo, Termina, Suspende, Puede, Sigue
  <2>. QED BY <1>5, <2>1, MarcosInicializa, MarcosAgregaATLB, MarcosUsa, MarcosLiberaTodo,
              MarcosSuspende
<1>6. ASSUME NEW p \in Pids, Reemplaza(p) PROVE MarcosBien'
  <2>1. MarcosBien
    BY <1>6 DEF IMarcos, Reemplaza, NoHayVictima, EligeVictimaLRU, EligeVictimaClock, SacaVictima,
                QuitaDeTLB, AsignaMarco, CopiaPagina, Sigue
  <2>2. CASE NoHayVictima(p)
    BY <2>1, <2>2, MarcosIguales DEF NoHayVictima
  <2>. QED BY <1>6, <2>1, <2>2, MarcosElige, MarcosSacaVictima, MarcosQuitaDeTLB,
              MarcosAsignaMarco, MarcosAgregaATLB DEF Reemplaza
<1>7. ASSUME NEW p \in Pids, Aloja(p) PROVE MarcosBien'
  <2>1. fallas = {}
    BY <1>7 DEF Aloja, PideAlloc, ReservaFija, CreaPaginas, buscarMarcosLibres, EmpiezaAEscribir,
                EscribePagina, NoHayMarco, EscribeTrasDesalojar, OcupaMarco, TerminaDeEscribir,
                AgregaNueva, Puede, Sigue
  <2>2. MarcosBien /\ Turno
    BY <2>1 DEF IMarcos
  <2>3. CASE NoHayMarco(p)
    BY <2>2, <2>3, MarcosIguales DEF NoHayMarco
  <2>. QED BY <1>7, <2>2, <2>3, MarcosInicializa, MarcosReservaFija, MarcosCreaPaginas,
              MarcosAgregaATLB, MarcosEscribe, MarcosOcupaMarco, MarcosAgregaNueva DEF Aloja
<1>8. ASSUME NEW p \in Pids, Cierra(p) PROVE MarcosBien'
  <2>1. MarcosBien
    BY <1>8 DEF IMarcos, Cierra, BuscaMarcosALiberar, CierraMarcos, CierraLista, ListaCorta,
                CierraSwap, CierraTLB, Puede, Sigue
  <2>2. CASE ListaCorta(p)
    BY <2>1, <2>2, MarcosIguales DEF ListaCorta
  <2>. QED BY <1>8, <2>1, <2>2, MarcosInicializa, MarcosCierraMarcos, MarcosCierraTLB DEF Cierra
<1>. QED BY <1>1, <1>2, <1>3, <1>4, <1>5, <1>6, <1>7, <1>8 DEF Next

\* At the start there is no page.
LEMMA MarcosInit ==
  ASSUME Init
  PROVE  MarcosBien /\ Turno
<1>1. ITipos /\ \A p \in Pids : tabla_de_paginas[p] = <<>> /\ hilo[p].fase = "afuera"
  <2>1. /\ tabla_de_paginas = [p \in Pids |-> <<>>]
        /\ hilo = [p \in Pids |-> [hilo_libre EXCEPT !.fase = "afuera"]]
    BY DEF Init
  <2>. QED BY <2>1, TiposInit DEF hilo_libre
<1>2. \A p \in Pids : Presentes(p) = {}
  BY <1>1 DEF Presentes, PaginasDe, Range
<1>3. \A p \in Pids : hilo[p].nuevas = <<>>
  BY <1>1 DEF ITipos, Forma
<1>4. \A p \in Pids : Transito(p) /\ Victima(p) /\ Ausentes(p)
  BY <1>1, <1>3, SinPendientes DEF Transito, Victima, Ausentes, Lleva, Dentro, Falta
<1>5. Turno
  BY <1>1 DEF Turno, Escribiendo, Dentro
<1>. QED BY <1>2, <1>4, <1>5 DEF MarcosBien, Abiertos

\* MarcosConDueno, whatever the number of carpinchos, frames and pages.
THEOREM MarcosDeLaMemoria == Spec => []MarcosConDueno
<1>1. Init => ITipos /\ IMarcos
  BY TiposInit, MarcosInit DEF IMarcos
<1>2. ITipos /\ IMarcos /\ [Next]_vars => ITipos' /\ IMarcos'
  BY TiposPaso, MarcosPaso
<1>3. ITipos /\ IMarcos => MarcosConDueno
  <2>. SUFFICES ASSUME ITipos, MarcosBien, NEW p \in Abiertos, NEW i \in Presentes(p)
                PROVE  /\ ~SinMarcar(p, i) => marcos[pagina[p][i].marco] =
                                               [proceso_asignado |-> p, estaLibre |-> FALSE]
                       /\ \A q \in Abiertos : \A j \in Presentes(q) :
                            pagina[q][j].marco = pagina[p][i].marco => <<q, j>> = <<p, i>>
    BY DEF IMarcos, MarcosConDueno
  <2>1. ~SinMarcar(p, i) =>
          marcos[pagina[p][i].marco] = [proceso_asignado |-> p, estaLibre |-> FALSE]
    BY OcupaEs
  <2>2. ASSUME NEW q \in Abiertos, NEW j \in Presentes(q), pagina[q][j].marco = pagina[p][i].marco
        PROVE  q = p /\ j = i
    BY <2>2, MarcosDistintos
  <2>. QED BY <2>1, <2>2
<1>. QED BY <1>1, <1>2, <1>3, PTL DEF Spec

-----------------------------------------------------------------------------
(* The TLB.                                                                *)

EnTLB(q, i) == <<q, i>> \in Range(TLB)
\* An entry is of a present page, or of one whose thread will take it out.
Saliendo(q, i) == \E t \in Pids : hilo[t].fase = "quita" /\ hilo[t].victima = <<q, i>>
EntradaBien(q, i) == i \in PaginasDe(q) /\ (pagina[q][i].presente \/ Saliendo(q, i))

\* A page that has missed the TLB, and the new ones, are not in it.
FueraDeTLB(t) ==
  /\ Falta(t) \/ hilo[t].fase \in {"agrega", "copia"} => ~EnTLB(t, hilo[t].pag)
  /\ \A i \in Range(hilo[t].nuevas) : ~EnTLB(t, i)

TLBBien ==
  /\ TLB \in Seq(Pids \X Ids) /\ IsInjective(TLB) /\ Len(TLB) <= cantidadEntradasTLB
  /\ \A q \in Pids, i \in Ids : EnTLB(q, i) => EntradaBien(q, i)
  /\ \A t \in Pids : FueraDeTLB(t)

ITLB == fallas = {} => TLBBien

\* A list with one more element, which it did not have.
LEMMA AgregadoEs ==
  ASSUME NEW E, NEW s \in Seq(E), IsInjective(s), NEW e \in E, e \notin Range(s),
         NEW u, u = Append(s, e)
  PROVE  /\ u \in Seq(E) /\ IsInjective(u) /\ Len(u) = Len(s) + 1
         /\ Range(u) \subseteq Range(s) \cup {e}
<1>1. PICK n \in Nat : n = Len(s) /\ DOMAIN s = 1..n
  OBVIOUS
<1>2. u \in Seq(E) /\ Len(u) = n + 1 /\ DOMAIN u = 1..(n + 1)
  BY <1>1
<1>3. \A k \in 1..(n + 1) : (k \in 1..n /\ u[k] = s[k]) \/ (k = n + 1 /\ u[k] = e)
  BY <1>1
<1>4. \A k \in 1..n : s[k] \in Range(s)
  BY <1>1 DEF Range
<1>5. Range(u) \subseteq Range(s) \cup {e}
  <2>1. Range(u) = {u[k] : k \in 1..(n + 1)}
    BY <1>2 DEF Range
  <2>. QED BY <1>3, <1>4, <2>1
<1>6. IsInjective(u)
  <2>1. \A j, k \in 1..n : s[j] = s[k] => j = k
    BY <1>1 DEF IsInjective
  <2>2. ASSUME NEW j \in 1..(n + 1), NEW k \in 1..(n + 1), u[j] = u[k] PROVE j = k
    <3>1. CASE j \in 1..n /\ k \in 1..n
      BY <1>1, <1>3, <2>1, <2>2, <3>1
    <3>2. CASE j = n + 1 /\ k = n + 1
      BY <3>2
    <3>3. CASE j \in 1..n /\ k = n + 1
      BY <1>1, <1>3, <1>4, <2>2, <3>3
    <3>4. CASE j = n + 1 /\ k \in 1..n
      BY <1>1, <1>3, <1>4, <2>2, <3>4
    <3>. QED BY <1>3, <3>1, <3>2, <3>3, <3>4
  <2>. QED BY <1>2, <2>2 DEF IsInjective
<1>. QED BY <1>1, <1>2, <1>5, <1>6

\* An entry that is not in the TLB enters it: there is no repeated one, nor more
\* than there may be, and an absent page enters only a full TLB.
LEMMA ReemplazoTLBEs ==
  ASSUME ITipos, NEW s \in Seq(Pids \X Ids), IsInjective(s), Len(s) <= cantidadEntradasTLB,
         NEW e \in Pids \X Ids, e \notin Range(s), NEW presente \in BOOLEAN,
         NEW u \in algoritmo_reemplazo_TLB(s, e, presente)
  PROVE  /\ u \in Seq(Pids \X Ids) /\ IsInjective(u) /\ Len(u) <= cantidadEntradasTLB
         /\ Range(u) \subseteq Range(s) \cup {e}
         /\ e \in Range(u) => presente \/ (cantidadEntradasTLB # 0 /\ Len(s) = cantidadEntradasTLB)
<1>1. PICK n \in Nat, c \in Nat : n = Len(s) /\ DOMAIN s = 1..n /\ c = cantidadEntradasTLB
  <2>1. cantidadEntradasTLB \in Nat
    BY PaginacionOK DEF ITipos, TiposPag, cantidadEntradasTLB
  <2>. QED BY <2>1
<1>2. CASE c = 0
  BY <1>1, <1>2 DEF algoritmo_reemplazo_TLB
<1>3. CASE c # 0 /\ n = c
  <2>1. s # <<>>
    BY <1>1, <1>3
  <2>2. ASSUME config.TLB = "FIFO" PROVE u = Append(Tail(s), e)
    BY <1>1, <1>3, <2>2 DEF algoritmo_reemplazo_TLB
  <2>3. ASSUME config.TLB # "FIFO" PROVE u \in AgregaLRU(s, e)
    BY <1>1, <1>3, <2>3 DEF algoritmo_reemplazo_TLB
  <2>4. \E w \in Seq(Pids \X Ids) :
          IsInjective(w) /\ Len(w) = n - 1 /\ Range(w) \subseteq Range(s) /\ u = Append(w, e)
    <3>1. CASE config.TLB = "FIFO"
      <4>1. Tail(s) \in Seq(Pids \X Ids) /\ IsInjective(Tail(s)) /\ Range(Tail(s)) \subseteq Range(s)
        BY <2>1, ColaEs
      <4>2. Len(Tail(s)) = n - 1
        BY <1>1, <2>1
      <4>. QED BY <2>2, <3>1, <4>1, <4>2
    <3>2. CASE config.TLB # "FIFO"
      <4>1. PICK k \in 1..Len(s) : u = Append(RemoveAt(s, PrimeraConId(s, s[k][2])), e)
        BY <2>3, <3>2 DEF AgregaLRU
      <4>2. PICK j : j = PrimeraConId(s, s[k][2])
        OBVIOUS
      <4>3. j \in 1..Len(s)
        <5>1. PICK T : T = {l \in 1..Len(s) : s[l][2] = s[k][2]}
          OBVIOUS
        <5>2. T \subseteq Nat /\ k \in T
          BY <1>1, <5>1
        <5>3. Min(T) \in T
          BY <5>2, MinEs
        <5>. QED BY <4>2, <5>1, <5>3 DEF PrimeraConId
      <4>4. PICK w : w = RemoveAt(s, j)
        OBVIOUS
      <4>5. w \in Seq(Pids \X Ids) /\ IsInjective(w) /\ Len(w) = n - 1 /\ Range(w) \subseteq Range(s)
        BY <1>1, <4>3, <4>4, RemoveAtEs
      <4>. QED BY <4>1, <4>2, <4>4, <4>5
    <3>. QED BY <3>1, <3>2
  <2>5. PICK w \in Seq(Pids \X Ids) :
          IsInjective(w) /\ Len(w) = n - 1 /\ Range(w) \subseteq Range(s) /\ u = Append(w, e)
    BY <2>4
  <2>6. e \notin Range(w)
    BY <2>5
  <2>7. /\ u \in Seq(Pids \X Ids) /\ IsInjective(u) /\ Len(u) = Len(w) + 1
        /\ Range(u) \subseteq Range(w) \cup {e}
    <3>1. PICK E : E = Pids \X Ids
      OBVIOUS
    <3>2. w \in Seq(E) /\ IsInjective(w) /\ e \in E /\ e \notin Range(w) /\ u = Append(w, e)
      BY <2>5, <2>6, <3>1
    <3>3. u \in Seq(E) /\ IsInjective(u) /\ Len(u) = Len(w) + 1 /\ Range(u) \subseteq Range(w) \cup {e}
      <4>1. IsInjective(u)
        BY <3>2, AgregadoEs
      <4>2. Range(u) \subseteq Range(w) \cup {e}
        BY <3>2, AgregadoEs
      <4>3. u \in Seq(E) /\ Len(u) = Len(w) + 1
        BY <3>2
      <4>. QED BY <4>1, <4>2, <4>3
    <3>. QED BY <3>1, <3>3
  <2>. QED BY <1>1, <1>3, <2>5, <2>7
<1>4. CASE c # 0 /\ n # c
  <2>1. u = IF presente THEN Append(s, e) ELSE s
    BY <1>1, <1>4 DEF algoritmo_reemplazo_TLB
  <2>2. CASE ~presente
    BY <2>1, <2>2
  <2>3. CASE presente
    <3>1. u = Append(s, e)
      BY <2>1, <2>3
    <3>2. /\ u \in Seq(Pids \X Ids) /\ IsInjective(u) /\ Len(u) = n + 1
          /\ Range(u) \subseteq Range(s) \cup {e}
      <4>1. PICK E : E = Pids \X Ids
        OBVIOUS
      <4>2. s \in Seq(E) /\ IsInjective(s) /\ e \in E /\ e \notin Range(s)
        BY <4>1
      <4>3. u \in Seq(E) /\ IsInjective(u) /\ Len(u) = Len(s) + 1 /\ Range(u) \subseteq Range(s) \cup {e}
        <5>1. IsInjective(u)
          BY <3>1, <4>2, AgregadoEs
        <5>2. Range(u) \subseteq Range(s) \cup {e}
          BY <3>1, <4>2, AgregadoEs
        <5>3. u \in Seq(E) /\ Len(u) = Len(s) + 1
          BY <3>1, <4>2
        <5>. QED BY <5>1, <5>2, <5>3
      <4>. QED BY <1>1, <4>1, <4>3
    <3>3. n + 1 <= c
      BY <1>1, <1>4
    <3>. QED BY <1>1, <2>3, <3>2, <3>3
  <2>. QED BY <2>2, <2>3
<1>. QED BY <1>2, <1>3, <1>4

\* A step of p, by what it does to each entry.
LEMMA TLBPaso ==
  ASSUME ITipos, TLBBien, NEW p \in Pids, \A q \in Pids \ {p} : hilo'[q] = hilo[q],
         config' = config,
         TLB' \in Seq(Pids \X Ids), IsInjective(TLB'), Len(TLB') <= cantidadEntradasTLB,
         \A q \in Pids, i \in Ids : EnTLB(q, i)' =>
           /\ EnTLB(q, i) \/ (q = p /\ EntradaBien(p, i)')
           /\ EnTLB(q, i) =>
                /\ i \in PaginasDe(q)'
                /\ pagina[q][i].presente \/ (hilo[p].fase = "quita" /\ hilo[p].victima = <<q, i>>) =>
                     pagina'[q][i].presente \/ Saliendo(q, i)',
         FueraDeTLB(p)'
  PROVE  TLBBien'
<1>1. cantidadEntradasTLB' = cantidadEntradasTLB
  BY DEF cantidadEntradasTLB
<1>2. ASSUME NEW q \in Pids, NEW i \in Ids, EnTLB(q, i)' PROVE EntradaBien(q, i)'
  <2>1. CASE ~EnTLB(q, i)
    BY <1>2, <2>1
  <2>2. CASE EnTLB(q, i)
    <3>1. i \in PaginasDe(q)' /\ (pagina[q][i].presente \/ Saliendo(q, i))
      BY <1>2, <2>2 DEF TLBBien, EntradaBien
    <3>2. CASE pagina[q][i].presente
      BY <1>2, <2>2, <3>1, <3>2 DEF EntradaBien
    <3>3. CASE Saliendo(q, i)
      <4>1. PICK t \in Pids : hilo[t].fase = "quita" /\ hilo[t].victima = <<q, i>>
        BY <3>3 DEF Saliendo
      <4>2. CASE t = p
        BY <1>2, <2>2, <3>1, <4>1, <4>2 DEF EntradaBien
      <4>3. CASE t # p
        <5>1. hilo'[t] = hilo[t]
          BY <4>3
        <5>. QED BY <3>1, <4>1, <5>1 DEF EntradaBien, Saliendo
      <4>. QED BY <4>2, <4>3
    <3>. QED BY <3>1, <3>2, <3>3
  <2>. QED BY <2>1, <2>2
<1>3. ASSUME NEW t \in Pids, t # p PROVE FueraDeTLB(t)'
  <2>1. FueraDeTLB(t) /\ hilo'[t] = hilo[t]
    BY <1>3 DEF TLBBien
  <2>2. \A i \in Ids : EnTLB(t, i)' => EnTLB(t, i)
    BY <1>3
  <2>3. Falta(t)' <=> Falta(t)
    BY <2>1 DEF Falta, Dentro
  <2>4. Falta(t) \/ hilo[t].fase \in {"agrega", "copia"} => hilo[t].pag \in Ids
    BY VisitaEs DEF Visita
  <2>5. \A i \in Range(hilo[t].nuevas) : i \in Ids
    <3>1. hilo[t].nuevas \in Seq(Ids)
      BY Locales
    <3>. QED BY <3>1 DEF Range
  <2>6. Falta(t)' \/ hilo'[t].fase \in {"agrega", "copia"} => ~EnTLB(t, hilo[t].pag)'
    BY <2>1, <2>2, <2>3, <2>4 DEF FueraDeTLB
  <2>7. \A i \in Range(hilo'[t].nuevas) : ~EnTLB(t, i)'
    BY <2>1, <2>2, <2>5 DEF FueraDeTLB
  <2>. QED BY <2>1, <2>6, <2>7 DEF FueraDeTLB, EnTLB
<1>. QED BY <1>1, <1>2, <1>3 DEF TLBBien

\* The locals of p ask for no more than they did.
LEMMA FueraQueda ==
  ASSUME ITipos, TLBBien, NEW p \in Pids, TLB' = TLB,
         Falta(p)' \/ hilo'[p].fase \in {"agrega", "copia"} =>
           (Falta(p) \/ hilo[p].fase \in {"agrega", "copia"}) /\ hilo'[p].pag = hilo[p].pag,
         hilo'[p].nuevas = hilo[p].nuevas \/ hilo'[p].nuevas = <<>>
  PROVE  FueraDeTLB(p)'
<1>1. FueraDeTLB(p) /\ Range(<<>>) = {}
  BY DEF TLBBien, Range
<1>. QED BY <1>1 DEF FueraDeTLB, EnTLB

\* A step of p that does not touch the TLB, nor takes a page away.
LEMMA TLBQuieta ==
  ASSUME ITipos, TLBBien, NEW p \in Pids, \A q \in Pids \ {p} : hilo'[q] = hilo[q],
         config' = config, TLB' = TLB, tabla_de_paginas' = tabla_de_paginas,
         hilo[p].fase # "quita",
         \A q \in Pids, i \in Ids : pagina[q][i].presente => pagina'[q][i].presente,
         FueraDeTLB(p)'
  PROVE  TLBBien'
<1>1. \A q \in Pids, i \in Ids : EnTLB(q, i)' <=> EnTLB(q, i)
  BY DEF EnTLB
<1>2. \A q \in Pids, i \in Ids : EnTLB(q, i) => i \in PaginasDe(q)'
  BY DEF TLBBien, EntradaBien, PaginasDe
<1>3. TLB' \in Seq(Pids \X Ids) /\ IsInjective(TLB') /\ Len(TLB') <= cantidadEntradasTLB
  BY DEF TLBBien
<1>. QED BY <1>1, <1>2, <1>3, TLBPaso

\* The steps that leave the TLB and the pages, and go on without new pages.
LEMMA TLBInicializa ==
  ASSUME ITipos, TLBBien, NEW p \in Pids,
         \/ Inicializa(p) \/ \E pedido \in {"acceso", "libera"} : Pide(p, pedido)
         \/ PideAlloc(p) \/ Termina(p) \/ BuscaMarcosALiberar(p) \/ CierraMarcos(p)
         \/ CierraLista(p) \/ CierraSwap(p)
  PROVE  TLBBien'
<1>1. hilo[p].fase \in {"afuera", "libre", "reserva", "cierraMarcos", "cierraLista", "cierraSwap",
                        "cierraTLB", "fin"} => hilo[p].nuevas = <<>>
  BY DEF ITipos, Forma
<1>2. /\ config' = config /\ TLB' = TLB /\ tabla_de_paginas' = tabla_de_paginas /\ pagina' = pagina
      /\ hilo[p].fase \in {"afuera", "libre", "recorre", "cierraMarcos", "cierraLista", "cierraSwap"}
  BY DEF Inicializa, Pide, PideAlloc, Termina, BuscaMarcosALiberar, CierraMarcos, CierraLista,
         CierraSwap, Puede
<1>3. /\ \A q \in Pids \ {p} : hilo'[q] = hilo[q]
      /\ hilo'[p].fase \in {"libre", "recorre", "reserva", "cierraMarcos", "cierraLista",
                            "cierraSwap", "cierraTLB"}
      /\ hilo'[p].nuevas = <<>>
  <2>1. CASE Inicializa(p)
    <3>1. hilo[p].nuevas = <<>>
      BY <1>1, <2>1 DEF Inicializa
    <3>. QED BY <2>1, <3>1, TiposInicializa DEF Pasa
  <2>2. ASSUME NEW pedido \in {"acceso", "libera"}, Pide(p, pedido)
        PROVE  /\ \A q \in Pids \ {p} : hilo'[q] = hilo[q]
               /\ hilo'[p].fase = "recorre" /\ hilo'[p].nuevas = <<>>
    <3>1. hilo[p].nuevas = <<>>
      BY <1>1, <2>2 DEF Pide, Puede
    <3>. QED BY <2>2, <3>1, TiposPide DEF Pasa
  <2>3. CASE PideAlloc(p)
    <3>1. hilo[p].nuevas = <<>>
      BY <1>1, <2>3 DEF PideAlloc, Puede
    <3>. QED BY <2>3, <3>1, TiposPideAlloc DEF Pasa
  <2>4. CASE Termina(p)
    BY <2>4, TiposTermina DEF Pasa
  <2>5. CASE BuscaMarcosALiberar(p)
    <3>1. hilo[p].nuevas = <<>>
      BY <1>1, <2>5 DEF BuscaMarcosALiberar, Puede
    <3>. QED BY <2>5, <3>1, TiposBuscaMarcosALiberar DEF Pasa
  <2>6. CASE CierraMarcos(p)
    <3>1. hilo[p].nuevas = <<>>
      BY <1>1, <2>6 DEF CierraMarcos
    <3>. QED BY <2>6, <3>1, TiposCierraMarcos DEF Pasa
  <2>7. CASE CierraLista(p)
    <3>1. hilo[p].nuevas = <<>>
      BY <1>1, <2>7 DEF CierraLista
    <3>. QED BY <2>7, <3>1, TiposCierraLista DEF Pasa
  <2>8. CASE CierraSwap(p)
    <3>1. hilo[p].nuevas = <<>>
      BY <1>1, <2>8 DEF CierraSwap
    <3>. QED BY <2>8, <3>1, TiposCierraSwap DEF Pasa
  <2>. QED BY <2>1, <2>2, <2>3, <2>4, <2>5, <2>6, <2>7, <2>8
<1>4. ~Falta(p)' /\ hilo'[p].fase \notin {"agrega", "copia"} /\ hilo[p].fase # "quita"
  BY <1>2, <1>3 DEF Falta, Dentro
<1>5. FueraDeTLB(p)'
  BY <1>2, <1>3, <1>4, FueraQueda
<1>. QED BY <1>2, <1>3, <1>4, <1>5, TLBQuieta

\* The steps of a request that leave the TLB and take no page away.
LEMMA TLBUsa ==
  ASSUME ITipos, TLBBien, NEW p \in Pids,
         \/ Usa(p) \/ CopiaPagina(p) \/ buscarMarcosLibres(p) \/ EmpiezaAEscribir(p)
         \/ TerminaDeEscribir(p) \/ ReservaFija(p) \/ OcupaMarco(p)
  PROVE  TLBBien'
<1>1. /\ config' = config /\ TLB' = TLB /\ tabla_de_paginas' = tabla_de_paginas
      /\ hilo[p].fase # "quita"
  BY DEF Usa, CopiaPagina, buscarMarcosLibres, EmpiezaAEscribir, TerminaDeEscribir, ReservaFija,
         OcupaMarco
<1>2. \A q \in Pids, i \in Ids : pagina[q][i].presente => pagina'[q][i].presente
  <2>1. CASE Usa(p)
    <3>1. PICK i \in Ids, x \in TipoDePagina :
            PaginaCambia(p, i, x) /\ x.presente = pagina[p][i].presente
      BY <2>1, FotoUsa
    <3>2. TAKE q \in Pids, j \in Ids
    <3>3. CASE q = p /\ j = i
      BY <3>1, <3>3 DEF PaginaCambia
    <3>4. CASE q # p \/ j # i
      BY <3>1, <3>4 DEF PaginaCambia
    <3>. QED BY <3>3, <3>4
  <2>2. CASE ~Usa(p)
    <3>1. pagina' = pagina
      BY <2>2 DEF CopiaPagina, buscarMarcosLibres, EmpiezaAEscribir, TerminaDeEscribir,
                  ReservaFija, OcupaMarco
    <3>. QED BY <3>1
  <2>. QED BY <2>1, <2>2
<1>3. /\ \A q \in Pids \ {p} : hilo'[q] = hilo[q]
      /\ \/ hilo'[p].fase \in {"recorre", "escribe", "agregaNuevas"}
         \/ hilo[p].fase = "copia" /\ hilo'[p].fase = "agrega" /\ hilo'[p].pag = hilo[p].pag
      /\ hilo'[p].nuevas = hilo[p].nuevas
  <2>1. CASE Usa(p)
    BY <2>1, TiposUsa DEF Pasa
  <2>2. CASE CopiaPagina(p)
    <3>1. hilo[p].fase = "copia"
      BY <2>2 DEF CopiaPagina
    <3>. QED BY <2>2, <3>1, TiposCopiaPagina DEF Pasa
  <2>3. CASE buscarMarcosLibres(p)
    BY <2>3, TiposBuscarMarcosLibres DEF Pasa
  <2>4. CASE EmpiezaAEscribir(p)
    BY <2>4, TiposEmpiezaAEscribir DEF Pasa
  <2>5. CASE TerminaDeEscribir(p)
    BY <2>5, TiposTerminaDeEscribir DEF Pasa
  <2>6. CASE ReservaFija(p)
    BY <2>6, TiposReservaFija DEF Pasa
  <2>7. CASE OcupaMarco(p)
    BY <2>7, TiposOcupaMarco DEF Pasa
  <2>. QED BY <2>1, <2>2, <2>3, <2>4, <2>5, <2>6, <2>7
<1>4. ~Falta(p)'
  BY <1>3 DEF Falta, Dentro
<1>5. FueraDeTLB(p)'
  BY <1>1, <1>3, <1>4, FueraQueda
<1>. QED BY <1>1, <1>2, <1>3, <1>5, TLBQuieta

\* A page that is looked for in the table is not in the TLB.
LEMMA TLBAccede ==
  ASSUME ITipos, TLBBien, NEW p \in Pids, NEW i \in Ids, Accede(p, i)
  PROVE  TLBBien'
<1>1. PICK f \in {"usa", "agrega", "falta"} :
        Pasa(p, f, hilo[p].pedido, i, hilo[p].vuelve, hilo[p].victima, hilo[p].marco,
             hilo[p].lista, hilo[p].nuevas, hilo[p].visitadas)
  BY TiposAccede
<1>2. /\ \A q \in Pids \ {p} : hilo'[q] = hilo[q]
      /\ hilo'[p].fase = f /\ hilo'[p].pag = i /\ hilo'[p].nuevas = hilo[p].nuevas
  BY <1>1 DEF Pasa
<1>3. /\ config' = config /\ TLB' = TLB /\ tabla_de_paginas' = tabla_de_paginas /\ pagina' = pagina
      /\ hilo[p].fase = "recorre" /\ hilo \in [Pids -> TipoDeHilo]
      /\ hilo' = [hilo EXCEPT ![p].pag = i,
                    ![p].fase = IF \E k \in 1..Len(TLB) : TLB[k] = <<p, i>> THEN "usa"
                                ELSE IF pagina[p][i].presente THEN "agrega" ELSE "falta"]
  BY DEF Accede, ITipos, TiposPag
<1>4. f # "usa" => ~EnTLB(p, i)
  <2>1. hilo'[p].fase = IF \E k \in 1..Len(TLB) : TLB[k] = <<p, i>> THEN "usa"
                        ELSE IF pagina[p][i].presente THEN "agrega" ELSE "falta"
    BY <1>3 DEF TipoDeHilo
  <2>2. f # "usa" => \A k \in 1..Len(TLB) : TLB[k] # <<p, i>>
    BY <1>2, <2>1
  <2>3. DOMAIN TLB = 1..Len(TLB)
    BY DEF TLBBien
  <2>. QED BY <2>2, <2>3 DEF EnTLB, Range
<1>5. FueraDeTLB(p)'
  <2>1. FueraDeTLB(p)
    BY DEF TLBBien
  <2>2. Falta(p)' \/ hilo'[p].fase \in {"agrega", "copia"} => f # "usa"
    BY <1>2 DEF Falta, Dentro
  <2>. QED BY <1>2, <1>3, <1>4, <2>1, <2>2 DEF FueraDeTLB, EnTLB
<1>. QED BY <1>2, <1>3, <1>5, TLBQuieta

\* A page that enters the TLB was not there.
LEMMA TLBAgregaATLB ==
  ASSUME ITipos, TLBBien, NEW p \in Pids, AgregaATLB(p), fallas' = {}
  PROVE  TLBBien'
<1>1. hilo[p].fase = "agrega" /\ Visita(p) /\ FueraDeTLB(p)
  BY DEF AgregaATLB, Visita, TLBBien
<1>2. PICK i \in Ids : /\ i = hilo[p].pag /\ i \in PaginasDe(p) /\ i \notin Range(hilo[p].nuevas)
                       /\ pagina[p][i] \in TipoDePagina
  BY <1>1, VisitaEs
<1>3. Pasa(p, "usa", hilo[p].pedido, hilo[p].pag, hilo[p].vuelve, hilo[p].victima, hilo[p].marco,
           hilo[p].lista, hilo[p].nuevas, hilo[p].visitadas)
  BY TiposAgregaATLB
<1>4. /\ TLB' \in algoritmo_reemplazo_TLB(TLB, <<p, i>>, pagina[p][i].presente)
      /\ cantidadEntradasTLB # 0 /\ Len(TLB) = cantidadEntradasTLB => pagina[p][i].presente
      /\ config' = config /\ tabla_de_paginas' = tabla_de_paginas /\ pagina' = pagina
  BY <1>2 DEF AgregaATLB, EntraAusente
<1>5. /\ TLB \in Seq(Pids \X Ids) /\ IsInjective(TLB) /\ Len(TLB) <= cantidadEntradasTLB
      /\ <<p, i>> \notin Range(TLB) /\ <<p, i>> \in Pids \X Ids
      /\ pagina[p][i].presente \in BOOLEAN
  BY <1>1, <1>2 DEF TLBBien, FueraDeTLB, EnTLB, TipoDePagina
<1>6. /\ TLB' \in Seq(Pids \X Ids) /\ IsInjective(TLB') /\ Len(TLB') <= cantidadEntradasTLB
      /\ Range(TLB') \subseteq Range(TLB) \cup {<<p, i>>}
      /\ <<p, i>> \in Range(TLB') =>
           pagina[p][i].presente \/ (cantidadEntradasTLB # 0 /\ Len(TLB) = cantidadEntradasTLB)
  <2>1. PICK s, u, e, b : s = TLB /\ u = TLB' /\ e = <<p, i>> /\ b = pagina[p][i].presente
    OBVIOUS
  <2>2. /\ s \in Seq(Pids \X Ids) /\ IsInjective(s) /\ Len(s) <= cantidadEntradasTLB
        /\ e \in Pids \X Ids /\ e \notin Range(s) /\ b \in BOOLEAN
        /\ u \in algoritmo_reemplazo_TLB(s, e, b)
    BY <1>4, <1>5, <2>1
  <2>3. /\ u \in Seq(Pids \X Ids) /\ IsInjective(u) /\ Len(u) <= cantidadEntradasTLB
        /\ Range(u) \subseteq Range(s) \cup {e}
        /\ e \in Range(u) => b \/ (cantidadEntradasTLB # 0 /\ Len(s) = cantidadEntradasTLB)
    BY <2>2, ReemplazoTLBEs
  <2>. QED BY <2>1, <2>3
<1>7. /\ \A q \in Pids \ {p} : hilo'[q] = hilo[q]
      /\ hilo'[p].fase = "usa" /\ hilo'[p].nuevas = hilo[p].nuevas
  BY <1>3 DEF Pasa
<1>8. ASSUME NEW q \in Pids, NEW j \in Ids, EnTLB(q, j)'
      PROVE  EnTLB(q, j) \/ (q = p /\ j = i /\ pagina[p][i].presente)
  <2>1. <<q, j>> \in Range(TLB) \/ <<q, j>> = <<p, i>>
    BY <1>6, <1>8 DEF EnTLB
  <2>2. CASE <<q, j>> = <<p, i>>
    <3>1. q = p /\ j = i
      BY <2>2
    <3>. QED BY <1>4, <1>6, <1>8, <3>1 DEF EnTLB
  <2>. QED BY <2>1, <2>2 DEF EnTLB
<1>9. FueraDeTLB(p)'
  <2>1. \A j \in Range(hilo[p].nuevas) : j \in Ids /\ j # i /\ ~EnTLB(p, j)
    <3>1. hilo[p].nuevas \in Seq(Ids)
      BY Locales
    <3>2. \A j \in Range(hilo[p].nuevas) : j \in Ids
      BY <3>1 DEF Range
    <3>. QED BY <1>1, <1>2, <3>2 DEF FueraDeTLB
  <2>2. ~Falta(p)' /\ hilo'[p].fase \notin {"agrega", "copia"}
    BY <1>7 DEF Falta, Dentro
  <2>3. \A j \in Range(hilo'[p].nuevas) : ~EnTLB(p, j)'
    BY <1>7, <1>8, <2>1
  <2>. QED BY <2>2, <2>3 DEF FueraDeTLB, EnTLB
<1>10. \A q \in Pids, j \in Ids : EnTLB(q, j) => j \in PaginasDe(q)'
  BY <1>4 DEF TLBBien, EntradaBien, PaginasDe
<1>11. \A q \in Pids, j \in Ids : EnTLB(q, j)' =>
         /\ EnTLB(q, j) \/ (q = p /\ EntradaBien(p, j)')
         /\ EnTLB(q, j) =>
              /\ j \in PaginasDe(q)'
              /\ pagina[q][j].presente \/ (hilo[p].fase = "quita" /\ hilo[p].victima = <<q, j>>) =>
                   pagina'[q][j].presente \/ Saliendo(q, j)'
  <2>1. PaginasDe(p)' = PaginasDe(p)
    BY <1>4 DEF PaginasDe
  <2>2. pagina[p][i].presente => EntradaBien(p, i)'
    BY <1>2, <1>4, <2>1 DEF EntradaBien
  <2>. QED BY <1>1, <1>4, <1>8, <1>10, <2>2
<1>. QED BY <1>4, <1>6, <1>7, <1>9, <1>11, TLBPaso

\* The choice of a victim: nobody is taking out another one.
LEMMA TLBElige ==
  ASSUME ITipos, TLBBien, NEW p \in Pids, EligeVictimaLRU(p) \/ EligeVictimaClock(p)
  PROVE  TLBBien'
<1>1. PICK c \in Candidatas(p) :
        /\ Desaloja(p, c) /\ NecesitaMarco(p) /\ swap = Nadie
        /\ UNCHANGED <<config, carpinchos, tabla_de_paginas, contadorPag, marcos,
                       memoriaPrincipal, TLB, guardado, marcos_sem, pedidos,
                       cuotaTrunca, caida>>
        /\ pagina' \in [Pids -> [Ids -> TipoDePagina]]
        /\ punteroClock' \in [Pids \cup {Nadie} -> Nat]
        /\ \A q \in Pids, i \in Ids : pagina'[q][i].presente = pagina[q][i].presente
  BY FotoElige
<1>2. Pasa(p, "saca", hilo[p].pedido, hilo[p].pag, hilo[p].fase, c, MarcoDe(c),
           hilo[p].lista, hilo[p].nuevas, hilo[p].visitadas)
  BY <1>1, TiposDesaloja
<1>3. /\ \A q \in Pids \ {p} : hilo'[q] = hilo[q]
      /\ hilo'[p].fase = "saca" /\ hilo'[p].vuelve = hilo[p].fase /\ hilo'[p].pag = hilo[p].pag
      /\ hilo'[p].nuevas = hilo[p].nuevas /\ hilo[p].fase \in {"falta", "escribe"}
  BY <1>1, <1>2 DEF Pasa, NecesitaMarco
<1>4. Falta(p)' => Falta(p)
  BY <1>3 DEF Falta, Dentro
<1>5. FueraDeTLB(p)'
  BY <1>1, <1>3, <1>4, FueraQueda
<1>. QED BY <1>1, <1>3, <1>5, TLBQuieta

\* A page that goes is in the TLB only while its thread has not taken it out.
LEMMA TLBSacaVictima ==
  ASSUME ITipos, TLBBien, NEW p \in Pids, SacaVictima(p)
  PROVE  TLBBien'
<1>1. hilo[p].fase = "saca" /\ Dentro(p)
  BY DEF SacaVictima, Dentro
<1>2. PICK q \in Pids, i \in Ids : hilo[p].victima = <<q, i>>
  BY <1>1, DentroEs
<1>3. PICK x \in TipoDePagina : PaginaCambia(q, i, x)
  BY <1>2, FotoSaca
<1>4. Pasa(p, "quita", hilo[p].pedido, hilo[p].pag, hilo[p].vuelve, hilo[p].victima,
           hilo[p].marco, hilo[p].lista, hilo[p].nuevas, hilo[p].visitadas)
  BY TiposSacaVictima
<1>5. /\ \A r \in Pids \ {p} : hilo'[r] = hilo[r]
      /\ hilo'[p].fase = "quita" /\ hilo'[p].vuelve = hilo[p].vuelve /\ hilo'[p].pag = hilo[p].pag
      /\ hilo'[p].nuevas = hilo[p].nuevas /\ hilo'[p].victima = <<q, i>>
  BY <1>2, <1>4 DEF Pasa
<1>6. Falta(p)' => Falta(p)
  BY <1>1, <1>5 DEF Falta, Dentro
<1>7. config' = config /\ TLB' = TLB /\ tabla_de_paginas' = tabla_de_paginas
  BY DEF SacaVictima
<1>8. FueraDeTLB(p)'
  BY <1>5, <1>6, <1>7, FueraQueda
<1>9. \A r \in Pids, j \in Ids :
        pagina[r][j].presente => pagina'[r][j].presente \/ Saliendo(r, j)'
  <2>1. TAKE r \in Pids, j \in Ids
  <2>2. CASE r = q /\ j = i
    BY <1>5, <2>2 DEF Saliendo
  <2>3. CASE r # q \/ j # i
    BY <1>3, <2>3 DEF PaginaCambia
  <2>. QED BY <2>2, <2>3
<1>10. \A r \in Pids, j \in Ids : (EnTLB(r, j)' <=> EnTLB(r, j)) /\ (EnTLB(r, j) => j \in PaginasDe(r)')
  BY <1>7 DEF TLBBien, EntradaBien, PaginasDe, EnTLB
<1>11. TLB' \in Seq(Pids \X Ids) /\ IsInjective(TLB') /\ Len(TLB') <= cantidadEntradasTLB
  BY <1>7 DEF TLBBien
<1>. QED BY <1>1, <1>5, <1>7, <1>8, <1>9, <1>10, <1>11, TLBPaso

\* The victim leaves the TLB.
LEMMA TLBQuitaDeTLB ==
  ASSUME ITipos, TLBBien, NEW p \in Pids, QuitaDeTLB(p)
  PROVE  TLBBien'
<1>1. hilo[p].fase = "quita" /\ Dentro(p)
  BY DEF QuitaDeTLB, Dentro
<1>2. PICK q \in Pids, i \in Ids : hilo[p].victima = <<q, i>>
  BY <1>1, DentroEs
<1>3. hilo[p].vuelve \in {"falta", "escribe"}
  BY <1>1, DentroEs
<1>4. PICK f \in {"asigna", "escribeEn"} :
        /\ f = "asigna" <=> hilo[p].vuelve = "falta"
        /\ Pasa(p, f, hilo[p].pedido, hilo[p].pag, "", <<>>, hilo[p].marco, hilo[p].lista,
                hilo[p].nuevas, hilo[p].visitadas)
  BY TiposQuitaDeTLB
<1>5. /\ \A r \in Pids \ {p} : hilo'[r] = hilo[r]
      /\ hilo'[p].fase = f /\ hilo'[p].pag = hilo[p].pag /\ hilo'[p].nuevas = hilo[p].nuevas
  BY <1>4 DEF Pasa
<1>6. Falta(p)' => Falta(p)
  <2>1. Falta(p)' => f = "asigna"
    BY <1>5 DEF Falta, Dentro
  <2>. QED BY <1>1, <1>4, <2>1 DEF Falta
<1>7. /\ TLB' = Quita(TLB, <<q, i>>) /\ config' = config /\ tabla_de_paginas' = tabla_de_paginas
      /\ pagina' = pagina
  BY <1>2 DEF QuitaDeTLB
<1>8. /\ TLB' \in Seq(Pids \X Ids) /\ IsInjective(TLB') /\ Len(TLB') <= Len(TLB)
      /\ Range(TLB') \subseteq Range(TLB) /\ <<q, i>> \notin Range(TLB')
  <2>1. PICK s, u, e, E : s = TLB /\ u = TLB' /\ e = <<q, i>> /\ E = Pids \X Ids
    OBVIOUS
  <2>2. s \in Seq(E) /\ IsInjective(s) /\ u = Quita(s, e)
    BY <1>7, <2>1 DEF TLBBien
  <2>3. u \in Seq(E) /\ IsInjective(u) /\ Len(u) <= Len(s) /\ Range(u) \subseteq Range(s) /\ e \notin Range(u)
    BY <2>2, QuitaEs
  <2>. QED BY <2>1, <2>3
<1>9. Len(TLB') <= cantidadEntradasTLB
  <2>1. cantidadEntradasTLB \in Nat
    BY PaginacionOK DEF ITipos, TiposPag, cantidadEntradasTLB
  <2>2. PICK a, b, c : a = Len(TLB') /\ b = Len(TLB) /\ c = cantidadEntradasTLB
    OBVIOUS
  <2>3. a \in Nat /\ b \in Nat /\ c \in Nat /\ a <= b /\ b <= c
    BY <1>8, <2>1, <2>2 DEF TLBBien
  <2>4. a <= c
    BY <2>3
  <2>. QED BY <2>2, <2>4
<1>10. \A r \in Pids, j \in Ids :
         EnTLB(r, j)' => EnTLB(r, j) /\ j \in PaginasDe(r)' /\ (r # q \/ j # i)
  BY <1>7, <1>8 DEF TLBBien, EntradaBien, PaginasDe, EnTLB
<1>11. FueraDeTLB(p)'
  <2>1. FueraDeTLB(p)
    BY DEF TLBBien
  <2>2. \A j \in Range(hilo[p].nuevas) : j \in Ids
    <3>1. hilo[p].nuevas \in Seq(Ids)
      BY Locales
    <3>. QED BY <3>1 DEF Range
  <2>3. Falta(p) => hilo[p].pag \in Ids
    BY VisitaEs DEF Visita
  <2>4. hilo'[p].fase \notin {"agrega", "copia"}
    BY <1>5
  <2>5. Falta(p)' => <<p, hilo[p].pag>> \notin Range(TLB')
    BY <1>6, <1>10, <2>1, <2>3 DEF FueraDeTLB, EnTLB
  <2>6. \A j \in Range(hilo[p].nuevas) : ~EnTLB(p, j)'
    BY <1>10, <2>1, <2>2 DEF FueraDeTLB
  <2>. QED BY <1>5, <2>4, <2>5, <2>6 DEF FueraDeTLB, EnTLB
<1>12. \A r \in Pids, j \in Ids :
         hilo[p].victima = <<r, j>> => r = q /\ j = i
  BY <1>2
<1>. QED BY <1>5, <1>7, <1>8, <1>9, <1>10, <1>11, <1>12, TLBPaso

\* A page that takes a frame is not in the TLB yet.
LEMMA TLBAsignaMarco ==
  ASSUME ITipos, TLBBien, NEW p \in Pids,
         AsignaMarco(p) \/ EscribePagina(p) \/ EscribeTrasDesalojar(p)
  PROVE  TLBBien'
<1>1. \A q \in Pids, i \in Ids : pagina[q][i].presente => pagina'[q][i].presente
  <2>1. CASE AsignaMarco(p)
    <3>1. PICK i \in Ids, m \in Marcos : i = hilo[p].pag /\ m = hilo[p].marco
      BY <2>1, FotoAsigna
    <3>2. PICK x : x = [presente |-> TRUE, marco |-> m, modificado |-> FALSE, uso |-> TRUE]
      OBVIOUS
    <3>3. PaginaCambia(p, i, x) /\ x.presente = TRUE
      BY <2>1, <3>1, <3>2, FotoAsigna
    <3>4. TAKE q \in Pids, j \in Ids
    <3>5. CASE q = p /\ j = i
      BY <3>3, <3>5 DEF PaginaCambia
    <3>6. CASE q # p \/ j # i
      BY <3>3, <3>6 DEF PaginaCambia
    <3>. QED BY <3>5, <3>6
  <2>2. CASE EscribePagina(p) \/ EscribeTrasDesalojar(p)
    <3>1. PICK m \in Marcos : EscribeEn(p, m) /\ hilo[p].pag < Len(hilo[p].nuevas)
      BY <2>2, EscribeEnAlguno
    <3>2. PICK i \in Ids :
            \/ \E x \in TipoDePagina : PaginaCambia(p, i, x) /\ x.presente = TRUE
            \/ pagina' = pagina
      BY <3>1, FotoEscribe
    <3>3. TAKE q \in Pids, j \in Ids
    <3>4. CASE pagina' = pagina
      BY <3>4
    <3>5. ASSUME NEW x \in TipoDePagina, PaginaCambia(p, i, x), x.presente = TRUE
          PROVE  pagina[q][j].presente => pagina'[q][j].presente
      <4>1. CASE q = p /\ j = i
        BY <3>5, <4>1 DEF PaginaCambia
      <4>2. CASE q # p \/ j # i
        BY <3>5, <4>2 DEF PaginaCambia
      <4>. QED BY <4>1, <4>2
    <3>. QED BY <3>2, <3>4, <3>5
  <2>. QED BY <2>1, <2>2
<1>2. /\ config' = config /\ TLB' = TLB /\ tabla_de_paginas' = tabla_de_paginas
      /\ hilo[p].fase # "quita"
  BY DEF AsignaMarco, EscribePagina, EscribeTrasDesalojar, EscribeEn
<1>3. /\ \A q \in Pids \ {p} : hilo'[q] = hilo[q]
      /\ \/ hilo'[p].fase \in {"escribe", "ocupa"}
         \/ hilo[p].fase = "asigna" /\ hilo'[p].fase = "copia" /\ hilo'[p].pag = hilo[p].pag
      /\ hilo'[p].nuevas = hilo[p].nuevas
  <2>1. CASE AsignaMarco(p)
    <3>1. hilo[p].fase = "asigna"
      BY <2>1 DEF AsignaMarco
    <3>. QED BY <2>1, <3>1, TiposAsignaMarco DEF Pasa
  <2>2. CASE EscribePagina(p) \/ EscribeTrasDesalojar(p)
    <3>1. PICK f \in {"ocupa", "escribe"}, n \in Marcos \cup {SinMarco} :
            Pasa(p, f, hilo[p].pedido, hilo[p].pag + 1, hilo[p].vuelve,
                 hilo[p].victima, n, hilo[p].lista, hilo[p].nuevas, hilo[p].visitadas)
      BY <2>2, TiposEscribe
    <3>. QED BY <3>1 DEF Pasa
  <2>. QED BY <2>1, <2>2
<1>4. ~Falta(p)' /\ (hilo[p].fase = "asigna" => Falta(p))
  BY <1>3 DEF Falta, Dentro
<1>5. FueraDeTLB(p)'
  BY <1>2, <1>3, <1>4, FueraQueda
<1>. QED BY <1>1, <1>2, <1>3, <1>5, TLBQuieta

\* A new page is not in the TLB.
LEMMA TLBCreaPaginas ==
  ASSUME ITipos, TLBBien, NEW p \in Pids, NEW n \in 1..MaxPaginas, CreaPaginas(p, n)
  PROVE  TLBBien'
<1>1. PICK ids : ids = generadorIdsPaginas(p, n)
  OBVIOUS
<1>2. PICK f \in {"empieza", "buscaMarcos"}, l \in Seq(Marcos) :
        Pasa(p, f, "alojado", hilo[p].pag, hilo[p].vuelve, hilo[p].victima, hilo[p].marco,
             l, ids, hilo[p].visitadas)
  BY <1>1, TiposCreaPaginas
<1>3. PICK u : u = tabla_de_paginas[p] \o ids
  OBVIOUS
<1>4. /\ ids \in Seq(Ids) /\ Range(ids) \cap PaginasDe(p) = {}
      /\ Range(u) = PaginasDe(p) \cup Range(ids)
  <2>1. contadorPag[p] + n <= MaxPaginas
    BY DEF CreaPaginas
  <2>. QED BY <1>1, <1>3, <2>1, NuevasEs
<1>5. /\ \A q \in Pids : PaginasDe(q) \subseteq PaginasDe(q)'
      /\ \A q \in Pids, i \in Ids : i \in PaginasDe(q) => pagina'[q][i] = pagina[q][i]
  <2>1. /\ tabla_de_paginas \in [Pids -> Seq(Ids)] /\ pagina \in [Pids -> [Ids -> TipoDePagina]]
    BY DEF ITipos, TiposPag
  <2>2. /\ tabla_de_paginas' = [tabla_de_paginas EXCEPT ![p] = @ \o ids]
        /\ pagina' = [pagina EXCEPT ![p] =
                        [i \in Ids |-> IF i \in Range(ids) THEN pagina_nueva ELSE pagina[p][i]]]
    BY <1>1 DEF CreaPaginas
  <2>3. /\ \A q \in Pids \ {p} : tabla_de_paginas'[q] = tabla_de_paginas[q] /\ pagina'[q] = pagina[q]
        /\ tabla_de_paginas'[p] = u
        /\ \A i \in Ids : i \notin Range(ids) => pagina'[p][i] = pagina[p][i]
    BY <1>3, <2>1, <2>2
  <2>4. PaginasDe(p)' = PaginasDe(p) \cup Range(ids)
    BY <1>4, <2>3 DEF PaginasDe
  <2>. QED BY <1>4, <2>3, <2>4 DEF PaginasDe
<1>6. /\ \A q \in Pids \ {p} : hilo'[q] = hilo[q]
      /\ hilo'[p].fase = f /\ hilo'[p].nuevas = ids
      /\ hilo[p].fase = "recorre" /\ config' = config /\ TLB' = TLB
  BY <1>2 DEF Pasa, CreaPaginas
<1>7. \A q \in Pids, i \in Ids : (EnTLB(q, i)' <=> EnTLB(q, i)) /\ (EnTLB(q, i) => i \in PaginasDe(q))
  BY <1>6 DEF TLBBien, EntradaBien, EnTLB
<1>8. FueraDeTLB(p)'
  <2>1. ~Falta(p)' /\ hilo'[p].fase \notin {"agrega", "copia"}
    BY <1>6 DEF Falta, Dentro
  <2>2. \A i \in Range(ids) : i \in Ids /\ i \notin PaginasDe(p)
    BY <1>4 DEF Range
  <2>. QED BY <1>6, <1>7, <2>1, <2>2 DEF FueraDeTLB
<1>9. TLB' \in Seq(Pids \X Ids) /\ IsInjective(TLB') /\ Len(TLB') <= cantidadEntradasTLB
  BY <1>6 DEF TLBBien
<1>. QED BY <1>5, <1>6, <1>7, <1>8, <1>9, TLBPaso

\* A new page enters the TLB, present or not at all.
LEMMA TLBAgregaNueva ==
  ASSUME ITipos, TLBBien, NEW p \in Pids, AgregaNueva(p), fallas' = {}
  PROVE  TLBBien'
<1>1. hilo[p].fase = "agregaNuevas" /\ FueraDeTLB(p)
  BY DEF AgregaNueva, TLBBien
<1>2. PICK s \in Seq(Ids) :
        s = hilo[p].nuevas /\ s # <<>> /\ IsInjective(s) /\ Range(s) \subseteq PaginasDe(p)
  <2>1. hilo[p].nuevas \in Seq(Ids)
    BY Locales
  <2>. QED BY <1>1, <2>1 DEF ITipos, Forma
<1>3. PICK i \in Ids :
        /\ i = Head(s) /\ i \in PaginasDe(p) /\ i \notin Range(Tail(s)) /\ i \in Range(s)
        /\ Range(Tail(s)) \subseteq Range(s) /\ Tail(s) \in Seq(Ids)
  BY <1>2, ColaEs
<1>4. pagina[p][i].presente \in BOOLEAN
  <2>1. pagina[p][i] \in TipoDePagina
    BY DEF ITipos, TiposPag
  <2>. QED BY <2>1 DEF TipoDePagina
<1>5. PICK f \in {"recorre", "agregaNuevas"} :
        Pasa(p, f, hilo[p].pedido, hilo[p].pag, hilo[p].vuelve, hilo[p].victima,
             hilo[p].marco, hilo[p].lista, Tail(hilo[p].nuevas), hilo[p].visitadas)
  BY TiposAgregaNueva
<1>6. /\ TLB' \in algoritmo_reemplazo_TLB(TLB, <<p, i>>, pagina[p][i].presente)
      /\ cantidadEntradasTLB # 0 /\ Len(TLB) = cantidadEntradasTLB => pagina[p][i].presente
      /\ config' = config /\ tabla_de_paginas' = tabla_de_paginas /\ pagina' = pagina
  BY <1>2, <1>3 DEF AgregaNueva, EntraAusente
<1>7. /\ TLB \in Seq(Pids \X Ids) /\ IsInjective(TLB) /\ Len(TLB) <= cantidadEntradasTLB
      /\ <<p, i>> \notin Range(TLB) /\ <<p, i>> \in Pids \X Ids
  BY <1>1, <1>2, <1>3 DEF TLBBien, FueraDeTLB, EnTLB
<1>8. /\ TLB' \in Seq(Pids \X Ids) /\ IsInjective(TLB') /\ Len(TLB') <= cantidadEntradasTLB
      /\ Range(TLB') \subseteq Range(TLB) \cup {<<p, i>>}
      /\ <<p, i>> \in Range(TLB') =>
           pagina[p][i].presente \/ (cantidadEntradasTLB # 0 /\ Len(TLB) = cantidadEntradasTLB)
  <2>1. PICK z, u, e, b : z = TLB /\ u = TLB' /\ e = <<p, i>> /\ b = pagina[p][i].presente
    OBVIOUS
  <2>2. /\ z \in Seq(Pids \X Ids) /\ IsInjective(z) /\ Len(z) <= cantidadEntradasTLB
        /\ e \in Pids \X Ids /\ e \notin Range(z) /\ b \in BOOLEAN
        /\ u \in algoritmo_reemplazo_TLB(z, e, b)
    BY <1>4, <1>6, <1>7, <2>1
  <2>3. /\ u \in Seq(Pids \X Ids) /\ IsInjective(u) /\ Len(u) <= cantidadEntradasTLB
        /\ Range(u) \subseteq Range(z) \cup {e}
        /\ e \in Range(u) => b \/ (cantidadEntradasTLB # 0 /\ Len(z) = cantidadEntradasTLB)
    BY <2>2, ReemplazoTLBEs
  <2>. QED BY <2>1, <2>3
<1>9. /\ \A q \in Pids \ {p} : hilo'[q] = hilo[q]
      /\ hilo'[p].fase = f /\ hilo'[p].nuevas = Tail(s)
  BY <1>2, <1>5 DEF Pasa
<1>10. ASSUME NEW q \in Pids, NEW j \in Ids, EnTLB(q, j)'
       PROVE  EnTLB(q, j) \/ (q = p /\ j = i /\ pagina[p][i].presente)
  <2>1. <<q, j>> \in Range(TLB) \/ <<q, j>> = <<p, i>>
    BY <1>8, <1>10 DEF EnTLB
  <2>2. CASE <<q, j>> = <<p, i>>
    <3>1. q = p /\ j = i
      BY <2>2
    <3>. QED BY <1>6, <1>8, <1>10, <3>1 DEF EnTLB
  <2>. QED BY <2>1, <2>2 DEF EnTLB
<1>11. FueraDeTLB(p)'
  <2>1. \A j \in Range(Tail(s)) : j \in Ids /\ j # i /\ ~EnTLB(p, j)
    <3>1. \A j \in Range(Tail(s)) : j \in Ids
      BY <1>3 DEF Range
    <3>. QED BY <1>1, <1>2, <1>3, <3>1 DEF FueraDeTLB
  <2>2. ~Falta(p)' /\ hilo'[p].fase \notin {"agrega", "copia"}
    BY <1>9 DEF Falta, Dentro
  <2>3. \A j \in Range(hilo'[p].nuevas) : ~EnTLB(p, j)'
    BY <1>9, <1>10, <2>1
  <2>. QED BY <2>2, <2>3 DEF FueraDeTLB, EnTLB
<1>12. \A q \in Pids, j \in Ids : EnTLB(q, j) => j \in PaginasDe(q)'
  BY <1>6 DEF TLBBien, EntradaBien, PaginasDe
<1>13. \A q \in Pids, j \in Ids : EnTLB(q, j)' =>
         /\ EnTLB(q, j) \/ (q = p /\ EntradaBien(p, j)')
         /\ EnTLB(q, j) =>
              /\ j \in PaginasDe(q)'
              /\ pagina[q][j].presente \/ (hilo[p].fase = "quita" /\ hilo[p].victima = <<q, j>>) =>
                   pagina'[q][j].presente \/ Saliendo(q, j)'
  <2>1. PaginasDe(p)' = PaginasDe(p)
    BY <1>6 DEF PaginasDe
  <2>2. pagina[p][i].presente => EntradaBien(p, i)'
    BY <1>3, <1>6, <2>1 DEF EntradaBien
  <2>. QED BY <1>1, <1>6, <1>10, <1>12, <2>2
<1>. QED BY <1>6, <1>8, <1>9, <1>11, <1>13, TLBPaso

\* The pages of a carpincho leave the TLB with the carpincho.
LEMMA TLBCierraTLB ==
  ASSUME ITipos, TLBBien, NEW p \in Pids, CierraTLB(p) \/ LiberaTodo(p)
  PROVE  TLBBien'
<1>1. /\ TLB' = SinLasDe(TLB, p) /\ config' = config
      /\ tabla_de_paginas' = [tabla_de_paginas EXCEPT ![p] = <<>>]
      /\ pagina' = [pagina EXCEPT ![p] = [i \in Ids |-> pagina_nueva]]
      /\ hilo[p].fase # "quita"
  BY DEF CierraTLB, LiberaTodo
<1>2. /\ \A q \in Pids \ {p} : pagina'[q] = pagina[q] /\ tabla_de_paginas'[q] = tabla_de_paginas[q]
  BY <1>1, PaginasNuevas
<1>3. /\ TLB' \in Seq(Pids \X Ids) /\ IsInjective(TLB') /\ Len(TLB') <= Len(TLB)
      /\ Range(TLB') = {e \in Range(TLB) : e[1] # p}
  <2>1. PICK s, u : s = TLB /\ u = TLB'
    OBVIOUS
  <2>2. s \in Seq(Pids \X Ids) /\ IsInjective(s) /\ u = SinLasDe(s, p)
    BY <1>1, <2>1 DEF TLBBien
  <2>3. /\ u \in Seq(Pids \X Ids) /\ IsInjective(u) /\ Len(u) <= Len(s)
        /\ Range(u) = {e \in Range(s) : e[1] # p}
    BY <2>2, SinLasDeEs
  <2>. QED BY <2>1, <2>3
<1>4. Len(TLB') <= cantidadEntradasTLB
  <2>1. cantidadEntradasTLB \in Nat
    BY PaginacionOK DEF ITipos, TiposPag, cantidadEntradasTLB
  <2>2. PICK a, b, c : a = Len(TLB') /\ b = Len(TLB) /\ c = cantidadEntradasTLB
    OBVIOUS
  <2>3. a \in Nat /\ b \in Nat /\ c \in Nat /\ a <= b /\ b <= c
    BY <1>3, <2>1, <2>2 DEF TLBBien
  <2>4. a <= c
    BY <2>3
  <2>. QED BY <2>2, <2>4
<1>5. \A q \in Pids, j \in Ids : EnTLB(q, j)' => EnTLB(q, j) /\ q # p
  <2>1. TAKE q \in Pids, j \in Ids
  <2>2. HAVE EnTLB(q, j)'
  <2>3. <<q, j>> \in Range(TLB) /\ <<q, j>>[1] # p
    BY <1>3, <2>2 DEF EnTLB
  <2>. QED BY <2>3 DEF EnTLB
<1>6. \A q \in Pids, j \in Ids : EnTLB(q, j) /\ q # p => j \in PaginasDe(q)'
  BY <1>2 DEF TLBBien, EntradaBien, PaginasDe
<1>7. /\ \A q \in Pids \ {p} : hilo'[q] = hilo[q]
      /\ hilo'[p].fase \in {"libre", "fin"} /\ hilo'[p].nuevas = <<>>
  <2>1. CASE CierraTLB(p)
    BY <2>1, TiposCierraTLB DEF Pasa
  <2>2. CASE LiberaTodo(p)
    BY <2>2, TiposLiberaTodo DEF Pasa
  <2>. QED BY <2>1, <2>2
<1>8. FueraDeTLB(p)'
  <2>1. Range(<<>>) = {}
    BY DEF Range
  <2>. QED BY <1>7, <2>1 DEF FueraDeTLB, Falta, Dentro
<1>. QED BY <1>1, <1>2, <1>3, <1>4, <1>5, <1>6, <1>7, <1>8, TLBPaso

\* Steps that change neither TLB, page, table nor local.
LEMMA TLBIgual ==
  ASSUME TLBBien, UNCHANGED <<config, TLB, pagina, tabla_de_paginas, hilo>>
  PROVE  TLBBien'
<1>1. cantidadEntradasTLB' = cantidadEntradasTLB
  BY DEF cantidadEntradasTLB
<1>2. ASSUME NEW q \in Pids, NEW i \in Ids, EnTLB(q, i)' PROVE EntradaBien(q, i)'
  <2>1. EntradaBien(q, i)
    BY <1>2 DEF TLBBien, EnTLB
  <2>. QED BY <2>1 DEF EntradaBien, Saliendo, PaginasDe
<1>3. ASSUME NEW t \in Pids PROVE FueraDeTLB(t)'
  <2>1. FueraDeTLB(t)
    BY DEF TLBBien
  <2>. QED BY <2>1 DEF FueraDeTLB, EnTLB, Falta, Dentro
<1>. QED BY <1>1, <1>2, <1>3 DEF TLBBien

\* An empty TLB is as it must be.
LEMMA TLBVacia ==
  ASSUME ITipos, TLB = <<>>
  PROVE  TLBBien
<1>1. /\ Range(<<>>) = {} /\ IsInjective(<<>>) /\ <<>> \in Seq(Pids \X Ids) /\ Len(<<>>) = 0
  BY ListaVacia DEF Range, IsInjective
<1>2. cantidadEntradasTLB \in Nat
  BY PaginacionOK DEF ITipos, TiposPag, cantidadEntradasTLB
<1>3. 0 <= cantidadEntradasTLB
  BY <1>2
<1>4. \A q, i : ~EnTLB(q, i)
  BY <1>1 DEF EnTLB
<1>. QED BY <1>1, <1>3, <1>4 DEF TLBBien, FueraDeTLB

\* Every step keeps the TLB as it must be, unless it brings a fault.
LEMMA TLBCadaPaso ==
  ASSUME ITipos, ITLB, [Next]_vars
  PROVE  ITLB'
<1>. SUFFICES ASSUME fallas' = {} PROVE TLBBien'
  BY DEF ITLB
<1>1. CASE UNCHANGED vars
  BY <1>1, TLBIgual DEF ITLB, vars
<1>2. CASE LimpiaTLB
  <2>1. ITipos' /\ TLB' = <<>>
    BY <1>2, TiposPaso DEF Next, LimpiaTLB
  <2>2. /\ Range(<<>>) = {} /\ IsInjective(<<>>) /\ <<>> \in Seq(Pids \X Ids) /\ Len(<<>>) = 0
    BY ListaVacia DEF Range, IsInjective
  <2>3. cantidadEntradasTLB' \in Nat
    BY <2>1, PaginacionOK DEF ITipos, TiposPag, cantidadEntradasTLB
  <2>4. 0 <= cantidadEntradasTLB'
    BY <2>3
  <2>5. \A q, i : ~EnTLB(q, i)'
    BY <2>1, <2>2 DEF EnTLB
  <2>. QED BY <2>1, <2>2, <2>4, <2>5 DEF TLBBien, FueraDeTLB, EnTLB
<1>3. ASSUME NEW p \in Pids, NEW pedido \in {"acceso", "libera"}, Pide(p, pedido)
      PROVE  TLBBien'
  BY <1>3, TLBInicializa DEF ITLB, Pide, Puede, Sigue
<1>4. ASSUME NEW p \in Pids, NEW i \in Ids, Accede(p, i) \/ FundeCabecera(p, i)
      PROVE  TLBBien'
  <2>1. CASE Accede(p, i)
    BY <2>1, TLBAccede DEF ITLB, Accede, Sigue
  <2>2. CASE FundeCabecera(p, i)
    BY <2>2, TLBIgual DEF ITLB, FundeCabecera, Sigue
  <2>. QED BY <1>4, <2>1, <2>2
<1>5. ASSUME NEW p \in Pids,
             Inicializa(p) \/ AgregaATLB(p) \/ Usa(p) \/ LiberaTodo(p) \/ Termina(p) \/ Suspende(p)
      PROVE  TLBBien'
  <2>1. TLBBien
    BY <1>5 DEF ITLB, Inicializa, AgregaATLB, Usa, LiberaTodo, Termina, Suspende, Puede, Sigue
  <2>2. CASE Suspende(p)
    BY <2>1, <2>2, TLBIgual DEF Suspende
  <2>. QED BY <1>5, <2>1, <2>2, TLBInicializa, TLBAgregaATLB, TLBUsa, TLBCierraTLB
<1>6. ASSUME NEW p \in Pids, Reemplaza(p) PROVE TLBBien'
  <2>1. TLBBien
    BY <1>6 DEF ITLB, Reemplaza, NoHayVictima, EligeVictimaLRU, EligeVictimaClock, SacaVictima,
                QuitaDeTLB, AsignaMarco, CopiaPagina, Sigue
  <2>2. CASE NoHayVictima(p)
    BY <2>1, <2>2, TLBIgual DEF NoHayVictima
  <2>. QED BY <1>6, <2>1, <2>2, TLBElige, TLBSacaVictima, TLBQuitaDeTLB, TLBAsignaMarco, TLBUsa
       DEF Reemplaza
<1>7. ASSUME NEW p \in Pids, Aloja(p) PROVE TLBBien'
  <2>1. fallas = {}
    BY <1>7 DEF Aloja, PideAlloc, ReservaFija, CreaPaginas, buscarMarcosLibres, EmpiezaAEscribir,
                EscribePagina, NoHayMarco, EscribeTrasDesalojar, OcupaMarco, TerminaDeEscribir,
                AgregaNueva, Puede, Sigue
  <2>2. TLBBien
    BY <2>1 DEF ITLB
  <2>3. CASE NoHayMarco(p)
    BY <2>2, <2>3, TLBIgual DEF NoHayMarco
  <2>. QED BY <1>7, <2>2, <2>3, TLBInicializa, TLBUsa, TLBCreaPaginas, TLBAsignaMarco,
              TLBAgregaNueva DEF Aloja
<1>8. ASSUME NEW p \in Pids, Cierra(p) PROVE TLBBien'
  <2>1. TLBBien
    BY <1>8 DEF ITLB, Cierra, BuscaMarcosALiberar, CierraMarcos, CierraLista, ListaCorta,
                CierraSwap, CierraTLB, Puede, Sigue
  <2>2. CASE ListaCorta(p)
    BY <2>1, <2>2, TLBIgual DEF ListaCorta
  <2>. QED BY <1>8, <2>1, <2>2, TLBInicializa, TLBCierraTLB DEF Cierra
<1>. QED BY <1>1, <1>2, <1>3, <1>4, <1>5, <1>6, <1>7, <1>8 DEF Next

\* TLBCoherente, whatever the number of carpinchos, pages and entries.
THEOREM TLBDeLaMemoria == Spec => []TLBCoherente
<1>1. Init => ITipos /\ ITLB
  <2>1. Init => TLB = <<>>
    BY DEF Init
  <2>. QED BY <2>1, TiposInit, TLBVacia DEF ITLB
<1>2. ITipos /\ ITLB /\ [Next]_vars => ITipos' /\ ITLB'
  BY TiposPaso, TLBCadaPaso
<1>3. ITipos /\ ITLB => TLBCoherente
  <2>. SUFFICES ASSUME ITipos, TLBBien
                PROVE  /\ IsInjective(TLB) /\ Len(TLB) <= cantidadEntradasTLB
                       /\ \A e \in Range(TLB) :
                            \/ e[2] \in Presentes(e[1])
                            \/ \E q \in Pids : hilo[q].fase = "quita" /\ hilo[q].victima = e
    BY DEF ITLB, TLBCoherente
  <2>1. ASSUME NEW e \in Range(TLB)
        PROVE  \/ e[2] \in Presentes(e[1])
               \/ \E q \in Pids : hilo[q].fase = "quita" /\ hilo[q].victima = e
    <3>1. e \in Pids \X Ids
      <4>1. TLB \in Seq(Pids \X Ids)
        BY DEF TLBBien
      <4>. QED BY <4>1 DEF Range
    <3>2. PICK q \in Pids, i \in Ids : e = <<q, i>>
      BY <3>1
    <3>3. EntradaBien(q, i)
      BY <3>2 DEF TLBBien, EnTLB
    <3>4. e[1] = q /\ e[2] = i
      BY <3>2
    <3>. QED BY <3>2, <3>3, <3>4 DEF EntradaBien, Saliendo, Presentes
  <2>. QED BY <2>1 DEF TLBBien
<1>. QED BY <1>1, <1>2, <1>3, PTL DEF Spec

-----------------------------------------------------------------------------
(* What the pages hold.                                                    *)

\* The page has its frame and its content has not been copied yet.
EnCopia(p, i) == hilo[p].fase = "copia" /\ hilo[p].pag = i

\* What a page holds: its frame if it is present, and the swap if it is not, or
\* has not changed since.
AlDia(p, i) ==
  ~Pendiente(p, i) =>
    /\ pagina[p][i].presente /\ ~EnCopia(p, i) => memoriaPrincipal[pagina[p][i].marco] = <<p, i>>
    /\ ~pagina[p][i].presente \/ ~pagina[p][i].modificado => guardado[p][i] = <<p, i>>

\* What a thread has out of the memory: the victim it will store, or the page
\* it has asked for.
Copiada(t) ==
  /\ LET q == hilo[t].victima[1]
         i == hilo[t].victima[2]
     IN hilo[t].fase = "saca" /\ pagina[q][i].modificado => copia[t] = <<q, i>>
  /\ hilo[t].fase \in {"asigna", "copia"} => copia[t] = <<t, hilo[t].pag>>
  /\ hilo[t].fase = "copia" => ~pagina[t][hilo[t].pag].modificado

\* A victim that may still be found in the TLB is whole in the frame it had.
Salida(t) ==
  LET q == hilo[t].victima[1]
      i == hilo[t].victima[2]
  IN
  hilo[t].fase = "quita" =>
    /\ pagina[q][i].marco = hilo[t].marco
    /\ ~EnCopia(q, i) => memoriaPrincipal[hilo[t].marco] = <<q, i>>
    /\ ~Pendiente(q, i) /\ ~(hilo[q].fase = "asigna" /\ hilo[q].pag = i)

ContenidoBien ==
  /\ \A p \in Abiertos : \A i \in PaginasDe(p) : AlDia(p, i)
  /\ \A t \in Pids : Copiada(t) /\ Salida(t)

IContenido == fallas = {} => ContenidoBien

\* What a page holds stays, if nothing of it changes.
LEMMA AlDiaQueda ==
  ASSUME NEW q, NEW i, AlDia(q, i), Pendiente(q, i) => Pendiente(q, i)',
         EnCopia(q, i) => EnCopia(q, i)',
         pagina'[q][i].presente = pagina[q][i].presente,
         pagina'[q][i].marco = pagina[q][i].marco,
         pagina'[q][i].modificado = pagina[q][i].modificado,
         guardado'[q][i] = guardado[q][i],
         pagina[q][i].presente /\ memoriaPrincipal[pagina[q][i].marco] = <<q, i>> =>
           memoriaPrincipal'[pagina[q][i].marco] = <<q, i>>
  PROVE  AlDia(q, i)'
<1>. SUFFICES ASSUME ~Pendiente(q, i)'
              PROVE  /\ pagina'[q][i].presente /\ ~EnCopia(q, i)' =>
                          memoriaPrincipal'[pagina'[q][i].marco] = <<q, i>>
                     /\ ~pagina'[q][i].presente \/ ~pagina'[q][i].modificado =>
                          guardado'[q][i] = <<q, i>>
  BY DEF AlDia
<1>1. /\ pagina[q][i].presente /\ ~EnCopia(q, i) => memoriaPrincipal[pagina[q][i].marco] = <<q, i>>
      /\ ~pagina[q][i].presente \/ ~pagina[q][i].modificado => guardado[q][i] = <<q, i>>
  BY DEF AlDia
<1>. QED BY <1>1

\* A step of p that leaves the memory, by page and by thread.
LEMMA ContenidoPaso ==
  ASSUME ITipos, ContenidoBien, NEW p \in Pids, \A q \in Pids \ {p} : hilo'[q] = hilo[q],
         memoriaPrincipal' = memoriaPrincipal,
         \A q \in Pids \ {p} : copia'[q] = copia[q],
         hilo[p].fase # "copia",
         hilo'[p].fase = "asigna" => \A t \in Pids \ {p} : hilo[t].fase # "quita",
         \A q \in Abiertos' : \A i \in PaginasDe(q)' :
           \/ AlDia(q, i)'
           \/ /\ q \in Abiertos /\ i \in PaginasDe(q)
              /\ pagina'[q][i].presente = pagina[q][i].presente
              /\ pagina'[q][i].marco = pagina[q][i].marco
              /\ pagina'[q][i].modificado = pagina[q][i].modificado
              /\ guardado'[q][i] = guardado[q][i]
              /\ Pendiente(q, i) => Pendiente(q, i)',
         \A t \in Pids \ {p}, q \in Pids, i \in Ids :
           hilo[t].fase \in {"saca", "quita"} /\ hilo[t].victima = <<q, i>> =>
             /\ pagina'[q][i].marco = pagina[q][i].marco
             /\ pagina'[q][i].modificado = pagina[q][i].modificado
             /\ Pendiente(q, i)' => Pendiente(q, i),
         \A t \in Pids \ {p} : hilo[t].fase = "copia" =>
           pagina'[t][hilo[t].pag].modificado = pagina[t][hilo[t].pag].modificado,
         Copiada(p)', Salida(p)'
  PROVE  ContenidoBien'
<1>1. \A q \in Pids, i \in Ids : EnCopia(q, i) => EnCopia(q, i)'
  BY DEF EnCopia
<1>2. ASSUME NEW q \in Abiertos', NEW i \in PaginasDe(q)' PROVE AlDia(q, i)'
  <2>1. CASE AlDia(q, i)'
    BY <2>1
  <2>2. CASE ~AlDia(q, i)'
    <3>1. /\ q \in Abiertos /\ i \in PaginasDe(q)
          /\ pagina'[q][i].presente = pagina[q][i].presente
          /\ pagina'[q][i].marco = pagina[q][i].marco
          /\ pagina'[q][i].modificado = pagina[q][i].modificado
          /\ guardado'[q][i] = guardado[q][i]
          /\ Pendiente(q, i) => Pendiente(q, i)'
      BY <2>2
    <3>2. AlDia(q, i)
      BY <3>1 DEF ContenidoBien
    <3>3. q \in Pids /\ i \in Ids
      BY <3>1, PaginasSon DEF Abiertos
    <3>4. EnCopia(q, i) => EnCopia(q, i)'
      BY <1>1, <3>3
    <3>. QED BY <3>1, <3>2, <3>4, AlDiaQueda
  <2>. QED BY <2>1, <2>2
<1>3. ASSUME NEW t \in Pids, t # p PROVE Copiada(t)' /\ Salida(t)'
  <2>1. Copiada(t) /\ Salida(t) /\ hilo'[t] = hilo[t] /\ copia'[t] = copia[t]
    BY <1>3 DEF ContenidoBien
  <2>2. CASE hilo[t].fase \notin {"saca", "quita"}
    <3>1. Copiada(t)'
      BY <1>3, <2>1, <2>2 DEF Copiada
    <3>. QED BY <2>1, <2>2, <3>1 DEF Salida
  <2>3. CASE hilo[t].fase \in {"saca", "quita"}
    <3>1. PICK q \in Pids, i \in Ids : hilo[t].victima = <<q, i>>
      BY <2>3, DentroEs DEF Dentro
    <3>2. /\ pagina'[q][i].marco = pagina[q][i].marco
          /\ pagina'[q][i].modificado = pagina[q][i].modificado
          /\ Pendiente(q, i)' => Pendiente(q, i)
      BY <1>3, <2>3, <3>1
    <3>3. Copiada(t)'
      BY <2>1, <2>3, <3>1, <3>2 DEF Copiada
    <3>4. Salida(t)'
      <4>1. CASE hilo[t].fase # "quita"
        BY <2>1, <4>1 DEF Salida
      <4>2. CASE hilo[t].fase = "quita"
        <5>1. /\ pagina[q][i].marco = hilo[t].marco
              /\ ~EnCopia(q, i) => memoriaPrincipal[hilo[t].marco] = <<q, i>>
              /\ ~Pendiente(q, i) /\ ~(hilo[q].fase = "asigna" /\ hilo[q].pag = i)
          BY <2>1, <3>1, <4>2 DEF Salida
        <5>2. ~(hilo'[q].fase = "asigna" /\ hilo'[q].pag = i)
          <6>1. CASE q = p
            BY <1>3, <4>2, <6>1
          <6>2. CASE q # p
            BY <5>1, <6>2
          <6>. QED BY <6>1, <6>2
        <5>3. ~EnCopia(q, i)' => ~EnCopia(q, i)
          BY <1>1
        <5>. QED BY <2>1, <3>1, <3>2, <5>1, <5>2, <5>3 DEF Salida
      <4>. QED BY <4>1, <4>2
    <3>. QED BY <3>3, <3>4
  <2>. QED BY <2>2, <2>3
<1>4. \A t \in Pids : Copiada(t)' /\ Salida(t)'
  BY <1>3
<1>. QED BY <1>2, <1>4 DEF ContenidoBien

\* A step of p that leaves memory, swap and pages.
LEMMA ContenidoQuieto ==
  ASSUME ITipos, ContenidoBien, NEW p \in Pids, \A q \in Pids \ {p} : hilo'[q] = hilo[q],
         memoriaPrincipal' = memoriaPrincipal, copia' = copia, guardado' = guardado,
         tabla_de_paginas' = tabla_de_paginas,
         \A q \in Pids, i \in Ids :
           /\ pagina'[q][i].presente = pagina[q][i].presente
           /\ pagina'[q][i].marco = pagina[q][i].marco
           /\ pagina'[q][i].modificado = pagina[q][i].modificado,
         hilo[p].fase # "copia", hilo'[p].fase \notin {"saca", "quita", "asigna", "copia"},
         p \in Abiertos' => p \in Abiertos,
         \A i \in Ids : Pendiente(p, i)' <=> Pendiente(p, i)
  PROVE  ContenidoBien'
<1>1. Copiada(p)' /\ Salida(p)'
  BY DEF Copiada, Salida
<1>2. \A q \in Pids, i \in Ids : Pendiente(q, i)' <=> Pendiente(q, i)
  <2>1. ASSUME NEW q \in Pids \ {p}, NEW i \in Ids PROVE Pendiente(q, i)' <=> Pendiente(q, i)
    <3>1. hilo'[q] = hilo[q]
      OBVIOUS
    <3>. QED BY <3>1 DEF Pendiente, Escribiendo, Dentro
  <2>. QED BY <2>1
<1>3. \A q \in Abiertos' : q \in Abiertos /\ q \in Pids /\ PaginasDe(q)' = PaginasDe(q)
  BY DEF Abiertos, PaginasDe
<1>4. \A q \in Abiertos' : \A i \in PaginasDe(q)' :
        /\ q \in Abiertos /\ i \in PaginasDe(q)
        /\ pagina'[q][i].presente = pagina[q][i].presente
        /\ pagina'[q][i].marco = pagina[q][i].marco
        /\ pagina'[q][i].modificado = pagina[q][i].modificado
        /\ guardado'[q][i] = guardado[q][i]
        /\ Pendiente(q, i) => Pendiente(q, i)'
  BY <1>2, <1>3, PaginasSon
<1>5. \A t \in Pids \ {p} : hilo[t].fase = "copia" =>
        pagina'[t][hilo[t].pag].modificado = pagina[t][hilo[t].pag].modificado
  BY VisitaEs DEF Visita
<1>6. \A t \in Pids \ {p}, q \in Pids, i \in Ids :
        hilo[t].fase \in {"saca", "quita"} /\ hilo[t].victima = <<q, i>> =>
          /\ pagina'[q][i].marco = pagina[q][i].marco
          /\ pagina'[q][i].modificado = pagina[q][i].modificado
          /\ Pendiente(q, i)' => Pendiente(q, i)
  BY <1>2
<1>. QED BY <1>1, <1>4, <1>5, <1>6, ContenidoPaso

\* A step that goes on with the same new pages, or starts to write them, has the
\* same ones to write.
LEMMA MismosPendientes ==
  ASSUME ITipos, NEW p \in Pids, hilo'[p].nuevas = hilo[p].nuevas,
         hilo[p].fase # "agregaNuevas", hilo'[p].fase # "agregaNuevas",
         Escribiendo(p) => Escribiendo(p)' /\ hilo'[p].pag = hilo[p].pag,
         Escribiendo(p)' => Escribiendo(p) \/ hilo'[p].pag = 0
  PROVE  \A i \in Ids : Pendiente(p, i)' <=> Pendiente(p, i)
<1>1. Len(hilo[p].nuevas) \in Nat
  <2>1. hilo[p] \in TipoDeHilo
    BY DEF ITipos, TiposPag
  <2>2. hilo[p].nuevas \in Seq(Ids)
    BY <2>1 DEF TipoDeHilo
  <2>. QED BY <2>2
<1>2. ASSUME NEW i \in Ids, Pendiente(p, i) PROVE Pendiente(p, i)'
  <2>1. PICK k \in 1..Len(hilo[p].nuevas) :
          hilo[p].nuevas[k] = i /\ (Escribiendo(p) => hilo[p].pag < k)
    BY <1>2 DEF Pendiente
  <2>2. Escribiendo(p)' => hilo'[p].pag < k
    BY <1>1, <2>1
  <2>. QED BY <2>1, <2>2 DEF Pendiente
<1>3. ASSUME NEW i \in Ids, Pendiente(p, i)' PROVE Pendiente(p, i)
  <2>1. PICK k \in 1..Len(hilo[p].nuevas) :
          hilo[p].nuevas[k] = i /\ (Escribiendo(p)' => hilo'[p].pag < k)
    BY <1>3 DEF Pendiente
  <2>. QED BY <2>1 DEF Pendiente
<1>. QED BY <1>2, <1>3

\* A step writes page i of p on frame m, and no other page.
PaginaEscrita(p, i, m) ==
  /\ \A q \in Pids, j \in Ids : q # p \/ j # i =>
       /\ pagina'[q][j].presente = pagina[q][j].presente
       /\ pagina'[q][j].marco = pagina[q][j].marco
       /\ pagina'[q][j].modificado = pagina[q][j].modificado
       /\ guardado'[q][j] = guardado[q][j]
  /\ pagina'[p][i].marco = m /\ pagina'[p][i].presente
  /\ pagina'[p][i].modificado \/ guardado'[p][i] = <<p, i>>
  /\ memoriaPrincipal'[m] = <<p, i>>
  /\ \A n \in Marcos : n # m /\ memoriaPrincipal[n] # <<p, i>> =>
       memoriaPrincipal'[n] = memoriaPrincipal[n]
  /\ \A q \in Pids \ {p} : copia[q] # <<p, i>> => copia'[q] = copia[q]

\* Frame m has no other page than page i of p, nor the victim of another thread.
MarcoSolo(p, i, m) ==
  /\ \A t \in Pids : Dentro(t) => hilo[t].victima # <<p, i>>
  /\ \A q \in Abiertos : \A j \in Presentes(q) : q # p \/ j # i => pagina[q][j].marco # m
  /\ \A t \in Pids \ {p} : hilo[t].fase = "quita" => hilo[t].marco # m

\* A step of p that writes one page leaves the others as they were.
LEMMA ContenidoEscrito ==
  ASSUME ITipos, ContenidoBien, NEW p \in Abiertos, NEW i \in Ids, NEW m \in Marcos,
         \A q \in Pids \ {p} : hilo'[q] = hilo[q],
         hilo[p].fase \notin {"saca", "quita", "asigna"},
         hilo[p].fase = "copia" => hilo[p].pag = i,
         hilo'[p].fase \notin {"saca", "quita", "asigna", "copia"},
         tabla_de_paginas' = tabla_de_paginas, PaginaEscrita(p, i, m), MarcoSolo(p, i, m),
         \A j \in Ids : j # i => (Pendiente(p, j)' <=> Pendiente(p, j))
  PROVE  ContenidoBien'
<1>. p \in Pids
  BY DEF Abiertos
<1>. USE DEF PaginaEscrita, MarcoSolo
<1>1. \A q \in Pids, j \in Ids : q # p \/ j # i =>
        /\ Pendiente(q, j)' <=> Pendiente(q, j)
        /\ EnCopia(q, j)' <=> EnCopia(q, j)
  <2>. SUFFICES ASSUME NEW q \in Pids, NEW j \in Ids, q # p \/ j # i
                PROVE  /\ Pendiente(q, j)' <=> Pendiente(q, j)
                       /\ EnCopia(q, j)' <=> EnCopia(q, j)
    OBVIOUS
  <2>1. CASE q = p
    BY <2>1 DEF EnCopia
  <2>2. CASE q # p
    <3>1. hilo'[q] = hilo[q]
      BY <2>2
    <3>. QED BY <3>1 DEF EnCopia, Pendiente, Escribiendo, Dentro
  <2>. QED BY <2>1, <2>2
<1>2. ASSUME NEW q \in Abiertos', NEW j \in PaginasDe(q)' PROVE AlDia(q, j)'
  <2>1. CASE q = p /\ j = i
    BY <2>1 DEF AlDia
  <2>2. CASE q # p \/ j # i
    <3>1. q \in Pids /\ q \in Abiertos /\ j \in PaginasDe(q)
      BY DEF Abiertos, PaginasDe
    <3>2. j \in Ids
      BY <3>1, PaginasSon
    <3>3. AlDia(q, j)
      BY <3>1 DEF ContenidoBien
    <3>4. pagina[q][j].presente /\ memoriaPrincipal[pagina[q][j].marco] = <<q, j>> =>
            memoriaPrincipal'[pagina[q][j].marco] = <<q, j>>
      <4>. SUFFICES ASSUME pagina[q][j].presente,
                           memoriaPrincipal[pagina[q][j].marco] = <<q, j>>
                    PROVE  memoriaPrincipal'[pagina[q][j].marco] = <<q, j>>
        OBVIOUS
      <4>1. j \in Presentes(q)
        BY <3>1 DEF Presentes
      <4>2. pagina[q][j].marco \in Marcos
        BY <3>1, <4>1, PresenteEs
      <4>3. pagina[q][j].marco # m
        BY <2>2, <3>1, <4>1
      <4>. QED BY <2>2, <4>2, <4>3
    <3>. QED BY <1>1, <2>2, <3>1, <3>2, <3>3, <3>4, AlDiaQueda
  <2>. QED BY <2>1, <2>2
<1>3. Copiada(p)' /\ Salida(p)'
  BY DEF Copiada, Salida
<1>4. ASSUME NEW t \in Pids \ {p} PROVE Copiada(t)' /\ Salida(t)'
  <2>1. hilo'[t] = hilo[t] /\ Copiada(t) /\ Salida(t)
    BY DEF ContenidoBien
  <2>2. CASE hilo[t].fase \in {"saca", "quita"}
    <3>1. PICK q \in Pids, j \in Ids : hilo[t].victima = <<q, j>>
      BY <2>2, DentroEs DEF Dentro
    <3>2. q # p \/ j # i
      BY <2>2, <3>1 DEF Dentro
    <3>3. Copiada(t)'
      <4>1. hilo[t].fase = "saca" /\ pagina[q][j].modificado => copia[t] = <<q, j>>
        BY <2>1, <3>1 DEF Copiada
      <4>2. hilo[t].fase = "saca" /\ pagina'[q][j].modificado => copia'[t] = <<q, j>>
        BY <3>2, <4>1
      <4>. QED BY <2>1, <2>2, <3>1, <4>2 DEF Copiada
    <3>4. Salida(t)'
      <4>1. CASE hilo[t].fase # "quita"
        BY <2>1, <4>1 DEF Salida
      <4>2. CASE hilo[t].fase = "quita"
        <5>1. /\ pagina[q][j].marco = hilo[t].marco
              /\ ~EnCopia(q, j) => memoriaPrincipal[hilo[t].marco] = <<q, j>>
              /\ ~Pendiente(q, j) /\ ~(hilo[q].fase = "asigna" /\ hilo[q].pag = j)
          BY <2>1, <3>1, <4>2 DEF Salida
        <5>2. hilo[t].marco \in Marcos /\ hilo[t].marco # m
          BY <4>2, DentroEs DEF Dentro
        <5>3. /\ pagina'[q][j].marco = hilo[t].marco
              /\ ~EnCopia(q, j)' => memoriaPrincipal'[hilo[t].marco] = <<q, j>>
              /\ ~Pendiente(q, j)'
          BY <1>1, <3>2, <5>1, <5>2
        <5>4. ~(hilo'[q].fase = "asigna" /\ hilo'[q].pag = j)
          <6>1. CASE q = p
            BY <6>1
          <6>2. CASE q # p
            BY <5>1, <6>2
          <6>. QED BY <6>1, <6>2
        <5>. QED BY <2>1, <3>1, <4>2, <5>3, <5>4 DEF Salida
      <4>. QED BY <4>1, <4>2
    <3>. QED BY <3>3, <3>4
  <2>3. CASE hilo[t].fase \notin {"saca", "quita"}
    <3>1. Salida(t)'
      BY <2>1, <2>3 DEF Salida
    <3>2. CASE hilo[t].fase \in {"asigna", "copia"}
      <4>1. copia[t] = <<t, hilo[t].pag>> /\ copia'[t] = <<t, hilo[t].pag>>
        BY <2>1, <3>2 DEF Copiada
      <4>2. hilo[t].pag \in Ids
        BY <3>2, VisitaEs DEF Visita, Falta
      <4>3. hilo[t].fase = "copia" => ~pagina'[t][hilo[t].pag].modificado
        BY <2>1, <4>2 DEF Copiada
      <4>. QED BY <2>1, <2>3, <3>1, <4>1, <4>3 DEF Copiada
    <3>3. CASE hilo[t].fase \notin {"asigna", "copia"}
      BY <2>1, <2>3, <3>1, <3>3 DEF Copiada
    <3>. QED BY <3>2, <3>3
  <2>. QED BY <2>2, <2>3
<1>. QED BY <1>2, <1>3, <1>4 DEF ContenidoBien

\* Steps that change nothing of the content.
LEMMA ContenidoIguales ==
  ASSUME ContenidoBien,
         UNCHANGED <<pagina, tabla_de_paginas, hilo, memoriaPrincipal, guardado, copia>>
  PROVE  ContenidoBien'
<1>1. /\ Abiertos' = Abiertos /\ \A q : PaginasDe(q)' = PaginasDe(q)
      /\ \A q, i : (Pendiente(q, i)' <=> Pendiente(q, i)) /\ (EnCopia(q, i)' <=> EnCopia(q, i))
  BY DEF Abiertos, PaginasDe, Pendiente, Escribiendo, Dentro, EnCopia
<1>2. ASSUME NEW q \in Abiertos', NEW i \in PaginasDe(q)' PROVE AlDia(q, i)'
  <2>1. AlDia(q, i)
    BY <1>1 DEF ContenidoBien
  <2>. QED BY <1>1, <2>1 DEF AlDia
<1>3. ASSUME NEW t \in Pids PROVE Copiada(t)' /\ Salida(t)'
  <2>1. Copiada(t) /\ Salida(t)
    BY DEF ContenidoBien
  <2>2. Copiada(t)'
    BY <2>1 DEF Copiada
  <2>3. Salida(t)'
    BY <1>1, <2>1 DEF Salida
  <2>. QED BY <2>2, <2>3
<1>. QED BY <1>2, <1>3 DEF ContenidoBien

\* A step of p that takes a request, answers it, or goes on with a close.
LEMMA ContenidoControl ==
  ASSUME ITipos, ContenidoBien, NEW p \in Pids,
         \/ Inicializa(p) \/ \E pedido \in {"acceso", "libera"} : Pide(p, pedido)
         \/ PideAlloc(p) \/ ReservaFija(p) \/ Termina(p) \/ BuscaMarcosALiberar(p)
         \/ CierraMarcos(p) \/ CierraLista(p)
  PROVE  ContenidoBien'
<1>1. /\ \A q \in Pids \ {p} : hilo'[q] = hilo[q]
      /\ hilo'[p].nuevas = hilo[p].nuevas
      /\ hilo'[p].fase \in {"libre", "reserva", "recorre", "cierraMarcos", "cierraLista", "cierraSwap"}
      /\ hilo[p].fase \in {"afuera", "libre", "reserva", "recorre", "cierraMarcos", "cierraLista"}
      /\ hilo[p].fase = "cierraLista" => hilo'[p].fase = "cierraSwap"
  <2>1. CASE Inicializa(p)
    BY <2>1, TiposInicializa DEF Pasa, Inicializa
  <2>2. ASSUME NEW pedido \in {"acceso", "libera"}, Pide(p, pedido)
        PROVE  /\ \A q \in Pids \ {p} : hilo'[q] = hilo[q]
               /\ hilo'[p].nuevas = hilo[p].nuevas
               /\ hilo'[p].fase = "recorre" /\ hilo[p].fase = "libre"
    BY <2>2, TiposPide DEF Pasa, Pide, Puede
  <2>3. CASE PideAlloc(p)
    BY <2>3, TiposPideAlloc DEF Pasa, PideAlloc, Puede
  <2>4. CASE ReservaFija(p)
    BY <2>4, TiposReservaFija DEF Pasa, ReservaFija
  <2>5. CASE Termina(p)
    BY <2>5, TiposTermina DEF Pasa, Termina
  <2>6. CASE BuscaMarcosALiberar(p)
    BY <2>6, TiposBuscaMarcosALiberar DEF Pasa, BuscaMarcosALiberar, Puede
  <2>7. CASE CierraMarcos(p)
    BY <2>7, TiposCierraMarcos DEF Pasa, CierraMarcos
  <2>8. CASE CierraLista(p)
    BY <2>8, TiposCierraLista DEF Pasa, CierraLista
  <2>. QED BY <2>1, <2>2, <2>3, <2>4, <2>5, <2>6, <2>7, <2>8
<1>2. UNCHANGED <<pagina, tabla_de_paginas, memoriaPrincipal, guardado, copia>>
  BY DEF Inicializa, Pide, PideAlloc, ReservaFija, Termina, BuscaMarcosALiberar, CierraMarcos,
         CierraLista
<1>3. \A i \in Ids : Pendiente(p, i)' <=> Pendiente(p, i)
  BY <1>1, MismosPendientes DEF Escribiendo, Dentro
<1>4. p \in Abiertos' => p \in Abiertos
  BY <1>1 DEF Abiertos
<1>. QED BY <1>1, <1>2, <1>3, <1>4, ContenidoQuieto

\* A step of p between the table, the TLB and the lists.
LEMMA ContenidoRecorre ==
  ASSUME ITipos, ContenidoBien, NEW p \in Pids,
         \/ \E i \in Ids : Accede(p, i)
         \/ AgregaATLB(p) \/ buscarMarcosLibres(p) \/ EmpiezaAEscribir(p)
         \/ TerminaDeEscribir(p) \/ AgregaNueva(p) \/ OcupaMarco(p)
  PROVE  ContenidoBien'
<1>1. UNCHANGED <<pagina, tabla_de_paginas, memoriaPrincipal, guardado, copia>>
  BY DEF Accede, AgregaATLB, buscarMarcosLibres, EmpiezaAEscribir, TerminaDeEscribir, AgregaNueva,
         OcupaMarco
<1>2. ASSUME NEW f, f = hilo'[p].fase,
             f \in {"usa", "agrega", "falta", "recorre", "escribe", "agregaNuevas"},
             hilo[p].fase \in {"recorre", "agrega", "buscaMarcos", "empieza", "escribe", "ocupa",
                              "agregaNuevas"},
             \A q \in Pids \ {p} : hilo'[q] = hilo[q],
             \A i \in Ids : Pendiente(p, i)' <=> Pendiente(p, i)
      PROVE  ContenidoBien'
  <2>1. p \in Abiertos' => p \in Abiertos
    BY <1>2 DEF Abiertos
  <2>. QED BY <1>1, <1>2, <2>1, ContenidoQuieto
<1>3. ASSUME NEW i \in Ids, Accede(p, i) PROVE ContenidoBien'
  <2>1. PICK f \in {"usa", "agrega", "falta"} :
          Pasa(p, f, hilo[p].pedido, i, hilo[p].vuelve, hilo[p].victima, hilo[p].marco,
               hilo[p].lista, hilo[p].nuevas, hilo[p].visitadas)
    BY <1>3, TiposAccede
  <2>2. /\ hilo'[p].fase \in {"usa", "agrega", "falta"} /\ hilo'[p].nuevas = hilo[p].nuevas
        /\ \A q \in Pids \ {p} : hilo'[q] = hilo[q]
        /\ hilo[p].fase = "recorre"
    BY <1>3, <2>1 DEF Pasa, Accede
  <2>3. \A j \in Ids : Pendiente(p, j)' <=> Pendiente(p, j)
    BY <2>2, MismosPendientes DEF Escribiendo, Dentro
  <2>. QED BY <1>2, <2>2, <2>3
<1>4. CASE AgregaATLB(p)
  <2>1. /\ hilo'[p].fase = "usa" /\ hilo'[p].nuevas = hilo[p].nuevas
        /\ \A q \in Pids \ {p} : hilo'[q] = hilo[q]
        /\ hilo[p].fase = "agrega"
    BY <1>4, TiposAgregaATLB DEF Pasa, AgregaATLB
  <2>2. \A j \in Ids : Pendiente(p, j)' <=> Pendiente(p, j)
    BY <2>1, MismosPendientes DEF Escribiendo, Dentro
  <2>. QED BY <1>2, <2>1, <2>2
<1>5. CASE buscarMarcosLibres(p)
  <2>1. /\ hilo'[p].fase = "recorre" /\ hilo'[p].nuevas = hilo[p].nuevas
        /\ \A q \in Pids \ {p} : hilo'[q] = hilo[q]
        /\ hilo[p].fase = "buscaMarcos"
    BY <1>5, TiposBuscarMarcosLibres DEF Pasa, buscarMarcosLibres
  <2>2. \A j \in Ids : Pendiente(p, j)' <=> Pendiente(p, j)
    BY <2>1, MismosPendientes DEF Escribiendo, Dentro
  <2>. QED BY <1>2, <2>1, <2>2
<1>6. CASE EmpiezaAEscribir(p)
  <2>1. /\ hilo'[p].fase = "escribe" /\ hilo'[p].nuevas = hilo[p].nuevas /\ hilo'[p].pag = 0
        /\ \A q \in Pids \ {p} : hilo'[q] = hilo[q]
        /\ hilo[p].fase \in {"empieza", "recorre"}
    BY <1>6, TiposEmpiezaAEscribir DEF Pasa, EmpiezaAEscribir
  <2>2. \A j \in Ids : Pendiente(p, j)' <=> Pendiente(p, j)
    BY <2>1, MismosPendientes DEF Escribiendo, Dentro
  <2>. QED BY <1>2, <2>1, <2>2
<1>7. CASE TerminaDeEscribir(p)
  <2>1. /\ hilo'[p].fase = "agregaNuevas"
        /\ \A q \in Pids \ {p} : hilo'[q] = hilo[q]
        /\ hilo[p].fase = "escribe" /\ hilo[p].pag = Len(hilo[p].nuevas)
    BY <1>7, TiposTerminaDeEscribir DEF Pasa, TerminaDeEscribir
  <2>2. hilo[p].nuevas \in Seq(Ids)
    <3>1. hilo[p] \in TipoDeHilo
      BY DEF ITipos, TiposPag
    <3>. QED BY <3>1 DEF TipoDeHilo
  <2>3. \A j \in Ids : ~Pendiente(p, j)
    BY <2>1, <2>2 DEF Pendiente, Escribiendo
  <2>4. \A j \in Ids : ~Pendiente(p, j)'
    BY <2>1 DEF Pendiente
  <2>. QED BY <1>2, <2>1, <2>3, <2>4
<1>8. CASE AgregaNueva(p)
  <2>1. /\ hilo'[p].nuevas = Tail(hilo[p].nuevas)
        /\ \A q \in Pids \ {p} : hilo'[q] = hilo[q]
        /\ hilo[p].fase = "agregaNuevas"
        /\ hilo'[p].fase \in {"recorre", "agregaNuevas"}
    BY <1>8, TiposAgregaNueva DEF Pasa, AgregaNueva
  <2>2. hilo'[p].fase = "recorre" => hilo'[p].nuevas = <<>>
    <3>1. hilo'[p].fase = IF Len(hilo[p].nuevas) = 1 THEN "recorre" ELSE "agregaNuevas"
      <4>1. hilo[p] \in TipoDeHilo /\ hilo \in [Pids -> TipoDeHilo]
        BY DEF ITipos, TiposPag
      <4>. QED BY <1>8, <4>1 DEF AgregaNueva, TipoDeHilo
    <3>2. hilo[p].nuevas \in Seq(Ids) /\ IsInjective(hilo[p].nuevas) /\ hilo[p].nuevas # <<>>
      <4>1. hilo[p] \in TipoDeHilo
        BY DEF ITipos, TiposPag
      <4>. QED BY <2>1, <4>1 DEF TipoDeHilo, ITipos, Forma
    <3>. QED BY <2>1, <3>1, <3>2, ColaEs
  <2>3. \A j \in Ids : ~Pendiente(p, j)
    BY <2>1 DEF Pendiente
  <2>4. \A j \in Ids : ~Pendiente(p, j)'
    <3>1. CASE hilo'[p].fase = "recorre"
      BY <2>2, <3>1, SinPendientes
    <3>2. CASE hilo'[p].fase # "recorre"
      BY <2>1, <3>2 DEF Pendiente
    <3>. QED BY <3>1, <3>2
  <2>. QED BY <1>2, <2>1, <2>3, <2>4
<1>9. CASE OcupaMarco(p)
  <2>1. /\ hilo'[p].fase = "escribe" /\ hilo'[p].nuevas = hilo[p].nuevas
        /\ hilo'[p].pag = hilo[p].pag /\ hilo[p].fase = "ocupa"
        /\ \A q \in Pids \ {p} : hilo'[q] = hilo[q]
    BY <1>9, TiposOcupaMarco DEF Pasa, OcupaMarco
  <2>2. \A j \in Ids : Pendiente(p, j)' <=> Pendiente(p, j)
    BY <2>1, MismosPendientes DEF Escribiendo, Dentro
  <2>. QED BY <1>2, <2>1, <2>2
<1>. QED BY <1>3, <1>4, <1>5, <1>6, <1>7, <1>8, <1>9

\* A page that is not among the new ones has been written.
LEMMA NuevasSon ==
  ASSUME ITipos, NEW p \in Pids
  PROVE  \A i \in Ids : Pendiente(p, i) => i \in Range(hilo[p].nuevas)
<1>1. hilo[p] \in TipoDeHilo
  BY DEF ITipos, TiposPag
<1>2. hilo[p].nuevas \in Seq(Ids)
  BY <1>1 DEF TipoDeHilo
<1>3. DOMAIN hilo[p].nuevas = 1..Len(hilo[p].nuevas)
  BY <1>2
<1>. QED BY <1>3 DEF Pendiente, Range

\* One thread at most evicts.
LEMMA NadieMas ==
  ASSUME ITipos, NEW p \in Pids, Dentro(p) \/ swap = Nadie
  PROVE  \A t \in Pids \ {p} : ~Dentro(t)
BY DentroEs, PaginacionOK

\* The victim is copied whole, if it has changed.
LEMMA ContenidoElige ==
  ASSUME ITipos, MarcosBien, ContenidoBien, NEW p \in Pids,
         EligeVictimaLRU(p) \/ EligeVictimaClock(p), fallas' = {}
  PROVE  ContenidoBien'
<1>1. PICK c \in Candidatas(p) :
        /\ Desaloja(p, c) /\ NecesitaMarco(p) /\ swap = Nadie
        /\ UNCHANGED <<config, carpinchos, tabla_de_paginas, contadorPag, marcos,
                       memoriaPrincipal, TLB, guardado, marcos_sem, pedidos,
                       cuotaTrunca, caida>>
        /\ pagina' \in [Pids -> [Ids -> TipoDePagina]]
        /\ punteroClock' \in [Pids \cup {Nadie} -> Nat]
        /\ \A q \in Pids, i \in Ids :
             /\ pagina'[q][i].presente = pagina[q][i].presente
             /\ pagina'[q][i].marco = pagina[q][i].marco
             /\ pagina'[q][i].modificado = pagina[q][i].modificado
  BY FotoElige
<1>2. Pasa(p, "saca", hilo[p].pedido, hilo[p].pag, hilo[p].fase, c, MarcoDe(c),
           hilo[p].lista, hilo[p].nuevas, hilo[p].visitadas)
  BY <1>1, TiposDesaloja
<1>3. PICK q \in Pids, i \in Ids :
        c = <<q, i>> /\ q \in carpinchos /\ i \in Presentes(q) /\ MarcoDe(c) = pagina[q][i].marco
  BY <1>1, CandidatasSon DEF MarcoDe
<1>4. q \in Abiertos /\ hilo[p].fase \in {"falta", "escribe"} /\ p \in Abiertos
  <2>1. q \in carpinchos <=> hilo[q].fase \notin {"afuera", "cierraSwap", "cierraTLB", "fin"}
    BY DEF ITipos, Forma
  <2>2. hilo[q].fase # "cierraLista"
    BY <1>1, <1>3 DEF Desaloja
  <2>3. q \in Abiertos
    BY <1>3, <2>1, <2>2 DEF Abiertos
  <2>4. hilo[p].fase \in {"falta", "escribe"}
    BY <1>1 DEF NecesitaMarco
  <2>. QED BY <2>3, <2>4 DEF Abiertos
<1>5. /\ \A t \in Pids \ {p} : hilo'[t] = hilo[t]
      /\ hilo'[p].fase = "saca" /\ hilo'[p].victima = <<q, i>>
      /\ hilo'[p].vuelve = hilo[p].fase /\ hilo'[p].nuevas = hilo[p].nuevas
      /\ hilo'[p].pag = hilo[p].pag
  BY <1>2, <1>3 DEF Pasa
<1>6. \A j \in Ids : Pendiente(p, j)' <=> Pendiente(p, j)
  BY <1>4, <1>5, MismosPendientes DEF Escribiendo, Dentro
<1>7. /\ copia \in [Pids -> Contenidos]
      /\ copia' = [copia EXCEPT ![p] = memoriaPrincipal[pagina[q][i].marco]]
  BY <1>1, <1>3 DEF ITipos, TiposPag, Desaloja
<1>8. pagina'[q][i].modificado => copia'[p] = <<q, i>>
  <2>. SUFFICES ASSUME pagina[q][i].modificado
                PROVE  memoriaPrincipal[pagina[q][i].marco] = <<q, i>>
    BY <1>1, <1>3, <1>7, PresenteEs
  <2>1. i \in Ids /\ i \in PaginasDe(q) /\ pagina[q][i].presente
    BY <1>3, PresenteEs
  <2>2. AlDia(q, i)
    BY <1>4, <2>1 DEF ContenidoBien
  <2>3. ~Pendiente(q, i)
    BY <2>1 DEF MarcosBien, Ausentes
  <2>4. ~EnCopia(q, i)
    BY DEF EnCopia, ContenidoBien, Copiada
  <2>. QED BY <2>1, <2>2, <2>3, <2>4 DEF AlDia
<1>9. Copiada(p)' /\ Salida(p)'
  BY <1>5, <1>8 DEF Copiada, Salida
<1>10. \A t \in Pids \ {p} : hilo[t].fase \notin {"saca", "quita"} /\ copia'[t] = copia[t]
  BY <1>1, <1>7, NadieMas DEF Dentro
<1>11. \A r \in Pids, j \in Ids : Pendiente(r, j)' <=> Pendiente(r, j)
  <2>1. ASSUME NEW r \in Pids \ {p}, NEW j \in Ids PROVE Pendiente(r, j)' <=> Pendiente(r, j)
    <3>1. hilo'[r] = hilo[r]
      BY <1>5
    <3>. QED BY <3>1 DEF Pendiente, Escribiendo, Dentro
  <2>. QED BY <1>6, <2>1
<1>12. ASSUME NEW r \in Abiertos', NEW j \in PaginasDe(r)'
       PROVE  /\ r \in Abiertos /\ j \in PaginasDe(r)
              /\ pagina'[r][j].presente = pagina[r][j].presente
              /\ pagina'[r][j].marco = pagina[r][j].marco
              /\ pagina'[r][j].modificado = pagina[r][j].modificado
              /\ guardado'[r][j] = guardado[r][j]
              /\ Pendiente(r, j) => Pendiente(r, j)'
  <2>1. r \in Abiertos /\ r \in Pids /\ j \in PaginasDe(r)
    BY <1>1, <1>4, <1>5 DEF Abiertos, PaginasDe
  <2>2. j \in Ids
    BY <2>1, PaginasSon
  <2>. QED BY <1>1, <1>11, <2>1, <2>2
<1>13. \A t \in Pids \ {p} : hilo[t].fase = "copia" =>
         pagina'[t][hilo[t].pag].modificado = pagina[t][hilo[t].pag].modificado
  BY <1>1, VisitaEs DEF Visita
<1>. QED BY <1>1, <1>4, <1>5, <1>9, <1>10, <1>12, <1>13, ContenidoPaso

\* The victim goes whole to the swap, or was there already.
LEMMA ContenidoSacaVictima ==
  ASSUME ITipos, MarcosBien, ContenidoBien, NEW p \in Pids, SacaVictima(p)
  PROVE  ContenidoBien'
<1>1. Pasa(p, "quita", hilo[p].pedido, hilo[p].pag, hilo[p].vuelve, hilo[p].victima,
           hilo[p].marco, hilo[p].lista, hilo[p].nuevas, hilo[p].visitadas)
  BY TiposSacaVictima
<1>2. hilo[p].fase = "saca" /\ Dentro(p)
  BY DEF SacaVictima, Dentro
<1>3. PICK q \in Pids, i \in Ids : hilo[p].victima = <<q, i>>
  BY <1>2, DentroEs
<1>4. PICK x \in TipoDePagina :
        /\ PaginaCambia(q, i, x) /\ x.presente = FALSE
        /\ x.marco = pagina[q][i].marco /\ x.modificado = pagina[q][i].modificado
  BY <1>3, FotoSaca
<1>5. /\ guardado'[q][i] = IF pagina[q][i].modificado THEN copia[p] ELSE guardado[q][i]
      /\ \A r \in Pids, j \in Ids : r # q \/ j # i => guardado'[r][j] = guardado[r][j]
  <2>1. guardado'[q][i] = IF pagina[q][i].modificado THEN copia[p] ELSE guardado[q][i]
    BY <1>3, FotoSaca
  <2>2. \A r \in Pids, j \in Ids : r # q \/ j # i => guardado'[r][j] = guardado[r][j]
    <3>1. /\ guardado \in [Pids -> [Ids -> Contenidos]]
          /\ guardado' = IF pagina[q][i].modificado
                         THEN [guardado EXCEPT ![q][i] = copia[p]] ELSE guardado
      BY <1>3 DEF ITipos, TiposPag, SacaVictima
    <3>2. CASE pagina[q][i].modificado
      BY <3>1, <3>2
    <3>3. CASE ~pagina[q][i].modificado
      BY <3>1, <3>3
    <3>. QED BY <3>2, <3>3
  <2>. QED BY <2>1, <2>2
<1>6. /\ \A t \in Pids \ {p} : hilo'[t] = hilo[t]
      /\ hilo'[p].fase = "quita" /\ hilo'[p].victima = <<q, i>> /\ hilo'[p].marco = hilo[p].marco
      /\ hilo'[p].vuelve = hilo[p].vuelve /\ hilo'[p].nuevas = hilo[p].nuevas
      /\ hilo'[p].pag = hilo[p].pag
  BY <1>1, <1>3 DEF Pasa
<1>7. UNCHANGED <<memoriaPrincipal, copia, tabla_de_paginas>>
  BY DEF SacaVictima
<1>8. /\ q \in Abiertos /\ i \in PaginasDe(q)
      /\ pagina[q][i].presente /\ pagina[q][i].marco = hilo[p].marco
  <2>1. Victima(p)
    BY DEF MarcosBien
  <2>. QED BY <1>2, <1>3, <2>1 DEF Victima
<1>9. ~Pendiente(q, i) /\ AlDia(q, i)
  BY <1>8 DEF MarcosBien, Ausentes, ContenidoBien
<1>10. guardado'[q][i] = <<q, i>>
  <2>1. pagina[q][i].modificado => copia[p] = <<q, i>>
    BY <1>2, <1>3 DEF ContenidoBien, Copiada
  <2>2. ~pagina[q][i].modificado => guardado[q][i] = <<q, i>>
    BY <1>9 DEF AlDia
  <2>. QED BY <1>5, <2>1, <2>2
<1>11. \A r \in Pids, j \in Ids :
         /\ pagina'[r][j].marco = pagina[r][j].marco
         /\ pagina'[r][j].modificado = pagina[r][j].modificado
         /\ r # q \/ j # i => pagina'[r][j].presente = pagina[r][j].presente
  <2>1. TAKE r \in Pids, j \in Ids
  <2>2. CASE r = q /\ j = i
    BY <1>4, <2>2 DEF PaginaCambia
  <2>3. CASE r # q \/ j # i
    BY <1>4, <2>3 DEF PaginaCambia
  <2>. QED BY <2>2, <2>3
<1>12. \A j \in Ids : Pendiente(p, j)' <=> Pendiente(p, j)
  BY <1>2, <1>6, MismosPendientes DEF Escribiendo, Dentro
<1>13. \A r \in Pids, j \in Ids : Pendiente(r, j)' <=> Pendiente(r, j)
  <2>1. ASSUME NEW r \in Pids \ {p}, NEW j \in Ids PROVE Pendiente(r, j)' <=> Pendiente(r, j)
    <3>1. hilo'[r] = hilo[r]
      BY <1>6
    <3>. QED BY <3>1 DEF Pendiente, Escribiendo, Dentro
  <2>. QED BY <1>12, <2>1
<1>14. ~pagina'[q][i].presente
  BY <1>4 DEF PaginaCambia
<1>15. AlDia(q, i)'
  BY <1>10, <1>14 DEF AlDia
<1>16. Salida(p)'
  <2>1. ~(hilo'[q].fase = "asigna" /\ hilo'[q].pag = i)
    <3>1. CASE q = p
      BY <1>6, <3>1
    <3>2. CASE q # p
      <4>1. hilo[q].fase = "asigna" => ~pagina[q][hilo[q].pag].presente
        BY DEF MarcosBien, Ausentes, Falta
      <4>. QED BY <1>6, <1>8, <3>2, <4>1
    <3>. QED BY <3>1, <3>2
  <2>2. ~EnCopia(q, i)' => memoriaPrincipal'[hilo[p].marco] = <<q, i>>
    <3>1. EnCopia(q, i) => EnCopia(q, i)'
      BY <1>2, <1>6 DEF EnCopia
    <3>. QED BY <1>7, <1>8, <1>9, <3>1 DEF AlDia
  <2>. QED BY <1>6, <1>8, <1>9, <1>11, <1>13, <2>1, <2>2 DEF Salida
<1>17. Copiada(p)'
  BY <1>6 DEF Copiada
<1>18. \A t \in Pids \ {p} : hilo[t].fase \notin {"saca", "quita"}
  BY <1>2, NadieMas DEF Dentro
<1>19. ASSUME NEW r \in Abiertos', NEW j \in PaginasDe(r)'
       PROVE  \/ AlDia(r, j)'
              \/ /\ r \in Abiertos /\ j \in PaginasDe(r)
                 /\ pagina'[r][j].presente = pagina[r][j].presente
                 /\ pagina'[r][j].marco = pagina[r][j].marco
                 /\ pagina'[r][j].modificado = pagina[r][j].modificado
                 /\ guardado'[r][j] = guardado[r][j]
                 /\ Pendiente(r, j) => Pendiente(r, j)'
  <2>1. r \in Abiertos /\ r \in Pids /\ j \in PaginasDe(r)
    BY <1>2, <1>6, <1>7 DEF Abiertos, PaginasDe
  <2>2. j \in Ids
    BY <2>1, PaginasSon
  <2>3. CASE r = q /\ j = i
    BY <1>15, <2>3
  <2>4. CASE r # q \/ j # i
    BY <1>5, <1>11, <1>13, <2>1, <2>2, <2>4
  <2>. QED BY <2>3, <2>4
<1>20. \A t \in Pids \ {p} : hilo[t].fase = "copia" =>
         pagina'[t][hilo[t].pag].modificado = pagina[t][hilo[t].pag].modificado
  BY <1>11, VisitaEs DEF Visita
<1>. QED BY <1>2, <1>6, <1>7, <1>16, <1>17, <1>18, <1>19, <1>20, ContenidoPaso

\* The page that is asked for comes whole from the swap.
LEMMA ContenidoQuitaDeTLB ==
  ASSUME ITipos, MarcosBien, ContenidoBien, NEW p \in Pids, QuitaDeTLB(p)
  PROVE  ContenidoBien'
<1>1. PICK f \in {"asigna", "escribeEn"} :
        /\ f = "asigna" <=> hilo[p].vuelve = "falta"
        /\ Pasa(p, f, hilo[p].pedido, hilo[p].pag, "", <<>>, hilo[p].marco, hilo[p].lista,
                hilo[p].nuevas, hilo[p].visitadas)
  BY TiposQuitaDeTLB
<1>2. hilo[p].fase = "quita" /\ Dentro(p) /\ hilo[p].vuelve \in {"falta", "escribe"}
  BY DentroEs DEF QuitaDeTLB, Dentro
<1>3. /\ \A t \in Pids \ {p} : hilo'[t] = hilo[t]
      /\ hilo'[p].fase = f /\ hilo'[p].nuevas = hilo[p].nuevas /\ hilo'[p].pag = hilo[p].pag
  BY <1>1 DEF Pasa
<1>4. UNCHANGED <<memoriaPrincipal, pagina, guardado, tabla_de_paginas>>
  BY DEF QuitaDeTLB
<1>5. \A t \in Pids \ {p} : copia'[t] = copia[t]
  BY DEF QuitaDeTLB, ITipos, TiposPag
<1>6. f = "asigna" => copia'[p] = <<p, hilo[p].pag>>
  <2>. SUFFICES ASSUME hilo[p].vuelve = "falta"
                PROVE  copia'[p] = <<p, hilo[p].pag>>
    BY <1>1
  <2>1. copia'[p] = guardado[p][hilo[p].pag]
    BY DEF QuitaDeTLB, ITipos, TiposPag
  <2>2. Falta(p)
    BY <1>2 DEF Falta
  <2>3. hilo[p].pag \in Ids /\ hilo[p].pag \in PaginasDe(p) \ Range(hilo[p].nuevas)
    BY <2>2, VisitaEs DEF Visita
  <2>4. ~pagina[p][hilo[p].pag].presente
    BY <2>2 DEF MarcosBien, Ausentes
  <2>5. ~Pendiente(p, hilo[p].pag)
    BY <2>3, NuevasSon
  <2>6. AlDia(p, hilo[p].pag)
    BY <1>2, <2>3 DEF ContenidoBien, Abiertos
  <2>. QED BY <2>1, <2>4, <2>5, <2>6 DEF AlDia
<1>7. Copiada(p)' /\ Salida(p)'
  BY <1>3, <1>6 DEF Copiada, Salida
<1>8. \A j \in Ids : Pendiente(p, j)' <=> Pendiente(p, j)
  <2>1. Escribiendo(p)' <=> Escribiendo(p)
    <3>1. Escribiendo(p) <=> hilo[p].vuelve = "escribe"
      BY <1>2 DEF Escribiendo
    <3>2. Escribiendo(p)' <=> f = "escribeEn"
      BY <1>3 DEF Escribiendo, Dentro
    <3>. QED BY <1>1, <1>2, <3>1, <3>2
  <2>. QED BY <1>2, <1>3, <2>1, MismosPendientes
<1>9. \A r \in Pids, j \in Ids : Pendiente(r, j)' <=> Pendiente(r, j)
  <2>1. ASSUME NEW r \in Pids \ {p}, NEW j \in Ids PROVE Pendiente(r, j)' <=> Pendiente(r, j)
    <3>1. hilo'[r] = hilo[r]
      BY <1>3
    <3>. QED BY <3>1 DEF Pendiente, Escribiendo, Dentro
  <2>. QED BY <1>8, <2>1
<1>10. \A t \in Pids \ {p} : hilo[t].fase \notin {"saca", "quita"}
  BY <1>2, NadieMas DEF Dentro
<1>11. ASSUME NEW r \in Abiertos', NEW j \in PaginasDe(r)'
       PROVE  r \in Abiertos /\ j \in PaginasDe(r) /\ (Pendiente(r, j) => Pendiente(r, j)')
  <2>1. r \in Abiertos /\ r \in Pids /\ j \in PaginasDe(r)
    BY <1>2, <1>3, <1>4 DEF Abiertos, PaginasDe
  <2>. QED BY <1>9, <2>1, PaginasSon
<1>. QED BY <1>2, <1>3, <1>4, <1>5, <1>7, <1>10, <1>11, ContenidoPaso

\* A page takes the frame of the victim: its content has been asked for.
LEMMA ContenidoAsignaMarco ==
  ASSUME ITipos, MarcosBien, ContenidoBien, NEW p \in Pids, AsignaMarco(p)
  PROVE  ContenidoBien'
<1>1. Pasa(p, "copia", hilo[p].pedido, hilo[p].pag, hilo[p].vuelve, hilo[p].victima,
           SinMarco, hilo[p].lista, hilo[p].nuevas, hilo[p].visitadas)
  BY TiposAsignaMarco
<1>2. hilo[p].fase = "asigna" /\ Falta(p)
  BY DEF AsignaMarco, Falta
<1>3. PICK i \in Ids : i = hilo[p].pag
  BY FotoAsigna
<1>4. pagina'[p][i].presente /\ ~pagina'[p][i].modificado
  <2>1. PICK x : x = [presente |-> TRUE, marco |-> hilo[p].marco, modificado |-> FALSE, uso |-> TRUE]
    OBVIOUS
  <2>2. PaginaCambia(p, i, x)
    BY <1>3, <2>1, FotoAsigna
  <2>3. pagina'[p][i] = x
    BY <2>2 DEF PaginaCambia
  <2>. QED BY <2>1, <2>3
<1>5. \A r \in Pids, j \in Ids : r # p \/ j # i => pagina'[r][j] = pagina[r][j]
  BY <1>3, FotoAsigna, ZenonT(60) DEF PaginaCambia
<1>6. /\ \A t \in Pids \ {p} : hilo'[t] = hilo[t]
      /\ hilo'[p].fase = "copia" /\ hilo'[p].nuevas = hilo[p].nuevas /\ hilo'[p].pag = i
  BY <1>1, <1>3 DEF Pasa
<1>7. UNCHANGED <<memoriaPrincipal, copia, guardado, tabla_de_paginas>>
  BY DEF AsignaMarco
<1>8. ~pagina[p][i].presente /\ i \in PaginasDe(p) \ Range(hilo[p].nuevas) /\ p \in Abiertos
  BY <1>2, <1>3, VisitaEs DEF MarcosBien, Ausentes, Visita, Abiertos
<1>9. ~Pendiente(p, i) /\ AlDia(p, i)
  BY <1>8, NuevasSon DEF ContenidoBien
<1>10. guardado[p][i] = <<p, i>>
  BY <1>8, <1>9 DEF AlDia
<1>11. AlDia(p, i)'
  <2>1. EnCopia(p, i)'
    BY <1>6 DEF EnCopia
  <2>. QED BY <1>7, <1>10, <2>1 DEF AlDia
<1>12. copia[p] = <<p, i>>
  BY <1>2, <1>3 DEF ContenidoBien, Copiada
<1>13. Copiada(p)' /\ Salida(p)'
  BY <1>4, <1>6, <1>7, <1>12 DEF Copiada, Salida
<1>14. \A j \in Ids : Pendiente(p, j)' <=> Pendiente(p, j)
  BY <1>2, <1>6, MismosPendientes DEF Escribiendo, Dentro
<1>15. \A r \in Pids, j \in Ids : Pendiente(r, j)' <=> Pendiente(r, j)
  <2>1. ASSUME NEW r \in Pids \ {p}, NEW j \in Ids PROVE Pendiente(r, j)' <=> Pendiente(r, j)
    <3>1. hilo'[r] = hilo[r]
      BY <1>6
    <3>. QED BY <3>1 DEF Pendiente, Escribiendo, Dentro
  <2>. QED BY <1>14, <2>1
<1>16. ASSUME NEW t \in Pids \ {p}, NEW r \in Pids, NEW j \in Ids,
              hilo[t].fase \in {"saca", "quita"}, hilo[t].victima = <<r, j>>
       PROVE  r # p \/ j # i
  <2>. SUFFICES ASSUME r = p, j = i PROVE FALSE
    OBVIOUS
  <2>1. CASE hilo[t].fase = "saca"
    <3>1. Victima(t)
      BY DEF MarcosBien
    <3>. QED BY <1>8, <1>16, <2>1, <3>1 DEF Victima, Dentro
  <2>2. CASE hilo[t].fase = "quita"
    <3>1. Salida(t)
      BY DEF ContenidoBien
    <3>2. ~(hilo[p].fase = "asigna" /\ hilo[p].pag = i)
      BY <1>16, <2>2, <3>1 DEF Salida
    <3>. QED BY <1>2, <1>3, <3>2
  <2>. QED BY <1>16, <2>1, <2>2
<1>17. ASSUME NEW t \in Pids \ {p}, NEW r \in Pids, NEW j \in Ids,
              hilo[t].fase \in {"saca", "quita"}, hilo[t].victima = <<r, j>>
       PROVE  /\ pagina'[r][j].marco = pagina[r][j].marco
              /\ pagina'[r][j].modificado = pagina[r][j].modificado
              /\ Pendiente(r, j)' => Pendiente(r, j)
  <2>1. r # p \/ j # i
    BY <1>16, <1>17
  <2>. QED BY <1>5, <1>15, <2>1
<1>18. ASSUME NEW r \in Abiertos', NEW j \in PaginasDe(r)'
       PROVE  \/ AlDia(r, j)'
              \/ /\ r \in Abiertos /\ j \in PaginasDe(r)
                 /\ pagina'[r][j].presente = pagina[r][j].presente
                 /\ pagina'[r][j].marco = pagina[r][j].marco
                 /\ pagina'[r][j].modificado = pagina[r][j].modificado
                 /\ guardado'[r][j] = guardado[r][j]
                 /\ Pendiente(r, j) => Pendiente(r, j)'
  <2>1. r \in Abiertos /\ r \in Pids /\ j \in PaginasDe(r)
    BY <1>2, <1>6, <1>7 DEF Abiertos, PaginasDe
  <2>2. j \in Ids
    BY <2>1, PaginasSon
  <2>3. CASE r = p /\ j = i
    BY <1>11, <2>3
  <2>4. CASE r # p \/ j # i
    <3>1. pagina'[r][j] = pagina[r][j]
      BY <1>5, <2>1, <2>2, <2>4
    <3>. QED BY <1>7, <1>15, <2>1, <2>2, <3>1
  <2>. QED BY <2>3, <2>4
<1>19. \A t \in Pids \ {p} : hilo[t].fase = "copia" =>
         pagina'[t][hilo[t].pag].modificado = pagina[t][hilo[t].pag].modificado
  BY <1>5, VisitaEs DEF Visita
<1>. QED BY <1>2, <1>6, <1>7, <1>13, <1>17, <1>18, <1>19, ContenidoPaso

\* A page that is used and that nobody is evicting is alone on its frame.
LEMMA SolaEnSuMarco ==
  ASSUME ITipos, MarcosBien, NEW p \in Abiertos, NEW i \in PaginasDe(p), ~SeFue(p, i),
         NEW m, m = pagina[p][i].marco
  PROVE  m \in Marcos /\ pagina[p][i].presente /\ MarcoSolo(p, i, m)
<1>1. /\ pagina[p][i].presente
      /\ \A t \in Pids : Dentro(t) => hilo[t].victima # <<p, i>>
  BY DEF SeFue, Dentro
<1>2. i \in Presentes(p) /\ p \in Pids
  BY <1>1 DEF Presentes, Abiertos
<1>3. m \in Marcos
  BY <1>2, PresenteEs
<1>4. ASSUME NEW q \in Abiertos, NEW j \in Presentes(q), q # p \/ j # i
      PROVE  pagina[q][j].marco # m
  BY <1>2, <1>4, MarcosDistintos
<1>5. ASSUME NEW t \in Pids \ {p}, hilo[t].fase = "quita" PROVE hilo[t].marco # m
  <2>1. marcos[hilo[t].marco].estaLibre /\ (Lleva(p) => hilo[p].marco # hilo[t].marco)
    BY <1>2, <1>5 DEF MarcosBien, Transito, Lleva
  <2>2. \/ marcos[m] = [proceso_asignado |-> p, estaLibre |-> FALSE]
        \/ Lleva(p) /\ hilo[p].marco = m
    BY <1>2, OcupaEs
  <2>. QED BY <2>1, <2>2
<1>. QED BY <1>1, <1>3, <1>4, <1>5 DEF MarcoSolo

\* A use leaves the page as it was, or written whole.
LEMMA ContenidoUsa ==
  ASSUME ITipos, MarcosBien, ContenidoBien, NEW p \in Pids, Usa(p), fallas' = {}
  PROVE  ContenidoBien'
<1>1. PICK v \in SUBSET Ids :
        Pasa(p, "recorre", hilo[p].pedido, hilo[p].pag, hilo[p].vuelve, hilo[p].victima,
             hilo[p].marco, hilo[p].lista, hilo[p].nuevas, v)
  BY TiposUsa
<1>2. PICK i \in Ids, x \in TipoDePagina :
        /\ i = hilo[p].pag /\ PaginaCambia(p, i, x)
        /\ x.presente = pagina[p][i].presente /\ x.marco = pagina[p][i].marco
        /\ \/ /\ x.modificado = pagina[p][i].modificado
              /\ UNCHANGED <<memoriaPrincipal, guardado, copia>>
           \/ /\ x.modificado = TRUE
              /\ Escribe(p, i, pagina[p][i].marco)
  BY FotoUsa
<1>3. /\ \A q \in Pids \ {p} : hilo'[q] = hilo[q]
      /\ hilo'[p].fase = "recorre" /\ hilo'[p].nuevas = hilo[p].nuevas
      /\ hilo[p].fase = "usa" /\ tabla_de_paginas' = tabla_de_paginas /\ ~SeFue(p, i)
  BY <1>1, <1>2 DEF Pasa, Usa
<1>4. \A j \in Ids : Pendiente(p, j)' <=> Pendiente(p, j)
  BY <1>3, MismosPendientes DEF Escribiendo, Dentro
<1>5. i \in PaginasDe(p) /\ p \in Abiertos
  BY <1>2, <1>3, VisitaEs DEF Visita, Abiertos
<1>6. pagina'[p][i] = x /\ \A q \in Pids, j \in Ids : q # p \/ j # i => pagina'[q][j] = pagina[q][j]
  BY <1>2 DEF PaginaCambia
<1>7. CASE x.modificado = pagina[p][i].modificado /\ UNCHANGED <<memoriaPrincipal, guardado, copia>>
  <2>1. \A q \in Pids, j \in Ids :
          /\ pagina'[q][j].presente = pagina[q][j].presente
          /\ pagina'[q][j].marco = pagina[q][j].marco
          /\ pagina'[q][j].modificado = pagina[q][j].modificado
    <3>1. TAKE q \in Pids, j \in Ids
    <3>2. CASE q = p /\ j = i
      BY <1>2, <1>6, <1>7, <3>2
    <3>3. CASE q # p \/ j # i
      BY <1>6, <3>3
    <3>. QED BY <3>2, <3>3
  <2>. QED BY <1>3, <1>4, <1>5, <1>7, <2>1, ContenidoQuieto
<1>8. CASE x.modificado = TRUE /\ Escribe(p, i, pagina[p][i].marco)
  <2>1. PICK m : m = pagina[p][i].marco
    OBVIOUS
  <2>2. m \in Marcos /\ pagina[p][i].presente /\ MarcoSolo(p, i, m)
    BY <1>3, <1>5, <2>1, SolaEnSuMarco
  <2>3. Escribe(p, i, m)
    BY <1>8, <2>1
  <2>4. /\ memoriaPrincipal'[m] = <<p, i>>
        /\ \A n \in Marcos : n # m /\ memoriaPrincipal[n] # <<p, i>> =>
             memoriaPrincipal'[n] = memoriaPrincipal[n]
        /\ \A q \in Pids, j \in Ids : q # p \/ j # i => guardado'[q][j] = guardado[q][j]
        /\ \A q \in Pids : copia[q] # <<p, i>> => copia'[q] = copia[q]
    BY <2>2, <2>3, EscribeEs
  <2>5. pagina'[p][i].presente /\ pagina'[p][i].modificado /\ pagina'[p][i].marco = m
    BY <1>2, <1>6, <1>8, <2>1, <2>2
  <2>6. PaginaEscrita(p, i, m)
    BY <1>6, <2>4, <2>5 DEF PaginaEscrita
  <2>. QED BY <1>3, <1>4, <1>5, <2>2, <2>6, ContenidoEscrito
<1>. QED BY <1>2, <1>7, <1>8

\* A merged header leaves the page written whole, if it was marked as changed.
LEMMA ContenidoFunde ==
  ASSUME ITipos, MarcosBien, ContenidoBien, NEW p \in Pids, NEW i \in Ids,
         FundeCabecera(p, i), fallas' = {}
  PROVE  ContenidoBien'
<1>1. /\ hilo' = hilo /\ hilo[p].fase = "recorre" /\ tabla_de_paginas' = tabla_de_paginas
      /\ pagina' = pagina /\ ~SeFue(p, i) /\ pagina[p][i].modificado
      /\ i \in hilo[p].visitadas
  BY DEF FundeCabecera
<1>2. i \in PaginasDe(p) /\ p \in Abiertos
  BY <1>1 DEF ITipos, Forma, Abiertos
<1>3. PICK m : m = pagina[p][i].marco
  OBVIOUS
<1>4. m \in Marcos /\ pagina[p][i].presente /\ MarcoSolo(p, i, m)
  BY <1>1, <1>2, <1>3, SolaEnSuMarco
<1>5. Escribe(p, i, m)
  BY <1>3 DEF FundeCabecera
<1>6. /\ memoriaPrincipal'[m] = <<p, i>>
      /\ \A n \in Marcos : n # m /\ memoriaPrincipal[n] # <<p, i>> =>
           memoriaPrincipal'[n] = memoriaPrincipal[n]
      /\ \A q \in Pids, j \in Ids : q # p \/ j # i => guardado'[q][j] = guardado[q][j]
      /\ \A q \in Pids : copia[q] # <<p, i>> => copia'[q] = copia[q]
  BY <1>4, <1>5, EscribeEs
<1>7. \A j \in Ids : Pendiente(p, j)' <=> Pendiente(p, j)
  BY <1>1 DEF Pendiente, Escribiendo, Dentro
<1>8. PaginaEscrita(p, i, m)
  BY <1>1, <1>3, <1>4, <1>6 DEF PaginaEscrita
<1>. QED BY <1>1, <1>2, <1>4, <1>7, <1>8, ContenidoEscrito

\* The page that was asked for reaches its frame.
LEMMA ContenidoCopiaPagina ==
  ASSUME ITipos, MarcosBien, ContenidoBien, NEW p \in Pids, CopiaPagina(p), fallas' = {}
  PROVE  ContenidoBien'
<1>1. Pasa(p, "agrega", hilo[p].pedido, hilo[p].pag, hilo[p].vuelve, hilo[p].victima,
           hilo[p].marco, hilo[p].lista, hilo[p].nuevas, hilo[p].visitadas)
  BY TiposCopiaPagina
<1>2. PICK i : i = hilo[p].pag
  OBVIOUS
<1>3. /\ \A q \in Pids \ {p} : hilo'[q] = hilo[q]
      /\ hilo'[p].fase = "agrega" /\ hilo'[p].nuevas = hilo[p].nuevas
      /\ hilo[p].fase = "copia" /\ tabla_de_paginas' = tabla_de_paginas /\ ~SeFue(p, i)
      /\ pagina' = pagina /\ guardado' = guardado
  BY <1>1, <1>2 DEF Pasa, CopiaPagina
<1>4. i \in Ids /\ i \in PaginasDe(p) \ Range(hilo[p].nuevas) /\ p \in Abiertos
  BY <1>2, <1>3, VisitaEs DEF Visita, Abiertos
<1>5. PICK m : m = pagina[p][i].marco
  OBVIOUS
<1>6. m \in Marcos /\ pagina[p][i].presente /\ MarcoSolo(p, i, m)
  BY <1>3, <1>4, <1>5, SolaEnSuMarco
<1>7. copia[p] = <<p, i>> /\ ~pagina[p][i].modificado
  BY <1>2, <1>3 DEF ContenidoBien, Copiada
<1>8. guardado[p][i] = <<p, i>>
  <2>1. AlDia(p, i) /\ ~Pendiente(p, i)
    BY <1>4, NuevasSon DEF ContenidoBien
  <2>. QED BY <1>7, <2>1 DEF AlDia
<1>9. /\ memoriaPrincipal'[m] = <<p, i>>
      /\ \A n \in Marcos : n # m => memoriaPrincipal'[n] = memoriaPrincipal[n]
      /\ \A q \in Pids \ {p} : copia'[q] = copia[q]
  <2>1. memoriaPrincipal \in [Marcos -> Contenidos] /\ copia \in [Pids -> Contenidos]
    BY DEF ITipos, TiposPag
  <2>2. memoriaPrincipal' = [memoriaPrincipal EXCEPT ![m] = copia[p]]
    BY <1>2, <1>5 DEF CopiaPagina
  <2>3. copia' = [copia EXCEPT ![p] = Vieja]
    BY DEF CopiaPagina
  <2>. QED BY <1>6, <1>7, <2>1, <2>2, <2>3
<1>10. \A j \in Ids : Pendiente(p, j)' <=> Pendiente(p, j)
  BY <1>3, MismosPendientes DEF Escribiendo, Dentro
<1>11. PaginaEscrita(p, i, m)
  BY <1>3, <1>5, <1>6, <1>8, <1>9 DEF PaginaEscrita
<1>. QED BY <1>2, <1>3, <1>4, <1>6, <1>10, <1>11, ContenidoEscrito

\* A new page is written whole on a frame that no other thread has emptied.
LEMMA ContenidoEscribe ==
  ASSUME ITipos, Turno, MarcosBien, ContenidoBien, NEW p \in Pids,
         EscribePagina(p) \/ EscribeTrasDesalojar(p), fallas' = {}
  PROVE  ContenidoBien'
<1>1. PICK m \in Marcos :
        /\ EscribeEn(p, m) /\ hilo[p].fase \in {"escribe", "escribeEn"}
        /\ hilo[p].pag < Len(hilo[p].nuevas)
  BY EscribeEnAlguno
<1>2. m \notin EnTransito(p) /\ marcos[m].estaLibre /\ tabla_de_paginas' = tabla_de_paginas
  BY <1>1 DEF EscribeEn
<1>3. PICK i \in Ids, x \in TipoDePagina :
        /\ i = hilo[p].nuevas[hilo[p].pag + 1] /\ hilo[p].pag + 1 \in 1..Len(hilo[p].nuevas)
        /\ Escribe(p, i, m)
        /\ PaginaCambia(p, i, x) /\ x.presente = TRUE /\ x.marco = m
        /\ x.modificado = pagina[p][i].modificado
  BY <1>1, <1>2, FotoEscribe
<1>4. Pasa(p, "ocupa", hilo[p].pedido, hilo[p].pag + 1, hilo[p].vuelve, hilo[p].victima,
           m, hilo[p].lista, hilo[p].nuevas, hilo[p].visitadas)
  BY <1>1, <1>2, TiposEscribeEn
<1>5. PICK s \in Seq(Ids), k \in Nat : s = hilo[p].nuevas /\ k = hilo[p].pag
  BY Locales
<1>6. /\ Len(s) \in Nat /\ k + 1 \in 1..Len(s) /\ s[k + 1] = i /\ DOMAIN s = 1..Len(s)
      /\ IsInjective(s) /\ Range(s) \subseteq PaginasDe(p)
  <2>1. Len(s) \in Nat /\ DOMAIN s = 1..Len(s)
    OBVIOUS
  <2>2. IsInjective(s) /\ Range(s) \subseteq PaginasDe(p)
    BY <1>5 DEF ITipos, Forma
  <2>3. k + 1 \in 1..Len(s) /\ s[k + 1] = i
    BY <1>3, <1>5
  <2>. QED BY <2>1, <2>2, <2>3
<1>7. /\ \A q \in Pids \ {p} : hilo'[q] = hilo[q]
      /\ hilo'[p].fase = "ocupa" /\ hilo'[p].nuevas = s /\ hilo'[p].pag = k + 1
      /\ p \in Abiertos
  BY <1>1, <1>4, <1>5 DEF Pasa, Abiertos
<1>8. Escribiendo(p) /\ Escribiendo(p)' /\ hilo[p].fase # "agregaNuevas"
  BY <1>1, <1>7 DEF Escribiendo
<1>9. Pendiente(p, i)
  BY <1>5, <1>6, <1>8 DEF Pendiente
<1>10. ~pagina[p][i].presente /\ pagina[p][i].modificado
  BY <1>9 DEF MarcosBien, Ausentes
<1>11. \A t \in Pids : Dentro(t) => hilo[t].victima # <<p, i>>
  <2>1. ASSUME NEW t \in Pids, hilo[t].victima = <<p, i>>, hilo[t].fase = "saca" PROVE FALSE
    BY <1>10, <2>1 DEF MarcosBien, Victima, Dentro
  <2>2. ASSUME NEW t \in Pids, hilo[t].victima = <<p, i>>, hilo[t].fase = "quita" PROVE FALSE
    BY <1>9, <2>2 DEF ContenidoBien, Salida
  <2>. QED BY <2>1, <2>2 DEF Dentro
<1>12. ASSUME NEW q \in Abiertos, NEW j \in Presentes(q) PROVE pagina[q][j].marco # m
  <2>1. q \in Pids /\ (~marcos[pagina[q][j].marco].estaLibre \/ hilo[q].fase = "ocupa")
    <3>1. q \in Pids
      BY DEF Abiertos
    <3>2. ~marcos[pagina[q][j].marco].estaLibre \/ hilo[q].fase = "ocupa"
      BY TomadoEs
    <3>. QED BY <3>1, <3>2
  <2>2. hilo[q].fase # "ocupa"
    <3>1. hilo[q].fase = "ocupa" => marcos_sem = q
      BY <2>1 DEF Turno, Escribiendo
    <3>2. marcos_sem = p
      BY <1>8 DEF Turno
    <3>. QED BY <1>1, <3>1, <3>2
  <2>. QED BY <1>2, <2>1, <2>2
<1>13. \A t \in Pids \ {p} : hilo[t].fase = "quita" => hilo[t].marco # m
  BY <1>2 DEF EnTransito
<1>14. /\ memoriaPrincipal'[m] = <<p, i>>
       /\ \A n \in Marcos : n # m /\ memoriaPrincipal[n] # <<p, i>> =>
            memoriaPrincipal'[n] = memoriaPrincipal[n]
       /\ \A q \in Pids, j \in Ids : q # p \/ j # i => guardado'[q][j] = guardado[q][j]
       /\ \A q \in Pids : copia[q] # <<p, i>> => copia'[q] = copia[q]
  BY <1>3, EscribeEs, SMTT(30)
<1>15. pagina'[p][i] = x /\ \A q \in Pids, j \in Ids : q # p \/ j # i => pagina'[q][j] = pagina[q][j]
  BY <1>3 DEF PaginaCambia
<1>16. pagina'[p][i].presente /\ pagina'[p][i].modificado /\ pagina'[p][i].marco = m
  BY <1>3, <1>10, <1>15
<1>17. ASSUME NEW j \in Ids, j # i PROVE Pendiente(p, j)' <=> Pendiente(p, j)
  <2>1. ASSUME NEW n \in 1..Len(s), s[n] = j PROVE k < n <=> k + 1 < n
    <3>1. n # k + 1
      BY <1>6, <1>17, <2>1
    <3>. QED BY <1>6, <3>1
  <2>2. Pendiente(p, j) <=> \E n \in 1..Len(s) : s[n] = j /\ k < n
    BY <1>5, <1>8 DEF Pendiente
  <2>3. Pendiente(p, j)' <=> \E n \in 1..Len(s) : s[n] = j /\ k + 1 < n
    BY <1>7, <1>8 DEF Pendiente
  <2>. QED BY <2>1, <2>2, <2>3
<1>18. hilo[p].fase \notin {"saca", "quita", "asigna", "copia"}
  BY <1>1
<1>19. PaginaEscrita(p, i, m)
  BY <1>14, <1>15, <1>16 DEF PaginaEscrita
<1>20. MarcoSolo(p, i, m)
  BY <1>11, <1>12, <1>13 DEF MarcoSolo
<1>. QED BY <1>2, <1>7, <1>17, <1>18, <1>19, <1>20, ContenidoEscrito

\* New pages have nothing to be lost.
LEMMA ContenidoCreaPaginas ==
  ASSUME ITipos, ContenidoBien, NEW p \in Pids, NEW n \in 1..MaxPaginas, CreaPaginas(p, n)
  PROVE  ContenidoBien'
<1>1. PICK ids : ids = generadorIdsPaginas(p, n)
  OBVIOUS
<1>2. PICK f \in {"empieza", "buscaMarcos"}, l \in Seq(Marcos) :
        Pasa(p, f, "alojado", hilo[p].pag, hilo[p].vuelve, hilo[p].victima, hilo[p].marco,
             l, ids, hilo[p].visitadas)
  BY <1>1, TiposCreaPaginas
<1>3. PICK u : u = tabla_de_paginas[p] \o ids
  OBVIOUS
<1>4. /\ ids \in Seq(Ids) /\ Range(ids) \cap PaginasDe(p) = {}
      /\ Range(u) = PaginasDe(p) \cup Range(ids)
  <2>1. contadorPag[p] + n <= MaxPaginas
    BY DEF CreaPaginas
  <2>. QED BY <1>1, <1>3, <2>1, NuevasEs
<1>5. /\ \A q \in Pids \ {p} : /\ tabla_de_paginas'[q] = tabla_de_paginas[q]
                               /\ pagina'[q] = pagina[q] /\ guardado'[q] = guardado[q]
      /\ PaginasDe(p)' = PaginasDe(p) \cup Range(ids)
      /\ \A i \in Ids : i \notin Range(ids) =>
           pagina'[p][i] = pagina[p][i] /\ guardado'[p][i] = guardado[p][i]
  <2>1. /\ tabla_de_paginas \in [Pids -> Seq(Ids)] /\ pagina \in [Pids -> [Ids -> TipoDePagina]]
        /\ guardado \in [Pids -> [Ids -> Contenidos]]
    BY DEF ITipos, TiposPag
  <2>2. /\ tabla_de_paginas' = [tabla_de_paginas EXCEPT ![p] = @ \o ids]
        /\ pagina' = [pagina EXCEPT ![p] =
                        [i \in Ids |-> IF i \in Range(ids) THEN pagina_nueva ELSE pagina[p][i]]]
        /\ guardado' = [guardado EXCEPT ![p] =
                          [i \in Ids |-> IF i \in Range(ids) THEN Vieja ELSE guardado[p][i]]]
    BY <1>1 DEF CreaPaginas
  <2>3. tabla_de_paginas'[p] = u
    BY <1>3, <2>1, <2>2
  <2>4. PaginasDe(p)' = PaginasDe(p) \cup Range(ids)
    BY <1>4, <2>3 DEF PaginasDe
  <2>. QED BY <2>1, <2>2, <2>4
<1>6. /\ \A q \in Pids \ {p} : hilo'[q] = hilo[q]
      /\ hilo'[p].fase = f /\ hilo'[p].nuevas = ids
      /\ swap = Nadie /\ hilo[p].fase = "recorre" /\ hilo[p].pedido = "alloc"
      /\ UNCHANGED <<memoriaPrincipal, copia>>
  BY <1>2 DEF Pasa, CreaPaginas
<1>7. \A i \in Ids : ~Pendiente(p, i)
  <2>1. hilo[p].nuevas = <<>>
    BY <1>6 DEF ITipos, Forma
  <2>. QED BY <2>1, SinPendientes
<1>8. \A i \in Ids : i \in Range(ids) => Pendiente(p, i)'
  <2>1. DOMAIN ids = 1..Len(ids)
    BY <1>4
  <2>2. ~Escribiendo(p)'
    BY <1>6 DEF Escribiendo, Dentro
  <2>. QED BY <1>6, <2>1, <2>2 DEF Pendiente, Range
<1>9. \A t \in Pids \ {p} : hilo[t].fase \notin {"saca", "quita"}
  BY <1>6, NadieMas DEF Dentro
<1>10. ASSUME NEW q \in Abiertos', NEW i \in PaginasDe(q)'
       PROVE  \/ AlDia(q, i)'
              \/ /\ q \in Abiertos /\ i \in PaginasDe(q)
                 /\ pagina'[q][i].presente = pagina[q][i].presente
                 /\ pagina'[q][i].marco = pagina[q][i].marco
                 /\ pagina'[q][i].modificado = pagina[q][i].modificado
                 /\ guardado'[q][i] = guardado[q][i]
                 /\ Pendiente(q, i) => Pendiente(q, i)'
  <2>1. q \in Pids /\ q \in Abiertos
    BY <1>6 DEF Abiertos
  <2>2. CASE q # p
    <3>1. i \in PaginasDe(q) /\ hilo'[q] = hilo[q]
      BY <1>5, <1>6, <2>1, <2>2 DEF PaginasDe
    <3>2. Pendiente(q, i) => Pendiente(q, i)'
      BY <3>1 DEF Pendiente, Escribiendo, Dentro
    <3>. QED BY <1>5, <2>1, <2>2, <3>1, <3>2
  <2>3. CASE q = p
    <3>1. i \in Ids
      BY <1>4, <1>5, <2>3, PaginasSon DEF Range
    <3>2. CASE i \in Range(ids)
      BY <1>8, <2>3, <3>1, <3>2 DEF AlDia
    <3>3. CASE i \notin Range(ids)
      BY <1>5, <1>7, <2>1, <2>3, <3>1, <3>3
    <3>. QED BY <3>2, <3>3
  <2>. QED BY <2>2, <2>3
<1>11. Copiada(p)' /\ Salida(p)'
  BY <1>6 DEF Copiada, Salida
<1>12. \A t \in Pids \ {p} : hilo[t].fase = "copia" =>
         pagina'[t][hilo[t].pag].modificado = pagina[t][hilo[t].pag].modificado
  BY <1>5
<1>. QED BY <1>6, <1>9, <1>10, <1>11, <1>12, ContenidoPaso

\* The pages of p are forgotten, and nobody is evicting one of them.
LEMMA ContenidoSinPaginas ==
  ASSUME ITipos, ContenidoBien, NEW p \in Pids, \A q \in Pids \ {p} : hilo'[q] = hilo[q],
         hilo[p].fase \in {"recorre", "cierraTLB"}, hilo'[p].fase \in {"libre", "fin"},
         Desalojan(p) = {}, UNCHANGED <<memoriaPrincipal, copia, guardado>>,
         \A q \in Pids \ {p} : pagina'[q] = pagina[q] /\ tabla_de_paginas'[q] = tabla_de_paginas[q],
         PaginasDe(p)' = {}
  PROVE  ContenidoBien'
<1>1. ASSUME NEW q \in Pids \ {p}
      PROVE  /\ hilo'[q] = hilo[q] /\ q \in Abiertos' => q \in Abiertos
             /\ PaginasDe(q)' = PaginasDe(q)
             /\ \A i : Pendiente(q, i)' <=> Pendiente(q, i)
  <2>1. hilo'[q] = hilo[q]
    OBVIOUS
  <2>. QED BY <2>1 DEF Abiertos, PaginasDe, Pendiente, Escribiendo, Dentro
<1>2. ASSUME NEW q \in Abiertos', NEW i \in PaginasDe(q)'
      PROVE  /\ q \in Abiertos /\ i \in PaginasDe(q)
             /\ pagina'[q][i].presente = pagina[q][i].presente
             /\ pagina'[q][i].marco = pagina[q][i].marco
             /\ pagina'[q][i].modificado = pagina[q][i].modificado
             /\ guardado'[q][i] = guardado[q][i]
             /\ Pendiente(q, i) => Pendiente(q, i)'
  <2>1. q \in Pids \ {p}
    BY DEF Abiertos
  <2>2. pagina'[q] = pagina[q]
    BY <2>1
  <2>. QED BY <1>1, <2>1, <2>2
<1>3. ASSUME NEW t \in Pids \ {p}, NEW q \in Pids, NEW i \in Ids,
             hilo[t].fase \in {"saca", "quita"}, hilo[t].victima = <<q, i>>
      PROVE  /\ pagina'[q][i].marco = pagina[q][i].marco
             /\ pagina'[q][i].modificado = pagina[q][i].modificado
             /\ Pendiente(q, i)' => Pendiente(q, i)
  <2>1. q # p
    BY <1>3, NadieDesaloja DEF Dentro
  <2>2. pagina'[q] = pagina[q]
    BY <2>1
  <2>. QED BY <1>1, <2>1, <2>2
<1>4. Copiada(p)' /\ Salida(p)'
  BY DEF Copiada, Salida
<1>5. \A t \in Pids \ {p} : hilo[t].fase = "copia" =>
        pagina'[t][hilo[t].pag].modificado = pagina[t][hilo[t].pag].modificado
  OBVIOUS
<1>6. hilo[p].fase # "copia" /\ hilo'[p].fase # "asigna"
  OBVIOUS
<1>. QED BY <1>2, <1>3, <1>4, <1>5, <1>6, ContenidoPaso

\* The pages of a carpincho are freed, which loses nothing of the others.
LEMMA ContenidoLibera ==
  ASSUME ITipos, ContenidoBien, NEW p \in Pids, LiberaTodo(p) \/ CierraTLB(p), fallas' = {}
  PROVE  ContenidoBien'
<1>1. /\ \A q \in Pids \ {p} : pagina'[q] = pagina[q] /\ tabla_de_paginas'[q] = tabla_de_paginas[q]
      /\ PaginasDe(p)' = {}
  BY PaginasNuevas DEF LiberaTodo, CierraTLB
<1>2. Desalojan(p) = {} /\ UNCHANGED <<memoriaPrincipal, copia, guardado>>
  BY DEF LiberaTodo, CierraTLB
<1>3. /\ \A q \in Pids \ {p} : hilo'[q] = hilo[q]
      /\ hilo[p].fase \in {"recorre", "cierraTLB"} /\ hilo'[p].fase \in {"libre", "fin"}
  <2>1. CASE LiberaTodo(p)
    BY <2>1, TiposLiberaTodo DEF LiberaTodo, Pasa
  <2>2. CASE CierraTLB(p)
    BY <2>2, TiposCierraTLB DEF CierraTLB, Pasa
  <2>. QED BY <2>1, <2>2
<1>. QED BY <1>1, <1>2, <1>3, ContenidoSinPaginas

\* The swap forgets the pages of a carpincho that has gone.
LEMMA ContenidoCierraSwap ==
  ASSUME ITipos, ContenidoBien, NEW p \in Pids, CierraSwap(p)
  PROVE  ContenidoBien'
<1>1. /\ \A q \in Pids \ {p} : hilo'[q] = hilo[q]
      /\ hilo'[p].fase = "cierraTLB" /\ hilo[p].fase = "cierraSwap"
      /\ hilo'[p].nuevas = hilo[p].nuevas
  BY TiposCierraSwap DEF CierraSwap, Pasa
<1>2. /\ UNCHANGED <<memoriaPrincipal, copia, pagina, tabla_de_paginas>>
      /\ \A q \in Pids \ {p} : guardado'[q] = guardado[q]
  BY DEF CierraSwap, ITipos, TiposPag
<1>3. \A i \in Ids : Pendiente(p, i)' <=> Pendiente(p, i)
  BY <1>1, MismosPendientes DEF Escribiendo, Dentro
<1>4. \A q \in Pids, i \in Ids : Pendiente(q, i)' <=> Pendiente(q, i)
  <2>1. ASSUME NEW q \in Pids \ {p}, NEW i \in Ids PROVE Pendiente(q, i)' <=> Pendiente(q, i)
    <3>1. hilo'[q] = hilo[q]
      BY <1>1
    <3>. QED BY <3>1 DEF Pendiente, Escribiendo, Dentro
  <2>. QED BY <1>3, <2>1
<1>5. ASSUME NEW q \in Abiertos', NEW i \in PaginasDe(q)'
      PROVE  q \in Abiertos /\ i \in PaginasDe(q) /\ (Pendiente(q, i) => Pendiente(q, i)')
             /\ guardado'[q][i] = guardado[q][i]
  <2>1. q \in Pids \ {p} /\ q \in Abiertos /\ i \in PaginasDe(q)
    BY <1>1, <1>2 DEF Abiertos, PaginasDe
  <2>. QED BY <1>2, <1>4, <2>1, PaginasSon
<1>6. Copiada(p)' /\ Salida(p)'
  BY <1>1 DEF Copiada, Salida
<1>. QED BY <1>1, <1>2, <1>4, <1>5, <1>6, ContenidoPaso

\* A suspension that stores no page.
LEMMA ContenidoSuspende ==
  ASSUME ITipos, ContenidoBien, NEW p \in Pids, Suspende(p), fallas' = {}
  PROVE  ContenidoBien'
<1>1. PICK S : S = Presentes(p)
  OBVIOUS
<1>2. S = {}
  BY <1>1 DEF Suspende
<1>3. guardado' = [guardado EXCEPT ![p] = [i \in Ids |->
        IF i \in S THEN memoriaPrincipal[pagina[p][i].marco] ELSE guardado[p][i]]]
  BY <1>1 DEF Suspende
<1>4. guardado \in [Pids -> [Ids -> Contenidos]]
  BY DEF ITipos, TiposPag
<1>5. guardado' = guardado
  <2>1. [i \in Ids |-> IF i \in S THEN memoriaPrincipal[pagina[p][i].marco] ELSE guardado[p][i]]
          = guardado[p]
    BY <1>2, <1>4
  <2>. QED BY <1>3, <1>4, <2>1
<1>. QED BY <1>5, ContenidoIguales DEF Suspende

\* Every step keeps what the pages hold, unless it brings a fault.
LEMMA ContenidoCadaPaso ==
  ASSUME ITipos, IMarcos, IContenido, [Next]_vars
  PROVE  IContenido'
<1>. SUFFICES ASSUME fallas' = {} PROVE ContenidoBien'
  BY DEF IContenido
<1>1. CASE UNCHANGED vars
  BY <1>1, ContenidoIguales DEF IContenido, vars
<1>2. CASE LimpiaTLB
  BY <1>2, ContenidoIguales DEF IContenido, LimpiaTLB, Sigue
<1>3. ASSUME NEW p \in Pids, NEW pedido \in {"acceso", "libera"}, Pide(p, pedido)
      PROVE  ContenidoBien'
  BY <1>3, ContenidoControl DEF IContenido, Pide, Puede, Sigue
<1>4. ASSUME NEW p \in Pids, NEW i \in Ids, Accede(p, i) \/ FundeCabecera(p, i)
      PROVE  ContenidoBien'
  <2>1. MarcosBien /\ ContenidoBien
    BY <1>4 DEF IMarcos, IContenido, Accede, FundeCabecera, Sigue
  <2>. QED BY <1>4, <2>1, ContenidoRecorre, ContenidoFunde
<1>5. ASSUME NEW p \in Pids,
             Inicializa(p) \/ AgregaATLB(p) \/ Usa(p) \/ LiberaTodo(p) \/ Termina(p) \/ Suspende(p)
      PROVE  ContenidoBien'
  <2>1. MarcosBien /\ ContenidoBien
    BY <1>5 DEF IMarcos, IContenido, Inicializa, AgregaATLB, Usa, LiberaTodo, Termina, Suspende,
                Puede, Sigue
  <2>. QED BY <1>5, <2>1, ContenidoControl, ContenidoRecorre, ContenidoUsa, ContenidoLibera,
              ContenidoSuspende
<1>6. ASSUME NEW p \in Pids, Reemplaza(p) PROVE ContenidoBien'
  <2>1. MarcosBien /\ ContenidoBien
    BY <1>6 DEF IMarcos, IContenido, Reemplaza, NoHayVictima, EligeVictimaLRU, EligeVictimaClock,
                SacaVictima, QuitaDeTLB, AsignaMarco, CopiaPagina, Sigue
  <2>2. CASE NoHayVictima(p)
    BY <2>1, <2>2, ContenidoIguales DEF NoHayVictima
  <2>. QED BY <1>6, <2>1, <2>2, ContenidoElige, ContenidoSacaVictima, ContenidoQuitaDeTLB,
              ContenidoAsignaMarco, ContenidoCopiaPagina DEF Reemplaza
<1>7. ASSUME NEW p \in Pids, Aloja(p) PROVE ContenidoBien'
  <2>1. fallas = {}
    BY <1>7 DEF Aloja, PideAlloc, ReservaFija, CreaPaginas, buscarMarcosLibres, EmpiezaAEscribir,
                EscribePagina, NoHayMarco, EscribeTrasDesalojar, OcupaMarco, TerminaDeEscribir,
                AgregaNueva, Puede, Sigue
  <2>2. Turno /\ MarcosBien /\ ContenidoBien
    BY <2>1 DEF IMarcos, IContenido
  <2>3. CASE NoHayMarco(p)
    BY <2>2, <2>3, ContenidoIguales DEF NoHayMarco
  <2>. QED BY <1>7, <2>2, <2>3, ContenidoControl, ContenidoCreaPaginas, ContenidoRecorre,
              ContenidoEscribe DEF Aloja
<1>8. ASSUME NEW p \in Pids, Cierra(p) PROVE ContenidoBien'
  <2>1. ContenidoBien
    BY <1>8 DEF IContenido, Cierra, BuscaMarcosALiberar, CierraMarcos, CierraLista, ListaCorta,
                CierraSwap, CierraTLB, Puede, Sigue
  <2>2. CASE ListaCorta(p)
    BY <2>1, <2>2, ContenidoIguales DEF ListaCorta
  <2>. QED BY <1>8, <2>1, <2>2, ContenidoControl, ContenidoCierraSwap, ContenidoLibera DEF Cierra
<1>. QED BY <1>1, <1>2, <1>3, <1>4, <1>5, <1>6, <1>7, <1>8 DEF Next

\* At the start there is no page to hold anything.
LEMMA ContenidoInit ==
  ASSUME Init
  PROVE  ContenidoBien
<1>1. \A p \in Pids : tabla_de_paginas[p] = <<>> /\ hilo[p].fase = "afuera"
  <2>1. /\ tabla_de_paginas = [p \in Pids |-> <<>>]
        /\ hilo = [p \in Pids |-> [hilo_libre EXCEPT !.fase = "afuera"]]
    BY DEF Init
  <2>. QED BY <2>1 DEF hilo_libre
<1>2. \A p \in Pids : PaginasDe(p) = {}
  BY <1>1 DEF PaginasDe, Range
<1>3. \A t \in Pids : Copiada(t) /\ Salida(t)
  BY <1>1 DEF Copiada, Salida
<1>. QED BY <1>2, <1>3 DEF ContenidoBien, Abiertos

\* SeLeeLoEscritoMem, whatever the number of carpinchos, frames, pages and entries.
THEOREM ContenidoDeLaMemoria == Spec => []SeLeeLoEscritoMem
<1>. DEFINE Inv == ITipos /\ IMarcos /\ ITLB /\ IContenido
<1>1. Init => Inv
  <2>1. Init => TLB = <<>>
    BY DEF Init
  <2>. QED BY <2>1, TiposInit, MarcosInit, TLBVacia, ContenidoInit DEF IMarcos, ITLB, IContenido
<1>2. Inv /\ [Next]_vars => Inv'
  BY TiposPaso, MarcosPaso, TLBCadaPaso, ContenidoCadaPaso
<1>3. Inv => SeLeeLoEscritoMem
  <2>. SUFFICES ASSUME ITipos, TLBBien, ContenidoBien, NEW p \in Pids, hilo[p].fase = "libre",
                       NEW i \in PaginasDe(p)
                PROVE  IF <<p, i>> \in Range(TLB) \/ pagina[p][i].presente
                       THEN memoriaPrincipal[pagina[p][i].marco] = <<p, i>>
                       ELSE guardado[p][i] = <<p, i>>
    BY DEF ITLB, IContenido, SeLeeLoEscritoMem
  <2>1. i \in Ids /\ p \in Abiertos
    BY PaginasSon DEF Abiertos
  <2>2. AlDia(p, i) /\ ~EnCopia(p, i)
    BY <2>1 DEF ContenidoBien, EnCopia
  <2>3. ~Pendiente(p, i)
    <3>1. hilo[p].nuevas = <<>>
      BY DEF ITipos, Forma
    <3>. QED BY <2>1, <3>1, SinPendientes
  <2>4. CASE pagina[p][i].presente
    BY <2>2, <2>3, <2>4 DEF AlDia
  <2>5. CASE ~pagina[p][i].presente /\ <<p, i>> \in Range(TLB)
    <3>1. EntradaBien(p, i)
      BY <2>1, <2>5 DEF TLBBien, EnTLB
    <3>2. PICK t \in Pids : hilo[t].fase = "quita" /\ hilo[t].victima = <<p, i>>
      BY <2>5, <3>1 DEF EntradaBien, Saliendo
    <3>3. pagina[p][i].marco = hilo[t].marco /\ memoriaPrincipal[hilo[t].marco] = <<p, i>>
      BY <2>2, <3>2 DEF ContenidoBien, Salida
    <3>. QED BY <2>5, <3>3
  <2>6. CASE ~pagina[p][i].presente /\ <<p, i>> \notin Range(TLB)
    BY <2>2, <2>3, <2>6 DEF AlDia
  <2>. QED BY <2>4, <2>5, <2>6
<1>. QED BY <1>1, <1>2, <1>3, PTL DEF Spec
=============================================================================
