----------------------------- MODULE SwampProofs -----------------------------
(***************************************************************************)
(* Swamp for any number of carpinchos, files, partitions and pages.        *)
(*                                                                         *)
(* The invariant is that of each file, and each carpincho in it: its       *)
(* partitions with content come first, no two hold the same page, and      *)
(* under DINAMICA all of them have content. That is why a read, which does *)
(* not look at hay_contenido, finds the stored page before a partition of  *)
(* the quota that still has the page number of its last owner.             *)
(***************************************************************************)
EXTENDS Swamp, FiniteSetTheorems, WellFoundedInduction, TLAPS

-----------------------------------------------------------------------------
(* Places in an order.                                                     *)

\* A set of natural numbers that is not empty has a least element.
LEMMA MinEs ==
  ASSUME NEW T, T \subseteq Nat, T # {}
  PROVE  Min(T) \in T /\ \A j \in T : Min(T) <= j
<1>1. IsWellFoundedOn(OpToRel(<, Nat), Nat)
  BY NatLessThanWellFounded
<1>2. PICK i \in T : \A j \in T : ~ (<<j, i>> \in OpToRel(<, Nat))
  BY <1>1, WFMin
<1>3. ASSUME NEW j \in T PROVE i <= j
  <2>1. i \in Nat /\ j \in Nat
    OBVIOUS
  <2>2. ~ (<<j, i>> \in OpToRel(<, Nat))
    BY <1>2
  <2>3. ~ (j < i)
    BY <2>1, <2>2 DEF OpToRel
  <2>. QED BY <2>1, <2>3
<1>. QED BY <1>3 DEF Min

\* In a finite set in a total order, as many elements as wanted come before
\* some element, and before it only.
LEMMA Puestos ==
  ASSUME NEW L, IsFiniteSet(L), NEW R,
         \A a \in L : <<a, a>> \notin R,
         \A a, b, c \in L : <<a, b>> \in R /\ <<b, c>> \in R => <<a, c>> \in R,
         \A a, b \in L : a # b => <<a, b>> \in R \/ <<b, a>> \in R
  PROVE  \E f \in [L -> 0..(Cardinality(L) - 1)] :
           /\ \A a \in L : f[a] = Cardinality({b \in L : <<b, a>> \in R})
           /\ \A a, b \in L : f[a] = f[b] => a = b
           /\ \A k \in 0..(Cardinality(L) - 1) : \E a \in L : f[a] = k
           /\ \A n \in 0..Cardinality(L) : Cardinality({a \in L : f[a] < n}) = n
<1>. DEFINE Antes(a) == {b \in L : <<b, a>> \in R}
            f == [a \in L |-> Cardinality(Antes(a))]
<1>1. PICK m \in Nat : m = Cardinality(L)
  BY FS_CardinalityType
<1>2. \A a \in L : IsFiniteSet(Antes(a)) /\ Cardinality(Antes(a)) \in 0..(m - 1)
  <2>1. TAKE a \in L
  <2>2. Antes(a) \in SUBSET (L \ {a})
    OBVIOUS
  <2>3. IsFiniteSet(L \ {a}) /\ Cardinality(L \ {a}) = m - 1
    BY <1>1, FS_RemoveElement
  <2>4. IsFiniteSet(Antes(a)) /\ Cardinality(Antes(a)) <= m - 1
    <3>. HIDE DEF Antes
    <3>. QED BY <2>2, <2>3, FS_Subset
  <2>5. Cardinality(Antes(a)) \in Nat
    <3>. HIDE DEF Antes
    <3>. QED BY <2>4, FS_CardinalityType
  <2>. HIDE DEF Antes
  <2>. QED BY <2>4, <2>5
<1>3. ASSUME NEW a \in L, NEW b \in L, <<a, b>> \in R
      PROVE  Cardinality(Antes(a)) < Cardinality(Antes(b))
  <2>1. Antes(a) \cup {a} \in SUBSET Antes(b)
    BY <1>3
  <2>2. a \notin Antes(a)
    OBVIOUS
  <2>. HIDE DEF Antes
  <2>3. IsFiniteSet(Antes(a)) /\ IsFiniteSet(Antes(b))
        /\ Cardinality(Antes(a)) \in Nat /\ Cardinality(Antes(b)) \in Nat
    BY <1>2
  <2>4. Cardinality(Antes(a) \cup {a}) = Cardinality(Antes(a)) + 1
    BY <2>2, <2>3, FS_AddElement
  <2>5. Cardinality(Antes(a) \cup {a}) <= Cardinality(Antes(b))
    BY <2>1, <2>3, FS_Subset
  <2>. QED BY <2>3, <2>4, <2>5
<1>4. f \in [L -> 0..(m - 1)] /\ \A a \in L : f[a] = Cardinality(Antes(a))
  <2>. HIDE DEF Antes
  <2>. QED BY <1>2
<1>5. \A a, b \in L : f[a] = f[b] => a = b
  <2>1. SUFFICES ASSUME NEW a \in L, NEW b \in L, a # b
                 PROVE  f[a] # f[b]
    OBVIOUS
  <2>2. Cardinality(Antes(a)) < Cardinality(Antes(b)) \/ Cardinality(Antes(b)) < Cardinality(Antes(a))
    <3>1. <<a, b>> \in R \/ <<b, a>> \in R
      BY <2>1
    <3>. HIDE DEF Antes
    <3>. QED BY <1>3, <3>1
  <2>. HIDE DEF Antes, f
  <2>3. Cardinality(Antes(a)) \in Nat /\ Cardinality(Antes(b)) \in Nat
    BY <1>2
  <2>. QED BY <2>2, <2>3, <1>4
<1>6. \A k \in 0..(m - 1) : \E a \in L : f[a] = k
  <2>. HIDE DEF f
  <2>1. f \in Injection(L, 0..(m - 1))
    BY <1>4, <1>5 DEF Injection, IsInjective
  <2>2. IsFiniteSet(0..(m - 1)) /\ Cardinality(0..(m - 1)) = m
    <3>1. 0 \in Int /\ m - 1 \in Int
      OBVIOUS
    <3>2. IsFiniteSet(0..(m - 1)) /\ Cardinality(0..(m - 1)) = IF 0 > m - 1 THEN 0 ELSE m - 1 - 0 + 1
      BY <3>1, FS_Interval
    <3>. QED BY <3>2
  <2>3. f \in Surjection(L, 0..(m - 1))
    BY <2>1, <2>2, <1>1, FS_Injection
  <2>. QED BY <2>3 DEF Surjection
<1>7. \A n \in 0..m : Cardinality({a \in L : f[a] < n}) = n
  <2>. HIDE DEF f
  <2>1. TAKE n \in 0..m
  <2>. DEFINE S == {a \in L : f[a] < n}
              g == [a \in S |-> f[a]]
  <2>2. \A a \in S : f[a] \in 0..(n - 1)
    BY <1>4
  <2>3. g \in [S -> 0..(n - 1)]
    BY <2>2
  <2>4. \A a, b \in S : g[a] = g[b] => a = b
    BY <1>5
  <2>5. \A k \in 0..(n - 1) : \E a \in S : g[a] = k
    <3>1. TAKE k \in 0..(n - 1)
    <3>2. PICK a \in L : f[a] = k
      BY <1>6
    <3>3. a \in S
      BY <3>2
    <3>. QED BY <3>2, <3>3
  <2>6. IsFiniteSet(S)
    <3>1. S \in SUBSET L
      OBVIOUS
    <3>. QED BY <3>1, FS_Subset
  <2>. HIDE DEF S, g
  <2>7. g \in Bijection(S, 0..(n - 1))
    BY <2>3, <2>4, <2>5 DEF Bijection, Injection, Surjection, IsInjective
  <2>8. Cardinality(0..(n - 1)) = Cardinality(S)
    BY <2>6, <2>7, FS_Bijection DEF ExistsBijection
  <2>9. Cardinality(0..(n - 1)) = n
    <3>1. 0 \in Int /\ n - 1 \in Int
      OBVIOUS
    <3>2. Cardinality(0..(n - 1)) = IF 0 > n - 1 THEN 0 ELSE n - 1 - 0 + 1
      BY <3>1, FS_Interval
    <3>. QED BY <3>2
  <2>. QED BY <2>8, <2>9 DEF S
<1>. HIDE DEF f
<1>. QED BY <1>1, <1>4, <1>5, <1>6, <1>7

-----------------------------------------------------------------------------
(* The partitions of the files, as a value.                                *)

Posiciones == 1..CantParticiones
Tabla == [Posiciones -> Particion]

\* The partitions of a carpincho with content come first, and hold different
\* pages.
EnOrden(ps) ==
  \A pid \in Pids : \A i, j \in Suyas(ps, pid) :
    ps[j].hay_contenido = 1 =>
      /\ i < j => ps[i].hay_contenido = 1
      /\ ps[i].hay_contenido = 1 /\ ps[i].num_pagina = ps[j].num_pagina => i = j

\* Under DINAMICA a partition is taken to be written.
Llenas(ps) == \A pid \in Pids : ParaEscribir(ps, pid) = {}

TablaOK(ps, tipo) ==
  ps \in Tabla /\ EnOrden(ps) /\ (tipo = DINAMICA => Llenas(ps))

CuotaEn(ps, tipo, pid) ==
  tipo = FIJA /\ Suyas(ps, pid) # {} => Cardinality(Suyas(ps, pid)) = marcos_maximos

ParticionesOK(P, tipo) ==
  /\ P \in [Archivos -> Tabla]
  /\ \A a \in Archivos : TablaOK(P[a], tipo)
  /\ \A pid \in Pids, a, b \in Archivos :
       Suyas(P[a], pid) # {} /\ Suyas(P[b], pid) # {} => a = b
  /\ \A pid \in Pids, a \in Archivos : CuotaEn(P[a], tipo, pid)

\* The inductive invariant.
IInv ==
  /\ TypeOK
  /\ \A pid \in Pids : paginas[pid] + concedidas[pid] <= MaxPaginas
  /\ ParticionesOK(particiones, tipo_asignacion)

\* What a write of a page does to the partitions of the file: those of the
\* other carpinchos stay, and of its own, those of other pages; what is stored
\* of the page is what was written.
Cambia(ps, qs, pid, pag, v) ==
  /\ \A p \in Pids \ {pid} : \A i \in Posiciones :
       i \in Suyas(ps, p) \/ i \in Suyas(qs, p) => qs[i] = ps[i]
  /\ \A i \in Suyas(ps, pid) :
       /\ i \in Suyas(qs, pid)
       /\ ps[i].hay_contenido = 1 =>
            /\ qs[i].hay_contenido = 1 /\ qs[i].num_pagina = ps[i].num_pagina
            /\ ps[i].num_pagina # pag => qs[i] = ps[i]
  /\ \A i \in Suyas(qs, pid) : qs[i].hay_contenido = 1 =>
       IF qs[i].num_pagina = pag THEN qs[i].contenido = v
       ELSE i \in Suyas(ps, pid) /\ qs[i] = ps[i]

-----------------------------------------------------------------------------
(* What the operations do to the partitions of one file.                   *)

\* The fields of a partition of a file, and whose it is.
LEMMA Campos ==
  ASSUME NEW ps \in Tabla
  PROVE  /\ DOMAIN ps = Posiciones /\ Len(ps) = CantParticiones
         /\ \A i \in Posiciones :
              /\ ps[i] \in Particion
              /\ ps[i].esta_libre \in {0, 1} /\ ps[i].hay_contenido \in {0, 1}
              /\ ps[i].pid \in {-1} \cup Pids /\ ps[i].contenido \in Contenidos
         /\ pagina_libre(ps) = {i \in Posiciones : ps[i].esta_libre = 1}
         /\ \A pid : Suyas(ps, pid) = {i \in Posiciones : EsDe(pid, ps[i])}
<1>1. CantParticiones \in Nat
  BY SwampOK
<1>2. DOMAIN ps = Posiciones /\ \A i \in Posiciones : ps[i] \in Particion
  BY DEF Tabla
<1>3. Len(ps) = CantParticiones
  BY <1>1, <1>2 DEF Posiciones, Tabla
<1>4. 1..Len(ps) = Posiciones
  BY <1>3 DEF Posiciones
<1>. QED BY <1>2, <1>3, <1>4 DEF Particion, pagina_libre, Suyas

\* Giving partitions away changes whose they are, and takes their content.
LEMMA AsignaHace ==
  ASSUME NEW ps \in Tabla, NEW pid \in Pids, NEW is \in SUBSET pagina_libre(ps)
  PROVE  /\ Asigna(ps, is, pid) \in Tabla
         /\ \A i \in Posiciones \ is : Asigna(ps, is, pid)[i] = ps[i]
         /\ \A i \in is : Asigna(ps, is, pid)[i].hay_contenido = 0
         /\ Suyas(Asigna(ps, is, pid), pid) = Suyas(ps, pid) \cup is
         /\ Suyas(ps, pid) \cap is = {}
         /\ \A p \in Pids \ {pid} :
              Suyas(Asigna(ps, is, pid), p) = Suyas(ps, p) /\ Suyas(ps, p) \cap is = {}
<1>1. PICK qs : qs = Asigna(ps, is, pid)
  OBVIOUS
<1>2. /\ DOMAIN ps = Posiciones
      /\ is \in SUBSET Posiciones
      /\ \A i \in is : ps[i].esta_libre = 1
      /\ \A i \in Posiciones : ps[i] \in Particion
  BY Campos
<1>3. /\ DOMAIN qs = Posiciones
      /\ \A i \in Posiciones \ is : qs[i] = ps[i]
      /\ \A i \in is : qs[i] = [ps[i] EXCEPT !.esta_libre = 0, !.hay_contenido = 0, !.pid = pid]
  BY <1>1, <1>2 DEF Asigna
<1>4. \A i \in is : qs[i] \in Particion /\ qs[i].esta_libre = 0 /\ qs[i].hay_contenido = 0
                  /\ qs[i].pid = pid
  <2>1. TAKE i \in is
  <2>2. ps[i] \in Particion /\ i \in Posiciones
    BY <1>2
  <2>3. qs[i] = [ps[i] EXCEPT !.esta_libre = 0, !.hay_contenido = 0, !.pid = pid]
    BY <1>3
  <2>. QED BY <2>2, <2>3 DEF Particion
<1>5. qs \in Tabla
  <2>1. qs = [i \in Posiciones |-> qs[i]]
    BY <1>1, <1>2 DEF Asigna
  <2>2. \A i \in Posiciones : qs[i] \in Particion
    BY <1>2, <1>3, <1>4
  <2>. QED BY <2>1, <2>2 DEF Tabla
<1>6. \A p : Suyas(ps, p) = {i \in Posiciones : EsDe(p, ps[i])}
  BY Campos
<1>7. \A p : Suyas(qs, p) = {i \in Posiciones : EsDe(p, qs[i])}
  BY <1>5, Campos
<1>8. \A p : Suyas(ps, p) \cap is = {}
  BY <1>2, <1>6 DEF EsDe
<1>9. Suyas(qs, pid) = Suyas(ps, pid) \cup is
  <2>1. \A i \in is : EsDe(pid, qs[i]) /\ i \in Posiciones
    BY <1>2, <1>4 DEF EsDe
  <2>2. \A i \in Posiciones \ is : EsDe(pid, qs[i]) <=> EsDe(pid, ps[i])
    BY <1>3
  <2>3. Suyas(ps, pid) = {i \in Posiciones : EsDe(pid, ps[i])}
    BY <1>6
  <2>4. Suyas(qs, pid) = {i \in Posiciones : EsDe(pid, qs[i])}
    BY <1>7
  <2>. QED BY <2>1, <2>2, <2>3, <2>4
<1>10. ASSUME NEW p \in Pids \ {pid} PROVE Suyas(qs, p) = Suyas(ps, p)
  <2>1. \A i \in is : ~ EsDe(p, qs[i]) /\ ~ EsDe(p, ps[i])
    BY <1>2, <1>4 DEF EsDe
  <2>. QED BY <1>3, <1>6, <1>7, <2>1
<1>. QED BY <1>1, <1>3, <1>4, <1>5, <1>8, <1>9, <1>10

\* Writing a page changes the partition it is written on.
LEMMA EscribeHace ==
  ASSUME NEW ps \in Tabla, NEW i \in Posiciones,
         NEW pag \in 0..(MaxPaginas - 1), NEW v \in Contenidos
  PROVE  /\ Escribe(ps, i, pag, v) \in Tabla
         /\ \A j \in Posiciones \ {i} : Escribe(ps, i, pag, v)[j] = ps[j]
         /\ Escribe(ps, i, pag, v)[i].hay_contenido = 1
         /\ Escribe(ps, i, pag, v)[i].num_pagina = pag
         /\ Escribe(ps, i, pag, v)[i].contenido = v
         /\ \A p : Suyas(Escribe(ps, i, pag, v), p) = Suyas(ps, p)
<1>1. PICK qs : qs = Escribe(ps, i, pag, v)
  OBVIOUS
<1>2. DOMAIN ps = Posiciones /\ \A j \in Posiciones : ps[j] \in Particion
  BY Campos
<1>3. /\ DOMAIN qs = Posiciones
      /\ \A j \in Posiciones \ {i} : qs[j] = ps[j]
      /\ qs[i] = [ps[i] EXCEPT !.hay_contenido = 1, !.num_pagina = pag, !.contenido = v]
  BY <1>1, <1>2 DEF Escribe, Particion
<1>4. /\ qs[i] \in Particion /\ qs[i].hay_contenido = 1 /\ qs[i].num_pagina = pag
      /\ qs[i].contenido = v /\ qs[i].esta_libre = ps[i].esta_libre /\ qs[i].pid = ps[i].pid
  BY <1>2, <1>3 DEF Particion
<1>5. qs \in Tabla
  <2>1. qs = [j \in Posiciones |-> qs[j]]
    BY <1>1, <1>2 DEF Escribe
  <2>2. \A j \in Posiciones : qs[j] \in Particion
    BY <1>2, <1>3, <1>4
  <2>. QED BY <2>1, <2>2 DEF Tabla
<1>6. \A p : Suyas(qs, p) = Suyas(ps, p)
  <2>1. \A p : Suyas(ps, p) = {j \in Posiciones : EsDe(p, ps[j])}
    BY Campos
  <2>2. \A p : Suyas(qs, p) = {j \in Posiciones : EsDe(p, qs[j])}
    BY <1>5, Campos
  <2>3. \A p : \A j \in Posiciones : EsDe(p, qs[j]) <=> EsDe(p, ps[j])
    <3>1. TAKE p
    <3>2. TAKE j \in Posiciones
    <3>3. qs[j].esta_libre = ps[j].esta_libre /\ qs[j].pid = ps[j].pid
      BY <1>3, <1>4
    <3>. QED BY <3>3 DEF EsDe
  <2>. QED BY <2>1, <2>2, <2>3
<1>. QED BY <1>1, <1>3, <1>4, <1>5, <1>6

\* A write of a page that is stored.
ConContenido(ps, i, v) == [ps EXCEPT ![i].contenido = v]

\* It changes the content only.
LEMMA Sobreescribe ==
  ASSUME NEW tipo, NEW ps, TablaOK(ps, tipo), NEW pid \in Pids,
         NEW pag \in 0..(MaxPaginas - 1), NEW v \in Contenidos,
         NEW i \in ParaSobreescribir(ps, pid, pag),
         NEW qs, qs = ConContenido(ps, i, v)
  PROVE  /\ TablaOK(qs, tipo)
         /\ Cambia(ps, qs, pid, pag, v)
         /\ \A p : Suyas(qs, p) = Suyas(ps, p)
<1>1. qs = [ps EXCEPT ![i].contenido = v]
  BY DEF ConContenido
<1>2. ps \in Tabla
  BY DEF TablaOK
<1>3. DOMAIN ps = Posiciones /\ \A j \in Posiciones : ps[j] \in Particion
  BY <1>2, Campos
<1>4. \A p : Suyas(ps, p) = {j \in Posiciones : EsDe(p, ps[j])}
  BY <1>2, Campos
<1>5. /\ i \in Posiciones /\ i \in Suyas(ps, pid)
      /\ ps[i].hay_contenido = 1 /\ ps[i].num_pagina = pag
  BY <1>4 DEF ParaSobreescribir
<1>6. /\ DOMAIN qs = Posiciones
      /\ \A j \in Posiciones \ {i} : qs[j] = ps[j]
      /\ qs[i] = [ps[i] EXCEPT !.contenido = v]
  BY <1>1, <1>3, <1>5
<1>7. /\ qs[i] \in Particion /\ qs[i].contenido = v
      /\ qs[i].hay_contenido = 1 /\ qs[i].num_pagina = pag
      /\ qs[i].esta_libre = ps[i].esta_libre /\ qs[i].pid = ps[i].pid
  BY <1>3, <1>5, <1>6 DEF Particion
<1>8. qs \in Tabla
  <2>1. qs = [j \in Posiciones |-> qs[j]]
    BY <1>1, <1>3
  <2>2. \A j \in Posiciones : qs[j] \in Particion
    BY <1>3, <1>6, <1>7
  <2>. QED BY <2>1, <2>2 DEF Tabla
<1>9. \A j \in Posiciones :
        qs[j].hay_contenido = ps[j].hay_contenido /\ qs[j].num_pagina = ps[j].num_pagina
  BY <1>5, <1>6, <1>7
<1>10. \A p : Suyas(qs, p) = Suyas(ps, p)
  <2>1. \A p : Suyas(qs, p) = {j \in Posiciones : EsDe(p, qs[j])}
    BY <1>8, Campos
  <2>2. \A p : \A j \in Posiciones : EsDe(p, qs[j]) <=> EsDe(p, ps[j])
    <3>1. TAKE p
    <3>2. TAKE j \in Posiciones
    <3>3. qs[j].esta_libre = ps[j].esta_libre /\ qs[j].pid = ps[j].pid
      BY <1>6, <1>7
    <3>. QED BY <3>3 DEF EsDe
  <2>. QED BY <1>4, <2>1, <2>2
<1>11. \A p : Suyas(ps, p) \in SUBSET Posiciones
  BY <1>4
<1>12. EnOrden(qs)
  <2>1. EnOrden(ps)
    BY DEF TablaOK
  <2>. QED BY <1>9, <1>10, <1>11, <2>1 DEF EnOrden
<1>13. tipo = DINAMICA => Llenas(qs)
  <2>1. tipo = DINAMICA => Llenas(ps)
    BY DEF TablaOK
  <2>. QED BY <1>9, <1>10, <1>11, <2>1 DEF Llenas, ParaEscribir
<1>14. Cambia(ps, qs, pid, pag, v)
  <2>1. ASSUME NEW p \in Pids \ {pid}, NEW j \in Posiciones, j \in Suyas(ps, p) \/ j \in Suyas(qs, p)
        PROVE  qs[j] = ps[j]
    <3>1. EsDe(p, ps[j]) /\ EsDe(pid, ps[i])
      BY <1>4, <1>5, <1>10, <2>1
    <3>2. j # i
      BY <3>1 DEF EsDe
    <3>. QED BY <1>6, <3>2
  <2>2. ASSUME NEW j \in Suyas(ps, pid)
        PROVE  /\ j \in Suyas(qs, pid)
               /\ qs[j].hay_contenido = ps[j].hay_contenido
               /\ qs[j].num_pagina = ps[j].num_pagina
               /\ ps[j].num_pagina # pag => qs[j] = ps[j]
    <3>1. j \in Posiciones /\ j \in Suyas(qs, pid)
      BY <1>10, <1>11
    <3>. QED BY <1>5, <1>6, <1>9, <3>1
  <2>3. ASSUME NEW j \in Suyas(qs, pid), qs[j].hay_contenido = 1
        PROVE  IF qs[j].num_pagina = pag THEN qs[j].contenido = v
               ELSE j \in Suyas(ps, pid) /\ qs[j] = ps[j]
    <3>1. j \in Posiciones /\ j \in Suyas(ps, pid)
      BY <1>10, <1>11
    <3>2. CASE j = i
      BY <1>7, <3>2
    <3>3. CASE j # i /\ ps[j].num_pagina = pag
      <4>1. ps[j].hay_contenido = 1
        BY <1>9, <2>3, <3>1
      <4>2. EnOrden(ps)
        BY DEF TablaOK
      <4>3. j = i
        BY <1>5, <3>1, <3>3, <4>1, <4>2 DEF EnOrden
      <4>. QED BY <3>3, <4>3
    <3>4. CASE j # i /\ ps[j].num_pagina # pag
      BY <1>6, <3>1, <3>4
    <3>. QED BY <3>2, <3>3, <3>4
  <2>. QED BY <2>1, <2>2, <2>3 DEF Cambia
<1>. QED BY <1>1, <1>8, <1>10, <1>12, <1>13, <1>14 DEF TablaOK

\* A write of a page that is not stored, under FIJA: on the first partition of
\* the carpincho with no content.
LEMMA EscribeLaPrimera ==
  ASSUME NEW ps, TablaOK(ps, FIJA), NEW pid \in Pids,
         NEW pag \in 0..(MaxPaginas - 1), NEW v \in Contenidos,
         ParaSobreescribir(ps, pid, pag) = {},
         NEW i \in ParaEscribir(ps, pid), \A j \in ParaEscribir(ps, pid) : i <= j
  PROVE  /\ TablaOK(Escribe(ps, i, pag, v), FIJA)
         /\ Cambia(ps, Escribe(ps, i, pag, v), pid, pag, v)
         /\ \A p : Suyas(Escribe(ps, i, pag, v), p) = Suyas(ps, p)
<1>1. PICK qs : qs = Escribe(ps, i, pag, v)
  OBVIOUS
<1>2. ps \in Tabla
  BY DEF TablaOK
<1>3. \A p : Suyas(ps, p) = {j \in Posiciones : EsDe(p, ps[j])}
  BY <1>2, Campos
<1>4. i \in Posiciones /\ i \in Suyas(ps, pid) /\ ps[i].hay_contenido = 0
  BY <1>3 DEF ParaEscribir
<1>5. /\ qs \in Tabla
      /\ \A j \in Posiciones \ {i} : qs[j] = ps[j]
      /\ qs[i].hay_contenido = 1 /\ qs[i].num_pagina = pag /\ qs[i].contenido = v
      /\ \A p : Suyas(qs, p) = Suyas(ps, p)
  BY <1>1, <1>2, <1>4, EscribeHace
<1>6. \A p : Suyas(ps, p) \in SUBSET Posiciones
  BY <1>3
<1>7. \A j \in Posiciones : ps[j].hay_contenido \in {0, 1}
  BY <1>2, Campos
<1>8. \A j \in Suyas(ps, pid) : ps[j].hay_contenido = 1 => ps[j].num_pagina # pag
  BY DEF ParaSobreescribir
<1>9. \A j \in Suyas(ps, pid) : j < i => ps[j].hay_contenido = 1
  <2>1. TAKE j \in Suyas(ps, pid)
  <2>2. j \in Posiciones /\ ps[j].hay_contenido \in {0, 1}
    BY <1>6, <1>7
  <2>3. j \in Int /\ i \in Int
    BY <1>4, <2>2 DEF Posiciones
  <2>4. ps[j].hay_contenido = 0 => i <= j
    BY DEF ParaEscribir
  <2>. QED BY <2>2, <2>3, <2>4
<1>10. \A p \in Pids \ {pid} : i \notin Suyas(ps, p)
  BY <1>3, <1>4 DEF EsDe
<1>11. EnOrden(qs)
  <2>1. SUFFICES ASSUME NEW p \in Pids, NEW j \in Suyas(ps, p), NEW k \in Suyas(ps, p),
                        qs[k].hay_contenido = 1
                 PROVE  /\ j < k => qs[j].hay_contenido = 1
                        /\ qs[j].hay_contenido = 1 /\ qs[j].num_pagina = qs[k].num_pagina => j = k
    BY <1>5 DEF EnOrden
  <2>2. EnOrden(ps)
    BY DEF TablaOK
  <2>3. j \in Posiciones /\ k \in Posiciones
    BY <1>6
  <2>4. CASE k # i /\ j # i
    BY <1>5, <2>1, <2>2, <2>3, <2>4 DEF EnOrden
  <2>5. CASE k = i
    <3>1. p = pid
      BY <1>10, <2>5
    <3>2. j \in Suyas(ps, pid)
      BY <3>1
    <3>. QED BY <1>5, <1>8, <1>9, <2>3, <2>5, <3>2
  <2>6. CASE k # i /\ j = i
    <3>1. p = pid
      BY <1>10, <2>6
    <3>2. k \in Suyas(ps, pid)
      BY <3>1
    <3>3. ps[k].hay_contenido = 1
      BY <1>5, <2>1, <2>3, <2>6
    <3>. QED BY <1>5, <1>8, <2>3, <2>6, <3>2, <3>3
  <2>. QED BY <2>4, <2>5, <2>6
<1>12. Cambia(ps, qs, pid, pag, v)
  <2>1. \A p \in Pids \ {pid} : \A j \in Posiciones :
          j \in Suyas(ps, p) \/ j \in Suyas(qs, p) => qs[j] = ps[j]
    BY <1>5, <1>10
  <2>2. ASSUME NEW j \in Suyas(ps, pid)
        PROVE  /\ j \in Suyas(qs, pid)
               /\ ps[j].hay_contenido = 1 => qs[j] = ps[j]
    BY <1>4, <1>5, <1>6
  <2>3. ASSUME NEW j \in Suyas(qs, pid), qs[j].hay_contenido = 1
        PROVE  IF qs[j].num_pagina = pag THEN qs[j].contenido = v
               ELSE j \in Suyas(ps, pid) /\ qs[j] = ps[j]
    <3>1. j \in Posiciones /\ j \in Suyas(ps, pid)
      BY <1>5, <1>6
    <3>. QED BY <1>5, <1>8, <2>3, <3>1
  <2>. QED BY <2>1, <2>2, <2>3 DEF Cambia
<1>13. FIJA # DINAMICA
  BY DEF FIJA, DINAMICA
<1>. QED BY <1>1, <1>5, <1>11, <1>12, <1>13 DEF TablaOK

\* A write of a page that is not stored, under DINAMICA: on the partition that
\* is taken for it.
LEMMA EscribeLaTomada ==
  ASSUME NEW ps, TablaOK(ps, DINAMICA), NEW pid \in Pids,
         NEW pag \in 0..(MaxPaginas - 1), NEW v \in Contenidos,
         ParaSobreescribir(ps, pid, pag) = {}, NEW k \in pagina_libre(ps)
  PROVE  /\ ParaEscribir(Asigna(ps, {k}, pid), pid) = {k}
         /\ TablaOK(Escribe(Asigna(ps, {k}, pid), k, pag, v), DINAMICA)
         /\ Cambia(ps, Escribe(Asigna(ps, {k}, pid), k, pag, v), pid, pag, v)
         /\ \A p \in Pids \ {pid} :
              Suyas(Escribe(Asigna(ps, {k}, pid), k, pag, v), p) = Suyas(ps, p)
<1>1. PICK rs : rs = Asigna(ps, {k}, pid)
  OBVIOUS
<1>2. PICK qs : qs = Escribe(rs, k, pag, v)
  OBVIOUS
<1>3. ps \in Tabla /\ Llenas(ps)
  BY DEF TablaOK
<1>4. \A p : Suyas(ps, p) = {j \in Posiciones : EsDe(p, ps[j])}
  BY <1>3, Campos
<1>5. k \in Posiciones
  BY <1>3, Campos
<1>6. {k} \in SUBSET pagina_libre(ps)
  OBVIOUS
<1>7. /\ rs \in Tabla
      /\ \A j \in Posiciones \ {k} : rs[j] = ps[j]
      /\ rs[k].hay_contenido = 0
      /\ Suyas(rs, pid) = Suyas(ps, pid) \cup {k}
      /\ Suyas(ps, pid) \cap {k} = {}
      /\ \A p \in Pids \ {pid} : Suyas(rs, p) = Suyas(ps, p) /\ Suyas(ps, p) \cap {k} = {}
  <2>1. k \in {k}
    OBVIOUS
  <2>. QED BY <1>1, <1>3, <1>6, <2>1, AsignaHace
<1>8. /\ qs \in Tabla
      /\ \A j \in Posiciones \ {k} : qs[j] = rs[j]
      /\ qs[k].hay_contenido = 1 /\ qs[k].num_pagina = pag /\ qs[k].contenido = v
      /\ \A p : Suyas(qs, p) = Suyas(rs, p)
  BY <1>2, <1>5, <1>7, EscribeHace
<1>9. /\ \A j \in Posiciones \ {k} : qs[j] = ps[j]
      /\ Suyas(qs, pid) = Suyas(ps, pid) \cup {k}
      /\ \A p \in Pids \ {pid} : Suyas(qs, p) = Suyas(ps, p)
  BY <1>7, <1>8
<1>10. \A p : Suyas(ps, p) \in SUBSET Posiciones
  BY <1>4
<1>11. \A p \in Pids : k \notin Suyas(ps, p)
  BY <1>7
<1>12. \A p \in Pids : \A j \in Suyas(ps, p) : ps[j].hay_contenido # 0
  BY <1>3 DEF Llenas, ParaEscribir
<1>13. \A j \in Posiciones : ps[j].hay_contenido \in {0, 1}
  BY <1>3, Campos
<1>14. \A p \in Pids : \A j \in Suyas(ps, p) : ps[j].hay_contenido = 1
  BY <1>10, <1>12, <1>13
<1>15. ParaEscribir(rs, pid) = {k}
  <2>1. \A j \in Suyas(ps, pid) : rs[j].hay_contenido # 0
    BY <1>7, <1>10, <1>11, <1>12
  <2>. QED BY <1>7, <2>1 DEF ParaEscribir
<1>16. \A p \in Pids : \A j \in Suyas(qs, p) : qs[j].hay_contenido = 1
  <2>1. SUFFICES ASSUME NEW p \in Pids, NEW j \in Suyas(qs, p)
                 PROVE  qs[j].hay_contenido = 1
    OBVIOUS
  <2>2. CASE j = k
    BY <1>8, <2>2
  <2>3. CASE j # k
    <3>1. j \in Suyas(ps, p)
      BY <1>9, <2>3
    <3>. QED BY <1>9, <1>10, <1>14, <2>3, <3>1
  <2>. QED BY <2>2, <2>3
<1>17. Llenas(qs)
  BY <1>16 DEF Llenas, ParaEscribir
<1>18. \A j \in Suyas(ps, pid) : ps[j].num_pagina # pag
  BY <1>14 DEF ParaSobreescribir
<1>19. EnOrden(qs)
  <2>1. SUFFICES ASSUME NEW p \in Pids, NEW j \in Suyas(qs, p), NEW l \in Suyas(qs, p),
                        qs[j].num_pagina = qs[l].num_pagina
                 PROVE  j = l
    BY <1>16 DEF EnOrden
  <2>2. EnOrden(ps)
    BY <1>3 DEF TablaOK
  <2>3. CASE j # k /\ l # k
    <3>1. j \in Suyas(ps, p) /\ l \in Suyas(ps, p)
      BY <1>9, <2>3
    <3>2. qs[j] = ps[j] /\ qs[l] = ps[l]
      BY <1>9, <1>10, <2>3, <3>1
    <3>. QED BY <1>14, <2>1, <2>2, <3>1, <3>2 DEF EnOrden
  <2>4. CASE j = k \/ l = k
    <3>1. p = pid
      BY <1>9, <1>11, <2>4
    <3>2. \A m \in Suyas(qs, pid) : m # k => qs[m].num_pagina # pag
      BY <1>9, <1>10, <1>18
    <3>. QED BY <1>8, <2>1, <2>4, <3>1, <3>2
  <2>. QED BY <2>3, <2>4
<1>20. Cambia(ps, qs, pid, pag, v)
  <2>1. \A p \in Pids \ {pid} : \A j \in Posiciones :
          j \in Suyas(ps, p) \/ j \in Suyas(qs, p) => qs[j] = ps[j]
    BY <1>9, <1>11
  <2>2. \A j \in Suyas(ps, pid) : j \in Suyas(qs, pid) /\ qs[j] = ps[j]
    BY <1>9, <1>10, <1>11
  <2>3. ASSUME NEW j \in Suyas(qs, pid)
        PROVE  IF qs[j].num_pagina = pag THEN qs[j].contenido = v
               ELSE j \in Suyas(ps, pid) /\ qs[j] = ps[j]
    <3>1. CASE j = k
      BY <1>8, <3>1
    <3>2. CASE j # k
      <4>1. j \in Suyas(ps, pid)
        BY <1>9, <3>2
      <4>. QED BY <1>18, <2>2, <4>1
    <3>. QED BY <3>1, <3>2
  <2>. QED BY <2>1, <2>2, <2>3 DEF Cambia
<1>. QED BY <1>1, <1>2, <1>8, <1>9, <1>15, <1>17, <1>19, <1>20 DEF TablaOK

\* The first n free partitions are n, if there are as many.
LEMMA CuantasPrimeras ==
  ASSUME NEW ps \in Tabla, NEW n \in Nat, n <= Cardinality(pagina_libre(ps))
  PROVE  Cardinality(PrimerasLibres(ps, n)) = n
<1>1. PICK L : L = pagina_libre(ps)
  OBVIOUS
<1>2. PICK R : R = {c \in L \X L : c[1] < c[2]}
  OBVIOUS
<1>3. L \in SUBSET Posiciones
  BY <1>1, Campos
<1>4. L \in SUBSET Int /\ IsFiniteSet(L)
  <2>1. CantParticiones \in Int /\ 1 \in Int
    BY SwampOK
  <2>2. IsFiniteSet(Posiciones)
    BY <2>1, FS_Interval DEF Posiciones
  <2>3. IsFiniteSet(L)
    BY <1>3, <2>2, FS_Subset
  <2>. QED BY <1>3, <2>1, <2>3 DEF Posiciones
<1>5. \A a, b \in L : <<a, b>> \in R <=> a < b
  BY <1>2
<1>6. /\ \A a \in L : <<a, a>> \notin R
      /\ \A a, b, c \in L : <<a, b>> \in R /\ <<b, c>> \in R => <<a, c>> \in R
      /\ \A a, b \in L : a # b => <<a, b>> \in R \/ <<b, a>> \in R
  BY <1>4, <1>5
<1>7. PICK f \in [L -> 0..(Cardinality(L) - 1)] :
           /\ \A a \in L : f[a] = Cardinality({b \in L : <<b, a>> \in R})
           /\ \A a, b \in L : f[a] = f[b] => a = b
           /\ \A k \in 0..(Cardinality(L) - 1) : \E a \in L : f[a] = k
           /\ \A m \in 0..Cardinality(L) : Cardinality({a \in L : f[a] < m}) = m
  BY <1>4, <1>6, Puestos
<1>8. n \in 0..Cardinality(L)
  <2>1. Cardinality(L) \in Nat
    BY <1>4, FS_CardinalityType
  <2>. QED BY <1>1, <2>1
<1>9. \A a \in L : {b \in L : <<b, a>> \in R} = {b \in L : b < a}
  BY <1>5
<1>10. PrimerasLibres(ps, n) = {a \in L : Cardinality({b \in L : b < a}) < n}
  BY <1>1 DEF PrimerasLibres
<1>11. PrimerasLibres(ps, n) = {a \in L : f[a] < n}
  BY <1>7, <1>9, <1>10
<1>. QED BY <1>7, <1>8, <1>11

\* The reserve of the quota of a carpincho with no partition in the file.
LEMMA Reserva ==
  ASSUME NEW ps, TablaOK(ps, FIJA), NEW pid \in Pids, Suyas(ps, pid) = {}
  PROVE  /\ TablaOK(asignar_marcos_maximos(ps, pid), FIJA)
         /\ CuotaEn(asignar_marcos_maximos(ps, pid), FIJA, pid)
         /\ \A i \in Suyas(asignar_marcos_maximos(ps, pid), pid) :
              asignar_marcos_maximos(ps, pid)[i].hay_contenido = 0
         /\ \A p \in Pids \ {pid} :
              /\ Suyas(asignar_marcos_maximos(ps, pid), p) = Suyas(ps, p)
              /\ \A i \in Suyas(ps, p) : asignar_marcos_maximos(ps, pid)[i] = ps[i]
<1>1. PICK qs : qs = asignar_marcos_maximos(ps, pid)
  OBVIOUS
<1>2. ps \in Tabla /\ EnOrden(ps)
  BY DEF TablaOK
<1>3. FIJA # DINAMICA
  BY DEF FIJA, DINAMICA
<1>4. CASE Cardinality(pagina_libre(ps)) < marcos_maximos
  <2>1. qs = ps
    BY <1>1, <1>4 DEF asignar_marcos_maximos
  <2>. QED BY <1>1, <2>1 DEF CuotaEn
<1>5. CASE ~ (Cardinality(pagina_libre(ps)) < marcos_maximos)
  <2>1. PICK is : is = PrimerasLibres(ps, marcos_maximos)
    OBVIOUS
  <2>2. qs = Asigna(ps, is, pid)
    BY <1>1, <1>5, <2>1 DEF asignar_marcos_maximos, asignar_marcos_proceso
  <2>3. is \in SUBSET pagina_libre(ps)
    BY <2>1 DEF PrimerasLibres
  <2>4. Cardinality(is) = marcos_maximos
    <3>1. pagina_libre(ps) \in SUBSET Posiciones
      BY <1>2, Campos
    <3>2. CantParticiones \in Int /\ 1 \in Int /\ marcos_maximos \in Nat
      BY SwampOK
    <3>3. IsFiniteSet(pagina_libre(ps))
      BY <3>1, <3>2, FS_Interval, FS_Subset DEF Posiciones
    <3>4. Cardinality(pagina_libre(ps)) \in Nat
      BY <3>3, FS_CardinalityType
    <3>5. marcos_maximos <= Cardinality(pagina_libre(ps))
      BY <1>5, <3>2, <3>4
    <3>. QED BY <1>2, <2>1, <3>2, <3>5, CuantasPrimeras
  <2>5. /\ qs \in Tabla
        /\ \A i \in Posiciones \ is : qs[i] = ps[i]
        /\ \A i \in is : qs[i].hay_contenido = 0
        /\ Suyas(qs, pid) = is
        /\ \A p \in Pids \ {pid} : Suyas(qs, p) = Suyas(ps, p) /\ Suyas(ps, p) \cap is = {}
    BY <1>2, <2>2, <2>3, AsignaHace
  <2>6. CuotaEn(qs, FIJA, pid)
    BY <2>4, <2>5 DEF CuotaEn
  <2>7. \A p : Suyas(ps, p) \in SUBSET Posiciones
    BY <1>2, Campos
  <2>8. \A p \in Pids \ {pid} : \A i \in Suyas(ps, p) : qs[i] = ps[i]
    BY <2>5, <2>7
  <2>9. EnOrden(qs)
    <3>1. SUFFICES ASSUME NEW p \in Pids, NEW i \in Suyas(qs, p), NEW j \in Suyas(qs, p),
                          qs[j].hay_contenido = 1
                   PROVE  /\ i < j => qs[i].hay_contenido = 1
                          /\ qs[i].hay_contenido = 1 /\ qs[i].num_pagina = qs[j].num_pagina => i = j
      BY DEF EnOrden
    <3>2. p # pid
      BY <2>5, <3>1
    <3>3. /\ i \in Suyas(ps, p) /\ j \in Suyas(ps, p)
          /\ qs[i] = ps[i] /\ qs[j] = ps[j]
      BY <2>5, <2>8, <3>2
    <3>. QED BY <1>2, <3>1, <3>3 DEF EnOrden
  <2>. QED BY <1>1, <1>3, <2>5, <2>6, <2>8, <2>9 DEF TablaOK
<1>. QED BY <1>4, <1>5

-----------------------------------------------------------------------------
(* The files.                                                              *)

\* A list of the files with none twice has them all.
LEMMA ListaCompleta ==
  ASSUME NEW lista \in [Archivos -> Archivos], IsInjective(lista)
  PROVE  Range(lista) = Archivos /\ \A a \in Archivos : \E i \in Archivos : lista[i] = a
<1>1. lista \in Injection(Archivos, Archivos)
  BY DEF Injection, IsInjective
<1>2. IsFiniteSet(Archivos)
  <2>1. CantArchivos \in Int /\ 1 \in Int
    BY SwampOK
  <2>. QED BY <2>1, FS_Interval DEF Archivos
<1>3. lista \in Surjection(Archivos, Archivos)
  BY <1>1, <1>2, FS_Injection
<1>4. \A a \in Archivos : \E i \in Archivos : lista[i] = a
  BY <1>3 DEF Surjection
<1>5. Range(lista) = Archivos
  BY <1>4 DEF Range
<1>. QED BY <1>4, <1>5

\* Sorting the files loses none and repeats none.
LEMMA OrdenadosEs ==
  ASSUME TypeOK
  PROVE  Ordenados \in [Archivos -> Archivos] /\ IsInjective(Ordenados)
<1>1. PICK L : L = Range(lista_swap_files)
  OBVIOUS
<1>2. L = Archivos
  BY <1>1, ListaCompleta DEF TypeOK
<1>3. PICK m : m = [a \in Archivos |-> cantidad_frames_disponibles(a)]
  OBVIOUS
<1>4. \A a \in Archivos : m[a] \in Nat
  <2>1. TAKE a \in Archivos
  <2>2. pagina_libre(particiones[a]) \in SUBSET Posiciones
    <3>1. particiones[a] \in Tabla
      BY DEF TypeOK, Tabla, Posiciones
    <3>. QED BY <3>1, Campos
  <2>3. CantParticiones \in Int /\ 1 \in Int
    BY SwampOK
  <2>4. IsFiniteSet(pagina_libre(particiones[a]))
    BY <2>2, <2>3, FS_Interval, FS_Subset DEF Posiciones
  <2>. QED BY <1>3, <2>4, FS_CardinalityType DEF cantidad_frames_disponibles
<1>5. PICK R : R = {c \in L \X L : IF m[c[1]] = m[c[2]] THEN c[1] < c[2] ELSE m[c[1]] > m[c[2]]}
  OBVIOUS
<1>6. \A a, b \in L : <<a, b>> \in R <=> IF m[a] = m[b] THEN a < b ELSE m[a] > m[b]
  BY <1>5
<1>7. IsFiniteSet(L) /\ Cardinality(L) = CantArchivos /\ L \in SUBSET Int
  <2>1. CantArchivos \in Nat \ {0} /\ CantArchivos \in Int /\ 1 \in Int
    BY SwampOK
  <2>2. IsFiniteSet(1..CantArchivos)
        /\ Cardinality(1..CantArchivos) = IF 1 > CantArchivos THEN 0 ELSE CantArchivos - 1 + 1
    BY <2>1, FS_Interval
  <2>. QED BY <1>2, <2>1, <2>2 DEF Archivos
<1>8. /\ \A a \in L : <<a, a>> \notin R
      /\ \A a, b, c \in L : <<a, b>> \in R /\ <<b, c>> \in R => <<a, c>> \in R
      /\ \A a, b \in L : a # b => <<a, b>> \in R \/ <<b, a>> \in R
  <2>1. \A a \in L : m[a] \in Int /\ a \in Int
    BY <1>2, <1>4, <1>7
  <2>2. \A a \in L : <<a, a>> \notin R
    BY <1>6, <2>1
  <2>3. \A a, b, c \in L : <<a, b>> \in R /\ <<b, c>> \in R => <<a, c>> \in R
    <3>1. SUFFICES ASSUME NEW a \in L, NEW b \in L, NEW c \in L, <<a, b>> \in R, <<b, c>> \in R
                   PROVE  <<a, c>> \in R
      OBVIOUS
    <3>2. IF m[a] = m[b] THEN a < b ELSE m[a] > m[b]
      BY <1>6, <3>1
    <3>3. IF m[b] = m[c] THEN b < c ELSE m[b] > m[c]
      BY <1>6, <3>1
    <3>4. IF m[a] = m[c] THEN a < c ELSE m[a] > m[c]
      BY <2>1, <3>2, <3>3
    <3>. QED BY <1>6, <3>4
  <2>4. \A a, b \in L : a # b => <<a, b>> \in R \/ <<b, a>> \in R
    BY <1>6, <2>1
  <2>. QED BY <2>2, <2>3, <2>4
<1>9. PICK f \in [L -> 0..(Cardinality(L) - 1)] :
           /\ \A a \in L : f[a] = Cardinality({b \in L : <<b, a>> \in R})
           /\ \A a, b \in L : f[a] = f[b] => a = b
           /\ \A k \in 0..(Cardinality(L) - 1) : \E a \in L : f[a] = k
           /\ \A n \in 0..Cardinality(L) : Cardinality({a \in L : f[a] < n}) = n
  BY <1>7, <1>8, Puestos
<1>10. \A a \in L : {b \in L : TieneMasEspacio(b, a)} = {b \in L : <<b, a>> \in R}
  BY <1>2, <1>3, <1>6 DEF TieneMasEspacio
<1>11. PICK h : h = Ordenados
  OBVIOUS
<1>12. ASSUME NEW i \in Archivos PROVE h[i] \in L /\ f[h[i]] = i - 1
  <2>1. h[i] = CHOOSE a \in L : Cardinality({b \in L : TieneMasEspacio(b, a)}) = i - 1
    BY <1>1, <1>11 DEF Ordenados
  <2>2. i - 1 \in 0..(Cardinality(L) - 1)
    BY <1>7, SwampOK DEF Archivos
  <2>3. PICK a \in L : f[a] = i - 1
    BY <1>9, <2>2
  <2>4. Cardinality({b \in L : TieneMasEspacio(b, a)}) = i - 1
    BY <1>9, <1>10, <2>3
  <2>5. h[i] \in L /\ Cardinality({b \in L : TieneMasEspacio(b, h[i])}) = i - 1
    BY <2>1, <2>4
  <2>. QED BY <1>9, <1>10, <2>5
<1>13. h = [i \in Archivos |-> h[i]]
  <2>. DEFINE e(i) == CHOOSE c \in Range(lista_swap_files) :
                        Cardinality({b \in Range(lista_swap_files) : TieneMasEspacio(b, c)}) = i - 1
  <2>1. h = [i \in Archivos |-> e(i)]
    BY <1>11 DEF Ordenados
  <2>. HIDE DEF e
  <2>. QED BY <2>1
<1>14. h \in [Archivos -> Archivos]
  BY <1>2, <1>12, <1>13
<1>15. \A i, j \in Archivos : h[i] = h[j] => i = j
  <2>1. Archivos \in SUBSET Int
    BY <1>2, <1>7
  <2>. QED BY <1>12, <2>1
<1>. QED BY <1>11, <1>14, <1>15 DEF IsInjective

\* The lookup by pid finds a file of the carpincho.
LEMMA Encuentra ==
  ASSUME TypeOK, NEW pid \in Pids, TieneArchivo(pid)
  PROVE  /\ encontrar_swap_file_en_base_a_pid(pid) \in Archivos
         /\ De(pid, encontrar_swap_file_en_base_a_pid(pid)) # {}
<1>1. PICK T : T = {i \in Archivos : Suyas(particiones[lista_swap_files[i]], pid) # {}}
  OBVIOUS
<1>2. PICK a \in Archivos : Suyas(particiones[a], pid) # {}
  BY DEF TieneArchivo
<1>3. PICK i \in Archivos : lista_swap_files[i] = a
  BY ListaCompleta DEF TypeOK
<1>4. T # {}
  BY <1>1, <1>2, <1>3
<1>5. T \subseteq Nat
  BY <1>1, SwampOK DEF Archivos
<1>6. Min(T) \in T
  BY <1>4, <1>5, MinEs
<1>7. encontrar_swap_file_en_base_a_pid(pid) = lista_swap_files[Min(T)]
  BY <1>1 DEF encontrar_swap_file_en_base_a_pid
<1>8. Min(T) \in Archivos /\ Suyas(particiones[lista_swap_files[Min(T)]], pid) # {}
  BY <1>1, <1>6
<1>9. lista_swap_files[Min(T)] \in Archivos
  BY <1>8 DEF TypeOK
<1>. QED BY <1>7, <1>8, <1>9 DEF De

\* The write of a page on a file: that of the carpincho or, if it has none, any.
LEMMA EscribeArchivo ==
  ASSUME IInv, NEW pid \in Pids, NEW pag \in 0..(MaxPaginas - 1), NEW v \in Contenidos,
         NEW a \in Archivos, TieneArchivo(pid) => De(pid, a) # {}
  PROVE  \E qs :
           /\ qs = escribirContenidoSobreElArchivo(AlElegirArchivo(particiones[a], pid), pid, pag, v)
           /\ TablaOK(qs, tipo_asignacion)
           /\ Cambia(particiones[a], qs, pid, pag, v)
           /\ CuotaEn(qs, tipo_asignacion, pid)
           /\ \A p \in Pids \ {pid} : Suyas(qs, p) = Suyas(particiones[a], p)
<1>1. PICK tipo : tipo = tipo_asignacion
  OBVIOUS
<1>2. PICK ps : ps = particiones[a]
  OBVIOUS
<1>3. PICK rs : rs = AlElegirArchivo(ps, pid)
  OBVIOUS
<1>4. PICK qs : qs = escribirContenidoSobreElArchivo(rs, pid, pag, v)
  OBVIOUS
<1>5. TablaOK(ps, tipo) /\ CuotaEn(ps, tipo, pid) /\ tipo \in {FIJA, DINAMICA}
  BY <1>1, <1>2 DEF IInv, TypeOK, ParticionesOK
<1>6. FIJA # DINAMICA
  BY DEF FIJA, DINAMICA
<1>7. /\ TablaOK(rs, tipo) /\ CuotaEn(rs, tipo, pid)
      /\ \A p \in Pids \ {pid} :
           Suyas(rs, p) = Suyas(ps, p) /\ \A i \in Suyas(ps, p) : rs[i] = ps[i]
      /\ \/ rs = ps
         \/ Suyas(ps, pid) = {} /\ \A i \in Suyas(rs, pid) : rs[i].hay_contenido = 0
  <2>1. CASE tipo = FIJA /\ ~ TieneArchivo(pid)
    <3>1. rs = asignar_marcos_maximos(ps, pid)
      BY <1>1, <1>3, <2>1 DEF AlElegirArchivo
    <3>2. Suyas(ps, pid) = {}
      BY <1>2, <2>1 DEF TieneArchivo
    <3>. QED BY <1>5, <2>1, <3>1, <3>2, Reserva
  <2>2. CASE ~ (tipo = FIJA /\ ~ TieneArchivo(pid))
    <3>1. rs = ps
      BY <1>1, <1>3, <2>2 DEF AlElegirArchivo
    <3>. QED BY <1>5, <3>1
  <2>. QED BY <2>1, <2>2
<1>8. \A p : Suyas(ps, p) \in SUBSET Posiciones /\ Suyas(rs, p) \in SUBSET Posiciones
  <2>1. ps \in Tabla /\ rs \in Tabla
    BY <1>5, <1>7 DEF TablaOK
  <2>2. \A p : Suyas(ps, p) \in SUBSET Posiciones
    BY <2>1, Campos
  <2>3. \A p : Suyas(rs, p) \in SUBSET Posiciones
    BY <2>1, Campos
  <2>. QED BY <2>2, <2>3
<1>9. /\ TablaOK(qs, tipo)
      /\ Cambia(rs, qs, pid, pag, v)
      /\ CuotaEn(qs, tipo, pid)
      /\ \A p \in Pids \ {pid} : Suyas(qs, p) = Suyas(rs, p)
  <2>1. CASE ParaSobreescribir(rs, pid, pag) # {}
    <3>1. PICK i : i = Min(ParaSobreescribir(rs, pid, pag))
      OBVIOUS
    <3>2. ParaSobreescribir(rs, pid, pag) \subseteq Nat
      BY <1>8, SwampOK DEF ParaSobreescribir, Posiciones
    <3>3. i \in ParaSobreescribir(rs, pid, pag)
      BY <2>1, <3>1, <3>2, MinEs
    <3>4. qs = ConContenido(rs, i, v)
      BY <1>4, <2>1, <3>1 DEF escribirContenidoSobreElArchivo, ConContenido
    <3>5. TablaOK(rs, tipo)
      BY <1>7
    <3>6. /\ TablaOK(qs, tipo) /\ Cambia(rs, qs, pid, pag, v)
          /\ \A p : Suyas(qs, p) = Suyas(rs, p)
      BY <3>3, <3>4, <3>5, Sobreescribe
    <3>. QED BY <1>7, <3>6 DEF CuotaEn
  <2>2. CASE ParaSobreescribir(rs, pid, pag) = {} /\ tipo = FIJA
    <3>1. qs = EscribeNueva(rs, pid, pag, v)
      BY <1>1, <1>4, <1>6, <2>2 DEF escribirContenidoSobreElArchivo
    <3>2. CASE ParaEscribir(rs, pid) = {}
      <4>1. qs = rs
        BY <3>1, <3>2 DEF EscribeNueva
      <4>2. Cambia(rs, qs, pid, pag, v)
        <5>1. \A i \in Suyas(rs, pid) : rs[i].hay_contenido = 1 => rs[i].num_pagina # pag
          BY <2>2 DEF ParaSobreescribir
        <5>. QED BY <4>1, <5>1 DEF Cambia
      <4>. QED BY <1>7, <4>1, <4>2
    <3>3. CASE ParaEscribir(rs, pid) # {}
      <4>1. PICK i : i = Min(ParaEscribir(rs, pid))
        OBVIOUS
      <4>2. ParaEscribir(rs, pid) \subseteq Nat
        BY <1>8, SwampOK DEF ParaEscribir, Posiciones
      <4>3. i \in ParaEscribir(rs, pid) /\ \A j \in ParaEscribir(rs, pid) : i <= j
        BY <3>3, <4>1, <4>2, MinEs
      <4>4. qs = Escribe(rs, i, pag, v)
        BY <3>1, <3>3, <4>1 DEF EscribeNueva
      <4>5. TablaOK(rs, FIJA)
        BY <1>7, <2>2
      <4>6. /\ TablaOK(qs, FIJA) /\ Cambia(rs, qs, pid, pag, v)
            /\ \A p : Suyas(qs, p) = Suyas(rs, p)
        BY <2>2, <4>3, <4>4, <4>5, EscribeLaPrimera
      <4>. QED BY <1>7, <2>2, <4>6 DEF CuotaEn
    <3>. QED BY <3>2, <3>3
  <2>3. CASE ParaSobreescribir(rs, pid, pag) = {} /\ tipo = DINAMICA
    <3>1. qs = EscribeNueva(asignacion_dinamica(rs, pid), pid, pag, v)
      BY <1>1, <1>4, <2>3 DEF escribirContenidoSobreElArchivo
    <3>2. TablaOK(rs, DINAMICA) /\ ParaSobreescribir(rs, pid, pag) = {}
      BY <1>7, <2>3
    <3>3. CASE pagina_libre(rs) = {}
      <4>1. ParaEscribir(rs, pid) = {}
        BY <3>2 DEF TablaOK, Llenas
      <4>2. qs = rs
        BY <3>1, <3>3, <4>1 DEF EscribeNueva, asignacion_dinamica
      <4>3. Cambia(rs, qs, pid, pag, v)
        <5>1. \A i \in Suyas(rs, pid) : rs[i].hay_contenido = 1 => rs[i].num_pagina # pag
          BY <2>3 DEF ParaSobreescribir
        <5>. QED BY <4>2, <5>1 DEF Cambia
      <4>. QED BY <1>7, <4>2, <4>3
    <3>4. CASE pagina_libre(rs) # {}
      <4>1. PICK k : k = Min(pagina_libre(rs))
        OBVIOUS
      <4>2. pagina_libre(rs) \subseteq Nat
        <5>1. pagina_libre(rs) \in SUBSET Posiciones
          BY <3>2, Campos DEF TablaOK
        <5>. QED BY <5>1, SwampOK DEF Posiciones
      <4>3. k \in pagina_libre(rs)
        BY <3>4, <4>1, <4>2, MinEs
      <4>4. asignacion_dinamica(rs, pid) = Asigna(rs, {k}, pid)
        BY <3>4, <4>1 DEF asignacion_dinamica
      <4>5. ParaEscribir(Asigna(rs, {k}, pid), pid) = {k}
        BY <3>2, <4>3, EscribeLaTomada
      <4>6. Min({k}) = k
        BY <4>2, <4>3, MinEs
      <4>7. qs = Escribe(Asigna(rs, {k}, pid), k, pag, v)
        BY <3>1, <4>4, <4>5, <4>6 DEF EscribeNueva
      <4>8. /\ TablaOK(qs, DINAMICA) /\ Cambia(rs, qs, pid, pag, v)
            /\ \A p \in Pids \ {pid} : Suyas(qs, p) = Suyas(rs, p)
        BY <3>2, <4>3, <4>7, EscribeLaTomada
      <4>. QED BY <1>6, <2>3, <4>8 DEF CuotaEn
    <3>. QED BY <3>3, <3>4
  <2>. QED BY <1>5, <2>1, <2>2, <2>3
<1>10. Cambia(ps, qs, pid, pag, v)
  <2>1. CASE rs = ps
    BY <1>9, <2>1
  <2>2. CASE Suyas(ps, pid) = {} /\ \A i \in Suyas(rs, pid) : rs[i].hay_contenido = 0
    <3>1. \A p \in Pids \ {pid} : \A i \in Posiciones :
            i \in Suyas(ps, p) \/ i \in Suyas(qs, p) => qs[i] = ps[i]
      <4>1. SUFFICES ASSUME NEW p \in Pids \ {pid}, NEW i \in Posiciones, i \in Suyas(ps, p) \/ i \in Suyas(qs, p)
                     PROVE  qs[i] = ps[i]
        OBVIOUS
      <4>2. i \in Suyas(rs, p) /\ i \in Suyas(ps, p)
        BY <1>7, <1>9, <4>1
      <4>3. qs[i] = rs[i]
        BY <1>9, <4>2 DEF Cambia
      <4>. QED BY <1>7, <4>2, <4>3
    <3>2. \A i \in Suyas(qs, pid) : qs[i].hay_contenido = 1 /\ qs[i].num_pagina = pag => qs[i].contenido = v
      BY <1>9 DEF Cambia
    <3>3. ASSUME NEW i \in Suyas(qs, pid), qs[i].hay_contenido = 1, qs[i].num_pagina # pag
          PROVE  FALSE
      <4>1. i \in Suyas(rs, pid) /\ qs[i] = rs[i]
        BY <1>9, <3>3 DEF Cambia
      <4>. QED BY <2>2, <3>3, <4>1
    <3>. QED BY <2>2, <3>1, <3>2, <3>3 DEF Cambia
  <2>. QED BY <1>7, <2>1, <2>2
<1>11. \A p \in Pids \ {pid} : Suyas(qs, p) = Suyas(ps, p)
  BY <1>7, <1>9
<1>. QED BY <1>1, <1>2, <1>3, <1>4, <1>9, <1>10, <1>11

\* Where a message writes: one file, and the carpincho has partitions in no
\* other.
LEMMA PasoDeEscribir ==
  ASSUME IInv, NEW pid \in Pids, NEW pag \in 0..(MaxPaginas - 1), NEW v \in Contenidos,
         escribirContenido(pid, pag, v)
  PROVE  /\ lista_swap_files' \in [Archivos -> Archivos] /\ IsInjective(lista_swap_files')
         /\ \E a \in Archivos : \E qs :
              /\ particiones' = [particiones EXCEPT ![a] = qs]
              /\ TablaOK(qs, tipo_asignacion)
              /\ Cambia(particiones[a], qs, pid, pag, v)
              /\ CuotaEn(qs, tipo_asignacion, pid)
              /\ \A p \in Pids \ {pid} : Suyas(qs, p) = Suyas(particiones[a], p)
              /\ \A b \in Archivos \ {a} : Suyas(particiones[b], pid) = {}
<1>1. TypeOK
  BY DEF IInv
<1>2. PICK a : a = IF TieneArchivo(pid) THEN encontrar_swap_file_en_base_a_pid(pid)
                   ELSE Ordenados[1]
  OBVIOUS
<1>3. Ordenados \in [Archivos -> Archivos] /\ IsInjective(Ordenados)
  BY <1>1, OrdenadosEs
<1>4. a \in Archivos /\ (TieneArchivo(pid) => De(pid, a) # {})
  <2>1. CASE TieneArchivo(pid)
    BY <1>1, <1>2, <2>1, Encuentra
  <2>2. CASE ~ TieneArchivo(pid)
    <3>1. 1 \in Archivos
      BY SwampOK DEF Archivos
    <3>. QED BY <1>2, <1>3, <2>2, <3>1
  <2>. QED BY <2>1, <2>2
<1>5. PICK qs :
        /\ qs = escribirContenidoSobreElArchivo(AlElegirArchivo(particiones[a], pid), pid, pag, v)
        /\ TablaOK(qs, tipo_asignacion)
        /\ Cambia(particiones[a], qs, pid, pag, v)
        /\ CuotaEn(qs, tipo_asignacion, pid)
        /\ \A p \in Pids \ {pid} : Suyas(qs, p) = Suyas(particiones[a], p)
  BY <1>4, EscribeArchivo
<1>6. particiones' = [particiones EXCEPT ![a] = qs]
  BY <1>2, <1>5 DEF escribirContenido
<1>7. \A b \in Archivos \ {a} : Suyas(particiones[b], pid) = {}
  <2>1. CASE TieneArchivo(pid)
    <3>1. Suyas(particiones[a], pid) # {}
      BY <1>4, <2>1 DEF De
    <3>2. \A b \in Archivos : Suyas(particiones[a], pid) # {} /\ Suyas(particiones[b], pid) # {} => a = b
      BY <1>4 DEF IInv, ParticionesOK
    <3>. QED BY <3>1, <3>2
  <2>2. CASE ~ TieneArchivo(pid)
    BY <2>2 DEF TieneArchivo
  <2>. QED BY <2>1, <2>2
<1>8. lista_swap_files' \in [Archivos -> Archivos] /\ IsInjective(lista_swap_files')
  <2>1. lista_swap_files' = IF TieneArchivo(pid) THEN lista_swap_files ELSE Ordenados
    BY DEF escribirContenido
  <2>2. lista_swap_files \in [Archivos -> Archivos] /\ IsInjective(lista_swap_files)
    BY <1>1 DEF TypeOK
  <2>. QED BY <1>3, <2>1, <2>2
<1>. QED BY <1>4, <1>5, <1>6, <1>7, <1>8

\* The partitions of all the files after a write.
LEMMA TrasEscribir ==
  ASSUME NEW tipo, NEW P, ParticionesOK(P, tipo), NEW pid \in Pids, NEW a \in Archivos,
         NEW qs, TablaOK(qs, tipo), CuotaEn(qs, tipo, pid),
         \A p \in Pids \ {pid} : Suyas(qs, p) = Suyas(P[a], p),
         \A b \in Archivos \ {a} : Suyas(P[b], pid) = {}
  PROVE  ParticionesOK([P EXCEPT ![a] = qs], tipo)
<1>1. PICK Q : Q = [P EXCEPT ![a] = qs]
  OBVIOUS
<1>2. P \in [Archivos -> Tabla] /\ qs \in Tabla
  BY DEF ParticionesOK, TablaOK
<1>3. /\ Q \in [Archivos -> Tabla] /\ Q[a] = qs
      /\ \A b \in Archivos \ {a} : Q[b] = P[b]
  BY <1>1, <1>2
<1>4. \A b \in Archivos : TablaOK(Q[b], tipo)
  BY <1>3 DEF ParticionesOK
<1>5. ASSUME NEW p \in Pids, NEW b \in Archivos, NEW c \in Archivos,
             Suyas(Q[b], p) # {}, Suyas(Q[c], p) # {}
      PROVE  b = c
  <2>1. CASE p = pid
    <3>1. \A d \in Archivos \ {a} : Suyas(Q[d], p) = {}
      BY <1>3, <2>1
    <3>. QED BY <1>5, <3>1
  <2>2. CASE p # pid
    <3>1. \A d \in Archivos : Suyas(Q[d], p) = Suyas(P[d], p)
      BY <1>3, <2>2
    <3>. QED BY <1>5, <3>1 DEF ParticionesOK
  <2>. QED BY <2>1, <2>2
<1>6. ASSUME NEW p \in Pids, NEW b \in Archivos PROVE CuotaEn(Q[b], tipo, p)
  <2>1. CuotaEn(P[b], tipo, p)
    BY DEF ParticionesOK
  <2>2. CASE b # a
    BY <1>3, <2>1, <2>2
  <2>3. CASE b = a /\ p = pid
    BY <1>3, <2>3
  <2>4. CASE b = a /\ p # pid
    <3>1. Suyas(Q[b], p) = Suyas(P[b], p)
      BY <1>3, <2>4
    <3>. QED BY <2>1, <3>1 DEF CuotaEn
  <2>. QED BY <2>2, <2>3, <2>4
<1>. QED BY <1>1, <1>3, <1>4, <1>5, <1>6 DEF ParticionesOK

\* The end of a carpincho, on the partitions of its file.
LEMMA Limpia ==
  ASSUME NEW tipo, NEW ps, TablaOK(ps, tipo), NEW pid \in Pids, NEW qs,
         qs = [i \in DOMAIN ps |-> IF ps[i].pid # pid THEN ps[i] ELSE Vaciada(ps[i])]
  PROVE  /\ TablaOK(qs, tipo) /\ Suyas(qs, pid) = {}
         /\ \A p \in Pids \ {pid} :
              Suyas(qs, p) = Suyas(ps, p) /\ \A i \in Suyas(ps, p) : qs[i] = ps[i]
<1>1. ps \in Tabla
  BY DEF TablaOK
<1>2. /\ DOMAIN ps = Posiciones
      /\ \A i \in Posiciones : ps[i] \in Particion
      /\ \A p : Suyas(ps, p) = {i \in Posiciones : EsDe(p, ps[i])}
  BY <1>1, Campos
<1>3. \A i \in Posiciones :
        /\ ps[i].pid # pid => qs[i] = ps[i]
        /\ ps[i].pid = pid => qs[i] = Vaciada(ps[i])
  BY <1>2
<1>4. ASSUME NEW i \in Posiciones, ps[i].pid = pid
      PROVE  qs[i] \in Particion /\ qs[i].esta_libre = 1
  <2>1. Vacia \in Contenidos
    BY SwampOK
  <2>2. ps[i] \in Particion
    BY <1>2
  <2>3. Vaciada(ps[i]) \in Particion /\ Vaciada(ps[i]).esta_libre = 1
    BY <2>1, <2>2 DEF Vaciada, Particion
  <2>. QED BY <1>3, <1>4, <2>3
<1>5. qs \in Tabla
  <2>1. \A i \in Posiciones : qs[i] \in Particion
    BY <1>2, <1>3, <1>4
  <2>2. DOMAIN qs = Posiciones /\ qs = [i \in Posiciones |-> qs[i]]
    BY <1>2
  <2>. QED BY <2>1, <2>2 DEF Tabla
<1>6. \A p : Suyas(qs, p) = {i \in Posiciones : EsDe(p, qs[i])}
  BY <1>5, Campos
<1>7. Suyas(qs, pid) = {}
  <2>1. \A i \in Posiciones : ~ EsDe(pid, qs[i])
    BY <1>3, <1>4 DEF EsDe
  <2>. QED BY <1>6, <2>1
<1>8. \A p \in Pids \ {pid} :
        Suyas(qs, p) = Suyas(ps, p) /\ \A i \in Suyas(ps, p) : qs[i] = ps[i]
  <2>1. TAKE p \in Pids \ {pid}
  <2>2. \A i \in Posiciones : EsDe(p, qs[i]) <=> EsDe(p, ps[i])
    BY <1>3, <1>4 DEF EsDe
  <2>3. \A i \in Suyas(ps, p) : qs[i] = ps[i]
    BY <1>2, <1>3 DEF EsDe
  <2>4. Suyas(ps, p) = {i \in Posiciones : EsDe(p, ps[i])}
    BY <1>2
  <2>5. Suyas(qs, p) = {i \in Posiciones : EsDe(p, qs[i])}
    BY <1>6
  <2>6. Suyas(qs, p) = Suyas(ps, p)
    BY <2>2, <2>4, <2>5
  <2>. QED BY <2>3, <2>6
<1>9. EnOrden(qs)
  <2>1. SUFFICES ASSUME NEW p \in Pids, NEW i \in Suyas(qs, p), NEW j \in Suyas(qs, p),
                        qs[j].hay_contenido = 1
                 PROVE  /\ i < j => qs[i].hay_contenido = 1
                        /\ qs[i].hay_contenido = 1 /\ qs[i].num_pagina = qs[j].num_pagina => i = j
    BY DEF EnOrden
  <2>2. p # pid
    BY <1>7
  <2>3. /\ i \in Suyas(ps, p) /\ j \in Suyas(ps, p)
        /\ qs[i] = ps[i] /\ qs[j] = ps[j]
    BY <1>8, <2>2
  <2>4. EnOrden(ps)
    BY DEF TablaOK
  <2>. QED BY <2>1, <2>3, <2>4 DEF EnOrden
<1>10. tipo = DINAMICA => Llenas(qs)
  <2>1. SUFFICES ASSUME tipo = DINAMICA, NEW p \in Pids
                 PROVE  ParaEscribir(qs, p) = {}
    BY DEF Llenas
  <2>2. ParaEscribir(ps, p) = {}
    BY <2>1 DEF TablaOK, Llenas
  <2>3. CASE p = pid
    BY <1>7, <2>3 DEF ParaEscribir
  <2>4. CASE p # pid
    BY <1>8, <2>2, <2>4 DEF ParaEscribir
  <2>. QED BY <2>3, <2>4
<1>. QED BY <1>5, <1>7, <1>8, <1>9, <1>10 DEF TablaOK

\* What the end of a carpincho changes: its partitions, wherever they are.
LEMMA PasoDeFinaliza ==
  ASSUME IInv, NEW pid \in Pids, FinalizaProceso(pid)
  PROVE  /\ ParticionesOK(particiones', tipo_asignacion)
         /\ \A a \in Archivos : Suyas(particiones'[a], pid) = {}
         /\ \A p \in Pids \ {pid}, a \in Archivos :
              /\ Suyas(particiones'[a], p) = Suyas(particiones[a], p)
              /\ \A i \in Suyas(particiones[a], p) : particiones'[a][i] = particiones[a][i]
<1>1. PICK P : P = particiones
  OBVIOUS
<1>2. PICK Q : Q = particiones'
  OBVIOUS
<1>3. PICK tipo : tipo = tipo_asignacion
  OBVIOUS
<1>4. TypeOK /\ ParticionesOK(P, tipo)
  BY <1>1, <1>3 DEF IInv
<1>5. CASE ~ TieneArchivo(pid)
  <2>1. Q = P
    BY <1>1, <1>2, <1>5 DEF FinalizaProceso
  <2>2. \A a \in Archivos : Suyas(P[a], pid) = {}
    BY <1>1, <1>5 DEF TieneArchivo
  <2>. QED BY <1>1, <1>2, <1>3, <1>4, <2>1, <2>2
<1>6. CASE TieneArchivo(pid)
  <2>1. PICK a : a = encontrar_swap_file_en_base_a_pid(pid)
    OBVIOUS
  <2>2. a \in Archivos /\ Suyas(P[a], pid) # {}
    BY <1>1, <1>4, <1>6, <2>1, Encuentra DEF De
  <2>3. \A b \in Archivos \ {a} : Suyas(P[b], pid) = {}
    <3>1. \A b \in Archivos : Suyas(P[a], pid) # {} /\ Suyas(P[b], pid) # {} => a = b
      BY <1>4, <2>2 DEF ParticionesOK
    <3>. QED BY <2>2, <3>1
  <2>4. PICK qs : qs = [i \in DOMAIN P[a] |-> IF P[a][i].pid # pid THEN P[a][i] ELSE Vaciada(P[a][i])]
    OBVIOUS
  <2>5. P \in [Archivos -> Tabla] /\ TablaOK(P[a], tipo)
    BY <1>4, <2>2 DEF ParticionesOK
  <2>6. Q = [P EXCEPT ![a] = qs]
    BY <1>1, <1>2, <1>6, <2>1, <2>2, <2>4, <2>5 DEF FinalizaProceso
  <2>7. /\ TablaOK(qs, tipo) /\ Suyas(qs, pid) = {}
        /\ \A p \in Pids \ {pid} :
             Suyas(qs, p) = Suyas(P[a], p) /\ \A i \in Suyas(P[a], p) : qs[i] = P[a][i]
    BY <2>4, <2>5, Limpia
  <2>8. CuotaEn(qs, tipo, pid)
    BY <2>7 DEF CuotaEn
  <2>9. ParticionesOK(Q, tipo)
    BY <1>4, <2>2, <2>3, <2>6, <2>7, <2>8, TrasEscribir
  <2>10. Q[a] = qs /\ \A b \in Archivos \ {a} : Q[b] = P[b]
    BY <2>2, <2>5, <2>6
  <2>. QED BY <1>1, <1>2, <1>3, <2>3, <2>7, <2>9, <2>10
<1>. QED BY <1>5, <1>6

-----------------------------------------------------------------------------
(* The invariant.                                                          *)

\* Init establishes the invariant: all the partitions are free.
LEMMA InitIInv == Init => IInv
<1>. SUFFICES ASSUME Init PROVE IInv
  OBVIOUS
<1>1. /\ tipo_asignacion \in {FIJA, DINAMICA}
      /\ lista_swap_files = [i \in Archivos |-> i]
      /\ particiones = [a \in Archivos |-> [i \in 1..CantParticiones |-> particion_nueva]]
      /\ paginas = [p \in Pids |-> 0] /\ concedidas = [p \in Pids |-> 0]
      /\ cerrados = {} /\ colgada = FALSE
  BY DEF Init
<1>2. MaxPaginas \in Nat /\ Vacia \in Contenidos /\ -1 \notin Pids
  BY SwampOK
<1>3. PICK ps : ps = [i \in Posiciones |-> particion_nueva]
  OBVIOUS
<1>4. ps \in Tabla
  BY <1>2, <1>3 DEF Tabla, particion_nueva, Particion
<1>5. \A i \in Posiciones : ps[i].esta_libre = 1
  BY <1>3 DEF particion_nueva
<1>6. \A p : Suyas(ps, p) = {}
  <2>1. \A p : Suyas(ps, p) = {i \in Posiciones : EsDe(p, ps[i])}
    BY <1>4, Campos
  <2>. QED BY <1>5, <2>1 DEF EsDe
<1>7. TablaOK(ps, tipo_asignacion)
  BY <1>4, <1>6 DEF TablaOK, EnOrden, Llenas, ParaEscribir
<1>8. particiones = [a \in Archivos |-> ps]
  BY <1>1, <1>3 DEF Posiciones
<1>9. ParticionesOK(particiones, tipo_asignacion)
  <2>1. particiones \in [Archivos -> Tabla] /\ \A a \in Archivos : particiones[a] = ps
    BY <1>4, <1>8
  <2>. QED BY <1>6, <1>7, <2>1 DEF ParticionesOK, CuotaEn
<1>10. TypeOK
  <2>1. IsInjective(lista_swap_files)
    BY <1>1 DEF IsInjective
  <2>2. particiones \in [Archivos -> [1..CantParticiones -> Particion]]
    BY <1>4, <1>8 DEF Tabla, Posiciones
  <2>3. paginas \in [Pids -> 0..MaxPaginas] /\ concedidas \in [Pids -> 0..MaxPaginas]
    BY <1>1, <1>2
  <2>. QED BY <1>1, <2>1, <2>2, <2>3 DEF TypeOK
<1>11. \A p \in Pids : paginas[p] + concedidas[p] <= MaxPaginas
  BY <1>1, <1>2
<1>. QED BY <1>9, <1>10, <1>11 DEF IInv

\* The types of the counters and of the rest, when the partitions stay.
LEMMA ArmaIInv ==
  ASSUME TypeOK,
         tipo_asignacion' = tipo_asignacion,
         lista_swap_files' \in [Archivos -> Archivos], IsInjective(lista_swap_files'),
         ParticionesOK(particiones', tipo_asignacion),
         paginas' \in [Pids -> 0..MaxPaginas], concedidas' \in [Pids -> 0..MaxPaginas],
         \A p \in Pids : paginas'[p] + concedidas'[p] <= MaxPaginas,
         cerrados' \subseteq Pids, colgada' \in BOOLEAN
  PROVE  IInv'
<1>1. particiones' \in [Archivos -> [1..CantParticiones -> Particion]]
  BY DEF ParticionesOK, Tabla, Posiciones
<1>2. tipo_asignacion' \in {FIJA, DINAMICA}
  BY DEF TypeOK
<1>3. TypeOK'
  BY <1>1, <1>2 DEF TypeOK
<1>4. ParticionesOK(particiones', tipo_asignacion')
  OBVIOUS
<1>. QED BY <1>3, <1>4 DEF IInv

\* A write of a page keeps what holds of the partitions.
LEMMA EscribirGuarda ==
  ASSUME IInv, NEW pid \in Pids, NEW pag \in 0..(MaxPaginas - 1), NEW v \in Contenidos,
         escribirContenido(pid, pag, v)
  PROVE  ParticionesOK(particiones', tipo_asignacion)
<1>0. PICK a \in Archivos : \E qs :
        /\ particiones' = [particiones EXCEPT ![a] = qs]
        /\ TablaOK(qs, tipo_asignacion)
        /\ Cambia(particiones[a], qs, pid, pag, v)
        /\ CuotaEn(qs, tipo_asignacion, pid)
        /\ \A p \in Pids \ {pid} : Suyas(qs, p) = Suyas(particiones[a], p)
        /\ \A b \in Archivos \ {a} : Suyas(particiones[b], pid) = {}
  BY PasoDeEscribir
<1>1. PICK qs :
        /\ particiones' = [particiones EXCEPT ![a] = qs]
        /\ TablaOK(qs, tipo_asignacion)
        /\ Cambia(particiones[a], qs, pid, pag, v)
        /\ CuotaEn(qs, tipo_asignacion, pid)
        /\ \A p \in Pids \ {pid} : Suyas(qs, p) = Suyas(particiones[a], p)
        /\ \A b \in Archivos \ {a} : Suyas(particiones[b], pid) = {}
  BY <1>0
<1>2. PICK P, tipo : P = particiones /\ tipo = tipo_asignacion
  OBVIOUS
<1>3. ParticionesOK(P, tipo)
  BY <1>2 DEF IInv
<1>4. ParticionesOK([P EXCEPT ![a] = qs], tipo)
  BY <1>1, <1>2, <1>3, TrasEscribir
<1>. QED BY <1>1, <1>2, <1>4

\* Every step preserves the invariant.
LEMMA PasoIInv == IInv /\ [Next]_vars => IInv'
<1>. SUFFICES ASSUME IInv, [Next]_vars PROVE IInv'
  OBVIOUS
<1>1. TypeOK /\ ParticionesOK(particiones, tipo_asignacion)
  BY DEF IInv
<1>2. /\ lista_swap_files \in [Archivos -> Archivos] /\ IsInjective(lista_swap_files)
      /\ paginas \in [Pids -> 0..MaxPaginas] /\ concedidas \in [Pids -> 0..MaxPaginas]
      /\ cerrados \subseteq Pids /\ colgada \in BOOLEAN
  BY <1>1 DEF TypeOK
<1>3. \A p \in Pids : paginas[p] + concedidas[p] <= MaxPaginas
  BY DEF IInv
<1>4. MaxPaginas \in Nat /\ Vacia \in Contenidos
  BY SwampOK
<1>5. ASSUME NEW pid \in Pids, NEW n \in 1..MaxPaginas, ConsultaEspacio(pid, n)
      PROVE  IInv'
  <2>1. /\ paginas[pid] + n <= MaxPaginas /\ concedidas[pid] = 0
        /\ lista_swap_files' = IF TieneArchivo(pid) THEN lista_swap_files ELSE Ordenados
        /\ UNCHANGED <<tipo_asignacion, particiones, paginas, cerrados, colgada>>
    BY <1>5 DEF ConsultaEspacio
  <2>2. PICK k \in {0, n} : concedidas' = [concedidas EXCEPT ![pid] = k]
    BY <1>5 DEF ConsultaEspacio
  <2>3. lista_swap_files' \in [Archivos -> Archivos] /\ IsInjective(lista_swap_files')
    BY <1>1, <1>2, <2>1, OrdenadosEs
  <2>4. concedidas' \in [Pids -> 0..MaxPaginas]
    BY <1>2, <1>4, <2>2
  <2>5. \A p \in Pids : paginas'[p] + concedidas'[p] <= MaxPaginas
    BY <1>2, <1>3, <1>4, <2>1, <2>2
  <2>. QED BY <1>1, <1>2, <2>1, <2>3, <2>4, <2>5, ArmaIInv
<1>6. ASSUME NEW pid \in Pids, CreaPagina(pid)
      PROVE  IInv'
  <2>1. /\ concedidas[pid] > 0
        /\ escribirContenido(pid, paginas[pid], Vacia)
        /\ concedidas' = [concedidas EXCEPT ![pid] = @ - 1]
        /\ paginas' = [paginas EXCEPT ![pid] = @ + 1]
        /\ UNCHANGED <<tipo_asignacion, cerrados, colgada>>
    BY <1>6 DEF CreaPagina
  <2>2. paginas[pid] + concedidas[pid] <= MaxPaginas
        /\ paginas[pid] \in Nat /\ concedidas[pid] \in Nat
    BY <1>2, <1>3
  <2>3. paginas[pid] \in 0..(MaxPaginas - 1)
    BY <1>4, <2>1, <2>2
  <2>4. lista_swap_files' \in [Archivos -> Archivos] /\ IsInjective(lista_swap_files')
    BY <1>4, <2>1, <2>3, PasoDeEscribir
  <2>5. ParticionesOK(particiones', tipo_asignacion)
    BY <1>4, <2>1, <2>3, EscribirGuarda
  <2>6. paginas' \in [Pids -> 0..MaxPaginas] /\ concedidas' \in [Pids -> 0..MaxPaginas]
    BY <1>2, <1>4, <2>1, <2>2, <2>3
  <2>7. \A p \in Pids : paginas'[p] + concedidas'[p] <= MaxPaginas
    <3>1. TAKE p \in Pids
    <3>2. CASE p = pid
      BY <1>2, <1>4, <2>1, <2>2, <3>2
    <3>3. CASE p # pid
      BY <1>2, <1>3, <2>1, <3>3
    <3>. QED BY <3>2, <3>3
  <2>. QED BY <1>1, <1>2, <2>1, <2>4, <2>5, <2>6, <2>7, ArmaIInv
<1>7. ASSUME NEW pid \in Pids, NEW pag \in 0..(MaxPaginas - 1), NEW v \in Contenidos,
             ReemplazaPagina(pid, pag, v)
      PROVE  IInv'
  <2>1. /\ escribirContenido(pid, pag, v)
        /\ UNCHANGED <<tipo_asignacion, paginas, concedidas, cerrados, colgada>>
    BY <1>7 DEF ReemplazaPagina
  <2>2. lista_swap_files' \in [Archivos -> Archivos] /\ IsInjective(lista_swap_files')
    BY <2>1, PasoDeEscribir
  <2>3. ParticionesOK(particiones', tipo_asignacion)
    BY <2>1, EscribirGuarda
  <2>. QED BY <1>1, <1>2, <1>3, <2>1, <2>2, <2>3, ArmaIInv
<1>8. ASSUME NEW pid \in Pids, NEW pag \in 0..(MaxPaginas - 1), PidePagina(pid, pag)
      PROVE  IInv'
  <2>1. /\ colgada' = TRUE
        /\ UNCHANGED <<tipo_asignacion, lista_swap_files, particiones, paginas, concedidas, cerrados>>
    BY <1>8 DEF PidePagina
  <2>. QED BY <1>1, <1>2, <1>3, <2>1, ArmaIInv
<1>9. ASSUME NEW pid \in Pids, FinalizaProceso(pid)
      PROVE  IInv'
  <2>1. /\ cerrados' = cerrados \cup {pid}
        /\ UNCHANGED <<tipo_asignacion, lista_swap_files, paginas, concedidas, colgada>>
    BY <1>9 DEF FinalizaProceso
  <2>2. ParticionesOK(particiones', tipo_asignacion)
    BY <1>9, PasoDeFinaliza
  <2>. QED BY <1>1, <1>2, <1>3, <2>1, <2>2, ArmaIInv
<1>10. CASE UNCHANGED vars
  <2>1. UNCHANGED <<tipo_asignacion, lista_swap_files, particiones, paginas, concedidas, cerrados, colgada>>
    BY <1>10 DEF vars
  <2>. QED BY <1>1, <1>2, <1>3, <2>1, ArmaIInv
<1>. QED BY <1>5, <1>6, <1>7, <1>8, <1>9, <1>10 DEF Next

\* The invariant of SWAmP holds throughout.
THEOREM Invariante == Spec => []IInv
<1>. QED BY InitIInv, PasoIInv, PTL DEF Spec

\* The variables keep their types.
THEOREM TiposDelSwap == Spec => []TypeOK
<1>1. IInv => TypeOK
  BY DEF IInv
<1>. QED BY Invariante, <1>1, PTL

\* A carpincho has partitions in one file only: whatever file has most room when
\* it writes, the lookup by pid misses none of its partitions.
THEOREM UnSoloArchivoSiempre == Spec => []UnSoloArchivo
<1>1. IInv => UnSoloArchivo
  BY DEF IInv, ParticionesOK, UnSoloArchivo, De
<1>. QED BY Invariante, <1>1, PTL

\* Under FIJA a carpincho has its whole quota or nothing.
THEOREM CuotaFijaSiempre == Spec => []CuotaFija
<1>1. IInv => CuotaFija
  BY DEF IInv, ParticionesOK, CuotaEn, CuotaFija, De
<1>. QED BY Invariante, <1>1, PTL

-----------------------------------------------------------------------------
(* What is stored, and that SWAmP is a store of pages.                     *)

GuardadasEn(P, pid, pag) ==
  UNION {{P[a][i] : i \in ParaSobreescribir(P[a], pid, pag)} : a \in Archivos}

ValorEn(P, pid, pag) ==
  IF GuardadasEn(P, pid, pag) = {} THEN Ausente
  ELSE (CHOOSE x \in GuardadasEn(P, pid, pag) : TRUE).contenido

\* A page is stored once.
LEMMA UnaSolaVez ==
  ASSUME NEW tipo, NEW P, ParticionesOK(P, tipo), NEW pid \in Pids, NEW pag
  PROVE  \A a \in Archivos : \A i \in ParaSobreescribir(P[a], pid, pag) :
           \A x : x \in GuardadasEn(P, pid, pag) <=> x = P[a][i]
<1>. SUFFICES ASSUME NEW a \in Archivos, NEW i \in ParaSobreescribir(P[a], pid, pag)
              PROVE  \A x : x \in GuardadasEn(P, pid, pag) <=> x = P[a][i]
  OBVIOUS
<1>1. ASSUME NEW b \in Archivos, NEW j \in ParaSobreescribir(P[b], pid, pag)
      PROVE  b = a /\ j = i
  <2>1. /\ i \in Suyas(P[a], pid) /\ P[a][i].hay_contenido = 1 /\ P[a][i].num_pagina = pag
        /\ j \in Suyas(P[b], pid) /\ P[b][j].hay_contenido = 1 /\ P[b][j].num_pagina = pag
    BY DEF ParaSobreescribir
  <2>2. b = a
    <3>1. Suyas(P[a], pid) # {} /\ Suyas(P[b], pid) # {}
      BY <2>1
    <3>. QED BY <3>1 DEF ParticionesOK
  <2>3. EnOrden(P[a])
    BY DEF ParticionesOK, TablaOK
  <2>. QED BY <2>1, <2>2, <2>3 DEF EnOrden
<1>2. P[a][i] \in GuardadasEn(P, pid, pag)
  BY DEF GuardadasEn
<1>3. \A x \in GuardadasEn(P, pid, pag) : x = P[a][i]
  BY <1>1 DEF GuardadasEn
<1>. QED BY <1>2, <1>3

\* Its content is that of the one partition that stores it.
LEMMA ValorEs ==
  ASSUME NEW tipo, NEW P, ParticionesOK(P, tipo), NEW pid \in Pids, NEW pag
  PROVE  \A a \in Archivos : \A i \in ParaSobreescribir(P[a], pid, pag) :
           ValorEn(P, pid, pag) = P[a][i].contenido
<1>1. TAKE a \in Archivos
<1>2. TAKE i \in ParaSobreescribir(P[a], pid, pag)
<1>3. PICK S : S = GuardadasEn(P, pid, pag)
  OBVIOUS
<1>4. \A x : x \in S <=> x = P[a][i]
  BY <1>3, UnaSolaVez
<1>5. (CHOOSE x \in S : TRUE) = P[a][i] /\ S # {}
  BY <1>4
<1>. QED BY <1>3, <1>5 DEF ValorEn

\* A page that is nowhere is absent.
LEMMA NiUna ==
  ASSUME NEW P, NEW pid, NEW pag,
         \A a \in Archivos : ParaSobreescribir(P[a], pid, pag) = {}
  PROVE  GuardadasEn(P, pid, pag) = {} /\ ValorEn(P, pid, pag) = Ausente
<1>1. GuardadasEn(P, pid, pag) = {}
  BY DEF GuardadasEn
<1>. QED BY <1>1 DEF ValorEn

\* A page that stays where it was, as it was, is stored as before.
LEMMA MismoValor ==
  ASSUME NEW tipo, NEW P, NEW Q, ParticionesOK(P, tipo), ParticionesOK(Q, tipo),
         NEW pid \in Pids, NEW pag,
         \A a \in Archivos :
           /\ ParaSobreescribir(Q[a], pid, pag) = ParaSobreescribir(P[a], pid, pag)
           /\ \A i \in ParaSobreescribir(P[a], pid, pag) : Q[a][i] = P[a][i]
  PROVE  ValorEn(Q, pid, pag) = ValorEn(P, pid, pag)
<1>1. CASE \A a \in Archivos : ParaSobreescribir(P[a], pid, pag) = {}
  <2>1. \A a \in Archivos : ParaSobreescribir(Q[a], pid, pag) = {}
    BY <1>1
  <2>2. ValorEn(P, pid, pag) = Ausente
    BY <1>1, NiUna
  <2>3. ValorEn(Q, pid, pag) = Ausente
    BY <2>1, NiUna
  <2>. QED BY <2>2, <2>3
<1>2. CASE \E a \in Archivos : ParaSobreescribir(P[a], pid, pag) # {}
  <2>1. PICK a \in Archivos : ParaSobreescribir(P[a], pid, pag) # {}
    BY <1>2
  <2>2. PICK i : i \in ParaSobreescribir(P[a], pid, pag)
    BY <2>1
  <2>3. i \in ParaSobreescribir(Q[a], pid, pag) /\ Q[a][i] = P[a][i]
    BY <2>2
  <2>4. ValorEn(P, pid, pag) = P[a][i].contenido
    BY <2>2, ValorEs
  <2>5. ValorEn(Q, pid, pag) = Q[a][i].contenido
    BY <2>3, ValorEs
  <2>. QED BY <2>3, <2>4, <2>5
<1>. QED BY <1>1, <1>2

\* A write stores its page, or finds no place for it, and touches no other.
GuardaONo(P, Q, pid, pag, v) ==
  /\ \A p \in Pids : \A n : (p # pid \/ n # pag) => ValorEn(Q, p, n) = ValorEn(P, p, n)
  /\ \/ ValorEn(Q, pid, pag) = v
     \/ ValorEn(Q, pid, pag) = ValorEn(P, pid, pag)

\* It is so for what a write does to its file.
LEMMA ValoresTrasEscribir ==
  ASSUME NEW tipo, NEW P, ParticionesOK(P, tipo), NEW pid \in Pids, NEW pag, NEW v,
         NEW a \in Archivos, NEW Q, ParticionesOK(Q, tipo),
         \A b \in Archivos \ {a} : Q[b] = P[b],
         Cambia(P[a], Q[a], pid, pag, v),
         \A p \in Pids \ {pid} : Suyas(Q[a], p) = Suyas(P[a], p)
  PROVE  GuardaONo(P, Q, pid, pag, v)
<1>1. \A c \in Archivos : \A j \in ParaSobreescribir(P[c], pid, pag) :
        ValorEn(P, pid, pag) = P[c][j].contenido
  BY ValorEs
<1>2. \A c \in Archivos : \A j \in ParaSobreescribir(Q[c], pid, pag) :
        ValorEn(Q, pid, pag) = Q[c][j].contenido
  BY ValorEs
<1>. PICK qs : qs = Q[a]
  OBVIOUS
<1>3. ParticionesOK(Q, tipo)
  OBVIOUS
<1>4. Q[a] = qs /\ \A b \in Archivos \ {a} : Q[b] = P[b]
  OBVIOUS
<1>5. \A p : Suyas(P[a], p) \in SUBSET Posiciones
  <2>1. P[a] \in Tabla
    BY DEF ParticionesOK
  <2>. QED BY <2>1, Campos
<1>6. ASSUME NEW p \in Pids, NEW n, p # pid \/ n # pag
      PROVE  /\ ParaSobreescribir(qs, p, n) = ParaSobreescribir(P[a], p, n)
             /\ \A i \in ParaSobreescribir(P[a], p, n) : qs[i] = P[a][i]
  <2>1. CASE p # pid
    <3>1. Suyas(qs, p) = Suyas(P[a], p)
      BY <2>1
    <3>2. \A i \in Suyas(P[a], p) : qs[i] = P[a][i]
      BY <1>5, <2>1 DEF Cambia
    <3>. QED BY <3>1, <3>2 DEF ParaSobreescribir
  <2>2. CASE p = pid /\ n # pag
    <3>1. ASSUME NEW i \in ParaSobreescribir(P[a], p, n)
          PROVE  i \in ParaSobreescribir(qs, p, n) /\ qs[i] = P[a][i]
      <4>1. i \in Suyas(P[a], pid) /\ P[a][i].hay_contenido = 1 /\ P[a][i].num_pagina = n
        BY <2>2, <3>1 DEF ParaSobreescribir
      <4>2. i \in Suyas(qs, pid) /\ qs[i] = P[a][i]
        BY <2>2, <4>1 DEF Cambia
      <4>. QED BY <2>2, <4>1, <4>2 DEF ParaSobreescribir
    <3>2. ASSUME NEW i \in ParaSobreescribir(qs, p, n)
          PROVE  i \in ParaSobreescribir(P[a], p, n)
      <4>1. i \in Suyas(qs, pid) /\ qs[i].hay_contenido = 1 /\ qs[i].num_pagina = n
        BY <2>2, <3>2 DEF ParaSobreescribir
      <4>2. i \in Suyas(P[a], pid) /\ qs[i] = P[a][i]
        BY <2>2, <4>1 DEF Cambia
      <4>. QED BY <2>2, <4>1, <4>2 DEF ParaSobreescribir
    <3>. QED BY <3>1, <3>2
  <2>. QED BY <1>6, <2>1, <2>2
<1>7. ASSUME NEW p \in Pids, NEW n, p # pid \/ n # pag
      PROVE  ValorEn(Q, p, n) = ValorEn(P, p, n)
  <2>1. \A b \in Archivos :
          /\ ParaSobreescribir(Q[b], p, n) = ParaSobreescribir(P[b], p, n)
          /\ \A i \in ParaSobreescribir(P[b], p, n) : Q[b][i] = P[b][i]
    BY <1>4, <1>6, <1>7
  <2>. QED BY <1>3, <2>1, MismoValor
<1>8. CASE \E b \in Archivos : ParaSobreescribir(Q[b], pid, pag) # {}
  <2>1. PICK b \in Archivos : ParaSobreescribir(Q[b], pid, pag) # {}
    BY <1>8
  <2>2. PICK i : i \in ParaSobreescribir(Q[b], pid, pag)
    BY <2>1
  <2>3. ValorEn(Q, pid, pag) = Q[b][i].contenido
    BY <1>2, <2>2
  <2>4. CASE b = a
    <3>1. i \in Suyas(qs, pid) /\ qs[i].hay_contenido = 1 /\ qs[i].num_pagina = pag
      BY <1>4, <2>2, <2>4 DEF ParaSobreescribir
    <3>2. qs[i].contenido = v
      BY <3>1 DEF Cambia
    <3>. QED BY <1>4, <1>7, <2>3, <2>4, <3>2 DEF GuardaONo
  <2>5. CASE b # a
    <3>1. Q[b] = P[b]
      BY <1>4, <2>5
    <3>2. ValorEn(P, pid, pag) = P[b][i].contenido
      <4>1. i \in ParaSobreescribir(P[b], pid, pag)
        BY <2>2, <3>1
      <4>. QED BY <1>1, <4>1
    <3>3. ValorEn(Q, pid, pag) = ValorEn(P, pid, pag)
      BY <2>3, <3>1, <3>2
    <3>. QED BY <1>7, <3>3 DEF GuardaONo
  <2>. QED BY <2>4, <2>5
<1>9. CASE \A b \in Archivos : ParaSobreescribir(Q[b], pid, pag) = {}
  <2>1. ValorEn(Q, pid, pag) = Ausente
    BY <1>9, NiUna
  <2>2. ParaSobreescribir(P[a], pid, pag) = {}
    <3>1. SUFFICES ASSUME NEW i \in ParaSobreescribir(P[a], pid, pag)
                   PROVE  FALSE
      OBVIOUS
    <3>2. i \in Suyas(P[a], pid) /\ P[a][i].hay_contenido = 1 /\ P[a][i].num_pagina = pag
      BY DEF ParaSobreescribir
    <3>3. i \in Suyas(qs, pid) /\ qs[i].hay_contenido = 1 /\ qs[i].num_pagina = pag
      BY <3>2 DEF Cambia
    <3>4. i \in ParaSobreescribir(Q[a], pid, pag)
      BY <1>4, <3>3 DEF ParaSobreescribir
    <3>. QED BY <1>9, <3>4
  <2>3. \A b \in Archivos : ParaSobreescribir(P[b], pid, pag) = {}
    BY <1>4, <1>9, <2>2
  <2>4. ValorEn(P, pid, pag) = Ausente
    BY <2>3, NiUna
  <2>5. ValorEn(Q, pid, pag) = ValorEn(P, pid, pag)
    BY <2>1, <2>4
  <2>. QED BY <1>7, <2>5 DEF GuardaONo
<1>. QED BY <1>8, <1>9

\* The mapping, in terms of the partitions.
LEMMA GuardadoEs ==
  /\ Guardado = [p \in Pids |-> [n \in 0..(MaxPaginas - 1) |-> ValorEn(particiones, p, n)]]
  /\ Guardado' = [p \in Pids |-> [n \in 0..(MaxPaginas - 1) |-> ValorEn(particiones', p, n)]]
BY DEF Guardado, Guardadas, GuardadasEn, ValorEn

\* Each step of SWAmP is a step of the store of pages, or none.
LEMMA PasoAlmacen ==
  ASSUME IInv, [Next]_vars
  PROVE  [Almacen!Next]_Guardado
<1>1. PICK P, tipo : P = particiones /\ tipo = tipo_asignacion
  OBVIOUS
<1>2. ParticionesOK(P, tipo)
  BY <1>1 DEF IInv
<1>3. PICK G : G = Guardado
  OBVIOUS
<1>4. G = [p \in Pids |-> [n \in 0..(MaxPaginas - 1) |-> ValorEn(P, p, n)]]
  BY <1>1, <1>3, GuardadoEs
<1>5. ASSUME UNCHANGED particiones PROVE UNCHANGED Guardado
  BY <1>5, GuardadoEs
<1>6. ASSUME NEW pid \in Pids, NEW pag \in 0..(MaxPaginas - 1), NEW v \in Contenidos,
             escribirContenido(pid, pag, v)
      PROVE  Almacen!Guarda(pid, pag, v) \/ UNCHANGED Guardado
  <2>0. PICK a \in Archivos : \E qs :
          /\ particiones' = [particiones EXCEPT ![a] = qs]
          /\ TablaOK(qs, tipo_asignacion)
          /\ Cambia(particiones[a], qs, pid, pag, v)
          /\ CuotaEn(qs, tipo_asignacion, pid)
          /\ \A p \in Pids \ {pid} : Suyas(qs, p) = Suyas(particiones[a], p)
          /\ \A b \in Archivos \ {a} : Suyas(particiones[b], pid) = {}
    BY <1>6, PasoDeEscribir
  <2>1. PICK qs :
          /\ particiones' = [particiones EXCEPT ![a] = qs]
          /\ TablaOK(qs, tipo_asignacion)
          /\ Cambia(particiones[a], qs, pid, pag, v)
          /\ CuotaEn(qs, tipo_asignacion, pid)
          /\ \A p \in Pids \ {pid} : Suyas(qs, p) = Suyas(particiones[a], p)
          /\ \A b \in Archivos \ {a} : Suyas(particiones[b], pid) = {}
    BY <2>0
  <2>2. ParticionesOK([P EXCEPT ![a] = qs], tipo)
    BY <1>1, <1>2, <2>1, TrasEscribir
  <2>3. PICK Q : Q = [P EXCEPT ![a] = qs]
    OBVIOUS
  <2>4. /\ ParticionesOK(Q, tipo)
        /\ \A b \in Archivos \ {a} : Q[b] = P[b]
        /\ Cambia(P[a], Q[a], pid, pag, v)
        /\ \A p \in Pids \ {pid} : Suyas(Q[a], p) = Suyas(P[a], p)
    BY <1>1, <1>2, <2>1, <2>2, <2>3 DEF ParticionesOK
  <2>5. /\ \A p \in Pids : \A n : (p # pid \/ n # pag) => ValorEn(Q, p, n) = ValorEn(P, p, n)
        /\ ValorEn(Q, pid, pag) = v \/ ValorEn(Q, pid, pag) = ValorEn(P, pid, pag)
    <3>1. GuardaONo(P, Q, pid, pag, v)
      BY <1>2, <2>4, ValoresTrasEscribir
    <3>. QED BY <3>1 DEF GuardaONo
  <2>6. PICK H : H = [p \in Pids |-> [n \in 0..(MaxPaginas - 1) |-> ValorEn(Q, p, n)]]
    OBVIOUS
  <2>7. Guardado' = H
    BY <1>1, <2>1, <2>3, <2>6, GuardadoEs
  <2>8. CASE ValorEn(Q, pid, pag) = v
    <3>1. H = [G EXCEPT ![pid][pag] = v]
      BY <1>4, <2>5, <2>6, <2>8
    <3>. QED BY <1>3, <2>7, <3>1 DEF Almacen!Guarda
  <2>9. CASE ValorEn(Q, pid, pag) = ValorEn(P, pid, pag)
    <3>1. H = G
      BY <1>4, <2>5, <2>6, <2>9
    <3>. QED BY <1>3, <2>7, <3>1
  <2>. QED BY <2>5, <2>8, <2>9
<1>7. ASSUME NEW pid \in Pids, FinalizaProceso(pid)
      PROVE  Almacen!Borra(pid)
  <2>1. PICK Q : Q = particiones'
    OBVIOUS
  <2>2. /\ ParticionesOK(Q, tipo)
        /\ \A a \in Archivos : Suyas(Q[a], pid) = {}
        /\ \A p \in Pids \ {pid}, a \in Archivos :
             /\ Suyas(Q[a], p) = Suyas(P[a], p)
             /\ \A i \in Suyas(P[a], p) : Q[a][i] = P[a][i]
    BY <1>1, <1>7, <2>1, PasoDeFinaliza
  <2>3. \A n : ValorEn(Q, pid, n) = Ausente
    <3>1. TAKE n
    <3>2. \A a \in Archivos : ParaSobreescribir(Q[a], pid, n) = {}
      BY <2>2 DEF ParaSobreescribir
    <3>. QED BY <3>2, NiUna
  <2>4. \A p \in Pids \ {pid} : \A n : ValorEn(Q, p, n) = ValorEn(P, p, n)
    <3>1. TAKE p \in Pids \ {pid}
    <3>2. TAKE n
    <3>3. \A a \in Archivos :
            /\ ParaSobreescribir(Q[a], p, n) = ParaSobreescribir(P[a], p, n)
            /\ \A i \in ParaSobreescribir(P[a], p, n) : Q[a][i] = P[a][i]
      BY <2>2 DEF ParaSobreescribir
    <3>. QED BY <1>2, <2>2, <3>3, MismoValor
  <2>5. PICK H : H = [p \in Pids |-> [n \in 0..(MaxPaginas - 1) |-> ValorEn(Q, p, n)]]
    OBVIOUS
  <2>6. Guardado' = H
    BY <2>1, <2>5, GuardadoEs
  <2>7. H = [G EXCEPT ![pid] = [n \in 0..(MaxPaginas - 1) |-> Ausente]]
    BY <1>4, <2>3, <2>4, <2>5
  <2>. QED BY <1>3, <2>6, <2>7 DEF Almacen!Borra
<1>8. ASSUME NEW pid \in Pids, NEW n \in 1..MaxPaginas, ConsultaEspacio(pid, n)
      PROVE  UNCHANGED Guardado
  BY <1>5, <1>8 DEF ConsultaEspacio
<1>9. ASSUME NEW pid \in Pids, CreaPagina(pid)
      PROVE  \E pag \in 0..(MaxPaginas - 1), v \in Contenidos : Almacen!Guarda(pid, pag, v) \/ UNCHANGED Guardado
  <2>1. concedidas[pid] > 0 /\ escribirContenido(pid, paginas[pid], Vacia)
    BY <1>9 DEF CreaPagina
  <2>2. /\ paginas[pid] + concedidas[pid] <= MaxPaginas
        /\ paginas[pid] \in Nat /\ concedidas[pid] \in Nat /\ MaxPaginas \in Nat
    BY SwampOK DEF IInv, TypeOK
  <2>3. paginas[pid] \in 0..(MaxPaginas - 1) /\ Vacia \in Contenidos
    BY <2>1, <2>2, SwampOK
  <2>. QED BY <1>6, <2>1, <2>3
<1>10. ASSUME NEW pid \in Pids, NEW pag \in 0..(MaxPaginas - 1), NEW v \in Contenidos,
              ReemplazaPagina(pid, pag, v)
       PROVE  Almacen!Guarda(pid, pag, v) \/ UNCHANGED Guardado
  BY <1>6, <1>10 DEF ReemplazaPagina
<1>11. ASSUME NEW pid \in Pids, NEW pag \in 0..(MaxPaginas - 1), PidePagina(pid, pag)
       PROVE  UNCHANGED Guardado
  BY <1>5, <1>11 DEF PidePagina
<1>12. CASE UNCHANGED vars
  BY <1>5, <1>12 DEF vars
<1>. QED BY <1>7, <1>8, <1>9, <1>10, <1>11, <1>12 DEF Next, Almacen!Next

\* Nothing is stored at the start.
LEMMA InitAlmacen == Init => Almacen!Init
<1>. SUFFICES ASSUME Init PROVE Almacen!Init
  OBVIOUS
<1>1. PICK P : P = particiones
  OBVIOUS
<1>2. P = [a \in Archivos |-> [i \in 1..CantParticiones |-> particion_nueva]]
  BY <1>1 DEF Init
<1>3. P \in [Archivos -> Tabla]
  BY <1>1, InitIInv DEF IInv, ParticionesOK
<1>4. ASSUME NEW a \in Archivos, NEW p PROVE Suyas(P[a], p) = {}
  <2>1. P[a] \in Tabla
    BY <1>3
  <2>2. Suyas(P[a], p) = {i \in Posiciones : EsDe(p, P[a][i])}
    BY <2>1, Campos
  <2>3. \A i \in Posiciones : P[a][i].esta_libre = 1
    BY <1>2 DEF Posiciones, particion_nueva
  <2>. QED BY <2>2, <2>3 DEF EsDe
<1>5. \A p, n : ValorEn(P, p, n) = Ausente
  <2>1. \A p, n : \A a \in Archivos : ParaSobreescribir(P[a], p, n) = {}
    BY <1>4 DEF ParaSobreescribir
  <2>. QED BY <2>1, NiUna
<1>. QED BY <1>1, <1>5, GuardadoEs DEF Almacen!Init

\* SWAmP implements a store of pages: no message touches a page but the one it
\* names, and only the end of its carpincho takes a stored page away.
THEOREM CumpleElAlmacen == Spec => CumpleAlmacen
<1>1. IInv /\ [Next]_vars => [Almacen!Next]_Guardado
  BY PasoAlmacen
<1>. QED BY InitAlmacen, Invariante, <1>1, PTL DEF Spec, CumpleAlmacen, Almacen!Spec

\* What a read finds of a page that is stored.
LEMMA LecturaDe ==
  ASSUME IInv, NEW pid \in Pids, NEW pag, NEW a \in Archivos,
         NEW i \in ParaSobreescribir(particiones[a], pid, pag)
  PROVE  Lecturas(pid, pag) = {particiones[a][i].contenido}
<1>1. PICK ps : ps = particiones[a]
  OBVIOUS
<1>2. TypeOK /\ ParticionesOK(particiones, tipo_asignacion)
  BY DEF IInv
<1>3. ps \in Tabla /\ EnOrden(ps)
  BY <1>1, <1>2 DEF ParticionesOK, TablaOK
<1>4. i \in Suyas(ps, pid) /\ ps[i].hay_contenido = 1 /\ ps[i].num_pagina = pag
  BY <1>1 DEF ParaSobreescribir
<1>5. encontrar_swap_file_en_base_a_pid(pid) = a
  <2>1. PICK b : b = encontrar_swap_file_en_base_a_pid(pid)
    OBVIOUS
  <2>2. TieneArchivo(pid)
    BY <1>1, <1>4 DEF TieneArchivo
  <2>3. b \in Archivos /\ Suyas(particiones[b], pid) # {}
    BY <1>2, <2>1, <2>2, Encuentra DEF De
  <2>4. Suyas(particiones[a], pid) # {}
    BY <1>1, <1>4
  <2>. QED BY <1>2, <2>1, <2>3, <2>4 DEF ParticionesOK
<1>6. PICK T : T = ParaLeer(ps, pid, pag)
  OBVIOUS
<1>7. i \in T
  BY <1>4, <1>6 DEF ParaLeer
<1>8. T \subseteq Nat
  <2>1. Suyas(ps, pid) \in SUBSET Posiciones
    BY <1>3, Campos
  <2>. QED BY <1>6, <2>1, SwampOK DEF ParaLeer, Posiciones
<1>9. Min(T) = i
  <2>1. Min(T) \in T /\ Min(T) <= i
    BY <1>7, <1>8, MinEs
  <2>2. Min(T) \in Suyas(ps, pid) /\ ps[Min(T)].num_pagina = pag
    BY <1>6, <2>1 DEF ParaLeer
  <2>3. Min(T) \in Nat /\ i \in Nat
    BY <1>7, <1>8, <2>1
  <2>4. CASE Min(T) < i
    <3>1. ps[Min(T)].hay_contenido = 1
      BY <1>3, <1>4, <2>2, <2>4 DEF EnOrden
    <3>. QED BY <1>3, <1>4, <2>2, <3>1 DEF EnOrden
  <2>. QED BY <2>1, <2>3, <2>4
<1>10. Lecturas(pid, pag) = IF T = {} THEN Contenidos ELSE {ps[Min(T)].contenido}
  BY <1>1, <1>5, <1>6 DEF Lecturas
<1>. QED BY <1>1, <1>7, <1>9, <1>10

\* A page that is stored reads back as what was written last, although a read
\* does not look at hay_contenido and freed partitions keep their page numbers.
THEOREM SeLeeLoEscritoSiempre == Spec => []SeLeeLoEscrito
<1>1. IInv => SeLeeLoEscrito
  <2>1. SUFFICES ASSUME IInv, NEW pid \in Pids, NEW pag \in 0..(MaxPaginas - 1),
                        Guardadas(pid, pag) # {}
                 PROVE  Lecturas(pid, pag) = {x.contenido : x \in Guardadas(pid, pag)}
    BY DEF SeLeeLoEscrito
  <2>2. PICK a \in Archivos : \E i : i \in ParaSobreescribir(particiones[a], pid, pag)
    BY <2>1 DEF Guardadas
  <2>3. PICK i : i \in ParaSobreescribir(particiones[a], pid, pag)
    BY <2>2
  <2>4. Guardadas(pid, pag) = {particiones[a][i]}
    <3>1. PICK P, tipo : P = particiones /\ tipo = tipo_asignacion
      OBVIOUS
    <3>2. ParticionesOK(P, tipo) /\ i \in ParaSobreescribir(P[a], pid, pag)
      BY <2>1, <2>3, <3>1 DEF IInv
    <3>3. GuardadasEn(P, pid, pag) = {P[a][i]}
      BY <3>2, UnaSolaVez
    <3>. QED BY <3>1, <3>3 DEF Guardadas, GuardadasEn
  <2>5. Lecturas(pid, pag) = {particiones[a][i].contenido}
    BY <2>1, <2>3, LecturaDe
  <2>. QED BY <2>4, <2>5
<1>. QED BY Invariante, <1>1, PTL

=============================================================================
