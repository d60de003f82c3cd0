----------------------------- MODULE HeapProofs -----------------------------
(***************************************************************************)
(* Heap for any page size, any sizes asked for and any number of pages.    *)
(*                                                                         *)
(* What never breaks is the direction of the pointers: the next header of  *)
(* any header ever written, merged ones included, is further on and the    *)
(* previous one is before, and all of them are below the only last one,    *)
(* which fits in the pages.  Until a hole is given the chain is also       *)
(* linked both ways, and each block is one of its links.                   *)
(***************************************************************************)
EXTENDS Heap, FiniteSetTheorems, SequenceTheorems, WellFoundedInduction, TLAPS

-----------------------------------------------------------------------------
(* Numbers.                                                                *)

\* A set of natural numbers that is not empty has a least element.
LEMMA HayMenor ==
  ASSUME NEW T, T \subseteq Nat, T # {}
  PROVE  \E i \in T : \A j \in T : i <= j
<1>1. IsWellFoundedOn(OpToRel(<, Nat), Nat)
  BY NatLessThanWellFounded
<1>2. PICK i \in T : \A j \in T : ~ (<<j, i>> \in OpToRel(<, Nat))
  BY <1>1, WFMin
<1>3. ASSUME NEW j \in T PROVE i <= j
  <2>1. i \in Nat /\ j \in Nat
    OBVIOUS
  <2>2. ~ (<<j, i>> \in OpToRel(<, Nat))
    BY <1>2
  <2>3. ~ (j < i)
    BY <2>1, <2>2 DEF OpToRel
  <2>. QED BY <2>1, <2>3
<1>. QED BY <1>3

LEMMA MinEs ==
  ASSUME NEW T, T \subseteq Nat, T # {}
  PROVE  Min(T) \in T /\ \A j \in T : Min(T) <= j
BY HayMenor DEF Min

LEMMA Producto ==
  ASSUME NEW p \in Nat, NEW a \in Nat, NEW b \in Nat, a <= b
  PROVE  a * p \in Nat /\ b * p \in Nat /\ a * p <= b * p
OBVIOUS

LEMMA Division ==
  ASSUME NEW x \in Nat, NEW p \in Nat \ {0}
  PROVE  /\ x \div p \in Nat /\ x % p \in 0..(p - 1)
         /\ x = (x \div p) * p + (x % p)
OBVIOUS

LEMMA Resto ==
  ASSUME NEW x \in Nat, NEW p \in Nat \ {0}
  PROVE  x % p \in Nat
OBVIOUS

\* Quotient and remainder are the only ones.
LEMMA DivisionUnica ==
  ASSUME NEW p \in Nat \ {0}, NEW q \in Nat, NEW r \in 0..(p - 1)
  PROVE  (q * p + r) \div p = q /\ (q * p + r) % p = r
OBVIOUS

LEMMA MenosMultiplos ==
  ASSUME NEW p \in Nat \ {0}, NEW a \in Nat, NEW b \in Nat, a * p < b * p
  PROVE  a < b
BY Producto

-----------------------------------------------------------------------------
(* Headers, as a value.                                                    *)

Cabecera == [isFree : BOOLEAN, prevAlloc : Int, nextAlloc : Int]

\* The headers f, of which u is the last one: pointers keep their direction.
Estructura(f, u) ==
  /\ u \in DOMAIN f /\ 0 \in DOMAIN f /\ u > 0 /\ DOMAIN f \subseteq 0..u
  /\ f \in [DOMAIN f -> Cabecera]
  /\ f[u].isFree /\ f[u].nextAlloc = -1 /\ f[0].prevAlloc = -1
  /\ \A c \in DOMAIN f \ {u} :
       f[c].nextAlloc \in DOMAIN f /\ f[c].nextAlloc >= c + TAMANIO_HEAP
  /\ \A c \in DOMAIN f \ {0} : f[c].prevAlloc \in DOMAIN f /\ f[c].prevAlloc < c

\* The links of the chain C of f are linked both ways.
Doble(f, C, u) == \A c \in C \ {u} : f[f[c].nextAlloc].prevAlloc = c

\* The blocks v have their places: below the last header, and those of the first
\* header are one block, in use, before all the others.
Lugares(f, v, u) ==
  /\ v \subseteq [cabecera : DOMAIN f \ {u}, tamanio : config.tamanios]
  /\ \A b \in v : b.cabecera + TAMANIO_HEAP + b.tamanio <= u
Primero(f, v) ==
  /\ \A b \in v : b.cabecera = 0 => ~f[0].isFree
  /\ \A a, b \in v : a.cabecera = 0 /\ b.cabecera = 0 => a = b
  /\ ~f[0].isFree => \A c \in DOMAIN f \ {0} : c >= f[0].nextAlloc

\* A block is a link of the chain C, in use, and ends where the next begins.
Eslabones(f, C, v) ==
  \A b \in v :
    /\ b.cabecera \in C /\ ~f[b.cabecera].isFree
    /\ f[b.cabecera].nextAlloc = b.cabecera + TAMANIO_HEAP + b.tamanio

\* A size that divides the page and the blocks with their headers, and holds
\* two headers.
Grano(g) ==
  /\ g \in (2 * TAMANIO_HEAP)..tamanioPagina /\ tamanioPagina % g = 0
  /\ \A t \in config.tamanios : (t + TAMANIO_HEAP) % g = 0
Multiplos(f) == \A g \in 1..tamanioPagina : Grano(g) => \A c \in DOMAIN f : c % g = 0

-----------------------------------------------------------------------------
(* The inductive invariant.                                                *)

Comun ==
  /\ config \in Configuraciones /\ paginas \in 0..MaxPaginas /\ primeraPag \in Nat
  /\ reuso \in BOOLEAN
  /\ averia \in {"no", "primerHueco", "bloqueRepetido", "cabeceraCortada", "idsCorridos",
                  "vecinaCortada", "cabeceraPisada", "escribeAfuera", "sinPagina"}

Vacio == paginas = 0 /\ cabeceras = <<>> /\ vivos = {}

Lleno(u) ==
  /\ Estructura(cabeceras, u) /\ Lugares(cabeceras, vivos, u)
  /\ paginas > 0 /\ paginas = Techo(u + TAMANIO_HEAP)
  /\ Multiplos(cabeceras)
  /\ averia = "no" => Primero(cabeceras, vivos)
  /\ averia = "no" /\ ~reuso =>
       Doble(cabeceras, Cadena, u) /\ Eslabones(cabeceras, Cadena, vivos)

IInv == Comun /\ (Vacio \/ \E u \in DOMAIN cabeceras : Lleno(u)) /\ AveriasConocidas

-----------------------------------------------------------------------------
(* The chain: the least set with the first header and the next one of each *)
(* of its headers.                                                         *)

Cerrado(f, S) ==
  0 \in S /\ \A c \in S \cap DOMAIN f : f[c].nextAlloc # -1 => f[c].nextAlloc \in S

EsCadena(f, C) == Cerrado(f, C) /\ \A S : Cerrado(f, S) => C \subseteq S

LEMMA CadenaUnica ==
  ASSUME NEW f, NEW C, NEW K, EsCadena(f, C), EsCadena(f, K)
  PROVE  C = K
BY DEF EsCadena

\* The chain goes through written headers as far as the last one, and every
\* header but the first is the next one of another.
LEMMA Recorrida ==
  ASSUME NEW f, NEW u, Estructura(f, u), NEW C, EsCadena(f, C)
  PROVE  /\ C \subseteq DOMAIN f /\ 0 \in C /\ u \in C
         /\ \A c \in C \ {u} : f[c].nextAlloc \in C
         /\ \A c \in C \ {0} : \E d \in C \ {u} : f[d].nextAlloc = c
<1>1. u \in Nat /\ \A c \in DOMAIN f : c \in 0..u
  BY DEF Estructura
<1>2. \A c \in DOMAIN f \ {u} :
        f[c].nextAlloc \in DOMAIN f /\ f[c].nextAlloc # -1 /\ f[c].nextAlloc > c
  <2>1. TAKE c \in DOMAIN f \ {u}
  <2>2. f[c].nextAlloc \in DOMAIN f /\ f[c].nextAlloc >= c + 9
    BY DEF Estructura, TAMANIO_HEAP
  <2>3. f[c].nextAlloc \in 0..u /\ c \in 0..u
    BY <2>2, <1>1
  <2>. QED BY <2>2, <2>3
<1>3. 0 \in DOMAIN f /\ f[u].nextAlloc = -1
  BY DEF Estructura
<1>4. C \subseteq DOMAIN f
  <2>1. Cerrado(f, DOMAIN f)
    BY <1>2, <1>3 DEF Cerrado
  <2>. QED BY <2>1 DEF EsCadena
<1>5. 0 \in C /\ \A c \in C \ {u} : f[c].nextAlloc \in C
  BY <1>2, <1>4 DEF EsCadena, Cerrado
<1>6. \A c \in C \ {0} : \E d \in C \ {u} : f[d].nextAlloc = c
  <2>1. PICK S : S = {c \in C : c = 0 \/ \E d \in C \ {u} : f[d].nextAlloc = c}
    OBVIOUS
  <2>2. Cerrado(f, S)
    BY <2>1, <1>3, <1>5 DEF Cerrado
  <2>. QED BY <2>1, <2>2 DEF EsCadena
<1>7. u \in C
  <2>1. PICK T : T = {u - c : c \in C}
    OBVIOUS
  <2>2. T \subseteq Nat /\ T # {}
    BY <2>1, <1>1, <1>4, <1>5
  <2>3. PICK i \in T : \A j \in T : i <= j
    BY <2>2, HayMenor
  <2>4. PICK c \in C : i = u - c
    BY <2>1, <2>3
  <2>5. ASSUME c # u PROVE FALSE
    <3>1. PICK d : d = f[c].nextAlloc
      OBVIOUS
    <3>2. d \in C /\ d > c
      BY <3>1, <2>5, <1>2, <1>4, <1>5
    <3>3. u - d \in T
      BY <3>2, <2>1
    <3>4. d \in 0..u /\ c \in 0..u
      BY <3>2, <1>1, <1>4
    <3>5. u - c <= u - d
      BY <3>3, <2>3, <2>4
    <3>. QED BY <3>2, <3>4, <3>5, <1>1
  <2>. QED BY <2>4, <2>5
<1>. QED BY <1>4, <1>5, <1>6, <1>7

\* The walk of n steps from the first header by s.
Camino(n, s) == CHOOSE f : f = [k \in 0..n |-> IF k = 0 THEN 0 ELSE s[f[k - 1]]]

\* There is one: the recursion is well founded.
LEMMA CaminoEs ==
  ASSUME NEW n \in Nat, NEW s, NEW g, g = Camino(n, s)
  PROVE  DOMAIN g = 0..n /\ g[0] = 0 /\ \A k \in 1..n : g[k] = s[g[k - 1]]
<1>. DEFINE Hasta(m, f) == f = [k \in 0..m |-> IF k = 0 THEN 0 ELSE s[f[k - 1]]]
            Malos == {m \in Nat : ~\E f : Hasta(m, f)}
<1>1. Malos = {}
  <2>1. SUFFICES ASSUME Malos # {} PROVE FALSE
    OBVIOUS
  <2>2. PICK m \in Malos : \A j \in Malos : m <= j
    <3>. Malos \subseteq Nat
      OBVIOUS
    <3>. HIDE DEF Malos
    <3>. QED BY <2>1, HayMenor
  <2>3. m # 0
    <3>1. Hasta(0, [k \in 0..0 |-> 0])
      OBVIOUS
    <3>. QED BY <3>1
  <2>4. PICK j \in Nat : m = j + 1
    BY <2>3
  <2>5. j \notin Malos
    <3>1. m \in Nat /\ ~(m <= j)
      BY <2>4
    <3>. HIDE DEF Malos
    <3>. QED BY <2>2, <3>1
  <2>6. PICK f : Hasta(j, f)
    BY <2>5
  <2>7. PICK h : h = [k \in 0..m |-> IF k < m THEN f[k] ELSE s[f[j]]]
    OBVIOUS
  <2>8. Hasta(m, h)
    <3>1. ASSUME NEW k \in 0..m PROVE h[k] = IF k = 0 THEN 0 ELSE s[h[k - 1]]
      <4>1. CASE k < m
        <5>1. k \in 0..j /\ h[k] = f[k]
          BY <4>1, <2>4, <2>7
        <5>2. f[k] = IF k = 0 THEN 0 ELSE s[f[k - 1]]
          BY <5>1, <2>6
        <5>3. k # 0 => h[k - 1] = f[k - 1]
          BY <5>1, <2>4, <2>7
        <5>. QED BY <5>1, <5>2, <5>3
      <4>2. CASE k = m
        <5>1. h[k] = s[f[j]] /\ h[k - 1] = f[j]
          BY <4>2, <2>4, <2>7
        <5>. QED BY <4>2, <5>1, <2>3
      <4>. QED BY <4>1, <4>2
    <3>. QED BY <3>1, <2>7
  <2>. QED BY <2>8
<1>2. Hasta(n, g)
  <2>1. \E f : Hasta(n, f)
    BY <1>1
  <2>. QED BY <2>1 DEF Camino
<1>3. DOMAIN g = 0..n /\ \A k \in 0..n : g[k] = IF k = 0 THEN 0 ELSE s[g[k - 1]]
  BY <1>2
<1>. QED BY <1>3

\* A walk of as many steps as there are headers goes through the chain.
LEMMA CaminoEsCadena ==
  ASSUME NEW f, NEW u, Estructura(f, u), NEW n, n = Cardinality(DOMAIN f), NEW s,
         \A c \in DOMAIN f :
           s[c] = IF f[c].nextAlloc # -1 THEN f[c].nextAlloc ELSE c,
         NEW g, DOMAIN g = 0..n, g[0] = 0, \A k \in 1..n : g[k] = s[g[k - 1]]
  PROVE  EsCadena(f, Range(g))
<1>1. u \in Nat /\ \A c \in DOMAIN f : c \in 0..u
  BY DEF Estructura
<1>2. \A c \in DOMAIN f \ {u} :
        s[c] = f[c].nextAlloc /\ f[c].nextAlloc # -1 /\ s[c] \in DOMAIN f /\ s[c] > c
  <2>1. TAKE c \in DOMAIN f \ {u}
  <2>2. f[c].nextAlloc \in DOMAIN f /\ f[c].nextAlloc >= c + 9
    BY DEF Estructura, TAMANIO_HEAP
  <2>3. f[c].nextAlloc \in 0..u /\ c \in 0..u
    BY <2>2, <1>1
  <2>. QED BY <2>2, <2>3
<1>3. s[u] = u /\ u \in DOMAIN f /\ 0 \in DOMAIN f /\ f[u].nextAlloc = -1
  BY DEF Estructura
<1>4. IsFiniteSet(DOMAIN f) /\ n \in Nat
  <2>1. DOMAIN f \subseteq 0..u /\ IsFiniteSet(0..u)
    BY <1>1, FS_Interval
  <2>2. IsFiniteSet(DOMAIN f)
    BY <2>1, FS_Subset
  <2>. QED BY <2>2, FS_CardinalityType
<1>5. DOMAIN g = 0..n /\ g[0] = 0 /\ \A k \in 1..n : g[k] = s[g[k - 1]]
  OBVIOUS
<1>6. ASSUME NEW S, Cerrado(f, S)
      PROVE  \A k \in 0..n : g[k] \in S \cap DOMAIN f
  <2>. DEFINE Malos == {k \in 0..n : g[k] \notin S \cap DOMAIN f}
  <2>1. SUFFICES ASSUME Malos # {} PROVE FALSE
    OBVIOUS
  <2>2. PICK m \in Malos : \A j \in Malos : m <= j
    <3>. Malos \subseteq Nat
      BY <1>4
    <3>. HIDE DEF Malos
    <3>. QED BY <2>1, HayMenor
  <2>3. m # 0
    BY <1>3, <1>5, <1>6 DEF Cerrado
  <2>4. PICK j \in 0..n : m = j + 1 /\ m \in 1..n
    BY <2>3, <1>4
  <2>5. j \notin Malos
    <3>1. m \in Nat /\ ~(m <= j)
      BY <2>4, <1>4
    <3>. HIDE DEF Malos
    <3>. QED BY <2>2, <3>1
  <2>6. g[j] \in S \cap DOMAIN f /\ g[m] = s[g[j]]
    <3>1. m - 1 = j
      BY <2>4, <1>4
    <3>. QED BY <2>4, <2>5, <3>1, <1>5
  <2>7. g[m] \in S \cap DOMAIN f
    BY <2>6, <1>2, <1>3, <1>6 DEF Cerrado
  <2>. QED BY <2>7
<1>7. Range(g) = {g[k] : k \in 0..n}
  BY <1>5 DEF Range
<1>8. \A S : Cerrado(f, S) => Range(g) \subseteq S
  BY <1>6, <1>7
<1>9. \A k \in 0..n : g[k] \in DOMAIN f
  <2>1. Cerrado(f, DOMAIN f)
    BY <1>2, <1>3 DEF Cerrado
  <2>. QED BY <2>1, <1>6
<1>10. g[n] = u
  <2>1. SUFFICES ASSUME g[n] # u PROVE FALSE
    OBVIOUS
  <2>2. PICK A : A = [k \in 0..n |-> {d \in DOMAIN f : d < g[k]}]
    OBVIOUS
  <2>3. \A k \in 0..n : \A d : d \in A[k] <=> d \in DOMAIN f /\ d < g[k]
    BY <2>2
  <2>4. \A k \in 0..n : IsFiniteSet(A[k]) /\ Cardinality(A[k]) \in Nat
    <3>1. TAKE k \in 0..n
    <3>2. A[k] \subseteq DOMAIN f
      BY <2>3
    <3>3. IsFiniteSet(A[k])
      BY <3>2, <1>4, FS_Subset
    <3>. QED BY <3>3, FS_CardinalityType
  <2>5. \A k \in 0..n : g[k] \in DOMAIN f /\ g[k] \in Nat
    BY <1>1, <1>9
  <2>. DEFINE Malos == {k \in 0..n : g[k] # u /\ ~(Cardinality(A[k]) >= k)}
  <2>6. Malos = {}
    <3>1. SUFFICES ASSUME Malos # {} PROVE FALSE
      OBVIOUS
    <3>2. PICK m \in Malos : \A j \in Malos : m <= j
      <4>. Malos \subseteq Nat
        BY <1>4
      <4>. HIDE DEF Malos
      <4>. QED BY <3>1, HayMenor
    <3>3. m \in 0..n /\ g[m] # u /\ ~(Cardinality(A[m]) >= m)
      OBVIOUS
    <3>4. m # 0
      BY <3>3, <2>4, <1>4
    <3>5. PICK j \in 0..n : m = j + 1 /\ m \in 1..n
      BY <3>3, <3>4, <1>4
    <3>6. j \notin Malos
      <4>1. m \in Nat /\ ~(m <= j)
        BY <3>5, <1>4
      <4>. HIDE DEF Malos
      <4>. QED BY <3>2, <4>1
    <3>7. g[m] = s[g[j]]
      <4>1. m - 1 = j
        BY <3>5, <1>4
      <4>. QED BY <3>5, <4>1, <1>5
    <3>8. g[j] # u
      BY <3>3, <3>7, <1>3
    <3>9. Cardinality(A[j]) >= j
      BY <3>6, <3>8
    <3>10. g[j] < g[m]
      BY <3>5, <3>7, <3>8, <2>5, <1>2
    <3>11. g[j] \notin A[j] /\ A[j] \cup {g[j]} \subseteq A[m]
      <4>1. \A d \in DOMAIN f : d \in Nat
        BY <1>1
      <4>. QED BY <3>3, <3>10, <4>1, <2>3, <2>5
    <3>12. Cardinality(A[j] \cup {g[j]}) = Cardinality(A[j]) + 1
      BY <2>4, <3>11, FS_AddElement
    <3>13. Cardinality(A[j] \cup {g[j]}) <= Cardinality(A[m])
      BY <2>4, <3>3, <3>11, FS_Subset
    <3>14. Cardinality(A[j]) \in Nat /\ Cardinality(A[m]) \in Nat
      BY <3>3, <2>4
    <3>. QED BY <3>3, <3>5, <3>9, <3>12, <3>13, <3>14, <1>4
  <2>7. n \in 0..n /\ Cardinality(A[n]) \in Nat
    BY <2>4, <1>4
  <2>8. Cardinality(A[n]) >= n
    BY <2>1, <2>6, <2>7
  <2>9. g[n] \notin A[n] /\ A[n] \cup {g[n]} \subseteq DOMAIN f
    BY <2>3, <2>5, <2>7
  <2>10. Cardinality(A[n] \cup {g[n]}) = Cardinality(A[n]) + 1
    BY <2>4, <2>7, <2>9, FS_AddElement
  <2>11. Cardinality(A[n] \cup {g[n]}) <= n
    BY <2>9, <1>4, FS_Subset
  <2>. QED BY <2>7, <2>8, <2>10, <2>11, <1>4
<1>11. Cerrado(f, Range(g))
  <2>1. 0 \in Range(g)
    <3>1. 0 \in 0..n
      BY <1>4
    <3>. QED BY <3>1, <1>5, <1>7
  <2>2. ASSUME NEW c \in Range(g) \cap DOMAIN f, f[c].nextAlloc # -1
        PROVE  f[c].nextAlloc \in Range(g)
    <3>1. PICK k \in 0..n : c = g[k]
      BY <1>7
    <3>2. c # u /\ k # n
      BY <2>2, <3>1, <1>3, <1>10
    <3>3. k + 1 \in 1..n /\ (k + 1) - 1 = k
      BY <3>2, <1>4
    <3>4. g[k + 1] = s[c]
      BY <3>1, <3>3, <1>5
    <3>5. k + 1 \in 0..n
      BY <3>3
    <3>6. g[k + 1] \in Range(g)
      BY <3>5, <1>7
    <3>. QED BY <3>2, <3>4, <3>6, <1>2
  <2>. QED BY <2>1, <2>2 DEF Cerrado
<1>. QED BY <1>8, <1>11 DEF EsCadena

\* What the code goes through is that set.
LEMMA CadenaEs ==
  \A u : Estructura(cabeceras, u) /\ MaxPaginas * tamanioPagina \in Nat
           /\ u <= MaxPaginas * tamanioPagina
         => EsCadena(cabeceras, Cadena)
<1>1. SUFFICES ASSUME NEW u, Estructura(cabeceras, u), MaxPaginas * tamanioPagina \in Nat,
                      u <= MaxPaginas * tamanioPagina
               PROVE  EsCadena(cabeceras, Cadena)
  OBVIOUS
<1>2. PICK n : n = Cardinality(DOMAIN cabeceras)
  OBVIOUS
<1>3. n \in Nat
  <2>1. DOMAIN cabeceras \subseteq 0..u /\ u \in Nat
    BY <1>1 DEF Estructura
  <2>2. IsFiniteSet(0..u)
    BY <2>1, FS_Interval
  <2>3. IsFiniteSet(DOMAIN cabeceras)
    BY <2>1, <2>2, FS_Subset
  <2>. QED BY <1>2, <2>3, FS_CardinalityType
<1>4. PICK s : s = siguiente
  OBVIOUS
<1>5. \A c \in DOMAIN cabeceras :
        s[c] = IF cabeceras[c].nextAlloc # -1 THEN cabeceras[c].nextAlloc ELSE c
  <2>1. PICK m : m = MaxPaginas * tamanioPagina
    OBVIOUS
  <2>2. \A c \in DOMAIN cabeceras : c \in 0..m
    <3>1. u \in Nat /\ \A c \in DOMAIN cabeceras : c \in 0..u
      BY <1>1 DEF Estructura
    <3>. QED BY <1>1, <2>1, <3>1
  <2>3. s = [c \in 0..m |->
               IF c \in DOMAIN cabeceras /\ cabeceras[c].nextAlloc # -1
               THEN cabeceras[c].nextAlloc ELSE c]
    BY <1>4, <2>1 DEF siguiente
  <2>. QED BY <2>2, <2>3
<1>6. PICK g : g = Camino(n, s)
  OBVIOUS
<1>7. Cadena = Range(g)
  BY <1>2, <1>4, <1>6 DEF Cadena, Camino
<1>8. DOMAIN g = 0..n /\ g[0] = 0 /\ \A k \in 1..n : g[k] = s[g[k - 1]]
  BY <1>3, <1>6, CaminoEs
<1>9. EsCadena(cabeceras, Range(g))
  BY <1>1, <1>2, <1>5, <1>8, CaminoEsCadena
<1>. QED BY <1>7, <1>9

-----------------------------------------------------------------------------
(* What the operations do to the headers.                                  *)

\* A header and the one after the next are linked: m is left out of the chain.
LEMMA Salta ==
  ASSUME NEW f, NEW u, Estructura(f, u), NEW C, EsCadena(f, C), Doble(f, C, u),
         NEW h, Estructura(h, u), DOMAIN h = DOMAIN f,
         NEW x \in C \ {u}, NEW m, m = f[x].nextAlloc, m # u, NEW y, y = f[m].nextAlloc,
         \A c \in DOMAIN f : h[c].nextAlloc = IF c = x THEN y ELSE f[c].nextAlloc,
         \A c \in C \ {m} : h[c].prevAlloc = IF c = y THEN x ELSE f[c].prevAlloc
  PROVE  EsCadena(h, C \ {m}) /\ Doble(h, C \ {m}, u)
<1>1. /\ C \subseteq DOMAIN f /\ 0 \in C /\ u \in C
      /\ \A c \in C \ {u} : f[c].nextAlloc \in C
  BY Recorrida
<1>2. \A c \in DOMAIN f : c \in Nat
  BY DEF Estructura
<1>3. \A c \in DOMAIN f \ {u} : f[c].nextAlloc > c /\ f[c].nextAlloc \in DOMAIN f
  <2>1. TAKE c \in DOMAIN f \ {u}
  <2>2. f[c].nextAlloc \in DOMAIN f /\ f[c].nextAlloc >= c + 9
    BY DEF Estructura, TAMANIO_HEAP
  <2>. QED BY <2>2, <1>2
<1>4. f[u].nextAlloc = -1 /\ h[u].nextAlloc = -1 /\ u # -1
  BY <1>1, <1>2 DEF Estructura
<1>5. m \in C /\ y \in C /\ x < m /\ m < y /\ x \in Nat /\ m \in Nat /\ y \in Nat
  <2>1. m \in C /\ x < m
    BY <1>1, <1>3
  <2>2. y \in C /\ m < y
    BY <2>1, <1>1, <1>3
  <2>. QED BY <2>1, <2>2, <1>1, <1>2
<1>6. \A c \in C \ {u, x} : f[c].nextAlloc # m
  <2>1. TAKE c \in C \ {u, x}
  <2>2. f[f[c].nextAlloc].prevAlloc = c /\ f[m].prevAlloc = x
    BY DEF Doble
  <2>. QED BY <2>2
<1>7. Cerrado(h, C \ {m})
  <2>1. 0 \in C \ {m}
    BY <1>1, <1>5
  <2>2. ASSUME NEW c \in C \ {m}, h[c].nextAlloc # -1 PROVE h[c].nextAlloc \in C \ {m}
    <3>1. CASE c = x
      BY <3>1, <1>1, <1>5
    <3>2. CASE c # x
      <4>1. c # u /\ h[c].nextAlloc = f[c].nextAlloc
        BY <2>2, <3>2, <1>1, <1>4
      <4>. QED BY <3>2, <4>1, <1>1, <1>6
    <3>. QED BY <3>1, <3>2
  <2>. QED BY <2>1, <2>2 DEF Cerrado
<1>8. ASSUME NEW S, Cerrado(h, S) PROVE C \ {m} \subseteq S
  <2>1. x \in S
    <3>1. PICK K : K = {c \in C : c <= x => c \in S}
      OBVIOUS
    <3>2. 0 \in K
      BY <3>1, <1>1, <1>8 DEF Cerrado
    <3>3. ASSUME NEW c \in K, f[c].nextAlloc # -1 PROVE f[c].nextAlloc \in K
      <4>1. c \in C /\ c # u
        BY <3>1, <3>3, <1>4
      <4>2. f[c].nextAlloc \in C /\ f[c].nextAlloc > c /\ c \in Nat /\ f[c].nextAlloc \in Nat
        BY <4>1, <1>1, <1>2, <1>3
      <4>3. ASSUME f[c].nextAlloc <= x PROVE f[c].nextAlloc \in S
        <5>1. c < x
          BY <4>2, <4>3, <1>5
        <5>2. c \in S /\ c # x /\ c \in DOMAIN f
          BY <3>1, <4>1, <4>2, <5>1, <1>1, <1>5
        <5>3. h[c].nextAlloc = f[c].nextAlloc
          BY <5>2
        <5>. QED BY <5>2, <5>3, <3>3, <1>8 DEF Cerrado
      <4>. QED BY <4>2, <4>3, <3>1
    <3>4. Cerrado(f, K)
      BY <3>2, <3>3 DEF Cerrado
    <3>5. x \in K
      BY <3>4 DEF EsCadena
    <3>. QED BY <3>1, <3>5, <1>5
  <2>2. y \in S
    <3>1. h[x].nextAlloc = y /\ x \in DOMAIN h /\ y # -1
      BY <1>1, <1>5
    <3>. QED BY <2>1, <3>1, <1>8 DEF Cerrado
  <2>3. PICK K : K = {c \in C : c = m \/ c \in S}
    OBVIOUS
  <2>4. Cerrado(f, K)
    <3>1. 0 \in K
      BY <2>3, <1>1, <1>8 DEF Cerrado
    <3>2. ASSUME NEW c \in K, f[c].nextAlloc # -1 PROVE f[c].nextAlloc \in K
      <4>1. c \in C \ {u} /\ f[c].nextAlloc \in C /\ c \in DOMAIN h
        BY <2>3, <3>2, <1>1, <1>4
      <4>2. CASE c = x
        BY <4>2, <2>3, <1>5
      <4>3. CASE c = m
        BY <4>3, <2>2, <2>3, <1>5
      <4>4. CASE c # x /\ c # m
        <5>1. c \in S /\ h[c].nextAlloc = f[c].nextAlloc
          BY <4>1, <4>4, <2>3, <3>2
        <5>2. f[c].nextAlloc \in S
          BY <4>1, <5>1, <3>2, <1>8 DEF Cerrado
        <5>. QED BY <4>1, <5>2, <2>3
      <4>. QED BY <4>2, <4>3, <4>4
    <3>. QED BY <3>1, <3>2 DEF Cerrado
  <2>5. C \subseteq K
    BY <2>4 DEF EsCadena
  <2>. QED BY <2>3, <2>5
<1>9. Doble(h, C \ {m}, u)
  <2>1. SUFFICES ASSUME NEW c \in (C \ {m}) \ {u}
                 PROVE  h[h[c].nextAlloc].prevAlloc = c
    BY DEF Doble
  <2>2. CASE c = x
    BY <2>2, <1>1, <1>5
  <2>3. CASE c # x
    <3>1. h[c].nextAlloc = f[c].nextAlloc /\ f[c].nextAlloc \in C \ {m}
      BY <2>3, <1>1, <1>6
    <3>2. f[c].nextAlloc # y
      <4>1. f[f[c].nextAlloc].prevAlloc = c /\ f[y].prevAlloc = m
        BY <1>5 DEF Doble
      <4>. QED BY <4>1
    <3>3. h[f[c].nextAlloc].prevAlloc = f[f[c].nextAlloc].prevAlloc
      BY <3>1, <3>2, <1>1
    <3>4. f[f[c].nextAlloc].prevAlloc = c
      BY DEF Doble
    <3>. QED BY <3>1, <3>3, <3>4
  <2>. QED BY <2>2, <2>3
<1>. QED BY <1>7, <1>8, <1>9 DEF EsCadena

\* A pointer forward and one back keep the headers well formed.
LEMMA EnlazaGuarda ==
  ASSUME NEW f, NEW u, Estructura(f, u), NEW h \in [DOMAIN f -> Cabecera],
         NEW x \in DOMAIN f \ {u}, NEW y \in DOMAIN f, y >= x + TAMANIO_HEAP,
         NEW z \in DOMAIN f, z < y,
         \A c \in DOMAIN f : h[c].nextAlloc = IF c = x THEN y ELSE f[c].nextAlloc,
         \A c \in DOMAIN f : h[c].prevAlloc = IF c = y THEN z ELSE f[c].prevAlloc,
         h[u].isFree
  PROVE  Estructura(h, u)
<1>1. DOMAIN h = DOMAIN f /\ y # 0
  BY DEF Estructura, TAMANIO_HEAP
<1>2. h[u].nextAlloc = -1 /\ h[0].prevAlloc = -1
  BY <1>1 DEF Estructura
<1>3. \A c \in DOMAIN h \ {u} :
        h[c].nextAlloc \in DOMAIN h /\ h[c].nextAlloc >= c + TAMANIO_HEAP
  BY <1>1 DEF Estructura
<1>4. \A c \in DOMAIN h \ {0} : h[c].prevAlloc \in DOMAIN h /\ h[c].prevAlloc < c
  BY <1>1 DEF Estructura
<1>. QED BY <1>1, <1>2, <1>3, <1>4 DEF Estructura

\* The first block and the last header.
LEMMA DosCabeceras ==
  ASSUME NEW v \in Nat, v >= TAMANIO_HEAP, NEW h,
         h = [c \in {0, v} |->
                IF c = 0 THEN [isFree |-> FALSE, prevAlloc |-> -1, nextAlloc |-> v]
                ELSE [isFree |-> TRUE, prevAlloc |-> 0, nextAlloc |-> -1]]
  PROVE  /\ Estructura(h, v) /\ EsCadena(h, {0, v}) /\ Doble(h, {0, v}, v)
         /\ DOMAIN h = {0, v} /\ ~h[0].isFree /\ h[0].nextAlloc = v
<1>1. v > 0
  BY DEF TAMANIO_HEAP
<1>2. /\ DOMAIN h = {0, v} /\ h \in [DOMAIN h -> Cabecera]
      /\ ~h[0].isFree /\ h[0].prevAlloc = -1 /\ h[0].nextAlloc = v
      /\ h[v].isFree /\ h[v].prevAlloc = 0 /\ h[v].nextAlloc = -1
  BY <1>1 DEF Cabecera
<1>3. Estructura(h, v)
  <2>1. v \in DOMAIN h /\ 0 \in DOMAIN h /\ DOMAIN h \subseteq 0..v
    BY <1>1, <1>2
  <2>2. \A c \in DOMAIN h \ {v} : h[c].nextAlloc \in DOMAIN h /\ h[c].nextAlloc >= c + TAMANIO_HEAP
    BY <1>2 DEF TAMANIO_HEAP
  <2>3. \A c \in DOMAIN h \ {0} : h[c].prevAlloc \in DOMAIN h /\ h[c].prevAlloc < c
    BY <1>1, <1>2
  <2>. QED BY <1>1, <1>2, <2>1, <2>2, <2>3 DEF Estructura
<1>4. EsCadena(h, {0, v})
  <2>1. Cerrado(h, {0, v})
    BY <1>1, <1>2 DEF Cerrado
  <2>2. ASSUME NEW S, Cerrado(h, S) PROVE {0, v} \subseteq S
    <3>1. 0 \in S
      BY <2>2 DEF Cerrado
    <3>2. v \in S
      BY <1>1, <1>2, <2>2, <3>1 DEF Cerrado
    <3>. QED BY <3>1, <3>2
  <2>. QED BY <2>1, <2>2 DEF EsCadena
<1>5. Doble(h, {0, v}, v)
  BY <1>1, <1>2 DEF Doble
<1>. QED BY <1>2, <1>3, <1>4, <1>5

\* The last header becomes a block's, and another one comes after it.
LEMMA Alarga ==
  ASSUME NEW f, NEW u, Estructura(f, u), NEW v \in Nat, v >= u + TAMANIO_HEAP, NEW h,
         h = [d \in DOMAIN h |-> h[d]], DOMAIN h = DOMAIN f \cup {v},
         h[u] = [isFree |-> FALSE, prevAlloc |-> f[u].prevAlloc, nextAlloc |-> v],
         h[v] = [isFree |-> TRUE, prevAlloc |-> u, nextAlloc |-> -1],
         \A d \in DOMAIN f \ {u} : h[d] = f[d]
  PROVE  /\ Estructura(h, v) /\ v \notin DOMAIN f
         /\ ~h[u].isFree /\ h[u].nextAlloc = v
         /\ \A C : EsCadena(f, C) => EsCadena(h, C \cup {v})
         /\ \A C : EsCadena(f, C) /\ Doble(f, C, u) => Doble(h, C \cup {v}, v)
<1>1. u \in Nat /\ u > 0 /\ v > u /\ u \in DOMAIN f /\ \A c \in DOMAIN f : c \in 0..u
  BY DEF Estructura, TAMANIO_HEAP
<1>2. v \notin DOMAIN f /\ DOMAIN h = DOMAIN f \cup {v}
  BY <1>1
<1>3. \A d \in DOMAIN f \ {u} : h[d] = f[d]
  BY <1>2
<1>4. f[u] \in Cabecera
  BY <1>1 DEF Estructura
<1>5. /\ h[u] \in Cabecera /\ ~h[u].isFree /\ h[u].nextAlloc = v
      /\ h[u].prevAlloc = f[u].prevAlloc
  <2>1. h[u] = [isFree |-> FALSE, prevAlloc |-> f[u].prevAlloc, nextAlloc |-> v]
    BY <1>1
  <2>2. PICK r : r = f[u].prevAlloc
    OBVIOUS
  <2>3. r \in Int
    BY <1>4, <2>2 DEF Cabecera
  <2>4. h[u] = [isFree |-> FALSE, prevAlloc |-> r, nextAlloc |-> v]
    BY <2>1, <2>2
  <2>5. h[u] \in Cabecera
    BY <2>3, <2>4 DEF Cabecera
  <2>6. h[u].nextAlloc = v /\ h[u].prevAlloc = f[u].prevAlloc
    BY <2>2, <2>4
  <2>7. h[u].isFree = FALSE
    BY <2>4
  <2>. QED BY <2>5, <2>6, <2>7
<1>6. /\ h[v] \in Cabecera /\ h[v].isFree /\ h[v].nextAlloc = -1 /\ h[v].prevAlloc = u
  BY <1>1 DEF Cabecera
<1>7. h \in [DOMAIN h -> Cabecera]
  <2>1. \A d \in DOMAIN f : f[d] \in Cabecera
    BY DEF Estructura
  <2>2. \A d \in DOMAIN h : h[d] \in Cabecera
    BY <1>2, <1>3, <1>5, <1>6, <2>1
  <2>. QED BY <2>2
<1>8. Estructura(h, v)
  <2>1. v \in DOMAIN h /\ 0 \in DOMAIN h /\ DOMAIN h \subseteq 0..v /\ v > 0
    BY <1>1, <1>2 DEF Estructura
  <2>2. h[0].prevAlloc = -1
    BY <1>1, <1>3 DEF Estructura
  <2>3. ASSUME NEW c \in DOMAIN h \ {v}
        PROVE  h[c].nextAlloc \in DOMAIN h /\ h[c].nextAlloc >= c + TAMANIO_HEAP
    <3>1. CASE c = u
      BY <3>1, <1>2, <1>5
    <3>2. CASE c # u
      BY <3>2, <1>2, <1>3 DEF Estructura
    <3>. QED BY <3>1, <3>2
  <2>4. ASSUME NEW c \in DOMAIN h \ {0}
        PROVE  h[c].prevAlloc \in DOMAIN h /\ h[c].prevAlloc < c
    <3>1. CASE c = v
      BY <3>1, <1>1, <1>2, <1>6
    <3>2. CASE c # v
      <4>1. h[c].prevAlloc = f[c].prevAlloc /\ c \in DOMAIN f
        BY <3>2, <1>2, <1>3, <1>5
      <4>. QED BY <4>1, <1>2 DEF Estructura
    <3>. QED BY <3>1, <3>2
  <2>. QED BY <1>6, <1>7, <2>1, <2>2, <2>3, <2>4 DEF Estructura
<1>9. ASSUME NEW C, EsCadena(f, C) PROVE EsCadena(h, C \cup {v})
  <2>1. /\ C \subseteq DOMAIN f /\ 0 \in C /\ u \in C
        /\ \A c \in C \ {u} : f[c].nextAlloc \in C
    BY <1>9, Recorrida
  <2>2. Cerrado(h, C \cup {v})
    <3>1. ASSUME NEW c \in C \cup {v}, h[c].nextAlloc # -1
          PROVE  h[c].nextAlloc \in C \cup {v}
      <4>1. CASE c = u
        BY <4>1, <1>5
      <4>2. CASE c # u
        BY <4>2, <3>1, <1>3, <1>6, <2>1
      <4>. QED BY <4>1, <4>2
    <3>. QED BY <2>1, <3>1 DEF Cerrado
  <2>3. ASSUME NEW S, Cerrado(h, S) PROVE C \cup {v} \subseteq S
    <3>1. PICK K : K = S \cap DOMAIN f
      OBVIOUS
    <3>2. Cerrado(f, K)
      <4>1. 0 \in K
        BY <3>1, <2>1, <2>3 DEF Cerrado
      <4>2. ASSUME NEW c \in K, f[c].nextAlloc # -1 PROVE f[c].nextAlloc \in K
        <5>1. c \in DOMAIN f \ {u} /\ c \in S
          BY <3>1, <4>2 DEF Estructura
        <5>2. h[c].nextAlloc = f[c].nextAlloc /\ f[c].nextAlloc \in DOMAIN f
          BY <5>1, <1>3 DEF Estructura
        <5>3. f[c].nextAlloc \in S
          BY <5>1, <5>2, <4>2, <1>2, <2>3 DEF Cerrado
        <5>. QED BY <5>2, <5>3, <3>1
      <4>. QED BY <4>1, <4>2 DEF Cerrado
    <3>3. C \subseteq S
      BY <3>1, <3>2, <1>9 DEF EsCadena
    <3>4. v \in S
      <4>1. u \in S /\ u \in DOMAIN h /\ v # -1
        BY <3>3, <2>1, <1>1, <1>2
      <4>. QED BY <4>1, <1>5, <2>3 DEF Cerrado
    <3>. QED BY <3>3, <3>4
  <2>. QED BY <2>2, <2>3 DEF EsCadena
<1>10. ASSUME NEW C, EsCadena(f, C), Doble(f, C, u) PROVE Doble(h, C \cup {v}, v)
  <2>1. /\ C \subseteq DOMAIN f
        /\ \A c \in C \ {u} : f[c].nextAlloc \in C
    BY <1>10, Recorrida
  <2>2. SUFFICES ASSUME NEW c \in C PROVE h[h[c].nextAlloc].prevAlloc = c
    BY <1>2, <2>1 DEF Doble
  <2>3. CASE c = u
    BY <2>3, <1>5, <1>6
  <2>4. CASE c # u
    <3>1. h[c].nextAlloc = f[c].nextAlloc /\ f[c].nextAlloc \in DOMAIN f
      BY <2>1, <2>4, <1>3
    <3>2. h[f[c].nextAlloc].prevAlloc = f[f[c].nextAlloc].prevAlloc
      BY <3>1, <1>3, <1>5
    <3>3. f[f[c].nextAlloc].prevAlloc = c
      BY <1>10, <2>4 DEF Doble
    <3>. QED BY <3>1, <3>2, <3>3
  <2>. QED BY <2>3, <2>4
<1>. QED BY <1>2, <1>3, <1>5, <1>8, <1>9, <1>10

-----------------------------------------------------------------------------
(* The pages.                                                              *)

LEMMA Tamanios ==
  config \in Configuraciones =>
    /\ tamanioPagina \in Nat /\ tamanioPagina > TAMANIO_HEAP /\ config.tamanios \subseteq Nat
    /\ MaxPaginas \in Nat
BY HeapOK DEF tamanioPagina

LEMMA Redondeo ==
  ASSUME NEW n \in Nat, NEW p \in Nat \ {0}, NEW q, q = (n + p - 1) \div p
  PROVE  q \in Nat /\ q * p \in Nat /\ q * p >= n /\ (n > 0 => q > 0)
<1>1. PICK x \in Nat : x = n + p - 1
  OBVIOUS
<1>2. PICK r : r = x % p
  OBVIOUS
<1>3. q \in Nat /\ r \in 0..(p - 1) /\ x = q * p + r
  BY <1>1, <1>2, Division
<1>4. PICK z : z = q * p
  OBVIOUS
<1>5. z \in Nat
  BY <1>3, <1>4
<1>6. z >= n
  BY <1>1, <1>3, <1>4, <1>5
<1>7. q = 0 => z = 0
  BY <1>4
<1>. QED BY <1>3, <1>4, <1>5, <1>6, <1>7

\* The pages hold the last header.
LEMMA UltimaEntra ==
  \A u : Comun /\ Estructura(cabeceras, u) /\ paginas = Techo(u + TAMANIO_HEAP) =>
    /\ u \in Nat /\ paginas \in Nat
    /\ paginas * tamanioPagina \in Nat /\ u + TAMANIO_HEAP <= paginas * tamanioPagina
    /\ MaxPaginas * tamanioPagina \in Nat /\ u <= MaxPaginas * tamanioPagina
<1>1. SUFFICES ASSUME NEW u, Comun, Estructura(cabeceras, u),
                      paginas = Techo(u + TAMANIO_HEAP)
               PROVE  /\ u \in Nat /\ paginas \in Nat
                      /\ paginas * tamanioPagina \in Nat
                      /\ u + TAMANIO_HEAP <= paginas * tamanioPagina
                      /\ MaxPaginas * tamanioPagina \in Nat /\ u <= MaxPaginas * tamanioPagina
  OBVIOUS
<1>2. tamanioPagina \in Nat /\ tamanioPagina > 9 /\ MaxPaginas \in Nat
  BY <1>1, Tamanios DEF Comun, TAMANIO_HEAP
<1>3. u \in Nat /\ paginas \in 0..MaxPaginas
  BY <1>1 DEF Estructura, Comun
<1>4. PICK p : p = tamanioPagina
  OBVIOUS
<1>5. paginas = ((u + 9) + p - 1) \div p
  BY <1>1, <1>4 DEF Techo, TAMANIO_HEAP
<1>6. paginas * p \in Nat /\ paginas * p >= u + 9
  BY <1>2, <1>3, <1>4, <1>5, Redondeo
<1>7. MaxPaginas * p \in Nat /\ paginas * p <= MaxPaginas * p
  BY <1>2, <1>3, <1>4, Producto
<1>8. u <= MaxPaginas * p
  <2>1. PICK y, z : y = paginas * p /\ z = MaxPaginas * p
    OBVIOUS
  <2>. QED BY <2>1, <1>3, <1>6, <1>7
<1>. QED BY <1>2, <1>3, <1>4, <1>6, <1>7, <1>8 DEF TAMANIO_HEAP

RecorreLaCadena ==
  \A u : Comun /\ Estructura(cabeceras, u) /\ paginas = Techo(u + TAMANIO_HEAP)
         => EsCadena(cabeceras, Cadena)

LEMMA CadenaDeLleno == RecorreLaCadena
BY UltimaEntra, CadenaEs DEF RecorreLaCadena

\* And so it is after a step.
LEMMA CadenaDespues == RecorreLaCadena'
BY CadenaDeLleno, PTL

\* The search finds the last header, or a free one of the chain that fits.
LEMMA HalladaEs ==
  ASSUME Comun, NEW u, Lleno(u), NEW t
  PROVE  /\ Hallada(t) \in Cadena /\ Hallada(t) \in DOMAIN cabeceras
         /\ cabeceras[Hallada(t)].isFree
         /\ Ultima(Hallada(t)) <=> Hallada(t) = u
         /\ Hallada(t) # u => Cabe(Hallada(t), t)
<1>1. Estructura(cabeceras, u) /\ EsCadena(cabeceras, Cadena)
  BY CadenaDeLleno DEF Lleno, RecorreLaCadena
<1>2. Cadena \subseteq DOMAIN cabeceras /\ u \in Cadena
  BY <1>1, Recorrida
<1>3. PICK T : T = {c \in Cadena : cabeceras[c].isFree /\ (Ultima(c) \/ Cabe(c, t))}
  OBVIOUS
<1>4. \A c \in DOMAIN cabeceras : c \in Nat /\ (Ultima(c) <=> c = u)
  <2>1. \A c \in DOMAIN cabeceras : c \in 0..u /\ u \in Nat
    BY <1>1 DEF Estructura
  <2>2. \A c \in DOMAIN cabeceras \ {u} : cabeceras[c].nextAlloc \in DOMAIN cabeceras
    BY <1>1 DEF Estructura
  <2>3. cabeceras[u].nextAlloc = -1
    BY <1>1 DEF Estructura
  <2>4. \A c \in DOMAIN cabeceras \ {u} : cabeceras[c].nextAlloc # -1
    BY <2>1, <2>2
  <2>. QED BY <2>1, <2>3, <2>4 DEF Ultima
<1>5. u \in T
  BY <1>1, <1>2, <1>3, <1>4 DEF Estructura
<1>6. T \subseteq Nat
  BY <1>2, <1>3, <1>4
<1>7. Min(T) \in T
  BY <1>5, <1>6, MinEs
<1>8. Hallada(t) \in T
  BY <1>3, <1>7 DEF Hallada
<1>. QED BY <1>2, <1>3, <1>4, <1>8

LEMMA SumaMultiplo ==
  ASSUME NEW g \in Nat \ {0}, NEW a \in Nat, NEW b \in Nat, a % g = 0, b % g = 0
  PROVE  (a + b) % g = 0
<1>1. PICK j, k : j = a \div g /\ k = b \div g
  OBVIOUS
<1>2. j \in Nat /\ a = j * g + 0
  BY <1>1, Division
<1>3. k \in Nat /\ b = k * g + 0
  BY <1>1, Division
<1>4. j + k \in Nat /\ 0 \in 0..(g - 1)
  BY <1>2, <1>3
<1>5. ((j + k) * g + 0) % g = 0
  BY <1>4, DivisionUnica
<1>6. (j + k) * g = j * g + k * g
  BY <1>2, <1>3
<1>7. a + b = (j + k) * g + 0
  BY <1>2, <1>3, <1>6
<1>. QED BY <1>5, <1>7

-----------------------------------------------------------------------------
(* The steps.                                                              *)

\* Steps after which the heap has not broken.
LEMMA SinAveria ==
  averia' = "no" => AveriasConocidas'
BY DEF AveriasConocidas

LEMMA PasoPrimero ==
  ASSUME IInv, NEW t \in config.tamanios, PrimerAlloc(t)
  PROVE  IInv'
<1>1. /\ averia = "no" /\ averia' = "no" /\ paginas = 0
      /\ config' = config /\ primeraPag' = primeraPag /\ reuso' = reuso
      /\ paginas' <= MaxPaginas /\ paginas' = Techo(2 * TAMANIO_HEAP + t)
      /\ vivos' = {[cabecera |-> 0, tamanio |-> t]}
  BY DEF PrimerAlloc
<1>2. config \in Configuraciones /\ Comun
  BY DEF IInv, Comun
<1>3. tamanioPagina \in Nat /\ tamanioPagina > 9 /\ t \in Nat /\ MaxPaginas \in Nat
  BY <1>2, Tamanios DEF TAMANIO_HEAP
<1>4. PICK v \in Nat : v = 9 + t
  BY <1>3
<1>5. SiguienteCabecera(0, t) = v
  BY <1>3, <1>4 DEF SiguienteCabecera, TAMANIO_HEAP
<1>6. PICK h : h = cabeceras'
  OBVIOUS
<1>7. h = [c \in {0, v} |->
             IF c = 0 THEN [isFree |-> FALSE, prevAlloc |-> -1, nextAlloc |-> v]
             ELSE [isFree |-> TRUE, prevAlloc |-> 0, nextAlloc |-> -1]]
  BY <1>5, <1>6 DEF PrimerAlloc
<1>8. /\ Estructura(h, v) /\ EsCadena(h, {0, v}) /\ Doble(h, {0, v}, v)
      /\ DOMAIN h = {0, v} /\ ~h[0].isFree /\ h[0].nextAlloc = v
  <2>1. v >= TAMANIO_HEAP
    BY <1>3, <1>4 DEF TAMANIO_HEAP
  <2>. QED BY <2>1, <1>7, DosCabeceras
<1>9. paginas' = Techo(v + TAMANIO_HEAP) /\ paginas' \in Nat /\ paginas' > 0
  <2>1. 2 * TAMANIO_HEAP + t = v + 9
    BY <1>3, <1>4 DEF TAMANIO_HEAP
  <2>2. paginas' = ((v + 9) + tamanioPagina - 1) \div tamanioPagina
    BY <1>1, <2>1 DEF Techo
  <2>3. v + 9 \in Nat /\ v + 9 > 0 /\ tamanioPagina \in Nat \ {0}
    BY <1>3
  <2>4. paginas' \in Nat /\ paginas' > 0
    BY <2>2, <2>3, Redondeo
  <2>. QED BY <2>4, <1>1, <2>1 DEF TAMANIO_HEAP
<1>10. tamanioPagina' = tamanioPagina /\ Techo(v + TAMANIO_HEAP)' = Techo(v + TAMANIO_HEAP)
  BY <1>1 DEF tamanioPagina, Techo
<1>11. Comun'
  <2>1. paginas' \in 0..MaxPaginas
    BY <1>1, <1>3, <1>9
  <2>. QED BY <1>1, <1>2, <2>1 DEF Comun
<1>12. Estructura(cabeceras', v) /\ paginas' > 0 /\ paginas' = Techo(v + TAMANIO_HEAP)'
  BY <1>6, <1>8, <1>9, <1>10
<1>13. Lugares(cabeceras, vivos, v)'
  <2>1. v # 0 /\ 0 + TAMANIO_HEAP + t <= v
    BY <1>3, <1>4 DEF TAMANIO_HEAP
  <2>2. vivos' \subseteq [cabecera : DOMAIN cabeceras' \ {v}, tamanio : config'.tamanios]
    BY <1>1, <1>6, <1>8, <2>1
  <2>3. \A b \in vivos' : b.cabecera + TAMANIO_HEAP + b.tamanio <= v
    BY <1>1, <2>1
  <2>. QED BY <2>2, <2>3 DEF Lugares
<1>14. Multiplos(cabeceras)'
  <2>1. SUFFICES ASSUME NEW g \in 1..tamanioPagina, Grano(g)
                 PROVE  \A c \in {0, v} : c % g = 0
    BY <1>1, <1>6, <1>8, <1>10 DEF Multiplos, Grano
  <2>2. v % g = 0
    <3>1. (t + 9) % g = 0
      BY <2>1 DEF Grano, TAMANIO_HEAP
    <3>2. t + 9 = v
      BY <1>3, <1>4
    <3>. QED BY <3>1, <3>2
  <2>3. 0 % g = 0
    <3>1. g \in Nat \ {0} /\ 0 \in 0..(g - 1) /\ 0 * g + 0 = 0
      BY <1>3
    <3>2. (0 * g + 0) % g = 0
      BY <3>1, DivisionUnica
    <3>. QED BY <3>1, <3>2
  <2>. QED BY <2>2, <2>3
<1>15. Primero(cabeceras', vivos')
  BY <1>1, <1>3, <1>4, <1>6, <1>8 DEF Primero
<1>16. Cadena' = {0, v}
  <2>1. EsCadena(cabeceras', Cadena')
    BY <1>11, <1>12, CadenaDespues DEF RecorreLaCadena
  <2>. QED BY <2>1, <1>6, <1>8, CadenaUnica
<1>17. Doble(cabeceras', Cadena', v) /\ Eslabones(cabeceras', Cadena', vivos')
  <2>1. \A b \in vivos' : b.cabecera = 0 /\ b.tamanio = t
    BY <1>1
  <2>2. v = 0 + TAMANIO_HEAP + t
    BY <1>3, <1>4 DEF TAMANIO_HEAP
  <2>. QED BY <2>1, <2>2, <1>6, <1>8, <1>16 DEF Eslabones
<1>18. Lleno(v)' /\ v \in DOMAIN cabeceras'
  BY <1>6, <1>8, <1>12, <1>13, <1>14, <1>15, <1>17 DEF Lleno
<1>19. AveriasConocidas'
  BY <1>1, SinAveria
<1>. QED BY <1>11, <1>18, <1>19 DEF IInv

LEMMA PasoCrear ==
  ASSUME IInv, NEW t \in config.tamanios, crearAllocNuevo(t)
  PROVE  IInv'
<1>1. /\ averia = "no" /\ averia' = "no" /\ paginas > 0
      /\ config' = config /\ primeraPag' = primeraPag /\ reuso' = reuso
      /\ Ultima(Hallada(t))
  BY DEF crearAllocNuevo
<1>2. config \in Configuraciones /\ Comun
  BY DEF IInv, Comun
<1>3. tamanioPagina \in Nat /\ tamanioPagina > 9 /\ t \in Nat /\ MaxPaginas \in Nat
  BY <1>2, Tamanios DEF TAMANIO_HEAP
<1>4. PICK u \in DOMAIN cabeceras : Lleno(u)
  <2>1. ~Vacio
    BY <1>1 DEF Vacio
  <2>. QED BY <2>1 DEF IInv
<1>5. Hallada(t) = u
  BY <1>1, <1>2, <1>4, HalladaEs
<1>6. PICK f, h, C : f = cabeceras /\ h = cabeceras' /\ C = Cadena
  OBVIOUS
<1>7. Estructura(f, u) /\ EsCadena(f, C)
  BY <1>2, <1>4, <1>6, CadenaDeLleno DEF Lleno, RecorreLaCadena
<1>8. u \in Nat /\ u > 0 /\ u \in DOMAIN f /\ \A c \in DOMAIN f : c \in 0..u
  BY <1>7 DEF Estructura
<1>9. PICK v \in Nat : v = u + 9 + t
  BY <1>3, <1>8
<1>10. SiguienteCabecera(u, t) = v
  BY <1>9 DEF SiguienteCabecera, TAMANIO_HEAP
<1>11. v >= u + TAMANIO_HEAP /\ v > u
  BY <1>3, <1>8, <1>9 DEF TAMANIO_HEAP
<1>12. /\ h = [d \in DOMAIN h |-> h[d]] /\ DOMAIN h = DOMAIN f \cup {v}
       /\ h[u] = [isFree |-> FALSE, prevAlloc |-> f[u].prevAlloc, nextAlloc |-> v]
       /\ h[v] = [isFree |-> TRUE, prevAlloc |-> u, nextAlloc |-> -1]
       /\ \A d \in DOMAIN f \ {u} : h[d] = f[d]
  <2>1. h = [d \in DOMAIN f \cup {v} |->
               IF d = u
               THEN [isFree |-> FALSE, prevAlloc |-> f[u].prevAlloc, nextAlloc |-> v]
               ELSE IF d = v THEN [isFree |-> TRUE, prevAlloc |-> u, nextAlloc |-> -1]
               ELSE f[d]]
    BY <1>5, <1>6, <1>10 DEF crearAllocNuevo
  <2>2. v # u /\ u \in DOMAIN f \cup {v} /\ v \in DOMAIN f \cup {v}
    BY <1>8, <1>11
  <2>3. \A d \in DOMAIN f \ {u} : d # v
    BY <1>8, <1>11
  <2>. QED BY <2>1, <2>2, <2>3
<1>13. /\ Estructura(h, v) /\ v \notin DOMAIN f
       /\ ~h[u].isFree /\ h[u].nextAlloc = v
       /\ EsCadena(h, C \cup {v})
       /\ Doble(f, C, u) => Doble(h, C \cup {v}, v)
  BY <1>7, <1>11, <1>12, Alarga
<1>14. paginas' = Techo(v + TAMANIO_HEAP) /\ paginas' \in Nat /\ paginas' > 0
  <2>1. 2 * TAMANIO_HEAP + t + u = v + 9
    BY <1>3, <1>8, <1>9 DEF TAMANIO_HEAP
  <2>2. PICK q : q = Techo(v + 9)
    OBVIOUS
  <2>3. q = ((v + 9) + tamanioPagina - 1) \div tamanioPagina
    BY <2>2 DEF Techo
  <2>4. v + 9 \in Nat /\ v + 9 > 0 /\ tamanioPagina \in Nat \ {0}
    BY <1>3
  <2>5. q \in Nat /\ q > 0
    BY <2>3, <2>4, Redondeo
  <2>6. paginas' = paginas + (q - paginas)
    BY <1>5, <2>1, <2>2 DEF crearAllocNuevo, paginasAcrear
  <2>7. paginas \in Nat
    BY <1>2, <1>3 DEF Comun
  <2>8. paginas' = q
    BY <2>5, <2>6, <2>7
  <2>. QED BY <2>2, <2>5, <2>8 DEF TAMANIO_HEAP
<1>15. tamanioPagina' = tamanioPagina /\ Techo(v + TAMANIO_HEAP)' = Techo(v + TAMANIO_HEAP)
  BY <1>1 DEF tamanioPagina, Techo
<1>16. Comun'
  <2>1. paginas' <= MaxPaginas
    BY <1>5 DEF crearAllocNuevo
  <2>2. paginas' \in 0..MaxPaginas
    BY <1>3, <1>14, <2>1
  <2>. QED BY <1>1, <1>2, <2>2 DEF Comun
<1>17. Estructura(cabeceras', v) /\ paginas' > 0 /\ paginas' = Techo(v + TAMANIO_HEAP)'
  BY <1>6, <1>13, <1>14, <1>15
<1>18. vivos' = vivos \cup {[cabecera |-> u, tamanio |-> t]}
  BY <1>5 DEF crearAllocNuevo
<1>19. /\ vivos \subseteq [cabecera : DOMAIN f \ {u}, tamanio : config.tamanios]
       /\ \A b \in vivos : b.cabecera + TAMANIO_HEAP + b.tamanio <= u
  BY <1>4, <1>6 DEF Lleno, Lugares
<1>20. \A b \in vivos : b.cabecera \in DOMAIN f \ {u} /\ b.tamanio \in config.tamanios
  BY <1>19
<1>21. Lugares(cabeceras, vivos, v)'
  <2>1. ASSUME NEW b \in vivos'
        PROVE  /\ b \in [cabecera : DOMAIN h \ {v}, tamanio : config.tamanios]
               /\ b.cabecera + TAMANIO_HEAP + b.tamanio <= v
    <3>1. CASE b \in vivos
      <4>1. b.cabecera \in Nat /\ b.tamanio \in Nat
        BY <3>1, <1>2, <1>8, <1>20, Tamanios
      <4>2. b.cabecera + TAMANIO_HEAP + b.tamanio <= v
        BY <3>1, <4>1, <1>8, <1>11, <1>19 DEF TAMANIO_HEAP
      <4>3. b \in [cabecera : DOMAIN h \ {v}, tamanio : config.tamanios]
        BY <3>1, <1>12, <1>13, <1>19
      <4>. QED BY <4>2, <4>3
    <3>2. CASE b = [cabecera |-> u, tamanio |-> t]
      <4>1. b.cabecera = u /\ b.tamanio = t
        BY <3>2
      <4>2. u \in DOMAIN h \ {v}
        BY <1>8, <1>11, <1>12
      <4>. QED BY <3>2, <4>1, <4>2, <1>9 DEF TAMANIO_HEAP
    <3>. QED BY <3>1, <3>2, <1>18
  <2>2. Lugares(cabeceras, vivos, v)' <=>
          /\ vivos' \subseteq [cabecera : DOMAIN h \ {v}, tamanio : config.tamanios]
          /\ \A b \in vivos' : b.cabecera + TAMANIO_HEAP + b.tamanio <= v
    BY <1>1, <1>6 DEF Lugares
  <2>. QED BY <2>1, <2>2
<1>22. Multiplos(cabeceras)'
  <2>1. SUFFICES ASSUME NEW g \in 1..tamanioPagina, Grano(g)
                 PROVE  \A c \in DOMAIN h : c % g = 0
    BY <1>1, <1>6, <1>15 DEF Multiplos, Grano
  <2>2. \A c \in DOMAIN f : c % g = 0
    BY <2>1, <1>4, <1>6 DEF Lleno, Multiplos
  <2>3. v % g = 0
    <3>1. (t + 9) % g = 0
      BY <2>1 DEF Grano, TAMANIO_HEAP
    <3>2. u % g = 0 /\ g \in Nat \ {0} /\ t + 9 \in Nat
      BY <2>2, <1>3, <1>8
    <3>3. (u + (t + 9)) % g = 0
      BY <3>1, <3>2, <1>8, SumaMultiplo
    <3>4. u + (t + 9) = v
      BY <1>3, <1>8, <1>9
    <3>. QED BY <3>3, <3>4
  <2>. QED BY <2>2, <2>3, <1>12
<1>23. Primero(cabeceras', vivos')
  <2>1. Primero(f, vivos)
    BY <1>1, <1>4, <1>6 DEF Lleno
  <2>2. 0 \in DOMAIN f \ {u} /\ h[0] = f[0]
    BY <1>7, <1>8, <1>12 DEF Estructura
  <2>3. \A b \in vivos' : b.cabecera = 0 => b \in vivos
    <3>1. [cabecera |-> u, tamanio |-> t].cabecera # 0
      BY <1>8
    <3>. QED BY <3>1, <1>18
  <2>4. ASSUME ~h[0].isFree, NEW c \in DOMAIN h \ {0} PROVE c >= h[0].nextAlloc
    <3>1. CASE c \in DOMAIN f
      BY <3>1, <2>1, <2>2, <2>4 DEF Primero
    <3>2. CASE c = v
      <4>1. f[0].nextAlloc \in DOMAIN f
        BY <2>2, <1>7 DEF Estructura
      <4>2. f[0].nextAlloc \in 0..u
        BY <4>1, <1>8
      <4>. QED BY <3>2, <4>2, <2>2, <1>8, <1>11
    <3>. QED BY <3>1, <3>2, <1>12
  <2>5. \A b \in vivos' : b.cabecera = 0 => ~h[0].isFree
    BY <2>1, <2>2, <2>3 DEF Primero
  <2>6. \A a, b \in vivos' : a.cabecera = 0 /\ b.cabecera = 0 => a = b
    BY <2>1, <2>3 DEF Primero
  <2>. QED BY <2>4, <2>5, <2>6, <1>6 DEF Primero
<1>24. Cadena' = C \cup {v}
  <2>1. EsCadena(cabeceras', Cadena')
    BY <1>16, <1>17, CadenaDespues DEF RecorreLaCadena
  <2>. QED BY <2>1, <1>6, <1>13, CadenaUnica
<1>25. ASSUME ~reuso
       PROVE  Doble(cabeceras', Cadena', v) /\ Eslabones(cabeceras', Cadena', vivos')
  <2>1. Doble(f, C, u) /\ Eslabones(f, C, vivos)
    BY <1>1, <1>4, <1>6, <1>25 DEF Lleno
  <2>2. Doble(h, C \cup {v}, v)
    BY <2>1, <1>13
  <2>3. ASSUME NEW b \in vivos'
        PROVE  /\ b.cabecera \in C \cup {v} /\ ~h[b.cabecera].isFree
               /\ h[b.cabecera].nextAlloc = b.cabecera + TAMANIO_HEAP + b.tamanio
    <3>1. CASE b \in vivos
      <4>1. h[b.cabecera] = f[b.cabecera]
        BY <3>1, <1>12, <1>20
      <4>. QED BY <3>1, <4>1, <2>1 DEF Eslabones
    <3>2. CASE b = [cabecera |-> u, tamanio |-> t]
      <4>1. b.cabecera = u /\ b.tamanio = t
        BY <3>2
      <4>2. u \in C
        BY <1>7, Recorrida
      <4>. QED BY <4>1, <4>2, <1>9, <1>13 DEF TAMANIO_HEAP
    <3>. QED BY <3>1, <3>2, <1>18
  <2>4. Eslabones(h, C \cup {v}, vivos')
    BY <2>3 DEF Eslabones
  <2>. QED BY <2>2, <2>4, <1>6, <1>24
<1>26. Lleno(v)' /\ v \in DOMAIN cabeceras'
  BY <1>1, <1>6, <1>12, <1>17, <1>21, <1>22, <1>23, <1>25 DEF Lleno
<1>27. AveriasConocidas'
  BY <1>1, SinAveria
<1>. QED BY <1>16, <1>26, <1>27 DEF IInv

\* A hole is given as it is, and below the last header.
LEMMA PasoReusa ==
  ASSUME IInv, NEW t \in config.tamanios, ReusaHueco(t)
  PROVE  IInv'
<1>1. /\ averia = "no" /\ averia' \in {"primerHueco", "bloqueRepetido", "no"}
      /\ paginas > 0 /\ paginas' = paginas /\ cabeceras' = cabeceras
      /\ config' = config /\ primeraPag' = primeraPag /\ reuso' = TRUE
      /\ ~Ultima(Hallada(t))
      /\ Hallada(t) = 0 => averia' # "no"
  BY DEF ReusaHueco
<1>2. config \in Configuraciones /\ Comun /\ t \in Nat
  BY Tamanios DEF IInv, Comun
<1>3. PICK u \in DOMAIN cabeceras : Lleno(u)
  <2>1. ~Vacio
    BY <1>1 DEF Vacio
  <2>. QED BY <2>1 DEF IInv
<1>4. PICK c : c = Hallada(t)
  OBVIOUS
<1>5. c \in DOMAIN cabeceras \ {u} /\ Cabe(c, t)
  BY <1>1, <1>2, <1>3, <1>4, HalladaEs
<1>6. Estructura(cabeceras, u) /\ Lugares(cabeceras, vivos, u) /\ Multiplos(cabeceras)
  BY <1>3 DEF Lleno
<1>7. c + TAMANIO_HEAP + t <= u
  <2>1. PICK n : n = cabeceras[c].nextAlloc
    OBVIOUS
  <2>2. n \in 0..u /\ c \in Nat /\ u \in Nat
    BY <2>1, <1>5, <1>6 DEF Estructura
  <2>3. t = n - c - 9 \/ t + 9 < n - c - 9
    BY <2>1, <1>5 DEF Cabe, TAMANIO_HEAP
  <2>. QED BY <2>2, <2>3, <1>2 DEF TAMANIO_HEAP
<1>8. vivos' = vivos \cup {[cabecera |-> c, tamanio |-> t]}
  BY <1>4 DEF ReusaHueco
<1>9. Lugares(cabeceras, vivos, u)'
  <2>1. ASSUME NEW b \in vivos'
        PROVE  /\ b \in [cabecera : DOMAIN cabeceras \ {u}, tamanio : config.tamanios]
               /\ b.cabecera + TAMANIO_HEAP + b.tamanio <= u
    <3>1. CASE b \in vivos
      BY <3>1, <1>6 DEF Lugares
    <3>2. CASE b = [cabecera |-> c, tamanio |-> t]
      BY <3>2, <1>5, <1>7
    <3>. QED BY <3>1, <3>2, <1>8
  <2>2. Lugares(cabeceras, vivos, u)' <=>
          /\ vivos' \subseteq [cabecera : DOMAIN cabeceras \ {u}, tamanio : config.tamanios]
          /\ \A b \in vivos' : b.cabecera + TAMANIO_HEAP + b.tamanio <= u
    BY <1>1 DEF Lugares
  <2>. QED BY <2>1, <2>2
<1>10. averia' = "no" => Primero(cabeceras', vivos')
  <2>1. SUFFICES ASSUME averia' = "no" PROVE Primero(cabeceras, vivos')
    BY <1>1
  <2>2. c # 0 /\ Primero(cabeceras, vivos)
    BY <1>1, <1>3, <1>4, <2>1 DEF Lleno
  <2>3. \A b \in vivos' : b.cabecera = 0 => b \in vivos
    <3>1. [cabecera |-> c, tamanio |-> t].cabecera # 0
      BY <2>2
    <3>. QED BY <3>1, <1>8
  <2>. QED BY <2>2, <2>3 DEF Primero
<1>11. /\ Techo(u + TAMANIO_HEAP)' = Techo(u + TAMANIO_HEAP)
       /\ Multiplos(cabeceras)' = Multiplos(cabeceras)
  BY <1>1 DEF Techo, tamanioPagina, Multiplos, Grano
<1>12. Lleno(u)'
  BY <1>1, <1>3, <1>6, <1>9, <1>10, <1>11 DEF Lleno
<1>13. Comun'
  BY <1>1, <1>2 DEF Comun
<1>14. AveriasConocidas'
  BY <1>1 DEF AveriasConocidas
<1>. QED BY <1>1, <1>12, <1>13, <1>14 DEF IInv

\* The heap breaks: the headers and the blocks stay.
LEMMA Rota ==
  ASSUME IInv, UNCHANGED <<config, cabeceras, paginas, primeraPag, vivos, reuso>>,
         averia' \in {"cabeceraCortada", "idsCorridos", "vecinaCortada", "cabeceraPisada",
                      "escribeAfuera", "sinPagina"}
  PROVE  Comun' /\ (Vacio \/ \E u \in DOMAIN cabeceras : Lleno(u))'
<1>1. Comun'
  BY DEF IInv, Comun
<1>2. averia' # "no"
  OBVIOUS
<1>3. CASE Vacio
  BY <1>1, <1>3 DEF Vacio
<1>4. ASSUME NEW u \in DOMAIN cabeceras, Lleno(u) PROVE Lleno(u)'
  <2>1. /\ Techo(u + TAMANIO_HEAP)' = Techo(u + TAMANIO_HEAP)
        /\ Multiplos(cabeceras)' = Multiplos(cabeceras)
        /\ Lugares(cabeceras, vivos, u)' = Lugares(cabeceras, vivos, u)
    BY DEF Techo, tamanioPagina, Multiplos, Grano, Lugares
  <2>. QED BY <1>2, <1>4, <2>1 DEF Lleno
<1>5. IInv => Vacio \/ \E u \in DOMAIN cabeceras : Lleno(u)
  BY DEF IInv
<1>. QED BY <1>1, <1>3, <1>4, <1>5

LEMMA PasoPide ==
  ASSUME IInv, PideSinPagina
  PROVE  IInv'
<1>1. /\ UNCHANGED <<config, cabeceras, paginas, primeraPag, vivos, reuso>>
      /\ averia' = "sinPagina"
  BY DEF PideSinPagina
<1>2. Comun' /\ (Vacio \/ \E u \in DOMAIN cabeceras : Lleno(u))'
  BY <1>1, Rota
<1>3. AveriasConocidas'
  BY <1>1 DEF AveriasConocidas
<1>. QED BY <1>2, <1>3 DEF IInv

-----------------------------------------------------------------------------
(* What breaks when the blocks and their headers divide the page.          *)

\* In a page that the size g divides, a multiple of g is g or more from the end.
LEMMA EnSuPagina ==
  ASSUME NEW g \in Nat \ {0}, NEW p \in Nat \ {0}, NEW c \in Nat, c % g = 0, p % g = 0
  PROVE  /\ (c % p) + g <= p
         /\ \A e \in Nat : e < g => (c + e) % p = (c % p) + e
<1>1. PICK k, m, q, r : k = c \div g /\ m = p \div g /\ q = c \div p /\ r = c % p
  OBVIOUS
<1>2. k \in Nat /\ c = k * g + 0
  BY <1>1, Division
<1>3. m \in Nat /\ p = m * g + 0
  BY <1>1, Division
<1>4. q \in Nat /\ r \in 0..(p - 1) /\ c = q * p + r
  BY <1>1, Division
<1>5. PICK j \in Int : j = k - q * m
  BY <1>2, <1>3, <1>4
<1>6. r = j * g
  <2>1. q * p = (q * m) * g
    BY <1>3, <1>4
  <2>2. (k - q * m) * g = k * g - (q * m) * g
    BY <1>2, <1>3, <1>4
  <2>3. PICK x, y : x = k * g /\ y = (q * m) * g
    OBVIOUS
  <2>4. x \in Nat /\ y \in Nat
    BY <2>3, <1>2, <1>3, <1>4
  <2>5. c = x /\ c = y + r
    BY <2>1, <2>3, <2>4, <1>2, <1>4
  <2>6. j * g = x - y
    BY <2>2, <2>3, <1>5
  <2>. QED BY <2>4, <2>5, <2>6, <1>4
<1>7. j < m
  <2>1. SUFFICES ASSUME j >= m PROVE FALSE
    BY <1>3
  <2>2. j \in Nat /\ m <= j
    BY <2>1, <1>3
  <2>3. m * g <= j * g
    BY <2>2, <1>3, Producto
  <2>. QED BY <2>3, <1>3, <1>4, <1>6
<1>8. r + g <= p
  <2>1. PICK d \in Nat : d = m - 1 - j
    BY <1>3, <1>7
  <2>2. d * g \in Nat
    BY <2>1
  <2>3. m * g = d * g + g + j * g
    <3>1. m = d + 1 + j
      BY <2>1, <1>3
    <3>2. (d + 1 + j) * g = d * g + g + j * g
      BY <2>1
    <3>. QED BY <3>1, <3>2
  <2>4. PICK x, y, z : x = m * g /\ y = d * g /\ z = j * g
    OBVIOUS
  <2>5. r = z /\ p = x /\ x = y + g + z /\ y \in Nat
    BY <2>2, <2>3, <2>4, <1>3, <1>6
  <2>. QED BY <2>5, <1>4
<1>9. ASSUME NEW e \in Nat, e < g PROVE (c + e) % p = r + e
  <2>1. r + e \in 0..(p - 1)
    BY <1>4, <1>8, <1>9
  <2>2. (q * p + (r + e)) % p = r + e
    BY <1>4, <2>1, DivisionUnica
  <2>3. c + e = q * p + (r + e)
    <3>1. PICK x : x = q * p
      OBVIOUS
    <3>2. x \in Nat
      BY <3>1, <1>4
    <3>. QED BY <3>1, <3>2, <1>4
  <2>. QED BY <2>2, <2>3
<1>. QED BY <1>1, <1>8, <1>9

\* Two multiples of g are g apart.
LEMMA Separados ==
  ASSUME NEW g \in Nat \ {0}, NEW a \in Nat, NEW b \in Nat, a % g = 0, b % g = 0, a < b
  PROVE  a + g <= b
<1>1. PICK j, k : j = a \div g /\ k = b \div g
  OBVIOUS
<1>2. j \in Nat /\ a = j * g + 0
  BY <1>1, Division
<1>3. k \in Nat /\ b = k * g + 0
  BY <1>1, Division
<1>4. j < k
  BY <1>2, <1>3, MenosMultiplos
<1>5. (j + 1) * g <= k * g
  BY <1>2, <1>3, <1>4, Producto
<1>6. (j + 1) * g = j * g + g
  BY <1>2
<1>. QED BY <1>2, <1>3, <1>5, <1>6

\* The headers of the neighbours have been written.
LEMMA LeidasEscritas ==
  ASSUME NEW u, Estructura(cabeceras, u), NEW c \in DOMAIN cabeceras \ {u}
  PROVE  Leidas(c) \subseteq DOMAIN cabeceras
<1>1. Posterior(c) \in DOMAIN cabeceras
  BY DEF Estructura, Posterior
<1>2. ASSUME TieneAnterior(c) PROVE Anterior(c) \in DOMAIN cabeceras
  <2>1. c # 0
    BY <1>2 DEF TieneAnterior, Anterior, Estructura
  <2>. QED BY <2>1 DEF Estructura, Anterior
<1>3. ASSUME TieneSegunda(c) PROVE Posterior(Posterior(c)) \in DOMAIN cabeceras
  <2>1. Posterior(c) # u
    BY <1>3 DEF TieneSegunda, Ultima, Estructura
  <2>. QED BY <1>1, <2>1 DEF Estructura, Posterior
<1>. QED BY <1>1, <1>2, <1>3 DEF Leidas

LEMMA PasoAveria ==
  ASSUME IInv, NEW b \in vivos, SeAveria(b)
  PROVE  IInv'
<1>1. PICK c : c = b.cabecera
  OBVIOUS
<1>2. /\ UNCHANGED <<config, cabeceras, paginas, primeraPag, vivos, reuso>>
      /\ averia' \in Averias(c)
  BY <1>1 DEF SeAveria
<1>3. averia' \in {"cabeceraCortada", "idsCorridos", "vecinaCortada", "cabeceraPisada",
                   "escribeAfuera"}
  BY <1>2 DEF Averias
<1>4. Comun' /\ (Vacio \/ \E u \in DOMAIN cabeceras : Lleno(u))'
  BY <1>2, <1>3, Rota
<1>5. AveriasConocidas'
  <2>1. SUFFICES ASSUME Alineado' PROVE averia' = "idsCorridos"
    BY DEF AveriasConocidas
  <2>2. PICK g \in (2 * TAMANIO_HEAP)..tamanioPagina : Grano(g)
    BY <1>2, <2>1 DEF Alineado, Grano, tamanioPagina
  <2>3. config \in Configuraciones
    BY DEF IInv, Comun
  <2>4. PICK p : p = tamanioPagina
    OBVIOUS
  <2>5. p \in Nat \ {0} /\ g \in 18..p /\ g \in Nat \ {0} /\ p % g = 0 /\ g \in 1..tamanioPagina
    BY <2>2, <2>3, <2>4, Tamanios DEF TAMANIO_HEAP, Grano
  <2>6. PICK u \in DOMAIN cabeceras : Lleno(u)
    BY DEF IInv, Vacio
  <2>7. Estructura(cabeceras, u) /\ c \in DOMAIN cabeceras \ {u}
    BY <1>1, <2>6 DEF Lleno, Lugares
  <2>8. \A l \in DOMAIN cabeceras : l \in Nat /\ l % g = 0
    BY <2>2, <2>5, <2>6, <2>7 DEF Lleno, Multiplos, Estructura
  <2>9. c \in Nat /\ c % g = 0
    BY <2>7, <2>8
  <2>10. \A l \in DOMAIN cabeceras : ~Cortada(l)
    <3>1. TAKE l \in DOMAIN cabeceras
    <3>2. (l % p) + g <= p
      BY <2>5, <2>8, EnSuPagina
    <3>3. PICK x : x = l % p
      OBVIOUS
    <3>4. x \in Nat
      BY <3>3, <2>5, <2>8, Resto
    <3>5. x + 9 <= p
      BY <3>2, <3>3, <3>4, <2>5
    <3>. QED BY <3>3, <3>4, <3>5, <2>4, <2>5 DEF Cortada, TAMANIO_HEAP
  <2>11. /\ (c % p) + g <= p /\ c % p \in Nat
         /\ (c + 9) % p = (c % p) + 9
    <3>1. 9 \in Nat /\ 9 < g
      BY <2>5
    <3>2. c % p \in Nat
      BY <2>5, <2>9, Resto
    <3>3. /\ (c % p) + g <= p
          /\ \A e \in Nat : e < g => (c + e) % p = (c % p) + e
      BY <2>5, <2>9, EnSuPagina
    <3>. QED BY <3>1, <3>2, <3>3
  <2>12. PICK x \in Nat : x = c % p
    BY <2>11
  <2>13. x + g <= p /\ (c + 9) % p = x + 9
    BY <2>11, <2>12
  <2>14. averia' # "cabeceraCortada"
    <3>1. ~(desplazamiento(c) < TAMANIO_HEAP)
      BY <2>4, <2>13 DEF desplazamiento, TAMANIO_HEAP
    <3>. QED BY <3>1, <1>2 DEF Averias
  <2>15. averia' # "vecinaCortada"
    <3>1. ~ \E l \in Leidas(c) : Cortada(l)
      BY <2>7, <2>10, LeidasEscritas
    <3>. QED BY <3>1, <1>2 DEF Averias
  <2>16. averia' # "cabeceraPisada"
    <3>1. PICK n : n = Posterior(c)
      OBVIOUS
    <3>2. n \in DOMAIN cabeceras /\ n >= c + 9
      BY <3>1, <2>7 DEF Posterior, Estructura, TAMANIO_HEAP
    <3>3. n \in Nat /\ n % g = 0 /\ c < n
      BY <3>2, <2>8, <2>9
    <3>4. c + g <= n
      BY <3>3, <2>5, <2>9, Separados
    <3>5. ~(Posterior(c) < c + 2 * TAMANIO_HEAP)
      BY <3>1, <3>3, <3>4, <2>5, <2>9 DEF TAMANIO_HEAP
    <3>. QED BY <3>5, <1>2 DEF Averias
  <2>17. averia' # "escribeAfuera"
    <3>1. ~Cortada(c + TAMANIO_HEAP)
      <4>1. ~(x + 9 + 9 > p)
        BY <2>5, <2>13
      <4>. QED BY <4>1, <2>4, <2>13 DEF Cortada, TAMANIO_HEAP
    <3>. QED BY <3>1, <1>2 DEF Averias
  <2>. QED BY <1>3, <2>14, <2>15, <2>16, <2>17
<1>. QED BY <1>4, <1>5 DEF IInv

-----------------------------------------------------------------------------
(* Freeing a block.                                                        *)

\* The headers h are the headers f, with c marked free.
Marca(f, h, c) ==
  /\ DOMAIN h = DOMAIN f /\ h \in [DOMAIN f -> Cabecera]
  /\ \A d \in DOMAIN f : h[d].isFree <=> d = c \/ f[d].isFree

\* They have the same pointers, or one forward from x to y, and one back to z.
MismosPunteros(f, h) ==
  \A d \in DOMAIN f : h[d].nextAlloc = f[d].nextAlloc /\ h[d].prevAlloc = f[d].prevAlloc
OtrosPunteros(f, h, x, y, z) ==
  /\ \A d \in DOMAIN f : h[d].nextAlloc = IF d = x THEN y ELSE f[d].nextAlloc
  /\ \A d \in DOMAIN f : h[d].prevAlloc = IF d = y THEN z ELSE f[d].prevAlloc

LEMMA MarcaLibre ==
  ASSUME NEW f, f \in [DOMAIN f -> Cabecera], NEW c \in DOMAIN f, NEW h,
         h = [f EXCEPT ![c].isFree = TRUE]
  PROVE  Marca(f, h, c) /\ MismosPunteros(f, h)
<1>1. DOMAIN h = DOMAIN f /\ \A d \in DOMAIN f \ {c} : h[d] = f[d]
  OBVIOUS
<1>2. PICK r : r = f[c]
  OBVIOUS
<1>3. r \in Cabecera
  BY <1>2
<1>4. h[c] = [r EXCEPT !.isFree = TRUE]
  BY <1>2
<1>5. /\ h[c] \in Cabecera /\ h[c].isFree = TRUE
      /\ h[c].nextAlloc = r.nextAlloc /\ h[c].prevAlloc = r.prevAlloc
  BY <1>3, <1>4 DEF Cabecera
<1>6. \A d \in DOMAIN f : h[d] \in Cabecera
  BY <1>1, <1>5
<1>7. h \in [DOMAIN f -> Cabecera]
  BY <1>1, <1>6
<1>8. \A d \in DOMAIN f : h[d].isFree <=> d = c \/ f[d].isFree
  BY <1>1, <1>5
<1>9. MismosPunteros(f, h)
  BY <1>1, <1>2, <1>5 DEF MismosPunteros
<1>. QED BY <1>1, <1>7, <1>8, <1>9 DEF Marca

LEMMA EnlazaHace ==
  ASSUME NEW f, NEW h, NEW c, Marca(f, h, c), MismosPunteros(f, h),
         NEW a \in DOMAIN f, NEW s \in DOMAIN f, s \in Int, a # s, NEW q \in Int,
         NEW g, g = Enlaza(h, a, s, q)
  PROVE  Marca(f, g, c) /\ OtrosPunteros(f, g, a, s, q)
<1>1. PICK k : k = [h EXCEPT ![a].nextAlloc = s]
  OBVIOUS
<1>2. g = [k EXCEPT ![s].prevAlloc = q]
  BY <1>1 DEF Enlaza
<1>3. DOMAIN h = DOMAIN f /\ \A d \in DOMAIN f : h[d] \in Cabecera
  BY DEF Marca
<1>4. DOMAIN k = DOMAIN f /\ \A d \in DOMAIN f \ {a} : k[d] = h[d]
  BY <1>1, <1>3
<1>5. /\ k[a] \in Cabecera /\ k[a].nextAlloc = s /\ k[a].prevAlloc = h[a].prevAlloc
      /\ k[a].isFree = h[a].isFree
  <2>1. PICK r : r = h[a]
    OBVIOUS
  <2>2. r \in Cabecera
    BY <1>3, <2>1
  <2>3. k[a] = [r EXCEPT !.nextAlloc = s]
    BY <1>1, <1>3, <2>1
  <2>4. k[a] \in Cabecera /\ k[a].nextAlloc = s /\ k[a].prevAlloc = r.prevAlloc
    BY <2>2, <2>3 DEF Cabecera
  <2>5. k[a].isFree = r.isFree
    BY <2>2, <2>3 DEF Cabecera
  <2>. QED BY <2>1, <2>4, <2>5
<1>6. DOMAIN g = DOMAIN f /\ \A d \in DOMAIN f \ {s} : g[d] = k[d]
  BY <1>2, <1>4
<1>7. /\ g[s] \in Cabecera /\ g[s].prevAlloc = q /\ g[s].nextAlloc = h[s].nextAlloc
      /\ g[s].isFree = h[s].isFree
  <2>1. PICK r : r = h[s]
    OBVIOUS
  <2>2. r \in Cabecera
    BY <1>3, <2>1
  <2>3. g[s] = [r EXCEPT !.prevAlloc = q]
    BY <1>2, <1>4, <2>1
  <2>4. g[s] \in Cabecera /\ g[s].prevAlloc = q /\ g[s].nextAlloc = r.nextAlloc
    BY <2>2, <2>3 DEF Cabecera
  <2>5. g[s].isFree = r.isFree
    BY <2>2, <2>3 DEF Cabecera
  <2>. QED BY <2>1, <2>4, <2>5
<1>8. \A d \in DOMAIN f : g[d] \in Cabecera
  BY <1>3, <1>4, <1>5, <1>6, <1>7
<1>9. g \in [DOMAIN f -> Cabecera]
  <2>1. g = [d \in DOMAIN f |-> g[d]]
    BY <1>2, <1>1, <1>3
  <2>. QED BY <1>8, <2>1
<1>10. \A d \in DOMAIN f : g[d].isFree = h[d].isFree
  BY <1>4, <1>5, <1>6, <1>7
<1>11. Marca(f, g, c)
  BY <1>6, <1>9, <1>10 DEF Marca
<1>12. \A d \in DOMAIN f : g[d].nextAlloc = IF d = a THEN s ELSE f[d].nextAlloc
  BY <1>4, <1>5, <1>6, <1>7 DEF MismosPunteros
<1>13. \A d \in DOMAIN f : g[d].prevAlloc = IF d = s THEN q ELSE f[d].prevAlloc
  BY <1>4, <1>5, <1>6, <1>7 DEF MismosPunteros
<1>. QED BY <1>11, <1>12, <1>13 DEF OtrosPunteros

\* Merging writes no pointer, or leaves out the freed header, the one after it
\* that is free, or both.
FundeConAnterior(f, h, c) ==
  /\ c # 0 /\ f[f[c].prevAlloc].isFree
  /\ OtrosPunteros(f, h, f[c].prevAlloc, f[c].nextAlloc, f[c].prevAlloc)
FundeConSiguiente(f, h, c, u) ==
  /\ f[c].nextAlloc # u /\ f[f[c].nextAlloc].isFree
  /\ OtrosPunteros(f, h, c, f[f[c].nextAlloc].nextAlloc, f[f[c].nextAlloc].prevAlloc)
FundeConAmbas(f, h, c, u) ==
  /\ c # 0 /\ f[f[c].prevAlloc].isFree
  /\ f[c].nextAlloc # u /\ f[f[c].nextAlloc].isFree
  /\ OtrosPunteros(f, h, f[c].prevAlloc, f[f[c].nextAlloc].nextAlloc, f[c].prevAlloc)

LEMMA Consolida ==
  ASSUME NEW u, Estructura(cabeceras, u), NEW c \in DOMAIN cabeceras \ {u}, NEW f, NEW h,
         f = cabeceras,
         h = consolidar_allocs([cabeceras EXCEPT ![c].isFree = TRUE], c)
  PROVE  /\ Marca(f, h, c)
         /\ \/ MismosPunteros(f, h) \/ FundeConAnterior(f, h, c)
            \/ FundeConSiguiente(f, h, c, u) \/ FundeConAmbas(f, h, c, u)
<1>1. PICK k : k = [f EXCEPT ![c].isFree = TRUE]
  OBVIOUS
<1>2. Marca(f, k, c) /\ MismosPunteros(f, k)
  <2>1. f \in [DOMAIN f -> Cabecera] /\ c \in DOMAIN f
    BY DEF Estructura
  <2>. QED BY <1>1, <2>1, MarcaLibre
<1>3. PICK a, p, s, q : a = f[c].prevAlloc /\ p = f[c].nextAlloc
                        /\ s = f[f[c].nextAlloc].nextAlloc /\ q = f[f[c].nextAlloc].prevAlloc
  OBVIOUS
<1>4. Anterior(c) = a /\ Posterior(c) = p /\ Posterior(p) = s /\ Anterior(p) = q
  BY <1>3 DEF Anterior, Posterior
<1>5. h = IF ~TieneAnterior(c) THEN k
          ELSE IF Fundible(a) /\ Fundible(p) /\ TieneSegunda(c) THEN Enlaza(k, a, s, a)
          ELSE IF Fundible(a) /\ ~Fundible(p) THEN Enlaza(k, a, p, a)
          ELSE IF ~Fundible(a) /\ Fundible(p) /\ TieneSegunda(c) THEN Enlaza(k, c, s, q)
          ELSE k
  BY <1>1, <1>4 DEF consolidar_allocs
<1>6. \A d \in DOMAIN f : d \in Nat /\ d \in 0..u
  BY DEF Estructura
<1>7. p \in DOMAIN f /\ p > c
  <2>1. p \in DOMAIN f /\ p >= c + 9
    BY <1>3 DEF Estructura, TAMANIO_HEAP
  <2>. QED BY <2>1, <1>6
<1>8. TieneAnterior(c) => c # 0 /\ a \in DOMAIN f /\ a < c
  <2>1. SUFFICES ASSUME TieneAnterior(c) PROVE c # 0 /\ a \in DOMAIN f /\ a < c
    OBVIOUS
  <2>2. c # 0
    BY <1>4, <2>1, <1>3 DEF TieneAnterior, Estructura
  <2>. QED BY <1>3, <2>2 DEF Estructura
<1>9. TieneSegunda(c) => p # u /\ s \in DOMAIN f /\ s > p
  <2>1. SUFFICES ASSUME TieneSegunda(c) PROVE p # u /\ s \in DOMAIN f /\ s > p
    OBVIOUS
  <2>2. p # u
    BY <1>4, <2>1 DEF TieneSegunda, Ultima, Estructura
  <2>3. s \in DOMAIN f /\ s >= p + 9
    BY <1>3, <1>7, <2>2 DEF Estructura, TAMANIO_HEAP
  <2>. QED BY <1>6, <1>7, <2>2, <2>3
<1>10. q \in Int
  <2>1. f[p] \in Cabecera
    BY <1>7 DEF Estructura
  <2>. QED BY <1>3, <2>1 DEF Cabecera
<1>11. CASE h = k
  BY <1>2, <1>11
<1>12. CASE /\ TieneAnterior(c) /\ Fundible(a) /\ Fundible(p) /\ TieneSegunda(c)
            /\ h = Enlaza(k, a, s, a)
  <2>1. a \in DOMAIN f /\ s \in DOMAIN f /\ s \in Int /\ a # s /\ a \in Int
    BY <1>12, <1>6, <1>7, <1>8, <1>9
  <2>2. Marca(f, h, c) /\ OtrosPunteros(f, h, a, s, a)
    BY <2>1, <1>2, <1>12, EnlazaHace
  <2>3. FundeConAmbas(f, h, c, u)
    BY <2>2, <1>3, <1>8, <1>9, <1>12 DEF FundeConAmbas, Fundible
  <2>. QED BY <2>2, <2>3
<1>13. CASE TieneAnterior(c) /\ Fundible(a) /\ ~Fundible(p) /\ h = Enlaza(k, a, p, a)
  <2>1. a \in DOMAIN f /\ p \in DOMAIN f /\ p \in Int /\ a # p /\ a \in Int
    BY <1>13, <1>6, <1>7, <1>8
  <2>2. Marca(f, h, c) /\ OtrosPunteros(f, h, a, p, a)
    BY <2>1, <1>2, <1>13, EnlazaHace
  <2>3. FundeConAnterior(f, h, c)
    BY <2>2, <1>3, <1>8, <1>13 DEF FundeConAnterior, Fundible
  <2>. QED BY <2>2, <2>3
<1>14. CASE /\ TieneAnterior(c) /\ ~Fundible(a) /\ Fundible(p) /\ TieneSegunda(c)
            /\ h = Enlaza(k, c, s, q)
  <2>1. c \in DOMAIN f /\ s \in DOMAIN f /\ s \in Int /\ c # s
    BY <1>14, <1>6, <1>7, <1>9
  <2>2. Marca(f, h, c) /\ OtrosPunteros(f, h, c, s, q)
    BY <2>1, <1>2, <1>10, <1>14, EnlazaHace
  <2>3. FundeConSiguiente(f, h, c, u)
    BY <2>2, <1>3, <1>9, <1>14 DEF FundeConSiguiente, Fundible
  <2>. QED BY <2>2, <2>3
<1>. QED BY <1>5, <1>11, <1>12, <1>13, <1>14

\* The four outcomes of merging.
Fusiones(f, h, c, u) ==
  \/ MismosPunteros(f, h) \/ FundeConAnterior(f, h, c)
  \/ FundeConSiguiente(f, h, c, u) \/ FundeConAmbas(f, h, c, u)

\* The headers around one that is freed.
LEMMA Vecinas ==
  ASSUME NEW f, NEW u, Estructura(f, u), NEW c \in DOMAIN f \ {u},
         NEW p, p = f[c].nextAlloc
  PROVE  /\ c \in Nat /\ u \in Nat /\ c < u
         /\ p \in DOMAIN f /\ p \in Nat /\ p >= c + TAMANIO_HEAP /\ p # 0
         /\ f[p].prevAlloc \in DOMAIN f /\ f[p].prevAlloc < p
         /\ c # 0 => /\ f[c].prevAlloc \in DOMAIN f \ {u} /\ f[c].prevAlloc \in Nat
                     /\ f[c].prevAlloc < c
         /\ p # u => /\ f[p].nextAlloc \in DOMAIN f /\ f[p].nextAlloc \in Nat
                     /\ f[p].nextAlloc >= p + TAMANIO_HEAP
<1>1. \A d \in DOMAIN f : d \in Nat /\ d \in 0..u /\ u \in Nat
  BY DEF Estructura
<1>2. c \in Nat /\ u \in Nat /\ c < u
  BY <1>1
<1>3. p \in DOMAIN f /\ p \in Nat /\ p >= c + TAMANIO_HEAP
  BY <1>1 DEF Estructura
<1>4. p # 0
  BY <1>2, <1>3 DEF TAMANIO_HEAP
<1>5. f[p].prevAlloc \in DOMAIN f /\ f[p].prevAlloc < p
  BY <1>3, <1>4 DEF Estructura
<1>6. ASSUME c # 0
      PROVE  f[c].prevAlloc \in DOMAIN f \ {u} /\ f[c].prevAlloc \in Nat /\ f[c].prevAlloc < c
  <2>1. f[c].prevAlloc \in DOMAIN f /\ f[c].prevAlloc < c
    BY <1>6 DEF Estructura
  <2>. QED BY <2>1, <1>1, <1>2
<1>7. ASSUME p # u
      PROVE  /\ f[p].nextAlloc \in DOMAIN f /\ f[p].nextAlloc \in Nat
             /\ f[p].nextAlloc >= p + TAMANIO_HEAP
  BY <1>1, <1>3, <1>7 DEF Estructura
<1>. QED BY <1>2, <1>3, <1>4, <1>5, <1>6, <1>7

LEMMA ConsolidaEstructura ==
  ASSUME NEW f, NEW u, Estructura(f, u), NEW c \in DOMAIN f \ {u},
         NEW h, Marca(f, h, c), Fusiones(f, h, c, u)
  PROVE  Estructura(h, u)
<1>1. PICK a, p, s : a = f[c].prevAlloc /\ p = f[c].nextAlloc /\ s = f[f[c].nextAlloc].nextAlloc
  OBVIOUS
<1>2. /\ c \in Nat /\ u \in Nat /\ c < u
      /\ p \in DOMAIN f /\ p \in Nat /\ p >= c + TAMANIO_HEAP
      /\ f[p].prevAlloc \in DOMAIN f /\ f[p].prevAlloc < p
      /\ c # 0 => a \in DOMAIN f \ {u} /\ a \in Nat /\ a < c
      /\ p # u => s \in DOMAIN f /\ s \in Nat /\ s >= p + TAMANIO_HEAP
  BY <1>1, Vecinas
<1>3. DOMAIN h = DOMAIN f /\ h \in [DOMAIN f -> Cabecera] /\ h[u].isFree
  BY DEF Marca, Estructura
<1>4. CASE MismosPunteros(f, h)
  <2>1. \A d \in DOMAIN f : h[d].nextAlloc = f[d].nextAlloc /\ h[d].prevAlloc = f[d].prevAlloc
    BY <1>4 DEF MismosPunteros
  <2>. QED BY <1>3, <2>1 DEF Estructura
<1>5. CASE FundeConAnterior(f, h, c)
  <2>1. c # 0 /\ OtrosPunteros(f, h, a, p, a)
    BY <1>1, <1>5 DEF FundeConAnterior
  <2>2. a \in DOMAIN f \ {u} /\ p >= a + TAMANIO_HEAP /\ a < p
    BY <1>2, <2>1 DEF TAMANIO_HEAP
  <2>. QED BY <1>2, <1>3, <2>1, <2>2, EnlazaGuarda DEF OtrosPunteros
<1>6. CASE FundeConSiguiente(f, h, c, u)
  <2>1. PICK q : q = f[p].prevAlloc
    OBVIOUS
  <2>2. p # u /\ OtrosPunteros(f, h, c, s, q)
    BY <1>1, <1>6, <2>1 DEF FundeConSiguiente
  <2>3. q \in DOMAIN f /\ q \in Nat /\ q < p
    <3>1. q \in DOMAIN f /\ q < p
      BY <1>2, <2>1
    <3>. QED BY <3>1 DEF Estructura
  <2>4. s \in DOMAIN f /\ s >= c + TAMANIO_HEAP /\ q < s
    BY <1>2, <2>2, <2>3 DEF TAMANIO_HEAP
  <2>. QED BY <1>3, <2>2, <2>3, <2>4, EnlazaGuarda DEF OtrosPunteros
<1>7. CASE FundeConAmbas(f, h, c, u)
  <2>1. c # 0 /\ p # u /\ OtrosPunteros(f, h, a, s, a)
    BY <1>1, <1>7 DEF FundeConAmbas
  <2>2. a \in DOMAIN f \ {u} /\ s \in DOMAIN f /\ s >= a + TAMANIO_HEAP /\ a < s
    BY <1>2, <2>1 DEF TAMANIO_HEAP
  <2>. QED BY <1>3, <2>1, <2>2, EnlazaGuarda DEF OtrosPunteros
<1>. QED BY <1>4, <1>5, <1>6, <1>7 DEF Fusiones

\* The link before a link of a chain linked both ways is the one it points back at.
LEMMA EnlaceAnterior ==
  ASSUME NEW f, NEW u, Estructura(f, u), NEW C, EsCadena(f, C), Doble(f, C, u),
         NEW c \in C, c # 0, NEW a, a = f[c].prevAlloc
  PROVE  a \in C \ {u} /\ f[a].nextAlloc = c
<1>1. PICK d \in C \ {u} : f[d].nextAlloc = c
  BY Recorrida
<1>2. d = a
  BY <1>1 DEF Doble
<1>. QED BY <1>1, <1>2

\* Merging takes out of the chain the freed header, or a free one.
LEMMA ConsolidaCadena ==
  ASSUME NEW f, NEW u, Estructura(f, u), NEW C, EsCadena(f, C), Doble(f, C, u),
         NEW c \in C \ {u}, NEW h, Marca(f, h, c), Fusiones(f, h, c, u)
  PROVE  \E K : /\ EsCadena(h, K) /\ Doble(h, K, u)
                /\ K \subseteq C /\ \A d \in C \ K : d = c \/ f[d].isFree
<1>1. PICK a, p, s : a = f[c].prevAlloc /\ p = f[c].nextAlloc /\ s = f[f[c].nextAlloc].nextAlloc
  OBVIOUS
<1>2. C \subseteq DOMAIN f /\ \A d \in C \ {u} : f[d].nextAlloc \in C
  BY Recorrida
<1>3. /\ c \in Nat /\ u \in Nat /\ c < u
      /\ p \in C /\ p \in Nat /\ p >= c + TAMANIO_HEAP /\ f[p].prevAlloc = c
      /\ c # 0 => a \in C \ {u} /\ a \in Nat /\ a < c /\ f[a].nextAlloc = c
      /\ p # u => s \in C /\ s \in Nat /\ s >= p + TAMANIO_HEAP
  <2>1. c \in DOMAIN f \ {u}
    BY <1>2
  <2>2. p \in C /\ f[p].prevAlloc = c
    BY <1>1, <1>2 DEF Doble
  <2>3. /\ c \in Nat /\ u \in Nat /\ c < u
        /\ p \in Nat /\ p >= c + TAMANIO_HEAP
        /\ c # 0 => a \in Nat /\ a < c
        /\ p # u => s \in Nat /\ s >= p + TAMANIO_HEAP
    BY <1>1, <2>1, Vecinas
  <2>4. c # 0 => a \in C \ {u} /\ f[a].nextAlloc = c
    BY <1>1, EnlaceAnterior
  <2>5. p # u => s \in C
    BY <1>1, <1>2, <2>2
  <2>. QED BY <2>2, <2>3, <2>4, <2>5
<1>4. Estructura(h, u) /\ DOMAIN h = DOMAIN f
  <2>1. Estructura(h, u)
    BY <1>2, ConsolidaEstructura
  <2>. QED BY <2>1 DEF Marca
<1>5. CASE MismosPunteros(f, h)
  <2>1. \A d \in DOMAIN f : h[d].nextAlloc = f[d].nextAlloc /\ h[d].prevAlloc = f[d].prevAlloc
    BY <1>5 DEF MismosPunteros
  <2>2. \A S : Cerrado(h, S) <=> Cerrado(f, S)
    BY <1>4, <2>1 DEF Cerrado
  <2>3. EsCadena(h, C)
    BY <2>2 DEF EsCadena
  <2>4. Doble(h, C, u)
    BY <1>2, <2>1 DEF Doble
  <2>. QED BY <2>3, <2>4
<1>6. CASE FundeConAnterior(f, h, c)
  <2>1. c # 0 /\ OtrosPunteros(f, h, a, p, a)
    BY <1>1, <1>6 DEF FundeConAnterior
  <2>2. a \in C \ {u} /\ c = f[a].nextAlloc /\ c # u /\ p = f[c].nextAlloc
    BY <1>1, <1>3, <2>1
  <2>3. /\ \A d \in DOMAIN f : h[d].nextAlloc = IF d = a THEN p ELSE f[d].nextAlloc
        /\ \A d \in C \ {c} : h[d].prevAlloc = IF d = p THEN a ELSE f[d].prevAlloc
    BY <1>2, <2>1 DEF OtrosPunteros
  <2>4. EsCadena(h, C \ {c}) /\ Doble(h, C \ {c}, u)
    BY <1>4, <2>2, <2>3, Salta
  <2>. QED BY <2>4
<1>7. CASE FundeConSiguiente(f, h, c, u)
  <2>1. p # u /\ f[p].isFree /\ OtrosPunteros(f, h, c, s, c)
    BY <1>1, <1>3, <1>7 DEF FundeConSiguiente
  <2>2. p = f[c].nextAlloc /\ s = f[p].nextAlloc
    BY <1>1
  <2>3. /\ \A d \in DOMAIN f : h[d].nextAlloc = IF d = c THEN s ELSE f[d].nextAlloc
        /\ \A d \in C \ {p} : h[d].prevAlloc = IF d = s THEN c ELSE f[d].prevAlloc
    BY <1>2, <2>1 DEF OtrosPunteros
  <2>4. EsCadena(h, C \ {p}) /\ Doble(h, C \ {p}, u)
    BY <1>4, <2>1, <2>2, <2>3, Salta
  <2>. QED BY <2>1, <2>4
<1>8. CASE FundeConAmbas(f, h, c, u)
  <2>1. c # 0 /\ p # u /\ f[p].isFree /\ OtrosPunteros(f, h, a, s, a)
    BY <1>1, <1>8 DEF FundeConAmbas
  <2>2. a \in C \ {u} /\ c = f[a].nextAlloc /\ c # u /\ p = f[c].nextAlloc /\ s = f[p].nextAlloc
    BY <1>1, <1>3, <2>1
  <2>3. PICK k : k = [d \in DOMAIN f |->
                        [isFree |-> f[d].isFree,
                         prevAlloc |-> IF d = p THEN a ELSE f[d].prevAlloc,
                         nextAlloc |-> IF d = a THEN p ELSE f[d].nextAlloc]]
    OBVIOUS
  <2>4. /\ DOMAIN k = DOMAIN f
        /\ \A d \in DOMAIN f : k[d].nextAlloc = IF d = a THEN p ELSE f[d].nextAlloc
        /\ \A d \in DOMAIN f : k[d].prevAlloc = IF d = p THEN a ELSE f[d].prevAlloc
        /\ \A d \in DOMAIN f : k[d].isFree = f[d].isFree
    BY <2>3
  <2>5. Estructura(k, u)
    <3>1. \A d \in DOMAIN f : f[d] \in Cabecera
      BY DEF Estructura
    <3>2. a \in Int /\ p \in Int
      BY <1>3, <2>1
    <3>3. ASSUME NEW d \in DOMAIN f PROVE k[d] \in Cabecera
      <4>1. PICK i, j, l : /\ i = f[d].isFree
                           /\ j = (IF d = p THEN a ELSE f[d].prevAlloc)
                           /\ l = (IF d = a THEN p ELSE f[d].nextAlloc)
        OBVIOUS
      <4>2. i \in BOOLEAN /\ j \in Int /\ l \in Int
        BY <3>1, <3>2, <4>1 DEF Cabecera
      <4>3. k[d] = [isFree |-> i, prevAlloc |-> j, nextAlloc |-> l]
        BY <2>3, <4>1
      <4>. QED BY <4>2, <4>3 DEF Cabecera
    <3>4. k \in [DOMAIN f -> Cabecera]
      BY <2>3, <3>3
    <3>5. k[u].isFree
      BY <2>4 DEF Estructura
    <3>6. a \in DOMAIN f \ {u} /\ p \in DOMAIN f /\ a < p /\ p >= a + TAMANIO_HEAP
      BY <1>2, <1>3, <2>1 DEF TAMANIO_HEAP
    <3>. QED BY <2>4, <3>4, <3>5, <3>6, EnlazaGuarda
  <2>6. EsCadena(k, C \ {c}) /\ Doble(k, C \ {c}, u)
    <3>1. \A d \in C \ {c} : k[d].prevAlloc = IF d = p THEN a ELSE f[d].prevAlloc
      BY <1>2, <2>4
    <3>. QED BY <2>2, <2>4, <2>5, <3>1, Salta
  <2>7. a \in (C \ {c}) \ {u} /\ p = k[a].nextAlloc /\ p # u /\ s = k[p].nextAlloc
    <3>1. a # c /\ a # p
      BY <1>3, <2>1 DEF TAMANIO_HEAP
    <3>. QED BY <3>1, <1>2, <1>3, <2>1, <2>2, <2>4
  <2>8. \A d \in DOMAIN k : h[d].nextAlloc = IF d = a THEN s ELSE k[d].nextAlloc
    BY <2>1, <2>4 DEF OtrosPunteros
  <2>9. \A d \in (C \ {c}) \ {p} : h[d].prevAlloc = IF d = s THEN a ELSE k[d].prevAlloc
    BY <1>2, <2>1, <2>4 DEF OtrosPunteros
  <2>10. /\ EsCadena(h, (C \ {c}) \ {p}) /\ Doble(h, (C \ {c}) \ {p}, u)
    <3>1. PICK D : D = C \ {c}
      OBVIOUS
    <3>2. EsCadena(h, D \ {p}) /\ Doble(h, D \ {p}, u)
      BY <1>4, <2>4, <2>5, <2>6, <2>7, <2>8, <2>9, <3>1, Salta
    <3>. QED BY <3>1, <3>2
  <2>11. \A d \in C \ ((C \ {c}) \ {p}) : d = c \/ f[d].isFree
    BY <2>1
  <2>12. (C \ {c}) \ {p} \subseteq C
    OBVIOUS
  <2>. QED BY <2>10, <2>11, <2>12
<1>. QED BY <1>5, <1>6, <1>7, <1>8 DEF Fusiones

LEMMA PasoLibera ==
  ASSUME IInv, NEW b \in vivos, liberar_alloc(b)
  PROVE  IInv'
<1>1. PICK c, f, h : c = b.cabecera /\ f = cabeceras /\ h = cabeceras'
  OBVIOUS
<1>2. /\ averia = "no" /\ averia' = "no"
      /\ config' = config /\ paginas' = paginas /\ primeraPag' = primeraPag /\ reuso' = reuso
      /\ vivos' = vivos \ {b}
  BY DEF liberar_alloc
<1>3. h = consolidar_allocs([cabeceras EXCEPT ![c].isFree = TRUE], c)
  BY <1>1 DEF liberar_alloc
<1>4. Comun /\ Comun'
  BY <1>2 DEF IInv, Comun
<1>5. PICK u \in DOMAIN cabeceras : Lleno(u)
  BY DEF IInv, Vacio
<1>6. /\ Estructura(f, u) /\ Lugares(f, vivos, u) /\ Multiplos(f) /\ Primero(f, vivos)
      /\ paginas > 0 /\ paginas = Techo(u + TAMANIO_HEAP)
  BY <1>1, <1>2, <1>5 DEF Lleno
<1>7. /\ \A e \in vivos : e.cabecera \in DOMAIN f \ {u} /\ e.tamanio \in config.tamanios
      /\ \A e \in vivos : e = [cabecera |-> e.cabecera, tamanio |-> e.tamanio]
  BY <1>6 DEF Lugares
<1>8. c \in DOMAIN f \ {u}
  BY <1>1, <1>7
<1>9. Marca(f, h, c) /\ Fusiones(f, h, c, u)
  BY <1>1, <1>3, <1>6, <1>8, Consolida DEF Fusiones
<1>10. Estructura(h, u) /\ DOMAIN h = DOMAIN f
  <2>1. Estructura(h, u)
    BY <1>6, <1>8, <1>9, ConsolidaEstructura
  <2>. QED BY <2>1, <1>9 DEF Marca
<1>11. \A d \in DOMAIN f : h[d].isFree <=> d = c \/ f[d].isFree
  BY <1>9 DEF Marca
<1>12. Techo(u + TAMANIO_HEAP)' = Techo(u + TAMANIO_HEAP)
  BY <1>2 DEF Techo, tamanioPagina
<1>13. Lugares(h, vivos', u)
  BY <1>2, <1>6, <1>10 DEF Lugares
<1>14. Lugares(cabeceras, vivos, u)'
  BY <1>1, <1>2, <1>13 DEF Lugares
<1>15. Multiplos(cabeceras)'
  <2>1. Multiplos(h)
    BY <1>6, <1>10 DEF Multiplos
  <2>. QED BY <2>1, <1>1, <1>2 DEF Multiplos, Grano, tamanioPagina
<1>16. ASSUME ~h[0].isFree PROVE ~f[0].isFree /\ h[0].nextAlloc = f[0].nextAlloc
  <2>1. 0 \in DOMAIN f /\ 0 # c /\ ~f[0].isFree
    BY <1>6, <1>11, <1>16 DEF Estructura
  <2>2. ASSUME NEW x, NEW y, NEW z, OtrosPunteros(f, h, x, y, z), f[x].isFree \/ x = c
        PROVE  h[0].nextAlloc = f[0].nextAlloc
    BY <2>1, <2>2 DEF OtrosPunteros
  <2>3. h[0].nextAlloc = f[0].nextAlloc
    <3>1. CASE MismosPunteros(f, h)
      BY <3>1, <2>1 DEF MismosPunteros
    <3>2. CASE FundeConAnterior(f, h, c)
      BY <3>2, <2>2 DEF FundeConAnterior
    <3>3. CASE FundeConSiguiente(f, h, c, u)
      BY <3>3, <2>2 DEF FundeConSiguiente
    <3>4. CASE FundeConAmbas(f, h, c, u)
      BY <3>4, <2>2 DEF FundeConAmbas
    <3>. QED BY <1>9, <3>1, <3>2, <3>3, <3>4 DEF Fusiones
  <2>. QED BY <2>1, <2>3
<1>17. Primero(h, vivos')
  <2>1. 0 \in DOMAIN f
    BY <1>6 DEF Estructura
  <2>2. ASSUME NEW e \in vivos', e.cabecera = 0 PROVE ~h[0].isFree
    <3>1. e \in vivos /\ e # b
      BY <1>2
    <3>2. ~f[0].isFree
      BY <2>2, <3>1, <1>6 DEF Primero
    <3>3. c # 0
      BY <2>2, <3>1, <1>1, <1>6 DEF Primero
    <3>. QED BY <2>1, <3>2, <3>3, <1>11
  <2>3. \A a, e \in vivos' : a.cabecera = 0 /\ e.cabecera = 0 => a = e
    BY <1>2, <1>6 DEF Primero
  <2>4. ASSUME ~h[0].isFree PROVE \A d \in DOMAIN h \ {0} : d >= h[0].nextAlloc
    BY <2>4, <1>6, <1>10, <1>16 DEF Primero
  <2>. QED BY <2>2, <2>3, <2>4 DEF Primero
<1>18. ASSUME ~reuso
       PROVE  Doble(cabeceras', Cadena', u) /\ Eslabones(cabeceras', Cadena', vivos')
  <2>1. PICK C : C = Cadena
    OBVIOUS
  <2>2. Doble(f, C, u) /\ Eslabones(f, C, vivos)
    BY <1>1, <1>2, <1>5, <1>18, <2>1 DEF Lleno
  <2>3. EsCadena(f, C)
    BY <1>1, <1>4, <1>6, <2>1, CadenaDeLleno DEF RecorreLaCadena
  <2>4. C \subseteq DOMAIN f /\ c \in C \ {u}
    BY <1>1, <1>6, <1>8, <2>2, <2>3, Recorrida DEF Eslabones
  <2>5. PICK K : /\ EsCadena(h, K) /\ Doble(h, K, u)
                 /\ K \subseteq C /\ \A d \in C \ K : d = c \/ f[d].isFree
    BY <1>6, <1>9, <2>2, <2>3, <2>4, ConsolidaCadena
  <2>6. Cadena' = K
    <3>1. EsCadena(cabeceras', Cadena')
      BY <1>1, <1>2, <1>4, <1>6, <1>10, <1>12, CadenaDespues DEF RecorreLaCadena
    <3>. QED BY <1>1, <2>5, <3>1, CadenaUnica
  <2>7. ASSUME NEW e \in vivos'
        PROVE  /\ e.cabecera \in K /\ ~h[e.cabecera].isFree
               /\ h[e.cabecera].nextAlloc = e.cabecera + TAMANIO_HEAP + e.tamanio
    <3>1. PICK d, t : d = e.cabecera /\ t = e.tamanio
      OBVIOUS
    <3>2. e \in vivos /\ e # b /\ d \in DOMAIN f /\ d \in Nat
      BY <1>2, <1>6, <1>7, <3>1 DEF Estructura
    <3>3. d \in C /\ ~f[d].isFree /\ f[d].nextAlloc = d + 9 + t
      BY <2>2, <3>1, <3>2 DEF Eslabones, TAMANIO_HEAP
    <3>4. d # c
      <4>1. SUFFICES ASSUME d = c PROVE FALSE
        OBVIOUS
      <4>2. PICK r : r = b.tamanio
        OBVIOUS
      <4>3. f[c].nextAlloc = c + 9 + r
        BY <1>1, <2>2, <4>2 DEF Eslabones, TAMANIO_HEAP
      <4>4. t \in Nat /\ r \in Nat
        BY <1>4, <1>7, <3>1, <3>2, <4>2, Tamanios DEF Comun
      <4>5. t = r
        BY <3>2, <3>3, <4>1, <4>3, <4>4
      <4>6. e = [cabecera |-> c, tamanio |-> r] /\ b = [cabecera |-> c, tamanio |-> r]
        BY <1>1, <1>7, <3>1, <3>2, <4>1, <4>2, <4>5
      <4>. QED BY <3>2, <4>6
    <3>5. d \in K /\ ~h[d].isFree
      BY <1>11, <2>5, <3>2, <3>3, <3>4
    <3>6. ASSUME NEW x, NEW y, NEW z, OtrosPunteros(f, h, x, y, z), f[x].isFree \/ x = c
          PROVE  h[d].nextAlloc = f[d].nextAlloc
      BY <3>2, <3>3, <3>4, <3>6 DEF OtrosPunteros
    <3>7. h[d].nextAlloc = f[d].nextAlloc
      <4>1. CASE MismosPunteros(f, h)
        BY <4>1, <3>2 DEF MismosPunteros
      <4>2. CASE FundeConAnterior(f, h, c)
        BY <4>2, <3>6 DEF FundeConAnterior
      <4>3. CASE FundeConSiguiente(f, h, c, u)
        BY <4>3, <3>6 DEF FundeConSiguiente
      <4>4. CASE FundeConAmbas(f, h, c, u)
        BY <4>4, <3>6 DEF FundeConAmbas
      <4>. QED BY <1>9, <4>1, <4>2, <4>3, <4>4 DEF Fusiones
    <3>. QED BY <3>1, <3>3, <3>5, <3>7 DEF TAMANIO_HEAP
  <2>8. Eslabones(h, K, vivos')
    BY <2>7 DEF Eslabones
  <2>. QED BY <1>1, <2>5, <2>6, <2>8
<1>19. Lleno(u)' /\ u \in DOMAIN cabeceras'
  BY <1>1, <1>2, <1>5, <1>6, <1>10, <1>12, <1>14, <1>15, <1>17, <1>18 DEF Lleno
<1>20. AveriasConocidas'
  BY <1>2, SinAveria
<1>. QED BY <1>4, <1>19, <1>20 DEF IInv

\* The only block: no other header is left between it and the last one.
LEMMA PasoLiberaTodo ==
  ASSUME IInv, NEW b \in vivos, LiberaTodo(b)
  PROVE  IInv'
<1>1. PICK c, f : c = b.cabecera /\ f = cabeceras
  OBVIOUS
<1>2. /\ averia = "no" /\ averia' = "no" /\ ~TieneAnterior(c) /\ ~TieneSegunda(c)
      /\ config' = config /\ reuso' = reuso
      /\ cabeceras' = <<>> /\ paginas' = 0 /\ primeraPag' = primeraPag + paginas - 1
      /\ vivos' = vivos \ {b}
  BY <1>1 DEF LiberaTodo
<1>3. PICK u \in DOMAIN cabeceras : Lleno(u)
  BY DEF IInv, Vacio
<1>4. /\ Estructura(f, u) /\ Lugares(f, vivos, u) /\ Primero(f, vivos) /\ paginas > 0
  BY <1>1, <1>2, <1>3 DEF Lleno
<1>5. /\ \A e \in vivos : e.cabecera \in DOMAIN f \ {u}
      /\ \A d \in DOMAIN f : d \in 0..u /\ u \in Nat
  BY <1>4 DEF Lugares, Estructura
<1>6. c = 0
  <2>1. f[c].prevAlloc = -1
    BY <1>1, <1>2 DEF TieneAnterior, Anterior
  <2>2. c \in DOMAIN f
    BY <1>1, <1>5
  <2>3. ASSUME c # 0 PROVE FALSE
    <3>1. f[c].prevAlloc \in DOMAIN f
      BY <1>4, <2>2, <2>3 DEF Estructura
    <3>. QED BY <1>5, <2>1, <3>1
  <2>. QED BY <2>3
<1>7. f[0].nextAlloc = u
  <2>1. PICK p : p = f[0].nextAlloc
    OBVIOUS
  <2>2. p \in DOMAIN f
    BY <1>1, <1>4, <1>5, <1>6, <2>1 DEF Estructura
  <2>3. f[p].nextAlloc = -1
    BY <1>1, <1>2, <1>6, <2>1 DEF TieneSegunda, Ultima, Posterior
  <2>4. ASSUME p # u PROVE FALSE
    <3>1. f[p].nextAlloc \in DOMAIN f
      BY <1>4, <2>2, <2>4 DEF Estructura
    <3>. QED BY <1>5, <2>3, <3>1
  <2>. QED BY <2>1, <2>4
<1>8. \A e \in vivos : e = b
  <2>1. ~f[0].isFree
    BY <1>1, <1>4, <1>6 DEF Primero
  <2>2. \A d \in DOMAIN f \ {0} : d >= u
    BY <1>4, <1>7, <2>1 DEF Primero
  <2>3. ASSUME NEW e \in vivos PROVE e.cabecera = 0
    <3>1. PICK d : d = e.cabecera
      OBVIOUS
    <3>2. d \in DOMAIN f \ {u} /\ d \in 0..u /\ u \in Nat
      BY <1>5, <3>1
    <3>. QED BY <2>2, <3>1, <3>2
  <2>. QED BY <1>1, <1>4, <1>6, <2>3 DEF Primero
<1>9. Vacio'
  BY <1>2, <1>8 DEF Vacio
<1>10. Comun'
  <2>1. paginas \in Nat /\ primeraPag \in Nat /\ MaxPaginas \in Nat
    BY Tamanios DEF IInv, Comun
  <2>2. primeraPag' \in Nat /\ paginas' \in 0..MaxPaginas
    BY <1>2, <1>4, <2>1
  <2>. QED BY <1>2, <2>2 DEF IInv, Comun
<1>11. AveriasConocidas'
  BY <1>2, SinAveria
<1>. QED BY <1>9, <1>10, <1>11 DEF IInv

LEMMA InicioIInv == Init => IInv
<1>1. SUFFICES ASSUME Init PROVE IInv
  OBVIOUS
<1>2. /\ config \in Configuraciones /\ paginas = 0 /\ primeraPag = 0
      /\ reuso = FALSE /\ averia = "no"
  BY <1>1 DEF Init
<1>3. Comun
  <2>1. paginas \in 0..MaxPaginas /\ primeraPag \in Nat
    BY <1>2, HeapOK
  <2>2. reuso \in BOOLEAN
    BY <1>2
  <2>. QED BY <1>2, <2>1, <2>2 DEF Comun
<1>4. Vacio
  BY <1>1 DEF Init, Vacio
<1>5. AveriasConocidas
  BY <1>2 DEF AveriasConocidas
<1>. QED BY <1>3, <1>4, <1>5 DEF IInv

LEMMA PasoIInv == IInv /\ [Next]_vars => IInv'
<1>1. SUFFICES ASSUME IInv, [Next]_vars PROVE IInv'
  OBVIOUS
<1>2. CASE PideSinPagina
  BY <1>1, <1>2, PasoPide
<1>3. ASSUME NEW t \in config.tamanios, PrimerAlloc(t) PROVE IInv'
  BY <1>1, <1>3, PasoPrimero
<1>4. ASSUME NEW t \in config.tamanios, ReusaHueco(t) PROVE IInv'
  BY <1>1, <1>4, PasoReusa
<1>5. ASSUME NEW t \in config.tamanios, crearAllocNuevo(t) PROVE IInv'
  BY <1>1, <1>5, PasoCrear
<1>6. ASSUME NEW b \in vivos, SeAveria(b) PROVE IInv'
  BY <1>1, <1>6, PasoAveria
<1>7. ASSUME NEW b \in vivos, liberar_alloc(b) PROVE IInv'
  BY <1>1, <1>7, PasoLibera
<1>8. ASSUME NEW b \in vivos, LiberaTodo(b) PROVE IInv'
  BY <1>1, <1>8, PasoLiberaTodo
<1>9. CASE UNCHANGED vars
  <2>1. UNCHANGED <<config, cabeceras, paginas, primeraPag, vivos, reuso, averia>>
    BY <1>9 DEF vars
  <2>2. Comun' /\ AveriasConocidas'
    BY <1>1, <2>1 DEF IInv, Comun, AveriasConocidas, Alineado, tamanioPagina
  <2>3. CASE Vacio
    BY <2>1, <2>2, <2>3 DEF IInv, Vacio
  <2>4. ASSUME NEW u \in DOMAIN cabeceras, Lleno(u) PROVE Lleno(u)'
    <3>1. /\ Techo(u + TAMANIO_HEAP)' = Techo(u + TAMANIO_HEAP)
          /\ Multiplos(cabeceras)' = Multiplos(cabeceras)
          /\ Lugares(cabeceras, vivos, u)' = Lugares(cabeceras, vivos, u)
          /\ Cadena' = Cadena
      BY <2>1 DEF Techo, tamanioPagina, Multiplos, Grano, Lugares, Cadena, siguiente
    <3>. QED BY <2>1, <2>4, <3>1 DEF Lleno
  <2>. QED BY <1>1, <2>1, <2>2, <2>3, <2>4 DEF IInv
<1>. QED BY <1>1, <1>2, <1>3, <1>4, <1>5, <1>6, <1>7, <1>8, <1>9 DEF Next

LEMMA SiempreIInv == Spec => []IInv
BY InicioIInv, PasoIInv, PTL DEF Spec

-----------------------------------------------------------------------------
(* What follows from it.                                                   *)

LEMMA TiposDeIInv == IInv => TypeOKHeap
<1>1. SUFFICES ASSUME IInv PROVE TypeOKHeap
  OBVIOUS
<1>2. Comun
  BY <1>1 DEF IInv
<1>3. CASE Vacio
  BY <1>2, <1>3 DEF Vacio, Comun, TypeOKHeap
<1>4. ASSUME NEW u \in DOMAIN cabeceras, Lleno(u) PROVE TypeOKHeap
  <2>1. Estructura(cabeceras, u)
    BY <1>4 DEF Lleno
  <2>2. PICK m : m = paginas * tamanioPagina
    OBVIOUS
  <2>3. u \in Nat /\ m \in Nat /\ u + 9 <= m
    BY <1>2, <1>4, <2>2, UltimaEntra DEF Lleno, TAMANIO_HEAP
  <2>4. ASSUME NEW c \in DOMAIN cabeceras
        PROVE  /\ c \in 0..(m - 1) /\ cabeceras[c].isFree \in BOOLEAN
               /\ cabeceras[c].prevAlloc \in {-1} \cup DOMAIN cabeceras
               /\ cabeceras[c].nextAlloc \in {-1} \cup DOMAIN cabeceras
    <3>1. c \in 0..u
      BY <2>1 DEF Estructura
    <3>2. cabeceras[c] \in Cabecera
      BY <2>1 DEF Estructura
    <3>3. cabeceras[c].isFree \in BOOLEAN
      BY <3>2 DEF Cabecera
    <3>4. cabeceras[c].prevAlloc \in {-1} \cup DOMAIN cabeceras
      BY <2>1 DEF Estructura
    <3>5. cabeceras[c].nextAlloc \in {-1} \cup DOMAIN cabeceras
      BY <2>1 DEF Estructura
    <3>. QED BY <2>3, <3>1, <3>3, <3>4, <3>5
  <2>. QED BY <1>2, <2>2, <2>4 DEF Comun, TypeOKHeap
<1>. QED BY <1>1, <1>3, <1>4 DEF IInv

LEMMA CadenaDeIInv == IInv => CadenaBienFormada /\ VivosEnCadena
<1>1. SUFFICES ASSUME IInv, averia = "no"
               PROVE  CadenaBienFormada /\ VivosEnCadena
  BY DEF CadenaBienFormada, VivosEnCadena
<1>2. Comun
  BY <1>1 DEF IInv
<1>3. CASE Vacio
  BY <1>2, <1>3 DEF Vacio, Comun, CadenaBienFormada, VivosEnCadena
<1>4. ASSUME NEW u \in DOMAIN cabeceras, Lleno(u) PROVE CadenaBienFormada /\ VivosEnCadena
  <2>1. Estructura(cabeceras, u) /\ EsCadena(cabeceras, Cadena)
    BY <1>2, <1>4, CadenaDeLleno DEF Lleno, RecorreLaCadena
  <2>2. /\ Cadena \subseteq DOMAIN cabeceras /\ u \in Cadena
        /\ cabeceras[0].prevAlloc = -1
    BY <2>1, Recorrida DEF Estructura
  <2>3. paginas = Techo(u + TAMANIO_HEAP) /\ cabeceras[u].isFree
    BY <1>4 DEF Lleno, Estructura
  <2>4. \A c \in DOMAIN cabeceras : c \in Nat
    BY <2>1 DEF Estructura
  <2>5. \A c \in DOMAIN cabeceras : Ultima(c) => c = u
    <3>1. TAKE c \in DOMAIN cabeceras
    <3>2. c # u => cabeceras[c].nextAlloc \in Nat
      BY <2>1, <2>4 DEF Estructura
    <3>. QED BY <3>2 DEF Ultima
  <2>6. \A c \in DOMAIN cabeceras \ {u} : Posterior(c) >= c + TAMANIO_HEAP
    BY <2>1 DEF Estructura, Posterior
  <2>7. \A c \in Cadena \ {u} : Anterior(Posterior(c)) = c \/ reuso
    BY <1>1, <1>4 DEF Lleno, Doble, Anterior, Posterior
  <2>8. Ultima(u)
    BY <2>1 DEF Estructura, Ultima
  <2>9. CadenaBienFormada
    BY <2>2, <2>3, <2>5, <2>6, <2>7, <2>8 DEF CadenaBienFormada
  <2>10. VivosEnCadena
    BY <1>1, <1>4 DEF Lleno, Eslabones, VivosEnCadena, Posterior
  <2>. QED BY <2>9, <2>10
<1>. QED BY <1>1, <1>3, <1>4 DEF IInv

\* The pieces r of a request that does not fit in its page q: they follow one
\* another, n - 1 whole pages between the first one, of f bytes, and the last
\* one, of e.
SonTramos(r, x, f, tam, p, q, n, e) ==
  /\ n > 0 /\ Len(r) = n + 1
  /\ r[1].posicion = x /\ r[1].bytes = f
  /\ \A k \in 2..n : r[k].posicion = (q + k - 1) * p /\ r[k].bytes = p
  /\ r[n + 1].posicion = (q + n) * p /\ r[n + 1].bytes = e
  /\ x + f = (q + 1) * p /\ x + tam = (q + n) * p + e

LEMMA Tramos ==
  ASSUME NEW p \in Nat \ {0}, p = tamanioPagina, NEW x \in Nat, NEW tam \in Nat,
         tam > PrimerosBytes(x), NEW r, r = recorrido(x, tam)
  PROVE  \E q \in Nat, n \in Nat, e \in 0..(p - 1) :
           SonTramos(r, x, PrimerosBytes(x), tam, p, q, n, e)
<1>1. PICK q, o : q = x \div p /\ o = x % p
  OBVIOUS
<1>2. q \in Nat /\ o \in 0..(p - 1) /\ x = q * p + o
  BY <1>1, Division
<1>3. PICK f : f = p - o
  OBVIOUS
<1>4. f \in Nat /\ f > 0 /\ PrimerosBytes(x) = f /\ tam > f
  <2>1. PrimerosBytes(x) = f
    BY <1>1, <1>3 DEF PrimerosBytes
  <2>. QED BY <2>1, <1>2, <1>3
<1>5. PICK d \in Nat : d = tam - f
  BY <1>4
<1>6. PICK m, e : m = d \div p /\ e = d % p
  OBVIOUS
<1>7. m \in Nat /\ e \in 0..(p - 1) /\ d = m * p + e
  BY <1>6, Division
<1>8. PICK n \in Nat : n = m + 1
  BY <1>7
<1>9. cantPaginas(x, tam) = n
  BY <1>4, <1>5, <1>6, <1>8 DEF cantPaginas
<1>10. PICK z, w : z = m * p /\ w = q * p
  OBVIOUS
<1>11. z \in Nat /\ w \in Nat
  BY <1>2, <1>7, <1>10
<1>12. n * p = z + p /\ (q + 1) * p = w + p /\ (q + n) * p = w + z + p
  <2>1. (m + 1) * p = m * p + p
    BY <1>7
  <2>2. (q + 1) * p = q * p + p
    BY <1>2
  <2>3. (q + (m + 1)) * p = q * p + m * p + p
    BY <1>2, <1>7
  <2>. QED BY <2>1, <2>2, <2>3, <1>8, <1>10
<1>13. p - (f + n * p - tam) = e
  BY <1>2, <1>3, <1>4, <1>5, <1>7, <1>10, <1>11, <1>12
<1>14. x + f = (q + 1) * p /\ x + tam = (q + n) * p + e
  <2>1. x = w + o /\ d = z + e
    BY <1>2, <1>7, <1>10
  <2>2. x + f = w + p
    BY <2>1, <1>2, <1>3, <1>11
  <2>3. tam = z + e + f
    BY <2>1, <1>4, <1>5, <1>7, <1>11
  <2>4. x + tam = w + z + p + e
    BY <2>2, <2>3, <1>4, <1>7, <1>11
  <2>. QED BY <2>2, <2>4, <1>7, <1>11, <1>12
<1>15. PICK A, M, B : /\ A = Pieza(x, f)
                      /\ M = [i \in 1..(n - 1) |-> Pieza((q + i) * p, p)]
                      /\ B = Pieza((q + n) * p, e)
  OBVIOUS
<1>16. r = <<A>> \o M \o <<B>>
  <2>1. ~(tam <= f)
    BY <1>4
  <2>. QED BY <2>1, <1>1, <1>4, <1>9, <1>13, <1>15 DEF recorrido
<1>17. PICK S : S = {A, B} \cup {M[i] : i \in 1..(n - 1)}
  OBVIOUS
<1>18. <<A>> \in Seq(S) /\ M \in Seq(S) /\ <<B>> \in Seq(S) /\ Len(M) = n - 1
  <2>1. n - 1 \in Nat
    BY <1>7, <1>8
  <2>2. M \in [1..(n - 1) -> S]
    BY <1>15, <1>17
  <2>3. M \in Seq(S) /\ Len(M) = n - 1
    BY <2>1, <2>2
  <2>. QED BY <2>3, <1>17
<1>19. PICK t : t = <<A>> \o M
  OBVIOUS
<1>20. /\ t \in Seq(S) /\ Len(t) = n /\ t[1] = A
       /\ \A k \in 2..n : t[k] = M[k - 1]
  <2>1. /\ t \in Seq(S) /\ Len(t) = 1 + (n - 1)
        /\ \A k \in 1..(1 + (n - 1)) : t[k] = IF k <= 1 THEN <<A>>[k] ELSE M[k - 1]
    BY <1>18, <1>19, ConcatProperties
  <2>2. 1 + (n - 1) = n /\ n >= 1
    BY <1>7, <1>8
  <2>. QED BY <2>1, <2>2
<1>21. /\ Len(r) = n + 1 /\ r[n + 1] = B
       /\ \A k \in 1..n : r[k] = t[k]
  <2>1. /\ Len(r) = n + 1
        /\ \A k \in 1..(n + 1) : r[k] = IF k <= n THEN t[k] ELSE <<B>>[k - n]
    BY <1>16, <1>18, <1>19, <1>20, ConcatProperties
  <2>. QED BY <2>1
<1>22. n > 0 /\ 1 \in 1..n
  BY <1>7, <1>8
<1>23. \A k \in 2..n : r[k].posicion = (q + k - 1) * p /\ r[k].bytes = p
  <2>1. TAKE k \in 2..n
  <2>2. PICK i \in 1..(n - 1) : i = k - 1
    OBVIOUS
  <2>3. r[k] = Pieza((q + i) * p, p)
    <3>1. M[i] = Pieza((q + i) * p, p)
      BY <1>15
    <3>2. r[k] = t[k]
      BY <1>21
    <3>3. t[k] = M[k - 1]
      BY <1>20
    <3>. QED BY <2>2, <3>1, <3>2, <3>3
  <2>4. q + i = q + k - 1
    BY <2>2, <1>2
  <2>. QED BY <2>3, <2>4 DEF Pieza
<1>24. /\ r[1].posicion = x /\ r[1].bytes = f
       /\ r[n + 1].posicion = (q + n) * p /\ r[n + 1].bytes = e
  BY <1>15, <1>20, <1>21, <1>22 DEF Pieza
<1>25. SonTramos(r, x, f, tam, p, q, n, e)
  BY <1>14, <1>21, <1>22, <1>23, <1>24 DEF SonTramos
<1>. QED BY <1>2, <1>4, <1>7, <1>25

\* A position below the end of the pages is in one of them.
LEMMA EnLasPaginas ==
  ASSUME NEW p \in Nat \ {0}, NEW n \in Nat, NEW y \in Nat, y < n * p
  PROVE  y \div p < n
<1>1. PICK q : q = y \div p
  OBVIOUS
<1>2. q \in Nat /\ y % p \in 0..(p - 1) /\ y = q * p + (y % p)
  BY <1>1, Division
<1>3. PICK z, w, o : z = q * p /\ w = n * p /\ o = y % p
  OBVIOUS
<1>4. z \in Nat /\ w \in Nat /\ o \in Nat /\ y = z + o
  BY <1>2, <1>3
<1>5. z < w
  BY <1>3, <1>4
<1>. QED BY <1>1, <1>2, <1>3, <1>5, MenosMultiplos

\* The property of a request, of which AccesoExacto asks in each block.
Exacto(x, tam) ==
  LET r == recorrido(x, tam)
      Fin(k) == r[k].posicion + r[k].bytes
  IN /\ r[1].posicion = x /\ Fin(Len(r)) = x + tam
     /\ \A k \in 1..(Len(r) - 1) : Fin(k) = r[k + 1].posicion
     /\ \A k \in 1..Len(r) : r[k].bytes >= 0 /\ r[k].posicion \div tamanioPagina < paginas

LEMMA RecorridoExacto ==
  ASSUME tamanioPagina \in Nat \ {0}, paginas \in Nat, NEW x \in Nat, NEW tam \in Nat,
         NEW m \in Nat, m = paginas * tamanioPagina, x + tam < m
  PROVE  Exacto(x, tam)
<1>1. PICK r, p : r = recorrido(x, tam) /\ p = tamanioPagina
  OBVIOUS
<1>2. \A y \in Nat : y < m => y \div p < paginas
  BY <1>1, EnLasPaginas
<1>3. CASE tam <= PrimerosBytes(x)
  <2>1. r = <<Pieza(x, tam)>>
    BY <1>1, <1>3 DEF recorrido
  <2>2. Len(r) = 1 /\ r[1].posicion = x /\ r[1].bytes = tam
    BY <2>1 DEF Pieza
  <2>3. x < m
    OBVIOUS
  <2>. QED BY <1>1, <1>2, <2>2, <2>3 DEF Exacto
<1>4. CASE tam > PrimerosBytes(x)
  <2>1. PICK f : f = PrimerosBytes(x)
    OBVIOUS
  <2>2. f \in Nat
    <3>1. x % p \in 0..(p - 1) /\ p \in Nat
      BY <1>1, Division
    <3>. QED BY <3>1, <1>1, <2>1 DEF PrimerosBytes
  <2>3. PICK q \in Nat, n \in Nat, e \in 0..(p - 1) : SonTramos(r, x, f, tam, p, q, n, e)
    <3>1. p \in Nat \ {0} /\ p = tamanioPagina /\ r = recorrido(x, tam)
      BY <1>1
    <3>2. \E q \in Nat, n \in Nat, e \in 0..(p - 1) : SonTramos(r, x, f, tam, p, q, n, e)
      BY <1>4, <2>1, <3>1, Tramos
    <3>. QED BY <3>2
  <2>4. /\ n > 0 /\ Len(r) = n + 1
        /\ r[1].posicion = x /\ r[1].bytes = f
        /\ \A k \in 2..n : r[k].posicion = (q + k - 1) * p /\ r[k].bytes = p
        /\ r[n + 1].posicion = (q + n) * p /\ r[n + 1].bytes = e
        /\ x + f = (q + 1) * p /\ x + tam = (q + n) * p + e
    BY <2>3 DEF SonTramos
  <2>5. p \in Nat \ {0} /\ e \in Nat
    BY <1>1, <2>4
  <2>6. ASSUME NEW k \in 2..n
        PROVE  /\ r[k].posicion + r[k].bytes = (q + k) * p
               /\ r[k].posicion \in Nat /\ r[k].posicion < m
    <3>1. PICK i \in Nat : i = q + k - 1
      BY <2>4
    <3>2. PICK w, v : w = i * p /\ v = (q + n) * p
      OBVIOUS
    <3>3. r[k].posicion = w /\ r[k].bytes = p
      BY <2>4, <3>1, <3>2
    <3>4. (i + 1) * p = w + p
      BY <3>1, <3>2, <2>5
    <3>5. i + 1 = q + k /\ i <= q + n
      BY <3>1, <2>4
    <3>6. w \in Nat /\ v \in Nat /\ w <= v
      BY <3>1, <3>2, <3>5, <2>4, <2>5, Producto
    <3>7. v + e < m
      BY <2>4, <3>2
    <3>. QED BY <3>3, <3>4, <3>5, <3>6, <3>7, <2>5
  <2>7. (q + n) * p \in Nat /\ (q + n) * p < m
    <3>1. PICK v : v = (q + n) * p
      OBVIOUS
    <3>2. v \in Nat /\ v + e < m
      BY <2>4, <2>5, <3>1
    <3>. QED BY <3>1, <3>2, <2>5
  <2>8. \A k \in 1..(n + 1) : k = 1 \/ k \in 2..n \/ k = n + 1
    BY <2>4
  <2>9. ASSUME NEW k \in 1..n PROVE r[k].posicion + r[k].bytes = r[k + 1].posicion
    <3>1. r[k].posicion + r[k].bytes = (q + k) * p
      BY <2>4, <2>6
    <3>2. r[k + 1].posicion = (q + k) * p
      <4>1. CASE k = n
        BY <4>1, <2>4
      <4>2. CASE k # n
        <5>1. PICK j \in 2..n : j = k + 1
          BY <4>2
        <5>2. r[j].posicion = (q + j - 1) * p
          BY <2>4
        <5>3. q + j - 1 = q + k
          BY <5>1, <2>4
        <5>. QED BY <5>1, <5>2, <5>3
      <4>. QED BY <4>1, <4>2
    <3>. QED BY <3>1, <3>2
  <2>10. ASSUME NEW k \in 1..(n + 1)
         PROVE  r[k].bytes >= 0 /\ r[k].posicion \in Nat /\ r[k].posicion < m
    <3>1. CASE k = 1
      BY <3>1, <2>2, <2>4
    <3>2. CASE k \in 2..n
      BY <3>2, <2>4, <2>5, <2>6
    <3>3. CASE k = n + 1
      BY <3>3, <2>4, <2>5, <2>7
    <3>. QED BY <3>1, <3>2, <3>3, <2>8
  <2>11. \A k \in 1..(n + 1) : r[k].posicion \div p < paginas
    BY <1>2, <2>10
  <2>12. r[n + 1].posicion + r[n + 1].bytes = x + tam
    BY <2>4
  <2>13. (n + 1) - 1 = n
    BY <2>4
  <2>. QED BY <1>1, <2>4, <2>9, <2>10, <2>11, <2>12, <2>13 DEF Exacto
<1>5. PrimerosBytes(x) \in Int
  <2>1. x % p \in 0..(p - 1) /\ p \in Nat
    BY <1>1, Division
  <2>. QED BY <2>1, <1>1 DEF PrimerosBytes
<1>. QED BY <1>3, <1>4, <1>5

LEMMA AccesoDeIInv == IInv => AccesoExacto
<1>1. SUFFICES ASSUME IInv, averia = "no",
                      NEW b \in vivos, NEW d \in 0..b.tamanio, NEW tam \in 0..(b.tamanio - d)
               PROVE  Exacto(b.cabecera + TAMANIO_HEAP + d, tam)
  BY DEF AccesoExacto, Exacto
<1>2. Comun
  BY <1>1 DEF IInv
<1>3. PICK u \in DOMAIN cabeceras : Lleno(u)
  BY <1>1 DEF IInv, Vacio
<1>4. PICK m : m = paginas * tamanioPagina
  OBVIOUS
<1>5. u \in Nat /\ m \in Nat /\ paginas \in Nat /\ u + 9 <= m
  BY <1>2, <1>3, <1>4, UltimaEntra DEF Lleno, TAMANIO_HEAP
<1>6. tamanioPagina \in Nat \ {0} /\ config.tamanios \subseteq Nat
  BY <1>2, Tamanios DEF Comun, TAMANIO_HEAP
<1>7. PICK c, t : c = b.cabecera /\ t = b.tamanio
  OBVIOUS
<1>8. c \in Nat /\ t \in Nat /\ c + 9 + t <= u
  <2>1. c \in DOMAIN cabeceras /\ t \in config.tamanios
    BY <1>1, <1>3, <1>7 DEF Lleno, Lugares
  <2>2. c + 9 + t <= u
    BY <1>1, <1>3, <1>7 DEF Lleno, Lugares, TAMANIO_HEAP
  <2>3. c \in Nat
    BY <1>3, <2>1 DEF Lleno, Estructura
  <2>. QED BY <2>1, <2>2, <2>3, <1>6
<1>9. d \in 0..t /\ tam \in 0..(t - d)
  BY <1>1, <1>7
<1>10. PICK x \in Nat : x = c + 9 + d
  BY <1>8, <1>9
<1>11. tam \in Nat /\ x + tam < m
  BY <1>5, <1>8, <1>9, <1>10
<1>12. Exacto(x, tam)
  BY <1>4, <1>5, <1>6, <1>11, RecorridoExacto
<1>. QED BY <1>7, <1>10, <1>12 DEF TAMANIO_HEAP

-----------------------------------------------------------------------------
(* The theorems.                                                           *)

\* The state has its types; in particular, whatever has been asked and freed,
\* and however the heap has broken, every header written begins within the pages
\* of the carpincho and points at headers that have been written.
THEOREM TiposDelHeap == Spec => []TypeOKHeap
BY SiempreIInv, TiposDeIInv, PTL

\* The chain of headers of administrar_paginas and consolidar_allocs is well
\* formed until the heap breaks: forward, as far as the only last header, with
\* the pages that one asks for, and linked both ways until a hole is given.
THEOREM CadenaSiempreBienFormada == Spec => []CadenaBienFormada
BY SiempreIInv, CadenaDeIInv, PTL

\* Until a hole is given, each block that memalloc has given and memfree has not
\* taken back has a header of its own in the chain, in use and of its size.
THEOREM VivosSiempreEnCadena == Spec => []VivosEnCadena
BY SiempreIInv, CadenaDeIInv, PTL

\* leer_memoria and escribir_memoria go through the bytes asked for exactly, for
\* any page size, any block and any part of it.
THEOREM AccesoSiempreExacto == Spec => []AccesoExacto
BY SiempreIInv, AccesoDeIInv, PTL

\* When blocks and headers are parts of a page, no header is cut nor written over.
THEOREM SoloAveriasConocidas == Spec => []AveriasConocidas
<1>1. IInv => AveriasConocidas
  BY DEF IInv
<1>. QED BY <1>1, SiempreIInv, PTL
=============================================================================
