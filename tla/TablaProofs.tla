----------------------------- MODULE TablaProofs -----------------------------
(***************************************************************************)
(* TablaDeSemaforos for any number of carpinchos, names and semaphores.    *)
(*                                                                         *)
(* The invariant adds to the types who waits where: the lists hold the     *)
(* blocked carpinchos, once each, and are as long as the values are below  *)
(* zero, in the destroyed semaphores too. What a name denotes is the first *)
(* position of a list: an entry added comes after it, and one taken out    *)
(* from before it only moves it down.                                      *)
(***************************************************************************)
EXTENDS TablaDeSemaforos, FiniteSetTheorems, SequenceTheorems,
        WellFoundedInduction, TLAPS

-----------------------------------------------------------------------------
(* First positions, and the lists without one element.                     *)

\* A set of natural numbers that is not empty has a least element.
LEMMA HayPrimera ==
  ASSUME NEW T, T \subseteq Nat, T # {}
  PROVE  \E i \in T : \A j \in T : i <= j
<1>1. IsWellFoundedOn(OpToRel(<, Nat), Nat)
  BY NatLessThanWellFounded
<1>2. PICK i \in T : \A j \in T : ~ (<<j, i>> \in OpToRel(<, Nat))
  BY <1>1, WFMin
<1>3. ASSUME NEW j \in T PROVE i <= j
  <2>1. i \in Nat /\ j \in Nat
    OBVIOUS
  <2>2. ~ (<<j, i>> \in OpToRel(<, Nat))
    BY <1>2
  <2>3. ~ (j < i)
    BY <2>1, <2>2 DEF OpToRel
  <2>. QED BY <2>1, <2>3
<1>. QED BY <1>3

\* RemoveFirst takes out the first entry and closes the gap.
LEMMA QuitaLaPrimera ==
  ASSUME NEW S, NEW s \in Seq(S), NEW e, \E i \in 1..Len(s) : s[i] = e
  PROVE  \E k \in 1..Len(s) :
           /\ s[k] = e
           /\ RemoveFirst(s, e) \in Seq(S)
           /\ Len(RemoveFirst(s, e)) = Len(s) - 1
           /\ \A i \in 1..(Len(s) - 1) :
                RemoveFirst(s, e)[i] = IF i < k THEN s[i] ELSE s[i + 1]
<1>. DEFINE I == {i \in 1..Len(s) : s[i] = e}
<1>1. I # {} /\ I \subseteq Nat
  OBVIOUS
<1>2. \E i \in I : \A j \in I : i <= j
  BY <1>1, HayPrimera
<1>3. Min(I) \in I
  BY <1>2 DEF Min
<1>4. PICK k : k = Min(I)
  OBVIOUS
<1>5. RemoveFirst(s, e) = RemoveAt(s, k)
  BY <1>1, <1>4 DEF RemoveFirst, SelectInSeq
<1>6. k \in 1..Len(s) /\ s[k] = e /\ Len(s) \in Nat
  BY <1>3, <1>4
<1>. HIDE DEF I
<1>. DEFINE r == RemoveAt(s, k)
            u == SubSeq(s, 1, k - 1)
            v == SubSeq(s, k + 1, Len(s))
<1>7. r = u \o v
  BY DEF RemoveAt
<1>8. /\ u \in Seq(S) /\ Len(u) = k - 1
      /\ v \in Seq(S) /\ Len(v) = Len(s) - k
  BY <1>6
<1>9. /\ \A j \in 1..(k - 1) : u[j] = s[j]
      /\ \A j \in 1..(Len(s) - k) : v[j] = s[k + j]
  BY <1>6
<1>. HIDE DEF r, u, v
<1>10. /\ r \in Seq(S)
       /\ \A j \in 1..(Len(u) + Len(v)) :
            r[j] = IF j <= Len(u) THEN u[j] ELSE v[j - Len(u)]
  BY <1>7, <1>8, ConcatProperties
<1>13. Len(r) = Len(s) - 1
  <2>1. Len(r) = Len(u) + Len(v)
    BY <1>7, <1>8, ConcatProperties
  <2>. QED BY <1>6, <1>8, <2>1
<1>11. ASSUME NEW i \in 1..(Len(s) - 1)
       PROVE  r[i] = IF i < k THEN s[i] ELSE s[i + 1]
  <2>1. i \in 1..(Len(u) + Len(v)) /\ Len(u) = k - 1
    BY <1>6, <1>8
  <2>2. CASE i < k
    <3>1. i \in 1..(k - 1) /\ i <= Len(u)
      BY <2>1, <2>2, <1>6
    <3>. QED BY <1>9, <1>10, <2>1, <2>2, <3>1
  <2>3. CASE ~(i < k)
    <3>1. PICK j \in 1..(Len(s) - k) : j = i - Len(u) /\ k + j = i + 1
      BY <2>1, <2>3, <1>6
    <3>2. ~(i <= Len(u))
      BY <2>1, <2>3, <1>6
    <3>. QED BY <1>9, <1>10, <2>1, <2>3, <3>1, <3>2
  <2>. QED BY <2>2, <2>3
<1>12. r = RemoveFirst(s, e)
  BY <1>5 DEF r
<1>. QED BY <1>6, <1>10, <1>11, <1>12, <1>13

\* Of a list without repetitions, it leaves all the other entries.
LEMMA QuitaUna ==
  ASSUME NEW S, NEW s \in Seq(S), IsInjective(s), NEW e,
         \E i \in 1..Len(s) : s[i] = e
  PROVE  /\ RemoveFirst(s, e) \in Seq(S)
         /\ IsInjective(RemoveFirst(s, e))
         /\ ToSet(RemoveFirst(s, e)) = ToSet(s) \ {e}
<1>1. PICK k \in 1..Len(s) :
        /\ s[k] = e
        /\ RemoveFirst(s, e) \in Seq(S)
        /\ Len(RemoveFirst(s, e)) = Len(s) - 1
        /\ \A i \in 1..(Len(s) - 1) :
             RemoveFirst(s, e)[i] = IF i < k THEN s[i] ELSE s[i + 1]
  BY QuitaLaPrimera
<1>2. PICK r : r = RemoveFirst(s, e)
  OBVIOUS
<1>3. /\ Len(s) \in Nat /\ DOMAIN s = 1..Len(s)
      /\ \A i \in 1..Len(s), j \in 1..Len(s) : s[i] = s[j] => i = j
  BY DEF IsInjective
<1>4. /\ r \in Seq(S) /\ DOMAIN r = 1..(Len(s) - 1)
      /\ \A i \in 1..(Len(s) - 1) : r[i] = IF i < k THEN s[i] ELSE s[i + 1]
  BY <1>1, <1>2
<1>5. \A i \in 1..(Len(s) - 1) :
        \E j \in 1..Len(s) : /\ r[i] = s[j] /\ j # k
                             /\ j = IF i < k THEN i ELSE i + 1
  BY <1>3, <1>4
<1>6. IsInjective(r)
  <2>1. ASSUME NEW i \in 1..(Len(s) - 1), NEW j \in 1..(Len(s) - 1), r[i] = r[j]
        PROVE  i = j
    BY <1>3, <1>5, <2>1
  <2>. QED BY <1>4, <2>1 DEF IsInjective
<1>7. ASSUME NEW x \in ToSet(r) PROVE x \in ToSet(s) /\ x # e
  <2>1. PICK i \in 1..(Len(s) - 1) : r[i] = x
    BY <1>4 DEF ToSet
  <2>2. PICK j \in 1..Len(s) : r[i] = s[j] /\ j # k
    BY <1>5
  <2>. QED BY <1>1, <1>3, <2>1, <2>2 DEF ToSet
<1>8. ASSUME NEW x \in ToSet(s), x # e PROVE x \in ToSet(r)
  <2>1. PICK i \in 1..Len(s) : s[i] = x
    BY <1>3 DEF ToSet
  <2>2. CASE i < k
    <3>1. i \in 1..(Len(s) - 1) /\ r[i] = x
      BY <1>3, <1>4, <2>1, <2>2
    <3>. QED BY <1>4, <3>1 DEF ToSet
  <2>3. CASE i > k
    <3>1. i - 1 \in 1..(Len(s) - 1) /\ ~(i - 1 < k) /\ (i - 1) + 1 = i
      BY <1>3, <2>3
    <3>2. r[i - 1] = x
      BY <1>4, <2>1, <3>1
    <3>. QED BY <1>4, <3>1, <3>2 DEF ToSet
  <2>. QED BY <1>1, <1>3, <1>8, <2>1, <2>2, <2>3
<1>. QED BY <1>1, <1>2, <1>6, <1>7, <1>8

-----------------------------------------------------------------------------
(* What a name denotes.                                                    *)

\* k is the first position of s whose entry has the name n.
EsPrimera(s, nm, n, k) ==
  /\ k \in 1..Len(s)
  /\ nm[s[k]] = n
  /\ \A j \in 1..Len(s) : nm[s[j]] = n => k <= j

\* Busca, of any table.
Primera(s, nm, n) ==
  LET hallados == {i \in 1..Len(s) : nm[s[i]] = n}
  IN IF hallados = {} THEN Nulo
     ELSE s[CHOOSE i \in hallados : \A j \in hallados : i <= j]

\* A lookup gives the entry at the first position of the name, if any.
LEMMA PrimeraEsLaPrimera ==
  ASSUME NEW s, Len(s) \in Nat, NEW nm, NEW n
  PROVE  \/ /\ \A i \in 1..Len(s) : nm[s[i]] # n
            /\ Primera(s, nm, n) = Nulo
         \/ \E k : EsPrimera(s, nm, n, k) /\ Primera(s, nm, n) = s[k]
<1>. DEFINE T == {i \in 1..Len(s) : nm[s[i]] = n}
            m == CHOOSE i \in T : \A j \in T : i <= j
<1>1. CASE T = {}
  BY <1>1 DEF Primera
<1>2. CASE T # {}
  <2>1. T \subseteq Nat
    OBVIOUS
  <2>2. \E i \in T : \A j \in T : i <= j
    BY <1>2, <2>1, HayPrimera
  <2>3. m \in T /\ \A j \in T : m <= j
    BY <2>2
  <2>4. Primera(s, nm, n) = s[m]
    BY <1>2 DEF Primera
  <2>. HIDE DEF m
  <2>5. EsPrimera(s, nm, n, m)
    BY <2>3 DEF EsPrimera
  <2>. QED BY <2>4, <2>5
<1>. QED BY <1>1, <1>2

\* There is one first position at most.
LEMMA PrimeraUnica ==
  ASSUME NEW s, NEW nm, NEW n, NEW k, NEW l, Len(s) \in Nat,
         EsPrimera(s, nm, n, k), EsPrimera(s, nm, n, l)
  PROVE  k = l
<1>1. k <= l /\ l <= k /\ k \in Nat /\ l \in Nat
  BY DEF EsPrimera
<1>. QED BY <1>1

\* Before and after a step.
LEMMA BuscaEsPrimera ==
  \A n : /\ Busca(n) = Primera(semaforosActuales, nombre, n)
         /\ Busca(n)' = Primera(semaforosActuales', nombre', n)
BY DEF Busca, Primera

-----------------------------------------------------------------------------
(* The inductive invariant.                                                *)

\* The semaphores that have ever been created.
Creados == 0..(valorIdSemaforos - 1)

\* While the kernel runs, a thread goes on with a semaphore that was created.
UsosValidos ==
  ~caido => \A c \in Carpinchos :
    llamada[c] \in {"wait", "signal"} => semaforoActual[c] \in Creados

\* The lists E of the semaphores D hold the carpinchos W, once each.
Ordenadas(E, D, W) ==
  /\ \A s \in D, t \in D : \A i \in 1..Len(E[s]), j \in 1..Len(E[t]) :
       E[s][i] = E[t][j] => s = t /\ i = j
  /\ \A c \in Carpinchos :
       c \in W <=> \E s \in D : \E i \in 1..Len(E[s]) : E[s][i] = c

\* The carpinchos that wait are in one list, once, and nobody else is.
Bloqueados == {c \in Carpinchos : llamada[c] = "bloqueado"}
EsperaOrdenada == Ordenadas(listaDeProcesosEnEspera, Creados, Bloqueados)

\* Of every semaphore, the destroyed ones too.
ValorCuadra ==
  \A s \in Creados :
    Len(listaDeProcesosEnEspera[s]) = (IF valor[s] < 0 THEN -valor[s] ELSE 0)

InvTabla == TypeOK /\ UsosValidos /\ EsperaOrdenada /\ ValorCuadra

\* What a lookup finds is a semaphore of the table.
LEMMA BuscaEnTabla ==
  ASSUME TypeOK, NEW n, Busca(n) # Nulo
  PROVE  /\ Busca(n) \in Creados
         /\ \E i \in 1..Len(semaforosActuales) : semaforosActuales[i] = Busca(n)
<1>1. Len(semaforosActuales) \in Nat
  BY DEF TypeOK
<1>2. PICK k : /\ EsPrimera(semaforosActuales, nombre, n, k)
               /\ Busca(n) = semaforosActuales[k]
  BY <1>1, PrimeraEsLaPrimera, BuscaEsPrimera
<1>. QED BY <1>2 DEF EsPrimera, TypeOK, Creados

LEMMA InvTablaInit == Init => InvTabla
<1>. SUFFICES ASSUME Init PROVE InvTabla
  OBVIOUS
<1>1. valorIdSemaforos = 0 /\ Creados = {} /\ 0..(valorIdSemaforos - 1) = {}
  BY DEF Init, Creados
<1>2. UsosValidos /\ EsperaOrdenada /\ ValorCuadra
  BY <1>1 DEF Init, UsosValidos, EsperaOrdenada, Ordenadas, Bloqueados, ValorCuadra
<1>3. TypeOK
  <2>1. /\ nombre \in [{} -> Nombres] /\ valor \in [{} -> Int]
        /\ listaDeProcesosEnEspera \in [{} -> Seq(Carpinchos)]
    BY DEF Init
  <2>2. semaforosActuales \in Seq({}) /\ ToSet(semaforosActuales) = {}
        /\ IsInjective(semaforosActuales)
    BY DEF Init, ToSet, IsInjective
  <2>3. nombreSem \in [Carpinchos -> Nombres]
    BY TablaOK DEF Init
  <2>4. valorIdSemaforos \in 0..MaxSem
    BY <1>1, TablaOK
  <2>. QED BY <1>1, <2>1, <2>2, <2>3, <2>4 DEF Init, TypeOK
<1>. QED BY <1>2, <1>3 DEF InvTabla

\* A wait, on a semaphore that was created.
LEMMA PasoDeWait ==
  ASSUME InvTabla, NEW c \in Carpinchos, Wait(c)
  PROVE  \E s \in Creados :
           /\ s = semaforoActual[c] /\ llamada[c] = "wait"
           /\ valor' = [valor EXCEPT ![s] = valor[s] - 1]
           /\ semaforoActual' = [semaforoActual EXCEPT ![c] = Nulo]
           /\ \/ /\ valor[s] - 1 < 0
                 /\ listaDeProcesosEnEspera' =
                      [listaDeProcesosEnEspera EXCEPT
                         ![s] = Append(listaDeProcesosEnEspera[s], c)]
                 /\ llamada' = [llamada EXCEPT ![c] = "bloqueado"]
              \/ /\ ~(valor[s] - 1 < 0)
                 /\ listaDeProcesosEnEspera' = listaDeProcesosEnEspera
                 /\ llamada' = [llamada EXCEPT ![c] = "ninguna"]
           /\ UNCHANGED <<semaforosActuales, valorIdSemaforos, nombre,
                          destruidos, nombreSem, caido>>
<1>1. PICK s : s = semaforoActual[c]
  OBVIOUS
<1>2. s \in Creados /\ llamada[c] = "wait"
  BY <1>1 DEF InvTabla, UsosValidos, Wait, Usa
<1>. QED BY <1>1, <1>2 DEF Wait, Usa, SeBloquea, tabla

\* A signal, on a semaphore that was created.
LEMMA PasoDeSignal ==
  ASSUME InvTabla, NEW c \in Carpinchos, Signal(c)
  PROVE  \E s \in Creados :
           /\ s = semaforoActual[c] /\ llamada[c] = "signal"
           /\ valor' = [valor EXCEPT ![s] = valor[s] + 1]
           /\ semaforoActual' = [semaforoActual EXCEPT ![c] = Nulo]
           /\ \/ /\ listaDeProcesosEnEspera[s] # <<>>
                 /\ listaDeProcesosEnEspera' =
                      [listaDeProcesosEnEspera EXCEPT
                         ![s] = Tail(listaDeProcesosEnEspera[s])]
                 /\ llamada' = [llamada EXCEPT ![c] = "ninguna",
                                  ![Head(listaDeProcesosEnEspera[s])] = "ninguna"]
              \/ /\ listaDeProcesosEnEspera[s] = <<>>
                 /\ listaDeProcesosEnEspera' = listaDeProcesosEnEspera
                 /\ llamada' = [llamada EXCEPT ![c] = "ninguna"]
           /\ UNCHANGED <<semaforosActuales, valorIdSemaforos, nombre,
                          destruidos, nombreSem, caido>>
<1>1. PICK s : s = semaforoActual[c]
  OBVIOUS
<1>2. s \in Creados /\ llamada[c] = "signal"
  BY <1>1 DEF InvTabla, UsosValidos, Signal, Usa
<1>. QED BY <1>1, <1>2 DEF Signal, Usa, tabla

LEMMA TypeOKNext == InvTabla /\ [Next]_vars => TypeOK'
<1>. SUFFICES ASSUME InvTabla, [Next]_vars PROVE TypeOK'
  OBVIOUS
<1>t. TypeOK /\ UsosValidos
  BY DEF InvTabla
<1>. DEFINE v == valorIdSemaforos
<1>1. ASSUME NEW c \in Carpinchos, NEW n \in Nombres, BuscaParaCrear(c, n)
      PROVE  TypeOK'
  BY <1>1, <1>t DEF BuscaParaCrear, TypeOK, tabla
<1>2. ASSUME NEW c \in Carpinchos, NEW w \in Valores, Crea(c, w)
      PROVE  TypeOK'
  <2>1. /\ v \in Nat /\ v' \in 0..MaxSem /\ v' = v + 1 /\ 0..(v' - 1) = 0..v
        /\ w \in Int
    BY <1>2, <1>t, TablaOK DEF Crea, TypeOK
  <2>2. /\ semaforosActuales \in Seq(0..(v - 1))
        /\ semaforosActuales' = Append(semaforosActuales, v)
        /\ IsInjective(semaforosActuales)
    BY <1>2, <1>t DEF Crea, TypeOK
  <2>3. /\ Len(semaforosActuales) \in Nat
        /\ Len(semaforosActuales') = Len(semaforosActuales) + 1
        /\ \A i \in 1..Len(semaforosActuales) :
             /\ semaforosActuales'[i] = semaforosActuales[i]
             /\ semaforosActuales[i] \in 0..(v - 1)
        /\ semaforosActuales'[Len(semaforosActuales) + 1] = v
        /\ DOMAIN semaforosActuales = 1..Len(semaforosActuales)
        /\ DOMAIN semaforosActuales' = 1..(Len(semaforosActuales) + 1)
    BY <2>1, <2>2
  <2>4. semaforosActuales' \in Seq(0..(v' - 1))
    BY <2>1, <2>2
  <2>5. IsInjective(semaforosActuales')
    BY <2>1, <2>2, <2>3 DEF IsInjective
  <2>6. ToSet(semaforosActuales') = ToSet(semaforosActuales) \cup {v}
    BY <2>1, <2>2, <2>3 DEF ToSet
  <2>7. destruidos' = (0..(v' - 1)) \ ToSet(semaforosActuales')
    BY <1>2, <1>t, <2>1, <2>6 DEF Crea, TypeOK
  <2>8. nombre' \in [0..(v' - 1) -> Nombres]
    BY <1>2, <1>t, <2>1 DEF Crea, TypeOK
  <2>9. valor' \in [0..(v' - 1) -> Int]
    BY <1>2, <1>t, <2>1 DEF Crea, TypeOK
  <2>10. listaDeProcesosEnEspera' \in [0..(v' - 1) -> Seq(Carpinchos)]
    BY <1>2, <1>t, <2>1 DEF Crea, TypeOK
  <2>. QED BY <1>2, <1>t, <2>1, <2>4, <2>5, <2>7, <2>8, <2>9, <2>10 DEF Crea, TypeOK
<1>3. ASSUME NEW c \in Carpinchos, NEW n \in Nombres, Destruye(c, n)
      PROVE  TypeOK'
  <2>1. PICK e : /\ e = Busca(n) /\ e \in Creados
                 /\ \E i \in 1..Len(semaforosActuales) : semaforosActuales[i] = e
    BY <1>3, <1>t, BuscaEnTabla DEF Destruye
  <2>2. /\ semaforosActuales' = RemoveFirst(semaforosActuales, e)
        /\ destruidos' = destruidos \cup {e} /\ v' = v
    BY <1>3, <2>1 DEF Destruye
  <2>3. semaforosActuales \in Seq(0..(v - 1)) /\ IsInjective(semaforosActuales)
    BY <1>t DEF TypeOK
  <2>4. /\ semaforosActuales' \in Seq(0..(v - 1)) /\ IsInjective(semaforosActuales')
        /\ ToSet(semaforosActuales') = ToSet(semaforosActuales) \ {e}
    BY <2>1, <2>2, <2>3, QuitaUna
  <2>5. destruidos' = (0..(v' - 1)) \ ToSet(semaforosActuales')
    BY <1>t, <2>1, <2>2, <2>4 DEF TypeOK, Creados
  <2>. QED BY <1>3, <1>t, <2>2, <2>4, <2>5 DEF Destruye, TypeOK, hilo
<1>4. ASSUME NEW c \in Carpinchos, NEW n \in Nombres, BuscaParaUsar(c, n)
      PROVE  TypeOK'
  <2>1. Busca(n) \in Ids
    BY <1>4, <1>t, BuscaEnTabla, TablaOK DEF BuscaParaUsar, Creados, Ids, TypeOK
  <2>. QED BY <1>4, <1>t, <2>1 DEF BuscaParaUsar, TypeOK, tabla
<1>5. ASSUME NEW c \in Carpinchos, Wait(c) PROVE TypeOK'
  <2>1. PICK s \in Creados :
          /\ s = semaforoActual[c] /\ llamada[c] = "wait"
          /\ valor' = [valor EXCEPT ![s] = valor[s] - 1]
          /\ semaforoActual' = [semaforoActual EXCEPT ![c] = Nulo]
          /\ \/ /\ valor[s] - 1 < 0
                /\ listaDeProcesosEnEspera' =
                     [listaDeProcesosEnEspera EXCEPT
                        ![s] = Append(listaDeProcesosEnEspera[s], c)]
                /\ llamada' = [llamada EXCEPT ![c] = "bloqueado"]
             \/ /\ ~(valor[s] - 1 < 0)
                /\ listaDeProcesosEnEspera' = listaDeProcesosEnEspera
                /\ llamada' = [llamada EXCEPT ![c] = "ninguna"]
          /\ UNCHANGED <<semaforosActuales, valorIdSemaforos, nombre,
                         destruidos, nombreSem, caido>>
    BY <1>5, PasoDeWait
  <2>2. valor' \in [0..(v - 1) -> Int]
    <3>1. valor[s] \in Int /\ valor[s] - 1 \in Int
      BY <1>t DEF TypeOK, Creados
    <3>. QED BY <1>t, <2>1, <3>1 DEF TypeOK
  <2>3. listaDeProcesosEnEspera' \in [0..(v - 1) -> Seq(Carpinchos)]
    <3>1. listaDeProcesosEnEspera[s] \in Seq(Carpinchos)
      BY <1>t, <2>1 DEF TypeOK, Creados
    <3>2. Append(listaDeProcesosEnEspera[s], c) \in Seq(Carpinchos)
      BY <3>1
    <3>. QED BY <1>t, <2>1, <3>2 DEF TypeOK
  <2>4. /\ llamada' \in [Carpinchos -> {"ninguna", "crea", "wait", "signal",
                                        "bloqueado", "perdido"}]
        /\ semaforoActual' \in [Carpinchos -> Ids \cup {Nulo}]
    BY <1>t, <2>1 DEF TypeOK
  <2>. QED BY <1>t, <2>1, <2>2, <2>3, <2>4 DEF TypeOK
<1>6. ASSUME NEW c \in Carpinchos, Signal(c) PROVE TypeOK'
  <2>1. PICK s \in Creados :
          /\ s = semaforoActual[c] /\ llamada[c] = "signal"
          /\ valor' = [valor EXCEPT ![s] = valor[s] + 1]
          /\ semaforoActual' = [semaforoActual EXCEPT ![c] = Nulo]
          /\ \/ /\ listaDeProcesosEnEspera[s] # <<>>
                /\ listaDeProcesosEnEspera' =
                     [listaDeProcesosEnEspera EXCEPT
                        ![s] = Tail(listaDeProcesosEnEspera[s])]
                /\ llamada' = [llamada EXCEPT ![c] = "ninguna",
                                 ![Head(listaDeProcesosEnEspera[s])] = "ninguna"]
             \/ /\ listaDeProcesosEnEspera[s] = <<>>
                /\ listaDeProcesosEnEspera' = listaDeProcesosEnEspera
                /\ llamada' = [llamada EXCEPT ![c] = "ninguna"]
          /\ UNCHANGED <<semaforosActuales, valorIdSemaforos, nombre,
                         destruidos, nombreSem, caido>>
    BY <1>6, PasoDeSignal
  <2>2. valor' \in [0..(v - 1) -> Int]
    <3>1. valor[s] \in Int /\ valor[s] + 1 \in Int
      BY <1>t DEF TypeOK, Creados
    <3>. QED BY <1>t, <2>1, <3>1 DEF TypeOK
  <2>3. listaDeProcesosEnEspera' \in [0..(v - 1) -> Seq(Carpinchos)]
    <3>1. listaDeProcesosEnEspera[s] \in Seq(Carpinchos)
      BY <1>t, <2>1 DEF TypeOK, Creados
    <3>2. listaDeProcesosEnEspera[s] # <<>>
            => Tail(listaDeProcesosEnEspera[s]) \in Seq(Carpinchos)
      BY <3>1
    <3>. QED BY <1>t, <2>1, <3>2 DEF TypeOK
  <2>4. /\ llamada' \in [Carpinchos -> {"ninguna", "crea", "wait", "signal",
                                        "bloqueado", "perdido"}]
        /\ semaforoActual' \in [Carpinchos -> Ids \cup {Nulo}]
    BY <1>t, <2>1 DEF TypeOK
  <2>. QED BY <1>t, <2>1, <2>2, <2>3, <2>4 DEF TypeOK
<1>7. ASSUME NEW c \in Carpinchos, UsaLiberado(c) PROVE TypeOK'
  BY <1>7, <1>t DEF UsaLiberado, TypeOK, tabla
<1>8. CASE UNCHANGED vars
  BY <1>8, <1>t DEF vars, TypeOK
<1>. QED BY <1>1, <1>2, <1>3, <1>4, <1>5, <1>6, <1>7, <1>8 DEF Next

\* One more waits, at the end of a list.
LEMMA EntraUno ==
  ASSUME NEW D, NEW E \in [D -> Seq(Carpinchos)], NEW W, Ordenadas(E, D, W),
         NEW s \in D, NEW c \in Carpinchos, c \notin W
  PROVE  Ordenadas([E EXCEPT ![s] = Append(E[s], c)], D, W \cup {c})
<1>1. PICK F : F = [E EXCEPT ![s] = Append(E[s], c)]
  OBVIOUS
<1>2. /\ Len(E[s]) \in Nat /\ Len(F[s]) = Len(E[s]) + 1
      /\ F[s][Len(E[s]) + 1] = c
      /\ \A i \in 1..Len(E[s]) : F[s][i] = E[s][i]
      /\ \A t \in D : t # s => F[t] = E[t]
  BY <1>1
<1>3. \A t \in D : \A i \in 1..Len(E[t]) : E[t][i] # c /\ E[t][i] \in Carpinchos
  BY DEF Ordenadas
<1>4. \A t \in D : \A i \in 1..Len(F[t]) :
        \/ i \in 1..Len(E[t]) /\ F[t][i] = E[t][i]
        \/ t = s /\ i = Len(E[s]) + 1 /\ F[t][i] = c
  BY <1>2
<1>5. ASSUME NEW t \in D, NEW u \in D, NEW i \in 1..Len(F[t]), NEW j \in 1..Len(F[u]),
             F[t][i] = F[u][j]
      PROVE  t = u /\ i = j
  <2>1. CASE F[t][i] = c
    <3>1. t = s /\ i = Len(E[s]) + 1
      BY <1>3, <1>4, <2>1
    <3>2. u = s /\ j = Len(E[s]) + 1
      BY <1>3, <1>4, <1>5, <2>1
    <3>. QED BY <3>1, <3>2
  <2>2. CASE F[t][i] # c
    <3>1. /\ i \in 1..Len(E[t]) /\ F[t][i] = E[t][i]
          /\ j \in 1..Len(E[u]) /\ F[u][j] = E[u][j]
      BY <1>4, <1>5, <2>2
    <3>2. E[t][i] = E[u][j]
      BY <1>5, <3>1
    <3>. QED BY <3>1, <3>2 DEF Ordenadas
  <2>. QED BY <2>1, <2>2
<1>6. ASSUME NEW d \in Carpinchos
      PROVE  d \in W \cup {c} <=> \E t \in D : \E i \in 1..Len(F[t]) : F[t][i] = d
  <2>1. ASSUME NEW t \in D, NEW i \in 1..Len(F[t]), F[t][i] = d
        PROVE  d \in W \cup {c}
    BY <1>4, <2>1 DEF Ordenadas
  <2>2. CASE d = c
    BY <1>2, <2>2
  <2>3. CASE d \in W
    <3>1. PICK t \in D : \E i \in 1..Len(E[t]) : E[t][i] = d
      BY <2>3 DEF Ordenadas
    <3>2. PICK i \in 1..Len(E[t]) : E[t][i] = d
      BY <3>1
    <3>3. i \in 1..Len(F[t]) /\ F[t][i] = d
      BY <1>2, <3>2
    <3>. QED BY <2>3, <3>3
  <2>. QED BY <2>1, <2>2, <2>3
<1>7. Ordenadas(F, D, W \cup {c})
  BY <1>5, <1>6 DEF Ordenadas
<1>. QED BY <1>1, <1>7

\* The first of a list waits no more.
LEMMA SaleUno ==
  ASSUME NEW D, NEW E \in [D -> Seq(Carpinchos)], NEW W, Ordenadas(E, D, W),
         NEW s \in D, E[s] # <<>>
  PROVE  /\ Head(E[s]) \in Carpinchos /\ Head(E[s]) \in W
         /\ Ordenadas([E EXCEPT ![s] = Tail(E[s])], D, W \ {Head(E[s])})
<1>1. PICK F : F = [E EXCEPT ![s] = Tail(E[s])]
  OBVIOUS
<1>2. PICK q : q = Head(E[s])
  OBVIOUS
<1>3. /\ E[s] \in Seq(Carpinchos) /\ Len(E[s]) \in Nat /\ 1 \in 1..Len(E[s])
      /\ q = E[s][1] /\ q \in Carpinchos
  BY <1>2
<1>4. q \in W
  BY <1>3 DEF Ordenadas
<1>5. /\ Len(F[s]) = Len(E[s]) - 1
      /\ \A i \in 1..(Len(E[s]) - 1) : F[s][i] = E[s][i + 1]
      /\ \A t \in D : t # s => F[t] = E[t]
  BY <1>1, <1>3
<1>6. \A t \in D : \A i \in 1..Len(F[t]) :
        IF t = s THEN i + 1 \in 1..Len(E[s]) /\ F[t][i] = E[s][i + 1] /\ i \in Nat
                 ELSE i \in 1..Len(E[t]) /\ F[t][i] = E[t][i]
  BY <1>3, <1>5
<1>7. ASSUME NEW t \in D, NEW u \in D, NEW i \in 1..Len(F[t]), NEW j \in 1..Len(F[u]),
             F[t][i] = F[u][j]
      PROVE  t = u /\ i = j
  <2>1. CASE t = s /\ u = s
    <3>1. i + 1 = j + 1 /\ i \in Nat /\ j \in Nat
      BY <1>6, <1>7, <2>1 DEF Ordenadas
    <3>. QED BY <2>1, <3>1
  <2>2. CASE ~(t = s /\ u = s)
    BY <1>6, <1>7, <2>2 DEF Ordenadas
  <2>. QED BY <2>1, <2>2
<1>8. ASSUME NEW d \in Carpinchos
      PROVE  d \in W \ {q} <=> \E t \in D : \E i \in 1..Len(F[t]) : F[t][i] = d
  <2>1. ASSUME NEW t \in D, NEW i \in 1..Len(F[t]), F[t][i] = d
        PROVE  d \in W \ {q}
    <3>1. CASE t = s
      <4>1. i + 1 \in 1..Len(E[s]) /\ d = E[s][i + 1] /\ i + 1 # 1
        BY <1>3, <1>6, <2>1, <3>1
      <4>. QED BY <1>3, <4>1 DEF Ordenadas
    <3>2. CASE t # s
      BY <1>3, <1>6, <2>1, <3>2 DEF Ordenadas
    <3>. QED BY <3>1, <3>2
  <2>2. ASSUME d \in W, d # q
        PROVE  \E t \in D : \E i \in 1..Len(F[t]) : F[t][i] = d
    <3>1. PICK t \in D : \E i \in 1..Len(E[t]) : E[t][i] = d
      BY <2>2 DEF Ordenadas
    <3>2. PICK i \in 1..Len(E[t]) : E[t][i] = d
      BY <3>1
    <3>3. CASE t = s
      <4>1. i - 1 \in 1..(Len(E[s]) - 1) /\ (i - 1) + 1 = i
        BY <1>3, <2>2, <3>2, <3>3
      <4>2. F[t][i - 1] = d /\ i - 1 \in 1..Len(F[t])
        BY <1>5, <3>2, <3>3, <4>1
      <4>. QED BY <4>2
    <3>4. CASE t # s
      BY <1>5, <3>2, <3>4
    <3>. QED BY <3>3, <3>4
  <2>. QED BY <2>1, <2>2
<1>9. Ordenadas(F, D, W \ {q})
  BY <1>7, <1>8 DEF Ordenadas
<1>. QED BY <1>1, <1>2, <1>3, <1>4, <1>9

\* A semaphore nobody waits in is added.
LEMMA EntraVacia ==
  ASSUME NEW D, NEW E, NEW F, NEW W, Ordenadas(E, D, W), NEW v, v \notin D,
         F[v] = <<>>, \A s \in D : F[s] = E[s]
  PROVE  Ordenadas(F, D \cup {v}, W)
<1>1. \A s \in D \cup {v} : \A i \in 1..Len(F[s]) :
        s \in D /\ i \in 1..Len(E[s]) /\ F[s][i] = E[s][i]
  OBVIOUS
<1>2. ASSUME NEW s \in D \cup {v}, NEW t \in D \cup {v},
             NEW i \in 1..Len(F[s]), NEW j \in 1..Len(F[t]), F[s][i] = F[t][j]
      PROVE  s = t /\ i = j
  <2>1. /\ s \in D /\ i \in 1..Len(E[s]) /\ t \in D /\ j \in 1..Len(E[t])
        /\ E[s][i] = E[t][j]
    BY <1>1, <1>2
  <2>. QED BY <2>1 DEF Ordenadas
<1>3. ASSUME NEW c \in Carpinchos
      PROVE  c \in W <=> \E s \in D \cup {v} : \E i \in 1..Len(F[s]) : F[s][i] = c
  BY <1>1 DEF Ordenadas
<1>. QED BY <1>2, <1>3 DEF Ordenadas

LEMMA EsperasNext ==
  InvTabla /\ [Next]_vars => UsosValidos' /\ EsperaOrdenada' /\ ValorCuadra'
<1>. SUFFICES ASSUME InvTabla, [Next]_vars
              PROVE  UsosValidos' /\ EsperaOrdenada' /\ ValorCuadra'
  OBVIOUS
<1>t. TypeOK /\ UsosValidos /\ EsperaOrdenada /\ ValorCuadra
  BY DEF InvTabla
<1>. DEFINE v == valorIdSemaforos
            E == listaDeProcesosEnEspera
<1>e. /\ valor \in [Creados -> Int] /\ E \in [Creados -> Seq(Carpinchos)]
      /\ llamada \in [Carpinchos -> {"ninguna", "crea", "wait", "signal",
                                     "bloqueado", "perdido"}]
      /\ Ordenadas(E, Creados, Bloqueados)
  BY <1>t DEF TypeOK, Creados, EsperaOrdenada
\* The steps that leave the values and the lists.
<1>1. ASSUME UNCHANGED <<valorIdSemaforos, valor, listaDeProcesosEnEspera>>,
             Bloqueados' = Bloqueados
      PROVE  EsperaOrdenada' /\ ValorCuadra'
  <2>1. Creados' = Creados
    BY <1>1 DEF Creados
  <2>. QED BY <1>t, <1>1, <2>1 DEF EsperaOrdenada, Ordenadas, ValorCuadra
<1>2. ASSUME NEW c \in Carpinchos, NEW n \in Nombres, BuscaParaCrear(c, n)
      PROVE  UsosValidos' /\ EsperaOrdenada' /\ ValorCuadra'
  <2>1. Bloqueados' = Bloqueados
    BY <1>2, <1>e DEF BuscaParaCrear, Bloqueados
  <2>2. UsosValidos'
    BY <1>2, <1>t, <1>e DEF BuscaParaCrear, UsosValidos, Creados, tabla
  <2>. QED BY <1>1, <1>2, <2>1, <2>2 DEF BuscaParaCrear, tabla
<1>3. ASSUME NEW c \in Carpinchos, NEW w \in Valores, Crea(c, w)
      PROVE  UsosValidos' /\ EsperaOrdenada' /\ ValorCuadra'
  <2>1. /\ v \in Nat /\ w \in Nat /\ v \notin Creados
        /\ Creados' = Creados \cup {v} /\ 0..v = Creados \cup {v}
    BY <1>3, <1>t, TablaOK DEF Crea, TypeOK, Creados
  <2>2. /\ E'[v] = <<>> /\ valor'[v] = w
        /\ \A s \in Creados : E'[s] = E[s] /\ valor'[s] = valor[s]
    BY <1>3, <2>1 DEF Crea
  <2>3. Bloqueados' = Bloqueados
    BY <1>3, <1>e DEF Crea, Bloqueados
  <2>5. EsperaOrdenada'
    <3>1. Ordenadas(E', Creados \cup {v}, Bloqueados)
      BY <1>e, <2>1, <2>2, EntraVacia
    <3>2. Ordenadas(E', Creados', Bloqueados')
      BY <2>1, <2>3, <3>1
    <3>. QED BY <3>2 DEF EsperaOrdenada, Ordenadas
  <2>6. ValorCuadra'
    BY <1>t, <2>1, <2>2 DEF ValorCuadra
  <2>7. UsosValidos'
    BY <1>3, <1>t, <1>e, <2>1 DEF Crea, UsosValidos
  <2>. QED BY <2>5, <2>6, <2>7
<1>4. ASSUME NEW c \in Carpinchos, NEW n \in Nombres, Destruye(c, n)
      PROVE  UsosValidos' /\ EsperaOrdenada' /\ ValorCuadra'
  <2>1. Bloqueados' = Bloqueados /\ UsosValidos'
    BY <1>4, <1>t DEF Destruye, Bloqueados, UsosValidos, Creados, hilo
  <2>. QED BY <1>1, <1>4, <2>1 DEF Destruye
<1>5. ASSUME NEW c \in Carpinchos, NEW n \in Nombres, BuscaParaUsar(c, n)
      PROVE  UsosValidos' /\ EsperaOrdenada' /\ ValorCuadra'
  <2>1. PICK e \in Creados : e = Busca(n)
    BY <1>5, <1>t, BuscaEnTabla DEF BuscaParaUsar
  <2>2. Bloqueados' = Bloqueados
    BY <1>5, <1>e DEF BuscaParaUsar, Bloqueados
  <2>3. semaforoActual' = [semaforoActual EXCEPT ![c] = e] /\ Creados' = Creados
    BY <1>5, <2>1 DEF BuscaParaUsar, tabla, Creados
  <2>4. \A d \in Carpinchos : d # c => llamada'[d] = llamada[d]
    BY <1>5, <1>e DEF BuscaParaUsar
  <2>5. UsosValidos'
    <3>1. ~caido /\ semaforoActual'[c] = e
      BY <1>5, <1>t, <2>3 DEF BuscaParaUsar, TypeOK
    <3>2. \A d \in Carpinchos : d # c => semaforoActual'[d] = semaforoActual[d]
      BY <1>t, <2>3 DEF TypeOK
    <3>. QED BY <1>t, <2>3, <2>4, <3>1, <3>2 DEF UsosValidos
  <2>. QED BY <1>1, <1>5, <2>2, <2>5 DEF BuscaParaUsar, tabla
<1>6. ASSUME NEW c \in Carpinchos, Wait(c)
      PROVE  UsosValidos' /\ EsperaOrdenada' /\ ValorCuadra'
  <2>1. PICK s \in Creados :
          /\ s = semaforoActual[c] /\ llamada[c] = "wait"
          /\ valor' = [valor EXCEPT ![s] = valor[s] - 1]
          /\ semaforoActual' = [semaforoActual EXCEPT ![c] = Nulo]
          /\ \/ /\ valor[s] - 1 < 0
                /\ listaDeProcesosEnEspera' =
                     [listaDeProcesosEnEspera EXCEPT
                        ![s] = Append(listaDeProcesosEnEspera[s], c)]
                /\ llamada' = [llamada EXCEPT ![c] = "bloqueado"]
             \/ /\ ~(valor[s] - 1 < 0)
                /\ listaDeProcesosEnEspera' = listaDeProcesosEnEspera
                /\ llamada' = [llamada EXCEPT ![c] = "ninguna"]
          /\ UNCHANGED <<semaforosActuales, valorIdSemaforos, nombre,
                         destruidos, nombreSem, caido>>
    BY <1>6, PasoDeWait
  <2>2. Creados' = Creados
    BY <2>1 DEF Creados
  <2>3. UsosValidos'
    BY <1>t, <1>e, <2>1, <2>2 DEF UsosValidos
  <2>4. EsperaOrdenada'
    <3>1. CASE llamada' = [llamada EXCEPT ![c] = "ninguna"] /\ E' = E
      <4>1. Bloqueados' = Bloqueados
        BY <1>e, <2>1, <3>1 DEF Bloqueados
      <4>. QED BY <1>t, <2>2, <3>1, <4>1 DEF EsperaOrdenada, Ordenadas
    <3>2. CASE /\ llamada' = [llamada EXCEPT ![c] = "bloqueado"]
               /\ E' = [E EXCEPT ![s] = Append(E[s], c)]
      <4>1. Bloqueados' = Bloqueados \cup {c} /\ c \notin Bloqueados
        BY <1>e, <2>1, <3>2 DEF Bloqueados
      <4>2. Ordenadas([E EXCEPT ![s] = Append(E[s], c)], Creados, Bloqueados \cup {c})
        BY <1>e, <4>1, EntraUno
      <4>3. Ordenadas(E', Creados', Bloqueados')
        BY <2>2, <3>2, <4>1, <4>2
      <4>. QED BY <4>3 DEF EsperaOrdenada, Ordenadas
    <3>. QED BY <2>1, <3>1, <3>2
  <2>5. ValorCuadra'
    <3>1. \A t \in Creados : t # s => E'[t] = E[t] /\ valor'[t] = valor[t]
      BY <1>e, <2>1
    <3>2. valor'[s] = valor[s] - 1 /\ valor[s] \in Int /\ E[s] \in Seq(Carpinchos)
      BY <1>e, <2>1
    <3>3. Len(E[s]) = IF valor[s] < 0 THEN -valor[s] ELSE 0
      BY <1>t DEF ValorCuadra
    <3>4. Len(E'[s]) = IF valor[s] - 1 < 0 THEN Len(E[s]) + 1 ELSE Len(E[s])
      BY <1>e, <2>1, <3>2
    <3>5. Len(E'[s]) = IF valor'[s] < 0 THEN -valor'[s] ELSE 0
      BY <3>2, <3>3, <3>4
    <3>. QED BY <1>t, <2>2, <3>1, <3>5 DEF ValorCuadra
  <2>. QED BY <2>3, <2>4, <2>5
<1>7. ASSUME NEW c \in Carpinchos, Signal(c)
      PROVE  UsosValidos' /\ EsperaOrdenada' /\ ValorCuadra'
  <2>1. PICK s \in Creados :
          /\ s = semaforoActual[c] /\ llamada[c] = "signal"
          /\ valor' = [valor EXCEPT ![s] = valor[s] + 1]
          /\ semaforoActual' = [semaforoActual EXCEPT ![c] = Nulo]
          /\ \/ /\ listaDeProcesosEnEspera[s] # <<>>
                /\ listaDeProcesosEnEspera' =
                     [listaDeProcesosEnEspera EXCEPT
                        ![s] = Tail(listaDeProcesosEnEspera[s])]
                /\ llamada' = [llamada EXCEPT ![c] = "ninguna",
                                 ![Head(listaDeProcesosEnEspera[s])] = "ninguna"]
             \/ /\ listaDeProcesosEnEspera[s] = <<>>
                /\ listaDeProcesosEnEspera' = listaDeProcesosEnEspera
                /\ llamada' = [llamada EXCEPT ![c] = "ninguna"]
          /\ UNCHANGED <<semaforosActuales, valorIdSemaforos, nombre,
                         destruidos, nombreSem, caido>>
    BY <1>7, PasoDeSignal
  <2>2. Creados' = Creados
    BY <2>1 DEF Creados
  <2>3. UsosValidos'
    BY <1>t, <1>e, <2>1, <2>2 DEF UsosValidos
  <2>4. EsperaOrdenada'
    <3>1. CASE E' = E /\ llamada' = [llamada EXCEPT ![c] = "ninguna"]
      <4>1. Bloqueados' = Bloqueados
        BY <1>e, <2>1, <3>1 DEF Bloqueados
      <4>. QED BY <1>t, <2>2, <3>1, <4>1 DEF EsperaOrdenada, Ordenadas
    <3>2. CASE /\ E[s] # <<>> /\ E' = [E EXCEPT ![s] = Tail(E[s])]
               /\ llamada' = [llamada EXCEPT ![c] = "ninguna",
                                             ![Head(E[s])] = "ninguna"]
      <4>1. PICK q : q = Head(E[s])
        OBVIOUS
      <4>2. /\ q \in Carpinchos /\ q \in Bloqueados
            /\ Ordenadas([E EXCEPT ![s] = Tail(E[s])], Creados, Bloqueados \ {q})
        BY <1>e, <3>2, <4>1, SaleUno
      <4>3. Bloqueados' = Bloqueados \ {q}
        BY <1>e, <2>1, <3>2, <4>1, <4>2 DEF Bloqueados
      <4>4. Ordenadas(E', Creados', Bloqueados')
        BY <2>2, <3>2, <4>2, <4>3
      <4>. QED BY <4>4 DEF EsperaOrdenada, Ordenadas
    <3>. QED BY <2>1, <3>1, <3>2
  <2>5. ValorCuadra'
    <3>1. \A t \in Creados : t # s => E'[t] = E[t] /\ valor'[t] = valor[t]
      BY <1>e, <2>1
    <3>2. valor'[s] = valor[s] + 1 /\ valor[s] \in Int /\ E[s] \in Seq(Carpinchos)
      BY <1>e, <2>1
    <3>3. Len(E[s]) = IF valor[s] < 0 THEN -valor[s] ELSE 0
      BY <1>t DEF ValorCuadra
    <3>4. IF E[s] # <<>> THEN Len(E'[s]) = Len(E[s]) - 1 /\ Len(E[s]) > 0
                         ELSE Len(E'[s]) = 0 /\ Len(E[s]) = 0
      <4>1. CASE E[s] # <<>>
        <5>1. E'[s] = Tail(E[s])
          BY <1>e, <2>1, <4>1
        <5>2. Len(Tail(E[s])) = Len(E[s]) - 1 /\ Len(E[s]) > 0
          BY <3>2, <4>1
        <5>. QED BY <4>1, <5>1, <5>2
      <4>2. CASE E[s] = <<>>
        BY <2>1, <4>2
      <4>. QED BY <4>1, <4>2
    <3>5. Len(E'[s]) = IF valor'[s] < 0 THEN -valor'[s] ELSE 0
      BY <3>2, <3>3, <3>4
    <3>. QED BY <1>t, <2>2, <3>1, <3>5 DEF ValorCuadra
  <2>. QED BY <2>3, <2>4, <2>5
<1>8. ASSUME NEW c \in Carpinchos, UsaLiberado(c)
      PROVE  UsosValidos' /\ EsperaOrdenada' /\ ValorCuadra'
  <2>1. Bloqueados' = Bloqueados
    BY <1>8, <1>e DEF UsaLiberado, Bloqueados
  <2>2. UsosValidos'
    <3>1. /\ \A d \in Carpinchos : d # c => /\ llamada'[d] = llamada[d]
                                            /\ semaforoActual'[d] = semaforoActual[d]
          /\ Creados' = Creados
      BY <1>8, <1>e, <1>t DEF UsaLiberado, TypeOK, Creados, tabla
    <3>2. ~caido /\ (caido' \/ llamada'[c] \notin {"wait", "signal"})
      BY <1>8, <1>e DEF UsaLiberado
    <3>. QED BY <1>t, <3>1, <3>2 DEF UsosValidos
  <2>. QED BY <1>1, <1>8, <2>1, <2>2 DEF UsaLiberado, tabla
<1>9. CASE UNCHANGED vars
  BY <1>1, <1>9, <1>t DEF vars, UsosValidos, Bloqueados, Creados
<1>. QED BY <1>2, <1>3, <1>4, <1>5, <1>6, <1>7, <1>8, <1>9 DEF Next

LEMMA InvTablaSiempre == Spec => []InvTabla
<1>1. InvTabla /\ [Next]_vars => InvTabla'
  BY TypeOKNext, EsperasNext DEF InvTabla
<1>. QED BY InvTablaInit, <1>1, PTL DEF Spec

-----------------------------------------------------------------------------
(* A name goes on denoting the same semaphore.                             *)

\* A new entry comes after the ones there are.
LEMMA PrimeraAlCrear ==
  ASSUME NEW D, NEW s \in Seq(D), NEW nm, NEW r, NEW v, v \notin D,
         \A d \in D : r[d] = nm[d], NEW n, Primera(s, nm, n) # Nulo
  PROVE  Primera(Append(s, v), r, n) = Primera(s, nm, n)
<1>1. PICK t : t = Append(s, v)
  OBVIOUS
<1>2. /\ Len(s) \in Nat /\ Len(t) = Len(s) + 1
      /\ \A i \in 1..Len(s) : t[i] = s[i] /\ s[i] \in D
  BY <1>1
<1>3. PICK k : EsPrimera(s, nm, n, k) /\ Primera(s, nm, n) = s[k]
  BY <1>2, PrimeraEsLaPrimera
<1>4. k \in 1..Len(s) /\ t[k] = s[k] /\ r[t[k]] = n
  BY <1>2, <1>3 DEF EsPrimera
<1>5. PICK l : EsPrimera(t, r, n, l) /\ Primera(t, r, n) = t[l]
  <2>1. k \in 1..Len(t) /\ Len(t) \in Nat
    BY <1>2, <1>4
  <2>. QED BY <1>4, <2>1, PrimeraEsLaPrimera
<1>6. l \in 1..Len(s) /\ l <= k
  BY <1>2, <1>4, <1>5 DEF EsPrimera
<1>7. nm[s[l]] = n
  BY <1>2, <1>5, <1>6 DEF EsPrimera
<1>8. k <= l
  BY <1>3, <1>6, <1>7 DEF EsPrimera
<1>9. k = l
  BY <1>4, <1>6, <1>8
<1>. QED BY <1>1, <1>3, <1>4, <1>5, <1>9

\* The removal of another entry leaves the first one first.
LEMMA PrimeraAlQuitar ==
  ASSUME NEW D, NEW s \in Seq(D), NEW nm, NEW n, NEW e,
         \E i \in 1..Len(s) : s[i] = e,
         Primera(s, nm, n) # Nulo, Primera(s, nm, n) # e
  PROVE  Primera(RemoveFirst(s, e), nm, n) = Primera(s, nm, n)
<1>1. PICK p \in 1..Len(s) :
        /\ s[p] = e
        /\ RemoveFirst(s, e) \in Seq(D)
        /\ Len(RemoveFirst(s, e)) = Len(s) - 1
        /\ \A i \in 1..(Len(s) - 1) :
             RemoveFirst(s, e)[i] = IF i < p THEN s[i] ELSE s[i + 1]
  BY QuitaLaPrimera
<1>2. PICK t : t = RemoveFirst(s, e)
  OBVIOUS
<1>3. /\ Len(s) \in Nat /\ Len(t) = Len(s) - 1 /\ Len(t) \in Nat
      /\ \A i \in 1..Len(t) : t[i] = IF i < p THEN s[i] ELSE s[i + 1]
  BY <1>1, <1>2
<1>4. PICK k : EsPrimera(s, nm, n, k) /\ Primera(s, nm, n) = s[k]
  BY <1>3, PrimeraEsLaPrimera
<1>5. k \in 1..Len(s) /\ k # p /\ nm[s[k]] = n
  BY <1>1, <1>4 DEF EsPrimera
<1>6. PICK m \in 1..Len(t) : t[m] = s[k] /\ m = IF k < p THEN k ELSE k - 1
  <2>1. CASE k < p
    BY <1>3, <1>5, <2>1
  <2>2. CASE p < k
    <3>1. k - 1 \in 1..Len(t) /\ ~(k - 1 < p) /\ (k - 1) + 1 = k /\ ~(k < p)
      BY <1>3, <1>5, <2>2
    <3>. QED BY <1>3, <3>1
  <2>. QED BY <1>3, <1>5, <2>1, <2>2
<1>7. EsPrimera(t, nm, n, m)
  <2>1. ASSUME NEW j \in 1..Len(t), nm[t[j]] = n PROVE m <= j
    <3>1. CASE j < p
      <4>1. j \in 1..Len(s) /\ nm[s[j]] = n
        BY <1>3, <2>1, <3>1
      <4>2. k <= j
        BY <1>4, <4>1 DEF EsPrimera
      <4>. QED BY <1>5, <1>6, <3>1, <4>2
    <3>2. CASE ~(j < p)
      <4>1. j + 1 \in 1..Len(s) /\ nm[s[j + 1]] = n
        BY <1>3, <2>1, <3>2
      <4>2. k <= j + 1
        BY <1>4, <4>1 DEF EsPrimera
      <4>. QED BY <1>5, <1>6, <3>2, <4>2
    <3>. QED BY <3>1, <3>2
  <2>. QED BY <1>5, <1>6, <2>1 DEF EsPrimera
<1>8. PICK l : EsPrimera(t, nm, n, l) /\ Primera(t, nm, n) = t[l]
  <2>1. nm[t[m]] = n
    BY <1>5, <1>6
  <2>. QED BY <1>3, <2>1, PrimeraEsLaPrimera
<1>9. m = l
  BY <1>3, <1>7, <1>8, PrimeraUnica
<1>. QED BY <1>2, <1>4, <1>6, <1>8, <1>9

\* With two entries of a name, too, no step changes which one it denotes but
\* the one that destroys that entry.
Estable ==
  \A n \in Nombres :
    Busca(n) # Nulo => Busca(n)' = Busca(n) \/ Busca(n) \in destruidos'

LEMMA EstableNext == InvTabla /\ [Next]_vars => Estable
<1>. SUFFICES ASSUME InvTabla, [Next]_vars, NEW n \in Nombres, Busca(n) # Nulo
              PROVE  Busca(n)' = Busca(n) \/ Busca(n) \in destruidos'
  BY DEF Estable
<1>t. TypeOK
  BY DEF InvTabla
<1>1. semaforosActuales \in Seq(Creados) /\ Primera(semaforosActuales, nombre, n) # Nulo
  BY <1>t, BuscaEsPrimera DEF TypeOK, Creados
<1>2. CASE UNCHANGED <<semaforosActuales, nombre>>
  BY <1>2, BuscaEsPrimera
<1>3. ASSUME NEW c \in Carpinchos, NEW w \in Valores, Crea(c, w)
      PROVE  Busca(n)' = Busca(n)
  <2>1. PICK v : v = valorIdSemaforos
    OBVIOUS
  <2>2. v \notin Creados
    BY <1>t, <2>1 DEF TypeOK, Creados
  <2>3. PICK r : r = nombre'
    OBVIOUS
  <2>4. \A d \in Creados : r[d] = nombre[d]
    BY <1>3, <1>t, <2>1, <2>3 DEF Crea, TypeOK, Creados
  <2>5. Primera(Append(semaforosActuales, v), r, n) = Primera(semaforosActuales, nombre, n)
    BY <1>1, <2>2, <2>4, PrimeraAlCrear
  <2>6. Primera(semaforosActuales', nombre', n) = Primera(semaforosActuales, nombre, n)
    BY <1>3, <2>1, <2>3, <2>5 DEF Crea
  <2>. QED BY <2>6, BuscaEsPrimera
<1>4. ASSUME NEW c \in Carpinchos, NEW m \in Nombres, Destruye(c, m)
      PROVE  Busca(n)' = Busca(n) \/ Busca(n) \in destruidos'
  <2>1. PICK e : /\ e = Busca(m)
                 /\ \E i \in 1..Len(semaforosActuales) : semaforosActuales[i] = e
    BY <1>4, <1>t, BuscaEnTabla DEF Destruye
  <2>2. /\ semaforosActuales' = RemoveFirst(semaforosActuales, e)
        /\ destruidos' = destruidos \cup {e} /\ nombre' = nombre
    BY <1>4, <2>1 DEF Destruye
  <2>3. CASE Busca(n) = e
    BY <2>2, <2>3
  <2>4. CASE Busca(n) # e
    <3>1. Primera(semaforosActuales, nombre, n) # e
      BY <2>4, BuscaEsPrimera
    <3>2. Primera(RemoveFirst(semaforosActuales, e), nombre, n)
            = Primera(semaforosActuales, nombre, n)
      BY <1>1, <2>1, <3>1, PrimeraAlQuitar
    <3>. QED BY <2>2, <3>2, BuscaEsPrimera
  <2>. QED BY <2>3, <2>4
<1>5. ASSUME NEW c \in Carpinchos,
             \/ \E m \in Nombres : BuscaParaCrear(c, m) \/ BuscaParaUsar(c, m)
             \/ Wait(c) \/ Signal(c) \/ UsaLiberado(c)
      PROVE  UNCHANGED <<semaforosActuales, nombre>>
  BY <1>5 DEF BuscaParaCrear, BuscaParaUsar, Wait, Signal, UsaLiberado, tabla
<1>6. CASE UNCHANGED vars
  BY <1>2, <1>6 DEF vars
<1>. QED BY <1>2, <1>3, <1>4, <1>5, <1>6 DEF Next

-----------------------------------------------------------------------------
(* The entries of a name.                                                  *)

\* The creations of a name that are under way.
Creando(n) == {c \in Carpinchos : llamada[c] = "crea" /\ nombreSem[c] = n}

\* Fewer of both are still few enough.
LEMMA MenosDeAmbos ==
  ASSUME NEW A, NEW B, IsFiniteSet(A), IsFiniteSet(B),
         NEW C, C \subseteq A, NEW D, D \subseteq B, NEW k \in Nat,
         Cardinality(A) + Cardinality(B) <= k
  PROVE  Cardinality(C) + Cardinality(D) <= k
<1>1. /\ Cardinality(C) <= Cardinality(A) /\ Cardinality(D) <= Cardinality(B)
      /\ Cardinality(A) \in Nat /\ Cardinality(B) \in Nat
      /\ Cardinality(C) \in Nat /\ Cardinality(D) \in Nat
  BY FS_Subset, FS_CardinalityType
<1>. QED BY <1>1

\* When the lookup of a name fails, no entry has it.
LEMMA NoHayTocayos ==
  ASSUME TypeOK, NEW n, Busca(n) = Nulo
  PROVE  Tocayos(n) = {}
<1>1. /\ semaforosActuales \in Seq(Creados) /\ Len(semaforosActuales) \in Nat
      /\ DOMAIN semaforosActuales = 1..Len(semaforosActuales)
  BY DEF TypeOK, Creados
<1>2. ASSUME NEW k, EsPrimera(semaforosActuales, nombre, n, k)
      PROVE  semaforosActuales[k] # Nulo
  <2>1. semaforosActuales[k] \in Creados
    BY <1>1, <1>2 DEF EsPrimera
  <2>. QED BY <2>1 DEF Creados, Nulo, TypeOK
<1>3. Primera(semaforosActuales, nombre, n) = Nulo
  BY BuscaEsPrimera
<1>4. \A i \in 1..Len(semaforosActuales) : nombre[semaforosActuales[i]] # n
  BY <1>1, <1>2, <1>3, PrimeraEsLaPrimera
<1>. QED BY <1>1, <1>4 DEF Tocayos, ToSet

LEMMA DuplicadosInit == Init => DuplicadosAcotados
<1>. SUFFICES ASSUME Init, NEW n \in Nombres
              PROVE  Cardinality(Tocayos(n)) + Cardinality(Creando(n)) <= Cardinality(Carpinchos)
  BY DEF DuplicadosAcotados, Creando
<1>1. Tocayos(n) = {} /\ Creando(n) = {}
  BY DEF Init, Tocayos, Creando, ToSet
<1>2. Cardinality({}) = 0 /\ Cardinality(Carpinchos) \in Nat
  BY FS_EmptySet, FS_CardinalityType, TablaOK
<1>. QED BY <1>1, <1>2

LEMMA DuplicadosNext == InvTabla /\ DuplicadosAcotados /\ [Next]_vars => DuplicadosAcotados'
<1>. SUFFICES ASSUME InvTabla, DuplicadosAcotados, [Next]_vars, NEW n \in Nombres
              PROVE  Cardinality(Tocayos(n)') + Cardinality(Creando(n)') <= Cardinality(Carpinchos)
  BY DEF DuplicadosAcotados, Creando
<1>t. TypeOK
  BY DEF InvTabla
<1>1. /\ IsFiniteSet(Creando(n)) /\ Creando(n)' \subseteq Carpinchos
      /\ IsFiniteSet(Carpinchos) /\ Cardinality(Carpinchos) \in Nat
  BY TablaOK, FS_Subset, FS_CardinalityType DEF Creando
<1>2. IsFiniteSet(Tocayos(n)) /\ Tocayos(n) \subseteq Creados
  <2>1. Creados = 0..(valorIdSemaforos - 1) /\ valorIdSemaforos - 1 \in Int
    BY <1>t DEF Creados, TypeOK
  <2>2. IsFiniteSet(Creados)
    BY <2>1, FS_Interval
  <2>3. Tocayos(n) \subseteq Creados
    BY <1>t DEF Tocayos, TypeOK, ToSet, Creados
  <2>. QED BY <2>2, <2>3, FS_Subset
<1>3. Cardinality(Tocayos(n)) + Cardinality(Creando(n)) <= Cardinality(Carpinchos)
  BY DEF DuplicadosAcotados, Creando
<1>4. ASSUME Tocayos(n)' \subseteq Tocayos(n), Creando(n)' \subseteq Creando(n)
      PROVE  Cardinality(Tocayos(n)') + Cardinality(Creando(n)') <= Cardinality(Carpinchos)
  BY <1>1, <1>2, <1>3, <1>4, MenosDeAmbos
<1>5. ASSUME NEW c \in Carpinchos, NEW m \in Nombres, BuscaParaCrear(c, m)
      PROVE  Cardinality(Tocayos(n)') + Cardinality(Creando(n)') <= Cardinality(Carpinchos)
  <2>1. Tocayos(n)' = Tocayos(n)
    BY <1>5 DEF BuscaParaCrear, Tocayos, tabla
  <2>2. CASE m = n
    <3>2. Tocayos(n)' = {}
      BY <1>5, <1>t, <2>1, <2>2, NoHayTocayos DEF BuscaParaCrear
    <3>3. Cardinality(Tocayos(n)') = 0
      BY <3>2, FS_EmptySet
    <3>4. /\ Cardinality(Creando(n)') <= Cardinality(Carpinchos)
          /\ Cardinality(Creando(n)') \in Nat
      BY <1>1, FS_Subset, FS_CardinalityType
    <3>. QED BY <1>1, <3>3, <3>4
  <2>3. CASE m # n
    <3>1. Creando(n)' \subseteq Creando(n)
      BY <1>5, <1>t, <2>3 DEF BuscaParaCrear, Creando, TypeOK
    <3>. QED BY <1>4, <2>1, <3>1
  <2>. QED BY <2>2, <2>3
<1>6. ASSUME NEW c \in Carpinchos, NEW w \in Valores, Crea(c, w)
      PROVE  Cardinality(Tocayos(n)') + Cardinality(Creando(n)') <= Cardinality(Carpinchos)
  <2>1. PICK v : v = valorIdSemaforos
    OBVIOUS
  <2>2. v \notin Creados /\ ToSet(semaforosActuales) \subseteq Creados
    BY <1>t, <2>1 DEF TypeOK, Creados, ToSet
  <2>3. ToSet(semaforosActuales') = ToSet(semaforosActuales) \cup {v}
    <3>1. semaforosActuales' = Append(semaforosActuales, v)
      BY <1>6, <2>1 DEF Crea
    <3>2. semaforosActuales \in Seq(Creados)
      BY <1>t DEF TypeOK, Creados
    <3>3. /\ DOMAIN semaforosActuales = 1..Len(semaforosActuales)
          /\ DOMAIN semaforosActuales' = 1..(Len(semaforosActuales) + 1)
          /\ Len(semaforosActuales) \in Nat
          /\ \A i \in 1..Len(semaforosActuales) :
               semaforosActuales'[i] = semaforosActuales[i]
          /\ semaforosActuales'[Len(semaforosActuales) + 1] = v
      BY <3>1, <3>2
    <3>. QED BY <3>3 DEF ToSet
  <2>4. /\ \A d \in Creados : nombre'[d] = nombre[d]
        /\ nombre'[v] = nombreSem[c]
    BY <1>6, <1>t, <2>1 DEF Crea, TypeOK, Creados
  <2>5. /\ llamada[c] = "crea" /\ nombreSem' = nombreSem
        /\ llamada' = [llamada EXCEPT ![c] = "ninguna"]
    BY <1>6 DEF Crea
  <2>6. CASE nombreSem[c] = n
    <3>1. Tocayos(n)' = Tocayos(n) \cup {v} /\ v \notin Tocayos(n)
      BY <2>2, <2>3, <2>4, <2>6 DEF Tocayos
    <3>2. Creando(n)' = Creando(n) \ {c} /\ c \in Creando(n)
      BY <1>t, <2>5, <2>6 DEF Creando, TypeOK
    <3>3. Cardinality(Tocayos(n)') = Cardinality(Tocayos(n)) + 1
      BY <1>2, <3>1, FS_AddElement
    <3>4. Cardinality(Creando(n)') = Cardinality(Creando(n)) - 1
      BY <1>1, <3>2, FS_RemoveElement
    <3>5. Cardinality(Tocayos(n)) \in Nat /\ Cardinality(Creando(n)) \in Nat
      BY <1>1, <1>2, FS_CardinalityType
    <3>. QED BY <1>1, <1>3, <3>3, <3>4, <3>5
  <2>7. CASE nombreSem[c] # n
    <3>1. Tocayos(n)' \subseteq Tocayos(n)
      BY <2>2, <2>3, <2>4, <2>7 DEF Tocayos
    <3>2. Creando(n)' \subseteq Creando(n)
      BY <1>t, <2>5 DEF Creando, TypeOK
    <3>. QED BY <1>4, <3>1, <3>2
  <2>. QED BY <2>6, <2>7
<1>7. ASSUME NEW c \in Carpinchos, NEW m \in Nombres, Destruye(c, m)
      PROVE  Cardinality(Tocayos(n)') + Cardinality(Creando(n)') <= Cardinality(Carpinchos)
  <2>1. PICK e : /\ e = Busca(m)
                 /\ \E i \in 1..Len(semaforosActuales) : semaforosActuales[i] = e
    BY <1>7, <1>t, BuscaEnTabla DEF Destruye
  <2>2. ToSet(semaforosActuales') \subseteq ToSet(semaforosActuales)
    <3>1. semaforosActuales \in Seq(Creados) /\ IsInjective(semaforosActuales)
      BY <1>t DEF TypeOK, Creados
    <3>2. semaforosActuales' = RemoveFirst(semaforosActuales, e)
      BY <1>7, <2>1 DEF Destruye
    <3>. QED BY <2>1, <3>1, <3>2, QuitaUna
  <2>3. Tocayos(n)' \subseteq Tocayos(n)
    BY <1>7, <2>2 DEF Destruye, Tocayos
  <2>4. Creando(n)' = Creando(n)
    BY <1>7 DEF Destruye, Creando, hilo
  <2>. QED BY <1>4, <2>3, <2>4
<1>8. ASSUME NEW c \in Carpinchos,
             \/ \E m \in Nombres : BuscaParaUsar(c, m)
             \/ Wait(c) \/ Signal(c) \/ UsaLiberado(c)
      PROVE  Cardinality(Tocayos(n)') + Cardinality(Creando(n)') <= Cardinality(Carpinchos)
  <2>1. Tocayos(n)' = Tocayos(n) /\ nombreSem' = nombreSem
    BY <1>8 DEF BuscaParaUsar, Wait, Signal, UsaLiberado, Tocayos, tabla
  <2>2. \A d \in Carpinchos : llamada'[d] = "crea" => llamada[d] = "crea"
    BY <1>8, <1>t DEF BuscaParaUsar, Wait, Signal, UsaLiberado, TypeOK
  <2>3. Creando(n)' \subseteq Creando(n)
    BY <2>1, <2>2 DEF Creando
  <2>. QED BY <1>4, <2>1, <2>3
<1>9. CASE UNCHANGED vars
  <2>1. Tocayos(n)' = Tocayos(n) /\ Creando(n)' = Creando(n)
    BY <1>9 DEF vars, Tocayos, Creando
  <2>. QED BY <1>4, <2>1
<1>. QED BY <1>5, <1>6, <1>7, <1>8, <1>9 DEF Next

-----------------------------------------------------------------------------
(* The theorems.                                                           *)

\* A semaphore that exists is in the table once, one that was destroyed is
\* not, and each thread is in a call of semaforos, for any number of them.
THEOREM TiposDeLaTabla == Spec => []TypeOK
<1>1. InvTabla => TypeOK
  BY DEF InvTabla
<1>. QED BY InvTablaSiempre, <1>1, PTL

\* The race of two creations makes no more entries of a name than there are
\* carpinchos, with any number of creations and destructions.
THEOREM DuplicadosAcotadosSiempre == Spec => []DuplicadosAcotados
BY DuplicadosInit, DuplicadosNext, InvTablaSiempre, PTL DEF Spec

\* Whatever is created and destroyed, a name denotes the same entry until
\* that entry is destroyed.
THEOREM ElNombreEsEstable == Spec => NombreEstable
<1>1. InvTabla /\ [Next]_vars => [Estable]_vars
  BY EstableNext
<1>2. Spec => [][Estable]_vars
  BY InvTablaSiempre, <1>1, PTL DEF Spec
<1>. QED BY <1>2 DEF NombreEstable, Estable

\* The waiting list of a semaphore is as long as its value is below zero,
\* and a blocked carpincho is in one list only.
THEOREM LaEsperaCuadra == Spec => []EsperaCuadra
<1>1. ASSUME InvTabla PROVE EsperaCuadra
  <2>1. TypeOK /\ EsperaOrdenada /\ ValorCuadra
    BY <1>1 DEF InvTabla
  <2>2. DOMAIN valor = Creados /\ ToSet(semaforosActuales) \subseteq Creados
    BY <2>1 DEF TypeOK, Creados, ToSet
  <2>3. ASSUME NEW c \in Carpinchos
        PROVE  Cardinality({s \in Creados : c \in ToSet(listaDeProcesosEnEspera[s])})
                 = (IF llamada[c] = "bloqueado" THEN 1 ELSE 0)
    <3>. DEFINE S == {s \in Creados : c \in ToSet(listaDeProcesosEnEspera[s])}
    <3>1. \A s \in Creados :
            c \in ToSet(listaDeProcesosEnEspera[s])
              <=> \E i \in 1..Len(listaDeProcesosEnEspera[s]) :
                    listaDeProcesosEnEspera[s][i] = c
      <4>1. \A s \in Creados : listaDeProcesosEnEspera[s] \in Seq(Carpinchos)
        BY <2>1 DEF TypeOK, Creados
      <4>. QED BY <4>1 DEF ToSet
    <3>2. CASE llamada[c] = "bloqueado"
      <4>1. PICK s \in Creados : \E i \in 1..Len(listaDeProcesosEnEspera[s]) :
                                    listaDeProcesosEnEspera[s][i] = c
        BY <2>1, <3>2 DEF EsperaOrdenada, Ordenadas, Bloqueados
      <4>2. ASSUME NEW t \in S PROVE t = s
        BY <2>1, <3>1, <4>1 DEF EsperaOrdenada, Ordenadas
      <4>3. S = {s}
        BY <3>1, <4>1, <4>2
      <4>. QED BY <3>2, <4>3, FS_Singleton
    <3>3. CASE llamada[c] # "bloqueado"
      <4>1. S = {}
        BY <2>1, <3>1, <3>3 DEF EsperaOrdenada, Ordenadas, Bloqueados
      <4>. QED BY <3>3, <4>1, FS_EmptySet
    <3>. QED BY <3>2, <3>3
  <2>. QED BY <2>1, <2>2, <2>3 DEF EsperaCuadra, ValorCuadra
<1>. QED BY InvTablaSiempre, <1>1, PTL
=============================================================================
