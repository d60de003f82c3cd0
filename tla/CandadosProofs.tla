--------------------------- MODULE CandadosProofs ---------------------------
(***************************************************************************)
(* Candados for any number of threads, semaphores and devices.             *)
(*                                                                         *)
(* A rank of the mutexes orders them, and a script keeps the order when it *)
(* locks only mutexes above all it holds, unlocks only what it holds and   *)
(* ends with none. Threads that keep one order never wait in a circle: the *)
(* one that waits for the highest mutex waits for a thread that goes on.   *)
(* No order does for every thread of the kernel. One, which the detector   *)
(* sets, does for all but thread1_PMP; another for all but the detector.   *)
(***************************************************************************)
EXTENDS Candados, SequenceTheorems, WellFoundedInduction, TLAPS

-----------------------------------------------------------------------------
(* Scripts that keep an order.                                             *)

Mutexes == Sems \cup Dispositivos \cup MutexesDelKernel \cup MutexesDeMemoria
Pasos(M) == [hace : {"lock", "unlock"}, mutex : M]

\* The mutexes the script g holds as it goes on: T[j] after j steps.
Tenencias(r, M, g, T) ==
  /\ T \in [0..Len(g) -> SUBSET M]
  /\ T[Len(g)] = {}
  /\ \A j \in 1..Len(g) :
       \/ /\ g[j].hace = "lock"
          /\ \A n \in T[j - 1] : r[n] < r[g[j].mutex]
          /\ T[j] = T[j - 1] \cup {g[j].mutex}
       \/ /\ g[j].hace = "unlock"
          /\ g[j].mutex \in T[j - 1]
          /\ T[j] = T[j - 1] \ {g[j].mutex}

\* A thread that holds H, and has g left, keeps the order r.
Guarda(r, M, g, H) ==
  /\ g \in Seq(Pasos(M))
  /\ \E T : Tenencias(r, M, g, T) /\ T[0] = H

\* A whole operation.
Guion(r, M, g) == g # <<>> /\ Guarda(r, M, g, {})

LEMMA GuardaVacio ==
  ASSUME NEW r, NEW M
  PROVE  Guarda(r, M, <<>>, {})
<1>. DEFINE T == [j \in 0..0 |-> {}]
<1>1. T \in [0..0 -> SUBSET M] /\ T[0] = {}
  OBVIOUS
<1>2. Tenencias(r, M, <<>>, T)
  BY <1>1 DEF Tenencias
<1>. QED BY <1>1, <1>2 DEF Guarda

\* A script that is over leaves nothing held.
LEMMA GuardaFin ==
  ASSUME NEW r, NEW M, NEW H, Guarda(r, M, <<>>, H)
  PROVE  H = {}
<1>1. PICK T : Tenencias(r, M, <<>>, T) /\ T[0] = H
  BY DEF Guarda
<1>. QED BY <1>1 DEF Tenencias

LEMMA PasoEnM ==
  ASSUME NEW M, NEW m \in M
  PROVE  /\ Lock(m) \in Pasos(M) /\ Unlock(m) \in Pasos(M)
         /\ Lock(m).hace = "lock" /\ Lock(m).mutex = m
         /\ Unlock(m).hace = "unlock" /\ Unlock(m).mutex = m
BY DEF Pasos, Lock, Unlock

\* The first step of a script, and what is left.
LEMMA GuardaPaso ==
  ASSUME NEW r, NEW M, NEW g, NEW H, Guarda(r, M, g, H), g # <<>>
  PROVE  /\ H \subseteq M
         /\ Head(g).mutex \in M
         /\ \/ /\ Head(g).hace = "lock"
               /\ \A n \in H : r[n] < r[Head(g).mutex]
               /\ Guarda(r, M, Tail(g), H \cup {Head(g).mutex})
            \/ /\ Head(g).hace = "unlock"
               /\ Head(g).mutex \in H
               /\ Guarda(r, M, Tail(g), H \ {Head(g).mutex})
<1>1. PICK T : Tenencias(r, M, g, T) /\ T[0] = H
  BY DEF Guarda
<1>2. g \in Seq(Pasos(M)) /\ Len(g) \in Nat /\ Len(g) >= 1 /\ Head(g) = g[1] /\ g[1] \in Pasos(M)
  BY DEF Guarda
<1>3. PICK n \in Nat : n = Len(g) - 1
  BY <1>2
<1>4. PICK h : h = Tail(g)
  OBVIOUS
<1>5. h \in Seq(Pasos(M)) /\ Len(h) = n /\ \A j \in 1..n : h[j] = g[j + 1]
  BY <1>2, <1>3, <1>4, HeadTailProperties
<1>. DEFINE U == [j \in 0..n |-> T[j + 1]]
<1>6. T \in [0..(n + 1) -> SUBSET M] /\ T[n + 1] = {} /\ Len(g) = n + 1
  BY <1>1, <1>2, <1>3 DEF Tenencias
<1>7. U \in [0..n -> SUBSET M] /\ U[n] = {} /\ U[0] = T[1]
  BY <1>6
<1>8. \A j \in 1..n :
       \/ /\ h[j].hace = "lock"
          /\ \A m \in U[j - 1] : r[m] < r[h[j].mutex]
          /\ U[j] = U[j - 1] \cup {h[j].mutex}
       \/ /\ h[j].hace = "unlock"
          /\ h[j].mutex \in U[j - 1]
          /\ U[j] = U[j - 1] \ {h[j].mutex}
  <2>1. TAKE j \in 1..n
  <2>2. PICK k \in 1..(n + 1) : k = j + 1
    BY <1>3
  <2>3. k - 1 = j /\ U[j] = T[k] /\ U[j - 1] = T[k - 1] /\ h[j] = g[k]
    BY <2>2, <1>5
  <2>. HIDE DEF U
  <2>. QED BY <2>3, <1>1, <1>6 DEF Tenencias
<1>9. Guarda(r, M, h, T[1])
  <2>. HIDE DEF U
  <2>1. Tenencias(r, M, h, U)
    BY <1>5, <1>7, <1>8 DEF Tenencias
  <2>. QED BY <2>1, <1>5, <1>7 DEF Guarda
<1>10. \/ /\ g[1].hace = "lock"
          /\ \A m \in H : r[m] < r[g[1].mutex]
          /\ T[1] = H \cup {g[1].mutex}
       \/ /\ g[1].hace = "unlock"
          /\ g[1].mutex \in H
          /\ T[1] = H \ {g[1].mutex}
  <2>1. 1 \in 1..Len(g) /\ 1 - 1 = 0
    BY <1>2
  <2>. QED BY <1>1, <2>1 DEF Tenencias
<1>11. H \subseteq M /\ g[1].mutex \in M
  BY <1>1, <1>2, <1>6 DEF Pasos
<1>. QED BY <1>2, <1>4, <1>9, <1>10, <1>11

\* A lock before a script that goes on with that mutex held.
LEMMA GuardaLock ==
  ASSUME NEW r, NEW M, NEW g, NEW H \in SUBSET M, NEW m \in M,
         \A n \in H : r[n] < r[m],
         Guarda(r, M, g, H \cup {m})
  PROVE  Guarda(r, M, <<Lock(m)>> \o g, H)
<1>1. PICK T : Tenencias(r, M, g, T) /\ T[0] = H \cup {m}
  BY DEF Guarda
<1>2. PICK n \in Nat : n = Len(g)
  BY DEF Guarda
<1>3. PICK h : h = <<Lock(m)>> \o g
  OBVIOUS
<1>4. /\ h \in Seq(Pasos(M)) /\ Len(h) = n + 1 /\ h[1] = Lock(m)
      /\ \A j \in 2..(n + 1) : h[j] = g[j - 1]
  <2>1. <<Lock(m)>> \in Seq(Pasos(M)) /\ Len(<<Lock(m)>>) = 1 /\ g \in Seq(Pasos(M))
    BY PasoEnM DEF Guarda
  <2>2. /\ h \in Seq(Pasos(M)) /\ Len(h) = 1 + n
        /\ \A i \in 1..(1 + n) : h[i] = IF i <= 1 THEN <<Lock(m)>>[i] ELSE g[i - 1]
    BY <2>1, <1>2, <1>3, ConcatProperties
  <2>. QED BY <2>2, <1>2
<1>. DEFINE U == [j \in 0..(n + 1) |-> IF j = 0 THEN H ELSE T[j - 1]]
<1>5. T \in [0..n -> SUBSET M] /\ T[n] = {}
  BY <1>1, <1>2 DEF Tenencias
<1>6. /\ U \in [0..(n + 1) -> SUBSET M] /\ U[n + 1] = {} /\ U[0] = H
      /\ U[1] = H \cup {m} /\ \A j \in 1..(n + 1) : U[j] = T[j - 1]
  BY <1>1, <1>2, <1>5
<1>. HIDE DEF U
<1>7. \A j \in 1..(n + 1) :
       \/ /\ h[j].hace = "lock"
          /\ \A k \in U[j - 1] : r[k] < r[h[j].mutex]
          /\ U[j] = U[j - 1] \cup {h[j].mutex}
       \/ /\ h[j].hace = "unlock"
          /\ h[j].mutex \in U[j - 1]
          /\ U[j] = U[j - 1] \ {h[j].mutex}
  <2>1. TAKE j \in 1..(n + 1)
  <2>2. CASE j = 1
    <3>1. h[1].hace = "lock" /\ h[1].mutex = m
      BY <1>4, PasoEnM
    <3>. QED BY <2>2, <3>1, <1>6
  <2>3. CASE j # 1
    <3>1. PICK i \in 1..n : i = j - 1
      BY <2>3, <1>2
    <3>2. U[j] = T[i] /\ U[j - 1] = T[i - 1] /\ h[j] = g[i]
      BY <3>1, <2>3, <1>2, <1>4, <1>6
    <3>. QED BY <3>2, <1>1, <1>2 DEF Tenencias
  <2>. QED BY <2>2, <2>3
<1>8. Tenencias(r, M, h, U)
  BY <1>4, <1>6, <1>7 DEF Tenencias
<1>. QED BY <1>3, <1>4, <1>6, <1>8 DEF Guarda

\* An unlock before a script that goes on without that mutex.
LEMMA GuardaUnlock ==
  ASSUME NEW r, NEW M, NEW H \in SUBSET M, NEW m \in H, H = {m}
  PROVE  Guarda(r, M, <<Unlock(m)>>, H)
<1>. DEFINE T == [j \in 0..1 |-> IF j = 0 THEN H ELSE {}]
<1>1. T \in [0..1 -> SUBSET M] /\ T[0] = H /\ T[1] = {}
  OBVIOUS
<1>2. PICK g : g = <<Unlock(m)>>
  OBVIOUS
<1>3. /\ g \in Seq(Pasos(M)) /\ Len(g) = 1
      /\ g[1].hace = "unlock" /\ g[1].mutex = m
  BY <1>2, PasoEnM
<1>. HIDE DEF T
<1>4. Tenencias(r, M, g, T)
  BY <1>1, <1>3 DEF Tenencias
<1>. QED BY <1>1, <1>2, <1>3, <1>4 DEF Guarda

\* A whole operation on mutexes above the held ones, before a script.
LEMMA GuardaAntes ==
  ASSUME NEW r, NEW M, NEW N \in SUBSET M, NEW h, NEW g, NEW H \in SUBSET M,
         Guion(r, N, h), Guarda(r, M, g, H),
         \A m \in M : r[m] \in Nat,
         \A m \in H, n \in N : r[m] < r[n]
  PROVE  Guarda(r, M, h \o g, H)
<1>1. PICK T : Tenencias(r, M, g, T) /\ T[0] = H
  BY DEF Guarda
<1>2. PICK V : Tenencias(r, N, h, V) /\ V[0] = {}
  BY DEF Guion, Guarda
<1>3. PICK n \in Nat : n = Len(g)
  BY DEF Guarda
<1>4. PICK k \in Nat : k = Len(h)
  BY DEF Guion, Guarda
<1>5. PICK f : f = h \o g
  OBVIOUS
<1>6. h \in Seq(Pasos(M)) /\ \A i \in 1..k : h[i].mutex \in N
  <2>1. h \in Seq(Pasos(N)) /\ Pasos(N) \subseteq Pasos(M)
    BY DEF Guion, Guarda, Pasos
  <2>2. \A i \in 1..k : h[i] \in Pasos(N)
    BY <2>1, <1>4
  <2>. QED BY <2>1, <2>2, SeqMonotonic DEF Pasos
<1>7. /\ f \in Seq(Pasos(M)) /\ Len(f) = k + n
      /\ \A i \in 1..(k + n) : f[i] = IF i <= k THEN h[i] ELSE g[i - k]
  BY <1>3, <1>4, <1>5, <1>6, ConcatProperties DEF Guarda
<1>. DEFINE U == [j \in 0..(k + n) |-> IF j <= k THEN H \cup V[j] ELSE T[j - k]]
<1>8. T \in [0..n -> SUBSET M] /\ T[n] = {} /\ V \in [0..k -> SUBSET N] /\ V[k] = {}
  BY <1>1, <1>2, <1>3, <1>4 DEF Tenencias
<1>9. U \in [0..(k + n) -> SUBSET M]
  <2>1. ASSUME NEW j \in 0..(k + n) PROVE U[j] \in SUBSET M
    <3>1. CASE j <= k
      BY <3>1, <1>8
    <3>2. CASE ~(j <= k)
      <4>1. j - k \in 0..n
        BY <3>2
      <4>. QED BY <4>1, <3>2, <1>8
    <3>. QED BY <3>1, <3>2
  <2>. QED BY <2>1
<1>10. U[0] = H
  BY <1>2
<1>11. \A j \in 0..k : U[j] = H \cup V[j]
  OBVIOUS
<1>12. \A j \in k..(k + n) : U[j] = T[j - k]
  <2>1. TAKE j \in k..(k + n)
  <2>2. j \in 0..(k + n)
    OBVIOUS
  <2>3. CASE j = k
    <3>1. j - k = 0 /\ U[j] = H \cup V[k] /\ V[k] = {}
      BY <2>2, <2>3, <1>8
    <3>. QED BY <3>1, <1>1
  <2>4. CASE j # k
    <3>1. ~(j <= k)
      BY <2>4
    <3>. QED BY <2>2, <3>1
  <2>. QED BY <2>3, <2>4
<1>13. U[k + n] = {}
  <2>1. k + n \in k..(k + n) /\ k + n - k = n
    OBVIOUS
  <2>. HIDE DEF U
  <2>. QED BY <2>1, <1>8, <1>12
<1>. HIDE DEF U
<1>14. \A j \in 1..(k + n) :
       \/ /\ f[j].hace = "lock"
          /\ \A m \in U[j - 1] : r[m] < r[f[j].mutex]
          /\ U[j] = U[j - 1] \cup {f[j].mutex}
       \/ /\ f[j].hace = "unlock"
          /\ f[j].mutex \in U[j - 1]
          /\ U[j] = U[j - 1] \ {f[j].mutex}
  <2>1. TAKE j \in 1..(k + n)
  <2>2. CASE j <= k
    <3>1. j \in 1..k /\ j \in 0..k /\ j - 1 \in 0..k
      BY <2>2
    <3>2. U[j] = H \cup V[j] /\ U[j - 1] = H \cup V[j - 1] /\ f[j] = h[j] /\ h[j].mutex \in N
      BY <3>1, <1>6, <1>7, <1>11
    <3>3. PICK m : m = h[j].mutex
      OBVIOUS
    <3>4. m \in N /\ m \notin H
      <4>1. m \in N /\ r[m] \in Nat
        BY <3>2, <3>3
      <4>2. ~(r[m] < r[m])
        BY <4>1
      <4>. QED BY <4>1, <4>2
    <3>5. \/ /\ h[j].hace = "lock"
             /\ \A x \in V[j - 1] : r[x] < r[m]
             /\ V[j] = V[j - 1] \cup {m}
          \/ /\ h[j].hace = "unlock"
             /\ m \in V[j - 1]
             /\ V[j] = V[j - 1] \ {m}
      BY <3>1, <3>3, <1>2, <1>4 DEF Tenencias
    <3>. QED BY <3>2, <3>3, <3>4, <3>5
  <2>3. CASE ~(j <= k)
    <3>1. PICK i \in 1..n : i = j - k
      BY <2>3
    <3>2. U[j] = T[i] /\ U[j - 1] = T[i - 1] /\ f[j] = g[i]
      BY <3>1, <2>3, <1>7, <1>12
    <3>. QED BY <3>2, <1>1, <1>3 DEF Tenencias
  <2>. QED BY <2>2, <2>3
<1>15. Tenencias(r, M, f, U)
  BY <1>7, <1>9, <1>13, <1>14 DEF Tenencias
<1>. QED BY <1>5, <1>7, <1>10, <1>15 DEF Guarda

\* One mutex at a time.
LEMMA GuionSeccion ==
  ASSUME NEW r, NEW M, NEW m \in M
  PROVE  Guion(r, M, Seccion(m))
<1>1. Guarda(r, M, <<Unlock(m)>>, {m})
  BY GuardaUnlock
<1>2. {} \in SUBSET M /\ {} \cup {m} = {m} /\ \A n \in {} : r[n] < r[m]
  OBVIOUS
<1>3. Guarda(r, M, <<Lock(m)>> \o <<Unlock(m)>>, {})
  BY <1>1, <1>2, GuardaLock
<1>4. <<Lock(m)>> \o <<Unlock(m)>> = Seccion(m)
  <2>1. PICK a, b : a = Lock(m) /\ b = Unlock(m)
    OBVIOUS
  <2>2. <<a>> \in Seq({a, b}) /\ <<b>> \in Seq({a, b}) /\ Len(<<a>>) = 1 /\ Len(<<b>>) = 1
    OBVIOUS
  <2>3. PICK c : c = <<a>> \o <<b>>
    OBVIOUS
  <2>4. /\ c \in Seq({a, b}) /\ Len(c) = 1 + 1
        /\ \A i \in 1..(1 + 1) : c[i] = IF i <= 1 THEN <<a>>[i] ELSE <<b>>[i - 1]
    BY <2>2, <2>3, ConcatProperties
  <2>5. Len(c) = 2 /\ c[1] = a /\ c[2] = b
    BY <2>4
  <2>6. c = <<a, b>>
    BY <2>4, <2>5
  <2>. QED BY <2>1, <2>3, <2>6 DEF Seccion
<1>5. Seccion(m) # <<>>
  BY DEF Seccion
<1>. QED BY <1>3, <1>4, <1>5 DEF Guion

\* One operation after another.
LEMMA GuionJunta ==
  ASSUME NEW r, NEW M, NEW h, NEW g, Guion(r, M, h), Guion(r, M, g),
         \A m \in M : r[m] \in Nat
  PROVE  Guion(r, M, h \o g)
<1>1. {} \in SUBSET M /\ M \in SUBSET M /\ \A m \in {}, n \in M : r[m] < r[n]
  OBVIOUS
<1>2. Guarda(r, M, h \o g, {})
  BY <1>1, GuardaAntes DEF Guion
<1>3. h \in Seq(Pasos(M)) /\ g \in Seq(Pasos(M)) /\ h # <<>>
  BY DEF Guion, Guarda
<1>4. h \o g # <<>>
  BY <1>3, ConcatEqualIffEmpty
<1>. QED BY <1>2, <1>4 DEF Guion

\* An operation inside the mutex m, below all those it takes.
LEMMA GuionEnvuelve ==
  ASSUME NEW r, NEW M, NEW N \in SUBSET M, NEW g, NEW m \in M,
         Guion(r, N, g), \A n \in M : r[n] \in Nat, \A n \in N : r[m] < r[n]
  PROVE  Guion(r, M, <<Lock(m)>> \o g \o <<Unlock(m)>>)
<1>1. Guarda(r, M, <<Unlock(m)>>, {m})
  BY GuardaUnlock
<1>2. {m} \in SUBSET M /\ \A k \in {m}, n \in N : r[k] < r[n]
  OBVIOUS
<1>3. Guarda(r, M, g \o <<Unlock(m)>>, {m})
  BY <1>1, <1>2, GuardaAntes
<1>4. {} \in SUBSET M /\ {} \cup {m} = {m} /\ \A n \in {} : r[n] < r[m]
  OBVIOUS
<1>5. Guarda(r, M, <<Lock(m)>> \o (g \o <<Unlock(m)>>), {})
  BY <1>3, <1>4, GuardaLock
<1>6. (<<Lock(m)>> \o g) \o <<Unlock(m)>> = <<Lock(m)>> \o (g \o <<Unlock(m)>>)
  <2>1. <<Lock(m)>> \in Seq(Pasos(M)) /\ <<Unlock(m)>> \in Seq(Pasos(M))
    BY PasoEnM
  <2>2. g \in Seq(Pasos(M))
    <3>1. g \in Seq(Pasos(N)) /\ Pasos(N) \subseteq Pasos(M)
      BY DEF Guion, Guarda, Pasos
    <3>. QED BY <3>1, SeqMonotonic
  <2>. QED BY <2>1, <2>2, ConcatAssociative
<1>7. <<Lock(m)>> \o (g \o <<Unlock(m)>>) # <<>>
  <2>1. PICK h : h = g \o <<Unlock(m)>>
    OBVIOUS
  <2>2. h \in Seq(Pasos(M)) /\ <<Lock(m)>> \in Seq(Pasos(M)) /\ <<Lock(m)>> # <<>>
    BY <1>3, <2>1, PasoEnM DEF Guarda
  <2>3. <<Lock(m)>> \o h # <<>>
    BY <2>2, ConcatEqualIffEmpty
  <2>. QED BY <2>1, <2>3
<1>. QED BY <1>5, <1>6, <1>7 DEF Guion

\* An operation on some mutexes is one on more of them.
LEMMA GuionMas ==
  ASSUME NEW r, NEW M, NEW N \in SUBSET M, NEW g, Guion(r, N, g),
         \A m \in M : r[m] \in Nat
  PROVE  Guion(r, M, g)
<1>1. {} \in SUBSET M /\ \A m \in {}, n \in N : r[m] < r[n]
  OBVIOUS
<1>2. Guarda(r, M, g \o <<>>, {})
  BY <1>1, GuardaAntes, GuardaVacio DEF Guion
<1>3. g \o <<>> = g
  BY ConcatEmptySeq DEF Guion, Guarda
<1>. QED BY <1>2, <1>3 DEF Guion

\* Every mutex of ms, in ascending order; then ns, the same ones in any order.
LEMMA GuionTodos ==
  ASSUME NEW r, NEW M, NEW ms \in Seq(M), NEW ns \in Seq(M),
         \A i, j \in 1..Len(ms) : i < j => r[ms[i]] < r[ms[j]],
         ms # <<>>, ToSet(ns) = ToSet(ms), IsInjective(ns)
  PROVE  Guion(r, M, LockTodos(ms) \o UnlockTodos(ns))
<1>1. PICK n \in Nat : n = Len(ms)
  OBVIOUS
<1>2. PICK k \in Nat : k = Len(ns)
  OBVIOUS
<1>3. PICK h : h = LockTodos(ms)
  OBVIOUS
<1>4. PICK g : g = UnlockTodos(ns)
  OBVIOUS
<1>5. PICK f : f = h \o g
  OBVIOUS
<1>6. /\ h \in Seq(Pasos(M)) /\ Len(h) = n
      /\ \A i \in 1..n : h[i].hace = "lock" /\ h[i].mutex = ms[i]
  <2>1. h = [i \in 1..n |-> Lock(ms[i])]
    BY <1>1, <1>3 DEF LockTodos
  <2>2. \A i \in 1..n : ms[i] \in M
    BY <1>1
  <2>3. \A i \in 1..n : Lock(ms[i]) \in Pasos(M)
    BY <2>2, PasoEnM
  <2>4. h \in [1..n -> Pasos(M)]
    BY <2>1, <2>3
  <2>. QED BY <2>1, <2>4 DEF Lock
<1>7. /\ g \in Seq(Pasos(M)) /\ Len(g) = k
      /\ \A i \in 1..k : g[i].hace = "unlock" /\ g[i].mutex = ns[i]
  <2>1. g = [i \in 1..k |-> Unlock(ns[i])]
    BY <1>2, <1>4 DEF UnlockTodos
  <2>2. \A i \in 1..k : ns[i] \in M
    BY <1>2
  <2>3. \A i \in 1..k : Unlock(ns[i]) \in Pasos(M)
    BY <2>2, PasoEnM
  <2>4. g \in [1..k -> Pasos(M)]
    BY <2>1, <2>3
  <2>. QED BY <2>1, <2>4 DEF Unlock
<1>8. /\ f \in Seq(Pasos(M)) /\ Len(f) = n + k
      /\ \A i \in 1..(n + k) : f[i] = IF i <= n THEN h[i] ELSE g[i - n]
  <2>1. /\ f \in Seq(Pasos(M)) /\ Len(f) = Len(h) + Len(g)
        /\ \A i \in 1..(Len(h) + Len(g)) : f[i] = IF i <= Len(h) THEN h[i] ELSE g[i - Len(h)]
    BY <1>5, <1>6, <1>7, ConcatProperties
  <2>. QED BY <2>1, <1>6, <1>7
<1>. DEFINE A(j) == {ms[i] : i \in 1..j}
            B(j) == {ns[i] : i \in j..k}
            T == [j \in 0..(n + k) |-> IF j <= n THEN A(j) ELSE B(j - n + 1)]
<1>9. A(0) = {} /\ B(k + 1) = {} /\ A(n) = B(1)
  <2>1. A(n) = ToSet(ms) /\ B(1) = ToSet(ns)
    BY <1>1, <1>2 DEF ToSet
  <2>2. 1..0 = {} /\ (k + 1)..k = {}
    OBVIOUS
  <2>. QED BY <2>1, <2>2
<1>10. T \in [0..(n + k) -> SUBSET M]
  <2>1. \A j \in 0..n : A(j) \subseteq M
    BY <1>1
  <2>2. \A j \in 1..(k + 1) : B(j) \subseteq M
    BY <1>2
  <2>3. ASSUME NEW j \in 0..(n + k) PROVE T[j] \in SUBSET M
    <3>1. CASE j <= n
      BY <3>1, <2>1
    <3>2. CASE ~(j <= n)
      <4>1. j - n + 1 \in 1..(k + 1)
        BY <3>2
      <4>. QED BY <4>1, <3>2, <2>2
    <3>. QED BY <3>1, <3>2
  <2>. QED BY <2>3
<1>11. \A j \in 0..n : T[j] = A(j)
  OBVIOUS
<1>12. \A j \in 0..k : T[n + j] = B(j + 1)
  <2>1. TAKE j \in 0..k
  <2>2. n + j \in 0..(n + k)
    OBVIOUS
  <2>3. CASE j = 0
    <3>1. n + j = n /\ j + 1 = 1 /\ n \in 0..n
      BY <2>3
    <3>. HIDE DEF T, A, B
    <3>2. T[n] = A(n)
      BY <3>1, <1>11
    <3>. QED BY <3>1, <3>2, <1>9
  <2>4. CASE j # 0
    <3>1. ~(n + j <= n) /\ n + j - n + 1 = j + 1
      BY <2>4
    <3>. QED BY <2>2, <3>1
  <2>. QED BY <2>3, <2>4
<1>13. \A j \in 1..n : A(j) = A(j - 1) \cup {ms[j]}
  <2>1. TAKE j \in 1..n
  <2>2. 1..j = (1..(j - 1)) \cup {j}
    OBVIOUS
  <2>. QED BY <2>2
<1>14. \A j \in 1..n : \A m \in A(j - 1) : r[m] < r[ms[j]]
  BY <1>1
<1>15. \A j \in 1..k : ns[j] \in B(j) /\ B(j + 1) = B(j) \ {ns[j]}
  <2>1. TAKE j \in 1..k
  <2>2. j..k = ((j + 1)..k) \cup {j}
    OBVIOUS
  <2>3. \A i \in (j + 1)..k : ns[i] # ns[j]
    BY <1>2 DEF IsInjective
  <2>. QED BY <2>2, <2>3
<1>. HIDE DEF T, A, B
<1>16. \A j \in 1..(n + k) :
       \/ /\ f[j].hace = "lock"
          /\ \A m \in T[j - 1] : r[m] < r[f[j].mutex]
          /\ T[j] = T[j - 1] \cup {f[j].mutex}
       \/ /\ f[j].hace = "unlock"
          /\ f[j].mutex \in T[j - 1]
          /\ T[j] = T[j - 1] \ {f[j].mutex}
  <2>1. TAKE j \in 1..(n + k)
  <2>2. CASE j <= n
    <3>1. j \in 1..n /\ j \in 0..n /\ j - 1 \in 0..n
      BY <2>2
    <3>2. f[j] = h[j]
      BY <3>1, <1>8
    <3>. QED BY <3>1, <3>2, <1>6, <1>11, <1>13, <1>14
  <2>3. CASE ~(j <= n)
    <3>1. PICK i \in 1..k : i = j - n
      BY <2>3
    <3>2. i \in 0..k /\ i - 1 \in 0..k /\ n + i = j /\ n + (i - 1) = j - 1 /\ i - 1 + 1 = i
      BY <3>1
    <3>3. f[j] = g[i]
      BY <3>1, <2>3, <1>8
    <3>4. T[j] = B(i + 1) /\ T[j - 1] = B(i)
      BY <3>2, <1>12
    <3>. QED BY <3>1, <3>3, <3>4, <1>7, <1>15
  <2>. QED BY <2>2, <2>3
<1>17. T[n + k] = {} /\ T[0] = {}
  <2>1. k \in 0..k /\ 0 \in 0..n
    OBVIOUS
  <2>. QED BY <2>1, <1>9, <1>11, <1>12
<1>18. Tenencias(r, M, f, T)
  BY <1>8, <1>10, <1>16, <1>17 DEF Tenencias
<1>19. f # <<>>
  <2>1. n >= 1 /\ k >= 0
    BY <1>1
  <2>. QED BY <2>1, <1>8
<1>. QED BY <1>3, <1>4, <1>5, <1>8, <1>17, <1>18, <1>19 DEF Guion, Guarda

-----------------------------------------------------------------------------
(* The two orders.                                                         *)

OrdenDelDetector == <<"controladorSemaforos">> \o OrdenSems \o ListasDelDetector
OrdenDelMedianoPlazo == <<"modificarExec", "modificarReady", "modificarNew", "modificarBlocked">>

DelKernel == Sems \cup Dispositivos \cup MutexesDelKernel

RangoDeMemoria(m) ==
  IF m \in {"recorrer_marcos_mutex", "marcos_sem"} THEN 0
  ELSE IF m = "swap" THEN 1 ELSE IF m = "TLB_mutex" THEN 3 ELSE 2

\* The place of a mutex of the kernel in ms, 0 when it is not there.
Lugar(ms, m) ==
  IF \E i \in 1..Len(ms) : ms[i] = m
  THEN CHOOSE i \in 1..Len(ms) : ms[i] = m
  ELSE 0

Rango(ms) ==
  [m \in Mutexes |-> IF m \in MutexesDeMemoria THEN RangoDeMemoria(m) ELSE Lugar(ms, m)]

LEMMA RangoNat ==
  ASSUME NEW S, NEW ms \in Seq(S), NEW m \in Mutexes
  PROVE  /\ Rango(ms)[m] \in Nat
         /\ Rango(ms)[m] <= Len(ms) + 3
         /\ m \in MutexesDeMemoria => Rango(ms)[m] = RangoDeMemoria(m)
         /\ m \notin MutexesDeMemoria => Rango(ms)[m] = Lugar(ms, m)
<1>1. Len(ms) \in Nat
  OBVIOUS
<1>2. Rango(ms)[m] = IF m \in MutexesDeMemoria THEN RangoDeMemoria(m) ELSE Lugar(ms, m)
  BY DEF Rango
<1>3. RangoDeMemoria(m) \in 0..3
  BY DEF RangoDeMemoria
<1>4. Lugar(ms, m) \in 0..Len(ms)
  BY <1>1 DEF Lugar
<1>. QED BY <1>1, <1>2, <1>3, <1>4

LEMMA LugarEnLista ==
  ASSUME NEW S, NEW ms \in Seq(S), IsInjective(ms)
  PROVE  \A i \in 1..Len(ms) : Lugar(ms, ms[i]) = i
BY DEF Lugar, IsInjective

\* The kernel has no mutex of the memory.
LEMMA DelKernelAparte ==
  /\ DelKernel \cap MutexesDeMemoria = {}
  /\ DelKernel \subseteq Mutexes /\ MutexesDeMemoria \subseteq Mutexes
<1>1. (Sems \cup Dispositivos) \cap MutexesDeMemoria = {}
  BY NombresDistintos
<1>2. MutexesDelKernel \cap MutexesDeMemoria = {}
  BY DEF MutexesDelKernel, MutexesDeMemoria
<1>. QED BY <1>1, <1>2 DEF DelKernel, Mutexes

LEMMA ConcatInyectiva ==
  ASSUME NEW S, NEW a \in Seq(S), NEW b \in Seq(S), IsInjective(a), IsInjective(b),
         \A i \in 1..Len(a), j \in 1..Len(b) : a[i] # b[j]
  PROVE  IsInjective(a \o b)
<1>1. PICK c : c = a \o b
  OBVIOUS
<1>2. PICK m \in Nat, n \in Nat : m = Len(a) /\ n = Len(b)
  OBVIOUS
<1>3. /\ c \in Seq(S) /\ DOMAIN c = 1..(m + n)
      /\ \A i \in 1..(m + n) : c[i] = IF i <= m THEN a[i] ELSE b[i - m]
  <2>1. /\ c \in Seq(S) /\ Len(c) = Len(a) + Len(b)
        /\ \A i \in 1..(Len(a) + Len(b)) : c[i] = IF i <= Len(a) THEN a[i] ELSE b[i - Len(a)]
    BY <1>1, ConcatProperties
  <2>. QED BY <2>1, <1>2
<1>4. /\ \A i, j \in 1..m : a[i] = a[j] => i = j
      /\ \A i, j \in 1..n : b[i] = b[j] => i = j
  BY <1>2 DEF IsInjective
<1>5. ASSUME NEW i \in 1..(m + n), NEW j \in 1..(m + n), c[i] = c[j]
      PROVE  i = j
  <2>1. CASE i <= m /\ j <= m
    BY <1>3, <1>4, <1>5, <2>1
  <2>2. CASE ~(i <= m) /\ ~(j <= m)
    <3>1. i - m \in 1..n /\ j - m \in 1..n
      BY <2>2
    <3>2. i - m = j - m
      BY <1>3, <1>4, <1>5, <2>2, <3>1
    <3>. QED BY <3>2
  <2>3. CASE i <= m /\ ~(j <= m)
    <3>1. i \in 1..m /\ j - m \in 1..n
      BY <2>3
    <3>2. c[i] = a[i] /\ c[j] = b[j - m]
      BY <1>3, <2>3
    <3>. QED BY <1>2, <1>5, <3>1, <3>2
  <2>4. CASE ~(i <= m) /\ j <= m
    <3>1. j \in 1..m /\ i - m \in 1..n
      BY <2>4
    <3>2. c[j] = a[j] /\ c[i] = b[i - m]
      BY <1>3, <2>4
    <3>. QED BY <1>2, <1>5, <3>1, <3>2
  <2>. QED BY <2>1, <2>2, <2>3, <2>4
<1>. QED BY <1>1, <1>3, <1>5 DEF IsInjective

LEMMA ConcatToSet ==
  ASSUME NEW S, NEW a \in Seq(S), NEW b \in Seq(S)
  PROVE  ToSet(a \o b) = ToSet(a) \cup ToSet(b)
<1>1. PICK c : c = a \o b
  OBVIOUS
<1>2. PICK m \in Nat, n \in Nat : m = Len(a) /\ n = Len(b)
  OBVIOUS
<1>3. /\ c \in Seq(S) /\ DOMAIN c = 1..(m + n)
      /\ \A i \in 1..(m + n) : c[i] = IF i <= m THEN a[i] ELSE b[i - m]
  <2>1. /\ c \in Seq(S) /\ Len(c) = Len(a) + Len(b)
        /\ \A i \in 1..(Len(a) + Len(b)) : c[i] = IF i <= Len(a) THEN a[i] ELSE b[i - Len(a)]
    BY <1>1, ConcatProperties
  <2>. QED BY <2>1, <1>2
<1>4. DOMAIN a = 1..m /\ DOMAIN b = 1..n
  BY <1>2
<1>5. ASSUME NEW i \in 1..m PROVE a[i] \in ToSet(c)
  <2>1. i \in DOMAIN c /\ c[i] = a[i]
    BY <1>3
  <2>. QED BY <2>1 DEF ToSet
<1>6. ASSUME NEW i \in 1..n PROVE b[i] \in ToSet(c)
  <2>1. PICK k \in 1..(m + n) : k = i + m
    OBVIOUS
  <2>2. ~(k <= m) /\ k - m = i
    BY <2>1
  <2>3. k \in DOMAIN c /\ c[k] = b[i]
    BY <1>3, <2>2
  <2>. QED BY <2>3 DEF ToSet
<1>7. ASSUME NEW i \in 1..(m + n) PROVE c[i] \in ToSet(a) \cup ToSet(b)
  <2>1. CASE i <= m
    <3>1. i \in DOMAIN a /\ c[i] = a[i]
      BY <2>1, <1>3, <1>4
    <3>. QED BY <3>1 DEF ToSet
  <2>2. CASE ~(i <= m)
    <3>1. i - m \in 1..n
      BY <2>2
    <3>. QED BY <2>2, <3>1, <1>3, <1>4 DEF ToSet
  <2>. QED BY <2>1, <2>2
<1>8. /\ \A x \in ToSet(c) : x \in ToSet(a) \cup ToSet(b)
      /\ \A x \in ToSet(a) \cup ToSet(b) : x \in ToSet(c)
  BY <1>3, <1>4, <1>5, <1>6, <1>7 DEF ToSet
<1>. QED BY <1>1, <1>8

\* The list backwards has the same elements.
LEMMA AlReves ==
  ASSUME NEW S, NEW a \in Seq(S)
  PROVE  /\ Reverse(a) \in Seq(S)
         /\ ToSet(Reverse(a)) = ToSet(a)
         /\ IsInjective(a) => IsInjective(Reverse(a))
<1>1. PICK c : c = Reverse(a)
  OBVIOUS
<1>2. PICK n \in Nat : n = Len(a)
  OBVIOUS
<1>3. c = [i \in 1..n |-> a[n - i + 1]] /\ a \in [1..n -> S]
  BY <1>1, <1>2 DEF Reverse
<1>4. \A i \in 1..n : n - i + 1 \in 1..n /\ n - (n - i + 1) + 1 = i
  OBVIOUS
<1>5. c \in [1..n -> S]
  BY <1>3, <1>4
<1>6. ToSet(c) = ToSet(a)
  BY <1>3, <1>4 DEF ToSet
<1>7. IsInjective(a) => IsInjective(c)
  <2>1. SUFFICES ASSUME IsInjective(a), NEW i \in 1..n, NEW j \in 1..n, c[i] = c[j]
                 PROVE  i = j
    BY <1>5 DEF IsInjective
  <2>2. n - i + 1 = n - j + 1
    BY <1>3, <1>4, <2>1 DEF IsInjective
  <2>. QED BY <2>2
<1>. QED BY <1>1, <1>5, <1>6, <1>7

LEMMA ListasTipo ==
  /\ ListasDelDetector \in Seq(MutexesDelKernel)
  /\ Len(ListasDelDetector) = 6
  /\ IsInjective(ListasDelDetector)
<1>1. PICK l : l = ListasDelDetector
  OBVIOUS
<1>2. /\ l \in Seq(MutexesDelKernel) /\ Len(l) = 6
      /\ l[1] = "modificarBlocked" /\ l[2] = "modificarSuspendedBlocked"
      /\ l[3] = "modificarExec" /\ l[4] = "modificarReady"
      /\ l[5] = "modificarSuspendedReady" /\ l[6] = "modificarNew"
  BY <1>1 DEF ListasDelDetector, MutexesDelKernel
<1>3. DOMAIN l = 1..6 /\ \A i \in 1..6 : i \in {1, 2, 3, 4, 5, 6}
  BY <1>2
<1>4. ASSUME NEW i \in 1..6, NEW j \in 1..6, l[i] = l[j] PROVE i = j
  BY <1>2, <1>3, <1>4
<1>. QED BY <1>1, <1>2, <1>3, <1>4 DEF IsInjective

LEMMA OrdenDelDetectorBien ==
  /\ OrdenDelDetector \in Seq(DelKernel)
  /\ IsInjective(OrdenDelDetector)
  /\ ToSet(OrdenDelDetector)
       = {"controladorSemaforos"} \cup ToSet(OrdenSems) \cup ToSet(ListasDelDetector)
  /\ Len(OrdenDelDetector) = Len(OrdenSems) + 7
  /\ \A i \in 1..Len(OrdenSems) : OrdenDelDetector[i + 1] = OrdenSems[i]
  /\ OrdenDelDetector[Len(OrdenSems) + 4] = "modificarExec"
  /\ \A i \in 1..Len(OrdenDelDetector) :
       OrdenDelDetector[i] \in Sems => i <= Len(OrdenSems) + 1
<1>1. PICK c : c = <<"controladorSemaforos">>
  OBVIOUS
<1>2. c \in Seq(DelKernel) /\ Len(c) = 1 /\ c[1] = "controladorSemaforos" /\ DOMAIN c = 1..1
  BY <1>1 DEF DelKernel, MutexesDelKernel
<1>3. PICK o : o = OrdenSems
  OBVIOUS
<1>4. o \in Seq(Sems) /\ o \in Seq(DelKernel) /\ IsInjective(o) /\ DOMAIN o = 1..Len(o)
  <2>1. o \in Seq(Sems) /\ IsInjective(o)
    BY <1>3, CandadosOK
  <2>2. Sems \subseteq DelKernel
    BY DEF DelKernel
  <2>. QED BY <2>1, <2>2, SeqMonotonic
<1>5. PICK l : l = ListasDelDetector
  OBVIOUS
<1>6. /\ l \in Seq(MutexesDelKernel) /\ l \in Seq(DelKernel) /\ IsInjective(l)
      /\ Len(l) = 6 /\ DOMAIN l = 1..6
  <2>1. l \in Seq(MutexesDelKernel) /\ IsInjective(l) /\ Len(l) = 6
    BY <1>5, ListasTipo
  <2>2. MutexesDelKernel \subseteq DelKernel
    BY DEF DelKernel
  <2>. QED BY <2>1, <2>2, SeqMonotonic
<1>7. /\ \A i \in 1..Len(o) : o[i] \in Sems /\ o[i] \notin MutexesDelKernel
      /\ \A i \in 1..6 : l[i] \in MutexesDelKernel /\ l[i] # "controladorSemaforos"
  <2>1. \A i \in 1..Len(o) : o[i] \in Sems
    BY <1>4
  <2>2. Sems \cap MutexesDelKernel = {}
    BY NombresDistintos
  <2>3. \A i \in 1..6 : l[i] \in MutexesDelKernel
    <3>1. \A i \in 1..Len(l) : l[i] \in MutexesDelKernel
      <4>1. l \in Seq(MutexesDelKernel)
        BY <1>6
      <4>. QED BY <4>1, ElementOfSeq
    <3>. QED BY <3>1, <1>6
  <2>4. \A i \in 1..6 : i \in {1, 2, 3, 4, 5, 6}
    OBVIOUS
  <2>5. \A i \in 1..6 : l[i] # "controladorSemaforos"
    BY <2>4, <1>5 DEF ListasDelDetector
  <2>. QED BY <2>1, <2>2, <2>3, <2>5
<1>8. PICK u : u = c \o o
  OBVIOUS
<1>9. /\ u \in Seq(DelKernel) /\ Len(u) = Len(o) + 1
      /\ u[1] = "controladorSemaforos" /\ \A i \in 1..Len(o) : u[i + 1] = o[i]
  <2>1. /\ u \in Seq(DelKernel) /\ Len(u) = 1 + Len(o)
        /\ \A i \in 1..(1 + Len(o)) : u[i] = IF i <= 1 THEN c[i] ELSE o[i - 1]
    BY <1>2, <1>4, <1>8, ConcatProperties
  <2>2. Len(o) \in Nat
    BY <1>4
  <2>3. \A i \in 1..Len(o) : i + 1 \in 1..(1 + Len(o)) /\ ~(i + 1 <= 1) /\ i + 1 - 1 = i
    BY <2>2
  <2>4. 1 \in 1..(1 + Len(o)) /\ 1 <= 1
    BY <2>2
  <2>5. u[1] = c[1]
    BY <2>1, <2>4
  <2>6. \A i \in 1..Len(o) : u[i + 1] = o[i]
    BY <2>1, <2>3
  <2>. QED BY <2>1, <2>2, <2>5, <2>6, <1>2
<1>10. IsInjective(u) /\ ToSet(u) = {"controladorSemaforos"} \cup ToSet(o)
  <2>1. IsInjective(c) /\ ToSet(c) = {"controladorSemaforos"}
    BY <1>2 DEF IsInjective, ToSet
  <2>2. "controladorSemaforos" \in MutexesDelKernel
    BY DEF MutexesDelKernel
  <2>3. \A i \in 1..Len(c), j \in 1..Len(o) : c[i] # o[j]
    BY <2>2, <1>2, <1>7
  <2>. QED BY <2>1, <2>3, <1>2, <1>4, <1>8, ConcatInyectiva, ConcatToSet
<1>11. \A i \in 1..Len(u) : u[i] = "controladorSemaforos" \/ u[i] \in Sems
  <2>1. TAKE i \in 1..Len(u)
  <2>2. CASE i = 1
    BY <2>2, <1>9
  <2>3. CASE i # 1
    <3>1. PICK j \in 1..Len(o) : i = j + 1
      BY <2>3, <1>4, <1>9
    <3>. QED BY <3>1, <1>7, <1>9
  <2>. QED BY <2>2, <2>3
<1>12. PICK v : v = u \o l
  OBVIOUS
<1>13. /\ v \in Seq(DelKernel) /\ Len(v) = Len(o) + 7
       /\ \A i \in 1..Len(o) : v[i + 1] = o[i]
       /\ v[Len(o) + 4] = l[3]
       /\ \A i \in 1..Len(v) : v[i] \in Sems => i <= Len(o) + 1
  <2>0. /\ v \in Seq(DelKernel) /\ Len(v) = Len(u) + Len(l)
        /\ \A i \in 1..(Len(u) + Len(l)) : v[i] = IF i <= Len(u) THEN u[i] ELSE l[i - Len(u)]
    <3>1. u \in Seq(DelKernel) /\ l \in Seq(DelKernel)
      BY <1>6, <1>9
    <3>. QED BY <3>1, <1>12, ConcatProperties
  <2>1. /\ v \in Seq(DelKernel) /\ Len(v) = Len(u) + 6
        /\ \A i \in 1..(Len(u) + 6) : v[i] = IF i <= Len(u) THEN u[i] ELSE l[i - Len(u)]
    BY <2>0, <1>6
  <2>2. PICK n \in Nat : n = Len(o)
    <3>1. o \in Seq(Sems)
      BY <1>4
    <3>. QED BY <3>1
  <2>3. Len(u) = n + 1
    BY <2>2, <1>9
  <2>4. n + 4 \in 1..(n + 1 + 6) /\ ~(n + 4 <= n + 1) /\ n + 4 - (n + 1) = 3
    OBVIOUS
  <2>5. \A i \in 1..n : i + 1 \in 1..(n + 1 + 6) /\ i + 1 <= n + 1
    OBVIOUS
  <2>6. v[n + 4] = l[3]
    BY <2>1, <2>3, <2>4
  <2>7. \A i \in 1..n : v[i + 1] = o[i]
    BY <2>1, <2>2, <2>3, <2>5, <1>9
  <2>8. n + 1 + 6 = n + 7
    OBVIOUS
  <2>9. \A i \in 1..(n + 7) : v[i] \in Sems => i <= n + 1
    <3>1. SUFFICES ASSUME NEW i \in 1..(n + 7), ~(i <= n + 1)
                   PROVE  v[i] \notin Sems
      OBVIOUS
    <3>2. i - (n + 1) \in 1..6 /\ i \in 1..(n + 1 + 6)
      BY <3>1
    <3>3. v[i] = l[i - (n + 1)]
      BY <2>1, <2>3, <3>1, <3>2
    <3>4. Sems \cap MutexesDelKernel = {}
      BY NombresDistintos
    <3>. QED BY <3>2, <3>3, <3>4, <1>7
  <2>. QED BY <2>1, <2>2, <2>3, <2>6, <2>7, <2>8, <2>9
<1>14. IsInjective(v) /\ ToSet(v) = ToSet(u) \cup ToSet(l)
  <2>1. \A i \in 1..Len(u), j \in 1..Len(l) : u[i] # l[j]
    <3>1. \A j \in 1..Len(l) : l[j] \notin Sems /\ l[j] # "controladorSemaforos"
      BY <1>6, <1>7, NombresDistintos
    <3>. QED BY <3>1, <1>11
  <2>2. u \in Seq(DelKernel) /\ l \in Seq(DelKernel) /\ IsInjective(u) /\ IsInjective(l)
    BY <1>6, <1>9, <1>10
  <2>3. IsInjective(v)
    BY <2>1, <2>2, <1>12, ConcatInyectiva
  <2>4. ToSet(v) = ToSet(u) \cup ToSet(l)
    BY <2>2, <1>12, ConcatToSet
  <2>. QED BY <2>3, <2>4
<1>15. l[3] = "modificarExec"
  BY <1>5 DEF ListasDelDetector
<1>16. OrdenDelDetector = v
  BY <1>1, <1>3, <1>5, <1>8, <1>12 DEF OrdenDelDetector
<1>17. ToSet(v) = {"controladorSemaforos"} \cup ToSet(o) \cup ToSet(l)
  BY <1>10, <1>14
<1>18. v[Len(o) + 4] = "modificarExec"
  BY <1>13, <1>15
<1>. QED BY <1>3, <1>5, <1>13, <1>14, <1>16, <1>17, <1>18

LEMMA OrdenDelMedianoPlazoBien ==
  /\ OrdenDelMedianoPlazo \in Seq(DelKernel)
  /\ IsInjective(OrdenDelMedianoPlazo)
  /\ Len(OrdenDelMedianoPlazo) = 4
<1>1. PICK l : l = OrdenDelMedianoPlazo
  OBVIOUS
<1>2. /\ l \in Seq(DelKernel) /\ Len(l) = 4
      /\ l[1] = "modificarExec" /\ l[2] = "modificarReady"
      /\ l[3] = "modificarNew" /\ l[4] = "modificarBlocked"
  BY <1>1 DEF OrdenDelMedianoPlazo, DelKernel, MutexesDelKernel
<1>3. DOMAIN l = 1..4 /\ \A i \in 1..4 : i \in {1, 2, 3, 4}
  BY <1>2
<1>4. ASSUME NEW i \in 1..4, NEW j \in 1..4, l[i] = l[j] PROVE i = j
  BY <1>2, <1>3, <1>4
<1>. QED BY <1>1, <1>2, <1>3, <1>4 DEF IsInjective

\* In both orders the mutexes of the semaphores are below that of Exec.
LEMMA SemsBajoExec ==
  ASSUME NEW s \in Sems
  PROVE  /\ Rango(OrdenDelDetector)[s] < Rango(OrdenDelDetector)["modificarExec"]
         /\ Rango(OrdenDelMedianoPlazo)[s] < Rango(OrdenDelMedianoPlazo)["modificarExec"]
<1>1. /\ s \in Mutexes /\ s \notin MutexesDeMemoria /\ s \notin MutexesDelKernel
      /\ "modificarExec" \in Mutexes /\ "modificarExec" \notin MutexesDeMemoria
      /\ "modificarExec" \in MutexesDelKernel
  <2>1. "modificarExec" \in MutexesDelKernel /\ "modificarExec" \notin MutexesDeMemoria
    BY DEF MutexesDelKernel, MutexesDeMemoria
  <2>. QED BY <2>1, NombresDistintos DEF Mutexes
<1>2. Rango(OrdenDelDetector)[s] < Rango(OrdenDelDetector)["modificarExec"]
  <2>1. PICK v : v = OrdenDelDetector
    OBVIOUS
  <2>2. PICK n \in Nat : n = Len(OrdenSems)
    BY CandadosOK
  <2>3. v \in Seq(DelKernel) /\ IsInjective(v) /\ Len(v) = n + 7 /\ v[n + 4] = "modificarExec"
    BY <2>1, <2>2, OrdenDelDetectorBien
  <2>4. Lugar(v, v[n + 4]) = n + 4
    <3>1. n + 4 \in 1..Len(v)
      BY <2>3
    <3>. QED BY <3>1, <2>3, LugarEnLista
  <2>5. Lugar(v, s) <= n + 1
    <3>1. CASE \E i \in 1..Len(v) : v[i] = s
      <4>1. PICK i \in 1..Len(v) : v[i] = s
        BY <3>1
      <4>2. Lugar(v, s) = i
        BY <4>1, <2>3, LugarEnLista
      <4>3. i <= n + 1
        BY <4>1, <2>1, <2>2, OrdenDelDetectorBien
      <4>. QED BY <4>2, <4>3
    <3>2. CASE ~\E i \in 1..Len(v) : v[i] = s
      BY <3>2 DEF Lugar
    <3>. QED BY <3>1, <3>2
  <2>6. Lugar(v, s) \in Nat
    BY <2>3 DEF Lugar
  <2>. QED BY <2>1, <2>3, <2>4, <2>5, <2>6, <1>1, RangoNat
<1>3. Rango(OrdenDelMedianoPlazo)[s] < Rango(OrdenDelMedianoPlazo)["modificarExec"]
  <2>1. PICK l : l = OrdenDelMedianoPlazo
    OBVIOUS
  <2>2. l \in Seq(DelKernel) /\ IsInjective(l) /\ Len(l) = 4 /\ l[1] = "modificarExec"
    BY <2>1, OrdenDelMedianoPlazoBien DEF OrdenDelMedianoPlazo
  <2>3. \A i \in 1..4 : l[i] \in MutexesDelKernel
    <3>1. \A i \in 1..4 : i \in {1, 2, 3, 4}
      OBVIOUS
    <3>. QED BY <3>1, <2>1 DEF OrdenDelMedianoPlazo, MutexesDelKernel
  <2>4. Lugar(l, s) = 0
    BY <2>2, <2>3, <1>1 DEF Lugar
  <2>5. Lugar(l, l[1]) = 1
    <3>1. 1 \in 1..Len(l)
      BY <2>2
    <3>. QED BY <3>1, <2>2, LugarEnLista
  <2>. QED BY <2>1, <2>2, <2>4, <2>5, <1>1, RangoNat
<1>. QED BY <1>2, <1>3

-----------------------------------------------------------------------------
(* Every operation keeps both orders, except that of the detector and that  *)
(* of thread1_PMP, which keep one each.                                     *)

EnOrden(r) ==
  /\ \A m \in Mutexes : r[m] \in Nat
  /\ \A m \in MutexesDeMemoria : r[m] = RangoDeMemoria(m)
  /\ \A s \in Sems : r[s] < r["modificarExec"]

LEMMA OrdenesBien ==
  EnOrden(Rango(OrdenDelDetector)) /\ EnOrden(Rango(OrdenDelMedianoPlazo))
<1>1. OrdenDelDetector \in Seq(DelKernel) /\ OrdenDelMedianoPlazo \in Seq(DelKernel)
  BY OrdenDelDetectorBien, OrdenDelMedianoPlazoBien
<1>2. MutexesDeMemoria \subseteq Mutexes
  BY DelKernelAparte
<1>3. ASSUME NEW ms \in Seq(DelKernel)
      PROVE  /\ \A m \in Mutexes : Rango(ms)[m] \in Nat
             /\ \A m \in MutexesDeMemoria : Rango(ms)[m] = RangoDeMemoria(m)
  BY <1>2, RangoNat
<1>. QED BY <1>1, <1>3, SemsBajoExec DEF EnOrden

LEMMA GuionDetectaDeadlock ==
  Guion(Rango(OrdenDelDetector), DelKernel, DetectaDeadlock)
<1>1. PICK v : v = OrdenDelDetector
  OBVIOUS
<1>2. PICK w : w = Reverse(ListasDelDetector) \o OrdenSems \o <<"controladorSemaforos">>
  OBVIOUS
<1>3. v \in Seq(DelKernel) /\ IsInjective(v)
      /\ ToSet(v) = {"controladorSemaforos"} \cup ToSet(OrdenSems) \cup ToSet(ListasDelDetector)
  BY <1>1, OrdenDelDetectorBien
<1>4. \A i, j \in 1..Len(v) : i < j => Rango(v)[v[i]] < Rango(v)[v[j]]
  <2>1. ASSUME NEW i \in 1..Len(v) PROVE Rango(v)[v[i]] = i
    <3>1. v[i] \in DelKernel
      BY <1>3, ElementOfSeq
    <3>2. v[i] \in Mutexes /\ v[i] \notin MutexesDeMemoria
      BY <3>1, DelKernelAparte
    <3>. QED BY <3>2, <1>3, RangoNat, LugarEnLista
  <2>. QED BY <2>1
<1>5. PICK rl : rl = Reverse(ListasDelDetector)
  OBVIOUS
<1>6. /\ rl \in Seq(MutexesDelKernel) /\ rl \in Seq(DelKernel)
      /\ IsInjective(rl) /\ ToSet(rl) = ToSet(ListasDelDetector)
  <2>1. rl \in Seq(MutexesDelKernel) /\ IsInjective(rl) /\ ToSet(rl) = ToSet(ListasDelDetector)
    BY <1>5, ListasTipo, AlReves
  <2>2. MutexesDelKernel \subseteq DelKernel
    BY DEF DelKernel
  <2>. QED BY <2>1, <2>2, SeqMonotonic
<1>7. PICK o : o = OrdenSems
  OBVIOUS
<1>8. o \in Seq(Sems) /\ o \in Seq(DelKernel) /\ IsInjective(o)
  <2>1. o \in Seq(Sems) /\ IsInjective(o)
    BY <1>7, CandadosOK
  <2>2. Sems \subseteq DelKernel
    BY DEF DelKernel
  <2>. QED BY <2>1, <2>2, SeqMonotonic
<1>9. PICK c : c = <<"controladorSemaforos">>
  OBVIOUS
<1>10. c \in Seq(DelKernel) /\ Len(c) = 1 /\ c[1] = "controladorSemaforos"
       /\ IsInjective(c) /\ ToSet(c) = {"controladorSemaforos"}
  <2>1. c \in Seq(DelKernel) /\ Len(c) = 1 /\ c[1] = "controladorSemaforos" /\ DOMAIN c = 1..1
    BY <1>9 DEF DelKernel, MutexesDelKernel
  <2>. QED BY <2>1 DEF IsInjective, ToSet
<1>11. /\ \A i \in 1..Len(rl) : rl[i] \in ToSet(ListasDelDetector)
       /\ \A i \in 1..Len(rl) : rl[i] \in MutexesDelKernel /\ rl[i] # "controladorSemaforos"
       /\ \A i \in 1..Len(o) : o[i] \in Sems
  <2>1. DOMAIN rl = 1..Len(rl)
    BY <1>6
  <2>2. \A i \in 1..Len(rl) : rl[i] \in ToSet(rl)
    BY <2>1 DEF ToSet
  <2>3. \A i \in 1..Len(rl) : rl[i] \in MutexesDelKernel
    BY <1>6, ElementOfSeq
  <2>4. \A i \in 1..Len(o) : o[i] \in Sems
    BY <1>8, ElementOfSeq
  <2>5. "controladorSemaforos" \notin ToSet(ListasDelDetector)
    <3>1. PICK l : l = ListasDelDetector
      OBVIOUS
    <3>2. DOMAIN l = 1..6 /\ \A i \in 1..6 : i \in {1, 2, 3, 4, 5, 6}
      BY <3>1, ListasTipo
    <3>3. \A i \in 1..6 : l[i] # "controladorSemaforos"
      BY <3>1, <3>2 DEF ListasDelDetector
    <3>. QED BY <3>1, <3>2, <3>3 DEF ToSet
  <2>. QED BY <2>2, <2>3, <2>4, <2>5, <1>6
<1>12. PICK u : u = rl \o o
  OBVIOUS
<1>13. u \in Seq(DelKernel) /\ IsInjective(u) /\ ToSet(u) = ToSet(ListasDelDetector) \cup ToSet(o)
  <2>1. Sems \cap MutexesDelKernel = {}
    BY NombresDistintos
  <2>2. \A i \in 1..Len(rl), j \in 1..Len(o) : rl[i] # o[j]
    BY <2>1, <1>11
  <2>3. u \in Seq(DelKernel)
    BY <1>6, <1>8, <1>12, ConcatProperties
  <2>4. IsInjective(u)
    BY <2>2, <1>6, <1>8, <1>12, ConcatInyectiva
  <2>5. ToSet(u) = ToSet(rl) \cup ToSet(o)
    BY <1>6, <1>8, <1>12, ConcatToSet
  <2>. QED BY <2>3, <2>4, <2>5, <1>6
<1>14. "controladorSemaforos" \notin ToSet(u)
  <2>1. "controladorSemaforos" \notin ToSet(ListasDelDetector)
    <3>1. \A i \in DOMAIN rl : rl[i] # "controladorSemaforos"
      BY <1>6, <1>11
    <3>2. "controladorSemaforos" \notin ToSet(rl)
      BY <3>1 DEF ToSet
    <3>. QED BY <3>2, <1>6
  <2>2. "controladorSemaforos" \notin ToSet(o)
    <3>1. DOMAIN o = 1..Len(o)
      BY <1>8
    <3>2. "controladorSemaforos" \notin Sems
      BY NombresDistintos DEF MutexesDelKernel
    <3>. QED BY <3>1, <3>2, <1>11 DEF ToSet
  <2>. QED BY <2>1, <2>2, <1>13
<1>15. w = u \o c
  BY <1>2, <1>5, <1>7, <1>9, <1>12
<1>16. w \in Seq(DelKernel) /\ IsInjective(w) /\ ToSet(w) = ToSet(u) \cup ToSet(c)
  <2>1. \A i \in 1..Len(u), j \in 1..Len(c) : u[i] # c[j]
    <3>1. DOMAIN u = 1..Len(u)
      BY <1>13
    <3>2. \A i \in 1..Len(u) : u[i] # "controladorSemaforos"
      BY <3>1, <1>14 DEF ToSet
    <3>. QED BY <3>2, <1>10
  <2>2. w \in Seq(DelKernel)
    BY <1>10, <1>13, <1>15, ConcatProperties
  <2>3. IsInjective(w)
    BY <2>1, <1>10, <1>13, <1>15, ConcatInyectiva
  <2>4. ToSet(w) = ToSet(u) \cup ToSet(c)
    BY <1>10, <1>13, <1>15, ConcatToSet
  <2>. QED BY <2>2, <2>3, <2>4
<1>17. ToSet(w) = ToSet(v)
  <2>1. ToSet(w) = ToSet(ListasDelDetector) \cup ToSet(OrdenSems) \cup {"controladorSemaforos"}
    BY <1>7, <1>10, <1>13, <1>16
  <2>. QED BY <2>1, <1>3
<1>18. Guion(Rango(v), DelKernel, LockTodos(v) \o UnlockTodos(w))
  <2>1. v # <<>>
    <3>1. Len(v) = Len(OrdenSems) + 7 /\ Len(OrdenSems) \in Nat
      BY <1>1, OrdenDelDetectorBien, CandadosOK
    <3>. QED BY <3>1
  <2>. QED BY <2>1, <1>3, <1>4, <1>16, <1>17, GuionTodos
<1>. QED BY <1>1, <1>2, <1>18 DEF DetectaDeadlock, OrdenDelDetector

LEMMA GuionSuspende ==
  Guion(Rango(OrdenDelMedianoPlazo), DelKernel, Suspende)
<1>1. PICK ms : ms = <<"modificarReady", "modificarNew", "modificarBlocked">>
  OBVIOUS
<1>2. PICK ns : ns = <<"modificarNew", "modificarReady", "modificarBlocked">>
  OBVIOUS
<1>3. PICK l : l = OrdenDelMedianoPlazo
  OBVIOUS
<1>4. /\ ms \in Seq(DelKernel) /\ Len(ms) = 3 /\ ms # <<>>
      /\ ms[1] = "modificarReady" /\ ms[2] = "modificarNew" /\ ms[3] = "modificarBlocked"
  BY <1>1 DEF DelKernel, MutexesDelKernel
<1>5. /\ ns \in Seq(DelKernel) /\ Len(ns) = 3
      /\ ns[1] = "modificarNew" /\ ns[2] = "modificarReady" /\ ns[3] = "modificarBlocked"
  BY <1>2 DEF DelKernel, MutexesDelKernel
<1>6. /\ l \in Seq(DelKernel) /\ IsInjective(l) /\ Len(l) = 4
      /\ l[2] = ms[1] /\ l[3] = ms[2] /\ l[4] = ms[3]
  BY <1>1, <1>3, OrdenDelMedianoPlazoBien DEF OrdenDelMedianoPlazo
<1>7. ASSUME NEW i \in 1..3 PROVE Rango(l)[ms[i]] = i + 1
  <2>1. l[i + 1] = ms[i] /\ i + 1 \in 1..Len(l)
    <3>1. i \in {1, 2, 3}
      OBVIOUS
    <3>. QED BY <3>1, <1>6
  <2>2. ms[i] \in Mutexes /\ ms[i] \notin MutexesDeMemoria
    <3>1. ms[i] \in DelKernel
      BY <1>4, ElementOfSeq
    <3>. QED BY <3>1, DelKernelAparte
  <2>3. Lugar(l, ms[i]) = i + 1
    BY <2>1, <1>6, LugarEnLista
  <2>. QED BY <2>2, <2>3, <1>6, RangoNat
<1>8. \A i, j \in 1..Len(ms) : i < j => Rango(l)[ms[i]] < Rango(l)[ms[j]]
  BY <1>4, <1>7
<1>9. 1..3 = {1, 2, 3} /\ DOMAIN ns = 1..3 /\ DOMAIN ms = 1..3
  BY <1>4, <1>5
<1>10. ToSet(ns) = ToSet(ms)
  BY <1>4, <1>5, <1>9 DEF ToSet
<1>11. IsInjective(ns)
  BY <1>5, <1>9 DEF IsInjective
<1>12. Guion(Rango(l), DelKernel, LockTodos(ms) \o UnlockTodos(ns))
  BY <1>4, <1>5, <1>8, <1>10, <1>11, GuionTodos
<1>. QED BY <1>1, <1>2, <1>3, <1>12 DEF Suspende

LEMMA CuatroPasos ==
  ASSUME NEW a, NEW b, NEW c, NEW d
  PROVE  <<a>> \o <<b, c>> \o <<d>> = <<a, b, c, d>>
<1>1. PICK S : S = {a, b, c, d}
  OBVIOUS
<1>2. /\ <<a>> \in Seq(S) /\ <<b, c>> \in Seq(S) /\ <<d>> \in Seq(S)
      /\ Len(<<a>>) = 1 /\ Len(<<b, c>>) = 2 /\ Len(<<d>>) = 1
  BY <1>1
<1>3. PICK u : u = <<a>> \o <<b, c>>
  OBVIOUS
<1>4. u \in Seq(S) /\ Len(u) = 3 /\ u[1] = a /\ u[2] = b /\ u[3] = c
  <2>1. /\ u \in Seq(S) /\ Len(u) = 1 + 2
        /\ \A i \in 1..(1 + 2) : u[i] = IF i <= 1 THEN <<a>>[i] ELSE <<b, c>>[i - 1]
    BY <1>2, <1>3, ConcatProperties
  <2>2. u[2] = <<b, c>>[1] /\ u[3] = <<b, c>>[2]
    BY <2>1
  <2>. QED BY <2>1, <2>2
<1>5. PICK v : v = u \o <<d>>
  OBVIOUS
<1>6. v \in Seq(S) /\ Len(v) = 4 /\ v[1] = a /\ v[2] = b /\ v[3] = c /\ v[4] = d
  <2>0. PICK e : e = <<d>>
    OBVIOUS
  <2>4. u \in Seq(S) /\ e \in Seq(S) /\ v = u \o e
    BY <2>0, <1>2, <1>4, <1>5
  <2>1. /\ v \in Seq(S) /\ Len(v) = Len(u) + Len(e)
        /\ \A i \in 1..(Len(u) + Len(e)) : v[i] = IF i <= Len(u) THEN u[i] ELSE e[i - Len(u)]
    BY <2>4, ConcatProperties
  <2>2. Len(u) = 3 /\ Len(e) = 1 /\ e[1] = d
    BY <2>0, <1>4
  <2>3. v[4] = e[1] /\ v[1] = u[1] /\ v[2] = u[2] /\ v[3] = u[3]
    BY <2>1, <2>2
  <2>. QED BY <2>1, <2>2, <2>3, <1>4
<1>7. v = <<a, b, c, d>>
  BY <1>6
<1>. QED BY <1>3, <1>5, <1>7

LEMMA GuionWait ==
  ASSUME NEW r, EnOrden(r), NEW s \in Sems
  PROVE  Guion(r, DelKernel, Wait(s))
<1>1. \A m \in DelKernel : r[m] \in Nat
  BY DelKernelAparte DEF EnOrden
<1>2. "controladorSemaforos" \in DelKernel /\ "modificarExec" \in DelKernel /\ s \in DelKernel
  BY DEF DelKernel, MutexesDelKernel
<1>3. Guion(r, {"modificarExec"}, Seccion("modificarExec"))
  BY GuionSeccion
<1>4. Guion(r, DelKernel, <<Lock(s)>> \o Seccion("modificarExec") \o <<Unlock(s)>>)
  <2>1. {"modificarExec"} \in SUBSET DelKernel /\ \A n \in {"modificarExec"} : r[s] < r[n]
    BY <1>2 DEF EnOrden
  <2>. QED BY <2>1, <1>1, <1>2, <1>3, GuionEnvuelve
<1>5. <<Lock(s)>> \o Seccion("modificarExec") \o <<Unlock(s)>>
        = <<Lock(s), Lock("modificarExec"), Unlock("modificarExec"), Unlock(s)>>
  BY CuatroPasos DEF Seccion
<1>6. Guion(r, DelKernel, Seccion("controladorSemaforos"))
  BY <1>2, GuionSeccion
<1>. QED BY <1>1, <1>4, <1>5, <1>6, GuionJunta DEF Wait

LEMMA GuionDelKernel ==
  ASSUME NEW r, EnOrden(r)
  PROVE  /\ Guion(r, DelKernel, LlegaProceso)
         /\ Guion(r, DelKernel, LargoPlazo)
         /\ Guion(r, DelKernel, AdmiteNuevo)
         /\ Guion(r, DelKernel, AdmiteSuspendido)
         /\ \A d \in Dispositivos : \A g \in FinDeIO(d) : Guion(r, DelKernel, g)
         /\ \A g \in DeRutinaDeProceso : Guion(r, DelKernel, g)
<1>1. \A m \in DelKernel : r[m] \in Nat
  BY DelKernelAparte DEF EnOrden
<1>2. \A m \in DelKernel : Guion(r, DelKernel, Seccion(m))
  BY GuionSeccion
<1>3. \A h, g : Guion(r, DelKernel, h) /\ Guion(r, DelKernel, g) => Guion(r, DelKernel, h \o g)
  BY <1>1, GuionJunta
<1>4. /\ Guion(r, DelKernel, Seccion("modificarNew"))
      /\ Guion(r, DelKernel, Seccion("modificarReady"))
      /\ Guion(r, DelKernel, Seccion("modificarExec"))
      /\ Guion(r, DelKernel, Seccion("modificarBlocked"))
      /\ Guion(r, DelKernel, Seccion("modificarSuspendedBlocked"))
      /\ Guion(r, DelKernel, Seccion("modificarSuspendedReady"))
      /\ Guion(r, DelKernel, Seccion("controladorSemaforos"))
      /\ Guion(r, DelKernel, Seccion("controladorIO"))
  BY <1>2 DEF DelKernel, MutexesDelKernel
<1>5. \A d \in Dispositivos : Guion(r, DelKernel, Seccion(d))
  BY <1>2 DEF DelKernel
<1>6. \A g \in PonerEnElReadyIndicado : Guion(r, DelKernel, g)
  BY <1>3, <1>4 DEF PonerEnElReadyIndicado
<1>7. \A s \in Sems : Guion(r, DelKernel, Wait(s)) /\ Guion(r, DelKernel, WaitBloqueante(s))
  BY <1>3, <1>4, GuionWait DEF WaitBloqueante
<1>8. \A s \in Sems : \A g \in SignalQueLibera(s) : Guion(r, DelKernel, g)
  BY <1>3, <1>6, <1>7 DEF SignalQueLibera
<1>9. \A d \in Dispositivos : Guion(r, DelKernel, OperacionIO(d))
  BY <1>3, <1>4, <1>5 DEF OperacionIO
<1>10. /\ Guion(r, DelKernel, TomaDeReady) /\ Guion(r, DelKernel, UsaExec)
       /\ Guion(r, DelKernel, UsaTabla) /\ Guion(r, DelKernel, CreaSemaforo)
  BY <1>3, <1>4 DEF TomaDeReady, UsaExec, UsaTabla, CreaSemaforo
<1>11. \A g \in DeRutinaDeProceso : Guion(r, DelKernel, g)
  BY <1>7, <1>8, <1>9, <1>10 DEF DeRutinaDeProceso
<1>12. \A d \in Dispositivos : \A g \in FinDeIO(d) : Guion(r, DelKernel, g)
  BY <1>3, <1>5, <1>6 DEF FinDeIO
<1>13. Guion(r, DelKernel, LlegaProceso) /\ Guion(r, DelKernel, LargoPlazo)
  BY <1>3, <1>4 DEF LlegaProceso, LargoPlazo
<1>14. Guion(r, DelKernel, AdmiteNuevo) /\ Guion(r, DelKernel, AdmiteSuspendido)
  BY <1>3, <1>4 DEF AdmiteNuevo, AdmiteSuspendido
<1>. QED BY <1>11, <1>12, <1>13, <1>14

\* The mutexes of the memory by their rank.
DesdeSwap == MutexesDeMemoria \ {"recorrer_marcos_mutex", "marcos_sem"}
DesdeTablas == DesdeSwap \ {"swap"}

LEMMA GuionSinSwap ==
  ASSUME NEW r, EnOrden(r)
  PROVE  /\ \A m \in DesdeTablas : Guion(r, DesdeTablas, Seccion(m))
         /\ Guion(r, DesdeTablas, ReemplazaPropia)
         /\ Guion(r, DesdeTablas, ReemplazaDeTodos)
<1>1. \A m \in DesdeTablas : r[m] \in Nat
  BY DelKernelAparte DEF EnOrden, DesdeTablas, DesdeSwap
<1>2. \A m \in DesdeTablas : Guion(r, DesdeTablas, Seccion(m))
  BY GuionSeccion
<1>3. \A h, g : Guion(r, DesdeTablas, h) /\ Guion(r, DesdeTablas, g)
                  => Guion(r, DesdeTablas, h \o g)
  BY <1>1, GuionJunta
<1>4. /\ Guion(r, DesdeTablas, Seccion("tabla_paginas"))
      /\ Guion(r, DesdeTablas, Seccion("memoria"))
      /\ Guion(r, DesdeTablas, Seccion("TLB_mutex"))
      /\ Guion(r, DesdeTablas, Seccion("listaCarpinchos"))
  BY <1>2 DEF DesdeTablas, DesdeSwap, MutexesDeMemoria
<1>5. Guion(r, DesdeTablas, ReemplazaPropia)
  BY <1>3, <1>4 DEF ReemplazaPropia
<1>6. Guion(r, DesdeTablas, ReemplazaDeTodos)
  BY <1>3, <1>4, <1>5 DEF ReemplazaDeTodos
<1>. QED BY <1>2, <1>5, <1>6

LEMMA GuionConSwap ==
  ASSUME NEW r, EnOrden(r)
  PROVE  /\ \A m \in DesdeSwap : Guion(r, DesdeSwap, Seccion(m))
         /\ \A g \in ConSwap : Guion(r, DesdeSwap, g)
         /\ \A g \in AccesoAPagina : Guion(r, DesdeSwap, g)
<1>1. \A m \in DesdeSwap : r[m] \in Nat
  BY DelKernelAparte DEF EnOrden, DesdeSwap
<1>2. \A m \in DesdeSwap : Guion(r, DesdeSwap, Seccion(m))
  BY GuionSeccion
<1>3. \A h, g : Guion(r, DesdeSwap, h) /\ Guion(r, DesdeSwap, g)
                  => Guion(r, DesdeSwap, h \o g)
  BY <1>1, GuionJunta
<1>4. /\ Guion(r, DesdeSwap, Seccion("tabla_paginas"))
      /\ Guion(r, DesdeSwap, Seccion("memoria"))
      /\ Guion(r, DesdeSwap, Seccion("TLB_mutex"))
      /\ Guion(r, DesdeSwap, Seccion("hits_sem"))
      /\ Guion(r, DesdeSwap, Seccion("miss_sem"))
  BY <1>2 DEF DesdeSwap, MutexesDeMemoria
<1>5. "swap" \in DesdeSwap /\ DesdeTablas \in SUBSET DesdeSwap
  BY DEF DesdeSwap, MutexesDeMemoria, DesdeTablas
<1>6. \A n \in DesdeTablas : r["swap"] < r[n]
  <2>1. "swap" \in MutexesDeMemoria /\ r["swap"] = 1
    BY DEF EnOrden, RangoDeMemoria, MutexesDeMemoria
  <2>2. \A n \in DesdeTablas : n \in MutexesDeMemoria /\ r[n] = RangoDeMemoria(n)
                                 /\ RangoDeMemoria(n) \in {2, 3}
    BY DEF EnOrden, RangoDeMemoria, DesdeTablas, DesdeSwap
  <2>. QED BY <2>1, <2>2
<1>7. \A g : Guion(r, DesdeTablas, g)
               => Guion(r, DesdeSwap, <<Lock("swap")>> \o g \o <<Unlock("swap")>>)
  BY <1>1, <1>5, <1>6, GuionEnvuelve
<1>8. \A g \in ConSwap : Guion(r, DesdeSwap, g)
  BY <1>7, GuionSinSwap DEF ConSwap
<1>9. Seccion("TLB_mutex") \o Seccion("tabla_paginas") \o <<>>
        = Seccion("TLB_mutex") \o Seccion("tabla_paginas")
  <2>1. Guion(r, DesdeSwap, Seccion("TLB_mutex") \o Seccion("tabla_paginas"))
    BY <1>3, <1>4
  <2>. QED BY <2>1, ConcatEmptySeq DEF Guion, Guarda
<1>10. \A g \in AccesoAPagina : Guion(r, DesdeSwap, g)
  <2>1. Guion(r, DesdeSwap, Seccion("TLB_mutex") \o Seccion("hits_sem"))
    BY <1>3, <1>4
  <2>2. \A s : Guion(r, DesdeSwap, s)
                 => Guion(r, DesdeSwap, Seccion("TLB_mutex") \o Seccion("tabla_paginas") \o s
                                          \o Seccion("TLB_mutex") \o Seccion("miss_sem"))
    BY <1>3, <1>4
  <2>3. \A g \in ConSwap :
          Guion(r, DesdeSwap, g \o Seccion("tabla_paginas") \o Seccion("memoria"))
    BY <1>3, <1>4, <1>8
  <2>4. Guion(r, DesdeSwap, Seccion("TLB_mutex") \o Seccion("tabla_paginas") \o <<>>
                              \o Seccion("TLB_mutex") \o Seccion("miss_sem"))
    BY <1>3, <1>4, <1>9
  <2>. QED BY <2>1, <2>2, <2>3, <2>4 DEF AccesoAPagina
<1>. QED BY <1>2, <1>8, <1>10

LEMMA GuionDeMemoria ==
  ASSUME NEW r, EnOrden(r)
  PROVE  \A g \in DeMemoria : Guion(r, MutexesDeMemoria, g)
<1>1. \A m \in MutexesDeMemoria : r[m] \in Nat
  BY DelKernelAparte DEF EnOrden
<1>2. \A m \in MutexesDeMemoria : Guion(r, MutexesDeMemoria, Seccion(m))
  BY GuionSeccion
<1>3. DesdeSwap \in SUBSET MutexesDeMemoria
  BY DEF DesdeSwap
<1>4. \A g : Guion(r, DesdeSwap, g) => Guion(r, MutexesDeMemoria, g)
  BY <1>1, <1>3, GuionMas
<1>5. \A m \in {"recorrer_marcos_mutex", "marcos_sem"} :
        m \in MutexesDeMemoria /\ \A n \in DesdeSwap : r[m] < r[n]
  <2>1. TAKE m \in {"recorrer_marcos_mutex", "marcos_sem"}
  <2>2. m \in MutexesDeMemoria /\ r[m] = 0
    BY DEF EnOrden, RangoDeMemoria, MutexesDeMemoria
  <2>3. \A n \in DesdeSwap : n \in MutexesDeMemoria /\ r[n] = RangoDeMemoria(n)
                               /\ RangoDeMemoria(n) \in {1, 2, 3}
    BY DEF EnOrden, RangoDeMemoria, DesdeSwap
  <2>. QED BY <2>2, <2>3
<1>6. \A h, g : Guion(r, DesdeSwap, h) /\ Guion(r, DesdeSwap, g)
                  => Guion(r, DesdeSwap, h \o g)
  BY <1>1, <1>3, GuionJunta
<1>7. /\ Guion(r, DesdeSwap, Seccion("tabla_paginas"))
      /\ Guion(r, DesdeSwap, Seccion("memoria"))
      /\ \A g \in ConSwap : Guion(r, DesdeSwap, g)
      /\ \A g \in AccesoAPagina : Guion(r, DesdeSwap, g)
  <2>1. "tabla_paginas" \in DesdeSwap /\ "memoria" \in DesdeSwap
    BY DEF DesdeSwap, MutexesDeMemoria
  <2>. QED BY <2>1, GuionConSwap
<1>8. \A m \in {"recorrer_marcos_mutex", "marcos_sem"} : \A g :
        Guion(r, DesdeSwap, g) => Guion(r, MutexesDeMemoria, <<Lock(m)>> \o g \o <<Unlock(m)>>)
  BY <1>1, <1>3, <1>5, GuionEnvuelve
<1>9. PICK P : P = Pasos(MutexesDeMemoria)
  OBVIOUS
<1>10. /\ \A g : Guion(r, DesdeSwap, g) => g \in Seq(P)
       /\ \A m \in {"recorrer_marcos_mutex", "marcos_sem"} : <<Lock(m)>> \in Seq(P)
  <2>1. \A g : Guion(r, MutexesDeMemoria, g) => g \in Seq(P)
    BY <1>9 DEF Guion, Guarda
  <2>2. \A m \in {"recorrer_marcos_mutex", "marcos_sem"} : Lock(m) \in Pasos(MutexesDeMemoria)
    BY <1>5, PasoEnM
  <2>3. \A p \in Pasos(MutexesDeMemoria) : <<p>> \in Seq(P)
    BY <1>9
  <2>. QED BY <2>1, <2>2, <2>3, <1>4
<1>11. \A g \in RecorreHeap : Guion(r, MutexesDeMemoria, g)
  <2>1. SUFFICES ASSUME NEW a \in AccesoAPagina
                 PROVE  Guion(r, MutexesDeMemoria,
                          <<Lock("recorrer_marcos_mutex")>> \o Seccion("tabla_paginas") \o a
                            \o Seccion("memoria") \o Seccion("tabla_paginas")
                            \o <<Unlock("recorrer_marcos_mutex")>>)
    BY DEF RecorreHeap
  <2>2. PICK tp, mem, l : /\ tp = Seccion("tabla_paginas") /\ mem = Seccion("memoria")
                          /\ l = <<Lock("recorrer_marcos_mutex")>>
    OBVIOUS
  <2>3. Guion(r, DesdeSwap, tp) /\ Guion(r, DesdeSwap, mem) /\ Guion(r, DesdeSwap, a)
    BY <2>2, <1>7
  <2>4. Guion(r, DesdeSwap, tp \o a \o mem \o tp) /\ Guion(r, DesdeSwap, tp \o a \o mem)
        /\ Guion(r, DesdeSwap, tp \o a)
    BY <2>3, <1>6
  <2>5. l \in Seq(P) /\ tp \in Seq(P) /\ a \in Seq(P) /\ mem \in Seq(P) /\ tp \o a \in Seq(P) /\ tp \o a \o mem \in Seq(P)
    BY <2>2, <2>3, <2>4, <1>10
  <2>6. l \o tp \o a = l \o (tp \o a)
    BY <2>5, ConcatAssociative
  <2>7. l \o (tp \o a) \o mem = l \o (tp \o a \o mem)
    <3>1. PICK x : x = tp \o a
      OBVIOUS
    <3>2. l \in Seq(P) /\ x \in Seq(P) /\ mem \in Seq(P)
      BY <3>1, <2>5
    <3>3. (l \o x) \o mem = l \o (x \o mem)
      BY <3>2, ConcatAssociative
    <3>. QED BY <3>1, <3>3
  <2>8. l \o (tp \o a \o mem) \o tp = l \o (tp \o a \o mem \o tp)
    <3>1. PICK x : x = tp \o a \o mem
      OBVIOUS
    <3>2. l \in Seq(P) /\ x \in Seq(P) /\ tp \in Seq(P)
      BY <3>1, <2>5
    <3>3. (l \o x) \o tp = l \o (x \o tp)
      BY <3>2, ConcatAssociative
    <3>. QED BY <3>1, <3>3
  <2>9. l \o tp \o a \o mem \o tp = l \o (tp \o a \o mem \o tp)
    BY <2>6, <2>7, <2>8
  <2>. QED BY <2>2, <2>4, <2>9, <1>8
<1>12. \A g \in EscribeMemoria : Guion(r, MutexesDeMemoria, g)
  <2>1. SUFFICES ASSUME NEW a \in {<<>>} \cup ConSwap
                 PROVE  Guion(r, MutexesDeMemoria,
                          <<Lock("marcos_sem")>> \o a \o Seccion("memoria")
                            \o Seccion("tabla_paginas") \o <<Unlock("marcos_sem")>>)
    BY DEF EscribeMemoria
  <2>2. PICK tp, mem, l : /\ tp = Seccion("tabla_paginas") /\ mem = Seccion("memoria")
                          /\ l = <<Lock("marcos_sem")>>
    OBVIOUS
  <2>3. Guion(r, DesdeSwap, tp) /\ Guion(r, DesdeSwap, mem)
    BY <2>2, <1>7
  <2>4. a \in Seq(P) /\ Guion(r, DesdeSwap, a \o mem)
    <3>1. CASE a = <<>>
      <4>1. a \o mem = mem
        BY <3>1, <2>3, ConcatEmptySeq DEF Guion, Guarda
      <4>. QED BY <3>1, <4>1, <2>3
    <3>2. CASE a \in ConSwap
      BY <3>2, <2>3, <1>6, <1>7, <1>10
    <3>. QED BY <3>1, <3>2
  <2>9. Guion(r, DesdeSwap, a \o mem \o tp)
    BY <2>3, <2>4, <1>6
  <2>5. l \in Seq(P) /\ tp \in Seq(P) /\ a \in Seq(P) /\ mem \in Seq(P) /\ a \o mem \in Seq(P)
    BY <2>2, <2>3, <2>4, <1>10
  <2>6. l \o a \o mem = l \o (a \o mem)
    BY <2>5, ConcatAssociative
  <2>7. l \o (a \o mem) \o tp = l \o (a \o mem \o tp)
    <3>1. PICK x : x = a \o mem
      OBVIOUS
    <3>2. l \in Seq(P) /\ x \in Seq(P) /\ tp \in Seq(P)
      BY <3>1, <2>5
    <3>3. (l \o x) \o tp = l \o (x \o tp)
      BY <3>2, ConcatAssociative
    <3>. QED BY <3>1, <3>3
  <2>8. l \o a \o mem \o tp = l \o (a \o mem \o tp)
    BY <2>6, <2>7
  <2>. QED BY <2>2, <2>8, <2>9, <1>8
<1>13. Guion(r, MutexesDeMemoria, PrimerasEnTLB)
  <2>1. Guion(r, {"TLB_mutex"}, Seccion("TLB_mutex"))
    BY GuionSeccion
  <2>2. "tabla_paginas" \in MutexesDeMemoria /\ "TLB_mutex" \in MutexesDeMemoria
    BY DEF MutexesDeMemoria
  <2>3. r["tabla_paginas"] = 2 /\ r["TLB_mutex"] = 3
    BY <2>2 DEF EnOrden, RangoDeMemoria
  <2>4. {"TLB_mutex"} \in SUBSET MutexesDeMemoria
        /\ \A n \in {"TLB_mutex"} : r["tabla_paginas"] < r[n]
    BY <2>2, <2>3
  <2>. QED BY <2>1, <2>2, <2>4, <1>1, GuionEnvuelve DEF PrimerasEnTLB
<1>14. Sueltos \subseteq MutexesDeMemoria
  BY DEF Sueltos, MutexesDeMemoria
<1>. QED BY <1>2, <1>4, <1>7, <1>11, <1>12, <1>13, <1>14 DEF DeMemoria

\* The mutexes that a thread may take.
MutexesDe(t) == IF t \in Carpinchos THEN MutexesDeMemoria ELSE DelKernel

Todos == CPUs \cup Dispositivos \cup Planificadores \cup Carpinchos

LEMMA OperacionesEnOrden ==
  ASSUME NEW t \in Todos, NEW g \in Operaciones(t)
  PROVE  /\ t # "thread1_PMP" => Guion(Rango(OrdenDelDetector), MutexesDe(t), g)
         /\ t # "deadlock" => Guion(Rango(OrdenDelMedianoPlazo), MutexesDe(t), g)
<1>1. PICK p, q : p = Rango(OrdenDelDetector) /\ q = Rango(OrdenDelMedianoPlazo)
  OBVIOUS
<1>2. EnOrden(p) /\ EnOrden(q)
  BY <1>1, OrdenesBien
<1>3. \A x \in Planificadores : x \notin CPUs /\ x \notin Dispositivos /\ x \notin Carpinchos
  BY NombresDistintos
<1>4. \A x \in Dispositivos : x \notin CPUs /\ x \notin Planificadores /\ x \notin Carpinchos
  BY NombresDistintos
<1>5. \A x \in CPUs : x \notin Dispositivos /\ x \notin Planificadores /\ x \notin Carpinchos
  BY NombresDistintos
<1>6. \A x \in Carpinchos : x \notin Dispositivos /\ x \notin Planificadores /\ x \notin CPUs
  BY NombresDistintos
<1>7. CASE t \in Planificadores
  <2>1. MutexesDe(t) = DelKernel
    BY <1>3, <1>7 DEF MutexesDe
  <2>2. CASE t = "servidor"
    <3>1. g = LlegaProceso
      BY <2>2, <1>3, <1>7 DEF Operaciones
    <3>. QED BY <2>1, <3>1, <1>1, <1>2, GuionDelKernel
  <2>3. CASE t = "largoPlazo"
    <3>1. g = LargoPlazo
      BY <2>3, <1>3, <1>7 DEF Operaciones
    <3>. QED BY <2>1, <3>1, <1>1, <1>2, GuionDelKernel
  <2>4. CASE t = "thread1_PMP"
    <3>1. g = Suspende
      BY <2>4, <1>3, <1>7 DEF Operaciones
    <3>. QED BY <2>1, <2>4, <3>1, GuionSuspende
  <2>5. CASE t = "thread2_PMP"
    <3>1. g \in {AdmiteNuevo, AdmiteSuspendido}
      BY <2>5, <1>3, <1>7 DEF Operaciones
    <3>. QED BY <2>1, <3>1, <1>1, <1>2, GuionDelKernel
  <2>6. CASE t = "deadlock"
    <3>1. g = DetectaDeadlock
      BY <2>6, <1>3, <1>7 DEF Operaciones
    <3>. QED BY <2>1, <2>6, <3>1, GuionDetectaDeadlock
  <2>. QED BY <1>7, <2>2, <2>3, <2>4, <2>5, <2>6 DEF Planificadores
<1>8. ASSUME t \notin Planificadores
      PROVE  /\ t # "servidor" /\ t # "largoPlazo" /\ t # "thread1_PMP"
             /\ t # "thread2_PMP" /\ t # "deadlock"
  BY <1>8 DEF Planificadores
<1>9. CASE t \in Dispositivos
  <2>1. MutexesDe(t) = DelKernel
    BY <1>4, <1>9 DEF MutexesDe
  <2>2. t \notin Planificadores
    BY <1>4, <1>9
  <2>3. g \in FinDeIO(t)
    BY <2>2, <1>4, <1>8, <1>9 DEF Operaciones
  <2>. QED BY <2>1, <2>3, <1>1, <1>2, <1>9, GuionDelKernel
<1>10. CASE t \in CPUs
  <2>1. MutexesDe(t) = DelKernel
    BY <1>5, <1>10 DEF MutexesDe
  <2>2. t \notin Planificadores /\ t \notin Dispositivos
    BY <1>5, <1>10
  <2>3. g \in DeRutinaDeProceso
    BY <2>2, <1>5, <1>8, <1>10 DEF Operaciones
  <2>. QED BY <2>1, <2>3, <1>1, <1>2, GuionDelKernel
<1>11. CASE t \in Carpinchos
  <2>1. MutexesDe(t) = MutexesDeMemoria
    BY <1>11 DEF MutexesDe
  <2>2. t \notin Planificadores /\ t \notin Dispositivos /\ t \notin CPUs
    BY <1>6, <1>11
  <2>3. g \in DeMemoria
    BY <2>2, <1>8, <1>11 DEF Operaciones
  <2>. QED BY <2>1, <2>3, <1>1, <1>2, GuionDeMemoria
<1>. QED BY <1>7, <1>9, <1>10, <1>11 DEF Todos

-----------------------------------------------------------------------------
(* The invariant.                                                          *)

\* t, which holds H and has g left, keeps the orders.
Ordenado(t, g, H) ==
  /\ t # "thread1_PMP" => Guarda(Rango(OrdenDelDetector), MutexesDe(t), g, H)
  /\ t # "deadlock" => Guarda(Rango(OrdenDelMedianoPlazo), MutexesDe(t), g, H)

\* t, which holds H, n signals came, waits for itself in the handler.
Atrapado(t, g, H, n) ==
  /\ t \in Carpinchos /\ n > 0
  /\ "TLB_mutex" \in H
  /\ g # <<>> /\ Head(g) = Lock("TLB_mutex")

IInv ==
  /\ Hilos \in Elencos
  /\ seniales \in 0..MaxSeniales
  /\ guion \in [Hilos -> Seq(Pasos(Mutexes))]
  /\ tiene \in [Hilos -> SUBSET Mutexes]
  /\ \A t \in Hilos : Ordenado(t, guion[t], tiene[t]) \/ Atrapado(t, guion[t], tiene[t], seniales)

LEMMA MutexesDeEn == \A t : MutexesDe(t) \subseteq Mutexes
BY DelKernelAparte DEF MutexesDe

\* A step of an ordered thread, by its first lock or unlock.
LEMMA OrdenadoPaso ==
  ASSUME NEW t, NEW g, NEW H, Ordenado(t, g, H), g # <<>>
  PROVE  /\ g \in Seq(Pasos(Mutexes))
         /\ Head(g).mutex \in Mutexes
         /\ Head(g).hace \in {"lock", "unlock"}
         /\ Head(g).hace = "lock" => Ordenado(t, Tail(g), H \cup {Head(g).mutex})
         /\ Head(g).hace = "unlock"
              => Head(g).mutex \in H /\ Ordenado(t, Tail(g), H \ {Head(g).mutex})
<1>1. \A r : Guarda(r, MutexesDe(t), g, H) => g \in Seq(Pasos(Mutexes))
  <2>1. Pasos(MutexesDe(t)) \subseteq Pasos(Mutexes)
    BY MutexesDeEn DEF Pasos
  <2>2. ASSUME g \in Seq(Pasos(MutexesDe(t))) PROVE g \in Seq(Pasos(Mutexes))
    BY <2>1, <2>2, SeqMonotonic
  <2>. QED BY <2>2 DEF Guarda
<1>2. ASSUME NEW r, Guarda(r, MutexesDe(t), g, H)
      PROVE  /\ Head(g).mutex \in Mutexes
             /\ Head(g).hace \in {"lock", "unlock"}
             /\ Head(g).hace = "lock"
                  => Guarda(r, MutexesDe(t), Tail(g), H \cup {Head(g).mutex})
             /\ Head(g).hace = "unlock"
                  => /\ Head(g).mutex \in H
                     /\ Guarda(r, MutexesDe(t), Tail(g), H \ {Head(g).mutex})
  <2>1. /\ Head(g).mutex \in MutexesDe(t)
        /\ \/ /\ Head(g).hace = "lock"
              /\ Guarda(r, MutexesDe(t), Tail(g), H \cup {Head(g).mutex})
           \/ /\ Head(g).hace = "unlock"
              /\ Head(g).mutex \in H
              /\ Guarda(r, MutexesDe(t), Tail(g), H \ {Head(g).mutex})
    BY <1>2, GuardaPaso
  <2>2. "lock" # "unlock"
    OBVIOUS
  <2>. QED BY <2>1, <2>2, MutexesDeEn
<1>3. "thread1_PMP" # "deadlock"
  OBVIOUS
<1>. QED BY <1>1, <1>2, <1>3 DEF Ordenado

\* A signal comes to an ordered thread that does not hold the mutex of the TLB.
LEMMA OrdenadoSenial ==
  ASSUME NEW t \in Carpinchos, NEW g, NEW H \in SUBSET Mutexes, Ordenado(t, g, H),
         "TLB_mutex" \notin H
  PROVE  Ordenado(t, ManejadorDeSeniales \o g, H)
<1>1. MutexesDe(t) = MutexesDeMemoria
  BY DEF MutexesDe
<1>2. "TLB_mutex" \in MutexesDeMemoria
  BY DEF MutexesDeMemoria
<1>3. ASSUME NEW r, EnOrden(r), Guarda(r, MutexesDeMemoria, g, H)
      PROVE  Guarda(r, MutexesDeMemoria, Seccion("TLB_mutex") \o g, H)
  <2>1. H \in SUBSET MutexesDeMemoria
    BY <1>3 DEF Guarda, Tenencias
  <2>2. Guion(r, {"TLB_mutex"}, Seccion("TLB_mutex"))
    BY GuionSeccion
  <2>3. \A m \in MutexesDeMemoria : r[m] \in Nat /\ (m # "TLB_mutex" => r[m] < r["TLB_mutex"])
    BY <1>2, <1>3 DEF EnOrden, RangoDeMemoria
  <2>4. \A m \in H, n \in {"TLB_mutex"} : r[m] < r[n]
    BY <2>1, <2>3
  <2>5. {"TLB_mutex"} \in SUBSET MutexesDeMemoria
    BY <1>2
  <2>. QED BY <2>1, <2>2, <2>3, <2>4, <2>5, <1>3, GuardaAntes
<1>. QED BY <1>1, <1>3, OrdenesBien DEF Ordenado, ManejadorDeSeniales

LEMMA IInvInit == Init => IInv
<1>1. SUFFICES ASSUME Init PROVE IInv
  OBVIOUS
<1>2. Hilos \in Elencos /\ seniales \in 0..MaxSeniales
  BY <1>1, CandadosOK DEF Init
<1>3. /\ guion \in [Hilos -> Seq(Pasos(Mutexes))] /\ tiene \in [Hilos -> SUBSET Mutexes]
      /\ \A t \in Hilos : guion[t] = <<>> /\ tiene[t] = {}
  BY <1>1 DEF Init
<1>4. \A t \in Hilos : Ordenado(t, guion[t], tiene[t])
  BY <1>3, GuardaVacio DEF Ordenado
<1>. QED BY <1>2, <1>3, <1>4 DEF IInv

\* t takes m and goes on with the rest.
LEMMA TomaPaso ==
  ASSUME IInv, NEW t \in Hilos, NEW m \in Mutexes, NEW resto \in Seq(Pasos(Mutexes)),
         Toma(t, m, resto), Ordenado(t, resto, tiene[t] \cup {m})
  PROVE  IInv'
<1>1. /\ guion' = [guion EXCEPT ![t] = resto]
      /\ tiene' = [tiene EXCEPT ![t] = tiene[t] \cup {m}]
      /\ Hilos' = Hilos /\ seniales' = seniales
  BY DEF Toma
<1>2. guion' \in [Hilos -> Seq(Pasos(Mutexes))] /\ tiene' \in [Hilos -> SUBSET Mutexes]
  BY <1>1 DEF IInv
<1>3. guion'[t] = resto /\ tiene'[t] = tiene[t] \cup {m}
  BY <1>1 DEF IInv
<1>4. \A u \in Hilos \ {t} : guion'[u] = guion[u] /\ tiene'[u] = tiene[u]
  BY <1>1 DEF IInv
<1>5. \A u \in Hilos : Ordenado(u, guion'[u], tiene'[u]) \/ Atrapado(u, guion'[u], tiene'[u], seniales)
  BY <1>3, <1>4 DEF IInv
<1>. QED BY <1>1, <1>2, <1>5 DEF IInv

LEMMA EmpiezaPaso ==
  ASSUME IInv, NEW t \in Hilos, Empieza(t)
  PROVE  IInv'
<1>1. PICK g \in Operaciones(t) : Toma(t, Head(g).mutex, Tail(g))
  BY DEF Empieza
<1>2. guion[t] = <<>> /\ t \in Todos
  BY CandadosOK DEF Empieza, IInv, Todos
<1>3. tiene[t] = {}
  <2>1. Ordenado(t, <<>>, tiene[t])
    BY <1>2 DEF IInv, Atrapado
  <2>2. "thread1_PMP" # "deadlock"
    OBVIOUS
  <2>. QED BY <2>1, <2>2, GuardaFin DEF Ordenado
<1>4. Ordenado(t, g, {}) /\ g # <<>>
  <2>1. "thread1_PMP" # "deadlock"
    OBVIOUS
  <2>. QED BY <2>1, <1>2, OperacionesEnOrden DEF Guion, Ordenado
<1>5. /\ g \in Seq(Pasos(Mutexes)) /\ Head(g).mutex \in Mutexes
      /\ Ordenado(t, Tail(g), {} \cup {Head(g).mutex})
  BY <1>4, OrdenadoPaso
<1>6. Tail(g) \in Seq(Pasos(Mutexes))
  BY <1>4, <1>5, HeadTailProperties
<1>. QED BY <1>1, <1>3, <1>5, <1>6, TomaPaso

LEMMA BloqueaPaso ==
  ASSUME IInv, NEW t \in Hilos, Bloquea(t)
  PROVE  IInv'
<1>1. PICK g : g = guion[t]
  OBVIOUS
<1>2. /\ g # <<>> /\ Head(g).hace = "lock" /\ Toma(t, Head(g).mutex, Tail(g))
  BY <1>1 DEF Bloquea
<1>3. ~Atrapado(t, g, tiene[t], seniales)
  <2>1. Head(g).mutex \notin tiene[t]
    BY <1>2 DEF Toma
  <2>. QED BY <2>1 DEF Atrapado, Lock
<1>4. Ordenado(t, g, tiene[t])
  BY <1>1, <1>3 DEF IInv
<1>5. /\ g \in Seq(Pasos(Mutexes)) /\ Head(g).mutex \in Mutexes
      /\ Ordenado(t, Tail(g), tiene[t] \cup {Head(g).mutex})
  BY <1>2, <1>4, OrdenadoPaso
<1>6. Tail(g) \in Seq(Pasos(Mutexes))
  BY <1>2, <1>5, HeadTailProperties
<1>. QED BY <1>2, <1>5, <1>6, TomaPaso

LEMMA DesbloqueaPaso ==
  ASSUME IInv, NEW t \in Hilos, Desbloquea(t)
  PROVE  IInv'
<1>1. PICK g : g = guion[t]
  OBVIOUS
<1>2. PICK m : m = Head(g).mutex
  OBVIOUS
<1>3. /\ g # <<>> /\ Head(g).hace = "unlock"
      /\ tiene' = [tiene EXCEPT ![t] = tiene[t] \ {m}]
      /\ guion' = [guion EXCEPT ![t] = Tail(g)]
      /\ Hilos' = Hilos /\ seniales' = seniales
  BY <1>1, <1>2 DEF Desbloquea
<1>4. ~Atrapado(t, g, tiene[t], seniales)
  <2>1. "lock" # "unlock"
    OBVIOUS
  <2>. QED BY <2>1, <1>3 DEF Atrapado, Lock
<1>5. Ordenado(t, g, tiene[t])
  BY <1>1, <1>4 DEF IInv
<1>6. g \in Seq(Pasos(Mutexes)) /\ Ordenado(t, Tail(g), tiene[t] \ {m})
  BY <1>2, <1>3, <1>5, OrdenadoPaso
<1>7. Tail(g) \in Seq(Pasos(Mutexes))
  BY <1>3, <1>6, HeadTailProperties
<1>8. guion' \in [Hilos -> Seq(Pasos(Mutexes))] /\ tiene' \in [Hilos -> SUBSET Mutexes]
  BY <1>3, <1>7 DEF IInv
<1>9. guion'[t] = Tail(g) /\ tiene'[t] = tiene[t] \ {m}
  BY <1>3 DEF IInv
<1>10. \A u \in Hilos \ {t} : guion'[u] = guion[u] /\ tiene'[u] = tiene[u]
  BY <1>3 DEF IInv
<1>11. \A u \in Hilos : Ordenado(u, guion'[u], tiene'[u]) \/ Atrapado(u, guion'[u], tiene'[u], seniales)
  BY <1>6, <1>9, <1>10 DEF IInv
<1>. QED BY <1>3, <1>8, <1>11 DEF IInv

LEMMA LlegaSenialPaso ==
  ASSUME IInv, NEW t \in Hilos, LlegaSenial(t)
  PROVE  IInv'
<1>1. PICK g : g = ManejadorDeSeniales \o guion[t]
  OBVIOUS
<1>2. /\ t \in Carpinchos /\ seniales < MaxSeniales /\ seniales' = seniales + 1
      /\ guion' = [guion EXCEPT ![t] = g]
      /\ Hilos' = Hilos /\ tiene' = tiene
  BY <1>1 DEF LlegaSenial
<1>3. /\ g \in Seq(Pasos(Mutexes)) /\ g # <<>> /\ Head(g) = Lock("TLB_mutex")
  <2>1. PICK a, b : a = ManejadorDeSeniales /\ b = guion[t]
    OBVIOUS
  <2>2. /\ a \in Seq(Pasos(Mutexes)) /\ Len(a) = 2 /\ a[1] = Lock("TLB_mutex")
        /\ b \in Seq(Pasos(Mutexes))
    <3>1. "TLB_mutex" \in Mutexes
      BY DEF Mutexes, MutexesDeMemoria
    <3>2. Lock("TLB_mutex") \in Pasos(Mutexes) /\ Unlock("TLB_mutex") \in Pasos(Mutexes)
      BY <3>1, PasoEnM
    <3>. QED BY <2>1, <3>2 DEF ManejadorDeSeniales, Seccion, IInv
  <2>3. /\ g \in Seq(Pasos(Mutexes)) /\ Len(g) = Len(a) + Len(b)
        /\ \A i \in 1..(Len(a) + Len(b)) : g[i] = IF i <= Len(a) THEN a[i] ELSE b[i - Len(a)]
    BY <1>1, <2>1, <2>2, ConcatProperties
  <2>4. Len(b) \in Nat
    BY <2>2
  <2>5. 1 \in 1..(Len(a) + Len(b)) /\ 1 <= Len(a)
    BY <2>2, <2>4
  <2>6. g[1] = Lock("TLB_mutex") /\ Len(g) >= 1
    BY <2>2, <2>3, <2>4, <2>5
  <2>. QED BY <2>3, <2>6
<1>4. MaxSeniales \in Nat /\ seniales \in 0..MaxSeniales
  BY CandadosOK DEF IInv
<1>5. seniales' \in 0..MaxSeniales /\ seniales' > 0
  BY <1>2, <1>4
<1>6. guion' \in [Hilos -> Seq(Pasos(Mutexes))]
  BY <1>2, <1>3 DEF IInv
<1>7. guion'[t] = g /\ \A u \in Hilos \ {t} : guion'[u] = guion[u]
  BY <1>2 DEF IInv
<1>8. Ordenado(t, g, tiene[t]) \/ Atrapado(t, g, tiene[t], seniales')
  <2>1. CASE "TLB_mutex" \in tiene[t]
    BY <2>1, <1>2, <1>3, <1>5 DEF Atrapado
  <2>2. CASE "TLB_mutex" \notin tiene[t]
    <3>1. Ordenado(t, guion[t], tiene[t]) /\ tiene[t] \in SUBSET Mutexes
      BY <2>2 DEF IInv, Atrapado
    <3>. QED BY <1>1, <1>2, <2>2, <3>1, OrdenadoSenial
  <2>. QED BY <2>1, <2>2
<1>9. ASSUME NEW u \in Hilos
      PROVE  Ordenado(u, guion'[u], tiene'[u]) \/ Atrapado(u, guion'[u], tiene'[u], seniales')
  <2>1. CASE u = t
    BY <2>1, <1>2, <1>7, <1>8
  <2>2. CASE u # t
    <3>1. Ordenado(u, guion[u], tiene[u]) \/ Atrapado(u, guion[u], tiene[u], seniales)
      BY DEF IInv
    <3>2. Atrapado(u, guion[u], tiene[u], seniales) => Atrapado(u, guion[u], tiene[u], seniales')
      BY <1>5 DEF Atrapado
    <3>. QED BY <2>2, <3>1, <3>2, <1>2, <1>7
  <2>. QED BY <2>1, <2>2
<1>. QED BY <1>2, <1>5, <1>6, <1>9 DEF IInv

THEOREM Invariante == Spec => []IInv
<1>1. IInv /\ [Next]_vars => IInv'
  <2>1. SUFFICES ASSUME IInv, [Next]_vars PROVE IInv'
    OBVIOUS
  <2>2. CASE Next
    BY <2>1, <2>2, EmpiezaPaso, BloqueaPaso, DesbloqueaPaso, LlegaSenialPaso DEF Next
  <2>3. CASE UNCHANGED vars
    BY <2>1, <2>3 DEF vars, IInv
  <2>. QED BY <2>1, <2>2, <2>3
<1>. QED BY IInvInit, <1>1, PTL DEF Spec

-----------------------------------------------------------------------------
(* The properties.                                                         *)

\* A thread unlocks only what it holds, and ends its operation with nothing
\* held, for any number of threads, semaphores and devices.
THEOREM TiposDeLosCandados == Spec => []TypeOK
<1>1. IInv => TypeOK
  <2>1. SUFFICES ASSUME IInv PROVE TypeOK
    OBVIOUS
  <2>2. "thread1_PMP" # "deadlock" /\ "lock" # "unlock"
    OBVIOUS
  <2>3. ASSUME NEW t \in Hilos, guion[t] # <<>>, Head(guion[t]).hace = "unlock"
        PROVE  Head(guion[t]).mutex \in tiene[t]
    <3>1. ~Atrapado(t, guion[t], tiene[t], seniales)
      BY <2>2, <2>3 DEF Atrapado, Lock
    <3>2. Ordenado(t, guion[t], tiene[t])
      BY <2>1, <3>1 DEF IInv
    <3>. QED BY <2>3, <3>2, OrdenadoPaso
  <2>4. ASSUME NEW t \in Hilos, guion[t] = <<>>
        PROVE  tiene[t] = {}
    <3>1. Ordenado(t, <<>>, tiene[t])
      BY <2>1, <2>4 DEF IInv, Atrapado
    <3>. QED BY <3>1, <2>2, GuardaFin DEF Ordenado
  <2>5. Hilos \in Elencos /\ seniales \in 0..MaxSeniales
        /\ DOMAIN guion = Hilos /\ DOMAIN tiene = Hilos
    BY <2>1 DEF IInv
  <2>. QED BY <2>3, <2>4, <2>5 DEF TypeOK
<1>. QED BY Invariante, <1>1, PTL

\* A set of natural numbers that is not empty has a least element.
LEMMA HayMenor ==
  ASSUME NEW T, T \subseteq Nat, T # {}
  PROVE  \E i \in T : \A j \in T : i <= j
<1>1. IsWellFoundedOn(OpToRel(<, Nat), Nat)
  BY NatLessThanWellFounded
<1>2. PICK i \in T : \A j \in T : ~ (<<j, i>> \in OpToRel(<, Nat))
  BY <1>1, WFMin
<1>3. ASSUME NEW j \in T PROVE i <= j
  <2>1. i \in Nat /\ j \in Nat
    OBVIOUS
  <2>2. ~ (<<j, i>> \in OpToRel(<, Nat))
    BY <1>2
  <2>3. ~ (j < i)
    BY <2>1, <2>2 DEF OpToRel
  <2>. QED BY <2>1, <2>3
<1>. QED BY <1>3

\* Threads that keep one order do not wait for each other in a circle.
LEMMA SinCirculo ==
  ASSUME NEW ms \in Seq(DelKernel), NEW S, S # {},
         \A t \in S : Guarda(Rango(ms), MutexesDe(t), guion[t], tiene[t])
  PROVE  ~ \A t \in S : \E u \in S : EsperaA(t, u)
<1>1. SUFFICES ASSUME \A t \in S : \E u \in S : EsperaA(t, u)
               PROVE  FALSE
  OBVIOUS
<1>2. PICK r : r = Rango(ms)
  OBVIOUS
<1>3. PICK n \in Nat : n = Len(ms) + 3
  BY LenProperties
<1>4. \A t \in S : guion[t] # <<>> /\ Head(guion[t]).hace = "lock"
  BY <1>1 DEF EsperaA
<1>5. ASSUME NEW t \in S
      PROVE  /\ r[Head(guion[t]).mutex] \in Nat /\ r[Head(guion[t]).mutex] <= n
             /\ \A m \in tiene[t] : r[m] < r[Head(guion[t]).mutex]
  <2>1. /\ Head(guion[t]).mutex \in MutexesDe(t)
        /\ \A m \in tiene[t] : r[m] < r[Head(guion[t]).mutex]
    <3>1. Guarda(r, MutexesDe(t), guion[t], tiene[t])
      BY <1>2
    <3>2. "lock" # "unlock"
      OBVIOUS
    <3>. QED BY <3>1, <3>2, <1>4, GuardaPaso
  <2>2. Head(guion[t]).mutex \in Mutexes
    BY <2>1, MutexesDeEn
  <2>. QED BY <2>1, <2>2, <1>2, <1>3, RangoNat
<1>. DEFINE T == {n - r[Head(guion[t]).mutex] : t \in S}
<1>6. T \subseteq Nat /\ T # {}
  BY <1>5
<1>7. PICK i \in T : \A j \in T : i <= j
  BY <1>6, HayMenor
<1>8. PICK t \in S : i = n - r[Head(guion[t]).mutex]
  BY <1>7
<1>9. PICK u \in S : EsperaA(t, u)
  BY <1>1
<1>10. r[Head(guion[t]).mutex] < r[Head(guion[u]).mutex]
  BY <1>5, <1>9 DEF EsperaA
<1>11. n - r[Head(guion[u]).mutex] < n - r[Head(guion[t]).mutex]
  BY <1>5, <1>10
<1>12. n - r[Head(guion[u]).mutex] \in T
  OBVIOUS
<1>13. n - r[Head(guion[t]).mutex] <= n - r[Head(guion[u]).mutex]
  BY <1>7, <1>8, <1>12
<1>. QED BY <1>5, <1>11, <1>13

\* Whatever the number of threads, semaphores and devices, a circle of threads
\* that wait for each other's mutexes is that of the detector with thread1_PMP,
\* or that of a thread of the memory with its own signal handler.
THEOREM SoloDosCirculos == Spec => []CirculosConocidos
<1>1. IInv => CirculosConocidos
  <2>1. SUFFICES ASSUME IInv, NEW S \in SUBSET Esperan, Atascados(S),
                        ~({"thread1_PMP", "deadlock"} \subseteq S)
                 PROVE  seniales > 0 /\ \E t \in S \cap Carpinchos :
                          "TLB_mutex" \in tiene[t] /\ EsperaA(t, t)
    BY DEF CirculosConocidos
  <2>2. S \subseteq Hilos /\ S # {} /\ \A t \in S : \E u \in S : EsperaA(t, u)
    BY <2>1 DEF Esperan, Atascados
  <2>3. CASE \E t \in S : Atrapado(t, guion[t], tiene[t], seniales)
    <3>1. PICK t \in S : Atrapado(t, guion[t], tiene[t], seniales)
      BY <2>3
    <3>2. EsperaA(t, t)
      BY <3>1 DEF Atrapado, EsperaA, Lock
    <3>. QED BY <3>1, <3>2 DEF Atrapado
  <2>4. CASE ~\E t \in S : Atrapado(t, guion[t], tiene[t], seniales)
    <3>1. \A t \in S : Ordenado(t, guion[t], tiene[t])
      BY <2>1, <2>2, <2>4 DEF IInv
    <3>2. CASE "thread1_PMP" \notin S
      <4>1. \A t \in S : Guarda(Rango(OrdenDelDetector), MutexesDe(t), guion[t], tiene[t])
        BY <3>1, <3>2 DEF Ordenado
      <4>2. OrdenDelDetector \in Seq(DelKernel)
        BY OrdenDelDetectorBien
      <4>. QED BY <2>2, <4>1, <4>2, SinCirculo
    <3>3. CASE "deadlock" \notin S
      <4>1. \A t \in S : Guarda(Rango(OrdenDelMedianoPlazo), MutexesDe(t), guion[t], tiene[t])
        BY <3>1, <3>3 DEF Ordenado
      <4>2. OrdenDelMedianoPlazo \in Seq(DelKernel)
        BY OrdenDelMedianoPlazoBien
      <4>. QED BY <2>2, <4>1, <4>2, SinCirculo
    <3>. QED BY <2>1, <3>2, <3>3
  <2>. QED BY <2>3, <2>4
<1>. QED BY Invariante, <1>1, PTL

=============================================================================
