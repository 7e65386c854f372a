---------------------------- MODULE LemasGenerales ---------------------------
(***************************************************************************)
(* What the proofs of several components cite: the ring that the belts of  *)
(* src/api are made of, and sums over a finite set, of tokens or of bags.  *)
(***************************************************************************)
EXTENDS Integers, Sequences, SequenceTheorems, FiniteSetsExt, FiniteSetTheorems,
        NaturalsInduction, WellFoundedInduction, TLAPS

-----------------------------------------------------------------------------
(* The ring: a vector of T slots, posicion_ocupada and posicion_libre that *)
(* advance modulo T, and the number of bags                                *)

(* What a ring v of T slots holds, the oldest first: n bags from slot o on. *)
EnOrden(v, o, n, T) == [i \in 1..n |-> v[(o + i - 1) % T]]

(* w is v with e in the slot after the last one of those n. *)
Coloca(v, w, o, n, T, e) ==
  /\ T \in Nat \ {0}
  /\ DOMAIN v = 0..T - 1
  /\ o \in 0..T - 1
  /\ n \in 0..T - 1
  /\ w = [v EXCEPT ![(o + n) % T] = e]

(* The ring has n bags from slot o on, at least one. *)
Ocupado(v, o, n, T) ==
  /\ T \in Nat \ {0}
  /\ DOMAIN v = 0..T - 1
  /\ o \in 0..T - 1
  /\ n \in 1..T

-----------------------------------------------------------------------------
(* The remainder by the size of the belt is an index of the vector. *)
LEMMA RestoEnRango ==
  ASSUME NEW T \in Nat, T > 0, NEW i \in Nat
  PROVE  i % T \in 0..T - 1
  OBVIOUS

(* Within two turns of the ring the remainder is a subtraction at most. *)
LEMMA RestoDosVueltas ==
  ASSUME NEW T \in Nat, T > 0, NEW i \in Nat, i < 2 * T
  PROVE  i % T = IF i < T THEN i ELSE i - T
  OBVIOUS

(* The position after the last slot is the first one. *)
LEMMA AvanceDePosicion ==
  ASSUME NEW T \in Nat, T > 0, NEW i \in 0..T - 1
  PROVE  /\ (i + 1) % T = IF i + 1 < T THEN i + 1 ELSE 0
         /\ (i + 1) % T \in 0..T - 1
  BY RestoEnRango, RestoDosVueltas

(* Moving either end of the ring keeps its two positions coherent. *)
LEMMA AvanceCoherente ==
  ASSUME NEW T \in Nat, T > 0, NEW o \in 0..T - 1, NEW c \in 0..T
  PROVE  /\ (((o + c) % T) + 1) % T = (o + c + 1) % T
         /\ c > 0 => (((o + 1) % T) + (c - 1)) % T = (o + c) % T
  <1>1. (o + c) % T = IF o + c < T THEN o + c ELSE o + c - T
    BY RestoDosVueltas
  <1>2. (o + c + 1) % T = IF o + c + 1 < T THEN o + c + 1
                          ELSE IF o + c + 1 < 2 * T THEN o + c + 1 - T ELSE 0
    <2>1. CASE o + c + 1 < 2 * T
      <3>1. o + c + 1 \in Nat
        OBVIOUS
      <3> QED  BY <2>1, <3>1, RestoDosVueltas
    <2>2. CASE o + c + 1 = 2 * T
      BY <2>2
    <2> QED  BY <2>1, <2>2
  <1>3. (((o + c) % T) + 1) % T = (o + c + 1) % T
    <2>1. (o + c) % T \in 0..T - 1
      BY RestoEnRango
    <2>2. (((o + c) % T) + 1) % T =
            IF ((o + c) % T) + 1 < T THEN ((o + c) % T) + 1 ELSE 0
      BY <2>1, AvanceDePosicion
    <2> QED  BY <1>1, <1>2, <2>1, <2>2
  <1>4. ASSUME c > 0
        PROVE  (((o + 1) % T) + (c - 1)) % T = (o + c) % T
    <2>1. CASE o + 1 < T
      <3>1. (o + 1) % T = o + 1
        BY <2>1, AvanceDePosicion
      <3>2. (o + 1) + (c - 1) = o + c
        OBVIOUS
      <3> QED  BY <3>1, <3>2
    <2>2. CASE o = T - 1
      <3>1. (o + 1) % T = 0
        BY <2>2, AvanceDePosicion
      <3>2. 0 + (c - 1) = c - 1 /\ c - 1 \in Nat /\ c - 1 < T
        BY <1>4
      <3>3. (c - 1) % T = c - 1
        BY <3>2, RestoDosVueltas
      <3>4. (o + c) % T = c - 1
        BY <1>1, <1>4, <2>2
      <3> QED  BY <3>1, <3>2, <3>3, <3>4
    <2> QED  BY <2>1, <2>2
  <1> QED  BY <1>3, <1>4

(* Two offsets smaller than the size name two different slots. *)
LEMMA LugaresDistintos ==
  ASSUME NEW T \in Nat, T > 0, NEW o \in 0..T - 1,
         NEW i \in 0..T - 1, NEW j \in 0..T - 1, i # j
  PROVE  (o + i) % T # (o + j) % T
  <1>1. (o + i) % T = IF o + i < T THEN o + i ELSE o + i - T
    BY RestoDosVueltas
  <1>2. (o + j) % T = IF o + j < T THEN o + j ELSE o + j - T
    BY RestoDosVueltas
  <1> QED  BY <1>1, <1>2

-----------------------------------------------------------------------------
(* The ring read in order is a sequence with as many members as bags. *)
LEMMA OrdenEsSecuencia ==
  ASSUME NEW v, NEW o, NEW n \in Nat, NEW T
  PROVE  \E S : EnOrden(v, o, n, T) \in Seq(S) /\ Len(EnOrden(v, o, n, T)) = n
  <1> DEFINE f == [i \in 1..n |-> v[(o + i - 1) % T]]
             S == {f[i] : i \in 1..n}
  <1>1. \A i \in 1..n : f[i] \in S
    OBVIOUS
  <1> HIDE DEF S
  <1>2. f \in Seq(S) /\ Len(f) = n
    BY <1>1
  <1>3. f = EnOrden(v, o, n, T)
    BY DEF EnOrden
  <1> HIDE DEF f
  <1> QED  BY <1>2, <1>3

(* The oldest bag is the one at posicion_ocupada. *)
LEMMA CabezaDelOrden ==
  ASSUME NEW v, NEW o, NEW n, NEW T, Ocupado(v, o, n, T)
  PROVE  /\ EnOrden(v, o, n, T) # <<>>
         /\ Head(EnOrden(v, o, n, T)) = v[o]
  <1> USE DEF Ocupado
  <1>1. ASSUME NEW S, NEW s \in Seq(S), Len(s) = n
        PROVE  s # <<>> /\ Head(s) = s[1]
    BY <1>1
  <1>2. o + 1 - 1 = o /\ o % T = o
    BY RestoDosVueltas
  <1>3. EnOrden(v, o, n, T)[1] = v[o]
    BY <1>2 DEF EnOrden
  <1>4. PICK S : EnOrden(v, o, n, T) \in Seq(S) /\ Len(EnOrden(v, o, n, T)) = n
    BY OrdenEsSecuencia
  <1> QED  BY <1>1, <1>3, <1>4

(* Append as a function. *)
LEMMA AgregarAlFinal ==
  ASSUME NEW R, NEW q \in Seq(R), NEW e \in R
  PROVE  Append(q, e) =
           [i \in 1..Len(q) + 1 |-> IF i = Len(q) + 1 THEN e ELSE q[i]]
  <1> DEFINE a == Append(q, e)
             n == Len(q)
  <1>1. /\ n \in Nat
        /\ a \in Seq(R) /\ Len(a) = n + 1
        /\ \A i \in 1..n : a[i] = q[i]
        /\ a[n + 1] = e
    BY AppendProperties, LenProperties
  <1>2. ASSUME NEW t \in Seq(R), Len(t) = n + 1
        PROVE  t = [i \in 1..n + 1 |-> t[i]]
    BY <1>2
  <1>3. a = [i \in 1..n + 1 |-> a[i]]
    BY <1>1, <1>2
  <1>4. ASSUME NEW i \in 1..n + 1
        PROVE  a[i] = IF i = n + 1 THEN e ELSE q[i]
    <2>1. i = n + 1 \/ i \in 1..n
      BY <1>1
    <2> QED  BY <1>1, <2>1
  <1> HIDE DEF a, n
  <1>5. [i \in 1..n + 1 |-> a[i]]
          = [i \in 1..n + 1 |-> IF i = n + 1 THEN e ELSE q[i]]
    BY <1>4
  <1> QED  BY <1>3, <1>5 DEF a, n

(* Writing the first free slot and counting one more bag puts the bag at   *)
(* the end of the order.                                                   *)
LEMMA ColocarAgrega ==
  ASSUME NEW v, NEW w, NEW o, NEW n, NEW T, NEW e, Coloca(v, w, o, n, T, e)
  PROVE  EnOrden(w, o, n + 1, T) = Append(EnOrden(v, o, n, T), e)
  <1> USE DEF Coloca
  <1> DEFINE s == EnOrden(v, o, n, T)
  <1>1. (o + n) % T \in 0..T - 1
    BY RestoEnRango
  <1>2. ASSUME NEW i \in 1..n
        PROVE  w[(o + i - 1) % T] = v[(o + i - 1) % T]
    <2>1. i - 1 \in 0..T - 1 /\ i - 1 # n
      OBVIOUS
    <2>2. (o + (i - 1)) % T # (o + n) % T
      BY <2>1, LugaresDistintos
    <2>3. o + (i - 1) \in Nat /\ o + i - 1 = o + (i - 1)
      OBVIOUS
    <2>4. (o + i - 1) % T \in 0..T - 1
      BY <2>3, RestoEnRango
    <2> QED  BY <2>2, <2>3, <2>4
  <1>3. w[(o + (n + 1) - 1) % T] = e
    <2>1. o + (n + 1) - 1 = o + n
      OBVIOUS
    <2> QED  BY <1>1, <2>1
  <1>4. Append(s, e) = [i \in 1..n + 1 |-> IF i = n + 1 THEN e ELSE s[i]]
    <2>1. PICK S : s \in Seq(S) /\ Len(s) = n
      BY SMTT(30), OrdenEsSecuencia
    <2>2. PICK R : e \in R /\ S \subseteq R
      <3> WITNESS S \cup {e}
      <3> QED  OBVIOUS
    <2>3. ASSUME NEW q \in Seq(S), Len(q) = n
          PROVE  q \in Seq(R)
      BY <2>2
    <2>4. ASSUME NEW q \in Seq(R), Len(q) = n
          PROVE  Append(q, e) =
                   [i \in 1..n + 1 |-> IF i = n + 1 THEN e ELSE q[i]]
      BY <2>2, <2>4, AgregarAlFinal
    <2> QED  BY <2>1, <2>3, <2>4
  <1>5. ASSUME NEW i \in 1..n + 1
        PROVE  w[(o + i - 1) % T] = IF i = n + 1 THEN e ELSE s[i]
    <2>1. CASE i = n + 1
      BY <1>3, <2>1
    <2>2. CASE i # n + 1
      <3>1. i \in 1..n
        BY <2>2
      <3>2. s[i] = v[(o + i - 1) % T]
        BY <3>1 DEF EnOrden
      <3> QED  BY <1>2, <2>2, <3>1, <3>2
    <2> QED  BY <2>1, <2>2
  <1>6. EnOrden(w, o, n + 1, T) = [i \in 1..n + 1 |-> w[(o + i - 1) % T]]
    BY DEF EnOrden
  <1> QED  BY <1>4, <1>5, <1>6

(* Advancing posicion_ocupada and counting one bag less takes the oldest   *)
(* bag away and leaves the others in their order.                          *)
LEMMA ExtraerQuita ==
  ASSUME NEW v, NEW o, NEW n, NEW T, Ocupado(v, o, n, T)
  PROVE  EnOrden(v, (o + 1) % T, n - 1, T) = Tail(EnOrden(v, o, n, T))
  <1> USE DEF Ocupado
  <1> DEFINE s == EnOrden(v, o, n, T)
             r == (o + 1) % T
  <1>1. PICK S : s \in Seq(S) /\ Len(s) = n
    BY OrdenEsSecuencia
  <1>2. Tail(s) = [i \in 1..n - 1 |-> s[i + 1]]
    <2>1. ASSUME NEW q \in Seq(S), Len(q) = n
          PROVE  /\ Tail(q) \in Seq(S)
                 /\ Len(Tail(q)) = n - 1
                 /\ \A i \in 1..n - 1 : Tail(q)[i] = q[i + 1]
      BY <2>1, HeadTailProperties
    <2>2. ASSUME NEW t \in Seq(S), Len(t) = n - 1
          PROVE  t = [i \in 1..n - 1 |-> t[i]]
      BY <2>2
    <2>3. Tail(s) = [i \in 1..n - 1 |-> Tail(s)[i]]
      BY <1>1, <2>1, <2>2
    <2> QED  BY <1>1, <2>1, <2>3
  <1>3. ASSUME NEW i \in 1..n - 1
        PROVE  v[(r + i - 1) % T] = s[i + 1]
    <2>1. i \in 0..T /\ i > 0
      OBVIOUS
    <2>2. (r + (i - 1)) % T = (o + i) % T
      BY <2>1, AvanceCoherente
    <2>3. r \in 0..T - 1
      BY AvanceDePosicion
    <2>4. r + i - 1 = r + (i - 1)
      BY <2>3
    <2>5. o + (i + 1) - 1 = o + i /\ i + 1 \in 1..n
      OBVIOUS
    <2>6. s[i + 1] = v[(o + (i + 1) - 1) % T]
      BY <2>5 DEF EnOrden
    <2> QED  BY <2>2, <2>4, <2>5, <2>6
  <1>4. EnOrden(v, r, n - 1, T) = [i \in 1..n - 1 |-> v[(r + i - 1) % T]]
    BY DEF EnOrden
  <1> QED  BY <1>2, <1>3, <1>4

-----------------------------------------------------------------------------
(* Sums over a finite set *)

(* A set of numbers that is not empty has a least one: what an induction   *)
(* on the number of clients is made of.                                    *)
LEMMA MinimoDeNaturales ==
  ASSUME NEW S \in SUBSET Nat, S # {}
  PROVE  \E n \in S : \A k \in S : n <= k
  <1> DEFINE menor == OpToRel(<, Nat)
  <1>1. \E n \in S : \A k \in S : ~ (<<k, n>> \in menor)
    <2> HIDE DEF menor
    <2>1. IsWellFoundedOn(menor, Nat)
      BY NatLessThanWellFounded DEF menor
    <2> QED  BY <2>1, WFMin
  <1>2. PICK n \in S : \A k \in S : ~ (<<k, n>> \in menor)
    BY <1>1
  <1>3. ASSUME NEW k \in S PROVE n <= k
    <2>1. ~ (<<k, n>> \in menor)
      BY <1>2
    <2>2. ~ (k < n)
      BY <2>1 DEF OpToRel
    <2> QED  BY <2>2
  <1> QED  BY <1>3

(* The element that SumFunction takes out of a set.                        *)
Elegido(s) == CHOOSE x \in s : TRUE

(* The recursion of SumFunction for the values f, at a set s, with the     *)
(* sums h of the smaller sets.                                             *)
PasoSuma(f, h, s) == IF s = {} THEN 0 ELSE f[Elegido(s)] + h[s \ {Elegido(s)}]

(* The subsets of S with at most n elements, and the sums of f for them.   *)
HastaTamanio(S, n) == {s \in SUBSET S : Cardinality(s) <= n}

SumasHasta(f, S, n) ==
  {h \in [HastaTamanio(S, n) -> Int] :
     \A s \in HastaTamanio(S, n) : h[s] = PasoSuma(f, h, s)}

(* Without one of its clients a set has one less.                          *)
LEMMA QuitarElegido ==
  ASSUME NEW S, IsFiniteSet(S), NEW n \in Nat,
         NEW s \in HastaTamanio(S, n + 1), s # {}
  PROVE  /\ Elegido(s) \in S /\ Elegido(s) \in s
         /\ s \ {Elegido(s)} \in HastaTamanio(S, n)
  <1>1. Elegido(s) \in s
    BY DEF Elegido
  <1>2. s \in SUBSET S /\ IsFiniteSet(s) /\ Cardinality(s) <= n + 1
    BY FS_Subset DEF HastaTamanio
  <1>3. Cardinality(s \ {Elegido(s)}) = Cardinality(s) - 1
    BY <1>1, <1>2, FS_RemoveElement
  <1>4. Cardinality(s) \in Nat
    BY <1>2, FS_CardinalityType
  <1> QED  BY <1>1, <1>2, <1>3, <1>4 DEF HastaTamanio

(* The tokens of the sets of up to n clients can be added up, whatever n.  *)
LEMMA HaySumas ==
  ASSUME NEW S, IsFiniteSet(S), NEW f \in [S -> Int], NEW n \in Nat
  PROVE  SumasHasta(f, S, n) # {}
  <1> DEFINE malos == {k \in Nat : SumasHasta(f, S, k) = {}}
  <1> SUFFICES ASSUME malos # {} PROVE FALSE
    OBVIOUS
  <1>1. PICK k \in malos : \A j \in malos : k <= j
    <2> HIDE DEF malos
    <2>1. malos \in SUBSET Nat
      BY DEF malos
    <2> QED  BY <2>1, MinimoDeNaturales
  <1>2. k # 0
    <2>1. HastaTamanio(S, 0) = {{}}
      <3>1. ASSUME NEW s \in HastaTamanio(S, 0) PROVE s = {}
        BY FS_Subset, FS_EmptySet, FS_CardinalityType DEF HastaTamanio
      <3>2. {} \in HastaTamanio(S, 0)
        BY FS_EmptySet DEF HastaTamanio
      <3> QED  BY <3>1, <3>2
    <2> DEFINE h == [s \in {{}} |-> 0]
    <2>2. h \in [{{}} -> Int] /\ h[{}] = 0
      OBVIOUS
    <2> HIDE DEF h
    <2>3. h \in SumasHasta(f, S, 0)
      BY <2>1, <2>2 DEF SumasHasta, PasoSuma
    <2> QED  BY <2>3
  <1> DEFINE n0 == k - 1
  <1>3. n0 \in Nat /\ n0 + 1 = k /\ SumasHasta(f, S, n0) # {}
    BY <1>1, <1>2
  <1>4. PICK h : h \in SumasHasta(f, S, n0)
    BY <1>3
  <1> DEFINE g == [s \in HastaTamanio(S, k) |-> PasoSuma(f, h, s)]
  <1>5. ASSUME NEW s \in HastaTamanio(S, k), s # {}
        PROVE  /\ Elegido(s) \in S
               /\ s \ {Elegido(s)} \in HastaTamanio(S, n0)
               /\ s \ {Elegido(s)} \in HastaTamanio(S, k)
    <2>1. /\ Elegido(s) \in S
          /\ s \ {Elegido(s)} \in HastaTamanio(S, n0)
      <3> HIDE DEF n0
      <3> QED  BY <1>3, <1>5, QuitarElegido
    <2>2. /\ Cardinality(s \ {Elegido(s)}) \in Nat
          /\ s \ {Elegido(s)} \in SUBSET S
          /\ Cardinality(s \ {Elegido(s)}) <= n0
      BY <2>1, FS_Subset, FS_CardinalityType DEF HastaTamanio
    <2> QED  BY <2>1, <2>2, <1>3 DEF HastaTamanio
  <1>6. g \in [HastaTamanio(S, k) -> Int]
    <2>1. ASSUME NEW s \in HastaTamanio(S, k) PROVE PasoSuma(f, h, s) \in Int
      <3>1. h \in [HastaTamanio(S, n0) -> Int]
        BY <1>4 DEF SumasHasta
      <3> QED  BY <3>1, <1>5 DEF PasoSuma
    <2> QED  BY <2>1
  <1>7. ASSUME NEW s \in HastaTamanio(S, n0) PROVE s \in HastaTamanio(S, k) /\ g[s] = h[s]
    <2>1. s \in HastaTamanio(S, k)
      BY <1>3, FS_Subset, FS_CardinalityType DEF HastaTamanio
    <2>2. h[s] = PasoSuma(f, h, s)
      BY <1>4 DEF SumasHasta
    <2> QED  BY <2>1, <2>2
  <1>8. ASSUME NEW s \in HastaTamanio(S, k) PROVE g[s] = PasoSuma(f, g, s)
    <2>1. CASE s = {}
      BY <2>1 DEF PasoSuma
    <2>2. CASE s # {}
      <3>1. g[s \ {Elegido(s)}] = h[s \ {Elegido(s)}]
        BY <1>5, <1>7, <2>2
      <3> HIDE DEF g
      <3>2. g[s] = PasoSuma(f, h, s)
        BY DEF g
      <3> QED  BY <3>1, <3>2, <2>2 DEF PasoSuma
    <2> QED  BY <2>1, <2>2
  <1>9. g \in SumasHasta(f, S, k)
    <2> HIDE DEF g
    <2> QED  BY <1>6, <1>8 DEF SumasHasta
  <1> QED  BY <1>1, <1>9

(* Of some sets of clients one is the smallest: induction on sets.         *)
LEMMA ConjuntoMinimo ==
  ASSUME NEW S, IsFiniteSet(S), NEW T \in SUBSET (SUBSET S), T # {}
  PROVE  \E s \in T : \A x \in s : s \ {x} \notin T
  <1> DEFINE tamanios == {n \in Nat : \E s \in T : Cardinality(s) = n}
  <1>1. \A s \in T : IsFiniteSet(s) /\ Cardinality(s) \in Nat
    BY FS_Subset, FS_CardinalityType
  <1>2. PICK n \in tamanios : \A k \in tamanios : n <= k
    <2>1. tamanios # {} /\ tamanios \in SUBSET Nat
      BY <1>1
    <2> HIDE DEF tamanios
    <2> QED  BY <2>1, MinimoDeNaturales
  <1>3. PICK s \in T : Cardinality(s) = n
    BY <1>2
  <1>4. ASSUME NEW x \in s, s \ {x} \in T PROVE FALSE
    <2>1. Cardinality(s \ {x}) = n - 1
      BY <1>1, <1>3, FS_RemoveElement
    <2>2. n - 1 \in tamanios
      BY <1>1, <1>4, <2>1
    <2>3. n \in Nat
      BY <1>2
    <2> HIDE DEF tamanios
    <2>4. n <= n - 1
      BY <1>2, <2>2
    <2> QED  BY <2>3, <2>4
  <1> QED  BY <1>3, <1>4

(* h has the sums of f for all the subsets of S.                           *)
SonSumas(f, S, h) ==
  h = [s \in SUBSET S |->
         IF s = {} THEN 0
         ELSE f[CHOOSE x \in s : TRUE] + h[s \ {CHOOSE x \in s : TRUE}]]

(* The sum for a set of clients is that of one of them and of the rest.    *)
LEMMA PasoDeSuma ==
  ASSUME NEW S, NEW f, NEW h, SonSumas(f, S, h)
  PROVE  /\ h[{}] = 0
         /\ \A s \in SUBSET S : s # {} =>
              /\ Elegido(s) \in s
              /\ h[s] = f[Elegido(s)] + h[s \ {Elegido(s)}]
  <1>1. ASSUME NEW s \in SUBSET S PROVE h[s] = PasoSuma(f, h, s)
    BY DEF SonSumas, PasoSuma, Elegido
  <1>2. ASSUME NEW s \in SUBSET S, s # {} PROVE Elegido(s) \in s
    BY <1>2 DEF Elegido
  <1> QED  BY <1>1, <1>2 DEF PasoSuma

(* SumFunction, which adds up the tokens that each client of a semaphore   *)
(* has, is such a sum, and a number.                                       *)
LEMMA LaSuma ==
  ASSUME NEW S, IsFiniteSet(S), NEW f \in [S -> Int]
  PROVE  \E h \in [SUBSET S -> Int] : SonSumas(f, S, h) /\ SumFunction(f) = h[S]
  <1> DEFINE iter == CHOOSE h : h = [s \in SUBSET S |->
         IF s = {} THEN 0
         ELSE f[CHOOSE x \in s : TRUE] + h[s \ {CHOOSE x \in s : TRUE}]]
  <1>1. \E h : SonSumas(f, S, h)
    <2>1. PICK h \in SumasHasta(f, S, Cardinality(S)) : TRUE
      BY HaySumas, FS_CardinalityType
    <2>2. HastaTamanio(S, Cardinality(S)) = SUBSET S
      BY FS_Subset DEF HastaTamanio
    <2>3. SonSumas(f, S, h)
      BY <2>1, <2>2 DEF SumasHasta, PasoSuma, Elegido, SonSumas
    <2> QED  BY <2>3
  <1>2. SonSumas(f, S, iter)
    BY <1>1 DEF SonSumas
  <1>3. SumFunction(f) = iter[S]
    BY DEF SumFunction, SumFunctionOnSet, FoldFunctionOnSet, MapThenFoldSet
  <1> HIDE DEF iter
  <1>4. \A s \in SUBSET S : iter[s] \in Int
    <2> DEFINE T == {s \in SUBSET S : iter[s] \notin Int}
    <2> SUFFICES ASSUME T # {} PROVE FALSE
      OBVIOUS
    <2>1. PICK s \in T : \A x \in s : s \ {x} \notin T
      <3> T \in SUBSET (SUBSET S)
        OBVIOUS
      <3> HIDE DEF T
      <3> QED  BY ConjuntoMinimo
    <2>2. s # {}
      <3>1. iter[{}] = 0 /\ iter[s] \notin Int
        BY <1>2, <2>1, PasoDeSuma
      <3> QED  BY <3>1
    <2>3. /\ Elegido(s) \in s
          /\ iter[s] = f[Elegido(s)] + iter[s \ {Elegido(s)}]
      BY <1>2, <2>2, PasoDeSuma
    <2>4. iter[s \ {Elegido(s)}] \in Int
      BY <2>1, <2>3
    <2> QED  BY <2>1, <2>3, <2>4
  <1>5. iter \in [SUBSET S -> Int]
    BY <1>2, <1>4 DEF SonSumas
  <1> QED  BY <1>2, <1>3, <1>5

(* Where no client has a token they have none together.                    *)
LEMMA SumaDeCeros ==
  ASSUME NEW S, IsFiniteSet(S), NEW f \in [S -> Int], \A x \in S : f[x] = 0
  PROVE  SumFunction(f) = 0
  <1>1. PICK h \in [SUBSET S -> Int] : SonSumas(f, S, h) /\ SumFunction(f) = h[S]
    BY LaSuma
  <1> DEFINE T == {s \in SUBSET S : h[s] # 0}
  <1> SUFFICES ASSUME T # {} PROVE FALSE
    BY <1>1
  <1>2. PICK s \in T : \A x \in s : s \ {x} \notin T
    <2> T \in SUBSET (SUBSET S)
      OBVIOUS
    <2> HIDE DEF T
    <2> QED  BY ConjuntoMinimo
  <1>3. s # {}
    BY <1>1, <1>2, PasoDeSuma
  <1>4. Elegido(s) \in s /\ h[s] = f[Elegido(s)] + h[s \ {Elegido(s)}]
    BY <1>1, <1>3, PasoDeSuma
  <1>5. h[s \ {Elegido(s)}] = 0
    BY <1>2, <1>4
  <1> QED  BY <1>2, <1>4, <1>5

(* What one client has is at most what they have together.                 *)
LEMMA SumandoAcotado ==
  ASSUME NEW S, IsFiniteSet(S), NEW f \in [S -> Nat]
  PROVE  SumFunction(f) \in Nat /\ \A p \in S : f[p] <= SumFunction(f)
  <1>0. f \in [S -> Int]
    OBVIOUS
  <1>1. PICK h \in [SUBSET S -> Int] : SonSumas(f, S, h) /\ SumFunction(f) = h[S]
    BY <1>0, LaSuma
  <1> DEFINE T == {s \in SUBSET S : ~ (h[s] \in Nat /\ \A p \in s : f[p] <= h[s])}
  <1> SUFFICES ASSUME T # {} PROVE FALSE
    BY <1>1
  <1>2. PICK s \in T : \A x \in s : s \ {x} \notin T
    <2> T \in SUBSET (SUBSET S)
      OBVIOUS
    <2> HIDE DEF T
    <2> QED  BY ConjuntoMinimo
  <1>3. s # {}
    <2>1. h[{}] = 0 /\ ~ (h[s] \in Nat /\ \A p \in s : f[p] <= h[s])
      BY <1>1, <1>2, PasoDeSuma
    <2>2. s = {} => FALSE
      BY <2>1
    <2> QED  BY <2>2
  <1>4. Elegido(s) \in s /\ h[s] = f[Elegido(s)] + h[s \ {Elegido(s)}]
    <2>1. s \in SUBSET S
      BY <1>2
    <2> HIDE DEF T
    <2> QED  BY <1>1, <1>3, <2>1, PasoDeSuma
  <1>5. /\ h[s \ {Elegido(s)}] \in Nat
        /\ \A p \in s \ {Elegido(s)} : f[p] <= h[s \ {Elegido(s)}]
    BY <1>2, <1>4
  <1>6. h[s] \in Nat
    BY <1>4, <1>5
  <1>7. ASSUME NEW p \in s PROVE f[p] <= h[s]
    <2> DEFINE e == Elegido(s)
    <2>1. f[p] \in Nat /\ f[e] \in Nat /\ h[s] = f[e] + h[s \ {e}]
      BY <1>4
    <2>2. h[s \ {e}] \in Nat /\ (p # e => f[p] <= h[s \ {e}])
      BY <1>5
    <2> HIDE DEF e, T
    <2> QED  BY <2>1, <2>2
  <1> QED  BY <1>2, <1>6, <1>7

(* When one client's tokens change the sum changes by as much.             *)
LEMMA CambiaUnSumando ==
  ASSUME NEW S, IsFiniteSet(S), NEW f \in [S -> Int], NEW g \in [S -> Int],
         NEW p \in S, \A x \in S \ {p} : g[x] = f[x]
  PROVE  SumFunction(g) = SumFunction(f) + (g[p] - f[p])
  <1>1. PICK h \in [SUBSET S -> Int] : SonSumas(f, S, h) /\ SumFunction(f) = h[S]
    BY LaSuma
  <1>2. PICK k \in [SUBSET S -> Int] : SonSumas(g, S, k) /\ SumFunction(g) = k[S]
    BY LaSuma
  <1>a. ASSUME NEW s \in SUBSET S, s # {}
        PROVE  /\ Elegido(s) \in s
               /\ h[s] = f[Elegido(s)] + h[s \ {Elegido(s)}]
    BY <1>1, <1>a, PasoDeSuma
  <1>b. ASSUME NEW s \in SUBSET S, s # {}
        PROVE  k[s] = g[Elegido(s)] + k[s \ {Elegido(s)}]
    BY <1>2, <1>b, PasoDeSuma
  <1> DEFINE d(s) == IF p \in s THEN g[p] - f[p] ELSE 0
             T == {s \in SUBSET S : k[s] # h[s] + d(s)}
  <1> SUFFICES ASSUME T # {} PROVE FALSE
    BY <1>1, <1>2
  <1>3. PICK s \in T : \A x \in s : s \ {x} \notin T
    <2> T \in SUBSET (SUBSET S)
      OBVIOUS
    <2> HIDE DEF T
    <2> QED  BY ConjuntoMinimo
  <1>4. s \in SUBSET S /\ s # {}
    <2>1. h[{}] = 0 /\ k[{}] = 0
      BY <1>1, <1>2, PasoDeSuma
    <2>2. s \in SUBSET S /\ k[s] # h[s] + d(s)
      BY <1>3
    <2>3. s = {} => h[s] = 0 /\ k[s] = 0 /\ d(s) = 0
      BY <2>1
    <2>4. 0 = 0 + 0
      OBVIOUS
    <2> HIDE DEF d, T
    <2>5. s # {}
      BY <2>2, <2>3, <2>4
    <2> QED  BY <2>2, <2>5
  <1> DEFINE e == Elegido(s)
             r == s \ {e}
  <1>5. e \in s /\ h[s] = f[e] + h[r] /\ k[s] = g[e] + k[r]
    BY <1>a, <1>b, <1>4
  <1>6. k[r] = h[r] + d(r)
    BY <1>3, <1>5
  <1>7. f[e] \in Int /\ g[e] \in Int /\ h[r] \in Int /\ k[r] \in Int
        /\ g[p] \in Int /\ f[p] \in Int
    BY <1>5
  <1>8. k[s] # h[s] + d(s)
    BY <1>3
  <1>9. e \notin r /\ (p \in s <=> p = e \/ p \in r)
    BY <1>5
  <1>10. CASE e = p
    <2>1. d(r) = 0 /\ d(s) = g[p] - f[p]
      BY <1>9, <1>10
    <2> HIDE DEF d, r, e
    <2> QED  BY <1>5, <1>6, <1>7, <1>8, <1>10, <2>1
  <1>11. CASE e # p
    <2>1. d(r) = d(s) /\ g[e] = f[e] /\ d(s) \in Int
      BY <1>5, <1>7, <1>9, <1>11
    <2> HIDE DEF d, r, e
    <2> QED  BY <1>5, <1>6, <1>7, <1>8, <2>1
  <1> QED  BY <1>10, <1>11

-----------------------------------------------------------------------------
(* How many of the elements of a function or of a sequence are in a set    *)

Cuantos(f, X) == Cardinality({k \in DOMAIN f : f[k] \in X})
Vale(x, X)    == IF x \in X THEN 1 ELSE 0

(* They are a number.                                                      *)
LEMMA CuantosEsNatural ==
  ASSUME NEW f, NEW X, IsFiniteSet(DOMAIN f)
  PROVE  Cuantos(f, X) \in Nat
  <1>1. {k \in DOMAIN f : f[k] \in X} \in SUBSET (DOMAIN f)
    OBVIOUS
  <1> QED  BY <1>1, FS_Subset, FS_CardinalityType DEF Cuantos

(* When a process takes something in its hands, or drops it, they change   *)
(* by as much.                                                             *)
LEMMA CuentaAlCambiar ==
  ASSUME NEW f, NEW g, NEW X, IsFiniteSet(DOMAIN f), NEW k \in DOMAIN f,
         DOMAIN g = DOMAIN f, \A i \in DOMAIN f \ {k} : g[i] = f[i]
  PROVE  Cuantos(g, X) = Cuantos(f, X) - Vale(f[k], X) + Vale(g[k], X)
  <1> DEFINE F == {i \in DOMAIN f : f[i] \in X}
             G == {i \in DOMAIN g : g[i] \in X}
             R == F \ {k}
  <1>1. F \in SUBSET (DOMAIN f)
    OBVIOUS
  <1>2. IsFiniteSet(F)
    BY <1>1, FS_Subset
  <1>3. IsFiniteSet(R) /\ Cardinality(F) \in Nat
    BY <1>2, FS_RemoveElement, FS_CardinalityType
  <1>4. Cardinality(R) = Cardinality(F) - Vale(f[k], X)
    <2>1. k \in F <=> f[k] \in X
      OBVIOUS
    <2> HIDE DEF F
    <2> QED  BY <1>2, <1>3, <2>1, FS_RemoveElement DEF Vale
  <1>5. G = IF g[k] \in X THEN R \cup {k} ELSE R
    OBVIOUS
  <1>6. Cardinality(R \cup {k}) = Cardinality(R) + 1
    BY <1>3, FS_AddElement
  <1>7. Cardinality(R) \in Nat
    BY <1>3, FS_CardinalityType
  <1>8. Cardinality(G) = Cardinality(R) + Vale(g[k], X)
    BY <1>5, <1>6, <1>7 DEF Vale
  <1>9. Cuantos(f, X) = Cardinality(F) /\ Cuantos(g, X) = Cardinality(G)
    BY DEF Cuantos
  <1> HIDE DEF F, G, R
  <1> QED  BY <1>3, <1>4, <1>7, <1>8, <1>9 DEF Vale

(* A queue is finite, and Append puts one element more in it.              *)
LEMMA CuentaAlAgregar ==
  ASSUME NEW S, NEW s \in Seq(S), NEW e \in S, NEW X
  PROVE  /\ IsFiniteSet(DOMAIN s)
         /\ Cuantos(Append(s, e), X) = Cuantos(s, X) + Vale(e, X)
  <1> DEFINE n == Len(s)
             F == {i \in 1..n : s[i] \in X}
             G == {i \in 1..n + 1 : Append(s, e)[i] \in X}
  <1>1. n \in Nat /\ DOMAIN s = 1..n /\ DOMAIN Append(s, e) = 1..n + 1
    BY AppendProperties
  <1>2. /\ \A i \in 1..n : Append(s, e)[i] = s[i]
        /\ Append(s, e)[n + 1] = e
    BY AppendProperties
  <1>3. IsFiniteSet(1..n)
    BY <1>1, FS_Interval
  <1>4. F \in SUBSET (1..n) /\ n + 1 \notin F
    BY <1>1
  <1>5. IsFiniteSet(F)
    BY <1>3, <1>4, FS_Subset
  <1>6. Cardinality(F) \in Nat /\ Cardinality(F \cup {n + 1}) = Cardinality(F) + 1
    BY <1>4, <1>5, FS_AddElement, FS_CardinalityType
  <1>7. G = IF e \in X THEN F \cup {n + 1} ELSE F
    <2>1. \A i \in Int : i \in 1..n + 1 <=> i \in 1..n \/ i = n + 1
      BY <1>1
    <2>2. \A i \in 1..n + 1 : i \in Int
      BY <1>1
    <2> HIDE DEF n
    <2> QED  BY <1>1, <1>2, <2>1, <2>2
  <1>8. Cuantos(s, X) = Cardinality(F) /\ Cuantos(Append(s, e), X) = Cardinality(G)
    BY <1>1 DEF Cuantos
  <1> HIDE DEF F, G, n
  <1> QED  BY <1>1, <1>3, <1>6, <1>7, <1>8 DEF Vale

(* Tail takes the head out of it.                                          *)
LEMMA CuentaAlQuitar ==
  ASSUME NEW S, NEW s \in Seq(S), s # <<>>, NEW X
  PROVE  Cuantos(Tail(s), X) = Cuantos(s, X) - Vale(Head(s), X)
  <1> DEFINE n == Len(s)
             F == {i \in 1..n : s[i] \in X}
             G == {i \in 1..n - 1 : Tail(s)[i] \in X}
             siguiente == [i \in G |-> i + 1]
  <1>1. /\ n \in Nat \ {0} /\ DOMAIN s = 1..n /\ DOMAIN Tail(s) = 1..n - 1
        /\ \A i \in 1..n - 1 : Tail(s)[i] = s[i + 1]
        /\ Head(s) = s[1]
    BY HeadTailProperties
  <1>2. F \in SUBSET (1..n) /\ IsFiniteSet(1..n)
    BY <1>1, FS_Interval
  <1>3. IsFiniteSet(F)
    BY <1>2, FS_Subset
  <1>4. IsFiniteSet(1..n - 1) /\ G \in SUBSET (1..n - 1)
    <2>1. IsFiniteSet(1..n - 1)
      BY <1>1, FS_Interval
    <2>2. G \in SUBSET (1..n - 1)
      OBVIOUS
    <2> QED  BY <2>1, <2>2
  <1>5. IsFiniteSet(G)
    BY <1>4, FS_Subset
  <1>6. siguiente \in Bijection(G, F \ {1})
    <2>1. ASSUME NEW i \in G PROVE siguiente[i] \in F \ {1}
      BY <1>1
    <2>2. ASSUME NEW j \in F \ {1} PROVE \E i \in G : siguiente[i] = j
      <3>1. j \in 1..n /\ j # 1 /\ s[j] \in X
        OBVIOUS
      <3>2. j - 1 \in 1..n - 1 /\ (j - 1) + 1 = j
        BY <1>1, <3>1
      <3>3. j - 1 \in G
        BY <1>1, <3>1, <3>2
      <3>4. siguiente[j - 1] = j
        BY <3>2, <3>3
      <3> QED  BY <3>3, <3>4
    <2>3. \A i, j \in G : siguiente[i] = siguiente[j] => i = j
      BY <1>1
    <2> HIDE DEF F, G
    <2>4. siguiente \in [G -> F \ {1}]
      BY <2>1
    <2> HIDE DEF siguiente
    <2> QED  BY <2>2, <2>3, <2>4 DEF Bijection, Injection, IsInjective, Surjection
  <1>7. Cardinality(F \ {1}) = Cardinality(G)
    <2> HIDE DEF F, G, siguiente
    <2>1. ExistsBijection(G, F \ {1})
      BY <1>6 DEF ExistsBijection
    <2> QED  BY <1>5, <2>1, FS_Bijection
  <1>8. Cardinality(F) \in Nat /\ Cardinality(F \ {1}) = Cardinality(F) - Vale(s[1], X)
    <2>1. 1 \in F <=> s[1] \in X
      BY <1>1
    <2> HIDE DEF F
    <2> QED  BY <1>3, <2>1, FS_RemoveElement, FS_CardinalityType DEF Vale
  <1>9. Cuantos(s, X) = Cardinality(F) /\ Cuantos(Tail(s), X) = Cardinality(G)
    BY <1>1 DEF Cuantos
  <1> HIDE DEF F, G
  <1> QED  BY <1>1, <1>7, <1>8, <1>9
=============================================================================
