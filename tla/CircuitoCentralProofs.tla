------------------------ MODULE CircuitoCentralProofs ------------------------
(***************************************************************************)
(* The central belt, for any number of producers and consumers, any size   *)
(* of the belt and any bags; and then its loop, for any number of scanners *)
(* and dispatch robots and any zones: the belt in the loop is the belt of  *)
(* CintaPrincipal, a suspicious bag is not loaded, and a clean bag of an   *)
(* attended flight goes past no dispatch robot of its zone.                *)
(***************************************************************************)
EXTENDS CircuitoCentral, FiniteSetTheorems, LemasGenerales

-----------------------------------------------------------------------------
(* The belt by itself: CintaPrincipal *)

Contenidos == Equipajes \cup {Ninguno}

(* The binary semaphores, the marks and the calls have their types. *)
Tipos ==
  /\ posicion_libre \in 0..Tamanio - 1
  /\ posicion_ocupada \in 0..Tamanio - 1
  /\ cantidad_elementos \in 0..Tamanio
  /\ cantidad_productores_esperando \in Nat
  /\ consumidor_esperando \in 0..1
  /\ ids_productores_esperando \in [Productores -> 0..1]
  /\ vector_elementos \in [0..Tamanio - 1 -> Contenidos]
  /\ semaforo_productores \in [Productores -> 0..1]
  /\ semaforo_consumidores \in [Consumidores -> 0..1]
  /\ pc_productor \in [Productores -> {"fuera", "esperando", "despierto"}]
  /\ a_colocar \in [Productores -> Contenidos]
  /\ pc_consumidor \in
       [Consumidores -> {"fuera", "esperando", "despierto", "leyo"}]
  /\ ultimo_equipaje_leido \in [Consumidores -> Contenidos]
  /\ extraido \in Contenidos

(* A producer's permission is in its semaphore, in its mark or in its hands. *)
UnPermisoPorProductor ==
  \A p \in Productores :
    semaforo_productores[p] + ids_productores_esperando[p]
      + (IF pc_productor[p] = "despierto" THEN 1 ELSE 0) = 1

(* posicion_libre is where the next bag after the last one goes. *)
PosicionesCoherentes ==
  posicion_libre = (posicion_ocupada + cantidad_elementos) % Tamanio

(* A producer has a bag to put while it is inside colocar_elemento. *)
ArgumentoPresente ==
  \A p \in Productores :
    IF pc_productor[p] = "fuera" THEN a_colocar[p] = Ninguno
                                ELSE a_colocar[p] \in Equipajes

(* The inductive invariant.  What a consumer has read stays at the head    *)
(* only because no other consumer can extract, and that only because the   *)
(* signals keep the turn single; and a producer does not write over it     *)
(* because the positions are coherent and the belt is not full.            *)
Invariante ==
  /\ Tipos
  /\ UnPermisoPorProductor
  /\ EsperaJustificada
  /\ PosicionesCoherentes
  /\ ArgumentoPresente
  /\ UnSoloTurno
  /\ LoLeidoSigueEnCabeza
  /\ TodosLoVieron
-----------------------------------------------------------------------------
(* The marks of the producers and their counter. *)

(* The marks left in ids_productores_esperando can be counted. *)
LEMMA MarcadosFinito == IsFiniteSet(Marcados) /\ Cardinality(Marcados) \in Nat
  BY SuposicionCentral, FS_Subset, FS_CardinalityType DEF Marcados

(* The counter is zero exactly when no producer is marked, so that the     *)
(* test of despertar_productores misses nobody.                            *)
LEMMA SinMarcas ==
  ASSUME Invariante
  PROVE  cantidad_productores_esperando = 0 <=> Marcados = {}
  BY MarcadosFinito, FS_EmptySet DEF Invariante, EsperaJustificada

(* What the end of a producer's turn does to the marks, their counter and  *)
(* the semaphores, when the producer holds its permission.                 *)
LEMMA TurnoProductor ==
  ASSUME Invariante, NEW p \in Productores, NEW n \in 0..Tamanio,
         pc_productor[p] = "despierto", TerminarTurnoProductor(p, n)
  PROVE  /\ cantidad_productores_esperando' \in Nat
         /\ ids_productores_esperando' \in [Productores -> 0..1]
         /\ semaforo_productores' \in [Productores -> 0..1]
         /\ cantidad_productores_esperando' = Cardinality(Marcados')
         /\ semaforo_productores'[p] + ids_productores_esperando'[p] = 1
         /\ ids_productores_esperando'[p] = 1 => n = Tamanio
         /\ \A q \in Productores \ {p} :
              /\ semaforo_productores'[q] = semaforo_productores[q]
              /\ ids_productores_esperando'[q] = ids_productores_esperando[q]
  <1> USE DEF Invariante, Tipos
  <1>1. semaforo_productores[p] = 0 /\ ids_productores_esperando[p] = 0
    BY DEF UnPermisoPorProductor
  <1>2. CASE n = Tamanio
    <2>1. /\ cantidad_productores_esperando' =
                cantidad_productores_esperando + 1
          /\ ids_productores_esperando' =
                [ids_productores_esperando EXCEPT ![p] = 1]
          /\ semaforo_productores' = semaforo_productores
      BY <1>2 DEF TerminarTurnoProductor
    <2>2. p \notin Marcados /\ Marcados' = Marcados \cup {p}
      BY <1>1, <2>1 DEF Marcados
    <2>3. Cardinality(Marcados') = Cardinality(Marcados) + 1
      BY <2>2, FS_AddElement, MarcadosFinito
    <2> QED  BY <1>1, <1>2, <2>1, <2>3 DEF EsperaJustificada
  <1>3. CASE n # Tamanio
    <2>1. /\ semaforo_productores' = [semaforo_productores EXCEPT ![p] = 1]
          /\ UNCHANGED espera_productores
      BY <1>1, <1>3 DEF TerminarTurnoProductor
    <2>2. Marcados' = Marcados
      BY <2>1 DEF Marcados, espera_productores
    <2> QED  BY <1>1, <2>1, <2>2 DEF EsperaJustificada, espera_productores
  <1> QED  BY <1>2, <1>3

(* despertar_productores: nobody is marked any more and every mark has     *)
(* become a signal.                                                        *)
LEMMA DespiertanProductores ==
  ASSUME Invariante, DespertarProductores
  PROVE  /\ cantidad_productores_esperando' = 0
         /\ ids_productores_esperando' = [p \in Productores |-> 0]
         /\ semaforo_productores' =
              [p \in Productores |-> semaforo_productores[p]
                                       + ids_productores_esperando[p]]
  <1> USE DEF Invariante, Tipos
  <1>1. CASE cantidad_productores_esperando > 0
    BY <1>1 DEF DespertarProductores
  <1>2. CASE cantidad_productores_esperando = 0
    <2>1. \A p \in Productores : ids_productores_esperando[p] = 0
      BY <1>2, SinMarcas DEF Marcados
    <2>2. UNCHANGED <<semaforo_productores, espera_productores>>
      BY <1>2 DEF DespertarProductores
    <2> QED  BY <1>2, <2>1, <2>2 DEF espera_productores
  <1> QED  BY <1>1, <1>2

-----------------------------------------------------------------------------
(* The turn of the consumers. *)

(* A consumer past wait_on has the only turn: nobody else is past it, no   *)
(* semaphore is signalled and the memory does not hold the turn.           *)
LEMMA ElTurnoEsSuyo ==
  ASSUME Invariante, NEW c \in Consumidores,
         pc_consumidor[c] \in {"despierto", "leyo"}
  PROVE  /\ consumidor_esperando = 0
         /\ \A d \in Consumidores : semaforo_consumidores[d] = 0
         /\ \A d \in Consumidores \ {c} :
              pc_consumidor[d] \notin {"despierto", "leyo"}
  BY DEF Invariante, Tipos, UnSoloTurno, TieneTurno

(* While the belt is neither empty nor full the next bag does not go where *)
(* the oldest one is.                                                      *)
LEMMA LibreNoEsOcupada ==
  ASSUME Invariante, cantidad_elementos > 0, cantidad_elementos < Tamanio
  PROVE  posicion_libre # posicion_ocupada
  <1>1. /\ posicion_ocupada \in 0..Tamanio - 1
        /\ cantidad_elementos \in 0..Tamanio - 1 /\ 0 \in 0..Tamanio - 1
        /\ Tamanio \in Nat /\ Tamanio > 0
    BY SuposicionCentral DEF Invariante, Tipos
  <1>2. (posicion_ocupada + cantidad_elementos) % Tamanio
          # (posicion_ocupada + 0) % Tamanio
    BY <1>1, LugaresDistintos
  <1>3. (posicion_ocupada + 0) % Tamanio = posicion_ocupada
    BY <1>1, RestoDosVueltas
  <1> QED  BY <1>2, <1>3 DEF Invariante, PosicionesCoherentes

(* Siguiente is the successor on the ring. *)
LEMMA SiguienteEnRango ==
  ASSUME NEW i \in 0..Tamanio - 1
  PROVE  Siguiente(i) \in 0..Tamanio - 1
  BY SuposicionCentral, AvanceDePosicion DEF Siguiente

-----------------------------------------------------------------------------
(* The invariant holds at the start and every action keeps it. *)

(* The initial contents of the memory and the semaphores. *)
LEMMA InvarianteInicial == Init => Invariante
  <1> SUFFICES ASSUME Init PROVE Invariante
    OBVIOUS
  <1> USE SuposicionCentral
  <1>1. Tipos
    BY DEF Init, Tipos, Contenidos, Consumidores
  <1>2. EsperaJustificada
    <2>1. Marcados = {}
      BY DEF Init, Marcados
    <2> QED  BY <2>1, FS_EmptySet DEF Init, EsperaJustificada
  <1>3. PosicionesCoherentes
    <2>1. 0 + 0 = 0 /\ 0 % Tamanio = 0
      BY RestoDosVueltas
    <2> QED  BY <2>1 DEF Init, PosicionesCoherentes
  <1>4. UnSoloTurno /\ LoLeidoSigueEnCabeza /\ TodosLoVieron
    <2>1. 1 \in Consumidores
      BY DEF Consumidores
    <2>2. \A c \in Consumidores : TieneTurno(c) <=> c = 1
      BY DEF Init, TieneTurno
    <2> QED  BY <2>1, <2>2 DEF Init, UnSoloTurno, LoLeidoSigueEnCabeza,
                TodosLoVieron, Consumidores
  <1> QED
    BY <1>1, <1>2, <1>3, <1>4 DEF Init, Invariante, UnPermisoPorProductor,
       ArgumentoPresente

(* Putting a bag: the producer keeps one permission, consumer 1 gets the   *)
(* turn that was in the memory, and the oldest bag is not written over.    *)
LEMMA ConservaColocar ==
  ASSUME Invariante, NEW p \in Productores, Colocar(p)
  PROVE  Invariante'
  <1> USE SuposicionCentral DEF Invariante
  <1>1. /\ pc_productor[p] = "despierto"
        /\ cantidad_elementos + 1 \in 1..Tamanio
        /\ cantidad_elementos' = cantidad_elementos + 1
        /\ TerminarTurnoProductor(p, cantidad_elementos + 1)
        /\ a_colocar[p] \in Equipajes
        /\ posicion_ocupada' = posicion_ocupada
        /\ posicion_libre' = Siguiente(posicion_libre)
        /\ vector_elementos' =
             [vector_elementos EXCEPT ![posicion_libre] = a_colocar[p]]
        /\ pc_productor' = [pc_productor EXCEPT ![p] = "fuera"]
        /\ a_colocar' = [a_colocar EXCEPT ![p] = Ninguno]
        /\ UNCHANGED <<pc_consumidor, ultimo_equipaje_leido, extraido>>
    BY DEF Colocar, Tipos, ArgumentoPresente, consumidores
  <1>2. /\ cantidad_productores_esperando' \in Nat
        /\ ids_productores_esperando' \in [Productores -> 0..1]
        /\ semaforo_productores' \in [Productores -> 0..1]
        /\ cantidad_productores_esperando' = Cardinality(Marcados')
        /\ semaforo_productores'[p] + ids_productores_esperando'[p] = 1
        /\ ids_productores_esperando'[p] = 1 => cantidad_elementos' = Tamanio
        /\ \A q \in Productores \ {p} :
             /\ semaforo_productores'[q] = semaforo_productores[q]
             /\ ids_productores_esperando'[q] = ids_productores_esperando[q]
    BY <1>1, TurnoProductor
  <1>3. /\ consumidor_esperando' = 0
        /\ semaforo_consumidores' =
             [c \in Consumidores |->
                IF c = 1 /\ consumidor_esperando = 1 THEN 1
                ELSE semaforo_consumidores[c]]
    <2>1. CASE consumidor_esperando = 1
      <3>1. cantidad_elementos = 0 /\ semaforo_consumidores[1] = 0
        BY <2>1 DEF UnSoloTurno, TieneTurno, Tipos, Consumidores
      <3> QED  BY <1>1, <2>1, <3>1
                  DEF Colocar, DespertarConsumidor, Senializar, Tipos
    <2>2. CASE consumidor_esperando = 0
      <3>1. UNCHANGED <<semaforo_consumidores, consumidor_esperando>>
        BY <2>2 DEF Colocar, DespertarConsumidor
      <3> QED  BY <2>2, <3>1 DEF Tipos
    <2> QED  BY <2>1, <2>2 DEF Tipos
  <1>4. Tipos'
    <2>1. /\ posicion_libre' \in 0..Tamanio - 1
          /\ vector_elementos' \in [0..Tamanio - 1 -> Contenidos]
          /\ cantidad_elementos' \in 0..Tamanio
      BY <1>1, SiguienteEnRango DEF Tipos, Contenidos
    <2>2. semaforo_consumidores' \in [Consumidores -> 0..1]
      BY <1>3 DEF Tipos
    <2>3. /\ pc_productor' \in [Productores -> {"fuera", "esperando", "despierto"}]
          /\ a_colocar' \in [Productores -> Contenidos]
      BY <1>1 DEF Tipos, Contenidos
    <2> QED  BY <1>1, <1>2, <1>3, <2>1, <2>2, <2>3 DEF Tipos
  <1>5. UnPermisoPorProductor'
    BY <1>1, <1>2 DEF UnPermisoPorProductor, Tipos
  <1>6. EsperaJustificada'
    <2>1. ASSUME NEW q \in Productores
          PROVE  /\ semaforo_productores'[q] + ids_productores_esperando'[q] <= 1
                 /\ ids_productores_esperando'[q] = 1 =>
                      cantidad_elementos' = Tamanio
      BY <1>1, <1>2 DEF EsperaJustificada, Marcados, Tipos
    <2> QED  BY <1>2, <2>1 DEF EsperaJustificada, Marcados
  <1>7. PosicionesCoherentes'
    <2>1. posicion_libre' = (posicion_ocupada + cantidad_elementos + 1) % Tamanio
      <3>1. /\ posicion_libre = (posicion_ocupada + cantidad_elementos) % Tamanio
            /\ posicion_ocupada \in 0..Tamanio - 1
            /\ cantidad_elementos \in 0..Tamanio
        BY DEF PosicionesCoherentes, Tipos
      <3>2. posicion_libre' = (posicion_libre + 1) % Tamanio
        BY <1>1 DEF Siguiente
      <3> QED  BY <3>1, <3>2, AvanceCoherente
    <2>2. posicion_ocupada + cantidad_elementos + 1
            = posicion_ocupada + (cantidad_elementos + 1)
      BY DEF Tipos
    <2> QED  BY <1>1, <2>1, <2>2 DEF PosicionesCoherentes
  <1>8. ArgumentoPresente'
    BY <1>1 DEF ArgumentoPresente, Tipos
  <1>9. cantidad_elementos > 0 =>
          vector_elementos'[posicion_ocupada'] = vector_elementos[posicion_ocupada]
    BY <1>1, LibreNoEsOcupada DEF Tipos
  <1>10. ASSUME NEW c \in Consumidores
         PROVE  TieneTurno(c)' <=>
                  TieneTurno(c) \/ (c = 1 /\ consumidor_esperando = 1)
    BY <1>1, <1>3 DEF TieneTurno, Tipos
  <1>11. UnSoloTurno'
    <2>1. ASSUME NEW c \in Consumidores
          PROVE  /\ pc_consumidor'[c] \in {"despierto", "leyo"} =>
                      semaforo_consumidores'[c] = 0
                 /\ \A d \in Consumidores :
                      TieneTurno(c)' /\ TieneTurno(d)' => c = d
      BY <1>1, <1>3, <1>10 DEF UnSoloTurno, TieneTurno, Tipos
    <2>2. \E c \in Consumidores : TieneTurno(c)'
      <3>1. 1 \in Consumidores
        BY DEF Consumidores
      <3> QED  BY <1>10, <3>1 DEF UnSoloTurno, Tipos
    <2> QED  BY <1>3, <2>1, <2>2 DEF UnSoloTurno
  <1>12. LoLeidoSigueEnCabeza'
    BY <1>1, <1>9 DEF LoLeidoSigueEnCabeza, Tipos
  <1>13. TodosLoVieron'
    <2> SUFFICES ASSUME NEW c \in Consumidores, TieneTurno(c)',
                        NEW d \in 1..c - 1
                 PROVE  /\ cantidad_elementos' > 0
                        /\ ultimo_equipaje_leido'[d]
                             = vector_elementos'[posicion_ocupada']
      BY DEF TodosLoVieron
    <2>1. TieneTurno(c)
      BY <1>10 DEF Consumidores
    <2> QED  BY <1>1, <1>9, <2>1 DEF TodosLoVieron, Tipos
  <1> QED
    BY <1>4, <1>5, <1>6, <1>7, <1>8, <1>11, <1>12, <1>13

(* A turn of the loop that finds the belt full only moves the permission   *)
(* of the producer to its mark.                                            *)
LEMMA ConservaNoPudoColocar ==
  ASSUME Invariante, NEW p \in Productores, NoPudoColocar(p)
  PROVE  Invariante'
  <1> USE SuposicionCentral DEF Invariante
  <1>1. /\ pc_productor[p] = "despierto"
        /\ cantidad_elementos = Tamanio
        /\ TerminarTurnoProductor(p, cantidad_elementos)
        /\ UNCHANGED <<posicion_libre, posicion_ocupada, vector_elementos,
                       cantidad_elementos, consumidor_esperando,
                       semaforo_consumidores, a_colocar, pc_consumidor,
                       ultimo_equipaje_leido, extraido>>
        /\ pc_productor' = [pc_productor EXCEPT ![p] = "esperando"]
    BY DEF NoPudoColocar, Tipos, posiciones, consumidores
  <1>2. /\ cantidad_productores_esperando' \in Nat
        /\ ids_productores_esperando' \in [Productores -> 0..1]
        /\ semaforo_productores' \in [Productores -> 0..1]
        /\ cantidad_productores_esperando' = Cardinality(Marcados')
        /\ semaforo_productores'[p] + ids_productores_esperando'[p] = 1
        /\ \A q \in Productores \ {p} :
             /\ semaforo_productores'[q] = semaforo_productores[q]
             /\ ids_productores_esperando'[q] = ids_productores_esperando[q]
    BY <1>1, TurnoProductor
  <1>3. Tipos'
    BY <1>1, <1>2 DEF Tipos
  <1>4. UnPermisoPorProductor'
    BY <1>1, <1>2 DEF UnPermisoPorProductor, Tipos
  <1>5. EsperaJustificada'
    <2>1. ASSUME NEW q \in Productores
          PROVE  semaforo_productores'[q] + ids_productores_esperando'[q] <= 1
      BY <1>2 DEF EsperaJustificada, Tipos
    <2> QED  BY <1>1, <1>2, <2>1 DEF EsperaJustificada
  <1>6. PosicionesCoherentes' /\ ArgumentoPresente'
    BY <1>1 DEF PosicionesCoherentes, ArgumentoPresente, Tipos
  <1>7. UnSoloTurno' /\ LoLeidoSigueEnCabeza' /\ TodosLoVieron'
    BY <1>1 DEF UnSoloTurno, LoLeidoSigueEnCabeza, TodosLoVieron, TieneTurno
  <1> QED  BY <1>3, <1>4, <1>5, <1>6, <1>7

(* The call of colocar_elemento and its wait_on move only the permission   *)
(* of the producer.                                                        *)
LEMMA ConservaAfueraProductor ==
  ASSUME Invariante, NEW p \in Productores,
         (\E e \in Equipajes : LlamarColocar(p, e)) \/ EsperarProductor(p)
  PROVE  Invariante'
  <1> USE DEF Invariante
  <1>1. /\ UNCHANGED <<posicion_libre, posicion_ocupada, vector_elementos,
                       cantidad_elementos, consumidor_esperando,
                       cantidad_productores_esperando, ids_productores_esperando,
                       semaforo_consumidores, pc_consumidor,
                       ultimo_equipaje_leido, extraido>>
    BY DEF LlamarColocar, EsperarProductor, posiciones, espera_productores,
       consumidores
  <1>2. /\ semaforo_productores' \in [Productores -> 0..1]
        /\ pc_productor' \in [Productores -> {"fuera", "esperando", "despierto"}]
        /\ a_colocar' \in [Productores -> Contenidos]
        /\ UnPermisoPorProductor'
        /\ ArgumentoPresente'
    <2> USE DEF Tipos, Contenidos, UnPermisoPorProductor, ArgumentoPresente,
                espera_productores
    <2>1. CASE \E e \in Equipajes : LlamarColocar(p, e)
      BY <2>1 DEF LlamarColocar
    <2>2. CASE EsperarProductor(p)
      BY <2>2 DEF EsperarProductor
    <2> QED  BY <2>1, <2>2
  <1>3. Tipos'
    BY <1>1, <1>2 DEF Tipos
  <1>4. EsperaJustificada'
    <2>1. Marcados' = Marcados
      BY <1>1 DEF Marcados
    <2>2. ASSUME NEW q \in Productores
          PROVE  semaforo_productores'[q] + ids_productores_esperando'[q] <= 1
      BY <1>1, <1>2, <1>3 DEF UnPermisoPorProductor, Tipos
    <2> QED  BY <1>1, <2>1, <2>2 DEF EsperaJustificada
  <1>5. PosicionesCoherentes'
    BY <1>1 DEF PosicionesCoherentes
  <1>6. UnSoloTurno' /\ LoLeidoSigueEnCabeza' /\ TodosLoVieron'
    BY <1>1 DEF UnSoloTurno, LoLeidoSigueEnCabeza, TodosLoVieron, TieneTurno
  <1> QED  BY <1>2, <1>3, <1>4, <1>5, <1>6

(* The steps of a consumer other than extraer_elemento touch neither the   *)
(* bags nor the producers.                                                 *)
LEMMA ConservaProductores ==
  ASSUME Invariante,
         UNCHANGED <<posiciones, cantidad_elementos, espera_productores,
                     semaforo_productores, productores>>
  PROVE  /\ UnPermisoPorProductor'
         /\ EsperaJustificada'
         /\ PosicionesCoherentes'
         /\ ArgumentoPresente'
  <1> USE DEF posiciones, espera_productores, productores, Invariante
  <1>1. Marcados' = Marcados
    BY DEF Marcados
  <1> QED
    BY <1>1 DEF UnPermisoPorProductor, EsperaJustificada,
       PosicionesCoherentes, ArgumentoPresente

(* avanzar_cinta: the turn goes to the next consumer, which will find the  *)
(* bag that this one and those before it have read, or back to the first.  *)
LEMMA PasaElTurno ==
  ASSUME Invariante, NEW c \in Consumidores, pc_consumidor[c] = "leyo",
         NEW x \in {"fuera", "esperando"},
         Senializar(SiguienteConsumidor(c)),
         pc_consumidor' = [pc_consumidor EXCEPT ![c] = x],
         UNCHANGED <<posiciones, cantidad_elementos, espera_productores,
                     consumidor_esperando, semaforo_productores, productores,
                     ultimo_equipaje_leido, extraido>>
  PROVE  Invariante'
  <1> USE SuposicionCentral DEF Invariante
  <1> DEFINE s == SiguienteConsumidor(c)
  <1>1. s \in Consumidores /\ s \in {1, c + 1}
    BY DEF SiguienteConsumidor, Consumidores
  <1>2. /\ consumidor_esperando = 0
        /\ \A d \in Consumidores : semaforo_consumidores[d] = 0
        /\ \A d \in Consumidores \ {c} :
             pc_consumidor[d] \notin {"despierto", "leyo"}
    BY ElTurnoEsSuyo
  <1>3. semaforo_consumidores' = [d \in Consumidores |-> IF d = s THEN 1 ELSE 0]
    <2>1. semaforo_consumidores[s] = 0
      BY <1>1, <1>2
    <2>2. semaforo_consumidores' = [semaforo_consumidores EXCEPT ![s] = 1]
      BY <2>1 DEF Senializar
    <2> QED  BY <1>1, <1>2, <2>2 DEF Tipos
  <1>4. \A d \in Consumidores :
          /\ pc_consumidor'[d] \notin {"despierto", "leyo"}
          /\ TieneTurno(d)' <=> d = s
    BY <1>2, <1>3 DEF TieneTurno, Tipos
  <1>5. Tipos'
    BY <1>3 DEF Tipos, posiciones, espera_productores, productores
  <1>6. UnSoloTurno'
    BY <1>1, <1>2, <1>4 DEF UnSoloTurno
  <1>7. LoLeidoSigueEnCabeza'
    BY <1>4 DEF LoLeidoSigueEnCabeza
  <1>8. TodosLoVieron'
    <2> SUFFICES ASSUME NEW d \in 1..s - 1
                 PROVE  /\ cantidad_elementos > 0
                        /\ ultimo_equipaje_leido[d]
                             = vector_elementos[posicion_ocupada]
      BY <1>4 DEF TodosLoVieron, posiciones
    <2>1. s = c + 1 /\ d \in 1..c
      BY <1>1 DEF Consumidores
    <2>2. CASE d = c
      BY <2>2 DEF LoLeidoSigueEnCabeza
    <2>3. CASE d # c
      <3>1. d \in 1..c - 1 /\ TieneTurno(c)
        BY <2>1, <2>3 DEF TieneTurno, Consumidores
      <3> QED  BY <3>1 DEF TodosLoVieron
    <2> QED  BY <2>2, <2>3
  <1> QED  BY <1>5, <1>6, <1>7, <1>8, ConservaProductores

(* avanzar_cinta: the turn goes to the next consumer. *)
LEMMA ConservaAvanzar ==
  ASSUME Invariante, NEW c \in Consumidores, Avanzar(c)
  PROVE  Invariante'
  BY PasaElTurno DEF Avanzar

(* leer_proximo_equipaje may give the turn away before it asks for it.     *)
LEMMA ConservaLlamarLeer ==
  ASSUME Invariante, NEW c \in Consumidores, LlamarLeer(c)
  PROVE  Invariante'
  <1>1. CASE pc_consumidor[c] = "leyo"
    BY <1>1, PasaElTurno DEF LlamarLeer
  <1>2. CASE pc_consumidor[c] = "fuera"
    <2> USE DEF Invariante
    <2>1. /\ pc_consumidor' = [pc_consumidor EXCEPT ![c] = "esperando"]
          /\ UNCHANGED <<posicion_libre, posicion_ocupada, vector_elementos,
                         cantidad_elementos, consumidor_esperando,
                         cantidad_productores_esperando,
                         ids_productores_esperando, semaforo_productores,
                         pc_productor, a_colocar, semaforo_consumidores,
                         ultimo_equipaje_leido, extraido>>
      BY <1>2 DEF LlamarLeer, posiciones, espera_productores, productores
    <2>2. Tipos'
      BY <2>1 DEF Tipos
    <2>3. \A d \in Consumidores :
            /\ TieneTurno(d)' <=> TieneTurno(d)
            /\ pc_consumidor'[d] \in {"despierto", "leyo"} <=>
                 pc_consumidor[d] \in {"despierto", "leyo"}
            /\ pc_consumidor'[d] = "leyo" <=> pc_consumidor[d] = "leyo"
      BY <1>2, <2>1 DEF TieneTurno, Tipos
    <2>4. UnSoloTurno' /\ LoLeidoSigueEnCabeza' /\ TodosLoVieron'
      BY <2>1, <2>3 DEF UnSoloTurno, LoLeidoSigueEnCabeza, TodosLoVieron
    <2> QED  BY <2>2, <2>4, ConservaProductores DEF LlamarLeer
  <1> QED  BY <1>1, <1>2 DEF LlamarLeer

(* wait_on of leer_elemento: the turn goes from the semaphore to the hands. *)
LEMMA ConservaEsperarConsumidor ==
  ASSUME Invariante, NEW c \in Consumidores, EsperarConsumidor(c)
  PROVE  Invariante'
  <1> USE DEF Invariante
  <1>1. /\ pc_consumidor[c] = "esperando"
        /\ semaforo_consumidores[c] = 1
        /\ semaforo_consumidores' = [semaforo_consumidores EXCEPT ![c] = 0]
        /\ pc_consumidor' = [pc_consumidor EXCEPT ![c] = "despierto"]
        /\ UNCHANGED <<posicion_libre, posicion_ocupada, vector_elementos,
                       cantidad_elementos, consumidor_esperando,
                       cantidad_productores_esperando,
                       ids_productores_esperando, semaforo_productores,
                       pc_productor, a_colocar, ultimo_equipaje_leido, extraido>>
    <2>1. semaforo_consumidores[c] = 1
      BY DEF EsperarConsumidor, Tipos
    <2> QED
      BY <2>1 DEF EsperarConsumidor, posiciones, espera_productores, productores,
         Tipos
  <1>2. Tipos'
    BY <1>1 DEF Tipos
  <1>3. \A d \in Consumidores :
          /\ TieneTurno(d)' <=> TieneTurno(d)
          /\ pc_consumidor'[d] = "leyo" <=> pc_consumidor[d] = "leyo"
    BY <1>1 DEF TieneTurno, Tipos
  <1>4. \A d \in Consumidores :
          pc_consumidor'[d] \in {"despierto", "leyo"} =>
            semaforo_consumidores'[d] = 0
    BY <1>1 DEF UnSoloTurno, Tipos
  <1>5. UnSoloTurno' /\ LoLeidoSigueEnCabeza' /\ TodosLoVieron'
    BY <1>1, <1>3, <1>4 DEF UnSoloTurno, LoLeidoSigueEnCabeza, TodosLoVieron
  <1> QED  BY <1>2, <1>5, ConservaProductores DEF EsperarConsumidor

(* leer_elemento: what is noted as read is the oldest bag. *)
LEMMA ConservaLeer ==
  ASSUME Invariante, NEW c \in Consumidores, Leer(c)
  PROVE  Invariante'
  <1> USE SuposicionCentral DEF Invariante
  <1> DEFINE e == vector_elementos[posicion_ocupada]
  <1>1. /\ pc_consumidor[c] = "despierto"
        /\ cantidad_elementos > 0
        /\ e \in Contenidos
        /\ ultimo_equipaje_leido' = [ultimo_equipaje_leido EXCEPT ![c] = e]
        /\ pc_consumidor' = [pc_consumidor EXCEPT ![c] = "leyo"]
        /\ UNCHANGED <<posicion_libre, posicion_ocupada, vector_elementos,
                       cantidad_elementos, consumidor_esperando,
                       cantidad_productores_esperando,
                       ids_productores_esperando, semaforo_productores,
                       pc_productor, a_colocar, semaforo_consumidores, extraido>>
    BY DEF Leer, posiciones, espera_productores, productores, Tipos
  <1>2. Tipos'
    BY <1>1 DEF Tipos
  <1>3. \A d \in Consumidores :
          /\ TieneTurno(d)' <=> TieneTurno(d)
          /\ pc_consumidor'[d] \in {"despierto", "leyo"} <=>
               pc_consumidor[d] \in {"despierto", "leyo"}
    BY <1>1 DEF TieneTurno, Tipos
  <1>4. UnSoloTurno'
    BY <1>1, <1>3 DEF UnSoloTurno
  <1>5. LoLeidoSigueEnCabeza'
    BY <1>1 DEF LoLeidoSigueEnCabeza, Tipos
  <1>6. TodosLoVieron'
    <2> SUFFICES ASSUME NEW d \in Consumidores, TieneTurno(d), NEW f \in 1..d - 1
                 PROVE  ultimo_equipaje_leido'[f] = e
      BY <1>1, <1>3 DEF TodosLoVieron
    <2>1. f \in Consumidores /\ ultimo_equipaje_leido[f] = e
      BY DEF TodosLoVieron, Consumidores
    <2> QED  BY <1>1, <2>1 DEF Tipos
  <1> QED  BY <1>2, <1>4, <1>5, <1>6, ConservaProductores DEF Leer

(* A consumer that finds the belt empty leaves the only turn in the memory. *)
LEMMA ConservaNoPudoLeer ==
  ASSUME Invariante, NEW c \in Consumidores, NoPudoLeer(c)
  PROVE  Invariante'
  <1> USE DEF Invariante
  <1>1. /\ pc_consumidor[c] = "despierto"
        /\ cantidad_elementos = 0
        /\ consumidor_esperando' = 1
        /\ pc_consumidor' = [pc_consumidor EXCEPT ![c] = "esperando"]
        /\ UNCHANGED <<posicion_libre, posicion_ocupada, vector_elementos,
                       cantidad_elementos, cantidad_productores_esperando,
                       ids_productores_esperando, semaforo_productores,
                       pc_productor, a_colocar, semaforo_consumidores,
                       ultimo_equipaje_leido, extraido>>
    BY DEF NoPudoLeer, posiciones, espera_productores, productores
  <1>2. /\ \A d \in Consumidores : semaforo_consumidores[d] = 0
        /\ \A d \in Consumidores \ {c} :
             pc_consumidor[d] \notin {"despierto", "leyo"}
    BY <1>1, ElTurnoEsSuyo
  <1>3. Tipos'
    BY <1>1 DEF Tipos
  <1>4. \A d \in Consumidores :
          pc_consumidor'[d] \notin {"despierto", "leyo"} /\ ~ TieneTurno(d)'
    BY <1>1, <1>2 DEF TieneTurno, Tipos
  <1>5. UnSoloTurno' /\ LoLeidoSigueEnCabeza' /\ TodosLoVieron'
    BY <1>1, <1>4 DEF UnSoloTurno, LoLeidoSigueEnCabeza, TodosLoVieron
  <1> QED  BY <1>3, <1>5, ConservaProductores DEF NoPudoLeer

(* extraer_elemento: every marked producer gets its permission back when   *)
(* the belt stops being full, and the turn goes to the first consumer or,  *)
(* with the belt empty, to the memory.                                     *)
LEMMA ConservaExtraer ==
  ASSUME Invariante, NEW c \in Consumidores, Extraer(c)
  PROVE  Invariante'
  <1> USE SuposicionCentral DEF Invariante
  <1>1. /\ pc_consumidor[c] = "leyo"
        /\ cantidad_elementos - 1 \in 0..Tamanio - 1
        /\ cantidad_elementos' = cantidad_elementos - 1
        /\ posicion_ocupada' = Siguiente(posicion_ocupada)
        /\ extraido' = ultimo_equipaje_leido[c]
        /\ pc_consumidor' = [pc_consumidor EXCEPT ![c] = "fuera"]
        /\ UNCHANGED <<posicion_libre, vector_elementos, pc_productor, a_colocar,
                       ultimo_equipaje_leido>>
    BY DEF Extraer, LoLeidoSigueEnCabeza, Tipos, productores
  <1>2. /\ consumidor_esperando = 0
        /\ \A d \in Consumidores : semaforo_consumidores[d] = 0
        /\ \A d \in Consumidores \ {c} :
             pc_consumidor[d] \notin {"despierto", "leyo"}
    BY <1>1, ElTurnoEsSuyo
  <1>3. /\ cantidad_productores_esperando' = 0
        /\ ids_productores_esperando' = [p \in Productores |-> 0]
        /\ semaforo_productores' =
             [p \in Productores |-> semaforo_productores[p]
                                      + ids_productores_esperando[p]]
    <2>1. CASE cantidad_elementos = Tamanio
      BY <2>1, <1>1, DespiertanProductores DEF Extraer
    <2>2. CASE cantidad_elementos # Tamanio
      <3>1. \A p \in Productores : ids_productores_esperando[p] = 0
        BY <2>2 DEF EsperaJustificada, Marcados, Tipos
      <3>2. cantidad_productores_esperando = 0
        BY <3>1, SinMarcas DEF Marcados
      <3>3. UNCHANGED <<semaforo_productores, espera_productores>>
        BY <2>2, <1>1 DEF Extraer, Tipos
      <3>4. ids_productores_esperando = [p \in Productores |-> 0]
        BY <3>1 DEF Tipos
      <3>5. semaforo_productores =
              [p \in Productores |-> semaforo_productores[p]
                                       + ids_productores_esperando[p]]
        <4>1. semaforo_productores = [p \in Productores |-> semaforo_productores[p]]
          BY DEF Tipos
        <4>2. ASSUME NEW p \in Productores
              PROVE  semaforo_productores[p] =
                       semaforo_productores[p] + ids_productores_esperando[p]
          <5>1. semaforo_productores[p] \in 0..1 /\ ids_productores_esperando[p] = 0
            BY <3>1 DEF Tipos
          <5> QED  BY <5>1
        <4> QED  BY <4>1, <4>2
      <3> QED  BY <3>2, <3>3, <3>4, <3>5 DEF espera_productores
    <2> QED  BY <2>1, <2>2
  <1>4. \/ /\ cantidad_elementos' = 0
           /\ consumidor_esperando' = 1
           /\ semaforo_consumidores' = semaforo_consumidores
        \/ /\ consumidor_esperando' = 0
           /\ semaforo_consumidores' = [semaforo_consumidores EXCEPT ![1] = 1]
    <2>1. semaforo_consumidores[1] = 0
      BY <1>2 DEF Consumidores
    <2> QED  BY <1>2, <2>1 DEF Extraer, DevolverTurno, Senializar
  <1>5. Tipos'
    <2>1. posicion_ocupada' \in 0..Tamanio - 1 /\ cantidad_elementos' \in 0..Tamanio
      BY <1>1, SiguienteEnRango DEF Tipos
    <2>2. /\ semaforo_productores' \in [Productores -> 0..1]
          /\ ids_productores_esperando' \in [Productores -> 0..1]
          /\ cantidad_productores_esperando' \in Nat
      BY <1>3 DEF Tipos, UnPermisoPorProductor
    <2>3. /\ semaforo_consumidores' \in [Consumidores -> 0..1]
          /\ consumidor_esperando' \in 0..1
      BY <1>4 DEF Tipos
    <2> QED  BY <1>1, <2>1, <2>2, <2>3 DEF Tipos
  <1>6. UnPermisoPorProductor'
    BY <1>1, <1>3 DEF UnPermisoPorProductor, Tipos
  <1>7. EsperaJustificada'
    <2>1. Marcados' = {}
      BY <1>3 DEF Marcados
    <2>2. \A p \in Productores :
            semaforo_productores'[p] + ids_productores_esperando'[p] <= 1
      BY <1>3 DEF EsperaJustificada, Tipos
    <2> QED  BY <1>3, <2>1, <2>2, FS_EmptySet DEF EsperaJustificada
  <1>8. PosicionesCoherentes'
    <2>1. /\ posicion_libre = (posicion_ocupada + cantidad_elementos) % Tamanio
          /\ posicion_ocupada \in 0..Tamanio - 1
          /\ cantidad_elementos \in 0..Tamanio
          /\ cantidad_elementos > 0
      BY <1>1 DEF PosicionesCoherentes, Tipos
    <2>2. posicion_ocupada' = (posicion_ocupada + 1) % Tamanio
      BY <1>1 DEF Siguiente
    <2>3. (((posicion_ocupada + 1) % Tamanio) + (cantidad_elementos - 1)) % Tamanio
            = (posicion_ocupada + cantidad_elementos) % Tamanio
      BY <2>1, AvanceCoherente
    <2> QED  BY <1>1, <2>1, <2>2, <2>3 DEF PosicionesCoherentes
  <1>9. ArgumentoPresente'
    BY <1>1 DEF ArgumentoPresente
  <1>10. ASSUME NEW d \in Consumidores
         PROVE  /\ pc_consumidor'[d] \notin {"despierto", "leyo"}
                /\ TieneTurno(d)' <=> (d = 1 /\ consumidor_esperando' = 0)
    BY <1>1, <1>2, <1>4 DEF TieneTurno, Tipos
  <1>11. UnSoloTurno'
    <2>1. 1 \in Consumidores /\ (consumidor_esperando' = 1 => cantidad_elementos' = 0)
      BY <1>4 DEF Consumidores
    <2> QED  BY <1>10, <2>1 DEF UnSoloTurno
  <1>12. LoLeidoSigueEnCabeza' /\ TodosLoVieron'
    BY <1>10 DEF LoLeidoSigueEnCabeza, TodosLoVieron
  <1> QED
    BY <1>5, <1>6, <1>7, <1>8, <1>9, <1>11, <1>12

(* Every call of a producer and of a consumer, and a step of anything else *)
(* in the program that leaves the belt alone, keeps the invariant.         *)
LEMMA InvarianteSeConserva ==
  ASSUME Invariante, [Next]_vars
  PROVE  Invariante'
  <1>1. CASE UNCHANGED vars
    <2> USE <1>1 DEF vars, Invariante, posiciones, espera_productores,
                     productores, consumidores
    <2>1. Tipos'
      BY DEF Tipos
    <2>2. UnSoloTurno' /\ LoLeidoSigueEnCabeza' /\ TodosLoVieron'
      BY DEF UnSoloTurno, LoLeidoSigueEnCabeza, TodosLoVieron, TieneTurno
    <2> QED  BY <2>1, <2>2, ConservaProductores
  <1>2. ASSUME NEW p \in Productores,
               PasoProductor(p) \/ \E e \in Equipajes : LlamarColocar(p, e)
        PROVE  Invariante'
    BY <1>2, ConservaColocar, ConservaNoPudoColocar, ConservaAfueraProductor
       DEF PasoProductor
  <1>3. ASSUME NEW c \in Consumidores, PasoConsumidor(c)
        PROVE  Invariante'
    BY <1>3, ConservaLlamarLeer, ConservaEsperarConsumidor, ConservaLeer,
       ConservaNoPudoLeer, ConservaAvanzar, ConservaExtraer
       DEF PasoConsumidor
  <1> QED  BY <1>1, <1>2, <1>3 DEF Next

(* The invariant of the central belt: it holds in every state, whatever    *)
(* the producers and the consumers do inside ApiDespachante's calls.       *)
THEOREM InvarianteSiempre == Spec => []Invariante
  <1>1. Invariante /\ [Next]_vars => Invariante'
    BY InvarianteSeConserva
  <1> QED  BY InvarianteInicial, <1>1, PTL DEF Spec

(* The turn of the consumers is never lost nor doubled, for any number of  *)
(* them and any interleaving with the producers.                           *)
THEOREM TurnoSiempre == Spec => []UnSoloTurno
  BY InvarianteSiempre, PTL DEF Invariante

(* What leer_elemento returned is still what extraer_elemento removes.     *)
THEOREM LeidoSiempre == Spec => []LoLeidoSigueEnCabeza
  BY InvarianteSiempre, PTL DEF Invariante

(* No bag reaches a consumer that the ones before it did not see.          *)
THEOREM VistosSiempre == Spec => []TodosLoVieron
  BY InvarianteSiempre, PTL DEF Invariante

(* A producer sleeps only on a full belt, and the wake-up loop of          *)
(* extraer_elemento misses nobody.                                         *)
THEOREM EsperasSiempre == Spec => []EsperaJustificada
  BY InvarianteSiempre, PTL DEF Invariante

-----------------------------------------------------------------------------
(* The belt implements the bounded queue. *)

(* A bag put on the belt goes to the end of the queue. *)
LEMMA ColocarEsPoner ==
  ASSUME Invariante, NEW p \in Productores, Colocar(p)
  PROVE  Cola!Poner(a_colocar[p])
  <1> USE SuposicionCentral DEF Invariante
  <1> DEFINE o == posicion_ocupada
             n == cantidad_elementos
             e == a_colocar[p]
  <1>1. /\ o \in 0..Tamanio - 1
        /\ n \in 0..Tamanio - 1
        /\ e \in Contenidos
        /\ vector_elementos \in [0..Tamanio - 1 -> Contenidos]
        /\ posicion_libre = (o + n) % Tamanio
        /\ vector_elementos' = [vector_elementos EXCEPT ![posicion_libre] = e]
        /\ cantidad_elementos' = n + 1
        /\ posicion_ocupada' = o
        /\ extraido' = extraido
    BY DEF Colocar, Tipos, PosicionesCoherentes, consumidores
  <1>2. /\ Contenido = EnOrden(vector_elementos, o, n, Tamanio)
        /\ Contenido' = EnOrden(vector_elementos', o, cantidad_elementos', Tamanio)
    BY <1>1 DEF Contenido, EnOrden
  <1>3. Contenido' = Append(Contenido, e)
    <2>1. Coloca(vector_elementos, vector_elementos', o, n, Tamanio, e)
      BY <1>1 DEF Coloca
    <2>2. EnOrden(vector_elementos', o, n + 1, Tamanio)
            = Append(EnOrden(vector_elementos, o, n, Tamanio), e)
      BY <2>1, ColocarAgrega
    <2> QED  BY <1>1, <1>2, <2>2
  <1>4. Len(Contenido) < Tamanio
    BY <1>1, <1>2, OrdenEsSecuencia
  <1> QED  BY <1>1, <1>3, <1>4 DEF Cola!Poner

(* The consumer removes the head of the queue and returns that bag, though *)
(* it returns what it had read, and removes without looking.               *)
LEMMA ExtraerEsSacar ==
  ASSUME Invariante, NEW c \in Consumidores, Extraer(c)
  PROVE  Cola!Sacar
  <1> USE SuposicionCentral DEF Invariante
  <1> DEFINE o == posicion_ocupada
             n == cantidad_elementos
  <1>1. /\ o \in 0..Tamanio - 1
        /\ n \in Nat /\ 0 < n /\ n <= Tamanio
        /\ vector_elementos \in [0..Tamanio - 1 -> Contenidos]
        /\ vector_elementos' = vector_elementos
        /\ cantidad_elementos' = n - 1
        /\ posicion_ocupada' = (o + 1) % Tamanio
        /\ extraido' = vector_elementos[o]
    BY DEF Extraer, Tipos, LoLeidoSigueEnCabeza, Siguiente
  <1>2. /\ Contenido = EnOrden(vector_elementos, o, n, Tamanio)
        /\ Contenido' =
             EnOrden(vector_elementos, (o + 1) % Tamanio, n - 1, Tamanio)
    BY <1>1 DEF Contenido, EnOrden
  <1>3. Ocupado(vector_elementos, o, n, Tamanio)
    BY <1>1 DEF Ocupado
  <1>4. Contenido # <<>> /\ Head(Contenido) = vector_elementos[o]
    BY <1>2, <1>3, CabezaDelOrden
  <1>5. Contenido' = Tail(Contenido)
    BY <1>2, <1>3, ExtraerQuita
  <1> QED  BY <1>1, <1>4, <1>5 DEF Cola!Sacar

(* The other steps leave the queue alone. *)
LEMMA OtrosPasosNoTocanLaCola ==
  ASSUME \/ \E p \in Productores : \/ EsperarProductor(p)
                                   \/ NoPudoColocar(p)
                                   \/ \E e \in Equipajes : LlamarColocar(p, e)
         \/ \E c \in Consumidores : \/ LlamarLeer(c)
                                    \/ EsperarConsumidor(c)
                                    \/ Leer(c)
                                    \/ NoPudoLeer(c)
                                    \/ Avanzar(c)
         \/ UNCHANGED vars
  PROVE  UNCHANGED <<Contenido, extraido>>
  <1>1. UNCHANGED <<posiciones, cantidad_elementos, extraido>>
    BY DEF LlamarColocar, EsperarProductor, NoPudoColocar, LlamarLeer,
       EsperarConsumidor, Leer, NoPudoLeer, Avanzar, vars, consumidores
  <1> QED  BY <1>1 DEF Contenido, posiciones

(* Every step of the belt is one of the queue or does not touch it.        *)
LEMMA PasoDeLaCola ==
  ASSUME Invariante, [Next]_vars
  PROVE  Cola!Next \/ UNCHANGED <<Contenido, extraido>>
  <1>1. ASSUME NEW p \in Productores, Colocar(p)
        PROVE  Cola!Next
    <2>1. a_colocar[p] \in Equipajes
      BY <1>1 DEF Invariante, ArgumentoPresente, Colocar
    <2> QED  BY <1>1, <2>1, ColocarEsPoner DEF Cola!Next
  <1>2. ASSUME NEW c \in Consumidores, Extraer(c)
        PROVE  Cola!Next
    BY <1>2, ExtraerEsSacar DEF Cola!Next
  <1> QED
    BY <1>1, <1>2, OtrosPasosNoTocanLaCola
       DEF Next, PasoProductor, PasoConsumidor

(* The central belt implements ColaAcotada: whichever consumer extracts,   *)
(* extraer_equipaje returns the oldest bag and removes that one.           *)
THEOREM Refinamiento == Spec => ImplementaCola
  <1>1. Init => Cola!Init
    BY SuposicionCentral DEF Init, Cola!Init, Contenido
  <1>2. Invariante /\ [Next]_vars => [Cola!Next]_(Cola!vars)
    BY PasoDeLaCola DEF Cola!vars
  <1> QED
    BY <1>1, <1>2, InvarianteSiempre, PTL DEF Spec, Cola!Spec, ImplementaCola

-----------------------------------------------------------------------------
(* The belt in the loop: CircuitoCentral *)

(* The table of the tower, the queues and the hands have their types. *)
TiposCircuito ==
  /\ zonas \in [0..MaxZonas - 1 -> Vuelos \cup {SinZona}]
  /\ vuelos_abiertos \subseteq Vuelos
  /\ num_zona \in [Consumidores -> Int]
  /\ en_mano \in [Consumidores -> Contenidos]
  /\ cola_control \in Seq(Equipajes)
  /\ cinta_contenedor \in [ZonasServidas -> Seq(Equipajes)]
  /\ descartados \subseteq Ids

(* What is in a place of the belt between the oldest bag and the last one  *)
(* is a bag, and not what the memory was filled with at the start.         *)
ContenidoEscrito == Contenido \in Seq(Equipajes)

(* The flight of the bag, if there is one, has been registered. *)
Registrado(e) == e # Ninguno => Vuelo(e) \in vuelos_abiertos

(* No bag is past its scanner before its flight was given a zone: the      *)
(* flight of what is held, carried, read or dropped will not be given      *)
(* another.                                                                *)
TodosRegistrados ==
  /\ \A p \in Productores : Registrado(a_colocar[p])
  /\ \A i \in 0..Tamanio - 1 : Registrado(vector_elementos[i])
  /\ \A c \in Consumidores :
       Registrado(ultimo_equipaje_leido[c]) /\ Registrado(en_mano[c])
  /\ \A i \in DOMAIN cola_control : Registrado(cola_control[i])
  /\ \A id \in descartados : VueloDe[id] \in vuelos_abiertos

(* The entries of the table are of registered flights, one for each.       *)
UnaZonaPorVuelo ==
  \A i \in 0..MaxZonas - 1 : zonas[i] # SinZona =>
    /\ zonas[i] \in vuelos_abiertos
    /\ \A j \in 0..MaxZonas - 1 : zonas[j] = zonas[i] => j = i

(* n is what get_zona answered for flight v: the flight may have lost its  *)
(* zone since, but it has no other.                                        *)
Vigente(n, v) == \A i \in 0..MaxZonas - 1 : zonas[i] = v => n = i

(* num_zona is about the bag the consumer is busy with, and a dispatch     *)
(* robot holds bags of its zones only.                                     *)
ConsultaCoherente ==
  /\ \A c \in Consumidores :
       /\ en_mano[c] # Ninguno => pc_consumidor[c] = "fuera"
       /\ num_zona[c] # SinConsultar =>
            \/ en_mano[c] # Ninguno
            \/ c \in Despachos /\ pc_consumidor[c] = "leyo"
  /\ \A c \in Despachos :
       /\ en_mano[c] # Ninguno => num_zona[c] \in ZonasDe[c]
       /\ pc_consumidor[c] = "leyo" /\ num_zona[c] # SinConsultar =>
            Vigente(num_zona[c], Vuelo(ultimo_equipaje_leido[c]))
  /\ en_mano[Ultimo] # Ninguno /\ num_zona[Ultimo] # SinConsultar =>
       Vigente(num_zona[Ultimo], Vuelo(en_mano[Ultimo]))

(* Robot d has nothing to do with bag e, and will not have any more. *)
AjenoA(d, e) ==
  e.sospechoso \/ \A z \in ZonasDe[d] \cap (0..MaxZonas - 1) : zonas[z] # Vuelo(e)

(* Every robot before the one that has the turn let pass what it read. *)
DejadosPasar ==
  \A c \in Consumidores : TieneTurno(c) =>
    \A d \in 1..c - 1 :
      ultimo_equipaje_leido[d] # Ninguno => AjenoA(d, ultimo_equipaje_leido[d])

(* The inductive invariant of the loop. *)
InvarianteCircuito ==
  /\ Invariante
  /\ TiposCircuito
  /\ ContenidoEscrito
  /\ TodosRegistrados
  /\ UnaZonaPorVuelo
  /\ ConsultaCoherente
  /\ DejadosPasar
  /\ SospechosoNoSeCarga
  /\ LimpiosNoVuelven
-----------------------------------------------------------------------------
(* The consumers are the dispatch robots and, last, the robot of the       *)
(* suspicious bags.                                                        *)
LEMMA LosConsumidores ==
  /\ Ultimo \in Consumidores /\ Ultimo \notin Despachos
  /\ Despachos \subseteq Consumidores
  /\ Consumidores = Despachos \cup {Ultimo}
  /\ Despachos = 1..Ultimo - 1
  BY SuposicionCircuito, SuposicionCentral DEF Consumidores, Despachos, Ultimo

(* The flight of a bag is one of the flights, and no flight number is what *)
(* the table holds for a zone without one.                                 *)
LEMMA VueloDeEquipaje ==
  /\ \A e \in Equipajes : e.id \in Ids /\ Vuelo(e) \in Vuelos
  /\ \A id \in Ids : VueloDe[id] \in Vuelos
  /\ SinZona \notin Vuelos
  <1>1. \A id \in Ids : VueloDe[id] \in Vuelos
    BY DEF Vuelos
  <1>2. \A e \in Equipajes : e.id \in Ids
    BY SuposicionCircuito
  <1>3. SinZona \notin Vuelos
    BY SuposicionCircuito DEF Vuelos, SinZona
  <1> QED  BY <1>1, <1>2, <1>3 DEF Vuelo

(* What get_zona answers holds at once: the flight is in no other entry.   *)
LEMMA RespuestaVigente ==
  ASSUME InvarianteCircuito, NEW v \in Vuelos
  PROVE  GetZona(zonas, v) \in Int /\ Vigente(GetZona(zonas, v), v)
  <1> DEFINE entradas == {i \in DOMAIN zonas : zonas[i] = v}
  <1>1. DOMAIN zonas = 0..MaxZonas - 1
    BY DEF InvarianteCircuito, TiposCircuito
  <1>2. v # SinZona
    BY VueloDeEquipaje
  <1>3. CASE entradas = {}
    <2>1. GetZona(zonas, v) = SinZona
      BY <1>3 DEF GetZona
    <2>2. \A i \in 0..MaxZonas - 1 : zonas[i] # v
      BY <1>1, <1>3
    <2> QED  BY <2>1, <2>2 DEF Vigente, SinZona
  <1>4. CASE entradas # {}
    <2>1. PICK i \in 0..MaxZonas - 1 : zonas[i] = v
      BY <1>1, <1>4
    <2>2. \A j \in 0..MaxZonas - 1 : zonas[j] = v => j = i
      BY <1>2, <2>1 DEF InvarianteCircuito, UnaZonaPorVuelo
    <2>3. entradas = {i}
      BY <1>1, <2>1, <2>2
    <2>4. i \in Int
      BY SuposicionZonas
    <2>5. Min({i}) = i
      BY <2>4 DEF Min
    <2>6. GetZona(zonas, v) = i
      BY <1>4, <2>3, <2>5 DEF GetZona
    <2> QED  BY <2>2, <2>4, <2>6 DEF Vigente
  <1> QED  BY <1>3, <1>4

(* Only the turn matters for what the robots let pass: it stays where it   *)
(* was or goes to the first one, and only who has it reads.                *)
LEMMA ConservaDejados ==
  ASSUME InvarianteCircuito, UNCHANGED zonas,
         \A c \in Consumidores : TieneTurno(c)' => c = 1 \/ TieneTurno(c),
         \A d \in Consumidores :
           TieneTurno(d) \/ ultimo_equipaje_leido'[d] = ultimo_equipaje_leido[d]
  PROVE  DejadosPasar'
  <1> SUFFICES ASSUME NEW c \in Consumidores, TieneTurno(c)', NEW d \in 1..c - 1,
                      ultimo_equipaje_leido'[d] # Ninguno
               PROVE  AjenoA(d, ultimo_equipaje_leido[d])'
    BY DEF DejadosPasar
  <1>1. d \in Consumidores /\ c # 1 /\ c # d
    BY SuposicionCentral DEF Consumidores
  <1>2. TieneTurno(c)
    BY <1>1 DEF TieneTurno
  <1>3. ~ TieneTurno(d)
    BY <1>1, <1>2 DEF InvarianteCircuito, Invariante, UnSoloTurno
  <1>4. ultimo_equipaje_leido'[d] = ultimo_equipaje_leido[d]
    BY <1>1, <1>3
  <1>5. AjenoA(d, ultimo_equipaje_leido[d])
    BY <1>2, <1>4 DEF InvarianteCircuito, DejadosPasar
  <1> QED  BY <1>4, <1>5 DEF AjenoA

(* A bag of a flight that is attended is still a bag of one of the robots. *)
LEMMA AtendidoPorAlguno ==
  ASSUME NEW v, Atendido(v), InvarianteCircuito
  PROVE  \E d \in Despachos : \E z \in ZonasDe[d] \cap (0..MaxZonas - 1) : zonas[z] = v
  BY DEF Atendido, ZonasServidas, InvarianteCircuito, TiposCircuito

(* What a consumer has read is a bag, and the oldest one.                  *)
LEMMA LeidoEsEquipaje ==
  ASSUME InvarianteCircuito, NEW c \in Consumidores, pc_consumidor[c] = "leyo"
  PROVE  /\ ultimo_equipaje_leido[c] = vector_elementos[posicion_ocupada]
         /\ ultimo_equipaje_leido[c] \in Equipajes
         /\ ultimo_equipaje_leido[c] # Ninguno
  <1> USE SuposicionCentral DEF InvarianteCircuito, Invariante
  <1>1. /\ ultimo_equipaje_leido[c] = vector_elementos[posicion_ocupada]
        /\ cantidad_elementos > 0
    BY DEF LoLeidoSigueEnCabeza
  <1>2. /\ posicion_ocupada \in 0..Tamanio - 1
        /\ cantidad_elementos \in 0..Tamanio
    BY DEF Tipos
  <1>3. DOMAIN Contenido = 1..cantidad_elementos
    BY DEF Contenido
  <1>4. 1 \in DOMAIN Contenido
    BY <1>1, <1>2, <1>3
  <1>5. Contenido[1] \in Equipajes
    BY <1>4, ElementOfSeq DEF ContenidoEscrito
  <1>6. Contenido[1] = vector_elementos[(posicion_ocupada + 1 - 1) % Tamanio]
    BY <1>3, <1>4 DEF Contenido
  <1>7. (posicion_ocupada + 1 - 1) % Tamanio = posicion_ocupada
    BY <1>2, RestoDosVueltas
  <1> QED  BY <1>1, <1>5, <1>6, <1>7, SuposicionCircuito

(* What a step of the tower alone does to the flights registered before:   *)
(* nothing, or it takes their zone.                                        *)
SoloQuitaZonas ==
  /\ vuelos_abiertos \subseteq vuelos_abiertos'
  /\ zonas' \in [0..MaxZonas - 1 -> Vuelos \cup {SinZona}]
  /\ \A i \in 0..MaxZonas - 1 :
       zonas'[i] \in vuelos_abiertos => zonas'[i] = zonas[i]

(* No bag in the loop sees its flight get a zone: every answer of get_zona *)
(* and every bag let pass stay right.                                      *)
LEMMA ConservaTabla ==
  ASSUME InvarianteCircuito, SoloQuitaZonas,
         UNCHANGED <<vars, num_zona, en_mano, cola_control, descartados>>
  PROVE  /\ TodosRegistrados' /\ ConsultaCoherente' /\ DejadosPasar'
         /\ LimpiosNoVuelven'
  <1> USE DEF InvarianteCircuito
  <1>1. UNCHANGED <<a_colocar, vector_elementos, ultimo_equipaje_leido,
                    pc_consumidor, semaforo_consumidores>>
    BY DEF vars, posiciones, productores, consumidores
  <1>2. \A v \in vuelos_abiertos, i \in 0..MaxZonas - 1 :
          zonas'[i] = v => zonas[i] = v
    BY DEF SoloQuitaZonas
  <1>3. TodosRegistrados'
    BY <1>1 DEF TodosRegistrados, SoloQuitaZonas, Registrado
  <1>4. ConsultaCoherente'
    <2>1. ASSUME NEW c \in Despachos, pc_consumidor[c] = "leyo",
                 num_zona[c] # SinConsultar
          PROVE  Vigente(num_zona[c], Vuelo(ultimo_equipaje_leido[c]))'
      <3>1. Vuelo(ultimo_equipaje_leido[c]) \in vuelos_abiertos
        BY <2>1, LeidoEsEquipaje, LosConsumidores DEF TodosRegistrados, Registrado
      <3>2. Vigente(num_zona[c], Vuelo(ultimo_equipaje_leido[c]))
        BY <2>1 DEF ConsultaCoherente
      <3> QED  BY <1>1, <1>2, <3>1, <3>2 DEF Vigente
    <2>2. ASSUME en_mano[Ultimo] # Ninguno, num_zona[Ultimo] # SinConsultar
          PROVE  Vigente(num_zona[Ultimo], Vuelo(en_mano[Ultimo]))'
      <3>1. Vuelo(en_mano[Ultimo]) \in vuelos_abiertos
        BY <2>2, LosConsumidores DEF TodosRegistrados, Registrado
      <3>2. Vigente(num_zona[Ultimo], Vuelo(en_mano[Ultimo]))
        BY <2>2 DEF ConsultaCoherente
      <3> QED  BY <1>2, <3>1, <3>2 DEF Vigente
    <2> QED  BY <1>1, <2>1, <2>2 DEF ConsultaCoherente
  <1>5. DejadosPasar'
    <2> SUFFICES ASSUME NEW c \in Consumidores, TieneTurno(c)',
                        NEW d \in 1..c - 1, ultimo_equipaje_leido[d] # Ninguno
                 PROVE  AjenoA(d, ultimo_equipaje_leido[d])'
      BY <1>1 DEF DejadosPasar
    <2>1. TieneTurno(c) /\ d \in Consumidores
      BY <1>1, SuposicionCentral DEF TieneTurno, Consumidores
    <2>2. Vuelo(ultimo_equipaje_leido[d]) \in vuelos_abiertos
      BY <2>1 DEF TodosRegistrados, Registrado
    <2>3. AjenoA(d, ultimo_equipaje_leido[d])
      BY <2>1 DEF DejadosPasar
    <2> QED  BY <1>1, <1>2, <2>2, <2>3 DEF AjenoA
  <1>6. \A v \in vuelos_abiertos : Atendido(v)' => Atendido(v)
    BY <1>2 DEF Atendido, SoloQuitaZonas, TiposCircuito
  <1>7. LimpiosNoVuelven'
    <2>1. ASSUME NEW e \in {en_mano[Ultimo]} \cup ToSet(cola_control),
                 e # Ninguno, Atendido(Vuelo(e))'
          PROVE  e.sospechoso
      <3>1. Vuelo(e) \in vuelos_abiertos
        BY <2>1, LosConsumidores DEF TodosRegistrados, Registrado, ToSet
      <3> QED  BY <1>6, <2>1, <3>1 DEF LimpiosNoVuelven
    <2>2. ASSUME NEW id \in descartados, NEW i \in 0..MaxZonas - 1
          PROVE  zonas'[i] # VueloDe[id]
      <3>1. VueloDe[id] \in vuelos_abiertos
        BY DEF TodosRegistrados
      <3> QED  BY <1>2, <3>1 DEF LimpiosNoVuelven, TiposCircuito
    <2> QED  BY <2>1, <2>2 DEF LimpiosNoVuelven, SoloQuitaZonas
  <1> QED  BY <1>3, <1>4, <1>5, <1>7

(* The belt in the loop keeps the invariant of the belt, and only bags are *)
(* put on it.                                                              *)
LEMMA LaCintaSigue ==
  ASSUME InvarianteCircuito, [Next]_vars
  PROVE  Invariante' /\ ContenidoEscrito'
  <1>1. Invariante /\ Contenido \in Seq(Equipajes)
    BY DEF InvarianteCircuito, ContenidoEscrito
  <1>2. Invariante'
    BY <1>1, InvarianteSeConserva
  <1>3. CASE \E e \in Equipajes : Cola!Poner(e)
    BY <1>1, <1>2, <1>3, AppendProperties DEF Cola!Poner, ContenidoEscrito
  <1>4. CASE Cola!Sacar
    BY <1>1, <1>2, <1>4, HeadTailProperties DEF Cola!Sacar, ContenidoEscrito
  <1>5. CASE UNCHANGED <<Contenido, extraido>>
    BY <1>1, <1>2, <1>5 DEF ContenidoEscrito
  <1> QED  BY <1>1, <1>2, <1>3, <1>4, <1>5, PasoDeLaCola DEF Cola!Next
-----------------------------------------------------------------------------
(* The invariant holds at the start and every step of the loop keeps it,   *)
(* the belt's part by LaCintaSigue.                                        *)

(* The table is empty and no bag has been scanned. *)
LEMMA CircuitoInicial == InitCircuito => InvarianteCircuito
  <1> SUFFICES ASSUME InitCircuito PROVE InvarianteCircuito
    OBVIOUS
  <1> USE LosConsumidores DEF InitCircuito
  <1>1. Invariante
    BY InvarianteInicial
  <1>2. TiposCircuito
    BY DEF TiposCircuito, ZonasVacias, Contenidos, SinConsultar
  <1>3. ContenidoEscrito
    <2>1. cantidad_elementos = 0
      BY DEF Init
    <2>2. Contenido = <<>>
      BY <2>1 DEF Contenido
    <2> QED  BY <2>2 DEF ContenidoEscrito
  <1>4. TodosRegistrados
    BY DEF TodosRegistrados, Registrado, Init
  <1>5. UnaZonaPorVuelo
    BY DEF UnaZonaPorVuelo, ZonasVacias
  <1>6. ConsultaCoherente
    BY DEF ConsultaCoherente, Init
  <1>7. DejadosPasar
    <2>1. \A d \in Consumidores : ultimo_equipaje_leido[d] = Ninguno
      BY DEF Init
    <2>2. \A c \in Consumidores : 1..c - 1 \subseteq Consumidores
      BY SuposicionCentral DEF Consumidores
    <2> QED  BY <2>1, <2>2 DEF DejadosPasar
  <1>8. SospechosoNoSeCarga
    BY DEF SospechosoNoSeCarga
  <1>9. LimpiosNoVuelven
    BY DEF LimpiosNoVuelven, ToSet
  <1> QED
    BY <1>1, <1>2, <1>3, <1>4, <1>5, <1>6, <1>7, <1>8, <1>9
       DEF InvarianteCircuito

(* A flight that is given a zone had none, and no bag of it is past the    *)
(* scanners.                                                               *)
LEMMA ConservaAbrirVuelo ==
  ASSUME InvarianteCircuito, NEW v \in Vuelos, NEW z \in RobotsCarga,
         AbrirVuelo(v, z)
  PROVE  InvarianteCircuito'
  <1> USE DEF InvarianteCircuito
  <1>1. /\ v \notin vuelos_abiertos
        /\ vuelos_abiertos' = vuelos_abiertos \cup {v}
        /\ zonas' = [zonas EXCEPT ![z - 1] = v]
        /\ UNCHANGED <<vars, num_zona, en_mano, cola_control,
                       cinta_contenedor, descartados>>
    BY DEF AbrirVuelo, AsignarVuelo
  <1>2. z - 1 \in 0..MaxZonas - 1
    BY SuposicionCircuito, SuposicionZonas
  <1>3. TiposCircuito'
    BY <1>1, <1>2 DEF TiposCircuito
  <1>4. SoloQuitaZonas
    BY <1>1, <1>2 DEF SoloQuitaZonas, TiposCircuito
  <1>5. UnaZonaPorVuelo'
    <2> SUFFICES ASSUME NEW i \in 0..MaxZonas - 1, zonas'[i] # SinZona
                 PROVE  /\ zonas'[i] \in vuelos_abiertos'
                        /\ \A j \in 0..MaxZonas - 1 :
                             zonas'[j] = zonas'[i] => j = i
      BY DEF UnaZonaPorVuelo
    <2>1. \A j \in 0..MaxZonas - 1 :
            zonas'[j] = IF j = z - 1 THEN v ELSE zonas[j]
      BY <1>1, <1>2 DEF TiposCircuito
    <2>2. v # SinZona
      BY VueloDeEquipaje
    <2> QED  BY <1>1, <2>1, <2>2 DEF UnaZonaPorVuelo
  <1>6. SospechosoNoSeCarga'
    BY <1>1 DEF SospechosoNoSeCarga
  <1> QED  BY <1>1, <1>3, <1>4, <1>5, <1>6, ConservaTabla, LaCintaSigue

(* The end of a load only takes flights out of the table, whatever number  *)
(* desasignar_vuelo is called with.                                        *)
LEMMA ConservaTerminarCarga ==
  ASSUME InvarianteCircuito, NEW z \in RobotsCarga, TerminarCarga(z)
  PROVE  InvarianteCircuito'
  <1> USE DEF InvarianteCircuito
  <1>1. /\ zonas' = [i \in 0..MaxZonas - 1 |->
                       IF zonas[i] = z THEN SinZona ELSE zonas[i]]
        /\ UNCHANGED <<vars, vuelos_abiertos, num_zona, en_mano, cola_control,
                       cinta_contenedor, descartados>>
    BY DEF TerminarCarga, DesasignarVuelo, TiposCircuito
  <1>2. TiposCircuito'
    BY <1>1 DEF TiposCircuito
  <1>3. SinZona \notin vuelos_abiertos
    BY VueloDeEquipaje DEF TiposCircuito
  <1>4. SoloQuitaZonas
    BY <1>1, <1>2, <1>3 DEF SoloQuitaZonas, TiposCircuito
  <1>5. UnaZonaPorVuelo'
    BY <1>1 DEF UnaZonaPorVuelo
  <1>6. SospechosoNoSeCarga'
    BY <1>1 DEF SospechosoNoSeCarga
  <1> QED  BY <1>1, <1>2, <1>4, <1>5, <1>6, ConservaTabla, LaCintaSigue

(* Taking a bag off a container belt. *)
LEMMA ConservaCargar ==
  ASSUME InvarianteCircuito, NEW z \in ZonasServidas, Cargar(z)
  PROVE  InvarianteCircuito'
  <1> USE DEF InvarianteCircuito
  <1>1. /\ cinta_contenedor[z] # <<>>
        /\ cinta_contenedor' = [cinta_contenedor EXCEPT ![z] = Tail(@)]
        /\ UNCHANGED <<vars, zonas, vuelos_abiertos, num_zona, en_mano,
                       cola_control, descartados>>
    BY DEF Cargar
  <1>2. cinta_contenedor \in [ZonasServidas -> Seq(Equipajes)]
    BY DEF TiposCircuito
  <1>3. Tail(cinta_contenedor[z]) \in Seq(Equipajes)
    BY <1>1, <1>2
  <1>4. TiposCircuito'
    BY <1>1, <1>3 DEF TiposCircuito
  <1>5. SoloQuitaZonas
    BY <1>1 DEF SoloQuitaZonas, TiposCircuito
  <1>6. UnaZonaPorVuelo'
    BY <1>1 DEF UnaZonaPorVuelo
  <1>7. SospechosoNoSeCarga'
    <2>1. \A i \in DOMAIN Tail(cinta_contenedor[z]) :
            /\ i + 1 \in DOMAIN cinta_contenedor[z]
            /\ Tail(cinta_contenedor[z])[i] = cinta_contenedor[z][i + 1]
      BY <1>1, <1>2
    <2> QED  BY <1>1, <1>2, <2>1 DEF SospechosoNoSeCarga
  <1> QED  BY <1>1, <1>4, <1>5, <1>6, <1>7, ConservaTabla, LaCintaSigue

-----------------------------------------------------------------------------
(* The steps of the robots outside the belt. *)

(* With the belt and the table as they were, what depends on them only     *)
(* stays true.                                                             *)
LEMMA FueraDeLaCinta ==
  ASSUME InvarianteCircuito, UNCHANGED <<vars, zonas, vuelos_abiertos>>
  PROVE  /\ Invariante' /\ ContenidoEscrito' /\ UnaZonaPorVuelo' /\ DejadosPasar'
         /\ UNCHANGED <<a_colocar, vector_elementos, ultimo_equipaje_leido,
                        pc_consumidor>>
  <1>1. UNCHANGED <<a_colocar, vector_elementos, ultimo_equipaje_leido,
                    pc_consumidor, semaforo_consumidores>>
    BY DEF vars, posiciones, productores, consumidores
  <1>2. DejadosPasar'
    BY <1>1, ConservaDejados DEF TieneTurno
  <1>3. UnaZonaPorVuelo'
    BY DEF InvarianteCircuito, UnaZonaPorVuelo
  <1> QED  BY <1>1, <1>2, <1>3, LaCintaSigue

(* robot_despacho asks for the zone of the bag it has read. *)
LEMMA ConservaConsultaDelLeido ==
  ASSUME InvarianteCircuito, NEW c \in Consumidores, ConsultarZonaDelLeido(c)
  PROVE  InvarianteCircuito'
  <1> USE DEF InvarianteCircuito
  <1> DEFINE v == Vuelo(ultimo_equipaje_leido[c])
  <1>1. /\ c \in Despachos
        /\ pc_consumidor[c] = "leyo"
        /\ num_zona' = [num_zona EXCEPT ![c] = GetZona(zonas, v)]
        /\ UNCHANGED <<vars, zonas, vuelos_abiertos, en_mano, cola_control,
                       cinta_contenedor, descartados>>
    BY DEF ConsultarZonaDelLeido, ConsultarZona
  <1>2. /\ Invariante' /\ ContenidoEscrito' /\ UnaZonaPorVuelo' /\ DejadosPasar'
        /\ UNCHANGED <<a_colocar, vector_elementos, ultimo_equipaje_leido,
                       pc_consumidor>>
    BY <1>1, FueraDeLaCinta
  <1>3. v \in Vuelos
    BY <1>1, LeidoEsEquipaje, VueloDeEquipaje
  <1>4. GetZona(zonas, v) \in Int /\ Vigente(GetZona(zonas, v), v)
    BY <1>3, RespuestaVigente
  <1>5. TiposCircuito'
    BY <1>1, <1>4 DEF TiposCircuito
  <1>6. TodosRegistrados'
    BY <1>1, <1>2 DEF TodosRegistrados, Registrado
  <1>7. ConsultaCoherente'
    <2>1. \A d \in Consumidores :
            num_zona'[d] = IF d = c THEN GetZona(zonas, v) ELSE num_zona[d]
      BY <1>1 DEF TiposCircuito
    <2>2. en_mano[c] = Ninguno
      BY <1>1 DEF ConsultaCoherente
    <2>3. ASSUME NEW d \in Despachos, pc_consumidor[d] = "leyo",
                 num_zona'[d] # SinConsultar
          PROVE  Vigente(num_zona'[d], Vuelo(ultimo_equipaje_leido[d]))
      BY <1>1, <1>4, <2>1, <2>3, LosConsumidores DEF ConsultaCoherente
    <2>4. num_zona'[Ultimo] = num_zona[Ultimo]
      BY <1>1, <2>1, LosConsumidores
    <2> QED
      BY <1>1, <1>2, <2>1, <2>2, <2>3, <2>4, LosConsumidores
         DEF ConsultaCoherente, Vigente
  <1>8. SospechosoNoSeCarga'
    BY <1>1 DEF SospechosoNoSeCarga
  <1>9. LimpiosNoVuelven'
    BY <1>1 DEF LimpiosNoVuelven, Atendido
  <1> QED  BY <1>2, <1>5, <1>6, <1>7, <1>8, <1>9

(* robot_control_equipaje_sospechoso asks for the zone of the bag it took. *)
LEMMA ConservaConsultaDelTomado ==
  ASSUME InvarianteCircuito, ConsultarZonaDelTomado
  PROVE  InvarianteCircuito'
  <1> USE LosConsumidores DEF InvarianteCircuito
  <1> DEFINE v == Vuelo(en_mano[Ultimo])
  <1>1. /\ en_mano[Ultimo] # Ninguno
        /\ num_zona' = [num_zona EXCEPT ![Ultimo] = GetZona(zonas, v)]
        /\ UNCHANGED <<vars, zonas, vuelos_abiertos, en_mano, cola_control,
                       cinta_contenedor, descartados>>
    BY DEF ConsultarZonaDelTomado, ConsultarZona
  <1>2. /\ Invariante' /\ ContenidoEscrito' /\ UnaZonaPorVuelo' /\ DejadosPasar'
        /\ UNCHANGED <<a_colocar, vector_elementos, ultimo_equipaje_leido,
                       pc_consumidor>>
    BY <1>1, FueraDeLaCinta
  <1>3. v \in Vuelos
    BY <1>1, VueloDeEquipaje DEF TiposCircuito, Contenidos
  <1>4. GetZona(zonas, v) \in Int /\ Vigente(GetZona(zonas, v), v)
    BY <1>3, RespuestaVigente
  <1>5. TiposCircuito'
    BY <1>1, <1>4 DEF TiposCircuito
  <1>6. TodosRegistrados'
    BY <1>1, <1>2 DEF TodosRegistrados, Registrado
  <1>7. ConsultaCoherente'
    <2>1. \A d \in Consumidores :
            num_zona'[d] = IF d = Ultimo THEN GetZona(zonas, v) ELSE num_zona[d]
      BY <1>1 DEF TiposCircuito
    <2>2. \A d \in Despachos : num_zona'[d] = num_zona[d]
      BY <2>1
    <2> QED
      BY <1>1, <1>2, <1>4, <2>1, <2>2 DEF ConsultaCoherente, Vigente
  <1>8. SospechosoNoSeCarga'
    BY <1>1 DEF SospechosoNoSeCarga
  <1>9. LimpiosNoVuelven'
    BY <1>1 DEF LimpiosNoVuelven, Atendido
  <1> QED  BY <1>2, <1>5, <1>6, <1>7, <1>8, <1>9

(* The consumer that lets a bag go has nothing in its hands and has not    *)
(* asked for a zone yet.                                                   *)
LEMMA ConservaSoltar ==
  ASSUME InvarianteCircuito, NEW c \in Consumidores, Soltar(c),
         UNCHANGED <<vars, zonas, vuelos_abiertos>>
  PROVE  /\ ConsultaCoherente'
         /\ num_zona' \in [Consumidores -> Int]
         /\ en_mano' \in [Consumidores -> Contenidos]
         /\ \A d \in Consumidores : en_mano'[d] \in {Ninguno, en_mano[d]}
  <1> USE LosConsumidores DEF InvarianteCircuito
  <1>1. UNCHANGED <<ultimo_equipaje_leido, pc_consumidor>>
    BY FueraDeLaCinta
  <1>2. \A d \in Consumidores :
          /\ num_zona'[d] = IF d = c THEN SinConsultar ELSE num_zona[d]
          /\ en_mano'[d] = IF d = c THEN Ninguno ELSE en_mano[d]
    BY DEF Soltar, TiposCircuito
  <1>3. /\ num_zona' \in [Consumidores -> Int]
        /\ en_mano' \in [Consumidores -> Contenidos]
    BY DEF Soltar, TiposCircuito, SinConsultar, Contenidos
  <1>4. ConsultaCoherente'
    BY <1>1, <1>2 DEF ConsultaCoherente, Vigente
  <1> QED  BY <1>2, <1>3, <1>4

(* robot_despacho puts the bag on the container belt that num_zona names,  *)
(* which is one of its own.                                                *)
LEMMA ConservaEntregar ==
  ASSUME InvarianteCircuito, NEW c \in Consumidores, Entregar(c)
  PROVE  InvarianteCircuito'
  <1> USE LosConsumidores DEF InvarianteCircuito
  <1> DEFINE z == num_zona[c]
             e == en_mano[c]
  <1>1. /\ c \in Despachos
        /\ e # Ninguno
        /\ Soltar(c)
        /\ cinta_contenedor' = [cinta_contenedor EXCEPT ![z] = Append(@, e)]
        /\ UNCHANGED <<vars, zonas, vuelos_abiertos, cola_control, descartados>>
    BY DEF Entregar
  <1>2. /\ Invariante' /\ ContenidoEscrito' /\ UnaZonaPorVuelo' /\ DejadosPasar'
        /\ UNCHANGED <<a_colocar, vector_elementos, ultimo_equipaje_leido,
                       pc_consumidor>>
    BY <1>1, FueraDeLaCinta
  <1>3. /\ ConsultaCoherente'
        /\ num_zona' \in [Consumidores -> Int]
        /\ en_mano' \in [Consumidores -> Contenidos]
        /\ \A d \in Consumidores : en_mano'[d] \in {Ninguno, en_mano[d]}
    BY <1>1, ConservaSoltar
  <1>4. /\ cinta_contenedor \in [ZonasServidas -> Seq(Equipajes)]
        /\ z \in ZonasServidas
        /\ e \in Equipajes
        /\ ~ e.sospechoso
    BY <1>1 DEF TiposCircuito, Contenidos, ConsultaCoherente, ZonasServidas,
                SospechosoNoSeCarga
  <1>5. cinta_contenedor[z] \in Seq(Equipajes)
    BY <1>4
  <1>6. /\ Append(cinta_contenedor[z], e) \in Seq(Equipajes)
        /\ \A i \in DOMAIN Append(cinta_contenedor[z], e) :
             \/ Append(cinta_contenedor[z], e)[i] = e
             \/ /\ i \in DOMAIN cinta_contenedor[z]
                /\ Append(cinta_contenedor[z], e)[i] = cinta_contenedor[z][i]
    BY <1>4, <1>5
  <1>7. TiposCircuito'
    BY <1>1, <1>3, <1>4, <1>6 DEF TiposCircuito
  <1>8. TodosRegistrados'
    BY <1>1, <1>2, <1>3 DEF TodosRegistrados, Registrado
  <1>9. SospechosoNoSeCarga'
    <2>1. ASSUME NEW d \in Despachos, en_mano'[d] # Ninguno
          PROVE  ~ en_mano'[d].sospechoso
      BY <1>3, <2>1 DEF SospechosoNoSeCarga
    <2>2. ASSUME NEW y \in ZonasServidas, NEW i \in DOMAIN cinta_contenedor'[y]
          PROVE  ~ cinta_contenedor'[y][i].sospechoso
      <3>1. CASE y = z
        <4>1. cinta_contenedor'[y] = Append(cinta_contenedor[z], e)
          BY <1>1, <1>4, <3>1
        <4>2. \A j \in DOMAIN cinta_contenedor[z] :
                ~ cinta_contenedor[z][j].sospechoso
          BY <1>4 DEF SospechosoNoSeCarga
        <4> QED  BY <1>4, <1>6, <2>2, <4>1, <4>2
      <3>2. CASE y # z
        <4>1. cinta_contenedor'[y] = cinta_contenedor[y]
          BY <1>1, <1>4, <3>2
        <4> QED  BY <2>2, <4>1 DEF SospechosoNoSeCarga
      <3> QED  BY <3>1, <3>2
    <2> QED  BY <2>1, <2>2 DEF SospechosoNoSeCarga
  <1>10. LimpiosNoVuelven'
    BY <1>1, <1>3 DEF LimpiosNoVuelven, Atendido
  <1> QED  BY <1>2, <1>3, <1>7, <1>8, <1>9, <1>10

(* A bag is dropped when get_zona had no zone for its flight: it has none  *)
(* now.                                                                    *)
LEMMA ConservaDescartar ==
  ASSUME InvarianteCircuito, Descartar
  PROVE  InvarianteCircuito'
  <1> USE LosConsumidores DEF InvarianteCircuito
  <1> DEFINE id == en_mano[Ultimo].id
  <1>1. /\ en_mano[Ultimo] # Ninguno
        /\ num_zona[Ultimo] = SinZona
        /\ Soltar(Ultimo)
        /\ descartados' = descartados \cup {id}
        /\ UNCHANGED <<vars, zonas, vuelos_abiertos, cola_control,
                       cinta_contenedor>>
    BY DEF Descartar
  <1>2. /\ Invariante' /\ ContenidoEscrito' /\ UnaZonaPorVuelo' /\ DejadosPasar'
        /\ UNCHANGED <<a_colocar, vector_elementos, ultimo_equipaje_leido,
                       pc_consumidor>>
    BY <1>1, FueraDeLaCinta
  <1>3. /\ ConsultaCoherente'
        /\ num_zona' \in [Consumidores -> Int]
        /\ en_mano' \in [Consumidores -> Contenidos]
        /\ \A d \in Consumidores : en_mano'[d] \in {Ninguno, en_mano[d]}
    BY <1>1, ConservaSoltar
  <1>4. /\ id \in Ids
        /\ VueloDe[id] = Vuelo(en_mano[Ultimo])
    BY <1>1, VueloDeEquipaje DEF TiposCircuito, Contenidos, Vuelo
  <1>5. \A i \in 0..MaxZonas - 1 : zonas[i] # VueloDe[id]
    <2>1. Vigente(SinZona, VueloDe[id])
      BY <1>1, <1>4 DEF ConsultaCoherente, SinZona, SinConsultar
    <2> QED  BY <2>1, SuposicionZonas DEF Vigente, SinZona
  <1>6. TiposCircuito'
    BY <1>1, <1>3, <1>4 DEF TiposCircuito
  <1>7. TodosRegistrados'
    BY <1>1, <1>2, <1>3, <1>4 DEF TodosRegistrados, Registrado
  <1>8. SospechosoNoSeCarga'
    BY <1>1, <1>3 DEF SospechosoNoSeCarga
  <1>9. LimpiosNoVuelven'
    BY <1>1, <1>3, <1>5 DEF LimpiosNoVuelven, Atendido, TiposCircuito
  <1> QED  BY <1>2, <1>3, <1>6, <1>7, <1>8, <1>9

(* What the last consumer took goes to the end of the queue to control.    *)
LEMMA ConservaEnviarAControl ==
  ASSUME InvarianteCircuito, EnviarAControl
  PROVE  InvarianteCircuito'
  <1> USE LosConsumidores DEF InvarianteCircuito
  <1> DEFINE e == en_mano[Ultimo]
  <1>1. /\ e # Ninguno
        /\ Soltar(Ultimo)
        /\ cola_control' = Append(cola_control, e)
        /\ UNCHANGED <<vars, zonas, vuelos_abiertos, cinta_contenedor,
                       descartados>>
    BY DEF EnviarAControl
  <1>2. /\ Invariante' /\ ContenidoEscrito' /\ UnaZonaPorVuelo' /\ DejadosPasar'
        /\ UNCHANGED <<a_colocar, vector_elementos, ultimo_equipaje_leido,
                       pc_consumidor>>
    BY <1>1, FueraDeLaCinta
  <1>3. /\ ConsultaCoherente'
        /\ num_zona' \in [Consumidores -> Int]
        /\ en_mano' \in [Consumidores -> Contenidos]
        /\ \A d \in Consumidores : en_mano'[d] \in {Ninguno, en_mano[d]}
    BY <1>1, ConservaSoltar
  <1>4. e \in Equipajes /\ cola_control \in Seq(Equipajes)
    BY <1>1 DEF TiposCircuito, Contenidos
  <1>5. /\ cola_control' \in Seq(Equipajes)
        /\ \A i \in DOMAIN cola_control' :
             \/ cola_control'[i] = e
             \/ i \in DOMAIN cola_control /\ cola_control'[i] = cola_control[i]
    BY <1>1, <1>4
  <1>6. TiposCircuito'
    BY <1>1, <1>3, <1>5 DEF TiposCircuito
  <1>7. TodosRegistrados'
    BY <1>1, <1>2, <1>3, <1>5 DEF TodosRegistrados, Registrado
  <1>8. SospechosoNoSeCarga'
    BY <1>1, <1>3 DEF SospechosoNoSeCarga
  <1>9. LimpiosNoVuelven'
    <2>1. ASSUME NEW f \in {en_mano'[Ultimo]} \cup ToSet(cola_control'),
                 f # Ninguno, Atendido(Vuelo(f))
          PROVE  f.sospechoso
      <3>1. f \in {e} \cup ToSet(cola_control)
        BY <1>3, <1>5, <2>1 DEF ToSet
      <3> QED  BY <2>1, <3>1 DEF LimpiosNoVuelven
    <2> QED  BY <1>1, <2>1 DEF LimpiosNoVuelven, Atendido
  <1> QED  BY <1>2, <1>3, <1>6, <1>7, <1>8, <1>9

-----------------------------------------------------------------------------
(* The steps of the loop that are steps of the belt. *)

(* A producer calls colocar_elemento with a bag of a registered flight; it *)
(* may have taken it from the queue to control.                            *)
LEMMA ConservaLlamada ==
  ASSUME InvarianteCircuito, NEW p \in Productores, NEW e \in Equipajes,
         LlamarColocar(p, e), Vuelo(e) \in vuelos_abiertos,
         cola_control' \in Seq(Equipajes),
         \A i \in DOMAIN cola_control' :
           \E j \in DOMAIN cola_control : cola_control'[i] = cola_control[j],
         UNCHANGED <<zonas, vuelos_abiertos, num_zona, en_mano,
                     cinta_contenedor, descartados>>
  PROVE  InvarianteCircuito'
  <1> USE DEF InvarianteCircuito
  <1>1. /\ a_colocar' = [a_colocar EXCEPT ![p] = e]
        /\ UNCHANGED <<vector_elementos, ultimo_equipaje_leido, pc_consumidor,
                       semaforo_consumidores>>
    BY DEF LlamarColocar, posiciones, consumidores
  <1>2. Invariante' /\ ContenidoEscrito'
    BY LaCintaSigue DEF Next
  <1>3. TiposCircuito'
    BY DEF TiposCircuito
  <1>4. TodosRegistrados'
    <2>1. \A q \in Productores : a_colocar'[q] = IF q = p THEN e ELSE a_colocar[q]
      BY <1>1 DEF Invariante, Tipos
    <2> QED  BY <1>1, <2>1 DEF TodosRegistrados, Registrado
  <1>5. UnaZonaPorVuelo'
    BY DEF UnaZonaPorVuelo
  <1>6. ConsultaCoherente'
    BY <1>1 DEF ConsultaCoherente, Vigente
  <1>7. DejadosPasar'
    BY <1>1, ConservaDejados DEF TieneTurno
  <1>8. SospechosoNoSeCarga'
    BY DEF SospechosoNoSeCarga
  <1>9. LimpiosNoVuelven'
    <2>1. ToSet(cola_control') \subseteq ToSet(cola_control)
      BY DEF ToSet
    <2>2. ASSUME NEW f \in {en_mano[Ultimo]} \cup ToSet(cola_control'),
                 f # Ninguno, Atendido(Vuelo(f))
          PROVE  f.sospechoso
      BY <2>1, <2>2 DEF LimpiosNoVuelven
    <2> QED  BY <2>2 DEF LimpiosNoVuelven, Atendido
  <1> QED  BY <1>2, <1>3, <1>4, <1>5, <1>6, <1>7, <1>8, <1>9

(* robot_scanner puts bags of flights whose check-in is open. *)
LEMMA ConservaEscanear ==
  ASSUME InvarianteCircuito, NEW p \in Scanners, NEW e \in Equipajes,
         Escanear(p, e)
  PROVE  InvarianteCircuito'
  <1>1. p \in Productores
    BY DEF Scanners
  <1>2. cola_control \in Seq(Equipajes)
    BY DEF InvarianteCircuito, TiposCircuito
  <1> QED  BY <1>1, <1>2, ConservaLlamada DEF Escanear

(* control_equipaje_sospechoso puts back a bag of the queue, cleaned: it is *)
(* still a bag, of the same flight.                                        *)
LEMMA ConservaRecolocar ==
  ASSUME InvarianteCircuito, Recolocar
  PROVE  InvarianteCircuito'
  <1> DEFINE e == Head(cola_control)
  <1>1. cola_control \in Seq(Equipajes) /\ cola_control # <<>>
    BY DEF InvarianteCircuito, TiposCircuito, Recolocar
  <1>2. /\ 1 \in DOMAIN cola_control
        /\ e = cola_control[1]
        /\ e \in Equipajes
        /\ Tail(cola_control) \in Seq(Equipajes)
        /\ \A i \in DOMAIN Tail(cola_control) :
             /\ i + 1 \in DOMAIN cola_control
             /\ Tail(cola_control)[i] = cola_control[i + 1]
    BY <1>1
  <1>3. Limpio(e) \in Equipajes /\ Limpio(e).id = e.id
    BY <1>2, SuposicionCircuito DEF Limpio
  <1>4. Vuelo(Limpio(e)) = Vuelo(e)
    BY <1>3 DEF Vuelo
  <1>5. Vuelo(e) \in vuelos_abiertos
    BY <1>2, SuposicionCircuito
       DEF InvarianteCircuito, TodosRegistrados, Registrado
  <1>6. /\ Control \in Productores
        /\ LlamarColocar(Control, Limpio(e))
        /\ cola_control' = Tail(cola_control)
        /\ UNCHANGED <<zonas, vuelos_abiertos, num_zona, en_mano,
                       cinta_contenedor, descartados>>
    BY SuposicionCircuito DEF Recolocar
  <1> QED  BY <1>2, <1>3, <1>4, <1>5, <1>6, ConservaLlamada

(* The rest of the loop stands still while the belt moves a bag, a signal  *)
(* or the turn, if what is on it comes from what its producers hold and    *)
(* what was read from what is on it.                                       *)
LEMMA ConservaMovimiento ==
  ASSUME InvarianteCircuito, [Next]_vars, UNCHANGED circuito,
         \A p \in Productores : a_colocar'[p] \in {Ninguno, a_colocar[p]},
         \A i \in 0..Tamanio - 1 :
           \/ vector_elementos'[i] = vector_elementos[i]
           \/ \E p \in Productores : vector_elementos'[i] = a_colocar[p],
         \A d \in Consumidores :
           \/ ultimo_equipaje_leido'[d] = ultimo_equipaje_leido[d]
           \/ /\ TieneTurno(d)
              /\ num_zona[d] = SinConsultar
              /\ \E i \in 0..Tamanio - 1 :
                   ultimo_equipaje_leido'[d] = vector_elementos[i],
         \A d \in Consumidores : TieneTurno(d)' => d = 1 \/ TieneTurno(d),
         \A d \in Consumidores :
           /\ en_mano[d] # Ninguno => pc_consumidor'[d] = pc_consumidor[d]
           /\ pc_consumidor[d] = "leyo" => pc_consumidor'[d] = "leyo"
           /\ pc_consumidor'[d] = "leyo" /\ num_zona[d] # SinConsultar =>
                pc_consumidor[d] = "leyo"
  PROVE  InvarianteCircuito'
  <1> USE DEF InvarianteCircuito
  <1>1. UNCHANGED <<zonas, vuelos_abiertos, num_zona, en_mano, cola_control,
                    cinta_contenedor, descartados>>
    BY DEF circuito
  <1>2. Invariante' /\ ContenidoEscrito'
    BY LaCintaSigue
  <1>3. TiposCircuito'
    BY <1>1 DEF TiposCircuito
  <1>4. TodosRegistrados'
    <2>1. \A p \in Productores : Registrado(a_colocar[p])'
      BY <1>1 DEF TodosRegistrados, Registrado
    <2>2. \A i \in 0..Tamanio - 1 : Registrado(vector_elementos[i])'
      BY <1>1 DEF TodosRegistrados, Registrado
    <2>3. \A c \in Consumidores :
            Registrado(ultimo_equipaje_leido[c])' /\ Registrado(en_mano[c])'
      BY <1>1 DEF TodosRegistrados, Registrado
    <2> QED  BY <1>1, <2>1, <2>2, <2>3 DEF TodosRegistrados, Registrado
  <1>5. UnaZonaPorVuelo'
    BY <1>1 DEF UnaZonaPorVuelo
  <1>6. ConsultaCoherente'
    BY <1>1, LosConsumidores DEF ConsultaCoherente, Vigente
  <1>7. DejadosPasar'
    BY <1>1, ConservaDejados
  <1>8. SospechosoNoSeCarga' /\ LimpiosNoVuelven'
    BY <1>1 DEF SospechosoNoSeCarga, LimpiosNoVuelven, Atendido
  <1> QED  BY <1>2, <1>3, <1>4, <1>5, <1>6, <1>7, <1>8

(* A producer waits for its permission, puts its bag or finds no room: the *)
(* only turn it can move is the one left in the memory.                    *)
LEMMA ConservaPasoCinta ==
  ASSUME InvarianteCircuito, NEW p \in Productores, PasoCinta(p)
  PROVE  InvarianteCircuito'
  <1> USE DEF InvarianteCircuito
  <1>1. PasoProductor(p) /\ UNCHANGED circuito /\ Next
    BY DEF PasoCinta, Next
  <1>2. UNCHANGED <<pc_consumidor, ultimo_equipaje_leido>>
    BY <1>1 DEF PasoProductor, EsperarProductor, Colocar, NoPudoColocar,
                consumidores
  <1>3. \A q \in Productores : a_colocar'[q] \in {Ninguno, a_colocar[q]}
    BY <1>1 DEF PasoProductor, EsperarProductor, Colocar, NoPudoColocar,
                Invariante, Tipos
  <1>4. ASSUME NEW i \in 0..Tamanio - 1
        PROVE  \/ vector_elementos'[i] = vector_elementos[i]
               \/ \E q \in Productores : vector_elementos'[i] = a_colocar[q]
    BY <1>1 DEF PasoProductor, EsperarProductor, Colocar, NoPudoColocar,
                posiciones, Invariante, Tipos
  <1>5. ASSUME NEW d \in Consumidores, TieneTurno(d)'
        PROVE  d = 1 \/ TieneTurno(d)
    <2>1. \/ semaforo_consumidores' = semaforo_consumidores
          \/ semaforo_consumidores' =
               [semaforo_consumidores EXCEPT ![1] = semaforo_consumidores[1] + 1]
      BY <1>1 DEF PasoProductor, EsperarProductor, Colocar, NoPudoColocar,
                  DespertarConsumidor, Senializar
    <2> QED  BY <1>2, <1>5, <2>1 DEF TieneTurno, Invariante, Tipos
  <1> QED  BY <1>1, <1>2, <1>3, <1>4, <1>5, ConservaMovimiento

(* leer_proximo_equipaje, from the call to the return with the oldest bag. *)
LEMMA ConservaLectura ==
  ASSUME InvarianteCircuito, NEW c \in Consumidores,
         \/ LeerProximo(c)
         \/ (EsperarConsumidor(c) \/ Leer(c) \/ NoPudoLeer(c)) /\ UNCHANGED circuito
  PROVE  InvarianteCircuito'
  <1> USE DEF InvarianteCircuito
  <1>1. /\ Next
        /\ UNCHANGED circuito
        /\ UNCHANGED <<a_colocar, vector_elementos>>
    BY DEF LeerProximo, LlamarLeer, EsperarConsumidor, Leer, NoPudoLeer, Next,
           PasoConsumidor, posiciones, productores
  <1>2. pc_consumidor[c] # "leyo" /\ en_mano[c] = Ninguno
    <2>1. pc_consumidor[c] # "leyo"
      BY DEF LeerProximo, EsperarConsumidor, Leer, NoPudoLeer
    <2>2. pc_consumidor[c] # "fuera" \/ en_mano[c] = Ninguno
      BY DEF LeerProximo, EsperarConsumidor, Leer, NoPudoLeer
    <2> QED  BY <2>1, <2>2 DEF ConsultaCoherente
  <1>3. num_zona[c] = SinConsultar
    BY <1>2 DEF ConsultaCoherente
  <1>4. \A d \in Consumidores \ {c} :
          /\ pc_consumidor'[d] = pc_consumidor[d]
          /\ ultimo_equipaje_leido'[d] = ultimo_equipaje_leido[d]
    BY DEF LeerProximo, LlamarLeer, EsperarConsumidor, Leer, NoPudoLeer,
           Invariante, Tipos
  <1>5. \/ ultimo_equipaje_leido'[c] = ultimo_equipaje_leido[c]
        \/ /\ TieneTurno(c)
           /\ \E i \in 0..Tamanio - 1 :
                ultimo_equipaje_leido'[c] = vector_elementos[i]
    BY DEF LeerProximo, LlamarLeer, EsperarConsumidor, Leer, NoPudoLeer,
           Invariante, Tipos, TieneTurno
  <1>6. ASSUME NEW d \in Consumidores, TieneTurno(d)'
        PROVE  TieneTurno(d)
    BY <1>6 DEF LeerProximo, LlamarLeer, EsperarConsumidor, Leer, NoPudoLeer,
                Invariante, Tipos, TieneTurno
  <1> QED  BY <1>1, <1>2, <1>3, <1>4, <1>5, <1>6, ConservaMovimiento

(* robot_despacho passes the turn on.  The bag it leaves on the belt is    *)
(* suspicious, or the zone get_zona answered is not one of its own and the *)
(* flight cannot get another.                                              *)
LEMMA ConservaDejarPasar ==
  ASSUME InvarianteCircuito, NEW c \in Consumidores, DejarPasar(c)
  PROVE  InvarianteCircuito'
  <1> USE DEF InvarianteCircuito
  <1> DEFINE e == ultimo_equipaje_leido[c]
  <1>1. /\ c \in Despachos
        /\ pc_consumidor[c] = "leyo"
        /\ num_zona[c] # SinConsultar
        /\ ~ EsParaMi(c, e)
        /\ Avanzar(c)
        /\ num_zona' = [num_zona EXCEPT ![c] = SinConsultar]
        /\ UNCHANGED <<zonas, vuelos_abiertos, en_mano, cola_control,
                       cinta_contenedor, descartados>>
    BY DEF DejarPasar
  <1>2. /\ semaforo_consumidores' =
             [semaforo_consumidores EXCEPT
                ![c + 1] = semaforo_consumidores[c + 1] + 1]
        /\ pc_consumidor' = [pc_consumidor EXCEPT ![c] = "fuera"]
        /\ UNCHANGED <<a_colocar, vector_elementos, ultimo_equipaje_leido>>
    <2>1. SiguienteConsumidor(c) = c + 1
      BY <1>1, SuposicionCentral DEF SiguienteConsumidor, Despachos
    <2>2. Senializar(c + 1)
      BY <1>1, <2>1 DEF Avanzar
    <2> QED  BY <1>1, <2>2 DEF Avanzar, Senializar, posiciones, productores
  <1>3. Invariante' /\ ContenidoEscrito'
    BY <1>1, LaCintaSigue DEF Next, PasoConsumidor
  <1>4. TiposCircuito'
    BY <1>1 DEF TiposCircuito, SinConsultar
  <1>5. TodosRegistrados'
    BY <1>1, <1>2 DEF TodosRegistrados, Registrado
  <1>6. UnaZonaPorVuelo'
    BY <1>1 DEF UnaZonaPorVuelo
  <1>7. ConsultaCoherente'
    <2>1. \A d \in Consumidores :
            /\ num_zona'[d] = IF d = c THEN SinConsultar ELSE num_zona[d]
            /\ pc_consumidor'[d] = IF d = c THEN "fuera" ELSE pc_consumidor[d]
      BY <1>1, <1>2 DEF TiposCircuito, Invariante, Tipos
    <2>2. en_mano[c] = Ninguno
      BY <1>1 DEF ConsultaCoherente
    <2> QED
      BY <1>1, <1>2, <2>1, <2>2, LosConsumidores DEF ConsultaCoherente, Vigente
  <1>8. AjenoA(c, e)
    <2>1. Vigente(num_zona[c], Vuelo(e))
      BY <1>1 DEF ConsultaCoherente
    <2> QED  BY <1>1, <2>1 DEF AjenoA, EsParaMi, Vigente
  <1>9. DejadosPasar'
    <2> SUFFICES ASSUME NEW d \in Consumidores, TieneTurno(d)',
                        NEW f \in 1..d - 1, ultimo_equipaje_leido'[f] # Ninguno
                 PROVE  AjenoA(f, ultimo_equipaje_leido[f])'
      BY DEF DejadosPasar
    <2>1. TieneTurno(c)
      BY <1>1 DEF TieneTurno
    <2>2. /\ \A g \in Consumidores : semaforo_consumidores[g] = 0
          /\ \A g \in Consumidores \ {c} :
               pc_consumidor[g] \notin {"despierto", "leyo"}
      BY <1>1, ElTurnoEsSuyo
    <2>3. d = c + 1
      BY <1>2, <2>2 DEF TieneTurno, Invariante, Tipos
    <2>4. f = c \/ f \in 1..c - 1
      BY <2>3, SuposicionCentral DEF Consumidores
    <2>5. AjenoA(f, ultimo_equipaje_leido[f])
      BY <1>2, <1>8, <2>1, <2>4 DEF DejadosPasar
    <2> QED  BY <1>1, <1>2, <2>5 DEF AjenoA
  <1>10. SospechosoNoSeCarga' /\ LimpiosNoVuelven'
    BY <1>1 DEF SospechosoNoSeCarga, LimpiosNoVuelven, Atendido
  <1> QED
    BY <1>3, <1>4, <1>5, <1>6, <1>7, <1>9, <1>10

(* A consumer takes the bag it has read.  A dispatch robot looked at the   *)
(* mark and at the zone; what reaches the last consumer was let pass by    *)
(* every robot before it, so that it is suspicious or nobody serves its    *)
(* flight.                                                                 *)
LEMMA ConservaTomar ==
  ASSUME InvarianteCircuito, NEW c \in Consumidores, Tomar(c)
  PROVE  InvarianteCircuito'
  <1> USE LosConsumidores DEF InvarianteCircuito
  <1> DEFINE e == ultimo_equipaje_leido[c]
  <1>1. /\ c \in Despachos => num_zona[c] # SinConsultar /\ EsParaMi(c, e)
        /\ Extraer(c)
        /\ en_mano' = [en_mano EXCEPT ![c] = e]
        /\ UNCHANGED <<zonas, vuelos_abiertos, num_zona, cola_control,
                       cinta_contenedor, descartados>>
    BY DEF Tomar
  <1>2. /\ pc_consumidor[c] = "leyo"
        /\ pc_consumidor' = [pc_consumidor EXCEPT ![c] = "fuera"]
        /\ UNCHANGED <<a_colocar, vector_elementos, ultimo_equipaje_leido>>
    BY <1>1 DEF Extraer, productores
  <1>3. e \in Equipajes /\ e # Ninguno /\ e = vector_elementos[posicion_ocupada]
    BY <1>2, LeidoEsEquipaje
  <1>4. Invariante' /\ ContenidoEscrito'
    BY <1>1, LaCintaSigue DEF Next, PasoConsumidor
  <1>5. TiposCircuito'
    BY <1>1, <1>3 DEF TiposCircuito, Contenidos
  <1>6. \A d \in Consumidores :
          /\ en_mano'[d] = IF d = c THEN e ELSE en_mano[d]
          /\ pc_consumidor'[d] = IF d = c THEN "fuera" ELSE pc_consumidor[d]
    BY <1>1, <1>2 DEF TiposCircuito, Invariante, Tipos
  <1>7. TodosRegistrados'
    BY <1>1, <1>2, <1>6 DEF TodosRegistrados, Registrado
  <1>8. UnaZonaPorVuelo'
    BY <1>1 DEF UnaZonaPorVuelo
  <1>9. ConsultaCoherente'
    <2>1. en_mano[c] = Ninguno
      BY <1>2 DEF ConsultaCoherente
    <2>2. c = Ultimo => num_zona[c] = SinConsultar
      BY <2>1 DEF ConsultaCoherente
    <2>3. ASSUME NEW d \in Consumidores
          PROVE  /\ en_mano'[d] # Ninguno => pc_consumidor'[d] = "fuera"
                 /\ num_zona[d] # SinConsultar =>
                      \/ en_mano'[d] # Ninguno
                      \/ d \in Despachos /\ pc_consumidor'[d] = "leyo"
      BY <1>3, <1>6 DEF ConsultaCoherente
    <2>4. ASSUME NEW d \in Despachos
          PROVE  /\ en_mano'[d] # Ninguno => num_zona[d] \in ZonasDe[d]
                 /\ pc_consumidor'[d] = "leyo" /\ num_zona[d] # SinConsultar =>
                      Vigente(num_zona[d], Vuelo(ultimo_equipaje_leido[d]))
      BY <1>1, <1>6 DEF ConsultaCoherente, EsParaMi
    <2>5. en_mano'[Ultimo] # Ninguno /\ num_zona[Ultimo] # SinConsultar =>
            Vigente(num_zona[Ultimo], Vuelo(en_mano'[Ultimo]))
      BY <1>6, <2>2 DEF ConsultaCoherente
    <2> QED
      BY <1>1, <1>2, <2>3, <2>4, <2>5 DEF ConsultaCoherente, Vigente
  <1>10. DejadosPasar'
    <2>1. /\ \A d \in Consumidores : semaforo_consumidores[d] = 0
          /\ \A d \in Consumidores \ {c} :
               pc_consumidor[d] \notin {"despierto", "leyo"}
      BY <1>2, ElTurnoEsSuyo
    <2>2. \/ semaforo_consumidores' = semaforo_consumidores
          \/ semaforo_consumidores' =
               [semaforo_consumidores EXCEPT ![1] = semaforo_consumidores[1] + 1]
      BY <1>1 DEF Extraer, DevolverTurno, Senializar
    <2>3. ASSUME NEW d \in Consumidores, TieneTurno(d)'
          PROVE  d = 1
      BY <1>6, <2>1, <2>2, <2>3 DEF TieneTurno, Invariante, Tipos
    <2> QED  BY <1>1, <1>2, <2>3, ConservaDejados
  <1>11. SospechosoNoSeCarga'
    BY <1>1, <1>6 DEF SospechosoNoSeCarga, EsParaMi
  <1>12. LimpiosNoVuelven'
    <2>1. ASSUME c = Ultimo, Atendido(Vuelo(e))
          PROVE  e.sospechoso
      <3>1. PICK d \in Despachos :
              \E z \in ZonasDe[d] \cap (0..MaxZonas - 1) : zonas[z] = Vuelo(e)
        BY <2>1, AtendidoPorAlguno
      <3>2. TieneTurno(c) /\ d \in 1..c - 1
        BY <1>2, <2>1 DEF TieneTurno
      <3>3. ultimo_equipaje_leido[d] = e
        BY <1>3, <3>2 DEF Invariante, TodosLoVieron
      <3>4. AjenoA(d, e)
        BY <1>3, <3>2, <3>3 DEF DejadosPasar
      <3> QED  BY <3>1, <3>4 DEF AjenoA
    <2>2. ASSUME NEW f \in {en_mano'[Ultimo]} \cup ToSet(cola_control),
                 f # Ninguno, Atendido(Vuelo(f))
          PROVE  f.sospechoso
      BY <1>6, <2>1, <2>2 DEF LimpiosNoVuelven
    <2> QED  BY <1>1, <2>2 DEF LimpiosNoVuelven, Atendido
  <1> QED
    BY <1>4, <1>5, <1>7, <1>8, <1>9, <1>10, <1>11, <1>12

(* Every step of the processes around the central belt, and of the tower.  *)
LEMMA CircuitoSeConserva ==
  ASSUME InvarianteCircuito, [NextCircuito]_todo
  PROVE  InvarianteCircuito'
  <1>1. CASE UNCHANGED todo
    <2>1. UNCHANGED <<vars, zonas, vuelos_abiertos, num_zona, en_mano,
                      cola_control, cinta_contenedor, descartados>>
      BY <1>1 DEF todo, circuito
    <2>2. SoloQuitaZonas
      BY <2>1 DEF SoloQuitaZonas, InvarianteCircuito, TiposCircuito
    <2>3. TiposCircuito'
      BY <2>1 DEF InvarianteCircuito, TiposCircuito
    <2>4. SospechosoNoSeCarga' /\ UnaZonaPorVuelo'
      BY <2>1 DEF InvarianteCircuito, SospechosoNoSeCarga, UnaZonaPorVuelo
    <2> QED
      BY <2>1, <2>2, <2>3, <2>4, ConservaTabla, LaCintaSigue
         DEF InvarianteCircuito
  <1>2. ASSUME NEW c \in Consumidores, PasoRobot(c)
        PROVE  InvarianteCircuito'
    BY <1>2, ConservaLectura, ConservaConsultaDelLeido, ConservaDejarPasar,
       ConservaTomar, ConservaEntregar DEF PasoRobot
  <1>3. ASSUME PasoUltimo
        PROVE  InvarianteCircuito'
    BY <1>3, ConservaConsultaDelTomado, ConservaDescartar,
       ConservaEnviarAControl DEF PasoUltimo
  <1> QED
    BY <1>1, <1>2, <1>3, ConservaAbrirVuelo, ConservaTerminarCarga,
       ConservaCargar, ConservaEscanear, ConservaPasoCinta, ConservaRecolocar
       DEF NextCircuito

(* The invariant of the loop holds in every state. *)
THEOREM CircuitoSiempre == SpecCircuito => []InvarianteCircuito
  <1>1. InvarianteCircuito /\ [NextCircuito]_todo => InvarianteCircuito'
    BY CircuitoSeConserva
  <1> QED  BY CircuitoInicial, <1>1, PTL DEF SpecCircuito

(* A bag that a scanner marked never gets into the hands of a dispatch     *)
(* robot nor to a container belt before control cleared the mark, for any  *)
(* number of scanners and robots.                                          *)
THEOREM SospechososSiempre == SpecCircuito => []SospechosoNoSeCarga
  BY CircuitoSiempre, PTL DEF InvarianteCircuito

(* A clean bag whose flight is attended is stopped by one of the dispatch  *)
(* robots, whatever the interleaving of the scanners, control, the robots, *)
(* the flights that open and the loads that end; and no dropped bag        *)
(* belongs to a flight that has a zone.                                    *)
THEOREM LimpiosSiempre == SpecCircuito => []LimpiosNoVuelven
  BY CircuitoSiempre, PTL DEF InvarianteCircuito

-----------------------------------------------------------------------------
(* No bag is lost or duplicated on its way round the loop.                 *)

(* There are finitely many consumers and zones.                            *)
LEMMA FinitosConsumidores == IsFiniteSet(Consumidores)
  BY SuposicionCentral, FS_Interval DEF Consumidores

(* The same of the zones that some dispatch robot takes bags for.          *)
LEMMA FinitasZonas == IsFiniteSet(ZonasServidas)
  <1>1. ZonasServidas \in SUBSET (1..MaxZonas)
    BY SuposicionCircuito DEF ZonasServidas, Despachos
  <1>2. IsFiniteSet(1..MaxZonas)
    BY SuposicionZonas, FS_Interval
  <1> QED  BY <1>1, <1>2, FS_Subset

(* A queue holds a bag some number of times.                               *)
LEMMA CuantasEnCola ==
  ASSUME NEW id, NEW s \in Seq(Equipajes)
  PROVE  EnTenedores(id, s) \in Nat
  <1>1. DOMAIN s = 1..Len(s) /\ Len(s) \in Nat
    OBVIOUS
  <1>2. IsFiniteSet(DOMAIN s)
    BY <1>1, FS_Interval
  <1> QED  BY <1>2, CuantosEsNatural DEF EnTenedores, Cuantos

(* So do the hands of the consumers, before and after one of them changes. *)
LEMMA CuantasEnManos ==
  ASSUME InvarianteCircuito, NEW id
  PROVE  /\ EnTenedores(id, en_mano) \in Nat
         /\ \A c \in Consumidores : \A x :
              en_mano' = [en_mano EXCEPT ![c] = x] => EnTenedores(id, en_mano)' \in Nat
  <1>1. DOMAIN en_mano = Consumidores
    BY DEF InvarianteCircuito, TiposCircuito
  <1>2. ASSUME NEW c \in Consumidores, NEW x, en_mano' = [en_mano EXCEPT ![c] = x]
        PROVE  EnTenedores(id, en_mano)' \in Nat
    <2>1. PICK g, X : g = en_mano' /\ X = DelId(id)
      OBVIOUS
    <2>2. IsFiniteSet(DOMAIN g)
      BY <1>1, <1>2, <2>1, FinitosConsumidores
    <2>3. Cuantos(g, X) \in Nat
      BY <2>2, CuantosEsNatural
    <2> QED  BY <2>1, <2>3 DEF EnTenedores, Cuantos
  <1> QED  BY <1>1, <1>2, FinitosConsumidores, CuantosEsNatural DEF EnTenedores, Cuantos

(* The holders of bags are finitely many, and how many times a bag is with *)
(* them is a number.                                                       *)
LEMMA PartesNaturales ==
  ASSUME InvarianteCircuito, NEW id
  PROVE  /\ EnConjunto(id, por_llegar) \in Nat
         /\ EnTenedores(id, a_colocar) \in Nat
         /\ EnTenedores(id, Contenido) \in Nat
         /\ EnTenedores(id, en_mano) \in Nat
         /\ EnTenedores(id, cola_control) \in Nat
         /\ SumFunction([z \in ZonasServidas |-> EnTenedores(id, cinta_contenedor[z])])
              \in Nat
         /\ \A z \in ZonasServidas :
              /\ EnTenedores(id, cinta_contenedor[z]) \in Nat
              /\ EnTenedores(id, cinta_contenedor[z]) <=
                   SumFunction([y \in ZonasServidas |->
                                  EnTenedores(id, cinta_contenedor[y])])
         /\ EnConjunto(id, cargados) \in Nat
         /\ EnConjunto(id, descartados) \in Nat
  <1> USE DEF InvarianteCircuito
  <1>1. \A s \in Seq(Equipajes) : EnTenedores(id, s) \in Nat
    BY CuantasEnCola
  <1>2. EnTenedores(id, a_colocar) \in Nat
    <2>1. DOMAIN a_colocar = Productores
      BY DEF Invariante, Tipos
    <2> QED
      BY <2>1, SuposicionCentral, CuantosEsNatural DEF EnTenedores, Cuantos
  <1>3. EnTenedores(id, en_mano) \in Nat
    BY CuantasEnManos
  <1>4. \A z \in ZonasServidas : EnTenedores(id, cinta_contenedor[z]) \in Nat
    BY <1>1 DEF TiposCircuito
  <1> DEFINE f == [z \in ZonasServidas |-> EnTenedores(id, cinta_contenedor[z])]
  <1>5. f \in [ZonasServidas -> Nat]
    BY <1>4
  <1>6. \A z \in ZonasServidas : f[z] = EnTenedores(id, cinta_contenedor[z])
    OBVIOUS
  <1>7. SumFunction(f) \in Nat /\ \A z \in ZonasServidas : f[z] <= SumFunction(f)
    <2> HIDE DEF f
    <2> QED  BY <1>5, FinitasZonas, SumandoAcotado
  <1>8. EnTenedores(id, Contenido) \in Nat /\ EnTenedores(id, cola_control) \in Nat
    BY <1>1 DEF ContenidoEscrito, TiposCircuito
  <1> QED  BY <1>2, <1>3, <1>4, <1>6, <1>7, <1>8 DEF EnConjunto

(* A bag counts for its id and for no other, and no bag for none.          *)
LEMMA ValeElId ==
  ASSUME NEW id
  PROVE  /\ \A e \in Equipajes : Vale(e, DelId(id)) = EnConjunto(id, {e.id})
         /\ Vale(Ninguno, DelId(id)) = 0
         /\ \A x : Vale(x, DelId(id)) \in {0, 1}
  BY SuposicionCircuito DEF Vale, DelId, EnConjunto

(* One consumer takes a bag in its hands, or it leaves them.               *)
LEMMA CambiaLaMano ==
  ASSUME InvarianteCircuito, NEW id, NEW c \in Consumidores, NEW x,
         en_mano' = [en_mano EXCEPT ![c] = x]
  PROVE  EnTenedores(id, en_mano)' =
           EnTenedores(id, en_mano) - Vale(en_mano[c], DelId(id)) + Vale(x, DelId(id))
  <1>1. DOMAIN en_mano = Consumidores
    BY DEF InvarianteCircuito, TiposCircuito
  <1>2. /\ DOMAIN en_mano' = Consumidores /\ en_mano'[c] = x
        /\ \A d \in Consumidores \ {c} : en_mano'[d] = en_mano[d]
    BY <1>1
  <1>3. PICK f, g, X : f = en_mano /\ g = en_mano' /\ X = DelId(id)
    OBVIOUS
  <1>4. /\ IsFiniteSet(DOMAIN f) /\ c \in DOMAIN f /\ DOMAIN g = DOMAIN f
        /\ \A i \in DOMAIN f \ {c} : g[i] = f[i]
    BY <1>1, <1>2, <1>3, FinitosConsumidores
  <1>5. Cuantos(g, X) = Cuantos(f, X) - Vale(f[c], X) + Vale(g[c], X)
    BY <1>4, CuentaAlCambiar
  <1> QED  BY <1>2, <1>3, <1>5 DEF EnTenedores, Cuantos

(* One producer calls poner_equipaje, or has put its bag.                  *)
LEMMA CambiaLoQueColoca ==
  ASSUME InvarianteCircuito, NEW id, NEW p \in Productores, NEW x,
         a_colocar' = [a_colocar EXCEPT ![p] = x]
  PROVE  EnTenedores(id, a_colocar)' =
           EnTenedores(id, a_colocar) - Vale(a_colocar[p], DelId(id))
             + Vale(x, DelId(id))
  <1>1. DOMAIN a_colocar = Productores
    BY DEF InvarianteCircuito, Invariante, Tipos
  <1>2. /\ DOMAIN a_colocar' = Productores /\ a_colocar'[p] = x
        /\ \A q \in Productores \ {p} : a_colocar'[q] = a_colocar[q]
    BY <1>1
  <1>3. PICK f, g, X : f = a_colocar /\ g = a_colocar' /\ X = DelId(id)
    OBVIOUS
  <1>4. /\ IsFiniteSet(DOMAIN f) /\ p \in DOMAIN f /\ DOMAIN g = DOMAIN f
        /\ \A i \in DOMAIN f \ {p} : g[i] = f[i]
    BY <1>1, <1>2, <1>3, SuposicionCentral
  <1>5. Cuantos(g, X) = Cuantos(f, X) - Vale(f[p], X) + Vale(g[p], X)
    BY <1>4, CuentaAlCambiar
  <1> QED  BY <1>2, <1>3, <1>5 DEF EnTenedores, Cuantos

(* One container belt gets a bag or gives one.                             *)
LEMMA CambiaUnContenedor ==
  ASSUME InvarianteCircuito, NEW id, NEW z \in ZonasServidas,
         NEW s \in Seq(Equipajes), EnTenedores(id, s) \in Nat,
         cinta_contenedor' = [cinta_contenedor EXCEPT ![z] = s]
  PROVE  SumFunction([y \in ZonasServidas |-> EnTenedores(id, cinta_contenedor[y])])'
           = SumFunction([y \in ZonasServidas |-> EnTenedores(id, cinta_contenedor[y])])
               + (EnTenedores(id, s) - EnTenedores(id, cinta_contenedor[z]))
  <1> DEFINE f == [y \in ZonasServidas |-> EnTenedores(id, cinta_contenedor[y])]
             g == [y \in ZonasServidas |-> EnTenedores(id, cinta_contenedor'[y])]
  <1>1. \A y \in ZonasServidas : EnTenedores(id, cinta_contenedor[y]) \in Nat
    BY PartesNaturales
  <1>2. \A y \in ZonasServidas :
          cinta_contenedor'[y] = IF y = z THEN s ELSE cinta_contenedor[y]
    BY DEF InvarianteCircuito, TiposCircuito
  <1>3. f \in [ZonasServidas -> Int] /\ g \in [ZonasServidas -> Int]
    BY <1>1, <1>2
  <1>4. /\ \A y \in ZonasServidas \ {z} : g[y] = f[y]
        /\ f[z] = EnTenedores(id, cinta_contenedor[z])
        /\ g[z] = EnTenedores(id, s)
    BY <1>2
  <1>5. SumFunction(g) = SumFunction(f) + (g[z] - f[z])
    <2> HIDE DEF f, g
    <2> QED  BY <1>3, <1>4, FinitasZonas, CambiaUnSumando
  <1> QED  BY <1>4, <1>5

(* Nothing moves.                                                          *)
LEMMA NadaSeMueve ==
  ASSUME NEW id,
         UNCHANGED <<por_llegar, a_colocar, Contenido, en_mano, cola_control,
                     cinta_contenedor, cargados, descartados>>
  PROVE  Ejemplares(id)' = Ejemplares(id)
  BY DEF Ejemplares

(* A queue gets a bag at its end, or gives the one at its head.            *)
LEMMA CambiaUnaCola ==
  ASSUME NEW id, NEW s \in Seq(Equipajes)
  PROVE  /\ \A e \in Equipajes :
              EnTenedores(id, Append(s, e)) = EnTenedores(id, s) + Vale(e, DelId(id))
         /\ s # <<>> =>
              EnTenedores(id, Tail(s)) = EnTenedores(id, s) - Vale(Head(s), DelId(id))
  <1>1. PICK X : X = DelId(id)
    OBVIOUS
  <1>2. ASSUME NEW e \in Equipajes
        PROVE  Cuantos(Append(s, e), X) = Cuantos(s, X) + Vale(e, X)
    BY CuentaAlAgregar
  <1>3. s # <<>> => Cuantos(Tail(s), X) = Cuantos(s, X) - Vale(Head(s), X)
    BY CuentaAlQuitar
  <1> QED  BY <1>1, <1>2, <1>3 DEF EnTenedores, Cuantos

(* robot_scanner takes a bag that has arrived and calls poner_equipaje.    *)
LEMMA EscanearLleva ==
  ASSUME InvarianteCircuito, NEW id, NEW p \in Scanners, NEW e \in Equipajes,
         Escanear(p, e)
  PROVE  Ejemplares(id)' = Ejemplares(id)
  <1> DEFINE v == Vale(e, DelId(id))
  <1>1. /\ p \in Productores
        /\ pc_productor[p] = "fuera"
        /\ a_colocar' = [a_colocar EXCEPT ![p] = e]
        /\ e.id \in por_llegar /\ por_llegar' = por_llegar \ {e.id}
        /\ UNCHANGED <<Contenido, en_mano, cola_control, cinta_contenedor,
                       cargados, descartados>>
    BY OtrosPasosNoTocanLaCola DEF Escanear, Scanners, LlamarColocar
  <1>2. a_colocar[p] = Ninguno
    BY <1>1 DEF InvarianteCircuito, Invariante, ArgumentoPresente
  <1>3. EnTenedores(id, a_colocar)' = EnTenedores(id, a_colocar) - 0 + v
    BY <1>1, <1>2, CambiaLoQueColoca, ValeElId
  <1>4. EnConjunto(id, por_llegar)' = EnConjunto(id, por_llegar) - v
    <2>1. v = EnConjunto(id, {e.id})
      BY ValeElId
    <2> QED  BY <1>1, <2>1 DEF EnConjunto
  <1> HIDE DEF v
  <1> QED  BY <1>1, <1>3, <1>4, PartesNaturales, ValeElId DEF Ejemplares, v

(* poner_equipaje moves the bag of the producer to the end of the belt; the *)
(* other turns of its loop leave it where it was.                          *)
LEMMA PasoCintaLleva ==
  ASSUME InvarianteCircuito, NEW id, NEW p \in Productores, PasoCinta(p)
  PROVE  Ejemplares(id)' = Ejemplares(id)
  <1> USE DEF InvarianteCircuito
  <1>1. UNCHANGED <<por_llegar, en_mano, cola_control, cinta_contenedor,
                    cargados, descartados>>
    BY DEF PasoCinta, circuito
  <1>2. CASE Colocar(p)
    <2> DEFINE e == a_colocar[p]
               v == Vale(e, DelId(id))
    <2>1. /\ e \in Equipajes /\ a_colocar' = [a_colocar EXCEPT ![p] = Ninguno]
          /\ Contenido' = Append(Contenido, e)
      BY <1>2, ColocarEsPoner DEF Colocar, Invariante, ArgumentoPresente, Cola!Poner
    <2>2. EnTenedores(id, a_colocar)' =
            EnTenedores(id, a_colocar) - v + Vale(Ninguno, DelId(id))
      BY <2>1, CambiaLoQueColoca
    <2>3. EnTenedores(id, Contenido)' = EnTenedores(id, Contenido) + v
      BY <2>1, CambiaUnaCola DEF ContenidoEscrito
    <2>4. v \in {0, 1} /\ Vale(Ninguno, DelId(id)) = 0
      BY ValeElId
    <2> HIDE DEF v
    <2> QED  BY SMTT(30), <1>1, <2>2, <2>3, <2>4, PartesNaturales DEF Ejemplares
  <1>3. CASE EsperarProductor(p) \/ NoPudoColocar(p)
    <2>1. UNCHANGED a_colocar
      BY <1>3 DEF EsperarProductor, NoPudoColocar
    <2> QED  BY <1>1, <1>3, <2>1, OtrosPasosNoTocanLaCola, NadaSeMueve
  <1> QED  BY <1>2, <1>3 DEF PasoCinta, PasoProductor

(* A consumer that takes what it had read takes the head of the belt, and  *)
(* had nothing in its hands.                                               *)
LEMMA TomarLleva ==
  ASSUME InvarianteCircuito, NEW id, NEW c \in Consumidores, Tomar(c)
  PROVE  Ejemplares(id)' = Ejemplares(id)
  <1> USE DEF InvarianteCircuito
  <1> DEFINE e == ultimo_equipaje_leido[c]
             v == Vale(e, DelId(id))
  <1>1. /\ Extraer(c) /\ pc_consumidor[c] = "leyo"
        /\ en_mano' = [en_mano EXCEPT ![c] = e]
        /\ UNCHANGED <<por_llegar, a_colocar, cola_control, cinta_contenedor,
                       cargados, descartados>>
    BY DEF Tomar, Extraer, productores
  <1>2. en_mano[c] = Ninguno
    BY <1>1 DEF ConsultaCoherente
  <1>3. /\ Contenido # <<>> /\ Head(Contenido) = e
        /\ Contenido' = Tail(Contenido)
    <2>1. Cola!Sacar /\ extraido' = e
      BY <1>1, ExtraerEsSacar DEF Extraer
    <2> QED  BY <2>1 DEF Cola!Sacar
  <1>4. EnTenedores(id, en_mano)' = EnTenedores(id, en_mano) - 0 + v
    BY <1>1, <1>2, CambiaLaMano, ValeElId
  <1>5. EnTenedores(id, Contenido)' = EnTenedores(id, Contenido) - v
    BY <1>3, CambiaUnaCola DEF ContenidoEscrito
  <1>6. v \in {0, 1}
    BY ValeElId
  <1> HIDE DEF v
  <1> QED  BY SMTT(30), <1>1, <1>4, <1>5, <1>6, PartesNaturales DEF Ejemplares

(* robot_despacho leaves its bag on a container belt.                      *)
LEMMA EntregarLleva ==
  ASSUME InvarianteCircuito, NEW id, NEW c \in Consumidores, Entregar(c)
  PROVE  Ejemplares(id)' = Ejemplares(id)
  <1> USE DEF InvarianteCircuito
  <1> DEFINE e == en_mano[c]
             v == Vale(e, DelId(id))
  <1>1. PICK z \in ZonasServidas : z = num_zona[c]
    BY DEF Entregar, ConsultaCoherente, ZonasServidas
  <1>2. PICK s \in Seq(Equipajes) : s = cinta_contenedor[z]
    BY DEF TiposCircuito
  <1>3. /\ e \in Equipajes
        /\ en_mano' = [en_mano EXCEPT ![c] = Ninguno]
        /\ cinta_contenedor' = [cinta_contenedor EXCEPT ![z] = Append(s, e)]
        /\ UNCHANGED <<por_llegar, cola_control, cargados, descartados, vars>>
    BY <1>1, <1>2 DEF Entregar, Soltar, TiposCircuito, Contenidos
  <1>4. UNCHANGED <<a_colocar, Contenido>>
    BY <1>3, OtrosPasosNoTocanLaCola DEF vars, productores
  <1>5. EnTenedores(id, en_mano)' =
          EnTenedores(id, en_mano) - v + Vale(Ninguno, DelId(id))
    BY <1>3, CambiaLaMano
  <1>6. /\ Vale(Ninguno, DelId(id)) = 0
        /\ EnTenedores(id, s) \in Nat /\ v \in {0, 1}
        /\ EnTenedores(id, Append(s, e)) = EnTenedores(id, s) + v
    BY <1>2, <1>3, PartesNaturales, CambiaUnaCola, ValeElId
  <1> DEFINE suma == SumFunction([y \in ZonasServidas |->
                                    EnTenedores(id, cinta_contenedor[y])])
  <1>7. suma' = suma + v
    <2>1. Append(s, e) \in Seq(Equipajes) /\ EnTenedores(id, Append(s, e)) \in Nat
      BY <1>3, <1>6
    <2>2. PICK t \in Seq(Equipajes) : t = Append(s, e)
      BY <2>1
    <2>3. suma' = suma + (EnTenedores(id, t) - EnTenedores(id, cinta_contenedor[z]))
      BY <1>3, <2>1, <2>2, CambiaUnContenedor
    <2>4. suma \in Nat
      BY PartesNaturales
    <2> HIDE DEF suma, v
    <2> QED  BY <1>2, <1>6, <2>2, <2>3, <2>4
  <1> HIDE DEF v
  <1> QED  BY SMTT(30), <1>3, <1>4, <1>5, <1>6, <1>7, PartesNaturales DEF Ejemplares

(* robot_carga takes the bag at the head of a container belt.  It was not  *)
(* among the loaded ones, for it was on the belt and nowhere else.         *)
LEMMA CargarLleva ==
  ASSUME InvarianteCircuito, NEW id, NEW z \in ZonasServidas, Cargar(z),
         Ejemplares(id) = 1
  PROVE  Ejemplares(id)' = 1
  <1>1. PICK s \in Seq(Equipajes) : s = cinta_contenedor[z]
    BY DEF InvarianteCircuito, TiposCircuito
  <1>2. s # <<>> /\ Head(s) \in Equipajes /\ Tail(s) \in Seq(Equipajes)
    BY <1>1, HeadTailProperties DEF Cargar
  <1>3. PICK e \in Equipajes, t \in Seq(Equipajes) : e = Head(s) /\ t = Tail(s)
    BY <1>2
  <1> DEFINE v == Vale(e, DelId(id))
             suma == SumFunction([y \in ZonasServidas |->
                                    EnTenedores(id, cinta_contenedor[y])])
  <1>4. /\ cinta_contenedor' = [cinta_contenedor EXCEPT ![z] = t]
        /\ cargados' = cargados \cup {e.id}
        /\ UNCHANGED <<por_llegar, en_mano, cola_control, descartados, vars>>
    BY <1>1, <1>3 DEF Cargar
  <1>5. UNCHANGED <<a_colocar, Contenido>>
    BY <1>4, OtrosPasosNoTocanLaCola DEF vars, productores
  <1>6. EnTenedores(id, t) = EnTenedores(id, s) - v /\ v \in {0, 1}
    BY <1>2, <1>3, CambiaUnaCola, ValeElId
  <1>7. /\ suma \in Nat /\ EnTenedores(id, s) \in Nat
        /\ EnTenedores(id, s) <= suma
    BY <1>1, PartesNaturales
  <1>8. EnTenedores(id, t) \in Nat
    BY CuantasEnCola
  <1>9. suma' = suma + (EnTenedores(id, t) - EnTenedores(id, cinta_contenedor[z]))
    BY <1>4, <1>8, CambiaUnContenedor
  <1>10. v = EnConjunto(id, {e.id})
    BY ValeElId
  <1>11. suma' = suma - v /\ v <= suma
    <2> HIDE DEF suma, v
    <2> QED  BY SMTT(30), <1>1, <1>6, <1>7, <1>8, <1>9
  <1>12. PICK a \in Nat, b \in Nat, k \in Nat, m \in Nat, q \in Nat, d \in Nat,
              n \in Nat, g \in Nat :
           /\ a = EnConjunto(id, por_llegar) /\ b = EnTenedores(id, a_colocar)
           /\ k = EnTenedores(id, Contenido) /\ m = EnTenedores(id, en_mano)
           /\ q = EnTenedores(id, cola_control)
           /\ d = EnConjunto(id, descartados)
           /\ n = suma /\ g = EnConjunto(id, cargados)
    <2>1. /\ EnConjunto(id, por_llegar) \in Nat /\ EnTenedores(id, a_colocar) \in Nat
          /\ EnTenedores(id, Contenido) \in Nat /\ EnTenedores(id, en_mano) \in Nat
          /\ EnTenedores(id, cola_control) \in Nat
          /\ EnConjunto(id, descartados) \in Nat /\ EnConjunto(id, cargados) \in Nat
      BY PartesNaturales
    <2> HIDE DEF suma
    <2> QED  BY <1>7, <2>1
  <1>13. a + b + k + m + q + n + g + d = 1
    BY <1>12 DEF Ejemplares
  <1>14. EnConjunto(id, cargados)' = g + v
    <2>1. v = 1 => g = 0
      <3>1. v \in {0, 1} /\ v <= n
        BY <1>6, <1>11, <1>12
      <3> HIDE DEF v
      <3> QED  BY <1>13, <3>1
    <2> QED  BY SMTT(30), <1>4, <1>10, <1>12, <2>1 DEF EnConjunto
  <1>15. suma' = n - v
    BY <1>11, <1>12
  <1>16. Ejemplares(id)' = a + b + k + m + q + (n - v) + (g + v) + d
    <2>1. Ejemplares(id)' =
            EnConjunto(id, por_llegar) + EnTenedores(id, a_colocar)
              + EnTenedores(id, Contenido) + EnTenedores(id, en_mano)
              + EnTenedores(id, cola_control) + suma'
              + EnConjunto(id, cargados)' + EnConjunto(id, descartados)
      BY <1>4, <1>5 DEF Ejemplares
    <2> HIDE DEF suma, v
    <2> QED  BY <1>12, <1>14, <1>15, <2>1
  <1>17. a + b + k + m + q + (n - v) + (g + v) + d = a + b + k + m + q + n + g + d
    <2>1. PICK w \in {0, 1} : w = v
      BY <1>6
    <2> HIDE DEF v
    <2> QED  BY <2>1
  <1> QED  BY <1>13, <1>16, <1>17

(* The last consumer drops the bag it has in its hands.                    *)
LEMMA DescartarLleva ==
  ASSUME InvarianteCircuito, NEW id, Descartar, Ejemplares(id) = 1
  PROVE  Ejemplares(id)' = 1
  <1>1. Ultimo \in Consumidores /\ en_mano[Ultimo] \in Equipajes
    BY LosConsumidores DEF InvarianteCircuito, TiposCircuito, Contenidos, Descartar
  <1>2. PICK e \in Equipajes : e = en_mano[Ultimo]
    BY <1>1
  <1> DEFINE v == Vale(e, DelId(id))
  <1>3. /\ en_mano' = [en_mano EXCEPT ![Ultimo] = Ninguno]
        /\ descartados' = descartados \cup {e.id}
        /\ UNCHANGED <<por_llegar, cola_control, cinta_contenedor, cargados, vars>>
    BY <1>2 DEF Descartar, Soltar
  <1>4. UNCHANGED <<a_colocar, Contenido>>
    BY <1>3, OtrosPasosNoTocanLaCola DEF vars, productores
  <1>5. EnTenedores(id, en_mano)' =
          EnTenedores(id, en_mano) - v + Vale(Ninguno, DelId(id))
    BY <1>1, <1>2, <1>3, CambiaLaMano
  <1>6. /\ v = EnConjunto(id, {e.id}) /\ v \in {0, 1}
        /\ Vale(Ninguno, DelId(id)) = 0
    BY ValeElId
  <1>7. v <= EnTenedores(id, en_mano)
    <2>1. EnTenedores(id, en_mano)' \in Nat
      BY <1>1, <1>3, CuantasEnManos
    <2>2. EnTenedores(id, en_mano) \in Nat
      BY CuantasEnManos
    <2>3. PICK n \in Nat, m \in Nat :
            n = EnTenedores(id, en_mano) /\ m = EnTenedores(id, en_mano)'
      BY <2>1, <2>2
    <2> HIDE DEF v
    <2>4. m = n - v
      BY <1>5, <1>6, <2>3
    <2> QED  BY <1>6, <2>3, <2>4
  <1>8. EnConjunto(id, descartados)' = EnConjunto(id, descartados) + v
    <2>1. v = 1 => EnConjunto(id, descartados) = 0
      <3> HIDE DEF v
      <3> QED  BY SMTT(30), <1>7, PartesNaturales DEF Ejemplares
    <2> QED  BY <1>3, <1>6, <2>1 DEF EnConjunto
  <1> HIDE DEF v
  <1> QED  BY SMTT(30), <1>3, <1>4, <1>5, <1>6, <1>8, PartesNaturales DEF Ejemplares

(* The last consumer sends it to control.                                  *)
LEMMA EnviarAControlLleva ==
  ASSUME InvarianteCircuito, NEW id, EnviarAControl
  PROVE  Ejemplares(id)' = Ejemplares(id)
  <1>1. /\ Ultimo \in Consumidores /\ en_mano[Ultimo] \in Equipajes
        /\ cola_control \in Seq(Equipajes)
    BY LosConsumidores DEF InvarianteCircuito, TiposCircuito, Contenidos,
       EnviarAControl
  <1>2. PICK e \in Equipajes : e = en_mano[Ultimo]
    BY <1>1
  <1> DEFINE v == Vale(e, DelId(id))
  <1>3. /\ en_mano' = [en_mano EXCEPT ![Ultimo] = Ninguno]
        /\ cola_control' = Append(cola_control, e)
        /\ UNCHANGED <<por_llegar, cinta_contenedor, cargados, descartados, vars>>
    BY <1>2 DEF EnviarAControl, Soltar
  <1>4. UNCHANGED <<a_colocar, Contenido>>
    BY <1>3, OtrosPasosNoTocanLaCola DEF vars, productores
  <1>5. EnTenedores(id, en_mano)' =
          EnTenedores(id, en_mano) - v + Vale(Ninguno, DelId(id))
    BY <1>1, <1>2, <1>3, CambiaLaMano
  <1>6. v \in {0, 1} /\ Vale(Ninguno, DelId(id)) = 0
    BY ValeElId
  <1>7. EnTenedores(id, cola_control)' = EnTenedores(id, cola_control) + v
    BY <1>1, <1>3, CambiaUnaCola
  <1> HIDE DEF v
  <1> QED  BY SMTT(30), <1>3, <1>4, <1>5, <1>6, <1>7, PartesNaturales DEF Ejemplares

(* control_equipaje_sospechoso takes the bag at the head of its queue and  *)
(* calls poner_equipaje with it, cleared: it is the same bag.              *)
LEMMA RecolocarLleva ==
  ASSUME InvarianteCircuito, NEW id, Recolocar
  PROVE  Ejemplares(id)' = Ejemplares(id)
  <1>1. cola_control \in Seq(Equipajes) /\ cola_control # <<>>
    BY DEF InvarianteCircuito, TiposCircuito, Recolocar
  <1>2. PICK e \in Equipajes : e = Head(cola_control)
    BY <1>1, HeadTailProperties
  <1>3. PICK l \in Equipajes : l = Limpio(e) /\ l.id = e.id
    <2>1. Limpio(e) \in Equipajes
      BY SuposicionCircuito DEF Limpio
    <2>2. Limpio(e).id = e.id
      BY SuposicionCircuito DEF Limpio
    <2> QED  BY <2>1, <2>2
  <1> DEFINE v == Vale(e, DelId(id))
  <1>4. /\ Control \in Productores
        /\ pc_productor[Control] = "fuera"
        /\ LlamarColocar(Control, l)
        /\ a_colocar' = [a_colocar EXCEPT ![Control] = l]
        /\ cola_control' = Tail(cola_control)
        /\ UNCHANGED <<por_llegar, en_mano, cinta_contenedor, cargados, descartados>>
    BY <1>2, <1>3, SuposicionCircuito DEF Recolocar, LlamarColocar
  <1>5. UNCHANGED Contenido
    BY <1>4, OtrosPasosNoTocanLaCola
  <1>6. a_colocar[Control] = Ninguno
    BY <1>4 DEF InvarianteCircuito, Invariante, ArgumentoPresente
  <1>7. EnTenedores(id, a_colocar)' =
          EnTenedores(id, a_colocar) - Vale(Ninguno, DelId(id)) + Vale(l, DelId(id))
    BY <1>4, <1>6, CambiaLoQueColoca
  <1>8. /\ v \in {0, 1} /\ Vale(l, DelId(id)) = v
        /\ Vale(Ninguno, DelId(id)) = 0
    BY <1>3, ValeElId
  <1>9. EnTenedores(id, cola_control)' = EnTenedores(id, cola_control) - v
    BY <1>1, <1>2, <1>4, CambiaUnaCola
  <1> HIDE DEF v
  <1> QED  BY SMTT(30), <1>4, <1>5, <1>7, <1>8, <1>9, PartesNaturales DEF Ejemplares

(* The other steps of the robots, the flights that open and the loads that *)
(* end move no bag.                                                        *)
LEMMA LosDemasNoMueven ==
  ASSUME NEW id,
         \/ \E v \in Vuelos, z \in RobotsCarga : AbrirVuelo(v, z)
         \/ \E z \in RobotsCarga : TerminarCarga(z)
         \/ \E c \in Consumidores :
              \/ LeerProximo(c)
              \/ (EsperarConsumidor(c) \/ Leer(c) \/ NoPudoLeer(c)) /\ UNCHANGED circuito
              \/ ConsultarZonaDelLeido(c)
              \/ DejarPasar(c)
         \/ ConsultarZonaDelTomado
         \/ UNCHANGED todo
  PROVE  Ejemplares(id)' = Ejemplares(id)
  <1>1. UNCHANGED <<por_llegar, en_mano, cola_control, cinta_contenedor,
                    cargados, descartados>>
    BY DEF AbrirVuelo, TerminarCarga, LeerProximo, ConsultarZonaDelLeido,
       ConsultarZonaDelTomado, ConsultarZona, DejarPasar, circuito, todo
  <1>2. \/ UNCHANGED vars
        \/ \E c \in Consumidores : \/ LlamarLeer(c)
                                   \/ EsperarConsumidor(c)
                                   \/ Leer(c)
                                   \/ NoPudoLeer(c)
                                   \/ Avanzar(c)
    BY DEF AbrirVuelo, TerminarCarga, LeerProximo, ConsultarZonaDelLeido,
       ConsultarZonaDelTomado, ConsultarZona, DejarPasar, todo
  <1>3. UNCHANGED Contenido
    BY <1>2, OtrosPasosNoTocanLaCola
  <1>4. UNCHANGED a_colocar
    BY <1>2 DEF LlamarLeer, EsperarConsumidor, Leer, NoPudoLeer, Avanzar, vars,
       productores
  <1> QED  BY <1>1, <1>3, <1>4, NadaSeMueve

(* Before the first scan every bag is among those to come.                 *)
LEMMA EquipajesIniciales == InitCircuito => CadaEquipajeEnUnLugar
  <1> SUFFICES ASSUME InitCircuito, NEW id \in Ids
               PROVE  Ejemplares(id) = 1
    BY DEF CadaEquipajeEnUnLugar
  <1> USE DEF InitCircuito
  <1>1. /\ EnConjunto(id, por_llegar) = 1
        /\ EnConjunto(id, cargados) = 0
        /\ EnConjunto(id, descartados) = 0
    BY DEF EnConjunto
  <1>2. ASSUME NEW f, \A k \in DOMAIN f : f[k] = Ninguno
        PROVE  EnTenedores(id, f) = 0
    <2>1. {k \in DOMAIN f : f[k] \in DelId(id)} = {}
      BY <1>2, SuposicionCircuito DEF DelId
    <2> QED  BY <2>1, FS_EmptySet DEF EnTenedores
  <1>3. Contenido = <<>>
    <2>1. cantidad_elementos = 0
      BY DEF Init
    <2> QED  BY <2>1 DEF Contenido
  <1>4. EnTenedores(id, Contenido) = 0 /\ EnTenedores(id, cola_control) = 0
    BY <1>2, <1>3
  <1>5. EnTenedores(id, a_colocar) = 0
    BY <1>2 DEF Init
  <1>6. EnTenedores(id, en_mano) = 0
    BY <1>2
  <1> DEFINE f == [z \in ZonasServidas |-> EnTenedores(id, cinta_contenedor[z])]
  <1>7. \A z \in ZonasServidas : EnTenedores(id, cinta_contenedor[z]) = 0
    BY <1>2
  <1>8. SumFunction(f) = 0
    <2>1. f \in [ZonasServidas -> Int] /\ \A z \in ZonasServidas : f[z] = 0
      BY <1>7
    <2> HIDE DEF f
    <2> QED  BY <2>1, FinitasZonas, SumaDeCeros
  <1> QED  BY <1>1, <1>4, <1>5, <1>6, <1>8 DEF Ejemplares

(* At every moment each bag is in exactly one place, for any number of     *)
(* bags, scanners, robots and zones and any size of the belts and of the   *)
(* queue: every step of the loop takes a bag from one place to another, or *)
(* moves none.                                                             *)
THEOREM EquipajesSiempre == SpecCircuito => []CadaEquipajeEnUnLugar
  <1>1. ASSUME InvarianteCircuito, CadaEquipajeEnUnLugar, [NextCircuito]_todo
        PROVE  CadaEquipajeEnUnLugar'
    <2> SUFFICES ASSUME NEW id \in Ids PROVE Ejemplares(id)' = 1
      BY DEF CadaEquipajeEnUnLugar
    <2>1. Ejemplares(id) = 1
      BY <1>1 DEF CadaEquipajeEnUnLugar
    <2>2. ASSUME NEW c \in Consumidores, PasoRobot(c)
          PROVE  Ejemplares(id)' = 1
      BY <1>1, <2>1, <2>2, TomarLleva, EntregarLleva, LosDemasNoMueven DEF PasoRobot
    <2>3. ASSUME PasoUltimo
          PROVE  Ejemplares(id)' = 1
      BY <1>1, <2>1, <2>3, DescartarLleva, EnviarAControlLleva, LosDemasNoMueven
         DEF PasoUltimo
    <2>4. ASSUME \/ \E v \in Vuelos, z \in RobotsCarga : AbrirVuelo(v, z)
                 \/ \E z \in RobotsCarga : TerminarCarga(z)
                 \/ UNCHANGED todo
          PROVE  Ejemplares(id)' = 1
      BY <2>1, <2>4, LosDemasNoMueven
    <2> QED
      BY <1>1, <2>1, <2>2, <2>3, <2>4, CargarLleva, EscanearLleva,
         PasoCintaLleva, RecolocarLleva DEF NextCircuito
  <1> QED
    BY <1>1, EquipajesIniciales, CircuitoSiempre, PTL DEF SpecCircuito

-----------------------------------------------------------------------------
(* The belt of the loop is the belt. *)

(* A step of the loop is a step of the belt or leaves it alone.            *)
LEMMA PasoDelCircuito ==
  ASSUME InvarianteCircuito, [NextCircuito]_todo
  PROVE  [Next]_vars
  <1>1. ASSUME NEW c \in Consumidores, PasoRobot(c)
        PROVE  [Next]_vars
    BY <1>1 DEF PasoRobot, LeerProximo, ConsultarZonaDelLeido, ConsultarZona,
       DejarPasar, Tomar, Entregar, Next, PasoConsumidor
  <1>2. ASSUME NEW p \in Scanners, NEW e \in Equipajes, Escanear(p, e)
        PROVE  Next
    BY <1>2 DEF Escanear, Scanners, Next
  <1>3. ASSUME Recolocar
        PROVE  Next
    <2>1. cola_control \in Seq(Equipajes) /\ cola_control # <<>>
      BY <1>3 DEF InvarianteCircuito, TiposCircuito, Recolocar
    <2>2. Head(cola_control) \in Equipajes
      BY <2>1
    <2>3. Limpio(Head(cola_control)) \in Equipajes
      BY <2>2, SuposicionCircuito DEF Limpio
    <2> QED  BY <1>3, <2>3, SuposicionCircuito DEF Recolocar, Next
  <1>4. ASSUME \/ \E v \in Vuelos, z \in RobotsCarga : AbrirVuelo(v, z)
               \/ \E z \in RobotsCarga : TerminarCarga(z)
               \/ \E z \in ZonasServidas : Cargar(z)
               \/ PasoUltimo
               \/ UNCHANGED todo
        PROVE  UNCHANGED vars
    BY <1>4 DEF AbrirVuelo, TerminarCarga, Cargar, PasoUltimo,
       ConsultarZonaDelTomado, ConsultarZona, Descartar, EnviarAControl, todo
  <1>5. ASSUME NEW p \in Productores, PasoCinta(p)
        PROVE  Next
    BY <1>5 DEF PasoCinta, Next
  <1> QED  BY <1>1, <1>2, <1>3, <1>4, <1>5 DEF NextCircuito

(* The robots drive the central belt as CintaPrincipal allows, so that     *)
(* what is proved of the belt for any producers and consumers holds of it  *)
(* inside the loop.                                                        *)
THEOREM CintaEnElCircuito == SpecCircuito => Spec
  <1>1. InitCircuito => Init
    BY DEF InitCircuito
  <1>2. InvarianteCircuito /\ [NextCircuito]_todo => [Next]_vars
    BY PasoDelCircuito
  <1> QED  BY <1>1, <1>2, CircuitoSiempre, PTL DEF SpecCircuito, Spec
=============================================================================
