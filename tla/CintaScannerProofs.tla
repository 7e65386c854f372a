------------------------- MODULE CintaScannerProofs -------------------------
(***************************************************************************)
(* The belts of the scanners are correct for any number of them, any size  *)
(* of the belts and any bags.                                              *)
(***************************************************************************)
EXTENDS CintaScanner, FiniteSetTheorems, LemasGenerales

Contenidos == Equipajes \cup {Ninguno}

PcProductor  == {"fuera", "esperando", "despierto", "eligio"}
PcConsumidor == {"apagado", "avisando", "fuera", "esperando", "despierto"}

(* The binary semaphores, the marks and the calls have their types. *)
Tipos ==
  /\ posicion_libre \in [Cintas -> 0..Tamanio - 1]
  /\ posicion_ocupada \in [Cintas -> 0..Tamanio - 1]
  /\ cantidad_elementos \in [Cintas -> 0..Tamanio]
  /\ consumidor_esperando \in [Cintas -> 0..1]
  /\ vector_elementos \in [Cintas -> [0..Tamanio - 1 -> Contenidos]]
  /\ cinta_llena \in [Cintas -> {SinScanner, ConLugar, Llena}]
  /\ productor_esperando \in 0..1
  /\ semaforo_productor \in 0..1
  /\ semaforo_consumidor \in [Cintas -> 0..1]
  /\ pc_productor \in PcProductor
  /\ proxima_cinta \in Cintas
  /\ a_colocar \in Contenidos
  /\ pc_consumidor \in [Cintas -> PcConsumidor]
  /\ elemento \in [Cintas -> Contenidos]

(* The scanners between the release of the control lock and signalize(0). *)
Avisando == {k \in Cintas : pc_consumidor[k] = "avisando"}

(* The control memory, written under its own lock, agrees with every belt: *)
(* a belt is marked as full exactly when it is, and one without a scanner  *)
(* is empty.                                                               *)
ControlCoherente ==
  \A k \in Cintas :
    /\ cinta_llena[k] = Llena => cantidad_elementos[k] = Tamanio
    /\ cinta_llena[k] = ConLugar => cantidad_elementos[k] < Tamanio
    /\ cinta_llena[k] = SinScanner =>
         cantidad_elementos[k] = 0 /\ pc_consumidor[k] = "apagado"

(* robot_checkin leaves its mark only when no belt has room, and the mark  *)
(* is taken away by whoever makes room.                                    *)
MarcaSinLugar ==
  productor_esperando = 1 => \A k \in Cintas : cinta_llena[k] # ConLugar

(* The belt chosen is still marked as having room when it is locked. *)
ElegidaConLugar == pc_productor = "eligio" => cinta_llena[proxima_cinta] = ConLugar

(* posicion_libre is where the next bag after the last one goes. *)
PosicionesCoherentes ==
  \A k \in Cintas :
    posicion_libre[k] = (posicion_ocupada[k] + cantidad_elementos[k]) % Tamanio

(* robot_checkin inside poner_equipaje has a bag to put. *)
ArgumentoPresente == pc_productor # "fuera" => a_colocar \in Equipajes

(* The inductive invariant.  EsperaJustificada is not inductive: that      *)
(* every belt in use is full is known to robot_checkin only through the    *)
(* marks of the control memory, so that these have to agree with the belts *)
(* and the mark of robot_checkin with these.                               *)
Invariante ==
  /\ Tipos
  /\ UnPermisoPorProceso
  /\ EsperaJustificada
  /\ ControlCoherente
  /\ MarcaSinLugar
  /\ ElegidaConLugar
  /\ PosicionesCoherentes
  /\ ArgumentoPresente

-----------------------------------------------------------------------------
(* The permissions. *)

(* MAX_SCANNERS belts, numbered from 0. *)
LEMMA CintasFinitas == IsFiniteSet(Cintas) /\ 0 \in Cintas
  BY SuposicionScanner, FS_Interval DEF Cintas

(* The scanners that owe robot_checkin a signal can be counted. *)
LEMMA AvisandoFinito ==
  /\ IsFiniteSet(Avisando)
  /\ Cardinality(Avisando) \in Nat
  /\ Cardinality(Avisando) = 0 <=> Avisando = {}
  <1>1. IsFiniteSet(Avisando)
    BY CintasFinitas, FS_Subset DEF Avisando
  <1> QED  BY <1>1, FS_CardinalityType, FS_EmptySet

(* robot_checkin past wait_on has the only permission to put: it is not    *)
(* signalled, it left no mark, and no scanner owes it a signal.            *)
LEMMA PermisoEnMano ==
  ASSUME Invariante, pc_productor \in {"despierto", "eligio"}
  PROVE  semaforo_productor = 0 /\ productor_esperando = 0 /\ Avisando = {}
  <1>1. semaforo_productor + productor_esperando + 1 + Cardinality(Avisando) = 1
    BY DEF Invariante, UnPermisoPorProceso, EnMano, Avisando
  <1> QED  BY <1>1, AvisandoFinito DEF Invariante, Tipos

(* A mark of robot_checkin means that it is not signalled nor awake, and   *)
(* that no scanner owes it a signal.                                       *)
LEMMA PermisoEnLaMarca ==
  ASSUME Invariante, productor_esperando = 1
  PROVE  /\ semaforo_productor = 0 /\ Avisando = {}
         /\ pc_productor \notin {"despierto", "eligio"}
  <1> DEFINE m == EnMano(pc_productor, {"despierto", "eligio"})
  <1>1. /\ semaforo_productor + 1 + m + Cardinality(Avisando) = 1
        /\ m \in 0..1
    BY DEF Invariante, UnPermisoPorProceso, EnMano, Avisando
  <1>2. semaforo_productor = 0 /\ m = 0 /\ Cardinality(Avisando) = 0
    <2> HIDE DEF m
    <2> QED  BY <1>1, AvisandoFinito DEF Invariante, Tipos
  <1> QED  BY <1>2, AvisandoFinito DEF EnMano

(* Siguiente is the successor on the ring of slots and on that of belts. *)
LEMMA SiguienteEnRango ==
  /\ \A i \in 0..Tamanio - 1 : Siguiente(i, Tamanio) \in 0..Tamanio - 1
  /\ \A k \in Cintas : Siguiente(k, MaxScanners) \in Cintas
  BY SuposicionScanner, AvanceDePosicion DEF Siguiente, Cintas

-----------------------------------------------------------------------------
(* The invariant holds at the start and every action keeps it. *)

(* The initial contents of the memories and the semaphores. *)
LEMMA InvarianteInicial == Init => Invariante
  <1> SUFFICES ASSUME Init PROVE Invariante
    OBVIOUS
  <1> USE SuposicionScanner
  <1>1. Tipos
    BY CintasFinitas
       DEF Init, Tipos, Contenidos, PcProductor, PcConsumidor
  <1>2. UnPermisoPorProceso
    <2>1. Avisando = {}
      BY DEF Init, Avisando
    <2>2. Cardinality(Avisando) = 0
      BY <2>1, FS_EmptySet
    <2> QED  BY <2>2 DEF Init, UnPermisoPorProceso, EnMano, Avisando
  <1>3. PosicionesCoherentes
    <2>1. 0 + 0 = 0 /\ 0 % Tamanio = 0
      BY RestoDosVueltas
    <2> QED  BY <2>1 DEF Init, PosicionesCoherentes
  <1>4. EsperaJustificada /\ ControlCoherente /\ MarcaSinLugar
    BY DEF Init, EsperaJustificada, ControlCoherente, MarcaSinLugar,
       SinScanner, ConLugar, Llena
  <1> QED
    BY <1>1, <1>2, <1>3, <1>4 DEF Init, Invariante, ElegidaConLugar,
       ArgumentoPresente

(* A scanner that starts: its belt is empty, so that it has room, and the  *)
(* permission that was in the mark of robot_checkin is now in its hands.   *)
LEMMA ConservaRegistrar ==
  ASSUME Invariante, NEW k \in Cintas, Registrar(k)
  PROVE  Invariante'
  <1> USE SuposicionScanner DEF Invariante
  <1> DEFINE x == IF productor_esperando = 1 THEN "avisando" ELSE "fuera"
  <1>1. /\ pc_consumidor[k] = "apagado"
        /\ cinta_llena[k] \in {SinScanner, ConLugar, Llena}
        /\ cinta_llena' = [cinta_llena EXCEPT ![k] =
                             IF cinta_llena[k] = SinScanner THEN ConLugar
                             ELSE cinta_llena[k]]
        /\ productor_esperando' = 0
        /\ pc_consumidor' = [pc_consumidor EXCEPT ![k] = x]
        /\ UNCHANGED <<posicion_libre, posicion_ocupada, cantidad_elementos,
                       consumidor_esperando, vector_elementos,
                       semaforo_productor, semaforo_consumidor, pc_productor,
                       proxima_cinta, a_colocar, elemento>>
    BY DEF Registrar, Sigue, Tipos, cintas, semaforos, productor
  <1>2. Tipos'
    BY <1>1 DEF Tipos, PcConsumidor
  <1>3. UnPermisoPorProceso'
    <2>1. semaforo_productor + EnMano(pc_productor, {"despierto", "eligio"})
            + Cardinality(Avisando') = 1
      <3>1. CASE productor_esperando = 1
        <4>1. Avisando = {} /\ Avisando' = {k}
          BY SMTT(30), <1>1, <3>1, PermisoEnLaMarca DEF Avisando, Tipos
        <4>2. Cardinality(Avisando') = 1
          BY <4>1, FS_Singleton
        <4> QED  BY <3>1, <4>2, PermisoEnLaMarca DEF EnMano
      <3>2. CASE productor_esperando = 0
        <4>1. Avisando' = Avisando
          BY <1>1, <3>2 DEF Avisando, Tipos
        <4> DEFINE m == EnMano(pc_productor, {"despierto", "eligio"})
        <4>2. semaforo_productor + productor_esperando + m
                + Cardinality(Avisando) = 1
          BY DEF UnPermisoPorProceso, Avisando
        <4>3. m \in 0..1
          BY DEF EnMano
        <4> HIDE DEF m
        <4>4. semaforo_productor + m + Cardinality(Avisando) = 1
          BY <3>2, <4>2, <4>3, AvisandoFinito DEF Tipos
        <4> QED  BY <4>1, <4>4 DEF m
      <3> QED  BY <3>1, <3>2 DEF Tipos
    <2>2. \A j \in Cintas : EnMano(pc_consumidor'[j], {"despierto"})
                              = EnMano(pc_consumidor[j], {"despierto"})
      BY <1>1 DEF EnMano, Tipos
    <2> QED  BY <1>1, <2>1, <2>2 DEF UnPermisoPorProceso, Avisando, Tipos
  <1>4. ControlCoherente'
    BY <1>1 DEF ControlCoherente, Tipos, SinScanner, ConLugar, Llena
  <1>5. MarcaSinLugar'
    BY <1>1 DEF MarcaSinLugar
  <1>6. ElegidaConLugar'
    BY <1>1 DEF ElegidaConLugar, Tipos, SinScanner, ConLugar, Llena
  <1>7. EsperaJustificada'
    BY <1>1, <1>2, <1>4, <1>5, <1>6 DEF Tipos, ControlCoherente,
       MarcaSinLugar, ElegidaConLugar, EsperaJustificada
  <1>8. PosicionesCoherentes' /\ ArgumentoPresente'
    BY <1>1 DEF PosicionesCoherentes, ArgumentoPresente
  <1> QED  BY <1>2, <1>3, <1>4, <1>5, <1>6, <1>7, <1>8

(* signalize(0): the permission goes from the hands of the scanner to the  *)
(* semaphore of robot_checkin.                                             *)
LEMMA ConservaAvisarAlta ==
  ASSUME Invariante, NEW k \in Cintas, AvisarAlta(k)
  PROVE  Invariante'
  <1> USE DEF Invariante
  <1>1. /\ pc_consumidor[k] = "avisando"
        /\ semaforo_productor' = semaforo_productor + 1
        /\ pc_consumidor' = [pc_consumidor EXCEPT ![k] = "fuera"]
        /\ UNCHANGED <<posicion_libre, posicion_ocupada, cantidad_elementos,
                       consumidor_esperando, vector_elementos, cinta_llena,
                       productor_esperando, semaforo_consumidor, pc_productor,
                       proxima_cinta, a_colocar, elemento>>
    BY DEF AvisarAlta, Sigue, cintas, control, productor
  <1> DEFINE m == EnMano(pc_productor, {"despierto", "eligio"})
  <1>2. semaforo_productor + productor_esperando + m + Cardinality(Avisando) = 1
    BY DEF UnPermisoPorProceso, Avisando
  <1>3. Cardinality(Avisando') = Cardinality(Avisando) - 1
    <2>1. k \in Avisando /\ Avisando' = Avisando \ {k}
      BY <1>1 DEF Avisando, Tipos
    <2> QED  BY <2>1, FS_RemoveElement, AvisandoFinito
  <1>4. m \in 0..1
    BY DEF EnMano
  <1>5. Cardinality(Avisando) # 0
    BY <1>1, AvisandoFinito DEF Avisando
  <1>6. /\ semaforo_productor' \in 0..1
        /\ semaforo_productor' + productor_esperando + m
             + Cardinality(Avisando') = 1
    <2> HIDE DEF m
    <2> QED  BY <1>1, <1>2, <1>3, <1>4, <1>5, AvisandoFinito DEF Tipos
  <1>7. Tipos'
    BY <1>1, <1>6 DEF Tipos, PcConsumidor
  <1>8. UnPermisoPorProceso'
    <2>1. \A j \in Cintas : EnMano(pc_consumidor'[j], {"despierto"})
                              = EnMano(pc_consumidor[j], {"despierto"})
      BY <1>1 DEF EnMano, Tipos
    <2> QED  BY <1>1, <1>6, <2>1 DEF UnPermisoPorProceso, Avisando
  <1>9. ControlCoherente'
    BY <1>1 DEF ControlCoherente, Tipos
  <1>10. /\ EsperaJustificada' /\ MarcaSinLugar' /\ ElegidaConLugar'
         /\ PosicionesCoherentes' /\ ArgumentoPresente'
    BY <1>1 DEF EsperaJustificada, MarcaSinLugar, ElegidaConLugar,
       PosicionesCoherentes, ArgumentoPresente
  <1> QED  BY <1>7, <1>8, <1>9, <1>10

-----------------------------------------------------------------------------
(* robot_checkin in poner_equipaje, up to the choice of a belt: none of    *)
(* these steps touches a belt, the mark of one, or a scanner.  What is     *)
(* left to see in each is where the permission goes.                       *)
LEMMA ConservaEsperando ==
  ASSUME Invariante,
         UNCHANGED <<cintas, cinta_llena, semaforo_consumidor, consumidor>>,
         semaforo_productor' \in 0..1, productor_esperando' \in 0..1,
         pc_productor' \in PcProductor, proxima_cinta' \in Cintas,
         a_colocar' \in Contenidos,
         semaforo_productor' + productor_esperando'
           + EnMano(pc_productor', {"despierto", "eligio"})
           + Cardinality(Avisando) = 1,
         MarcaSinLugar', ElegidaConLugar', ArgumentoPresente'
  PROVE  Invariante'
  <1> USE DEF Invariante, cintas, consumidor
  <1>1. Tipos'
    BY DEF Tipos
  <1>2. UnPermisoPorProceso'
    BY DEF UnPermisoPorProceso, Avisando
  <1>3. ControlCoherente' /\ PosicionesCoherentes'
    BY DEF ControlCoherente, PosicionesCoherentes
  <1>4. EsperaJustificada'
    BY <1>1, <1>3 DEF Tipos, ControlCoherente, MarcaSinLugar,
       ElegidaConLugar, EsperaJustificada
  <1> QED  BY <1>1, <1>2, <1>3, <1>4

(* The call of poner_equipaje. *)
LEMMA ConservaLlamarPoner ==
  ASSUME Invariante, NEW e \in Equipajes, LlamarPoner(e)
  PROVE  Invariante'
  <1>1. /\ UNCHANGED <<cintas, cinta_llena, semaforo_consumidor, consumidor>>
        /\ UNCHANGED <<semaforo_productor, productor_esperando, proxima_cinta>>
        /\ pc_productor = "fuera" /\ pc_productor' = "esperando"
        /\ a_colocar' = e
    BY DEF LlamarPoner, control, semaforos
  <1>2. semaforo_productor' + productor_esperando'
          + EnMano(pc_productor', {"despierto", "eligio"})
          + Cardinality(Avisando) = 1
    <2>1. EnMano(pc_productor', {"despierto", "eligio"})
            = EnMano(pc_productor, {"despierto", "eligio"})
      BY <1>1 DEF EnMano
    <2> QED  BY <1>1, <2>1 DEF Invariante, UnPermisoPorProceso, Avisando
  <1>3. MarcaSinLugar' /\ ElegidaConLugar' /\ ArgumentoPresente'
    BY <1>1 DEF Invariante, MarcaSinLugar, ElegidaConLugar, ArgumentoPresente
  <1>4. Tipos
    BY DEF Invariante
  <1>5. /\ semaforo_productor' \in 0..1 /\ productor_esperando' \in 0..1
        /\ pc_productor' \in PcProductor /\ proxima_cinta' \in Cintas
        /\ a_colocar' \in Contenidos
    BY <1>1, <1>4 DEF Tipos, Contenidos, PcProductor
  <1> QED  BY <1>1, <1>2, <1>3, <1>5, ConservaEsperando

(* wait_on: the permission goes from the semaphore to the hands. *)
LEMMA ConservaEsperarProductor ==
  ASSUME Invariante, EsperarProductor
  PROVE  Invariante'
  <1>1. /\ UNCHANGED <<cintas, cinta_llena, semaforo_consumidor, consumidor>>
        /\ UNCHANGED <<productor_esperando, proxima_cinta, a_colocar>>
        /\ pc_productor = "esperando" /\ pc_productor' = "despierto"
        /\ semaforo_productor > 0
        /\ semaforo_productor' = semaforo_productor - 1
    BY DEF EsperarProductor, control
  <1>2. Tipos
    BY DEF Invariante
  <1>3. semaforo_productor' + productor_esperando'
          + EnMano(pc_productor', {"despierto", "eligio"})
          + Cardinality(Avisando) = 1
    <2>1. /\ EnMano(pc_productor, {"despierto", "eligio"}) = 0
          /\ EnMano(pc_productor', {"despierto", "eligio"}) = 1
      BY <1>1 DEF EnMano
    <2>2. semaforo_productor + productor_esperando + 0
            + Cardinality(Avisando) = 1
      BY <2>1 DEF Invariante, UnPermisoPorProceso, Avisando
    <2> QED  BY <1>1, <1>2, <2>1, <2>2, AvisandoFinito DEF Tipos
  <1>4. MarcaSinLugar' /\ ElegidaConLugar' /\ ArgumentoPresente'
    BY <1>1 DEF Invariante, MarcaSinLugar, ElegidaConLugar, ArgumentoPresente
  <1>5. /\ semaforo_productor' \in 0..1 /\ productor_esperando' \in 0..1
        /\ pc_productor' \in PcProductor /\ proxima_cinta' \in Cintas
        /\ a_colocar' \in Contenidos
    BY <1>1, <1>2 DEF Tipos, PcProductor
  <1> QED  BY <1>1, <1>3, <1>4, <1>5, ConservaEsperando

(* The choice of a belt marked as having room. *)
LEMMA ConservaElegir ==
  ASSUME Invariante, Elegir
  PROVE  Invariante'
  <1>1. PICK k \in Cintas : cinta_llena[k] = ConLugar /\ proxima_cinta' = k
    BY DEF Elegir, PrimeraConLugar
  <1>2. /\ UNCHANGED <<cintas, cinta_llena, semaforo_consumidor, consumidor>>
        /\ UNCHANGED <<semaforo_productor, productor_esperando, a_colocar>>
        /\ pc_productor = "despierto" /\ pc_productor' = "eligio"
    BY DEF Elegir, control, semaforos
  <1>3. semaforo_productor' + productor_esperando'
          + EnMano(pc_productor', {"despierto", "eligio"})
          + Cardinality(Avisando) = 1
    <2>1. EnMano(pc_productor', {"despierto", "eligio"})
            = EnMano(pc_productor, {"despierto", "eligio"})
      BY <1>2 DEF EnMano
    <2> QED  BY <1>2, <2>1 DEF Invariante, UnPermisoPorProceso, Avisando
  <1>4. MarcaSinLugar' /\ ElegidaConLugar' /\ ArgumentoPresente'
    BY <1>1, <1>2 DEF Invariante, MarcaSinLugar, ElegidaConLugar,
       ArgumentoPresente
  <1>5. Tipos
    BY DEF Invariante
  <1>6. /\ semaforo_productor' \in 0..1 /\ productor_esperando' \in 0..1
        /\ pc_productor' \in PcProductor /\ proxima_cinta' \in Cintas
        /\ a_colocar' \in Contenidos
    BY <1>1, <1>2, <1>5 DEF Tipos, PcProductor
  <1> QED  BY <1>2, <1>3, <1>4, <1>6, ConservaEsperando

(* No belt has room: the permission goes from the hands to the mark. *)
LEMMA ConservaNoPudoElegir ==
  ASSUME Invariante, NoPudoElegir
  PROVE  Invariante'
  <1>1. /\ UNCHANGED <<cintas, cinta_llena, semaforo_consumidor, consumidor>>
        /\ UNCHANGED <<semaforo_productor, proxima_cinta, a_colocar>>
        /\ pc_productor = "despierto" /\ pc_productor' = "esperando"
        /\ productor_esperando' = 1
        /\ \A k \in Cintas : cinta_llena[k] # ConLugar
    BY DEF NoPudoElegir, semaforos
  <1>2. /\ semaforo_productor = 0 /\ Avisando = {}
    BY <1>1, PermisoEnMano
  <1>3. semaforo_productor' + productor_esperando'
          + EnMano(pc_productor', {"despierto", "eligio"})
          + Cardinality(Avisando) = 1
    BY <1>1, <1>2, AvisandoFinito DEF EnMano
  <1>4. MarcaSinLugar' /\ ElegidaConLugar' /\ ArgumentoPresente'
    BY <1>1 DEF Invariante, MarcaSinLugar, ElegidaConLugar, ArgumentoPresente
  <1>5. Tipos
    BY DEF Invariante
  <1>6. /\ semaforo_productor' \in 0..1 /\ productor_esperando' \in 0..1
        /\ pc_productor' \in PcProductor /\ proxima_cinta' \in Cintas
        /\ a_colocar' \in Contenidos
    BY <1>1, <1>5 DEF Tipos, PcProductor
  <1> QED  BY <1>1, <1>3, <1>4, <1>6, ConservaEsperando

(* Putting the bag: the belt chosen has room, it becomes marked as full    *)
(* when the last slot is taken, and a scanner asleep gets the permission   *)
(* that was in its mark.                                                   *)
LEMMA ConservaColocar ==
  ASSUME Invariante, Colocar
  PROVE  Invariante'
  <1> USE SuposicionScanner DEF Invariante
  <1> DEFINE k == proxima_cinta
             n == cantidad_elementos[k] + 1
  <1>1. /\ pc_productor = "eligio" /\ pc_productor' = "fuera"
        /\ k \in Cintas /\ n \in 1..Tamanio
        /\ cinta_llena[k] = ConLugar
        /\ cantidad_elementos' = [cantidad_elementos EXCEPT ![k] = n]
        /\ cantidad_elementos'[k] = n
        /\ posicion_libre' =
             [posicion_libre EXCEPT ![k] = Siguiente(posicion_libre[k], Tamanio)]
        /\ vector_elementos' =
             [vector_elementos EXCEPT ![k] =
                [vector_elementos[k] EXCEPT ![posicion_libre[k]] = a_colocar]]
        /\ DespertarConsumidor(k) /\ MarcarLlena(k)
        /\ proxima_cinta' = Siguiente(proxima_cinta, MaxScanners)
        /\ semaforo_productor' = semaforo_productor + 1
        /\ UNCHANGED <<posicion_ocupada, productor_esperando, a_colocar,
                       pc_consumidor, elemento>>
    BY DEF Colocar, Tipos, EsperaJustificada, ElegidaConLugar, consumidor
  <1>2. semaforo_productor = 0 /\ productor_esperando = 0 /\ Avisando = {}
    BY <1>1, PermisoEnMano
  <1>3. cinta_llena' = IF n = Tamanio
                       THEN [cinta_llena EXCEPT ![k] = Llena]
                       ELSE cinta_llena
    BY <1>1 DEF MarcarLlena
  <1>4. /\ semaforo_consumidor' \in [Cintas -> 0..1]
        /\ consumidor_esperando' \in [Cintas -> 0..1]
        /\ consumidor_esperando'[k] = 0
        /\ \A j \in Cintas :
             semaforo_consumidor'[j] + consumidor_esperando'[j]
               = semaforo_consumidor[j] + consumidor_esperando[j]
        /\ \A j \in Cintas \ {k} :
             consumidor_esperando'[j] = consumidor_esperando[j]
    <2>1. CASE consumidor_esperando[k] = 1
      <3>1. n = 1
        BY <1>1, <2>1 DEF EsperaJustificada
      <3>2. semaforo_consumidor[k] = 0
        <4> DEFINE m == EnMano(pc_consumidor[k], {"despierto"})
        <4>1. semaforo_consumidor[k] + consumidor_esperando[k] + m = 1
          BY <1>1 DEF UnPermisoPorProceso
        <4>2. m \in 0..1
          BY DEF EnMano
        <4>3. semaforo_consumidor[k] \in 0..1
          BY <1>1 DEF Tipos
        <4> HIDE DEF m
        <4> QED  BY <2>1, <4>1, <4>2, <4>3
      <3>3. /\ semaforo_consumidor' =
                  [semaforo_consumidor EXCEPT ![k] = semaforo_consumidor[k] + 1]
            /\ consumidor_esperando' = [consumidor_esperando EXCEPT ![k] = 0]
        BY <1>1, <2>1, <3>1 DEF DespertarConsumidor
      <3> QED  BY <1>1, <2>1, <3>2, <3>3 DEF Tipos
    <2>2. CASE consumidor_esperando[k] = 0
      <3>1. UNCHANGED <<semaforo_consumidor, consumidor_esperando>>
        BY <1>1, <2>2 DEF DespertarConsumidor
      <3> QED  BY <1>1, <2>2, <3>1 DEF Tipos
    <2> QED  BY <1>1, <2>1, <2>2 DEF Tipos
  <1>5. Tipos'
    <2>1. posicion_libre' \in [Cintas -> 0..Tamanio - 1]
      BY <1>1, SiguienteEnRango DEF Tipos
    <2>2. cantidad_elementos' \in [Cintas -> 0..Tamanio]
      BY <1>1 DEF Tipos
    <2>3. vector_elementos' \in [Cintas -> [0..Tamanio - 1 -> Contenidos]]
      BY <1>1 DEF Tipos
    <2>4. cinta_llena' \in [Cintas -> {SinScanner, ConLugar, Llena}]
      BY <1>3 DEF Tipos
    <2>5. proxima_cinta' \in Cintas
      BY <1>1, SiguienteEnRango
    <2> QED  BY <1>1, <1>2, <1>4, <2>1, <2>2, <2>3, <2>4, <2>5
             DEF Tipos, PcProductor
  <1>6. UnPermisoPorProceso'
    <2>1. semaforo_productor' + productor_esperando'
            + EnMano(pc_productor', {"despierto", "eligio"})
            + Cardinality(Avisando') = 1
      <3>1. Avisando' = {} /\ Cardinality(Avisando') = 0
        BY <1>1, <1>2, FS_EmptySet DEF Avisando
      <3> QED  BY <1>1, <1>2, <3>1 DEF EnMano
    <2>2. ASSUME NEW j \in Cintas
          PROVE  semaforo_consumidor'[j] + consumidor_esperando'[j]
                   + EnMano(pc_consumidor[j], {"despierto"}) = 1
      BY <1>4 DEF UnPermisoPorProceso
    <2> QED  BY <1>1, <2>1, <2>2 DEF UnPermisoPorProceso, Avisando
  <1>7. ControlCoherente'
    BY <1>1, <1>3 DEF ControlCoherente, Tipos, SinScanner, ConLugar, Llena
  <1>8. MarcaSinLugar' /\ ElegidaConLugar' /\ ArgumentoPresente'
    BY <1>1, <1>2 DEF MarcaSinLugar, ElegidaConLugar, ArgumentoPresente
  <1>9. EsperaJustificada'
    <2>1. \A j \in Cintas :
            consumidor_esperando'[j] = 1 => cantidad_elementos'[j] = 0
      BY <1>1, <1>4 DEF EsperaJustificada, Tipos
    <2> QED  BY <1>1, <1>2, <2>1 DEF EsperaJustificada
  <1>10. PosicionesCoherentes'
    <2>1. ASSUME NEW j \in Cintas
          PROVE  posicion_libre'[j] =
                   (posicion_ocupada[j] + cantidad_elementos'[j]) % Tamanio
      <3>1. CASE j = k
        <4>1. /\ posicion_ocupada[k] \in 0..Tamanio - 1
              /\ cantidad_elementos[k] \in 0..Tamanio
              /\ posicion_libre[k] = (posicion_ocupada[k]
                                        + cantidad_elementos[k]) % Tamanio
          BY <1>1 DEF PosicionesCoherentes, Tipos
        <4>2. ((posicion_libre[k]) + 1) % Tamanio =
                (posicion_ocupada[k] + cantidad_elementos[k] + 1) % Tamanio
          BY <4>1, AvanceCoherente
        <4>3. posicion_libre'[k] = ((posicion_libre[k]) + 1) % Tamanio
          BY <1>1 DEF Siguiente, Tipos
        <4>4. posicion_ocupada[k] + cantidad_elementos[k] + 1
                = posicion_ocupada[k] + cantidad_elementos'[k]
          BY <1>1, <4>1
        <4> QED  BY <3>1, <4>2, <4>3, <4>4
      <3>2. CASE j # k
        BY <1>1, <3>2 DEF PosicionesCoherentes, Tipos
      <3> QED  BY <3>1, <3>2
    <2> QED  BY <1>1, <2>1 DEF PosicionesCoherentes
  <1> QED  BY <1>5, <1>6, <1>7, <1>8, <1>9, <1>10

-----------------------------------------------------------------------------
(* A scanner in sacar_equipaje. *)

(* What the end of its turn does to its permission: it was in its hands    *)
(* and goes to its mark, if the belt is empty, or to its semaphore.        *)
LEMMA TurnoConsumidor ==
  ASSUME Invariante, NEW k \in Cintas, pc_consumidor[k] = "despierto",
         TerminarTurno(k)
  PROVE  /\ semaforo_consumidor' \in [Cintas -> 0..1]
         /\ consumidor_esperando' \in [Cintas -> 0..1]
         /\ semaforo_consumidor'[k] + consumidor_esperando'[k] = 1
         /\ consumidor_esperando'[k] = 1 => cantidad_elementos'[k] = 0
         /\ \A j \in Cintas \ {k} :
              /\ semaforo_consumidor'[j] = semaforo_consumidor[j]
              /\ consumidor_esperando'[j] = consumidor_esperando[j]
  <1> USE DEF Invariante, Tipos
  <1>1. semaforo_consumidor[k] = 0 /\ consumidor_esperando[k] = 0
    BY DEF UnPermisoPorProceso, EnMano
  <1>2. CASE cantidad_elementos'[k] = 0
    <2>1. /\ consumidor_esperando' = [consumidor_esperando EXCEPT ![k] = 1]
          /\ semaforo_consumidor' = semaforo_consumidor
      BY <1>2 DEF TerminarTurno
    <2> QED  BY <1>1, <1>2, <2>1
  <1>3. CASE cantidad_elementos'[k] # 0
    <2>1. /\ semaforo_consumidor' = [semaforo_consumidor EXCEPT ![k] = 1]
          /\ consumidor_esperando' = consumidor_esperando
      BY <1>1, <1>3 DEF TerminarTurno
    <2> QED  BY <1>1, <1>3, <2>1
  <1> QED  BY <1>2, <1>3

(* The call of sacar_equipaje. *)
LEMMA ConservaLlamarSacar ==
  ASSUME Invariante, NEW k \in Cintas, LlamarSacar(k)
  PROVE  Invariante'
  <1> USE DEF Invariante
  <1>1. /\ pc_consumidor[k] = "fuera"
        /\ pc_consumidor' = [pc_consumidor EXCEPT ![k] = "esperando"]
        /\ UNCHANGED <<posicion_libre, posicion_ocupada, cantidad_elementos,
                       consumidor_esperando, vector_elementos, cinta_llena,
                       productor_esperando, semaforo_productor,
                       semaforo_consumidor, pc_productor, proxima_cinta,
                       a_colocar, elemento>>
    BY DEF LlamarSacar, Sigue, cintas, control, semaforos, productor
  <1>2. Tipos'
    BY <1>1 DEF Tipos, PcConsumidor
  <1>3. UnPermisoPorProceso'
    <2>1. Avisando' = Avisando
      BY <1>1 DEF Avisando, Tipos
    <2>2. \A j \in Cintas : EnMano(pc_consumidor'[j], {"despierto"})
                              = EnMano(pc_consumidor[j], {"despierto"})
      BY <1>1 DEF EnMano, Tipos
    <2> QED  BY <1>1, <2>1, <2>2 DEF UnPermisoPorProceso, Avisando
  <1>4. ControlCoherente'
    BY <1>1 DEF ControlCoherente, Tipos
  <1>5. /\ EsperaJustificada' /\ MarcaSinLugar' /\ ElegidaConLugar'
        /\ PosicionesCoherentes' /\ ArgumentoPresente'
    BY <1>1 DEF EsperaJustificada, MarcaSinLugar, ElegidaConLugar,
       PosicionesCoherentes, ArgumentoPresente
  <1> QED  BY <1>2, <1>3, <1>4, <1>5

(* wait_on: the permission goes from the semaphore to the hands. *)
LEMMA ConservaEsperarConsumidor ==
  ASSUME Invariante, NEW k \in Cintas, EsperarConsumidor(k)
  PROVE  Invariante'
  <1> USE DEF Invariante
  <1>1. /\ pc_consumidor[k] = "esperando" /\ semaforo_consumidor[k] > 0
        /\ pc_consumidor' = [pc_consumidor EXCEPT ![k] = "despierto"]
        /\ semaforo_consumidor' =
             [semaforo_consumidor EXCEPT ![k] = semaforo_consumidor[k] - 1]
        /\ UNCHANGED <<posicion_libre, posicion_ocupada, cantidad_elementos,
                       consumidor_esperando, vector_elementos, cinta_llena,
                       productor_esperando, semaforo_productor, pc_productor,
                       proxima_cinta, a_colocar, elemento>>
    BY DEF EsperarConsumidor, Sigue, cintas, control, productor
  <1>2. Tipos'
    BY <1>1 DEF Tipos, PcConsumidor
  <1>3. UnPermisoPorProceso'
    <2>1. Avisando' = Avisando
      BY <1>1 DEF Avisando, Tipos
    <2>2. ASSUME NEW j \in Cintas
          PROVE  semaforo_consumidor'[j] + consumidor_esperando[j]
                   + EnMano(pc_consumidor'[j], {"despierto"}) = 1
      <3>1. semaforo_consumidor[j] + consumidor_esperando[j]
              + EnMano(pc_consumidor[j], {"despierto"}) = 1
        BY DEF UnPermisoPorProceso
      <3>2. CASE j = k
        <4>1. /\ EnMano(pc_consumidor[k], {"despierto"}) = 0
              /\ EnMano(pc_consumidor'[k], {"despierto"}) = 1
          BY <1>1 DEF EnMano, Tipos
        <4>2. semaforo_consumidor'[k] = semaforo_consumidor[k] - 1
          BY <1>1 DEF Tipos
        <4>3. semaforo_consumidor[k] \in 0..1 /\ consumidor_esperando[k] \in 0..1
          BY DEF Tipos
        <4> QED  BY <3>1, <3>2, <4>1, <4>2, <4>3
      <3>3. CASE j # k
        BY <1>1, <3>1, <3>3 DEF Tipos
      <3> QED  BY <3>2, <3>3
    <2> QED  BY <1>1, <2>1, <2>2 DEF UnPermisoPorProceso, Avisando
  <1>4. ControlCoherente'
    BY <1>1 DEF ControlCoherente, Tipos
  <1>5. /\ EsperaJustificada' /\ MarcaSinLugar' /\ ElegidaConLugar'
        /\ PosicionesCoherentes' /\ ArgumentoPresente'
    BY <1>1 DEF EsperaJustificada, MarcaSinLugar, ElegidaConLugar,
       PosicionesCoherentes, ArgumentoPresente
  <1> QED  BY <1>2, <1>3, <1>4, <1>5

(* A turn of the loop that finds the belt empty: the permission goes from  *)
(* the hands to the mark.                                                  *)
LEMMA ConservaNoPudoExtraer ==
  ASSUME Invariante, NEW k \in Cintas, NoPudoExtraer(k)
  PROVE  Invariante'
  <1> USE DEF Invariante
  <1>1. /\ pc_consumidor[k] = "despierto" /\ TerminarTurno(k)
        /\ pc_consumidor' = [pc_consumidor EXCEPT ![k] = "esperando"]
        /\ UNCHANGED <<posicion_libre, posicion_ocupada, cantidad_elementos,
                       vector_elementos, cinta_llena, productor_esperando,
                       semaforo_productor, pc_productor, proxima_cinta,
                       a_colocar, elemento>>
    BY DEF NoPudoExtraer, Sigue, control, productor
  <1>2. /\ semaforo_consumidor' \in [Cintas -> 0..1]
        /\ consumidor_esperando' \in [Cintas -> 0..1]
        /\ semaforo_consumidor'[k] + consumidor_esperando'[k] = 1
        /\ consumidor_esperando'[k] = 1 => cantidad_elementos'[k] = 0
        /\ \A j \in Cintas \ {k} :
             /\ semaforo_consumidor'[j] = semaforo_consumidor[j]
             /\ consumidor_esperando'[j] = consumidor_esperando[j]
    BY <1>1, TurnoConsumidor
  <1>3. Tipos'
    BY <1>1, <1>2 DEF Tipos, PcConsumidor
  <1>4. UnPermisoPorProceso'
    <2>1. Avisando' = Avisando
      BY <1>1 DEF Avisando, Tipos
    <2>2. ASSUME NEW j \in Cintas
          PROVE  semaforo_consumidor'[j] + consumidor_esperando'[j]
                   + EnMano(pc_consumidor'[j], {"despierto"}) = 1
      BY <1>1, <1>2 DEF EnMano, Tipos, UnPermisoPorProceso
    <2> QED  BY <1>1, <2>1, <2>2 DEF UnPermisoPorProceso, Avisando
  <1>5. ControlCoherente'
    BY <1>1 DEF ControlCoherente, Tipos
  <1>6. EsperaJustificada'
    BY <1>1, <1>2 DEF EsperaJustificada
  <1>7. /\ MarcaSinLugar' /\ ElegidaConLugar'
        /\ PosicionesCoherentes' /\ ArgumentoPresente'
    BY <1>1 DEF MarcaSinLugar, ElegidaConLugar, PosicionesCoherentes,
       ArgumentoPresente
  <1> QED  BY <1>3, <1>4, <1>5, <1>6, <1>7

(* The control memory after a bag is taken: a full belt stops being marked *)
(* so, and only then; the permission in the mark of robot_checkin goes to  *)
(* its semaphore.                                                          *)
LEMMA DespiertaProductor ==
  ASSUME Invariante, NEW k \in Cintas, cantidad_elementos[k] > 0,
         cantidad_elementos'[k] = cantidad_elementos[k] - 1,
         DespertarProductor(k)
  PROVE  /\ semaforo_productor' \in 0..1 /\ productor_esperando' \in 0..1
         /\ semaforo_productor' + productor_esperando'
              = semaforo_productor + productor_esperando
         /\ cinta_llena' = IF cantidad_elementos[k] = Tamanio
                           THEN [cinta_llena EXCEPT ![k] = ConLugar]
                           ELSE cinta_llena
         /\ productor_esperando' = 1 =>
              productor_esperando = 1 /\ cantidad_elementos[k] # Tamanio
  <1> USE SuposicionScanner DEF Invariante
  <1>1. cantidad_elementos[k] = Tamanio <=> cinta_llena[k] = Llena
    <2>1. /\ cinta_llena[k] \in {SinScanner, ConLugar, Llena}
          /\ cantidad_elementos[k] \in 0..Tamanio
      BY DEF Tipos
    <2>2. /\ cinta_llena[k] = Llena => cantidad_elementos[k] = Tamanio
          /\ cinta_llena[k] = ConLugar => cantidad_elementos[k] < Tamanio
          /\ cinta_llena[k] = SinScanner => cantidad_elementos[k] = 0
      BY DEF ControlCoherente
    <2> QED  BY <2>1, <2>2
  <1>2. /\ cantidad_elementos[k] \in 0..Tamanio
        /\ semaforo_productor \in 0..1 /\ productor_esperando \in 0..1
    BY DEF Tipos
  <1>3. CASE cantidad_elementos[k] = Tamanio
    <2>1. productor_esperando = 1 => semaforo_productor = 0
      BY PermisoEnLaMarca
    <2>2. /\ cinta_llena' = [cinta_llena EXCEPT ![k] = ConLugar]
          /\ semaforo_productor' = semaforo_productor + productor_esperando
          /\ productor_esperando' = 0
      BY <1>1, <1>3 DEF DespertarProductor
    <2> QED  BY <1>2, <1>3, <2>1, <2>2
  <1>4. CASE cantidad_elementos[k] # Tamanio
    <2>1. UNCHANGED <<cinta_llena, productor_esperando, semaforo_productor>>
      BY <1>1, <1>4 DEF DespertarProductor, control
    <2> QED  BY <1>2, <1>4, <2>1
  <1> QED  BY <1>3, <1>4

(* Taking a bag: a belt that was full is marked as having room again.      *)
LEMMA ConservaExtraer ==
  ASSUME Invariante, NEW k \in Cintas, Extraer(k)
  PROVE  Invariante'
  <1> USE SuposicionScanner DEF Invariante
  <1> DEFINE n == cantidad_elementos[k] - 1
  <1>1. /\ pc_consumidor[k] = "despierto" /\ TerminarTurno(k)
        /\ cantidad_elementos[k] > 0 /\ n \in 0..Tamanio - 1
        /\ cantidad_elementos' = [cantidad_elementos EXCEPT ![k] = n]
        /\ cantidad_elementos'[k] = n
        /\ elemento' = [elemento EXCEPT ![k] =
                          vector_elementos[k][posicion_ocupada[k]]]
        /\ posicion_ocupada' = [posicion_ocupada EXCEPT ![k] =
                                  Siguiente(posicion_ocupada[k], Tamanio)]
        /\ DespertarProductor(k)
        /\ pc_consumidor' = [pc_consumidor EXCEPT ![k] = "fuera"]
        /\ UNCHANGED <<posicion_libre, vector_elementos, pc_productor,
                       proxima_cinta, a_colocar>>
    BY DEF Extraer, Sigue, Tipos, productor
  <1>2. /\ semaforo_consumidor' \in [Cintas -> 0..1]
        /\ consumidor_esperando' \in [Cintas -> 0..1]
        /\ semaforo_consumidor'[k] + consumidor_esperando'[k] = 1
        /\ consumidor_esperando'[k] = 1 => cantidad_elementos'[k] = 0
        /\ \A j \in Cintas \ {k} :
             /\ semaforo_consumidor'[j] = semaforo_consumidor[j]
             /\ consumidor_esperando'[j] = consumidor_esperando[j]
    BY <1>1, TurnoConsumidor
  <1>3. /\ semaforo_productor' \in 0..1 /\ productor_esperando' \in 0..1
        /\ semaforo_productor' + productor_esperando'
             = semaforo_productor + productor_esperando
        /\ cinta_llena' = IF cantidad_elementos[k] = Tamanio
                          THEN [cinta_llena EXCEPT ![k] = ConLugar]
                          ELSE cinta_llena
        /\ productor_esperando' = 1 =>
             productor_esperando = 1 /\ cantidad_elementos[k] # Tamanio
    BY <1>1, DespiertaProductor
  <1>4. Tipos'
    <2>1. posicion_ocupada' \in [Cintas -> 0..Tamanio - 1]
      BY <1>1, SiguienteEnRango DEF Tipos
    <2>2. cantidad_elementos' \in [Cintas -> 0..Tamanio]
      BY <1>1 DEF Tipos
    <2>3. cinta_llena' \in [Cintas -> {SinScanner, ConLugar, Llena}]
      BY <1>3 DEF Tipos
    <2>4. elemento' \in [Cintas -> Contenidos]
      BY <1>1 DEF Tipos
    <2>5. pc_consumidor' \in [Cintas -> PcConsumidor]
      BY <1>1 DEF Tipos, PcConsumidor
    <2> QED  BY <1>1, <1>2, <1>3, <2>1, <2>2, <2>3, <2>4, <2>5 DEF Tipos
  <1>5. UnPermisoPorProceso'
    <2>1. Avisando' = Avisando
      BY <1>1 DEF Avisando, Tipos
    <2>2. semaforo_productor' + productor_esperando'
            + EnMano(pc_productor, {"despierto", "eligio"})
            + Cardinality(Avisando) = 1
      BY <1>3 DEF UnPermisoPorProceso, Avisando
    <2>3. ASSUME NEW j \in Cintas
          PROVE  semaforo_consumidor'[j] + consumidor_esperando'[j]
                   + EnMano(pc_consumidor'[j], {"despierto"}) = 1
      <3>1. semaforo_consumidor[j] + consumidor_esperando[j]
              + EnMano(pc_consumidor[j], {"despierto"}) = 1
        BY DEF UnPermisoPorProceso
      <3>2. CASE j = k
        BY <1>1, <1>2, <3>2 DEF EnMano, Tipos
      <3>3. CASE j # k
        BY <1>1, <1>2, <3>1, <3>3 DEF Tipos
      <3> QED  BY <3>2, <3>3
    <2> QED  BY <1>1, <2>1, <2>2, <2>3 DEF UnPermisoPorProceso, Avisando
  <1>6. ControlCoherente'
    <2>1. ASSUME NEW j \in Cintas
          PROVE  /\ cinta_llena'[j] = Llena => cantidad_elementos'[j] = Tamanio
                 /\ cinta_llena'[j] = ConLugar =>
                      cantidad_elementos'[j] < Tamanio
                 /\ cinta_llena'[j] = SinScanner =>
                      /\ cantidad_elementos'[j] = 0
                      /\ pc_consumidor'[j] = "apagado"
      <3>1. CASE j = k
        <4>1. cinta_llena[k] # SinScanner
          BY <1>1 DEF ControlCoherente
        <4>2. cinta_llena'[k] = ConLugar
          BY <1>3, <4>1 DEF ControlCoherente, Tipos
        <4> QED  BY <1>1, <3>1, <4>2 DEF SinScanner, ConLugar, Llena
      <3>2. CASE j # k
        <4>1. /\ cinta_llena'[j] = cinta_llena[j]
              /\ cantidad_elementos'[j] = cantidad_elementos[j]
              /\ pc_consumidor'[j] = pc_consumidor[j]
          BY <1>1, <1>3, <3>2 DEF Tipos
        <4> QED  BY <4>1 DEF ControlCoherente
      <3> QED  BY <3>1, <3>2
    <2> QED  BY <2>1 DEF ControlCoherente
  <1>7. MarcaSinLugar'
    BY <1>3 DEF MarcaSinLugar
  <1>8. ElegidaConLugar'
    <2>1. proxima_cinta \in Cintas
      BY DEF Tipos
    <2> QED  BY <1>1, <1>3, <2>1 DEF ElegidaConLugar, Tipos
  <1>9. EsperaJustificada'
    <2>1. \A j \in Cintas :
            consumidor_esperando'[j] = 1 => cantidad_elementos'[j] = 0
      BY <1>1, <1>2 DEF EsperaJustificada, Tipos
    <2>2. productor_esperando' = 1 =>
            \A j \in Cintas :
              cinta_llena'[j] # SinScanner => cantidad_elementos'[j] = Tamanio
      BY <1>4, <1>6, <1>7 DEF Tipos, ControlCoherente, MarcaSinLugar
    <2>3. pc_productor' = "eligio" => cantidad_elementos'[proxima_cinta'] < Tamanio
      BY <1>4, <1>6, <1>8 DEF Tipos, ControlCoherente, ElegidaConLugar
    <2> QED  BY <2>1, <2>2, <2>3 DEF EsperaJustificada
  <1>10. PosicionesCoherentes'
    <2>1. ASSUME NEW j \in Cintas
          PROVE  posicion_libre[j] =
                   (posicion_ocupada'[j] + cantidad_elementos'[j]) % Tamanio
      <3>1. CASE j = k
        <4>1. /\ posicion_ocupada[k] \in 0..Tamanio - 1
              /\ cantidad_elementos[k] \in 0..Tamanio
              /\ posicion_libre[k] = (posicion_ocupada[k]
                                        + cantidad_elementos[k]) % Tamanio
          BY DEF PosicionesCoherentes, Tipos
        <4>2. (((posicion_ocupada[k] + 1) % Tamanio)
                 + (cantidad_elementos[k] - 1)) % Tamanio =
                (posicion_ocupada[k] + cantidad_elementos[k]) % Tamanio
          <5>1. ASSUME NEW o \in 0..Tamanio - 1, NEW c \in 0..Tamanio, c > 0
                PROVE  (((o + 1) % Tamanio) + (c - 1)) % Tamanio
                         = (o + c) % Tamanio
            BY <5>1, AvanceCoherente
          <5> QED  BY <1>1, <4>1, <5>1
        <4>3. posicion_ocupada'[k] = (posicion_ocupada[k] + 1) % Tamanio
          BY <1>1 DEF Siguiente, Tipos
        <4> QED  BY <1>1, <3>1, <4>1, <4>2, <4>3
      <3>2. CASE j # k
        BY <1>1, <3>2 DEF PosicionesCoherentes, Tipos
      <3> QED  BY <3>1, <3>2
    <2> QED  BY <1>1, <2>1 DEF PosicionesCoherentes
  <1>11. ArgumentoPresente'
    BY <1>1 DEF ArgumentoPresente
  <1> QED  BY <1>4, <1>5, <1>6, <1>7, <1>8, <1>9, <1>10, <1>11

-----------------------------------------------------------------------------
(* Every step of robot_checkin and of the scanners keeps the invariant, so *)
(* that it holds from Init on.                                             *)
THEOREM InvarianteSiempre == Spec => []Invariante
  <1>1. Invariante /\ [Next]_vars => Invariante'
    <2> SUFFICES ASSUME Invariante, [Next]_vars PROVE Invariante'
      OBVIOUS
    <2>1. ASSUME NEW e \in Equipajes, LlamarPoner(e) PROVE Invariante'
      BY <2>1, ConservaLlamarPoner
    <2>2. CASE PasoProductor
      BY <2>2, ConservaEsperarProductor, ConservaElegir, ConservaNoPudoElegir,
         ConservaColocar DEF PasoProductor
    <2>3. ASSUME NEW k \in Cintas, Registrar(k) \/ PasoConsumidor(k)
          PROVE  Invariante'
      BY <2>3, ConservaRegistrar, ConservaAvisarAlta, ConservaLlamarSacar,
         ConservaEsperarConsumidor, ConservaExtraer, ConservaNoPudoExtraer
         DEF PasoConsumidor
    <2>4. CASE UNCHANGED vars
      <3> USE <2>4 DEF vars, cintas, control, semaforos, productor, consumidor,
                       Invariante
      <3>1. Tipos'
        BY DEF Tipos
      <3>2. UnPermisoPorProceso' /\ EsperaJustificada'
        BY DEF UnPermisoPorProceso, EsperaJustificada
      <3>3. ControlCoherente' /\ MarcaSinLugar' /\ ElegidaConLugar'
        BY DEF ControlCoherente, MarcaSinLugar, ElegidaConLugar
      <3>4. PosicionesCoherentes' /\ ArgumentoPresente'
        BY DEF PosicionesCoherentes, ArgumentoPresente
      <3> QED  BY <3>1, <3>2, <3>3, <3>4
    <2> QED  BY <2>1, <2>2, <2>3, <2>4 DEF Next
  <1> QED  BY <1>1, InvarianteInicial, PTL DEF Spec

(* No signal between robot_checkin and the scanners is lost or duplicated. *)
THEOREM PermisosSiempre == Spec => []UnPermisoPorProceso
  <1>1. Invariante => UnPermisoPorProceso
    BY DEF Invariante
  <1> QED  BY <1>1, InvarianteSiempre, PTL

(* robot_checkin sleeps only while every belt in use is full, a scanner    *)
(* only while its belt is empty, and the belt chosen has room when the bag *)
(* is put, though nobody looks again.                                      *)
THEOREM EsperasSiempre == Spec => []EsperaJustificada
  <1>1. Invariante => EsperaJustificada
    BY DEF Invariante
  <1> QED  BY <1>1, InvarianteSiempre, PTL

-----------------------------------------------------------------------------
(* The refinement: what each belt holds, read from posicion_ocupada on, is *)
(* the queue of its scanner.                                               *)

(* The contents of each belt, before and after a step, as a ring in order. *)
LEMMA ContenidoEnOrden ==
  /\ Contenido =
       [k \in Cintas |-> EnOrden(vector_elementos[k], posicion_ocupada[k],
                                 cantidad_elementos[k], Tamanio)]
  /\ Contenido' =
       [k \in Cintas |-> EnOrden(vector_elementos'[k], posicion_ocupada'[k],
                                 cantidad_elementos'[k], Tamanio)]
  BY DEF Contenido, EnOrden

(* The bag put is the last one of the belt chosen, which had room, and the *)
(* other belts stay as they are.                                           *)
LEMMA ColocarEsPoner ==
  ASSUME Invariante, Colocar
  PROVE  Colas!Poner(a_colocar)
  <1> USE SuposicionScanner DEF Invariante
  <1> DEFINE k == proxima_cinta
             v == vector_elementos[k]
             o == posicion_ocupada[k]
             n == cantidad_elementos[k]
             e == a_colocar
  <1>1. /\ k \in Cintas
        /\ o \in 0..Tamanio - 1 /\ n \in 0..Tamanio - 1
        /\ v \in [0..Tamanio - 1 -> Contenidos]
        /\ vector_elementos' =
             [vector_elementos EXCEPT ![k] = [v EXCEPT ![(o + n) % Tamanio] = e]]
        /\ cantidad_elementos' = [cantidad_elementos EXCEPT ![k] = n + 1]
        /\ UNCHANGED <<posicion_ocupada, elemento>>
    <2>1. /\ pc_productor = "eligio" /\ k \in Cintas
          /\ o \in 0..Tamanio - 1 /\ n \in 0..Tamanio
          /\ v \in [0..Tamanio - 1 -> Contenidos]
      BY DEF Colocar, Tipos
    <2>2. n < Tamanio
      BY <2>1 DEF EsperaJustificada
    <2>3. posicion_libre[k] = (o + n) % Tamanio
      BY <2>1 DEF PosicionesCoherentes
    <2> QED  BY <2>1, <2>2, <2>3 DEF Colocar, consumidor
  <1>2. Coloca(v, vector_elementos'[k], o, n, Tamanio, e)
    BY <1>1 DEF Coloca, Tipos
  <1>3. EnOrden(vector_elementos'[k], o, n + 1, Tamanio)
          = Append(EnOrden(v, o, n, Tamanio), e)
    BY <1>2, ColocarAgrega
  <1>4. Contenido' = [Contenido EXCEPT ![k] = Append(Contenido[k], e)]
    <2>1. Contenido[k] = EnOrden(v, o, n, Tamanio)
      BY <1>1, ContenidoEnOrden
    <2>2. ASSUME NEW j \in Cintas
          PROVE  EnOrden(vector_elementos'[j], posicion_ocupada'[j],
                         cantidad_elementos'[j], Tamanio)
                   = IF j = k THEN Append(Contenido[k], e) ELSE Contenido[j]
      <3>1. CASE j = k
        <4>1. cantidad_elementos'[k] = n + 1 /\ posicion_ocupada'[k] = o
          BY <1>1 DEF Tipos
        <4> QED  BY <1>3, <2>1, <3>1, <4>1
      <3>2. CASE j # k
        <4>1. /\ vector_elementos'[j] = vector_elementos[j]
              /\ cantidad_elementos'[j] = cantidad_elementos[j]
              /\ posicion_ocupada'[j] = posicion_ocupada[j]
          BY <1>1, <3>2 DEF Tipos
        <4> QED  BY <3>2, <4>1, ContenidoEnOrden
      <3> QED  BY <3>1, <3>2
    <2> HIDE DEF k, v, o, n, e
    <2> QED  BY <2>2, ContenidoEnOrden, Zenon
  <1>5. Len(Contenido[k]) < Tamanio
    <2>1. Contenido[k] = EnOrden(v, o, n, Tamanio) /\ n \in Nat /\ n < Tamanio
      BY <1>1, ContenidoEnOrden
    <2> QED  BY <2>1, OrdenEsSecuencia
  <1> QED  BY <1>1, <1>4, <1>5 DEF Colas!Poner

(* A scanner is handed the oldest bag of its own belt. *)
LEMMA ExtraerEsSacar ==
  ASSUME Invariante, NEW k \in Cintas, Extraer(k)
  PROVE  Colas!Sacar(k)
  <1> USE SuposicionScanner DEF Invariante
  <1> DEFINE v == vector_elementos[k]
             o == posicion_ocupada[k]
             n == cantidad_elementos[k]
  <1>1. /\ o \in 0..Tamanio - 1 /\ n \in 1..Tamanio
        /\ v \in [0..Tamanio - 1 -> Contenidos]
        /\ UNCHANGED vector_elementos
        /\ posicion_ocupada' = [posicion_ocupada EXCEPT ![k] = (o + 1) % Tamanio]
        /\ cantidad_elementos' = [cantidad_elementos EXCEPT ![k] = n - 1]
        /\ elemento' = [elemento EXCEPT ![k] = v[o]]
    BY DEF Extraer, Siguiente, Tipos
  <1>2. Ocupado(v, o, n, Tamanio)
    BY <1>1 DEF Ocupado
  <1>3. Contenido[k] = EnOrden(v, o, n, Tamanio)
    BY ContenidoEnOrden
  <1>4. Contenido[k] # <<>> /\ Head(Contenido[k]) = v[o]
    BY <1>2, <1>3, CabezaDelOrden
  <1>5. Contenido' = [Contenido EXCEPT ![k] = Tail(Contenido[k])]
    <2>1. EnOrden(v, (o + 1) % Tamanio, n - 1, Tamanio) = Tail(Contenido[k])
      BY <1>2, <1>3, ExtraerQuita
    <2>2. ASSUME NEW j \in Cintas
          PROVE  EnOrden(vector_elementos'[j], posicion_ocupada'[j],
                         cantidad_elementos'[j], Tamanio)
                   = IF j = k THEN Tail(Contenido[k]) ELSE Contenido[j]
      <3>1. CASE j = k
        <4>1. /\ cantidad_elementos'[k] = n - 1
              /\ posicion_ocupada'[k] = (o + 1) % Tamanio
              /\ vector_elementos'[k] = v
          BY <1>1 DEF Tipos
        <4> QED  BY <2>1, <3>1, <4>1
      <3>2. CASE j # k
        <4>1. /\ vector_elementos'[j] = vector_elementos[j]
              /\ cantidad_elementos'[j] = cantidad_elementos[j]
              /\ posicion_ocupada'[j] = posicion_ocupada[j]
          BY <1>1, <3>2 DEF Tipos
        <4> QED  BY <3>2, <4>1, ContenidoEnOrden
      <3> QED  BY <3>1, <3>2
    <2> QED  BY <2>2, ContenidoEnOrden, Zenon
  <1> QED  BY <1>1, <1>4, <1>5 DEF Colas!Sacar

(* The other steps leave every queue alone. *)
LEMMA OtrosPasosNoTocanLasColas ==
  ASSUME \/ \E e \in Equipajes : LlamarPoner(e)
         \/ EsperarProductor \/ Elegir \/ NoPudoElegir
         \/ \E k \in Cintas : \/ Registrar(k)
                              \/ AvisarAlta(k)
                              \/ LlamarSacar(k)
                              \/ EsperarConsumidor(k)
                              \/ NoPudoExtraer(k)
         \/ UNCHANGED vars
  PROVE  UNCHANGED <<Contenido, elemento>>
  <1>1. UNCHANGED <<vector_elementos, posicion_ocupada, cantidad_elementos,
                    elemento>>
    BY DEF LlamarPoner, EsperarProductor, Elegir, NoPudoElegir, Registrar,
       AvisarAlta, LlamarSacar, EsperarConsumidor, NoPudoExtraer, vars, cintas,
       consumidor
  <1> QED  BY <1>1 DEF Contenido

(* The belts of the scanners implement ColasEnParalelo: each scanner is    *)
(* handed the bags of its own belt, in their order and once, and a bag is  *)
(* put on a single belt that has room.                                     *)
THEOREM Refinamiento == Spec => ImplementaColas
  <1>1. Init => Colas!Init
    BY SuposicionScanner DEF Init, Colas!Init, Contenido
  <1>2. Invariante /\ [Next]_vars => [Colas!Next]_(Colas!vars)
    <2> SUFFICES ASSUME Invariante, [Next]_vars
                 PROVE  Colas!Next \/ UNCHANGED <<Contenido, elemento>>
      BY DEF Colas!vars
    <2>1. ASSUME Colocar
          PROVE  Colas!Next
      <3>1. a_colocar \in Equipajes
        BY <2>1 DEF Invariante, ArgumentoPresente, Colocar
      <3> QED  BY <2>1, <3>1, ColocarEsPoner DEF Colas!Next
    <2>2. ASSUME NEW k \in Cintas, Extraer(k)
          PROVE  Colas!Next
      BY <2>2, ExtraerEsSacar DEF Colas!Next
    <2> QED
      BY <2>1, <2>2, OtrosPasosNoTocanLasColas
         DEF Next, PasoProductor, PasoConsumidor
  <1> QED
    BY <1>1, <1>2, InvarianteSiempre, PTL DEF Spec, Colas!Spec, ImplementaColas
=============================================================================
