-------------------- MODULE DespachoDeContenedoresProofs --------------------
(***************************************************************************)
(* A container belt is correct for any size of it, any bags and any totals *)
(* of the notice, whenever the notice and the next load come; and a plane  *)
(* takes off with its load, for any flights of the zone, any bags, any     *)
(* stops and any number of containers in a block.                          *)
(***************************************************************************)
EXTENDS DespachoDeContenedores, FiniteSetTheorems, LemasGenerales

Contenidos == Equipajes \cup {Ninguno}

PcLlamada == {"fuera", "esperando", "despierto"}

(* The binary semaphores, the marks, the notice and the calls. *)
Tipos ==
  /\ posicion_libre \in 0..Tamanio - 1
  /\ posicion_ocupada \in 0..Tamanio - 1
  /\ cantidad_elementos \in 0..Tamanio
  /\ cantidad_productores_esperando \in 0..1
  /\ cantidad_consumidores_esperando \in 0..1
  /\ checkin_cerrado \in 0..1
  /\ numero_de_valijas_totales \in Nat
  /\ id_productor_esperando \in 0..1
  /\ id_consumidor_esperando \in 0..1
  /\ vector_elementos \in [0..Tamanio - 1 -> Contenidos]
  /\ semaforo_productor \in 0..1
  /\ semaforo_consumidor \in 0..1
  /\ pc_productor \in PcLlamada
  /\ a_colocar \in Contenidos
  /\ pc_consumidor \in PcLlamada
  /\ elemento \in Contenidos \cup {Aviso}

EnMano(pc) == IF pc = "despierto" THEN 1 ELSE 0

(* The permission of each process is in its semaphore, in its mark or in   *)
(* its hands, and the counter of those that wait is the mark itself.       *)
UnPermisoPorLado ==
  /\ semaforo_productor + id_productor_esperando + EnMano(pc_productor) = 1
  /\ semaforo_consumidor + id_consumidor_esperando + EnMano(pc_consumidor) = 1
  /\ cantidad_productores_esperando = id_productor_esperando
  /\ cantidad_consumidores_esperando = id_consumidor_esperando

(* The dispatch robot is marked exactly while the belt is full: it leaves  *)
(* the mark with the bag that fills it, and the next bag taken removes it. *)
(* robot_carga is marked only with nothing to take and nothing to be told. *)
MarcasJustificadas ==
  /\ id_productor_esperando = 1 <=> cantidad_elementos = Tamanio
  /\ id_consumidor_esperando = 1 => cantidad_elementos = 0 /\ ~ AvisoPendiente

(* posicion_libre is where the next bag after the last one goes. *)
PosicionesCoherentes ==
  posicion_libre = (posicion_ocupada + cantidad_elementos) % Tamanio

(* The dispatch robot inside poner_equipaje has a bag to put. *)
ArgumentoPresente == pc_productor # "fuera" => a_colocar \in Equipajes

(* robot_carga was told of a notice only if there is one. *)
AtendidoTrasElAviso ==
  /\ ya_me_desperto_el_cierre_de_checkin \in BOOLEAN
  /\ ya_me_desperto_el_cierre_de_checkin => checkin_cerrado = 1

(* The inductive invariant.  That a producer past wait_on finds room needs *)
(* the equivalence of its mark and a full belt, and its single permission. *)
Invariante ==
  /\ Tipos
  /\ UnPermisoPorLado
  /\ MarcasJustificadas
  /\ PosicionesCoherentes
  /\ ArgumentoPresente
  /\ AtendidoTrasElAviso

(* Siguiente is the successor on the ring. *)
LEMMA SiguienteEnRango ==
  ASSUME NEW i \in 0..Tamanio - 1
  PROVE  Siguiente(i) = (i + 1) % Tamanio /\ Siguiente(i) \in 0..Tamanio - 1
  BY SuposicionCarga, AvanceDePosicion DEF Siguiente

(* A process past wait_on has its only permission in its hands: neither    *)
(* signalled nor marked.  So a producer there finds room.                  *)
LEMMA PermisoEnMano ==
  ASSUME Invariante
  PROVE  /\ pc_productor = "despierto" =>
              /\ semaforo_productor = 0 /\ id_productor_esperando = 0
              /\ cantidad_elementos < Tamanio
         /\ pc_consumidor = "despierto" =>
              semaforo_consumidor = 0 /\ id_consumidor_esperando = 0
  BY SuposicionCarga
     DEF Invariante, Tipos, UnPermisoPorLado, MarcasJustificadas, EnMano

(* The initial contents of the memory and the semaphores. *)
LEMMA InvarianteInicial == Init => Invariante
  <1> SUFFICES ASSUME Init PROVE Invariante
    OBVIOUS
  <1> USE SuposicionCarga DEF Init
  <1>1. Tipos
    <2>1. 0 \in 0..Tamanio - 1 /\ 0 \in 0..Tamanio
      OBVIOUS
    <2>2. vector_elementos \in [0..Tamanio - 1 -> Contenidos]
      BY DEF Contenidos
    <2>3. elemento \in Contenidos \cup {Aviso} /\ a_colocar \in Contenidos
      BY DEF Contenidos
    <2>4. pc_productor \in PcLlamada /\ pc_consumidor \in PcLlamada
      BY DEF PcLlamada
    <2> QED  BY <2>1, <2>2, <2>3, <2>4 DEF Tipos
  <1>2. PosicionesCoherentes
    <2>1. 0 + 0 = 0 /\ 0 % Tamanio = 0
      BY RestoDosVueltas
    <2> QED  BY <2>1 DEF PosicionesCoherentes
  <1>3. UnPermisoPorLado /\ MarcasJustificadas
    BY DEF UnPermisoPorLado, MarcasJustificadas, EnMano, AvisoPendiente
  <1> QED
    BY <1>1, <1>2, <1>3 DEF Invariante, ArgumentoPresente, AtendidoTrasElAviso

(* despertar_consumidores: the permission in the mark of robot_carga goes  *)
(* to its semaphore, if it was there.                                      *)
LEMMA DespiertaConsumidor ==
  ASSUME Invariante, DespertarConsumidores
  PROVE  /\ id_consumidor_esperando' = 0
         /\ cantidad_consumidores_esperando' = 0
         /\ semaforo_consumidor' = semaforo_consumidor + id_consumidor_esperando
  <1> USE DEF Invariante, Tipos, UnPermisoPorLado
  <1>1. CASE id_consumidor_esperando = 1
    BY <1>1 DEF DespertarConsumidores
  <1>2. CASE id_consumidor_esperando = 0
    <2>1. UNCHANGED <<semaforo_consumidor, espera_consumidor>>
      BY <1>2 DEF DespertarConsumidores
    <2> QED  BY <1>2, <2>1 DEF espera_consumidor
  <1> QED  BY <1>1, <1>2

(* despertar_productores, for the dispatch robot. *)
LEMMA DespiertaProductor ==
  ASSUME Invariante, DespertarProductores
  PROVE  /\ id_productor_esperando' = 0
         /\ cantidad_productores_esperando' = 0
         /\ semaforo_productor' = semaforo_productor + id_productor_esperando
  <1> USE DEF Invariante, Tipos, UnPermisoPorLado
  <1>1. CASE id_productor_esperando = 1
    BY <1>1 DEF DespertarProductores
  <1>2. CASE id_productor_esperando = 0
    <2>1. UNCHANGED <<semaforo_productor, espera_productor>>
      BY <1>2 DEF DespertarProductores
    <2> QED  BY <1>2, <2>1 DEF espera_productor
  <1> QED  BY <1>1, <1>2

-----------------------------------------------------------------------------
(* poner_equipaje *)

(* Putting a bag: the producer keeps its permission, in the semaphore or,  *)
(* if the belt is full now, in the mark; a consumer asleep is woken by the *)
(* first bag.                                                              *)
LEMMA ConservaColocar ==
  ASSUME Invariante, Colocar
  PROVE  Invariante'
  <1> USE SuposicionCarga DEF Invariante
  <1> DEFINE n == cantidad_elementos + 1
  <1>1. /\ pc_productor = "despierto" /\ pc_productor' = "fuera"
        /\ n \in 1..Tamanio /\ cantidad_elementos' = n
        /\ a_colocar \in Equipajes
        /\ vector_elementos' =
             [vector_elementos EXCEPT ![posicion_libre] = a_colocar]
        /\ posicion_libre' = Siguiente(posicion_libre)
        /\ TerminarTurnoProductor(n)
        /\ UNCHANGED <<posicion_ocupada, checkin_cerrado,
                       numero_de_valijas_totales,
                       ya_me_desperto_el_cierre_de_checkin, a_colocar,
                       pc_consumidor, elemento>>
    BY DEF Colocar, Tipos, ArgumentoPresente, aviso, consumidor
  <1>2. /\ semaforo_productor = 0 /\ id_productor_esperando = 0
        /\ cantidad_productores_esperando = 0
    BY <1>1, PermisoEnMano DEF UnPermisoPorLado
  <1>3. /\ id_productor_esperando' = IF n = Tamanio THEN 1 ELSE 0
        /\ cantidad_productores_esperando' = id_productor_esperando'
        /\ semaforo_productor' = IF n = Tamanio THEN 0 ELSE 1
    <2>1. CASE n = Tamanio
      BY <1>1, <1>2, <2>1 DEF TerminarTurnoProductor
    <2>2. CASE n # Tamanio
      BY <1>1, <1>2, <2>2 DEF TerminarTurnoProductor, espera_productor
    <2> QED  BY <2>1, <2>2
  <1>4. /\ id_consumidor_esperando' = 0
        /\ cantidad_consumidores_esperando' = 0
        /\ semaforo_consumidor' = semaforo_consumidor + id_consumidor_esperando
    <2>1. CASE n = 1
      <3>1. DespertarConsumidores
        BY <1>1, <2>1 DEF Colocar
      <3> QED  BY <3>1, DespiertaConsumidor
    <2>2. CASE n # 1
      <3>1. UNCHANGED <<semaforo_consumidor, espera_consumidor>>
        BY <1>1, <2>2 DEF Colocar
      <3>2. id_consumidor_esperando = 0
        BY <1>1, <2>2 DEF MarcasJustificadas, Tipos
      <3> QED
        BY <3>1, <3>2 DEF espera_consumidor, UnPermisoPorLado, Tipos
    <2> QED  BY <2>1, <2>2
  <1>5. semaforo_consumidor' \in 0..1
    BY <1>4 DEF UnPermisoPorLado, EnMano, Tipos
  <1>6. Tipos'
    <2>1. /\ posicion_libre' \in 0..Tamanio - 1
          /\ vector_elementos' \in [0..Tamanio - 1 -> Contenidos]
      BY <1>1, SiguienteEnRango DEF Tipos, Contenidos
    <2> QED  BY <1>1, <1>3, <1>4, <1>5, <2>1 DEF Tipos, PcLlamada
  <1>7. UnPermisoPorLado'
    BY <1>1, <1>3, <1>4 DEF UnPermisoPorLado, EnMano, Tipos
  <1>8. MarcasJustificadas'
    BY <1>1, <1>3, <1>4 DEF MarcasJustificadas
  <1>9. PosicionesCoherentes'
    <2>1. /\ posicion_libre = (posicion_ocupada + cantidad_elementos) % Tamanio
          /\ posicion_ocupada \in 0..Tamanio - 1
          /\ cantidad_elementos \in 0..Tamanio
          /\ posicion_libre' = (posicion_libre + 1) % Tamanio
      BY <1>1 DEF PosicionesCoherentes, Tipos, Siguiente
    <2>2. posicion_libre' = (posicion_ocupada + cantidad_elementos + 1) % Tamanio
      BY <2>1, AvanceCoherente
    <2>3. posicion_ocupada + cantidad_elementos + 1 = posicion_ocupada + n
      BY <2>1
    <2> QED  BY <1>1, <2>2, <2>3 DEF PosicionesCoherentes
  <1>10. ArgumentoPresente' /\ AtendidoTrasElAviso'
    BY <1>1 DEF ArgumentoPresente, AtendidoTrasElAviso
  <1> QED  BY <1>6, <1>7, <1>8, <1>9, <1>10

(* The call of poner_equipaje and its wait_on. *)
LEMMA ConservaEsperaProductor ==
  ASSUME Invariante,
         EsperarProductor \/ \E e \in Equipajes : LlamarPoner(e)
  PROVE  Invariante'
  <1> USE DEF Invariante
  <1>1. /\ UNCHANGED <<posicion_libre, posicion_ocupada, vector_elementos>>
        /\ UNCHANGED <<cantidad_elementos, id_productor_esperando,
                       cantidad_productores_esperando, id_consumidor_esperando,
                       cantidad_consumidores_esperando, semaforo_consumidor>>
        /\ UNCHANGED <<checkin_cerrado, numero_de_valijas_totales,
                       ya_me_desperto_el_cierre_de_checkin>>
        /\ UNCHANGED <<pc_consumidor, elemento>>
    BY DEF EsperarProductor, LlamarPoner, posiciones, espera_productor,
       espera_consumidor, aviso, consumidor
  <1>2. /\ semaforo_productor' \in 0..1 /\ pc_productor' \in PcLlamada
        /\ a_colocar' \in Equipajes
        /\ semaforo_productor' + id_productor_esperando + EnMano(pc_productor') = 1
    <2>1. CASE EsperarProductor
      BY <2>1 DEF EsperarProductor, Tipos, PcLlamada, EnMano,
         ArgumentoPresente, UnPermisoPorLado
    <2>2. ASSUME NEW e \in Equipajes, LlamarPoner(e)
          PROVE  /\ semaforo_productor' = semaforo_productor
                 /\ pc_productor' = "esperando" /\ pc_productor = "fuera"
                 /\ a_colocar' = e
      BY <2>2 DEF LlamarPoner
    <2>3. CASE \E e \in Equipajes : LlamarPoner(e)
      BY <2>2, <2>3 DEF Tipos, PcLlamada, EnMano, UnPermisoPorLado
    <2> QED  BY <2>1, <2>3
  <1>3. Tipos'
    BY <1>1, <1>2 DEF Tipos, Contenidos
  <1>4. UnPermisoPorLado'
    BY <1>1, <1>2 DEF UnPermisoPorLado
  <1>5. MarcasJustificadas' /\ PosicionesCoherentes'
    BY <1>1 DEF MarcasJustificadas, PosicionesCoherentes, AvisoPendiente
  <1>6. ArgumentoPresente' /\ AtendidoTrasElAviso'
    BY <1>1, <1>2 DEF ArgumentoPresente, AtendidoTrasElAviso
  <1> QED  BY <1>3, <1>4, <1>5, <1>6

-----------------------------------------------------------------------------
(* sacar_equipaje *)

(* The end of a turn of robot_carga: its permission goes from its hands to *)
(* the mark, if there is nothing on the belt, or to the semaphore.         *)
LEMMA TurnoConsumidor ==
  ASSUME Invariante, pc_consumidor = "despierto", NEW n,
         TerminarTurnoConsumidor(n)
  PROVE  /\ id_consumidor_esperando' = IF n = 0 THEN 1 ELSE 0
         /\ cantidad_consumidores_esperando' = id_consumidor_esperando'
         /\ semaforo_consumidor' = IF n = 0 THEN 0 ELSE 1
  <1>1. /\ semaforo_consumidor = 0 /\ id_consumidor_esperando = 0
        /\ cantidad_consumidores_esperando = 0
    BY PermisoEnMano DEF Invariante, UnPermisoPorLado
  <1>2. CASE n = 0
    BY <1>1, <1>2 DEF TerminarTurnoConsumidor
  <1>3. CASE n # 0
    BY <1>1, <1>3 DEF TerminarTurnoConsumidor, espera_consumidor
  <1> QED  BY <1>2, <1>3

(* The call of sacar_equipaje and its wait_on. *)
LEMMA ConservaEsperaConsumidor ==
  ASSUME Invariante, LlamarSacar \/ EsperarConsumidor
  PROVE  Invariante'
  <1> USE DEF Invariante
  <1>1. /\ UNCHANGED <<posicion_libre, posicion_ocupada, vector_elementos>>
        /\ UNCHANGED <<cantidad_elementos, id_productor_esperando,
                       cantidad_productores_esperando, id_consumidor_esperando,
                       cantidad_consumidores_esperando, semaforo_productor>>
        /\ UNCHANGED <<checkin_cerrado, numero_de_valijas_totales,
                       ya_me_desperto_el_cierre_de_checkin>>
        /\ UNCHANGED <<pc_productor, a_colocar, elemento>>
    BY DEF LlamarSacar, EsperarConsumidor, posiciones, espera_productor,
       espera_consumidor, aviso, productor
  <1>2. /\ semaforo_consumidor' \in 0..1 /\ pc_consumidor' \in PcLlamada
        /\ semaforo_consumidor' + id_consumidor_esperando
             + EnMano(pc_consumidor') = 1
    <2>1. CASE LlamarSacar
      BY <2>1 DEF LlamarSacar, Tipos, PcLlamada, EnMano, UnPermisoPorLado
    <2>2. CASE EsperarConsumidor
      BY <2>2 DEF EsperarConsumidor, Tipos, PcLlamada, EnMano, UnPermisoPorLado
    <2> QED  BY <2>1, <2>2
  <1>3. Tipos'
    BY <1>1, <1>2 DEF Tipos
  <1>4. UnPermisoPorLado'
    BY <1>1, <1>2 DEF UnPermisoPorLado
  <1>5. MarcasJustificadas' /\ PosicionesCoherentes'
    BY <1>1 DEF MarcasJustificadas, PosicionesCoherentes, AvisoPendiente
  <1>6. ArgumentoPresente' /\ AtendidoTrasElAviso'
    BY <1>1 DEF ArgumentoPresente, AtendidoTrasElAviso
  <1> QED  BY <1>3, <1>4, <1>5, <1>6

(* Taking a bag: a belt that was full has the dispatch robot marked, and   *)
(* wakes it.  There is no notice to tell, so that robot_carga may sleep if *)
(* it was the last bag.                                                    *)
LEMMA ConservaExtraer ==
  ASSUME Invariante, Extraer
  PROVE  Invariante'
  <1> USE SuposicionCarga DEF Invariante
  <1> DEFINE n == cantidad_elementos - 1
  <1>1. /\ pc_consumidor = "despierto" /\ pc_consumidor' = "fuera"
        /\ ~ AvisoPendiente
        /\ cantidad_elementos > 0
        /\ n \in 0..Tamanio - 1 /\ cantidad_elementos' = n
        /\ elemento' = vector_elementos[posicion_ocupada]
        /\ posicion_ocupada' = Siguiente(posicion_ocupada)
        /\ TerminarTurnoConsumidor(n)
        /\ UNCHANGED <<posicion_libre, vector_elementos, pc_productor, a_colocar>>
        /\ UNCHANGED <<checkin_cerrado, numero_de_valijas_totales,
                       ya_me_desperto_el_cierre_de_checkin>>
    BY DEF Extraer, Tipos, aviso, productor
  <1>2. /\ id_consumidor_esperando' = IF n = 0 THEN 1 ELSE 0
        /\ cantidad_consumidores_esperando' = id_consumidor_esperando'
        /\ semaforo_consumidor' = IF n = 0 THEN 0 ELSE 1
    BY <1>1, TurnoConsumidor
  <1>3. /\ id_productor_esperando' = 0
        /\ cantidad_productores_esperando' = 0
        /\ semaforo_productor' = semaforo_productor + id_productor_esperando
    <2>1. CASE n = Tamanio - 1
      <3>1. DespertarProductores
        BY <1>1, <2>1 DEF Extraer
      <3> QED  BY <3>1, DespiertaProductor
    <2>2. CASE n # Tamanio - 1
      <3>1. UNCHANGED <<semaforo_productor, espera_productor>>
        BY <1>1, <2>2 DEF Extraer
      <3>2. id_productor_esperando = 0
        BY <1>1, <2>2 DEF MarcasJustificadas, Tipos
      <3> QED
        BY <3>1, <3>2 DEF espera_productor, UnPermisoPorLado, Tipos
    <2> QED  BY <2>1, <2>2
  <1>4. semaforo_productor' \in 0..1
    BY <1>3 DEF UnPermisoPorLado, EnMano, Tipos
  <1>5. Tipos'
    <2>1. posicion_ocupada' \in 0..Tamanio - 1
      BY <1>1, SiguienteEnRango DEF Tipos
    <2>2. elemento' \in Contenidos \cup {Aviso}
      BY <1>1 DEF Tipos
    <2> QED  BY <1>1, <1>2, <1>3, <1>4, <2>1, <2>2 DEF Tipos, PcLlamada
  <1>6. UnPermisoPorLado'
    BY <1>1, <1>2, <1>3 DEF UnPermisoPorLado, EnMano, Tipos
  <1>7. MarcasJustificadas'
    BY <1>1, <1>2, <1>3 DEF MarcasJustificadas, AvisoPendiente
  <1>8. PosicionesCoherentes'
    <2>1. /\ posicion_libre = (posicion_ocupada + cantidad_elementos) % Tamanio
          /\ posicion_ocupada \in 0..Tamanio - 1
          /\ cantidad_elementos \in 0..Tamanio /\ cantidad_elementos > 0
          /\ posicion_ocupada' = (posicion_ocupada + 1) % Tamanio
      BY <1>1 DEF PosicionesCoherentes, Tipos, Siguiente
    <2>2. (((posicion_ocupada + 1) % Tamanio) + (cantidad_elementos - 1)) % Tamanio
            = (posicion_ocupada + cantidad_elementos) % Tamanio
      BY <2>1, AvanceCoherente
    <2> QED  BY <1>1, <2>1, <2>2 DEF PosicionesCoherentes
  <1>9. ArgumentoPresente' /\ AtendidoTrasElAviso'
    BY <1>1 DEF ArgumentoPresente, AtendidoTrasElAviso
  <1> QED  BY <1>5, <1>6, <1>7, <1>8, <1>9

(* A turn of the loop with nothing to take nor to be told: robot_carga     *)
(* leaves its mark.                                                        *)
LEMMA ConservaNoPudoExtraer ==
  ASSUME Invariante, NoPudoExtraer
  PROVE  Invariante'
  <1> USE DEF Invariante
  <1>1. /\ pc_consumidor = "despierto" /\ pc_consumidor' = "esperando"
        /\ ~ AvisoPendiente /\ cantidad_elementos = 0
        /\ TerminarTurnoConsumidor(cantidad_elementos)
        /\ UNCHANGED <<posicion_libre, posicion_ocupada, vector_elementos>>
        /\ UNCHANGED <<cantidad_elementos, id_productor_esperando,
                       cantidad_productores_esperando, semaforo_productor>>
        /\ UNCHANGED <<checkin_cerrado, numero_de_valijas_totales,
                       ya_me_desperto_el_cierre_de_checkin>>
        /\ UNCHANGED <<pc_productor, a_colocar, elemento>>
    BY DEF NoPudoExtraer, posiciones, espera_productor, aviso, productor
  <1>2. /\ id_consumidor_esperando' = 1
        /\ cantidad_consumidores_esperando' = 1
        /\ semaforo_consumidor' = 0
    BY <1>1, TurnoConsumidor
  <1>3. Tipos'
    BY <1>1, <1>2 DEF Tipos, PcLlamada
  <1>4. UnPermisoPorLado'
    BY <1>1, <1>2 DEF UnPermisoPorLado, EnMano
  <1>5. MarcasJustificadas' /\ PosicionesCoherentes'
    BY <1>1 DEF MarcasJustificadas, PosicionesCoherentes, AvisoPendiente
  <1>6. ArgumentoPresente' /\ AtendidoTrasElAviso'
    BY <1>1 DEF ArgumentoPresente, AtendidoTrasElAviso
  <1> QED  BY <1>3, <1>4, <1>5, <1>6

(* robot_carga is told of the notice, and keeps its permission. *)
LEMMA ConservaRecibirAviso ==
  ASSUME Invariante, RecibirAviso
  PROVE  Invariante'
  <1> USE DEF Invariante
  <1>1. /\ pc_consumidor = "despierto" /\ pc_consumidor' = "fuera"
        /\ AvisoPendiente /\ ya_me_desperto_el_cierre_de_checkin' = TRUE
        /\ elemento' = Aviso
        /\ semaforo_consumidor' = semaforo_consumidor + 1
        /\ UNCHANGED <<posicion_libre, posicion_ocupada, vector_elementos>>
        /\ UNCHANGED <<cantidad_elementos, id_productor_esperando,
                       cantidad_productores_esperando, id_consumidor_esperando,
                       cantidad_consumidores_esperando, semaforo_productor>>
        /\ UNCHANGED <<checkin_cerrado, numero_de_valijas_totales,
                       pc_productor, a_colocar>>
    BY DEF RecibirAviso, posiciones, espera_productor, espera_consumidor,
       productor
  <1>2. semaforo_consumidor = 0 /\ id_consumidor_esperando = 0
    BY <1>1, PermisoEnMano
  <1>3. Tipos'
    BY <1>1, <1>2 DEF Tipos, PcLlamada
  <1>4. UnPermisoPorLado'
    BY <1>1, <1>2 DEF UnPermisoPorLado, EnMano
  <1>5. MarcasJustificadas' /\ PosicionesCoherentes'
    BY <1>1, <1>2 DEF MarcasJustificadas, PosicionesCoherentes
  <1>6. ArgumentoPresente'
    BY <1>1 DEF ArgumentoPresente
  <1>7. AtendidoTrasElAviso'
    BY <1>1 DEF AvisoPendiente, AtendidoTrasElAviso
  <1> QED  BY <1>3, <1>4, <1>5, <1>6, <1>7

-----------------------------------------------------------------------------
(* The notice, at any time, wakes robot_carga if it sleeps. *)
LEMMA ConservaAvisarCierre ==
  ASSUME Invariante, NEW t \in Totales, AvisarCierre(t)
  PROVE  Invariante'
  <1> USE SuposicionCarga DEF Invariante
  <1>1. /\ DespertarConsumidores
        /\ numero_de_valijas_totales' = t /\ checkin_cerrado' = 1
        /\ UNCHANGED <<posicion_libre, posicion_ocupada, vector_elementos>>
        /\ UNCHANGED <<cantidad_elementos, id_productor_esperando,
                       cantidad_productores_esperando, semaforo_productor>>
        /\ UNCHANGED ya_me_desperto_el_cierre_de_checkin
        /\ UNCHANGED <<pc_productor, a_colocar, pc_consumidor, elemento>>
    BY DEF AvisarCierre, posiciones, espera_productor, productor, consumidor
  <1>2. /\ id_consumidor_esperando' = 0
        /\ cantidad_consumidores_esperando' = 0
        /\ semaforo_consumidor' = semaforo_consumidor + id_consumidor_esperando
    BY <1>1, DespiertaConsumidor
  <1>3. semaforo_consumidor' \in 0..1
    BY <1>2 DEF UnPermisoPorLado, EnMano, Tipos
  <1>4. Tipos'
    BY <1>1, <1>2, <1>3 DEF Tipos
  <1>5. UnPermisoPorLado'
    BY <1>1, <1>2 DEF UnPermisoPorLado, EnMano, Tipos
  <1>6. MarcasJustificadas' /\ PosicionesCoherentes'
    BY <1>1, <1>2 DEF MarcasJustificadas, PosicionesCoherentes
  <1>7. ArgumentoPresente' /\ AtendidoTrasElAviso'
    BY <1>1 DEF ArgumentoPresente, AtendidoTrasElAviso
  <1> QED  BY <1>4, <1>5, <1>6, <1>7

(* comenzar_nueva_carga forgets the notice, told or not. *)
LEMMA ConservaComenzarNuevaCarga ==
  ASSUME Invariante, ComenzarNuevaCarga
  PROVE  Invariante'
  <1> USE DEF Invariante
  <1>1. /\ numero_de_valijas_totales' = 0 /\ checkin_cerrado' = 0
        /\ ya_me_desperto_el_cierre_de_checkin' = FALSE
        /\ UNCHANGED <<posicion_libre, posicion_ocupada, vector_elementos>>
        /\ UNCHANGED <<cantidad_elementos, id_productor_esperando,
                       cantidad_productores_esperando, id_consumidor_esperando,
                       cantidad_consumidores_esperando, semaforo_productor,
                       semaforo_consumidor>>
        /\ UNCHANGED <<pc_productor, a_colocar, pc_consumidor, elemento>>
    BY DEF ComenzarNuevaCarga, posiciones, espera_productor,
       espera_consumidor, productor, consumidor
  <1>2. Tipos'
    BY <1>1 DEF Tipos
  <1>3. UnPermisoPorLado'
    BY <1>1 DEF UnPermisoPorLado, EnMano
  <1>4. MarcasJustificadas' /\ PosicionesCoherentes'
    BY <1>1 DEF MarcasJustificadas, PosicionesCoherentes, AvisoPendiente
  <1>5. ArgumentoPresente' /\ AtendidoTrasElAviso'
    BY <1>1 DEF ArgumentoPresente, AtendidoTrasElAviso
  <1> QED  BY <1>2, <1>3, <1>4, <1>5

-----------------------------------------------------------------------------
(* Every step of the dispatch robot, of robot_carga and of the controller  *)
(* of the flight keeps the invariant.                                      *)
LEMMA ConservaInvariante ==
  ASSUME Invariante, [Next]_vars
  PROVE  Invariante'
  <1>1. CASE PasoProductor
    BY <1>1, ConservaEsperaProductor, ConservaColocar DEF PasoProductor
  <1>2. CASE \E e \in Equipajes : LlamarPoner(e)
    BY <1>2, ConservaEsperaProductor
  <1>3. CASE PasoConsumidor
    BY <1>3, ConservaEsperaConsumidor, ConservaExtraer,
       ConservaNoPudoExtraer, ConservaRecibirAviso DEF PasoConsumidor
  <1>4. ASSUME NEW t \in Totales, AvisarCierre(t) PROVE Invariante'
    BY <1>4, ConservaAvisarCierre
  <1>5. CASE ComenzarNuevaCarga
    BY <1>5, ConservaComenzarNuevaCarga
  <1>6. CASE UNCHANGED vars
    <2> USE DEF Invariante
    <2>1. /\ UNCHANGED <<posicion_libre, posicion_ocupada, vector_elementos>>
          /\ UNCHANGED <<cantidad_elementos, id_productor_esperando,
                     cantidad_productores_esperando, id_consumidor_esperando,
                     cantidad_consumidores_esperando, semaforo_productor,
                     semaforo_consumidor>>
          /\ UNCHANGED <<checkin_cerrado, numero_de_valijas_totales,
                     ya_me_desperto_el_cierre_de_checkin>>
          /\ UNCHANGED <<pc_productor, a_colocar, pc_consumidor, elemento>>
      BY <1>6 DEF vars, posiciones, espera_productor, espera_consumidor,
         aviso, productor, consumidor
    <2>2. Tipos'
      BY <2>1 DEF Tipos
    <2>3. UnPermisoPorLado'
      BY <2>1 DEF UnPermisoPorLado, EnMano
    <2>4. MarcasJustificadas' /\ PosicionesCoherentes'
      BY <2>1 DEF MarcasJustificadas, PosicionesCoherentes, AvisoPendiente
    <2>5. ArgumentoPresente' /\ AtendidoTrasElAviso'
      BY <2>1 DEF ArgumentoPresente, AtendidoTrasElAviso
    <2> QED  BY <2>2, <2>3, <2>4, <2>5
  <1> QED  BY <1>1, <1>2, <1>3, <1>4, <1>5, <1>6 DEF Next

(* So that it holds from Init on. *)
THEOREM InvarianteSiempre == Spec => []Invariante
  <1>1. Invariante /\ [Next]_vars => Invariante'
    BY ConservaInvariante
  <1> QED  BY <1>1, InvarianteInicial, PTL DEF Spec

(* Nobody sleeps while there is a bag, a notice or room for it; nobody is  *)
(* signalled twice; and poner_equipaje never needs a second turn.          *)
THEOREM DespiertosSiempre == Spec => []NadieDuermeDeMas
  <1>1. Invariante => NadieDuermeDeMas
    <2> SUFFICES ASSUME Invariante PROVE NadieDuermeDeMas
      OBVIOUS
    <2>1. /\ semaforo_consumidor + id_consumidor_esperando <= 1
          /\ semaforo_productor + id_productor_esperando <= 1
      BY DEF Invariante, Tipos, UnPermisoPorLado, EnMano
    <2> QED
      BY <2>1, PermisoEnMano DEF Invariante, MarcasJustificadas, NadieDuermeDeMas
  <1> QED  BY <1>1, InvarianteSiempre, PTL

-----------------------------------------------------------------------------
(* The refinement: the vector read from posicion_ocupada on is the queue,  *)
(* and checkin_cerrado with robot_carga's own variable the notice.         *)

Registro(q, c, t) == [cola |-> q, cierre |-> c, total |-> t]

Cinta == Registro(Contenido, EstadoDelCierre, numero_de_valijas_totales)

(* The operations of CintaContenedor write the fields they name and leave  *)
(* the others as they are.  A bag is put: only the queue changes.          *)
LEMMA CintaConEquipaje ==
  ASSUME NEW q, NEW c, NEW t, NEW e
  PROVE  Cola!ConEquipaje(Registro(q, c, t), e) = Registro(Append(q, e), c, t)
  BY DEF Registro, Cola!ConEquipaje

(* A bag is taken: only the queue changes. *)
LEMMA CintaSinPrimero ==
  ASSUME NEW q, NEW c, NEW t
  PROVE  Cola!SinPrimero(Registro(q, c, t)) = Registro(Tail(q), c, t)
  <1> DEFINE D == {"cola", "cierre", "total"}
             r == Registro(q, c, t)
             z == Tail(r.cola)
  <1>1. r.cola = q
    BY DEF Registro
  <1>2. z = Tail(q)
    BY <1>1
  <1>3. Cola!SinPrimero(r) = [f \in D |-> IF f = "cola" THEN z ELSE r[f]]
    BY Zenon DEF Registro, Cola!SinPrimero
  <1> HIDE DEF z
  <1>4. Registro(z, c, t) = [f \in D |-> IF f = "cola" THEN z ELSE r[f]]
    BY DEF Registro
  <1> HIDE DEF r
  <1>5. Cola!SinPrimero(r) = Registro(z, c, t)
    BY <1>3, <1>4
  <1> QED  BY <1>2, <1>5 DEF r

(* The notice: the total, and the state if it is the first. *)
LEMMA CintaConAviso ==
  ASSUME NEW q, NEW c, NEW t, NEW n
  PROVE  Cola!ConAviso(Registro(q, c, t), n) =
           Registro(q, IF c = "abierto" THEN "avisado" ELSE c, n)
  <1> DEFINE D == {"cola", "cierre", "total"}
             r == Registro(q, c, t)
             y == IF r.cierre = "abierto" THEN "avisado" ELSE r.cierre
  <1>1. r.cierre = c
    BY DEF Registro
  <1>2. y = IF c = "abierto" THEN "avisado" ELSE c
    BY <1>1
  <1>3. Cola!ConAviso(r, n) =
          [f \in D |-> IF f = "cierre" THEN y
                       ELSE IF f = "total" THEN n ELSE r[f]]
    BY Zenon DEF Registro, Cola!ConAviso
  <1> HIDE DEF y
  <1>4. Registro(q, y, n) =
          [f \in D |-> IF f = "cierre" THEN y
                       ELSE IF f = "total" THEN n ELSE r[f]]
    BY DEF Registro
  <1> HIDE DEF r
  <1>5. Cola!ConAviso(r, n) = Registro(q, y, n)
    BY <1>3, <1>4
  <1> QED  BY <1>2, <1>5 DEF r

(* robot_carga was told. *)
LEMMA CintaConAvisoAtendido ==
  ASSUME NEW q, NEW c, NEW t
  PROVE  Cola!ConAvisoAtendido(Registro(q, c, t)) = Registro(q, "atendido", t)
  BY DEF Registro, Cola!ConAvisoAtendido

(* comenzar_nueva_carga keeps the bags. *)
LEMMA CintaParaNuevaCarga ==
  ASSUME NEW q, NEW c, NEW t
  PROVE  Cola!ParaNuevaCarga(Registro(q, c, t)) = Registro(q, "abierto", 0)
  <1> DEFINE D == {"cola", "cierre", "total"}
             r == Registro(q, c, t)
  <1>1. Cola!ParaNuevaCarga(r) =
          [f \in D |-> IF f = "cierre" THEN "abierto"
                       ELSE IF f = "total" THEN 0 ELSE r[f]]
    BY Zenon DEF Registro, Cola!ParaNuevaCarga
  <1>2. Registro(q, "abierto", 0) =
          [f \in D |-> IF f = "cierre" THEN "abierto"
                       ELSE IF f = "total" THEN 0 ELSE r[f]]
    BY DEF Registro
  <1> QED  BY <1>1, <1>2

(* The notice and its total are the same as long as nobody writes them.    *)
LEMMA AvisoQuieto ==
  ASSUME UNCHANGED <<checkin_cerrado, numero_de_valijas_totales,
                     ya_me_desperto_el_cierre_de_checkin>>
  PROVE  UNCHANGED <<EstadoDelCierre, numero_de_valijas_totales>>
  BY DEF EstadoDelCierre, AvisoPendiente

(* So is the queue as long as nobody writes the vector or its ends.        *)
LEMMA ContenidoQuieto ==
  ASSUME UNCHANGED <<posicion_ocupada, vector_elementos, cantidad_elementos>>
  PROVE  Contenido' = Contenido
  BY DEF Contenido

(* The queue has as many bags as the belt. *)
LEMMA ContenidoEsSecuencia ==
  ASSUME Invariante
  PROVE  \E S : Contenido \in Seq(S) /\ Len(Contenido) = cantidad_elementos
  <1>1. cantidad_elementos \in Nat
    BY SuposicionCarga DEF Invariante, Tipos
  <1>2. Contenido = EnOrden(vector_elementos, posicion_ocupada,
                            cantidad_elementos, Tamanio)
    BY DEF Contenido, EnOrden
  <1> QED  BY <1>1, <1>2, OrdenEsSecuencia

(* The bag put is the last of the queue. *)
LEMMA ContenidoAlColocar ==
  ASSUME Invariante, Colocar
  PROVE  Contenido' = Append(Contenido, a_colocar)
  <1> USE SuposicionCarga DEF Invariante
  <1> DEFINE o == posicion_ocupada
             n == cantidad_elementos
             e == a_colocar
  <1>1. /\ o \in 0..Tamanio - 1 /\ n \in 0..Tamanio - 1
        /\ vector_elementos \in [0..Tamanio - 1 -> Contenidos]
        /\ vector_elementos' =
             [vector_elementos EXCEPT ![(o + n) % Tamanio] = e]
        /\ cantidad_elementos' = n + 1 /\ posicion_ocupada' = o
    BY DEF Colocar, Tipos, PosicionesCoherentes, consumidor
  <1>2. /\ Contenido = EnOrden(vector_elementos, o, n, Tamanio)
        /\ Contenido' = EnOrden(vector_elementos', o, n + 1, Tamanio)
    BY <1>1 DEF Contenido, EnOrden
  <1>3. Coloca(vector_elementos, vector_elementos', o, n, Tamanio, e)
    BY <1>1 DEF Coloca
  <1> QED  BY <1>2, <1>3, ColocarAgrega

(* The bag taken is the first of the queue. *)
LEMMA ContenidoAlExtraer ==
  ASSUME Invariante, Extraer
  PROVE  /\ Contenido # <<>> /\ elemento' = Head(Contenido)
         /\ Contenido' = Tail(Contenido)
  <1> USE SuposicionCarga DEF Invariante
  <1> DEFINE o == posicion_ocupada
             n == cantidad_elementos
  <1>1. /\ o \in 0..Tamanio - 1 /\ n \in 1..Tamanio
        /\ vector_elementos \in [0..Tamanio - 1 -> Contenidos]
        /\ vector_elementos' = vector_elementos
        /\ cantidad_elementos' = n - 1
        /\ posicion_ocupada' = (o + 1) % Tamanio
        /\ elemento' = vector_elementos[o]
    BY DEF Extraer, Tipos, Siguiente
  <1>2. /\ Contenido = EnOrden(vector_elementos, o, n, Tamanio)
        /\ Contenido' =
             EnOrden(vector_elementos, (o + 1) % Tamanio, n - 1, Tamanio)
    BY <1>1 DEF Contenido, EnOrden
  <1>3. Ocupado(vector_elementos, o, n, Tamanio)
    BY <1>1 DEF Ocupado
  <1>4. Contenido # <<>> /\ Head(Contenido) = vector_elementos[o]
    BY <1>2, <1>3, CabezaDelOrden
  <1>5. Contenido' = Tail(Contenido)
    BY <1>2, <1>3, ExtraerQuita
  <1> QED  BY <1>1, <1>4, <1>5

(* So putting a bag is the step of the abstract queue, which has room. *)
LEMMA ColocarEsPoner ==
  ASSUME Invariante, Colocar
  PROVE  Cola!Poner(a_colocar)
  <1>1. Len(Contenido) < Tamanio /\ elemento' = elemento
    <2>1. cantidad_elementos < Tamanio /\ elemento' = elemento
      BY DEF Colocar, consumidor
    <2>2. Len(Contenido) = cantidad_elementos
      BY ContenidoEsSecuencia
    <2> QED  BY <2>1, <2>2
  <1>2. UNCHANGED <<EstadoDelCierre, numero_de_valijas_totales>>
    BY AvisoQuieto DEF Colocar, aviso
  <1>3. Cinta' = Cola!ConEquipaje(Cinta, a_colocar)
    <2>1. Contenido' = Append(Contenido, a_colocar)
      BY ContenidoAlColocar
    <2> QED  BY <1>2, <2>1, CintaConEquipaje DEF Cinta
  <1>4. Cinta.cola = Contenido
    BY DEF Cinta, Registro
  <1> QED  BY <1>1, <1>3, <1>4 DEF Cola!Poner, Cinta, Registro

(* robot_carga is handed the oldest bag, and only if it has been told of   *)
(* the notice.                                                             *)
LEMMA ExtraerEsSacar ==
  ASSUME Invariante, Extraer
  PROVE  Cola!Sacar
  <1>1. UNCHANGED <<EstadoDelCierre, numero_de_valijas_totales>>
    BY AvisoQuieto DEF Extraer, aviso
  <1>2. EstadoDelCierre # "avisado"
    BY DEF Extraer, EstadoDelCierre
  <1>3. Cinta' = Cola!SinPrimero(Cinta)
    <2>1. Contenido' = Tail(Contenido)
      BY ContenidoAlExtraer
    <2> QED  BY <1>1, <2>1, CintaSinPrimero DEF Cinta
  <1>4. Cinta.cola = Contenido /\ Cinta.cierre = EstadoDelCierre
    BY DEF Cinta, Registro
  <1> QED
    BY <1>2, <1>3, <1>4, ContenidoAlExtraer DEF Cola!Sacar, Cinta, Registro

(* The notice is told ahead of the bags, which stay on the belt. *)
LEMMA RecibirAvisoEsSacarAviso ==
  ASSUME Invariante, RecibirAviso
  PROVE  Cola!SacarAviso
  <1>1. /\ elemento' = Aviso
        /\ numero_de_valijas_totales' = numero_de_valijas_totales
        /\ Contenido' = Contenido
    BY ContenidoQuieto DEF RecibirAviso, posiciones
  <1>2. EstadoDelCierre = "avisado" /\ EstadoDelCierre' = "atendido"
    <2>1. /\ checkin_cerrado = 1 /\ ~ ya_me_desperto_el_cierre_de_checkin
          /\ checkin_cerrado' = 1 /\ ya_me_desperto_el_cierre_de_checkin'
      BY DEF RecibirAviso, AvisoPendiente
    <2> QED  BY <2>1 DEF EstadoDelCierre, AvisoPendiente
  <1>3. Cinta' = Cola!ConAvisoAtendido(Cinta)
    BY <1>1, <1>2, CintaConAvisoAtendido DEF Cinta
  <1>4. Cinta.cierre = EstadoDelCierre
    BY DEF Cinta, Registro
  <1> QED  BY <1>1, <1>2, <1>3, <1>4 DEF Cola!SacarAviso, Cinta, Registro

(* A notice counts once; one that comes after robot_carga was told only    *)
(* changes the total.                                                      *)
LEMMA AvisarCierreEsAvisar ==
  ASSUME Invariante, NEW t \in Totales, AvisarCierre(t)
  PROVE  Cola!Avisar(t)
  <1>1. /\ elemento' = elemento /\ numero_de_valijas_totales' = t
        /\ Contenido' = Contenido
    BY ContenidoQuieto DEF AvisarCierre, posiciones, consumidor
  <1>2. EstadoDelCierre' = IF EstadoDelCierre = "abierto" THEN "avisado"
                           ELSE EstadoDelCierre
    <2>1. /\ checkin_cerrado' = 1
          /\ ya_me_desperto_el_cierre_de_checkin' =
               ya_me_desperto_el_cierre_de_checkin
      BY DEF AvisarCierre
    <2>2. checkin_cerrado = 0 \/ checkin_cerrado = 1
      BY DEF Invariante, Tipos
    <2>3. CASE checkin_cerrado = 0
      <3>1. ~ ya_me_desperto_el_cierre_de_checkin
        BY <2>3 DEF Invariante, AtendidoTrasElAviso
      <3> QED  BY <2>1, <2>3, <3>1 DEF EstadoDelCierre, AvisoPendiente
    <2>4. CASE checkin_cerrado = 1
      BY <2>1, <2>4 DEF EstadoDelCierre, AvisoPendiente
    <2> QED  BY <2>2, <2>3, <2>4
  <1>3. Cinta' = Cola!ConAviso(Cinta, t)
    BY <1>1, <1>2, CintaConAviso DEF Cinta
  <1> QED  BY <1>1, <1>3 DEF Cola!Avisar, Cinta, Registro

(* The next load starts without a notice. *)
LEMMA ComenzarEsComenzar ==
  ASSUME ComenzarNuevaCarga
  PROVE  Cola!ComenzarNuevaCarga
  <1>1. /\ elemento' = elemento /\ numero_de_valijas_totales' = 0
        /\ Contenido' = Contenido
    BY ContenidoQuieto DEF ComenzarNuevaCarga, posiciones, consumidor
  <1>2. EstadoDelCierre' = "abierto"
    BY DEF ComenzarNuevaCarga, EstadoDelCierre, AvisoPendiente
  <1>3. Cinta' = Cola!ParaNuevaCarga(Cinta)
    BY <1>1, <1>2, CintaParaNuevaCarga DEF Cinta
  <1> QED  BY <1>1, <1>3 DEF Cola!ComenzarNuevaCarga, Cinta, Registro

(* The other steps leave the queue and the notice alone. *)
LEMMA OtrosPasosNoTocanLaCinta ==
  ASSUME \/ \E e \in Equipajes : LlamarPoner(e)
         \/ EsperarProductor \/ LlamarSacar \/ EsperarConsumidor
         \/ NoPudoExtraer \/ UNCHANGED vars
  PROVE  UNCHANGED <<Cinta, elemento>>
  <1>1. UNCHANGED <<posiciones, cantidad_elementos, aviso, elemento>>
    BY DEF LlamarPoner, EsperarProductor, LlamarSacar, EsperarConsumidor,
       NoPudoExtraer, vars, consumidor
  <1>2. Contenido' = Contenido
    BY <1>1, ContenidoQuieto DEF posiciones
  <1>3. UNCHANGED <<EstadoDelCierre, numero_de_valijas_totales>>
    BY <1>1, AvisoQuieto DEF aviso
  <1> QED  BY <1>1, <1>2, <1>3 DEF Cinta

(* A container belt implements ColaConCierre: bags come out in order and   *)
(* once, and every notice is told once, before the bags still on the belt. *)
THEOREM Refinamiento == Spec => ImplementaColaConCierre
  <1>1. Init => Cola!Init
    BY SuposicionCarga
       DEF Init, Cola!Init, Cola!CintaVacia, Contenido, EstadoDelCierre,
           AvisoPendiente
  <1>2. Invariante /\ [Next]_vars => [Cola!Next]_(Cola!vars)
    <2> SUFFICES ASSUME Invariante, [Next]_vars
                 PROVE  Cola!Next \/ UNCHANGED <<Cinta, elemento>>
      BY DEF Cola!vars, Cinta, Registro
    <2>1. ASSUME Colocar
          PROVE  Cola!Next
      <3>1. a_colocar \in Equipajes
        BY <2>1 DEF Invariante, ArgumentoPresente, Colocar
      <3> QED  BY <2>1, <3>1, ColocarEsPoner DEF Cola!Next
    <2>2. CASE Extraer
      BY <2>2, ExtraerEsSacar DEF Cola!Next
    <2>3. CASE RecibirAviso
      BY <2>3, RecibirAvisoEsSacarAviso DEF Cola!Next
    <2>4. ASSUME NEW t \in Totales, AvisarCierre(t)
          PROVE  Cola!Next
      BY <2>4, AvisarCierreEsAvisar DEF Cola!Next
    <2>5. CASE ComenzarNuevaCarga
      BY <2>5, ComenzarEsComenzar DEF Cola!Next
    <2> QED
      BY <2>1, <2>2, <2>3, <2>4, <2>5, OtrosPasosNoTocanLaCinta
         DEF Next, PasoProductor, PasoConsumidor
  <1> QED
    BY <1>1, <1>2, InvarianteSiempre, PTL
       DEF Spec, Cola!Spec, ImplementaColaConCierre

-----------------------------------------------------------------------------
(* The dispatch: DespachoDeContenedores.  First the load of a zone, on its *)
(* way from the hands of the dispatch robot to the containers.             *)

PcRobot == {"cargar", "leer_total", "enviar", "liberar", "reiniciar"}

(* Where the load is and what robot_carga knows of it. *)
TiposDeLaCarga ==
  /\ en_zona \in 1..Len(Orden) + 1
  /\ por_poner \in SUBSET Equipajes
  /\ pc_robot \in PcRobot
  /\ checkin_cerro \in BOOLEAN
  /\ equipajes_cargados \in Nat
  /\ equipajes_por_cargar \in Nat
  /\ contenedores_por_escala \in [1..CantEscalas -> SUBSET Equipajes]
  /\ contenedores \in Seq(SUBSET Equipajes)

(* The bags that are in the zone: those of its flight, until they are sent *)
(* to the tractors.                                                        *)
CargaDeLaZona ==
  IF en_zona <= Len(Orden) /\ pc_robot # "liberar"
  THEN CargaDe[Orden[en_zona]] ELSE {}

EquipajeEnMano == IF pc_productor = "fuera" THEN {} ELSE {a_colocar}

Cargados ==
  (UNION ToSet(contenedores)) \cup
  (UNION {contenedores_por_escala[x] : x \in 1..CantEscalas})

SinCompartir(s) == \A i, j \in DOMAIN s : i # j => s[i] \cap s[j] = {}

(* No bag is in two containers. *)
EnUnSoloContenedor ==
  /\ SinCompartir(contenedores) /\ SinCompartir(contenedores_por_escala)
  /\ \A i \in DOMAIN contenedores, x \in 1..CantEscalas :
       contenedores[i] \cap contenedores_por_escala[x] = {}

(* Each bag of the load is waiting to be put, in the hands of the dispatch *)
(* robot, on the belt or in a container: in one of them, and once.         *)
UnLugarPorEquipaje ==
  /\ por_poner \cup EquipajeEnMano \cup ToSet(Contenido) \cup Cargados
       = CargaDeLaZona
  /\ por_poner \cap (EquipajeEnMano \cup ToSet(Contenido) \cup Cargados) = {}
  /\ EquipajeEnMano \cap (ToSet(Contenido) \cup Cargados) = {}
  /\ ToSet(Contenido) \cap Cargados = {}
  /\ IsInjective(Contenido)
  /\ EnUnSoloContenedor

(* equipajes_cargados counts the bags in the containers, and               *)
(* numero_de_vuelo is their flight; once they were sent there is none.     *)
CuentaDeLaCarga ==
  /\ IF pc_robot \in {"liberar", "reiniciar"}
     THEN contenedores = <<>> /\ contenedores_por_escala = SinContenedores
     ELSE equipajes_cargados = Cardinality(Cargados)
  /\ contenedores # <<>> \/ contenedores_por_escala # SinContenedores =>
       en_zona <= Len(Orden) /\ numero_de_vuelo = Orden[en_zona]

(* robot_carga leaves the loop with the total of this load and that many   *)
(* bags: the notice on the belt is that of the flight of the zone.         *)
AvisoDeLaCarga ==
  /\ pc_robot # "cargar" => pc_consumidor = "fuera"
  /\ pc_robot # "reiniciar" /\ checkin_cerrado = 1 =>
       /\ en_zona <= Len(Orden)
       /\ numero_de_valijas_totales = Cardinality(CargaDe[Orden[en_zona]])
  /\ pc_robot # "reiniciar" /\ checkin_cerro => checkin_cerrado = 1
  /\ pc_robot \in {"cargar", "enviar"} /\ checkin_cerro =>
       equipajes_por_cargar = numero_de_valijas_totales
  /\ pc_robot \in {"leer_total", "enviar", "liberar"} => checkin_cerro
  /\ pc_robot = "enviar" => equipajes_cargados >= equipajes_por_cargar

(* The inductive invariant of the load. *)
InvarianteDeLaCarga ==
  /\ Invariante
  /\ TiposDeLaCarga
  /\ UnLugarPorEquipaje
  /\ CuentaDeLaCarga
  /\ AvisoDeLaCarga

-----------------------------------------------------------------------------
(* Sequences as the places where bags and containers are. *)

(* What is appended joins the elements, and a new element keeps them       *)
(* distinct.                                                               *)
LEMMA LosDelFinal ==
  ASSUME NEW S, NEW q \in Seq(S), NEW e \in S
  PROVE  /\ ToSet(Append(q, e)) = ToSet(q) \cup {e}
         /\ IsInjective(q) /\ e \notin ToSet(q) => IsInjective(Append(q, e))
  <1> DEFINE r == Append(q, e)
  <1>1. /\ DOMAIN q = 1..Len(q) /\ DOMAIN r = 1..Len(q) + 1 /\ Len(q) \in Nat
        /\ \A i \in 1..Len(q) : r[i] = q[i]
        /\ r[Len(q) + 1] = e
    OBVIOUS
  <1> HIDE DEF r
  <1>2. ToSet(r) = ToSet(q) \cup {e}
    BY <1>1 DEF ToSet
  <1>3. IsInjective(q) /\ e \notin ToSet(q) => IsInjective(r)
    BY <1>1 DEF ToSet, IsInjective
  <1> QED  BY <1>2, <1>3 DEF r

(* The first element and the others, which are not equal to it if they     *)
(* were distinct.                                                          *)
LEMMA ElPrimeroYLosDemas ==
  ASSUME NEW S, NEW q \in Seq(S), q # <<>>
  PROVE  /\ ToSet(q) = {Head(q)} \cup ToSet(Tail(q))
         /\ IsInjective(q) =>
              Head(q) \notin ToSet(Tail(q)) /\ IsInjective(Tail(q))
  <1> DEFINE r == Tail(q)
             n == Len(q) - 1
  <1>1. /\ n \in Nat /\ DOMAIN q = 1..n + 1 /\ DOMAIN r = 1..n
        /\ \A i \in 1..n : r[i] = q[i + 1]
        /\ Head(q) = q[1]
    OBVIOUS
  <1> HIDE DEF r, n
  <1>2. \A i \in 2..n + 1 : i - 1 \in 1..n /\ q[i] = r[i - 1]
    BY <1>1
  <1>3. ToSet(q) = {Head(q)} \cup ToSet(r)
    <2>1. ASSUME NEW i \in DOMAIN q PROVE q[i] \in {Head(q)} \cup ToSet(r)
      <3>1. CASE i = 1
        BY <1>1, <3>1
      <3>2. CASE i # 1
        <4>1. i \in 2..n + 1
          BY <1>1, <3>2
        <4> QED  BY <1>1, <1>2, <4>1 DEF ToSet
      <3> QED  BY <3>1, <3>2
    <2>2. \A i \in DOMAIN r : i + 1 \in DOMAIN q /\ r[i] = q[i + 1]
      BY <1>1
    <2>3. 1 \in DOMAIN q
      BY <1>1
    <2> QED  BY <1>1, <2>1, <2>2, <2>3 DEF ToSet
  <1>4. IsInjective(q) => Head(q) \notin ToSet(r)
    BY <1>1 DEF ToSet, IsInjective
  <1>5. IsInjective(q) => IsInjective(r)
    <2>1. ASSUME IsInjective(q), NEW i \in DOMAIN r, NEW j \in DOMAIN r,
                 r[i] = r[j]
          PROVE  i = j
      <3>1. /\ i + 1 \in DOMAIN q /\ j + 1 \in DOMAIN q
            /\ r[i] = q[i + 1] /\ r[j] = q[j + 1]
        BY <1>1
      <3>2. i + 1 = j + 1
        BY <2>1, <3>1 DEF IsInjective
      <3> QED  BY <1>1, <3>2
    <2> QED  BY <2>1 DEF IsInjective
  <1> QED  BY <1>3, <1>4, <1>5 DEF r

(* One more container, that has no bag of the others. *)
LEMMA UnContenedorMas ==
  ASSUME NEW S, NEW q \in Seq(S), NEW c \in S
  PROVE  /\ UNION ToSet(Append(q, c)) = (UNION ToSet(q)) \cup c
         /\ SinCompartir(q) /\ c \cap UNION ToSet(q) = {} =>
              SinCompartir(Append(q, c))
  <1> DEFINE r == Append(q, c)
  <1>1. /\ DOMAIN q = 1..Len(q) /\ DOMAIN r = 1..Len(q) + 1 /\ Len(q) \in Nat
        /\ \A i \in 1..Len(q) : r[i] = q[i]
        /\ r[Len(q) + 1] = c
    OBVIOUS
  <1>2. UNION ToSet(r) = (UNION ToSet(q)) \cup c
    BY LosDelFinal
  <1> HIDE DEF r
  <1>3. ASSUME SinCompartir(q), c \cap UNION ToSet(q) = {},
               NEW i \in DOMAIN r, NEW j \in DOMAIN r, i # j
        PROVE  r[i] \cap r[j] = {}
    <2>1. \A k \in 1..Len(q) : q[k] \cap c = {}
      BY <1>1, <1>3 DEF ToSet
    <2>2. CASE i \in 1..Len(q) /\ j \in 1..Len(q)
      BY <1>1, <1>3, <2>2 DEF SinCompartir
    <2>3. CASE i = Len(q) + 1 \/ j = Len(q) + 1
      BY <1>1, <1>3, <2>1, <2>3
    <2> QED  BY <1>1, <1>3, <2>2, <2>3
  <1> QED  BY <1>2, <1>3 DEF r, SinCompartir

-----------------------------------------------------------------------------
(* The containers. *)

(* The bags of the zone are a finite number of bags of its flight. *)
LEMMA CargaFinita ==
  ASSUME TiposDeLaCarga
  PROVE  /\ CargaDeLaZona \in SUBSET Equipajes
         /\ IsFiniteSet(CargaDeLaZona)
         /\ en_zona <= Len(Orden) =>
              /\ Orden[en_zona] \in Vuelos
              /\ CargaDe[Orden[en_zona]] \in SUBSET Equipajes
              /\ IsFiniteSet(CargaDe[Orden[en_zona]])
              /\ Cardinality(CargaDe[Orden[en_zona]]) \in Totales
  <1> USE SuposicionDespacho
  <1>1. CASE en_zona <= Len(Orden)
    <2>1. en_zona \in DOMAIN Orden
      BY <1>1 DEF TiposDeLaCarga
    <2>2. PICK v \in Vuelos : v = Orden[en_zona]
      BY <2>1 DEF Vuelos, ToSet
    <2>3. CargaDe[v] \in SUBSET Equipajes /\ IsFiniteSet(CargaDe[v])
      BY FS_Subset
    <2>4. Cardinality(CargaDe[v]) \in Totales
      OBVIOUS
    <2>5. CargaDeLaZona = CargaDe[v] \/ CargaDeLaZona = {}
      BY <2>2 DEF CargaDeLaZona
    <2> QED  BY <2>2, <2>3, <2>4, <2>5, FS_EmptySet
  <1>2. CASE ~ en_zona <= Len(Orden)
    BY <1>2, FS_EmptySet DEF CargaDeLaZona
  <1> QED  BY <1>1, <1>2

(* agregar_equipaje: the bag is in one container more, and the others are  *)
(* where they were; a full container keeps its bags when another takes     *)
(* its place.                                                              *)
LEMMA AgregaUnEquipaje ==
  ASSUME TiposDeLaCarga, EnUnSoloContenedor, NEW e \in Equipajes,
         e \notin Cargados, AgregarEquipaje(e)
  PROVE  /\ contenedores_por_escala' \in [1..CantEscalas -> SUBSET Equipajes]
         /\ contenedores' \in Seq(SUBSET Equipajes)
         /\ Cargados' = Cargados \cup {e}
         /\ EnUnSoloContenedor'
  <1> DEFINE x == EscalaDe[e]
             c == contenedores_por_escala[x]
             d == contenedores_por_escala
             d2 == contenedores_por_escala'
             E == 1..CantEscalas
             U == UNION ToSet(contenedores)
  <1>1. x \in E
    BY SuposicionDespacho
  <1>2. d \in [E -> SUBSET Equipajes] /\ contenedores \in Seq(SUBSET Equipajes)
    BY DEF TiposDeLaCarga
  <1>3. /\ \A y \in E : e \notin d[y]
        /\ e \notin U
        /\ \A y \in E : d[y] \cap U = {}
        /\ \A y, z \in E : y # z => d[y] \cap d[z] = {}
    BY <1>2 DEF Cargados, ToSet, EnUnSoloContenedor, SinCompartir
  <1>4. CASE Cardinality(c) < MaxValijas
    <2>1. d2 = [d EXCEPT ![x] = c \cup {e}] /\ contenedores' = contenedores
      BY <1>4 DEF AgregarEquipaje
    <2>2. /\ d2 \in [E -> SUBSET Equipajes]
          /\ d2[x] = d[x] \cup {e} /\ \A y \in E \ {x} : d2[y] = d[y]
      BY <1>1, <1>2, <2>1
    <2> HIDE DEF d, d2, E, x, c
    <2>3. (UNION {d2[y] : y \in E}) = (UNION {d[y] : y \in E}) \cup {e}
      BY <1>1, <2>2
    <2>4. /\ \A y, z \in E : y # z => d2[y] \cap d2[z] = {}
          /\ \A y \in E : d2[y] \cap U = {}
      BY <1>1, <1>3, <2>2
    <2> QED
      <3>1. Cargados' = Cargados \cup {e}
        BY <2>1, <2>3 DEF Cargados, d, d2, E
      <3>2. SinCompartir(d2)
        BY <2>2, <2>4 DEF SinCompartir
      <3>3. \A i \in DOMAIN contenedores, y \in E : contenedores[i] \cap d2[y] = {}
        BY <2>4 DEF ToSet
      <3>4. EnUnSoloContenedor'
        BY <2>1, <3>2, <3>3 DEF EnUnSoloContenedor, d2, E, SinCompartir
      <3> QED  BY <1>2, <2>1, <2>2, <3>1, <3>4 DEF d2, E
  <1>5. CASE ~ Cardinality(c) < MaxValijas
    <2>1. d2 = [d EXCEPT ![x] = {e}] /\ contenedores' = Append(contenedores, c)
      BY <1>5 DEF AgregarEquipaje
    <2>2. /\ d2 \in [E -> SUBSET Equipajes]
          /\ d2[x] = {e} /\ \A y \in E \ {x} : d2[y] = d[y]
      BY <1>1, <1>2, <2>1
    <2>3. c = d[x] /\ c \in SUBSET Equipajes
      BY <1>1, <1>2
    <2>4. PICK k \in SUBSET Equipajes : k = c
      BY <2>3
    <2>5. PICK q \in Seq(SUBSET Equipajes) : q = contenedores
      BY <1>2
    <2>6. contenedores' = Append(q, k) /\ k = d[x] /\ U = UNION ToSet(q)
      BY <2>1, <2>3, <2>4, <2>5
    <2> HIDE DEF d, d2, E, x, c
    <2>7. /\ UNION ToSet(contenedores') = U \cup k
          /\ SinCompartir(contenedores')
          /\ contenedores' \in Seq(SUBSET Equipajes)
      <3>1. UNION ToSet(Append(q, k)) = (UNION ToSet(q)) \cup k
        BY UnContenedorMas
      <3>2. SinCompartir(q)
        BY <2>5 DEF EnUnSoloContenedor
      <3>3. k \cap UNION ToSet(q) = {}
        BY <1>1, <1>3, <2>6
      <3>4. SinCompartir(Append(q, k))
        BY <3>2, <3>3, UnContenedorMas
      <3> QED  BY <2>6, <3>1, <3>4
    <2>8. (UNION {d2[y] : y \in E}) \cup k
            = (UNION {d[y] : y \in E}) \cup {e}
      BY <1>1, <2>2, <2>6
    <2>9. /\ \A y, z \in E : y # z => d2[y] \cap d2[z] = {}
          /\ \A y \in E : d2[y] \cap (U \cup k) = {}
      BY <1>1, <1>3, <2>2, <2>6
    <2> QED
      <3>1. Cargados' = Cargados \cup {e}
        BY <2>7, <2>8 DEF Cargados, d, d2, E
      <3>2. SinCompartir(d2)
        BY <2>2, <2>9 DEF SinCompartir
      <3>3. \A i \in DOMAIN contenedores', y \in E : contenedores'[i] \cap d2[y] = {}
        BY <2>7, <2>9 DEF ToSet
      <3>4. EnUnSoloContenedor'
        BY <2>7, <3>2, <3>3 DEF EnUnSoloContenedor, d2, E, SinCompartir
      <3> QED  BY <2>2, <2>7, <3>1, <3>4 DEF d2, E
  <1> QED  BY <1>4, <1>5

-----------------------------------------------------------------------------
(* The steps of the load. *)

(* Nothing moves. *)
LEMMA LugaresQuietos ==
  ASSUME UnLugarPorEquipaje,
         UNCHANGED <<por_poner, EquipajeEnMano, Contenido, contenedores,
                     contenedores_por_escala, CargaDeLaZona>>
  PROVE  UnLugarPorEquipaje'
  BY DEF UnLugarPorEquipaje, Cargados, EnUnSoloContenedor

(* Nor does robot_carga, which may only be in a call of the belt. *)
LEMMA RobotQuieto ==
  ASSUME TiposDeLaCarga, CuentaDeLaCarga, AvisoDeLaCarga,
         UNCHANGED <<en_zona, robot>>
  PROVE  /\ por_poner' \in SUBSET Equipajes => TiposDeLaCarga'
         /\ CuentaDeLaCarga'
         /\ CargaDeLaZona' = CargaDeLaZona
         /\ UNCHANGED <<checkin_cerrado, numero_de_valijas_totales>>
              /\ (pc_robot # "cargar" => pc_consumidor' = pc_consumidor)
              => AvisoDeLaCarga'
  <1>1. UNCHANGED <<en_zona, pc_robot, checkin_cerro, equipajes_cargados,
                    equipajes_por_cargar, numero_de_vuelo,
                    contenedores_por_escala, contenedores>>
    BY DEF robot, carga
  <1>2. por_poner' \in SUBSET Equipajes => TiposDeLaCarga'
    BY <1>1 DEF TiposDeLaCarga
  <1>3. CuentaDeLaCarga'
    BY <1>1 DEF CuentaDeLaCarga, Cargados
  <1>4. CargaDeLaZona' = CargaDeLaZona
    BY <1>1 DEF CargaDeLaZona
  <1>5. ASSUME UNCHANGED <<checkin_cerrado, numero_de_valijas_totales>>,
               pc_robot # "cargar" => pc_consumidor' = pc_consumidor
        PROVE  AvisoDeLaCarga'
    BY <1>1, <1>5 DEF AvisoDeLaCarga
  <1> QED  BY <1>2, <1>3, <1>4, <1>5

(* The dispatch robot takes the bag that it is going to put. *)
LEMMA CargaTrasPoner ==
  ASSUME InvarianteDeLaCarga, NEW e \in Equipajes, Poner(e)
  PROVE  (TiposDeLaCarga /\ UnLugarPorEquipaje /\ CuentaDeLaCarga
           /\ AvisoDeLaCarga)'
  <1> USE DEF InvarianteDeLaCarga
  <1>1. /\ e \in por_poner /\ por_poner' = por_poner \ {e}
        /\ pc_productor = "fuera" /\ pc_productor' = "esperando"
        /\ a_colocar' = e
        /\ UNCHANGED <<checkin_cerrado, numero_de_valijas_totales,
                       pc_consumidor, en_zona, robot>>
        /\ UNCHANGED <<posicion_ocupada, vector_elementos, cantidad_elementos>>
    BY DEF Poner, LlamarPoner, aviso, consumidor, posiciones
  <1>2. TiposDeLaCarga' /\ CuentaDeLaCarga' /\ AvisoDeLaCarga'
    <2>1. por_poner' \in SUBSET Equipajes
      BY <1>1 DEF TiposDeLaCarga
    <2> QED  BY <1>1, <2>1, RobotQuieto
  <1>3. CargaDeLaZona' = CargaDeLaZona
    BY <1>1, RobotQuieto
  <1>4. Contenido' = Contenido
    BY <1>1, ContenidoQuieto
  <1>5. EquipajeEnMano = {} /\ EquipajeEnMano' = {e}
    BY <1>1 DEF EquipajeEnMano
  <1>6. Cargados' = Cargados /\ EnUnSoloContenedor'
    BY <1>1 DEF Cargados, robot, carga, UnLugarPorEquipaje, EnUnSoloContenedor
  <1>7. UnLugarPorEquipaje'
    BY <1>1, <1>3, <1>4, <1>5, <1>6 DEF UnLugarPorEquipaje
  <1> QED  BY <1>2, <1>7

(* It waits for its turn or puts the bag on the belt. *)
LEMMA CargaAlSeguirPoniendo ==
  ASSUME InvarianteDeLaCarga, SeguirPoniendo
  PROVE  (TiposDeLaCarga /\ UnLugarPorEquipaje /\ CuentaDeLaCarga
           /\ AvisoDeLaCarga)'
  <1> USE DEF InvarianteDeLaCarga
  <1>1. /\ UNCHANGED <<por_poner, en_zona, robot>>
        /\ UNCHANGED <<checkin_cerrado, numero_de_valijas_totales,
                       pc_consumidor>>
    BY DEF SeguirPoniendo, PasoProductor, EsperarProductor, Colocar, zona,
       aviso, consumidor
  <1>2. TiposDeLaCarga' /\ CuentaDeLaCarga' /\ AvisoDeLaCarga'
    <2>1. por_poner' \in SUBSET Equipajes
      BY <1>1 DEF TiposDeLaCarga
    <2> QED  BY <1>1, <2>1, RobotQuieto
  <1>3. CargaDeLaZona' = CargaDeLaZona
    BY <1>1, RobotQuieto
  <1>4. Cargados' = Cargados /\ EnUnSoloContenedor'
    BY <1>1 DEF Cargados, robot, carga, UnLugarPorEquipaje, EnUnSoloContenedor
  <1>5. CASE EsperarProductor
    <2>1. /\ UNCHANGED a_colocar
          /\ pc_productor = "esperando" /\ pc_productor' = "despierto"
          /\ UNCHANGED <<posicion_ocupada, vector_elementos,
                         cantidad_elementos>>
      BY <1>5 DEF EsperarProductor, posiciones
    <2>2. Contenido' = Contenido
      BY <2>1, ContenidoQuieto
    <2>3. EquipajeEnMano' = EquipajeEnMano
      BY <2>1 DEF EquipajeEnMano
    <2>4. UnLugarPorEquipaje'
      BY <1>1, <1>3, <1>4, <2>2, <2>3 DEF UnLugarPorEquipaje
    <2> QED  BY <1>2, <2>4
  <1>6. CASE Colocar
    <2>1. pc_productor = "despierto" /\ pc_productor' = "fuera"
      BY <1>6 DEF Colocar
    <2>2. EquipajeEnMano = {a_colocar} /\ EquipajeEnMano' = {}
      BY <2>1 DEF EquipajeEnMano
    <2>3. Contenido' = Append(Contenido, a_colocar)
      BY <1>6, ContenidoAlColocar
    <2>4. PICK S : Contenido \in Seq(S)
      BY ContenidoEsSecuencia
    <2>5. PICK q \in Seq(S) : q = Contenido
      BY <2>4
    <2>6. PICK e : e = a_colocar
      OBVIOUS
    <2>7. e \notin ToSet(q) /\ IsInjective(q)
      BY <2>2, <2>5, <2>6 DEF UnLugarPorEquipaje
    <2>8. /\ ToSet(Append(q, e)) = ToSet(q) \cup {e}
          /\ IsInjective(Append(q, e))
      <3>1. q \in Seq(S \cup {e}) /\ e \in S \cup {e}
        OBVIOUS
      <3> QED  BY <2>7, <3>1, LosDelFinal
    <2>9. /\ ToSet(Contenido') = ToSet(Contenido) \cup EquipajeEnMano
          /\ IsInjective(Contenido')
      BY <2>2, <2>3, <2>5, <2>6, <2>8
    <2>10. UnLugarPorEquipaje'
      BY <1>1, <1>3, <1>4, <2>2, <2>9 DEF UnLugarPorEquipaje
    <2> QED  BY <1>2, <2>10
  <1> QED  BY <1>5, <1>6 DEF SeguirPoniendo, PasoProductor

(* The notice is that of the flight of the zone, also when it is repeated. *)
LEMMA CargaTrasAvisar ==
  ASSUME InvarianteDeLaCarga, Avisar
  PROVE  (TiposDeLaCarga /\ UnLugarPorEquipaje /\ CuentaDeLaCarga
           /\ AvisoDeLaCarga)'
  <1> USE DEF InvarianteDeLaCarga
  <1>1. /\ UNCHANGED <<por_poner, en_zona, robot>>
        /\ UNCHANGED <<pc_productor, a_colocar, pc_consumidor>>
        /\ UNCHANGED <<posicion_ocupada, vector_elementos, cantidad_elementos>>
        /\ checkin_cerrado' = 1
        /\ numero_de_valijas_totales' = Cardinality(CargaDe[Orden[en_zona]])
        /\ en_zona <= Len(Orden)
    BY DEF Avisar, AvisarCierre, posiciones, productor, consumidor
  <1>2. TiposDeLaCarga' /\ CuentaDeLaCarga' /\ CargaDeLaZona' = CargaDeLaZona
    <2>1. por_poner' \in SUBSET Equipajes
      BY <1>1 DEF TiposDeLaCarga
    <2> QED  BY <1>1, <2>1, RobotQuieto
  <1>3. UNCHANGED <<pc_robot, checkin_cerro, equipajes_cargados,
                    equipajes_por_cargar, contenedores,
                    contenedores_por_escala>>
    BY <1>1 DEF robot, carga
  <1>4. AvisoDeLaCarga'
    BY <1>1, <1>3 DEF AvisoDeLaCarga
  <1>5. UnLugarPorEquipaje'
    <2>1. Contenido' = Contenido /\ EquipajeEnMano' = EquipajeEnMano
      BY <1>1, ContenidoQuieto DEF EquipajeEnMano
    <2> QED  BY <1>1, <1>2, <1>3, <2>1, LugaresQuietos
  <1> QED  BY <1>2, <1>4, <1>5

(* robot_carga in its call of the belt, before it gets anything. *)
LEMMA CargaTrasLlamar ==
  ASSUME InvarianteDeLaCarga, Llamar
  PROVE  (TiposDeLaCarga /\ UnLugarPorEquipaje /\ CuentaDeLaCarga
           /\ AvisoDeLaCarga)'
  <1> USE DEF InvarianteDeLaCarga
  <1>1. /\ UNCHANGED <<por_poner, en_zona, robot>>
        /\ UNCHANGED <<pc_productor, a_colocar>>
        /\ UNCHANGED <<posicion_ocupada, vector_elementos, cantidad_elementos>>
        /\ UNCHANGED <<checkin_cerrado, numero_de_valijas_totales>>
        /\ pc_robot = "cargar"
    BY DEF Llamar, LlamarSacar, EsperarConsumidor, NoPudoExtraer, posiciones,
       productor, aviso, zona
  <1>2. TiposDeLaCarga' /\ CuentaDeLaCarga' /\ AvisoDeLaCarga'
    <2>1. por_poner' \in SUBSET Equipajes
      BY <1>1 DEF TiposDeLaCarga
    <2> QED  BY <1>1, <2>1, RobotQuieto
  <1>3. UnLugarPorEquipaje'
    <2>1. Contenido' = Contenido /\ EquipajeEnMano' = EquipajeEnMano
      BY <1>1, ContenidoQuieto DEF EquipajeEnMano
    <2>2. UNCHANGED <<contenedores, contenedores_por_escala>>
      BY <1>1 DEF robot, carga
    <2>3. CargaDeLaZona' = CargaDeLaZona
      BY <1>1, RobotQuieto
    <2> QED  BY <1>1, <2>1, <2>2, <2>3, LugaresQuietos
  <1> QED  BY <1>2, <1>3

(* A bag goes from the belt to a container. *)
LEMMA CargaTrasSacarEquipaje ==
  ASSUME InvarianteDeLaCarga, SacarEquipaje
  PROVE  (TiposDeLaCarga /\ UnLugarPorEquipaje /\ CuentaDeLaCarga
           /\ AvisoDeLaCarga)'
  <1> USE DEF InvarianteDeLaCarga
  <1>1. PICK e : e = elemento'
    OBVIOUS
  <1>2. /\ pc_consumidor = "despierto" /\ pc_consumidor' = "fuera"
        /\ UNCHANGED <<checkin_cerrado, numero_de_valijas_totales>>
        /\ UNCHANGED <<pc_productor, a_colocar>>
        /\ Extraer
    BY DEF SacarEquipaje, Extraer, aviso, productor
  <1>3. /\ numero_de_vuelo' = VueloDe(e) /\ AgregarEquipaje(e)
        /\ equipajes_cargados' = equipajes_cargados + 1
        /\ pc_robot' = SiguePc(checkin_cerro, equipajes_cargados',
                               equipajes_por_cargar)
        /\ UNCHANGED <<en_zona, por_poner, checkin_cerro,
                       equipajes_por_cargar>>
    BY <1>1 DEF SacarEquipaje, zona
  <1>4. /\ pc_robot = "cargar" /\ pc_robot' \in {"cargar", "enviar"}
        /\ pc_robot' = "enviar" <=>
             checkin_cerro /\ equipajes_cargados' >= equipajes_por_cargar
    BY <1>2, <1>3 DEF AvisoDeLaCarga, SiguePc
  <1>5. CargaDeLaZona' = CargaDeLaZona /\ EquipajeEnMano' = EquipajeEnMano
    BY <1>2, <1>3, <1>4 DEF CargaDeLaZona, EquipajeEnMano
  <1>6. /\ ToSet(Contenido) = {e} \cup ToSet(Contenido')
        /\ e \notin ToSet(Contenido') /\ IsInjective(Contenido')
    <2>1. PICK S : Contenido \in Seq(S)
      BY ContenidoEsSecuencia
    <2>2. PICK q \in Seq(S) : q = Contenido
      BY <2>1
    <2>3. q # <<>> /\ e = Head(q) /\ Contenido' = Tail(q)
      BY <1>1, <1>2, <2>2, ContenidoAlExtraer
    <2>4. IsInjective(q)
      BY <2>2 DEF UnLugarPorEquipaje
    <2>5. /\ ToSet(q) = {Head(q)} \cup ToSet(Tail(q))
          /\ Head(q) \notin ToSet(Tail(q)) /\ IsInjective(Tail(q))
      BY <2>3, <2>4, ElPrimeroYLosDemas
    <2> QED  BY <2>2, <2>3, <2>5
  <1>7. e \in CargaDeLaZona /\ e \in Equipajes /\ e \notin Cargados
    BY <1>6, CargaFinita DEF UnLugarPorEquipaje
  <1>8. /\ contenedores_por_escala' \in [1..CantEscalas -> SUBSET Equipajes]
        /\ contenedores' \in Seq(SUBSET Equipajes)
        /\ Cargados' = Cargados \cup {e}
        /\ EnUnSoloContenedor'
    BY <1>3, <1>7, AgregaUnEquipaje DEF UnLugarPorEquipaje
  <1>9. en_zona <= Len(Orden) /\ VueloDe(e) = Orden[en_zona]
    <2>1. en_zona <= Len(Orden) /\ e \in CargaDe[Orden[en_zona]]
      BY <1>7 DEF CargaDeLaZona
    <2>2. PICK v \in Vuelos : v = Orden[en_zona]
      BY <2>1, CargaFinita
    <2>3. \A w \in Vuelos : e \in CargaDe[w] => w = v
      BY <2>1, <2>2, SuposicionDespacho
    <2>4. VueloDe(e) = v
      BY <2>1, <2>2, <2>3 DEF VueloDe
    <2> QED  BY <2>1, <2>2, <2>4
  <1>10. TiposDeLaCarga'
    BY <1>3, <1>4, <1>8 DEF TiposDeLaCarga, PcRobot
  <1>11. UnLugarPorEquipaje'
    BY <1>3, <1>5, <1>6, <1>7, <1>8 DEF UnLugarPorEquipaje
  <1>12. CuentaDeLaCarga'
    <2>1. equipajes_cargados = Cardinality(Cargados)
      BY <1>4 DEF CuentaDeLaCarga
    <2>2. PICK c : c = Cargados
      OBVIOUS
    <2>3. IsFiniteSet(c)
      BY <2>2, CargaFinita, FS_Subset DEF UnLugarPorEquipaje
    <2>4. Cardinality(c \cup {e}) = Cardinality(c) + 1
      BY <1>7, <2>2, <2>3, FS_AddElement
    <2>5. equipajes_cargados' = Cardinality(Cargados')
      BY <1>3, <1>8, <2>1, <2>2, <2>4
    <2> QED  BY <1>3, <1>4, <1>9, <2>5 DEF CuentaDeLaCarga
  <1>13. AvisoDeLaCarga'
    BY <1>2, <1>3, <1>4 DEF AvisoDeLaCarga
  <1> QED  BY <1>10, <1>11, <1>12, <1>13

(* robot_carga is told of the notice. *)
LEMMA CargaTrasSacarAviso ==
  ASSUME InvarianteDeLaCarga, SacarAviso
  PROVE  (TiposDeLaCarga /\ UnLugarPorEquipaje /\ CuentaDeLaCarga
           /\ AvisoDeLaCarga)'
  <1> USE DEF InvarianteDeLaCarga
  <1>1. /\ pc_consumidor = "despierto" /\ pc_consumidor' = "fuera"
        /\ checkin_cerrado = 1
        /\ UNCHANGED <<checkin_cerrado, numero_de_valijas_totales>>
        /\ UNCHANGED <<pc_productor, a_colocar>>
        /\ UNCHANGED <<posicion_ocupada, vector_elementos, cantidad_elementos>>
    BY DEF SacarAviso, RecibirAviso, AvisoPendiente, posiciones, productor
  <1>2. /\ checkin_cerro' = TRUE /\ pc_robot' = "leer_total"
        /\ UNCHANGED <<en_zona, por_poner, equipajes_cargados,
                       equipajes_por_cargar, numero_de_vuelo,
                       contenedores_por_escala, contenedores>>
    BY DEF SacarAviso, zona
  <1>3. pc_robot = "cargar"
    BY <1>1 DEF AvisoDeLaCarga
  <1>4. TiposDeLaCarga'
    BY <1>2 DEF TiposDeLaCarga, PcRobot
  <1>5. CargaDeLaZona' = CargaDeLaZona
    BY <1>2, <1>3 DEF CargaDeLaZona
  <1>6. UnLugarPorEquipaje'
    <2>1. Contenido' = Contenido /\ EquipajeEnMano' = EquipajeEnMano
      BY <1>1, ContenidoQuieto DEF EquipajeEnMano
    <2> QED  BY <1>2, <1>5, <2>1, LugaresQuietos
  <1>7. CuentaDeLaCarga'
    BY <1>2, <1>3 DEF CuentaDeLaCarga, Cargados
  <1>8. AvisoDeLaCarga'
    BY <1>1, <1>2, <1>3 DEF AvisoDeLaCarga
  <1> QED  BY <1>4, <1>6, <1>7, <1>8

(* It reads the total and knows whether the load has ended. *)
LEMMA CargaTrasLeerTotal ==
  ASSUME InvarianteDeLaCarga, LeerTotal
  PROVE  (TiposDeLaCarga /\ UnLugarPorEquipaje /\ CuentaDeLaCarga
           /\ AvisoDeLaCarga)'
  <1> USE DEF InvarianteDeLaCarga
  <1>1. /\ UNCHANGED <<pc_productor, a_colocar, pc_consumidor>>
        /\ UNCHANGED <<checkin_cerrado, numero_de_valijas_totales>>
        /\ UNCHANGED <<posicion_ocupada, vector_elementos, cantidad_elementos>>
    BY DEF LeerTotal, vars, posiciones, productor, consumidor, aviso
  <1>2. /\ pc_robot = "leer_total"
        /\ equipajes_por_cargar' = numero_de_valijas_totales
        /\ pc_robot' = SiguePc(TRUE, equipajes_cargados,
                               numero_de_valijas_totales)
        /\ UNCHANGED <<en_zona, por_poner, checkin_cerro, equipajes_cargados,
                       numero_de_vuelo, contenedores_por_escala, contenedores>>
    BY DEF LeerTotal, zona
  <1>3. /\ pc_robot' \in {"cargar", "enviar"}
        /\ pc_robot' = "enviar" =>
             equipajes_cargados >= numero_de_valijas_totales
    BY <1>2 DEF SiguePc
  <1>4. TiposDeLaCarga'
    <2>1. numero_de_valijas_totales \in Nat
      BY DEF Invariante, Tipos
    <2> QED  BY <1>2, <1>3, <2>1 DEF TiposDeLaCarga, PcRobot
  <1>5. CargaDeLaZona' = CargaDeLaZona
    BY <1>2, <1>3 DEF CargaDeLaZona
  <1>6. UnLugarPorEquipaje'
    <2>1. Contenido' = Contenido /\ EquipajeEnMano' = EquipajeEnMano
      BY <1>1, ContenidoQuieto DEF EquipajeEnMano
    <2> QED  BY <1>2, <1>5, <2>1, LugaresQuietos
  <1>7. CuentaDeLaCarga'
    BY <1>2, <1>3 DEF CuentaDeLaCarga, Cargados
  <1>8. AvisoDeLaCarga'
    BY <1>1, <1>2, <1>3 DEF AvisoDeLaCarga
  <1> QED  BY <1>4, <1>6, <1>7, <1>8

(* When robot_carga leaves the loop, all the bags of the flight are in its *)
(* containers: it has counted as many as the flight has, and each is one   *)
(* of them.                                                                *)
LEMMA CargaCompleta ==
  ASSUME InvarianteDeLaCarga, pc_robot = "enviar"
  PROVE  /\ en_zona <= Len(Orden) /\ Orden[en_zona] \in Vuelos
         /\ Cargados = CargaDe[Orden[en_zona]]
         /\ por_poner = {} /\ EquipajeEnMano = {} /\ ToSet(Contenido) = {}
  <1> USE DEF InvarianteDeLaCarga
  <1>1. /\ en_zona <= Len(Orden)
        /\ equipajes_cargados >= Cardinality(CargaDe[Orden[en_zona]])
    BY DEF AvisoDeLaCarga
  <1>2. CargaDeLaZona = CargaDe[Orden[en_zona]] /\ Orden[en_zona] \in Vuelos
    BY <1>1, CargaFinita DEF CargaDeLaZona
  <1>3. PICK S : S = CargaDeLaZona
    OBVIOUS
  <1>4. PICK c : c = Cargados
    OBVIOUS
  <1>5. IsFiniteSet(S) /\ c \subseteq S
    BY <1>3, <1>4, CargaFinita DEF UnLugarPorEquipaje
  <1>6. Cardinality(c) >= Cardinality(S)
    BY <1>1, <1>2, <1>3, <1>4 DEF CuentaDeLaCarga
  <1>7. c = S
    <2>1. Cardinality(c) <= Cardinality(S) /\ Cardinality(S) \in Nat
          /\ Cardinality(c) \in Nat
      BY <1>5, FS_Subset, FS_CardinalityType
    <2> QED  BY <1>5, <1>6, <2>1, FS_Subset
  <1>8. por_poner = {} /\ EquipajeEnMano = {} /\ ToSet(Contenido) = {}
    BY <1>3, <1>4, <1>7 DEF UnLugarPorEquipaje
  <1> QED  BY <1>1, <1>2, <1>3, <1>4, <1>7, <1>8

(* The containers are sent, and no bag stays in the zone. *)
LEMMA CargaTrasEnviar ==
  ASSUME InvarianteDeLaCarga, EnviarContenedores
  PROVE  (TiposDeLaCarga /\ UnLugarPorEquipaje /\ CuentaDeLaCarga
           /\ AvisoDeLaCarga)'
  <1> USE DEF InvarianteDeLaCarga
  <1>1. /\ UNCHANGED <<pc_productor, a_colocar, pc_consumidor>>
        /\ UNCHANGED <<checkin_cerrado, numero_de_valijas_totales>>
        /\ UNCHANGED <<posicion_ocupada, vector_elementos, cantidad_elementos>>
    BY DEF EnviarContenedores, vars, posiciones, productor, consumidor, aviso
  <1>2. /\ pc_robot = "enviar" /\ pc_robot' = "liberar"
        /\ contenedores' = <<>> /\ contenedores_por_escala' = SinContenedores
        /\ UNCHANGED <<en_zona, por_poner, checkin_cerro, equipajes_cargados,
                       equipajes_por_cargar, numero_de_vuelo>>
    BY DEF EnviarContenedores, zona
  <1>3. SinContenedores \in [1..CantEscalas -> SUBSET Equipajes]
    BY DEF SinContenedores
  <1>4. <<>> \in Seq(SUBSET Equipajes)
    OBVIOUS
  <1>5. TiposDeLaCarga'
    BY <1>2, <1>3, <1>4 DEF TiposDeLaCarga, PcRobot
  <1>6. CargaDeLaZona' = {}
    BY <1>2 DEF CargaDeLaZona
  <1>7. Cargados' = {} /\ EnUnSoloContenedor'
    <2>1. DOMAIN contenedores' = {}
      BY <1>2
    <2>2. \A x \in 1..CantEscalas : contenedores_por_escala'[x] = {}
      BY <1>2 DEF SinContenedores
    <2>3. DOMAIN contenedores_por_escala' = 1..CantEscalas
      BY <1>2 DEF SinContenedores
    <2> QED
      BY <2>1, <2>2, <2>3 DEF Cargados, ToSet, EnUnSoloContenedor, SinCompartir
  <1>8. UnLugarPorEquipaje'
    <2>1. Contenido' = Contenido /\ EquipajeEnMano' = EquipajeEnMano
      BY <1>1, ContenidoQuieto DEF EquipajeEnMano
    <2>2. por_poner' = {} /\ EquipajeEnMano' = {} /\ ToSet(Contenido') = {}
      BY <1>2, <2>1, CargaCompleta
    <2>3. IsInjective(Contenido')
      BY <2>1 DEF UnLugarPorEquipaje
    <2> QED  BY <1>6, <1>7, <2>2, <2>3 DEF UnLugarPorEquipaje
  <1>9. CuentaDeLaCarga'
    BY <1>2 DEF CuentaDeLaCarga, SinContenedores
  <1>10. AvisoDeLaCarga'
    BY <1>1, <1>2 DEF AvisoDeLaCarga
  <1> QED  BY <1>5, <1>8, <1>9, <1>10

(* The next flight gets the zone, where there is no bag. *)
LEMMA CargaTrasLiberar ==
  ASSUME InvarianteDeLaCarga, LiberarZona
  PROVE  (TiposDeLaCarga /\ UnLugarPorEquipaje /\ CuentaDeLaCarga
           /\ AvisoDeLaCarga)'
  <1> USE DEF InvarianteDeLaCarga
  <1>1. /\ UNCHANGED <<pc_productor, a_colocar, pc_consumidor>>
        /\ UNCHANGED <<posicion_ocupada, vector_elementos, cantidad_elementos>>
    BY DEF LiberarZona, vars, posiciones, productor, consumidor
  <1>2. /\ pc_robot = "liberar" /\ pc_robot' = "reiniciar"
        /\ en_zona' = en_zona + 1
        /\ por_poner' = por_poner \cup
             (IF en_zona < Len(Orden) THEN CargaDe[Orden[en_zona + 1]] ELSE {})
        /\ UNCHANGED <<checkin_cerro, equipajes_cargados, equipajes_por_cargar,
                       numero_de_vuelo, contenedores_por_escala, contenedores>>
    BY DEF LiberarZona, carga
  <1>3. en_zona <= Len(Orden)
    BY <1>2 DEF AvisoDeLaCarga
  <1>4. CargaDeLaZona = {}
    BY <1>2 DEF CargaDeLaZona
  <1>5. CargaDeLaZona' = por_poner'
    <2>1. por_poner = {}
      BY <1>4 DEF UnLugarPorEquipaje
    <2>2. en_zona < Len(Orden) <=> en_zona + 1 <= Len(Orden)
      BY <1>3, SuposicionDespacho DEF TiposDeLaCarga
    <2> QED  BY <1>2, <2>1, <2>2 DEF CargaDeLaZona
  <1>6. en_zona' \in 1..Len(Orden) + 1
    BY <1>2, <1>3, SuposicionDespacho DEF TiposDeLaCarga
  <1>7. TiposDeLaCarga'
    <2>1. en_zona < Len(Orden) => CargaDe[Orden[en_zona + 1]] \in SUBSET Equipajes
      <3>1. en_zona < Len(Orden) => en_zona + 1 \in DOMAIN Orden
        BY SuposicionDespacho DEF TiposDeLaCarga
      <3> QED  BY <3>1, SuposicionDespacho
    <2>2. por_poner' \in SUBSET Equipajes
      BY <1>2, <2>1 DEF TiposDeLaCarga
    <2> QED  BY <1>2, <1>6, <2>2 DEF TiposDeLaCarga, PcRobot
  <1>8. UnLugarPorEquipaje'
    <2>1. Contenido' = Contenido /\ EquipajeEnMano' = EquipajeEnMano
      BY <1>1, ContenidoQuieto DEF EquipajeEnMano
    <2>2. Cargados' = Cargados /\ EnUnSoloContenedor'
      BY <1>2 DEF Cargados, UnLugarPorEquipaje, EnUnSoloContenedor
    <2> QED  BY <1>4, <1>5, <2>1, <2>2 DEF UnLugarPorEquipaje
  <1>9. CuentaDeLaCarga'
    BY <1>2 DEF CuentaDeLaCarga
  <1>10. AvisoDeLaCarga'
    BY <1>1, <1>2 DEF AvisoDeLaCarga
  <1> QED  BY <1>7, <1>8, <1>9, <1>10

(* robot_carga starts the next load, of which it has nothing. *)
LEMMA CargaTrasReiniciar ==
  ASSUME InvarianteDeLaCarga, Reiniciar
  PROVE  (TiposDeLaCarga /\ UnLugarPorEquipaje /\ CuentaDeLaCarga
           /\ AvisoDeLaCarga)'
  <1> USE DEF InvarianteDeLaCarga
  <1>1. /\ UNCHANGED <<pc_productor, a_colocar, pc_consumidor>>
        /\ UNCHANGED <<posicion_ocupada, vector_elementos, cantidad_elementos>>
        /\ checkin_cerrado' = 0
    BY DEF Reiniciar, ComenzarNuevaCarga, posiciones, productor, consumidor
  <1>2. /\ pc_robot = "reiniciar" /\ pc_robot' = "cargar"
        /\ checkin_cerro' = FALSE
        /\ equipajes_cargados' = 0 /\ equipajes_por_cargar' = 0
        /\ UNCHANGED <<en_zona, por_poner, numero_de_vuelo,
                       contenedores_por_escala, contenedores>>
    BY DEF Reiniciar, zona
  <1>3. TiposDeLaCarga'
    BY <1>2 DEF TiposDeLaCarga, PcRobot
  <1>4. CargaDeLaZona' = CargaDeLaZona
    BY <1>2 DEF CargaDeLaZona
  <1>5. UnLugarPorEquipaje'
    <2>1. Contenido' = Contenido /\ EquipajeEnMano' = EquipajeEnMano
      BY <1>1, ContenidoQuieto DEF EquipajeEnMano
    <2> QED  BY <1>2, <1>4, <2>1, LugaresQuietos
  <1>6. CuentaDeLaCarga'
    <2>1. contenedores' = <<>> /\ contenedores_por_escala' = SinContenedores
      BY <1>2 DEF CuentaDeLaCarga
    <2>2. Cargados' = {}
      BY <2>1 DEF Cargados, ToSet, SinContenedores
    <2> QED  BY <1>2, <2>1, <2>2, FS_EmptySet DEF CuentaDeLaCarga
  <1>7. AvisoDeLaCarga'
    BY <1>1, <1>2 DEF AvisoDeLaCarga
  <1> QED  BY <1>3, <1>5, <1>6, <1>7

(* The tractors and the planes have nothing to do with it. *)
LEMMA CargaQuieta ==
  ASSUME InvarianteDeLaCarga, UNCHANGED <<vars, zona, robot>>
  PROVE  (TiposDeLaCarga /\ UnLugarPorEquipaje /\ CuentaDeLaCarga
           /\ AvisoDeLaCarga)'
  <1> USE DEF InvarianteDeLaCarga
  <1>1. /\ UNCHANGED <<por_poner, en_zona, robot>>
        /\ UNCHANGED <<pc_productor, a_colocar, pc_consumidor>>
        /\ UNCHANGED <<posicion_ocupada, vector_elementos, cantidad_elementos>>
        /\ UNCHANGED <<checkin_cerrado, numero_de_valijas_totales>>
    BY DEF vars, posiciones, productor, consumidor, aviso, zona
  <1>2. /\ TiposDeLaCarga' /\ CuentaDeLaCarga' /\ AvisoDeLaCarga'
        /\ CargaDeLaZona' = CargaDeLaZona
    <2>1. por_poner' \in SUBSET Equipajes
      BY <1>1 DEF TiposDeLaCarga
    <2> QED  BY <1>1, <2>1, RobotQuieto
  <1>3. UnLugarPorEquipaje'
    <2>1. Contenido' = Contenido /\ EquipajeEnMano' = EquipajeEnMano
      BY <1>1, ContenidoQuieto DEF EquipajeEnMano
    <2>2. UNCHANGED <<contenedores, contenedores_por_escala>>
      BY <1>1 DEF robot, carga
    <2> QED  BY <1>1, <1>2, <2>1, <2>2, LugaresQuietos
  <1> QED  BY <1>2, <1>3

-----------------------------------------------------------------------------
(* Every step of the dispatch is one of the belt, or leaves it as it is:   *)
(* the total of the notice is one that a notice may carry.                 *)
LEMMA PasoDeLaCinta ==
  ASSUME TiposDeLaCarga, [NextDespacho]_varsDespacho
  PROVE  [Next]_vars
  <1>1. CASE PasoDespacho
    BY <1>1 DEF PasoDespacho, SeguirPoniendo, Poner, Next
  <1>2. CASE Avisar
    <2>1. Cardinality(CargaDe[Orden[en_zona]]) \in Totales
      BY <1>2, CargaFinita DEF Avisar
    <2> QED  BY <1>2, <2>1 DEF Avisar, Next
  <1>3. CASE PasoRobot
    BY <1>3 DEF PasoRobot, Llamar, SacarEquipaje, SacarAviso, LeerTotal,
       EnviarContenedores, EnviarBloque, LiberarZona, Reiniciar, Next,
       PasoConsumidor
  <1>4. CASE \E t \in Tractores : PasoTractor(t)
    BY <1>4 DEF PasoTractor, TomarBloque, CargarContenedorEnAvion
  <1>5. CASE \E v \in Vuelos : RecibirContenedor(v)
    BY <1>5 DEF RecibirContenedor
  <1>6. CASE UNCHANGED varsDespacho
    BY <1>6 DEF varsDespacho
  <1> QED  BY <1>1, <1>2, <1>3, <1>4, <1>5, <1>6 DEF NextDespacho

(* The first flight has the zone, and its bags are to be put. *)
LEMMA CargaInicial == InitDespacho => InvarianteDeLaCarga
  <1> SUFFICES ASSUME InitDespacho PROVE InvarianteDeLaCarga
    OBVIOUS
  <1> USE DEF InitDespacho
  <1>1. Invariante
    BY InvarianteInicial
  <1>2. 1 \in DOMAIN Orden /\ 1 <= Len(Orden) /\ 1 \in 1..Len(Orden) + 1
    BY SuposicionDespacho
  <1>3. TiposDeLaCarga
    <2>1. por_poner \in SUBSET Equipajes
      BY <1>2, SuposicionDespacho
    <2>2. SinContenedores \in [1..CantEscalas -> SUBSET Equipajes]
      BY DEF SinContenedores
    <2>3. <<>> \in Seq(SUBSET Equipajes)
      OBVIOUS
    <2> QED  BY <1>2, <2>1, <2>2, <2>3 DEF TiposDeLaCarga, PcRobot
  <1>4. Cargados = {} /\ EnUnSoloContenedor
    <2>1. DOMAIN contenedores = {}
      OBVIOUS
    <2>2. /\ DOMAIN contenedores_por_escala = 1..CantEscalas
          /\ \A x \in 1..CantEscalas : contenedores_por_escala[x] = {}
      BY DEF SinContenedores
    <2> QED
      BY <2>1, <2>2 DEF Cargados, ToSet, EnUnSoloContenedor, SinCompartir
  <1>5. UnLugarPorEquipaje
    <2>1. CargaDeLaZona = por_poner
      BY <1>2 DEF CargaDeLaZona
    <2>2. EquipajeEnMano = {} /\ ToSet(Contenido) = {} /\ IsInjective(Contenido)
      BY DEF Init, EquipajeEnMano, Contenido, ToSet, IsInjective
    <2> QED  BY <1>4, <2>1, <2>2 DEF UnLugarPorEquipaje
  <1>6. CuentaDeLaCarga
    BY <1>4, FS_EmptySet DEF CuentaDeLaCarga
  <1>7. AvisoDeLaCarga
    BY DEF Init, AvisoDeLaCarga
  <1> QED  BY <1>1, <1>3, <1>5, <1>6, <1>7 DEF InvarianteDeLaCarga

(* Every step keeps the invariant of the load, whatever the tractors do. *)
LEMMA ConservaLaCarga ==
  ASSUME InvarianteDeLaCarga, [NextDespacho]_varsDespacho
  PROVE  InvarianteDeLaCarga'
  <1>1. Invariante'
    BY PasoDeLaCinta, ConservaInvariante DEF InvarianteDeLaCarga
  <1>2. (TiposDeLaCarga /\ UnLugarPorEquipaje /\ CuentaDeLaCarga
          /\ AvisoDeLaCarga)'
    <2>1. CASE PasoDespacho
      BY <2>1, CargaTrasPoner, CargaAlSeguirPoniendo DEF PasoDespacho
    <2>2. CASE Avisar
      BY <2>2, CargaTrasAvisar
    <2>3. CASE PasoRobot
      BY <2>3, CargaTrasLlamar, CargaTrasSacarEquipaje, CargaTrasSacarAviso,
         CargaTrasLeerTotal, CargaTrasEnviar, CargaTrasLiberar,
         CargaTrasReiniciar, CargaQuieta DEF PasoRobot, EnviarBloque
    <2>4. CASE \E t \in Tractores : PasoTractor(t)
      BY <2>4, CargaQuieta
         DEF PasoTractor, TomarBloque, CargarContenedorEnAvion
    <2>5. CASE \E v \in Vuelos : RecibirContenedor(v)
      BY <2>5, CargaQuieta DEF RecibirContenedor
    <2>6. CASE UNCHANGED varsDespacho
      BY <2>6, CargaQuieta DEF varsDespacho
    <2> QED  BY <2>1, <2>2, <2>3, <2>4, <2>5, <2>6 DEF NextDespacho
  <1> QED  BY <1>1, <1>2 DEF InvarianteDeLaCarga

(* So that in the zone each bag is in one place, the bags counted are the  *)
(* ones in the containers, and the notice is that of the flight loaded.    *)
THEOREM CargaSiempre == SpecDespacho => []InvarianteDeLaCarga
  <1>1. InvarianteDeLaCarga /\ [NextDespacho]_varsDespacho => InvarianteDeLaCarga'
    BY ConservaLaCarga
  <1> QED  BY <1>1, CargaInicial, PTL DEF SpecDespacho

(* The belt that the zone uses is the one of CintaCarga, so that what is   *)
(* said of it holds there: nobody sleeps for too long, and it implements   *)
(* the queue with a notice.                                                *)
THEOREM CintaEnElDespacho == SpecDespacho => Spec
  <1>1. InitDespacho => Init
    BY DEF InitDespacho
  <1>2. InvarianteDeLaCarga /\ [NextDespacho]_varsDespacho => [Next]_vars
    BY PasoDeLaCinta DEF InvarianteDeLaCarga
  <1> QED  BY <1>1, <1>2, CargaSiempre, PTL DEF SpecDespacho, Spec

-----------------------------------------------------------------------------
(* From the load to the plane.  The containers that robot_carga has sent   *)
(* are numbered in the order in which the only tractor takes them.  The    *)
(* load of a flight are the sequence todos[v] of its containers, and its   *)
(* blocks the numbers from desde[v] + 1 to hasta[v].                       *)

Contenedores == (SUBSET Equipajes) \cup {Basura}

Mensajes == [vuelo : Vuelos, total : Nat, contenedor : Contenedores]

ConBloque == [vuelo : Vuelos, total : Nat, contenedores : Seq(Contenedores)]

(* The blocks that the tractor has still to take: those of its queue, and  *)
(* then those that robot_carga will send as soon as there is room.         *)
PorTomar == cola_tractores \o por_enviar

TiposDeLaSalida(t) ==
  /\ PorTomar \in Seq(ConBloque)
  /\ \A i \in DOMAIN PorTomar :
       Len(PorTomar[i].contenedores) = PorTractor
  /\ DOMAIN bloque = {t}
  /\ bloque[t] = SinBloque \/ bloque[t] \in ConBloque
  /\ cola_aviones \in Seq(Mensajes)
  /\ en_avion \in [Vuelos -> Seq(Contenedores)]
  /\ despego \in [Vuelos -> BOOLEAN]

(* robot_carga has blocks to send only in the loop that sends them.        *)
LosPorEnviar ==
  /\ cola_tractores \in Seq(ConBloque) /\ por_enviar \in Seq(ConBloque)
  /\ pc_robot # "liberar" => por_enviar = <<>>

(* The load of flight v was made into blocks for the tractors. *)
Enviado(v) ==
  \E i \in DOMAIN Orden :
    Orden[i] = v /\ (i < en_zona \/ (i = en_zona /\ pc_robot = "liberar"))

(* The numbers of the loads: one after the other, and as many as sent. *)
Numeracion(todos, desde, hasta, enviados) ==
  /\ \A v \in Vuelos : desde[v] <= hasta[v] /\ hasta[v] <= enviados
  /\ \A v, w \in Vuelos :
       v # w => hasta[v] <= desde[w] \/ hasta[w] <= desde[v]
  /\ \A v \in Vuelos : todos[v] = <<>> => hasta[v] = desde[v]

(* What was sent is the load, and nothing was sent of other flights. *)
CargasEnviadas(todos) ==
  \A v \in Vuelos :
    IF Enviado(v)
    THEN (UNION ToSet(todos[v])) = CargaDe[v] /\ SinCompartir(todos[v])
    ELSE todos[v] = <<>> /\ en_avion[v] = <<>> /\ ~ despego[v]

(* Container c, which comes with flight v and total n, has number g. *)
EsElNumero(g, v, n, c, todos, desde, hasta) ==
  /\ v \in Vuelos /\ n = Len(todos[v])
  /\ desde[v] < g /\ g <= hasta[v]
  /\ c = IF g <= desde[v] + Len(todos[v]) THEN todos[v][g - desde[v]]
                                          ELSE Basura

EnLosTractores(t, todos, desde, hasta, tomados) ==
  /\ \A i \in DOMAIN PorTomar, j \in 1..PorTractor :
       LET b == PorTomar[i] IN
       EsElNumero(tomados + ((i - 1) * PorTractor + j), b.vuelo, b.total,
                  b.contenedores[j], todos, desde, hasta)
  /\ LET b == bloque[t]
         n == Len(b.contenedores)
     IN /\ n <= tomados
        /\ \A j \in 1..n :
             EsElNumero(tomados - n + j, b.vuelo, b.total, b.contenedores[j],
                        todos, desde, hasta)

(* numero[i] is the number of the i-th message of cola_aviones, and cargados   *)
(* that of the last one the tractor has sent.  A message that was sent and *)
(* not received is there.                                                  *)
EnLaColaDeAviones(todos, desde, hasta, cargados, numero) ==
  /\ Len(numero) = Len(cola_aviones)
  /\ \A i, j \in DOMAIN numero : i < j => numero[i] < numero[j]
  /\ \A i \in DOMAIN numero :
       LET m == cola_aviones[i] IN
       /\ EsElNumero(numero[i], m.vuelo, m.total, m.contenedor, todos, desde, hasta)
       /\ desde[m.vuelo] + Len(en_avion[m.vuelo]) < numero[i]
       /\ numero[i] <= cargados
  /\ \A v \in Vuelos, g \in 1..cargados :
       desde[v] + Len(en_avion[v]) < g /\ g <= hasta[v] =>
         \E i \in DOMAIN numero : numero[i] = g /\ cola_aviones[i].vuelo = v

(* A plane has the first containers of its load, and all when it leaves. *)
EnElAvion(todos, desde, cargados) ==
  \A v \in Vuelos :
    LET n == Len(en_avion[v]) IN
    /\ n <= Len(todos[v])
    /\ \A i \in 1..n : en_avion[v][i] = todos[v][i]
    /\ n > 0 => desde[v] + n <= cargados
    /\ IF despego[v] THEN n = Len(todos[v]) ELSE n = 0 \/ n < Len(todos[v])

EnTransito(t, todos, desde, hasta, tomados, numero) ==
  LET cargados == tomados - Len(bloque[t].contenedores) IN
  /\ Numeracion(todos, desde, hasta,
                tomados + Len(PorTomar) * PorTractor)
  /\ CargasEnviadas(todos)
  /\ EnLosTractores(t, todos, desde, hasta, tomados)
  /\ EnLaColaDeAviones(todos, desde, hasta, cargados, numero)
  /\ EnElAvion(todos, desde, cargados)

(* There is such a numbering. *)
HayNumeracion(t) ==
  \E todos \in [Vuelos -> Seq(SUBSET Equipajes)],
     desde \in [Vuelos -> Nat], hasta \in [Vuelos -> Nat],
     tomados \in Nat, numero \in Seq(Nat) :
    EnTransito(t, todos, desde, hasta, tomados, numero)

(* The inductive invariant of the dispatch with the tractor t. *)
InvarianteDelDespacho(t) ==
  /\ InvarianteDeLaCarga
  /\ LosPorEnviar
  /\ TiposDeLaSalida(t)
  /\ HayNumeracion(t)

-----------------------------------------------------------------------------
(* The load as a sequence of containers. *)

(* The k-th of n numbers, for k from 1 to n, is each of them once: the     *)
(* number of those that are not greater goes up from one to the next.      *)
LEMMA CadaEnesimo ==
  ASSUME NEW S \in SUBSET Nat, IsFiniteSet(S)
  PROVE  /\ Cardinality(S) \in Nat
         /\ \A k \in 1..Cardinality(S) : Enesimo(S, k) \in S
         /\ \A x \in S : \E k \in 1..Cardinality(S) : Enesimo(S, k) = x
         /\ \A j, k \in 1..Cardinality(S) :
              j # k => Enesimo(S, j) # Enesimo(S, k)
  <1> DEFINE n == Cardinality(S)
             H(x) == {y \in S : y <= x}
             R == [x \in S |-> Cardinality(H(x))]
  <1>1. n \in Nat
    BY FS_CardinalityType
  <1>2. ASSUME NEW x \in S
        PROVE  IsFiniteSet(H(x)) /\ Cardinality(H(x)) \in 1..n
    <2>1. H(x) \in SUBSET S
      OBVIOUS
    <2>2. IsFiniteSet(H(x)) /\ Cardinality(H(x)) <= n
      BY <2>1, FS_Subset
    <2>3. x \in H(x)
      OBVIOUS
    <2>4. PICK h : h = H(x)
      OBVIOUS
    <2>5. Cardinality(h) \in Nat /\ Cardinality(h) # 0
      BY <2>2, <2>3, <2>4, FS_CardinalityType, FS_EmptySet
    <2> QED  BY <1>1, <2>2, <2>4, <2>5
  <1>3. ASSUME NEW x \in S, NEW z \in S, x < z
        PROVE  Cardinality(H(x)) # Cardinality(H(z))
    <2>1. H(x) \in SUBSET H(z) /\ z \in H(z) /\ z \notin H(x)
      <3>1. S \in SUBSET Nat /\ x \in Nat /\ z \in Nat /\ ~ (z <= x)
        BY <1>3
      <3>2. ASSUME NEW y \in S, y <= x PROVE y <= z
        BY <1>3, <3>1, <3>2
      <3>3. z <= z
        BY <3>1
      <3> QED  BY <3>1, <3>2, <3>3
    <2>2. PICK h, k : h = H(x) /\ k = H(z)
      OBVIOUS
    <2>3. IsFiniteSet(k) /\ h \in SUBSET k /\ h # k
      BY <1>2, <2>1, <2>2
    <2>4. Cardinality(k) # Cardinality(h)
      BY <2>3, FS_Subset
    <2> QED  BY <2>2, <2>4
  <1>4. R \in [S -> 1..n]
    BY <1>2
  <1>5. \A x \in S : R[x] = Cardinality(H(x))
    OBVIOUS
  <1>6. \A x, z \in S : x < z => R[x] # R[z]
    BY <1>3, <1>5
  <1> HIDE DEF R, H
  <1>7. \A x, z \in S : R[x] = R[z] => x = z
    BY <1>6
  <1>8. R \in Injection(S, 1..n)
    BY <1>4, <1>7 DEF Injection, IsInjective
  <1>9. IsFiniteSet(1..n) /\ Cardinality(1..n) = n
    <2>1. IsFiniteSet(1..n) /\ Cardinality(1..n) = IF 1 > n THEN 0 ELSE n - 1 + 1
      BY <1>1, FS_Interval
    <2> QED  BY <1>1, <2>1
  <1>10. R \in Surjection(S, 1..n)
    BY <1>8, <1>9, FS_Injection
  <1>11. \A k \in 1..n : \E x \in S : R[x] = k
    BY <1>10 DEF Surjection
  <1>12. ASSUME NEW k \in 1..n
         PROVE  Enesimo(S, k) \in S /\ R[Enesimo(S, k)] = k
    <2>1. \E x \in S : Cardinality({y \in S : y <= x}) = k
      BY <1>5, <1>11 DEF H
    <2>2. /\ Enesimo(S, k) \in S
          /\ Cardinality({y \in S : y <= Enesimo(S, k)}) = k
      BY <2>1 DEF Enesimo
    <2> QED  BY <1>5, <2>2 DEF H
  <1>13. ASSUME NEW x \in S
         PROVE  \E k \in 1..n : Enesimo(S, k) = x
    <2>1. R[x] \in 1..n
      BY <1>4
    <2>2. Enesimo(S, R[x]) \in S /\ R[Enesimo(S, R[x])] = R[x]
      BY <1>12, <2>1
    <2> QED  BY <1>7, <2>1, <2>2
  <1> QED  BY <1>1, <1>12, <1>13

(* A sequence after another. *)
LEMMA UnaTrasOtra ==
  ASSUME NEW S, NEW q \in Seq(S), NEW r \in Seq(S)
  PROVE  /\ q \o r \in Seq(S) /\ Len(q \o r) = Len(q) + Len(r)
         /\ \A j \in 1..Len(q) + Len(r) :
              (q \o r)[j] = IF j <= Len(q) THEN q[j] ELSE r[j - Len(q)]
  OBVIOUS

(* The containers of one sequence after those of another. *)
LEMMA UnosTrasOtros ==
  ASSUME NEW S, NEW q \in Seq(S), NEW r \in Seq(S)
  PROVE  /\ q \o r \in Seq(S)
         /\ ToSet(q \o r) = ToSet(q) \cup ToSet(r)
         /\ SinCompartir(q) /\ SinCompartir(r)
              /\ (\A i \in DOMAIN q, j \in DOMAIN r : q[i] \cap r[j] = {})
              => SinCompartir(q \o r)
  <1> DEFINE s == q \o r
             n == Len(q)
             m == Len(r)
  <1>1. /\ n \in Nat /\ m \in Nat /\ s \in Seq(S)
        /\ DOMAIN q = 1..n /\ DOMAIN r = 1..m /\ DOMAIN s = 1..n + m
        /\ \A i \in 1..n : s[i] = q[i]
        /\ \A i \in n + 1..n + m : s[i] = r[i - n]
    OBVIOUS
  <1> HIDE DEF s, n, m
  <1>2. \A i \in 1..n + m : i \in 1..n \/ (i \in n + 1..n + m /\ i - n \in 1..m)
    BY <1>1
  <1>3. ToSet(s) \subseteq ToSet(q) \cup ToSet(r)
    BY <1>1, <1>2 DEF ToSet
  <1>4. ToSet(q) \subseteq ToSet(s)
    BY <1>1 DEF ToSet
  <1>5. ToSet(r) \subseteq ToSet(s)
    <2>1. \A i \in 1..m : i + n \in n + 1..n + m /\ i + n \in 1..n + m
                            /\ (i + n) - n = i
      BY <1>1
    <2>2. \A i \in 1..m : i + n \in DOMAIN s /\ s[i + n] = r[i]
      BY <1>1, <2>1
    <2>3. ASSUME NEW i \in DOMAIN r PROVE r[i] \in ToSet(s)
      <3>1. i + n \in DOMAIN s /\ s[i + n] = r[i]
        BY <1>1, <2>2
      <3> QED  BY <3>1 DEF ToSet
    <2> QED  BY <2>3 DEF ToSet
  <1>6. ASSUME SinCompartir(q), SinCompartir(r),
               \A i \in DOMAIN q, j \in DOMAIN r : q[i] \cap r[j] = {},
               NEW i \in DOMAIN s, NEW j \in DOMAIN s, i # j
        PROVE  s[i] \cap s[j] = {}
    <2>1. CASE i \in 1..n /\ j \in 1..n
      BY <1>1, <1>6, <2>1 DEF SinCompartir
    <2>2. CASE i \in 1..n /\ j \in n + 1..n + m /\ j - n \in 1..m
      BY <1>1, <1>6, <2>2
    <2>3. CASE j \in 1..n /\ i \in n + 1..n + m /\ i - n \in 1..m
      BY <1>1, <1>6, <2>3
    <2>4. CASE /\ i \in n + 1..n + m /\ i - n \in 1..m
               /\ j \in n + 1..n + m /\ j - n \in 1..m
      <3>1. i - n # j - n
        BY <1>1, <1>6, <2>4
      <3> QED  BY <1>1, <1>6, <2>4, <3>1 DEF SinCompartir
    <2> QED  BY <1>1, <1>2, <2>1, <2>2, <2>3, <2>4
  <1> QED  BY <1>1, <1>3, <1>4, <1>5, <1>6 DEF s, SinCompartir

(* The containers that are not full, each once. *)
LEMMA RestoDeLaCarga ==
  ASSUME TiposDeLaCarga
  PROVE  /\ Resto \in Seq(SUBSET Equipajes)
         /\ \A i \in DOMAIN Resto : \E x \in 1..CantEscalas :
              Resto[i] = contenedores_por_escala[x] /\ Resto[i] # {}
         /\ \A x \in 1..CantEscalas : contenedores_por_escala[x] # {} =>
              \E i \in DOMAIN Resto : Resto[i] = contenedores_por_escala[x]
         /\ SinCompartir(contenedores_por_escala) => SinCompartir(Resto)
  <1> DEFINE d == contenedores_por_escala
             E == {x \in 1..CantEscalas : d[x] # {}}
             n == Cardinality(E)
             r == [k \in 1..n |-> d[Enesimo(E, k)]]
  <1>1. E \in SUBSET Nat /\ IsFiniteSet(E)
    <2>1. CantEscalas \in Int /\ 1 \in Int
      BY SuposicionDespacho
    <2>2. IsFiniteSet(1..CantEscalas)
      BY <2>1, FS_Interval
    <2>3. E \in SUBSET (1..CantEscalas)
      OBVIOUS
    <2> QED  BY <2>2, <2>3, FS_Subset, SuposicionDespacho
  <1>2. d \in [1..CantEscalas -> SUBSET Equipajes] /\ r = Resto
    BY DEF TiposDeLaCarga, Resto
  <1>3. \A x \in E : x \in 1..CantEscalas /\ d[x] # {}
    OBVIOUS
  <1>4. \A x \in 1..CantEscalas : d[x] # {} => x \in E
    OBVIOUS
  <1>5. DOMAIN r = 1..n /\ \A k \in 1..n : r[k] = d[Enesimo(E, k)]
    OBVIOUS
  <1> HIDE DEF E, d
  <1>6. /\ n \in Nat
        /\ \A k \in 1..n : Enesimo(E, k) \in E
        /\ \A x \in E : \E k \in 1..n : Enesimo(E, k) = x
        /\ \A j, k \in 1..n : j # k => Enesimo(E, j) # Enesimo(E, k)
    BY <1>1, CadaEnesimo
  <1>7. \A k \in 1..n : d[Enesimo(E, k)] \in SUBSET Equipajes
    BY <1>2, <1>3, <1>6
  <1>8. r \in Seq(SUBSET Equipajes)
    BY <1>6, <1>7
  <1> HIDE DEF r, n
  <1>9. \A i \in DOMAIN r : \E x \in 1..CantEscalas : r[i] = d[x] /\ r[i] # {}
    BY <1>3, <1>5, <1>6
  <1>10. \A x \in 1..CantEscalas : d[x] # {} => \E i \in DOMAIN r : r[i] = d[x]
    BY <1>4, <1>5, <1>6
  <1>11. SinCompartir(d) => SinCompartir(r)
    <2>1. DOMAIN d = 1..CantEscalas
      BY <1>2
    <2> QED  BY <1>3, <1>5, <1>6, <2>1 DEF SinCompartir
  <1> QED  BY <1>2, <1>8, <1>9, <1>10, <1>11 DEF d

(* What is sent is the load of the flight, in containers that share no bag. *)
LEMMA CargaEnContenedores ==
  ASSUME InvarianteDeLaCarga, pc_robot = "enviar"
  PROVE  /\ contenedores \o Resto \in Seq(SUBSET Equipajes)
         /\ (UNION ToSet(contenedores \o Resto)) = CargaDe[Orden[en_zona]]
         /\ SinCompartir(contenedores \o Resto)
         /\ contenedores \o Resto # <<>> => numero_de_vuelo = Orden[en_zona]
  <1> USE DEF InvarianteDeLaCarga
  <1> DEFINE d == contenedores_por_escala
             U == UNION {d[x] : x \in 1..CantEscalas}
  <1>1. PICK q \in Seq(SUBSET Equipajes) : q = contenedores
    BY DEF TiposDeLaCarga
  <1>2. PICK r \in Seq(SUBSET Equipajes) : r = Resto
    BY RestoDeLaCarga
  <1>3. /\ \A i \in DOMAIN r : \E x \in 1..CantEscalas : r[i] = d[x] /\ r[i] # {}
        /\ \A x \in 1..CantEscalas :
             d[x] # {} => \E i \in DOMAIN r : r[i] = d[x]
        /\ SinCompartir(r)
    BY <1>2, RestoDeLaCarga DEF UnLugarPorEquipaje, EnUnSoloContenedor
  <1>4. (UNION ToSet(r)) = U
    BY <1>3 DEF ToSet
  <1>5. (UNION ToSet(q)) \cup U = CargaDe[Orden[en_zona]]
    <2>1. Cargados = (UNION ToSet(q)) \cup U
      BY <1>1 DEF Cargados
    <2> QED  BY <2>1, CargaCompleta
  <1>6. SinCompartir(q) /\ \A i \in DOMAIN q, j \in DOMAIN r : q[i] \cap r[j] = {}
    BY <1>1, <1>3 DEF UnLugarPorEquipaje, EnUnSoloContenedor
  <1>7. /\ q \o r \in Seq(SUBSET Equipajes)
        /\ ToSet(q \o r) = ToSet(q) \cup ToSet(r)
        /\ SinCompartir(q \o r)
    BY <1>3, <1>6, UnosTrasOtros
  <1>8. (UNION ToSet(q \o r)) = CargaDe[Orden[en_zona]]
    <2>1. (UNION (ToSet(q) \cup ToSet(r))) = (UNION ToSet(q)) \cup (UNION ToSet(r))
      OBVIOUS
    <2> QED  BY <1>4, <1>5, <1>7, <2>1
  <1>9. q \o r # <<>> => numero_de_vuelo = Orden[en_zona]
    <2>1. CASE q # <<>>
      BY <1>1, <2>1 DEF CuentaDeLaCarga
    <2>2. CASE r # <<>>
      <3>1. 1 \in DOMAIN r
        BY <2>2
      <3>2. PICK x \in 1..CantEscalas : d[x] # {}
        BY <1>3, <3>1
      <3>3. d # SinContenedores
        BY <3>2 DEF SinContenedores
      <3> QED  BY <3>3 DEF CuentaDeLaCarga
    <2>3. CASE q = <<>> /\ r = <<>>
      BY <2>3
    <2> QED  BY <2>1, <2>2, <2>3
  <1> QED  BY <1>1, <1>2, <1>7, <1>8, <1>9

(* The number of blocks, which is none if there is no container. *)
LEMMA CuantosBloques ==
  ASSUME NEW n \in Nat
  PROVE  /\ (n + PorTractor - 1) \div PorTractor \in Nat
         /\ n = 0 => (n + PorTractor - 1) \div PorTractor = 0
  <1>1. PICK P \in Nat : P = PorTractor /\ P > 0
    BY SuposicionDespacho
  <1>2. ASSUME NEW m \in Nat PROVE m \div P \in Nat /\ (m < P => m \div P = 0)
    BY <1>1
  <1>3. n + P - 1 \in Nat /\ (n = 0 => n + P - 1 < P)
    BY <1>1
  <1> QED  BY <1>1, <1>2, <1>3

-----------------------------------------------------------------------------
(* The queue of the planes. *)

(* The least of some numbers is one of them. *)
LEMMA ElPrimero ==
  ASSUME NEW I \in SUBSET Nat, I # {}
  PROVE  Min(I) \in I /\ \A k \in I : Min(I) <= k
  <1>1. \E n \in I : \A k \in I : n <= k
    BY MinimoDeNaturales
  <1> QED  BY <1>1 DEF Min

(* Without one of its elements, a sequence has the others in their order.  *)
LEMMA SinUno ==
  ASSUME NEW S, NEW q \in Seq(S), NEW i \in DOMAIN q
  PROVE  /\ RemoveAt(q, i) \in Seq(S)
         /\ Len(RemoveAt(q, i)) = Len(q) - 1
         /\ \A j \in 1..Len(q) - 1 :
              RemoveAt(q, i)[j] = IF j < i THEN q[j] ELSE q[j + 1]
  <1> DEFINE n == Len(q)
             a == SubSeq(q, 1, i - 1)
             b == SubSeq(q, i + 1, n)
  <1>1. n \in Nat /\ i \in 1..n
    OBVIOUS
  <1>2. /\ a \in Seq(S) /\ Len(a) = i - 1
        /\ \A j \in 1..i - 1 : a[j] = q[j]
    BY <1>1
  <1>3. /\ b \in Seq(S) /\ Len(b) = n - i
        /\ \A j \in 1..n - i : b[j] = q[i + j]
    BY <1>1
  <1>4. RemoveAt(q, i) = a \o b
    BY DEF RemoveAt
  <1> HIDE DEF a, b
  <1>5. /\ a \o b \in Seq(S) /\ Len(a \o b) = n - 1
        /\ \A j \in 1..n - 1 :
             (a \o b)[j] = IF j < i THEN a[j] ELSE b[j - (i - 1)]
    <2>1. /\ a \o b \in Seq(S) /\ Len(a \o b) = Len(a) + Len(b)
          /\ \A j \in 1..Len(a) + Len(b) :
               (a \o b)[j] = IF j <= Len(a) THEN a[j] ELSE b[j - Len(a)]
      BY <1>2, <1>3, UnaTrasOtra
    <2>2. Len(a) + Len(b) = n - 1
      BY <1>1, <1>2, <1>3
    <2>3. \A j \in 1..n - 1 : j <= Len(a) <=> j < i
      BY <1>1, <1>2
    <2> QED  BY <1>2, <2>1, <2>2, <2>3
  <1>6. ASSUME NEW j \in 1..n - 1
        PROVE  (a \o b)[j] = IF j < i THEN q[j] ELSE q[j + 1]
    <2>1. CASE j < i
      BY <1>1, <1>2, <1>5, <2>1
    <2>2. CASE ~ j < i
      <3>1. j - (i - 1) \in 1..n - i /\ i + (j - (i - 1)) = j + 1
        BY <1>1, <2>2
      <3> QED  BY <1>3, <1>5, <2>2, <3>1
    <2> QED  BY <2>1, <2>2
  <1> QED  BY <1>4, <1>5, <1>6

-----------------------------------------------------------------------------
(* The steps from the load to the plane. *)

(* The first element of a sequence that is followed by another one leaves  *)
(* it, or is moved from the second to the end of the first.                *)
LEMMA UnaTrasOtraMenosUno ==
  ASSUME NEW S, NEW q \in Seq(S), NEW r \in Seq(S)
  PROVE  /\ q # <<>> => /\ q \o r # <<>> /\ Head(q \o r) = Head(q)
                         /\ Tail(q \o r) = Tail(q) \o r
         /\ r # <<>> => Append(q, Head(r)) \o Tail(r) = q \o r
  <1>1. ASSUME q # <<>>
        PROVE  /\ q \o r # <<>> /\ Head(q \o r) = Head(q)
               /\ Tail(q \o r) = Tail(q) \o r
    <2> DEFINE z == q \o r
    <2>1. /\ z \in Seq(S) /\ Len(z) = Len(q) + Len(r)
          /\ \A j \in 1..Len(q) + Len(r) :
               z[j] = IF j <= Len(q) THEN q[j] ELSE r[j - Len(q)]
      BY UnaTrasOtra
    <2>2. /\ Len(q) \in Nat /\ Len(q) > 0 /\ Len(r) \in Nat
          /\ Head(q) = q[1] /\ Tail(q) \in Seq(S) /\ Len(Tail(q)) = Len(q) - 1
          /\ \A j \in 1..Len(q) - 1 : Tail(q)[j] = q[j + 1]
      BY <1>1
    <2> HIDE DEF z
    <2>3. z # <<>> /\ Len(z) > 0
      BY <2>1, <2>2
    <2>4. /\ Head(z) = z[1] /\ Tail(z) \in Seq(S) /\ Len(Tail(z)) = Len(z) - 1
          /\ \A j \in 1..Len(z) - 1 : Tail(z)[j] = z[j + 1]
      BY <2>1, <2>3
    <2>5. Head(z) = Head(q)
      BY <2>1, <2>2, <2>4
    <2>6. PICK w \in Seq(S) : w = Tail(q)
      BY <2>2
    <2>7. /\ w \o r \in Seq(S) /\ Len(w \o r) = Len(w) + Len(r)
          /\ \A j \in 1..Len(w) + Len(r) :
               (w \o r)[j] = IF j <= Len(w) THEN w[j] ELSE r[j - Len(w)]
      BY UnaTrasOtra
    <2>8. PICK n \in Nat, m \in Nat : n = Len(q) /\ m = Len(r) /\ n > 0
      BY <2>2
    <2>9. Len(w) = n - 1 /\ Len(Tail(z)) = n - 1 + m /\ Len(w \o r) = n - 1 + m
      BY <2>1, <2>2, <2>4, <2>6, <2>7, <2>8
    <2>10. ASSUME NEW j \in 1..n - 1 + m PROVE Tail(z)[j] = (w \o r)[j]
      <3>1. Tail(z)[j] = IF j + 1 <= n THEN q[j + 1] ELSE r[j + 1 - n]
        <4>1. j + 1 \in 1..n + m /\ j \in 1..(n + m) - 1
          BY <2>8
        <4> QED  BY <2>1, <2>4, <2>8, <4>1
      <3>2. (w \o r)[j] = IF j <= n - 1 THEN w[j] ELSE r[j - (n - 1)]
        BY <2>7, <2>8, <2>9
      <3>3. j <= n - 1 => w[j] = q[j + 1]
        BY <2>2, <2>6, <2>8
      <3>4. (j + 1 <= n <=> j <= n - 1) /\ j + 1 - n = j - (n - 1)
        BY <2>8
      <3> QED  BY <3>1, <3>2, <3>3, <3>4
    <2>11. Tail(z) = w \o r
      BY <2>4, <2>7, <2>9, <2>10, SeqEqual
    <2> QED  BY <2>3, <2>5, <2>6, <2>11 DEF z
  <1>2. ASSUME r # <<>> PROVE Append(q, Head(r)) \o Tail(r) = q \o r
    <2>1. PICK e \in S : e = Head(r)
      BY <1>2
    <2>2. <<e>> \in Seq(S) /\ Tail(r) \in Seq(S) /\ <<e>> \o Tail(r) = r
      BY <1>2, <2>1
    <2>3. Append(q, e) = q \o <<e>>
      OBVIOUS
    <2>4. (q \o <<e>>) \o Tail(r) = q \o (<<e>> \o Tail(r))
      BY <2>2, ConcatAssociative
    <2> QED  BY <2>1, <2>2, <2>3, <2>4
  <1> QED  BY <1>1, <1>2

(* A block that robot_carga sends is no further than it was: PorTomar has  *)
(* those still to send after those of the queue.                           *)
LEMMA BloqueEnviado ==
  ASSUME LosPorEnviar, EnviarBloque
  PROVE  /\ cola_tractores' \in Seq(ConBloque) /\ por_enviar' \in Seq(ConBloque)
         /\ PorTomar' = PorTomar
  <1>1. PICK q \in Seq(ConBloque), r \in Seq(ConBloque) :
          /\ q = cola_tractores /\ r = por_enviar /\ r # <<>>
          /\ cola_tractores' = Append(q, Head(r)) /\ por_enviar' = Tail(r)
    BY DEF LosPorEnviar, EnviarBloque
  <1>2. Append(q, Head(r)) \in Seq(ConBloque) /\ Tail(r) \in Seq(ConBloque)
    BY <1>1
  <1>3. Append(q, Head(r)) \o Tail(r) = q \o r
    BY <1>1, UnaTrasOtraMenosUno
  <1> QED  BY <1>1, <1>2, <1>3 DEF PorTomar

(* The blocks to take, the tractor and the planes stay as they are, and no *)
(* load has been made into blocks since.                                   *)
LEMMA SalidaQuieta ==
  ASSUME NEW t, InvarianteDelDespacho(t),
         UNCHANGED salida \/ EnviarBloque,
         \A v \in Vuelos : Enviado(v)' <=> Enviado(v)
  PROVE  TiposDeLaSalida(t)' /\ HayNumeracion(t)'
  <1>1. UNCHANGED <<PorTomar, bloque, cola_aviones, en_avion, despego>>
    <2>1. CASE UNCHANGED salida
      BY <2>1 DEF salida, PorTomar
    <2>2. CASE EnviarBloque
      <3>1. PorTomar' = PorTomar
        BY <2>2, BloqueEnviado DEF InvarianteDelDespacho
      <3> QED  BY <2>2, <3>1 DEF EnviarBloque
    <2> QED  BY <2>1, <2>2
  <1>2. TiposDeLaSalida(t)'
    BY <1>1 DEF InvarianteDelDespacho, TiposDeLaSalida
  <1>3. PICK todos \in [Vuelos -> Seq(SUBSET Equipajes)],
             desde \in [Vuelos -> Nat], hasta \in [Vuelos -> Nat],
             tomados \in Nat, numero \in Seq(Nat) :
          EnTransito(t, todos, desde, hasta, tomados, numero)
    BY DEF InvarianteDelDespacho, HayNumeracion
  <1>4. CargasEnviadas(todos)'
    BY <1>1, <1>3 DEF EnTransito, CargasEnviadas
  <1>5. EnLosTractores(t, todos, desde, hasta, tomados)'
    BY <1>1, <1>3 DEF EnTransito, EnLosTractores
  <1>6. EnTransito(t, todos, desde, hasta, tomados, numero)'
    <2>1. PICK c : c = tomados - Len(bloque[t].contenedores)
      OBVIOUS
    <2>2. /\ Numeracion(todos, desde, hasta,
                        tomados + Len(PorTomar) * PorTractor)
          /\ EnLaColaDeAviones(todos, desde, hasta, c, numero)
          /\ EnElAvion(todos, desde, c)
      BY <1>3, <2>1 DEF EnTransito
    <2>3. EnLaColaDeAviones(todos, desde, hasta, c, numero)'
      BY <1>1, <2>2 DEF EnLaColaDeAviones
    <2>4. EnElAvion(todos, desde, c)'
      BY <1>1, <2>2 DEF EnElAvion
    <2>5. c = tomados - Len(bloque'[t].contenedores)
      BY <1>1, <2>1
    <2>6. Numeracion(todos, desde, hasta,
                     tomados + Len(PorTomar) * PorTractor)'
      BY <1>1, <2>2
    <2> QED  BY <1>4, <1>5, <2>3, <2>4, <2>5, <2>6 DEF EnTransito
  <1>7. HayNumeracion(t)'
    BY <1>6 DEF HayNumeracion
  <1> QED  BY <1>2, <1>7

(* A block has containers. *)
LEMMA BloqueConLugares == PorTractor \in Nat /\ PorTractor > 0
  BY SuposicionDespacho

(* The numbers of the blocks that wait, when the first of them is taken.   *)
LEMMA NumerosDelResto ==
  ASSUME NEW P \in Nat, NEW n \in Nat, NEW i \in Int, NEW j \in Int
  PROVE  /\ n + (((i + 1) - 1) * P + j) = (n + P) + ((i - 1) * P + j)
         /\ n + ((1 - 1) * P + j) = (n + P) - P + j
         /\ (n + P) + (i - 1) * P = n + i * P
  OBVIOUS

(* The tractor takes the first block: what comes next has the numbers that *)
(* follow those of the block.                                              *)
LEMMA SalidaTrasTomar ==
  ASSUME NEW t, InvarianteDelDespacho(t), TomarBloque(t)
  PROVE  TiposDeLaSalida(t)' /\ HayNumeracion(t)'
  <1> DEFINE P == PorTractor
             ct == PorTomar
  <1>1. PICK todos \in [Vuelos -> Seq(SUBSET Equipajes)],
             desde \in [Vuelos -> Nat], hasta \in [Vuelos -> Nat],
             tomados \in Nat, numero \in Seq(Nat) :
          EnTransito(t, todos, desde, hasta, tomados, numero)
    BY DEF InvarianteDelDespacho, HayNumeracion
  <1>2. /\ bloque[t].contenedores = <<>> /\ ct # <<>>
        /\ bloque' = [bloque EXCEPT ![t] = Head(ct)]
        /\ ct' = Tail(ct)
        /\ UNCHANGED <<cola_aviones, en_avion, despego, en_zona, pc_robot>>
    <2>1. /\ bloque[t].contenedores = <<>> /\ cola_tractores # <<>>
          /\ bloque' = [bloque EXCEPT ![t] = Head(cola_tractores)]
          /\ cola_tractores' = Tail(cola_tractores) /\ por_enviar' = por_enviar
          /\ UNCHANGED <<cola_aviones, en_avion, despego, en_zona, pc_robot>>
      BY DEF TomarBloque, zona, robot
    <2>2. PICK q \in Seq(ConBloque), r \in Seq(ConBloque) :
            q = cola_tractores /\ r = por_enviar
      BY DEF InvarianteDelDespacho, LosPorEnviar
    <2>3. /\ q \o r # <<>> /\ Head(q \o r) = Head(q)
          /\ Tail(q \o r) = Tail(q) \o r
      BY <2>1, <2>2, UnaTrasOtraMenosUno
    <2>4. PorTomar = q \o r /\ PorTomar' = Tail(q) \o r
      BY <2>1, <2>2 DEF PorTomar
    <2> QED  BY <2>1, <2>2, <2>3, <2>4
  <1>3. /\ ct \in Seq(ConBloque) /\ DOMAIN bloque = {t}
        /\ \A i \in DOMAIN ct : Len(ct[i].contenedores) = P
        /\ cola_aviones \in Seq(Mensajes)
        /\ en_avion \in [Vuelos -> Seq(Contenedores)]
        /\ despego \in [Vuelos -> BOOLEAN]
    BY DEF InvarianteDelDespacho, TiposDeLaSalida
  <1>4. PICK q \in Seq(ConBloque) : q = ct
    BY <1>3
  <1>5. /\ Len(q) \in Nat /\ Len(q) > 0 /\ DOMAIN q = 1..Len(q)
        /\ q[1] \in ConBloque /\ Head(q) = q[1]
        /\ Tail(q) \in Seq(ConBloque) /\ Len(Tail(q)) = Len(q) - 1
        /\ DOMAIN Tail(q) = 1..Len(q) - 1
        /\ \A i \in 1..Len(q) - 1 : Tail(q)[i] = q[i + 1]
    BY <1>2, <1>4
  <1>6. bloque'[t] = q[1] /\ DOMAIN bloque' = {t} /\ ct' = Tail(q)
    BY <1>2, <1>3, <1>4, <1>5
  <1>7. Len(q[1].contenedores) = P
    <2>1. \A i \in DOMAIN q : Len(q[i].contenedores) = P
      BY <1>3, <1>4
    <2>2. 1 \in DOMAIN q
      BY <1>5
    <2> QED  BY <2>1, <2>2
  <1>8. TiposDeLaSalida(t)'
    <2>1. \A i \in DOMAIN Tail(q) : Len(Tail(q)[i].contenedores) = P
      <3>1. \A i \in 1..Len(q) - 1 : i + 1 \in 1..Len(q)
        BY <1>5
      <3> QED  BY <1>3, <1>4, <1>5, <3>1
    <2> QED  BY <1>2, <1>3, <1>5, <1>6, <2>1 DEF TiposDeLaSalida
  <1>9. PICK luego \in Nat : luego = tomados + P
    BY BloqueConLugares
  <1>10. /\ luego + Len(ct') * P = tomados + Len(ct) * P
         /\ luego - Len(bloque'[t].contenedores)
              = tomados - Len(bloque[t].contenedores)
    <2>1. luego + (Len(q) - 1) * P = tomados + Len(q) * P
      BY <1>5, <1>9, BloqueConLugares, NumerosDelResto
    <2>2. luego - P = tomados - 0
      BY <1>9, BloqueConLugares
    <2>3. Len(bloque[t].contenedores) = 0
      BY <1>2
    <2> QED  BY <1>4, <1>5, <1>6, <1>7, <2>1, <2>2, <2>3
  <1>11. EnLosTractores(t, todos, desde, hasta, luego)'
    <2>1. \A i \in DOMAIN q, j \in 1..P :
            EsElNumero(tomados + ((i - 1) * P + j), q[i].vuelo, q[i].total,
                       q[i].contenedores[j], todos, desde, hasta)
      BY <1>1, <1>4 DEF EnTransito, EnLosTractores
    <2>2. ASSUME NEW i \in 1..Len(q) - 1, NEW j \in 1..P
          PROVE  EsElNumero(luego + ((i - 1) * P + j), q[i + 1].vuelo,
                            q[i + 1].total, q[i + 1].contenedores[j],
                            todos, desde, hasta)
      <3>1. i + 1 \in DOMAIN q
        BY <1>5
      <3>2. tomados + (((i + 1) - 1) * P + j) = luego + ((i - 1) * P + j)
        BY <1>9, BloqueConLugares, NumerosDelResto
      <3> QED  BY <2>1, <3>1, <3>2
    <2>3. ASSUME NEW j \in 1..P
          PROVE  EsElNumero(luego - P + j, q[1].vuelo, q[1].total,
                            q[1].contenedores[j], todos, desde, hasta)
      <3>1. tomados + ((1 - 1) * P + j) = luego - P + j
        BY <1>9, BloqueConLugares, NumerosDelResto
      <3>2. 1 \in DOMAIN q
        BY <1>5
      <3> QED  BY <2>1, <3>1, <3>2
    <2>4. P <= luego
      BY <1>9, BloqueConLugares
    <2> QED  BY <1>5, <1>6, <1>7, <2>2, <2>3, <2>4 DEF EnLosTractores
  <1>12. CargasEnviadas(todos)'
    <2>1. \A v : Enviado(v)' <=> Enviado(v)
      BY <1>2 DEF Enviado
    <2> QED  BY <1>1, <1>2, <2>1 DEF EnTransito, CargasEnviadas
  <1>13. EnTransito(t, todos, desde, hasta, luego, numero)'
    <2>1. PICK c : c = tomados - Len(bloque[t].contenedores)
      OBVIOUS
    <2>2. Numeracion(todos, desde, hasta, luego + Len(ct') * P)
      BY <1>1, <1>10 DEF EnTransito
    <2>3. EnLaColaDeAviones(todos, desde, hasta, c, numero)'
      BY <1>1, <1>2, <2>1 DEF EnTransito, EnLaColaDeAviones
    <2>4. EnElAvion(todos, desde, c)'
      BY <1>1, <1>2, <2>1 DEF EnTransito, EnElAvion
    <2>5. c = luego - Len(bloque'[t].contenedores)
      BY <1>10, <2>1
    <2> QED  BY <1>11, <1>12, <2>2, <2>3, <2>4, <2>5 DEF EnTransito
  <1> QED  BY <1>8, <1>13 DEF HayNumeracion

(* The tractor sends a container to the plane: it has the number that      *)
(* follows those sent before, and no plane has received it.                *)
LEMMA SalidaTrasCargar ==
  ASSUME NEW t, InvarianteDelDespacho(t), CargarContenedorEnAvion(t)
  PROVE  TiposDeLaSalida(t)' /\ HayNumeracion(t)'
  <1> DEFINE ct == PorTomar
  <1>1. PICK todos \in [Vuelos -> Seq(SUBSET Equipajes)],
             desde \in [Vuelos -> Nat], hasta \in [Vuelos -> Nat],
             tomados \in Nat, numero \in Seq(Nat) :
          EnTransito(t, todos, desde, hasta, tomados, numero)
    BY DEF InvarianteDelDespacho, HayNumeracion
  <1>2. /\ ct \in Seq(ConBloque) /\ DOMAIN bloque = {t}
        /\ \A i \in DOMAIN ct : Len(ct[i].contenedores) = PorTractor
        /\ bloque[t] = SinBloque \/ bloque[t] \in ConBloque
        /\ cola_aviones \in Seq(Mensajes)
        /\ en_avion \in [Vuelos -> Seq(Contenedores)]
        /\ despego \in [Vuelos -> BOOLEAN]
    BY DEF InvarianteDelDespacho, TiposDeLaSalida
  <1>3. PICK b \in ConBloque : b = bloque[t] /\ b.contenedores # <<>>
    BY <1>2 DEF CargarContenedorEnAvion, SinBloque
  <1>4. PICK v \in Vuelos : v = b.vuelo
    BY DEF ConBloque
  <1>5. PICK c \in Seq(Contenedores) : c = b.contenedores /\ c # <<>>
    BY <1>3 DEF ConBloque
  <1>6. PICK m \in Mensajes : m = [vuelo |-> v, total |-> b.total,
                                   contenedor |-> c[1]]
    <2>1. b.total \in Nat
      BY DEF ConBloque
    <2>2. c[1] \in Contenedores
      BY <1>5
    <2> QED  BY <2>1, <2>2 DEF Mensajes
  <1>7. PICK a \in Seq(Mensajes) : a = cola_aviones
    BY <1>2
  <1>8. /\ Len(c) \in Nat /\ Len(c) > 0 /\ Head(c) = c[1]
        /\ Tail(c) \in Seq(Contenedores) /\ Len(Tail(c)) = Len(c) - 1
        /\ \A j \in 1..Len(c) - 1 : Tail(c)[j] = c[j + 1]
    BY <1>5
  <1>9. PICK b2 \in ConBloque : /\ b2.vuelo = v /\ b2.total = b.total
                                /\ b2.contenedores = Tail(c)
                                /\ b2 = [b EXCEPT !.contenedores = Tail(c)]
    BY <1>4, <1>8 DEF ConBloque
  <1>10. /\ cola_aviones' = Append(a, m)
         /\ bloque' = [bloque EXCEPT ![t] = b2]
         /\ UNCHANGED <<PorTomar, en_avion, despego, en_zona, pc_robot>>
    <2>1. /\ cola_aviones' = Append(cola_aviones,
               [vuelo |-> bloque[t].vuelo, total |-> bloque[t].total,
                contenedor |-> Head(bloque[t].contenedores)])
          /\ bloque' = [bloque EXCEPT ![t] =
               [bloque[t] EXCEPT !.contenedores = Tail(bloque[t].contenedores)]]
          /\ UNCHANGED <<PorTomar, en_avion, despego, en_zona, pc_robot>>
      BY DEF CargarContenedorEnAvion, zona, robot, PorTomar
    <2> QED  BY <1>3, <1>4, <1>5, <1>6, <1>7, <1>8, <1>9, <2>1
  <1>11. bloque'[t] = b2 /\ DOMAIN bloque' = {t}
    BY <1>2, <1>10
  <1>12. TiposDeLaSalida(t)'
    <2>1. cola_aviones' \in Seq(Mensajes)
      BY <1>10
    <2> QED  BY <1>2, <1>10, <1>11, <2>1 DEF TiposDeLaSalida
  <1>13. PICK cargados : cargados = tomados - Len(c)
    OBVIOUS
  <1>14. PICK k : k = cargados + 1
    OBVIOUS
  <1>15. /\ Len(c) <= tomados
         /\ \A j \in 1..Len(c) :
              EsElNumero(tomados - Len(c) + j, v, b.total, c[j],
                         todos, desde, hasta)
    BY <1>1, <1>3, <1>4, <1>5 DEF EnTransito, EnLosTractores
  <1>16. cargados \in Nat /\ k \in Nat
    BY <1>8, <1>13, <1>14, <1>15
  <1>17. EsElNumero(k, v, b.total, c[1], todos, desde, hasta)
    <2>1. 1 \in 1..Len(c) /\ k = tomados - Len(c) + 1
      BY <1>8, <1>13, <1>14
    <2> QED  BY <1>15, <2>1
  <1>18. desde[v] < k /\ k <= hasta[v]
    BY <1>17 DEF EsElNumero
  <1>19. EnLosTractores(t, todos, desde, hasta, tomados)'
    <2>1. ASSUME NEW j \in 1..Len(c) - 1
          PROVE  EsElNumero(tomados - (Len(c) - 1) + j, v, b.total, Tail(c)[j],
                            todos, desde, hasta)
      <3>1. /\ j + 1 \in 1..Len(c)
            /\ tomados - Len(c) + (j + 1) = tomados - (Len(c) - 1) + j
        BY <1>8
      <3> QED  BY <1>8, <1>15, <3>1
    <2>2. Len(c) - 1 <= tomados
      BY <1>8, <1>15
    <2>3. \A i \in DOMAIN PorTomar, j \in 1..PorTractor :
            EsElNumero(tomados + ((i - 1) * PorTractor + j),
                       PorTomar[i].vuelo, PorTomar[i].total,
                       PorTomar[i].contenedores[j], todos, desde, hasta)
      BY <1>1 DEF EnTransito, EnLosTractores
    <2> QED  BY <1>8, <1>9, <1>10, <1>11, <2>1, <2>2, <2>3 DEF EnLosTractores
  <1>20. CargasEnviadas(todos)'
    <2>1. \A w : Enviado(w)' <=> Enviado(w)
      BY <1>10 DEF Enviado
    <2> QED  BY <1>1, <1>10, <2>1 DEF EnTransito, CargasEnviadas
  <1>21. EnElAvion(todos, desde, cargados)
    BY <1>1, <1>3, <1>5, <1>13 DEF EnTransito
  <1>22. EnElAvion(todos, desde, k)'
    <2>1. \A w \in Vuelos : desde[w] + Len(en_avion[w]) <= cargados =>
                              desde[w] + Len(en_avion[w]) <= k
      <3>1. \A w \in Vuelos : desde[w] + Len(en_avion[w]) \in Nat
        BY <1>2
      <3>2. ASSUME NEW x \in Nat, x <= cargados PROVE x <= k
        BY <1>14, <1>16, <3>2
      <3> QED  BY <3>1, <3>2
    <2> QED  BY <1>10, <1>21, <2>1 DEF EnElAvion
  <1>23. PICK numero2 \in Seq(Nat) : numero2 = Append(numero, k)
    <2>1. ASSUME NEW x \in Nat PROVE Append(numero, x) \in Seq(Nat)
      OBVIOUS
    <2> QED  BY <1>16, <2>1
  <1>24. EnLaColaDeAviones(todos, desde, hasta, cargados, numero)
    BY <1>1, <1>3, <1>5, <1>13 DEF EnTransito
  <1>25. PICK n \in Nat : n = Len(numero) /\ n = Len(a)
    BY <1>7, <1>24 DEF EnLaColaDeAviones
  <1>26. /\ DOMAIN numero = 1..n /\ DOMAIN numero2 = 1..n + 1
         /\ Len(numero2) = n + 1 /\ numero2[n + 1] = k
         /\ \A i \in 1..n : numero2[i] = numero[i]
         /\ \A i \in 1..n : numero[i] \in Nat
    <2>1. ASSUME NEW x \in Nat
          PROVE  /\ DOMAIN Append(numero, x) = 1..Len(numero) + 1
                 /\ Len(Append(numero, x)) = Len(numero) + 1
                 /\ Append(numero, x)[Len(numero) + 1] = x
                 /\ \A i \in 1..Len(numero) : Append(numero, x)[i] = numero[i]
      OBVIOUS
    <2>2. ASSUME NEW s \in Seq(Nat)
          PROVE  DOMAIN s = 1..Len(s) /\ \A i \in 1..Len(s) : s[i] \in Nat
      OBVIOUS
    <2>3. DOMAIN numero = 1..n /\ \A i \in 1..n : numero[i] \in Nat
      BY <1>25, <2>2
    <2> QED  BY <1>16, <1>23, <1>25, <2>1, <2>3
  <1>27. /\ Len(cola_aviones') = n + 1 /\ cola_aviones'[n + 1] = m
         /\ \A i \in 1..n : cola_aviones'[i] = a[i]
    BY <1>10, <1>25
  <1>28. EnLaColaDeAviones(todos, desde, hasta, k, numero2)'
    <2>1. ASSUME NEW i \in DOMAIN numero2, NEW j \in DOMAIN numero2, i < j
          PROVE  numero2[i] < numero2[j]
      <3>1. i \in 1..n
        BY <1>26, <2>1
      <3>2. CASE j \in 1..n
        BY <1>24, <1>26, <2>1, <3>1, <3>2 DEF EnLaColaDeAviones
      <3>3. CASE j = n + 1
        <4>1. numero[i] <= cargados /\ numero[i] \in Nat
          BY <1>24, <1>26, <3>1 DEF EnLaColaDeAviones
        <4> QED  BY <1>14, <1>16, <1>26, <3>1, <3>3, <4>1
      <3> QED  BY <1>26, <3>2, <3>3
    <2>2. ASSUME NEW i \in 1..n
          PROVE  /\ EsElNumero(numero2[i], cola_aviones'[i].vuelo,
                               cola_aviones'[i].total,
                               cola_aviones'[i].contenedor, todos, desde, hasta)
                 /\ desde[cola_aviones'[i].vuelo]
                      + Len(en_avion[cola_aviones'[i].vuelo]) < numero2[i]
                 /\ numero2[i] <= k
      <3>1. /\ EsElNumero(numero[i], a[i].vuelo, a[i].total, a[i].contenedor,
                          todos, desde, hasta)
            /\ desde[a[i].vuelo] + Len(en_avion[a[i].vuelo]) < numero[i]
            /\ numero[i] <= cargados
        BY <1>7, <1>24, <1>26 DEF EnLaColaDeAviones
      <3>2. numero[i] \in Nat /\ numero[i] <= k
        BY <1>14, <1>16, <1>26, <3>1
      <3> QED  BY <1>26, <1>27, <3>1, <3>2
    <2>3. desde[v] + Len(en_avion[v]) < k
      <3>1. desde[v] \in Nat /\ Len(en_avion[v]) \in Nat
        BY <1>2
      <3>2. Len(en_avion[v]) > 0 => desde[v] + Len(en_avion[v]) <= cargados
        BY <1>21 DEF EnElAvion
      <3> QED  BY <1>14, <1>16, <1>18, <3>1, <3>2
    <2>4. /\ EsElNumero(numero2[n + 1], m.vuelo, m.total, m.contenedor,
                        todos, desde, hasta)
          /\ desde[m.vuelo] + Len(en_avion[m.vuelo]) < numero2[n + 1]
          /\ numero2[n + 1] <= k
      BY <1>6, <1>16, <1>17, <1>26, <2>3
    <2>5. ASSUME NEW w \in Vuelos, NEW g \in 1..k,
                 desde[w] + Len(en_avion[w]) < g, g <= hasta[w]
          PROVE  \E i \in DOMAIN numero2 :
                   numero2[i] = g /\ cola_aviones'[i].vuelo = w
      <3>1. CASE g = k
        <4>1. desde[w] < k /\ k <= hasta[w]
          <5>1. PICK d \in Nat, x \in Nat : d = desde[w] /\ x = Len(en_avion[w])
            BY <1>2
          <5>2. d + x < k => d < k
            BY <1>16
          <5> QED  BY <2>5, <3>1, <5>1, <5>2
        <4>2. \A x, y \in Vuelos :
                x # y => hasta[x] <= desde[y] \/ hasta[y] <= desde[x]
          BY <1>1 DEF EnTransito, Numeracion
        <4>3. w = v
          <5>1. /\ desde[w] \in Nat /\ hasta[w] \in Nat
                /\ desde[v] \in Nat /\ hasta[v] \in Nat
            OBVIOUS
          <5>2. ~ (hasta[w] <= desde[v]) /\ ~ (hasta[v] <= desde[w])
            BY <1>16, <1>18, <4>1, <5>1
          <5> QED  BY <4>2, <5>2
        <4>4. n + 1 \in DOMAIN numero2 /\ cola_aviones'[n + 1].vuelo = v
          BY <1>6, <1>26, <1>27
        <4> QED  BY <1>26, <3>1, <4>3, <4>4
      <3>2. CASE g \in 1..cargados
        <4>1. PICK i \in DOMAIN numero :
                numero[i] = g /\ cola_aviones[i].vuelo = w
          <5>1. \A y \in Vuelos, e \in 1..cargados :
                  desde[y] + Len(en_avion[y]) < e /\ e <= hasta[y] =>
                    \E i \in DOMAIN numero :
                      numero[i] = e /\ cola_aviones[i].vuelo = y
            BY <1>24 DEF EnLaColaDeAviones
          <5> QED  BY <2>5, <3>2, <5>1
        <4>2. i \in DOMAIN numero2
          BY <1>26
        <4>3. numero2[i] = g /\ cola_aviones'[i].vuelo = w
          BY <1>7, <1>26, <1>27, <4>1
        <4> QED  BY <4>2, <4>3
      <3> QED  BY <1>14, <1>16, <3>1, <3>2
    <2>6. ASSUME NEW i \in DOMAIN numero2
          PROVE  /\ EsElNumero(numero2[i], cola_aviones'[i].vuelo,
                               cola_aviones'[i].total,
                               cola_aviones'[i].contenedor, todos, desde, hasta)
                 /\ desde[cola_aviones'[i].vuelo]
                      + Len(en_avion[cola_aviones'[i].vuelo]) < numero2[i]
                 /\ numero2[i] <= k
      <3>1. i \in 1..n \/ i = n + 1
        BY <1>26
      <3> QED  BY <1>27, <2>2, <2>4, <3>1
    <2>7. Len(numero2) = Len(cola_aviones')
      BY <1>26, <1>27
    <2> QED
      BY <1>10, <2>1, <2>5, <2>6, <2>7 DEF EnLaColaDeAviones
  <1>29. EnTransito(t, todos, desde, hasta, tomados, numero2)'
    <2>1. k = tomados - Len(bloque'[t].contenedores)
      BY <1>8, <1>9, <1>11, <1>13, <1>14
    <2>2. Numeracion(todos, desde, hasta,
                     tomados + Len(PorTomar) * PorTractor)'
      BY <1>1, <1>10 DEF EnTransito
    <2> QED  BY <1>19, <1>20, <1>22, <1>28, <2>1, <2>2 DEF EnTransito
  <1> QED  BY <1>12, <1>23, <1>29 DEF HayNumeracion

(* A plane receives the container that follows those it has: the first     *)
(* message of its flight has the next number.  So what it receives is the  *)
(* next of its load, and it leaves when it has all of them.                *)
LEMMA SalidaTrasRecibir ==
  ASSUME NEW t, InvarianteDelDespacho(t), NEW v \in Vuelos, RecibirContenedor(v)
  PROVE  TiposDeLaSalida(t)' /\ HayNumeracion(t)'
  <1>1. PICK todos \in [Vuelos -> Seq(SUBSET Equipajes)],
             desde \in [Vuelos -> Nat], hasta \in [Vuelos -> Nat],
             tomados \in Nat, numero \in Seq(Nat) :
          EnTransito(t, todos, desde, hasta, tomados, numero)
    BY DEF InvarianteDelDespacho, HayNumeracion
  <1>2. /\ PorTomar \in Seq(ConBloque) /\ DOMAIN bloque = {t}
        /\ \A j \in DOMAIN PorTomar :
             Len(PorTomar[j].contenedores) = PorTractor
        /\ bloque[t] = SinBloque \/ bloque[t] \in ConBloque
        /\ cola_aviones \in Seq(Mensajes)
        /\ en_avion \in [Vuelos -> Seq(Contenedores)]
        /\ despego \in [Vuelos -> BOOLEAN]
    BY DEF InvarianteDelDespacho, TiposDeLaSalida
  <1>3. PICK cargados : cargados = tomados - Len(bloque[t].contenedores)
    OBVIOUS
  <1>4. /\ EnLaColaDeAviones(todos, desde, hasta, cargados, numero)
        /\ EnElAvion(todos, desde, cargados)
        /\ CargasEnviadas(todos)
    BY <1>1, <1>3 DEF EnTransito
  <1>5. PICK a \in Seq(Mensajes) : a = cola_aviones
    BY <1>2
  <1>6. PICK i : i = SelectInSeq(cola_aviones, LAMBDA m : m.vuelo = v)
    OBVIOUS
  <1>7. /\ ~ despego[v] /\ i # 0
        /\ en_avion' = [en_avion EXCEPT ![v] = Append(@, a[i].contenedor)]
        /\ despego' = [despego EXCEPT ![v] = Len(en_avion'[v]) >= a[i].total]
        /\ cola_aviones' = RemoveAt(a, i)
        /\ UNCHANGED <<en_zona, pc_robot, PorTomar, bloque>>
    BY <1>5, <1>6 DEF RecibirContenedor, zona, robot, PorTomar
  <1>8. /\ i \in DOMAIN a /\ a[i].vuelo = v
        /\ \A j \in DOMAIN a : a[j].vuelo = v => i <= j
    <2> DEFINE I == {j \in 1..Len(a) : a[j].vuelo = v}
    <2>1. i = IF I # {} THEN Min(I) ELSE 0
      BY <1>5, <1>6 DEF SelectInSeq
    <2>2. I \in SUBSET Nat
      OBVIOUS
    <2>3. I # {} /\ i = Min(I)
      BY <1>7, <2>1
    <2>4. DOMAIN a = 1..Len(a)
      OBVIOUS
    <2>5. \A j : j \in I <=> j \in 1..Len(a) /\ a[j].vuelo = v
      OBVIOUS
    <2> HIDE DEF I
    <2>6. i \in I /\ \A k \in I : i <= k
      BY <2>2, <2>3, ElPrimero
    <2> QED  BY <2>4, <2>5, <2>6
  <1>9. PICK n \in Nat : n = Len(en_avion[v])
    BY <1>2
  <1>10. PICK q \in Seq(Nat) : q = numero
    OBVIOUS
  <1>11. DOMAIN q = 1..Len(a) /\ Len(q) = Len(a) /\ DOMAIN a = 1..Len(a)
    BY <1>4, <1>5, <1>10 DEF EnLaColaDeAviones
  <1>12. ASSUME NEW j \in DOMAIN a
         PROVE  /\ EsElNumero(q[j], a[j].vuelo, a[j].total, a[j].contenedor,
                              todos, desde, hasta)
                /\ desde[a[j].vuelo] + Len(en_avion[a[j].vuelo]) < q[j]
                /\ q[j] <= cargados /\ q[j] \in Nat
    BY <1>4, <1>5, <1>10, <1>11 DEF EnLaColaDeAviones
  <1>13. \A j, k \in DOMAIN a : j < k => q[j] < q[k]
    BY <1>4, <1>10, <1>11 DEF EnLaColaDeAviones
  <1>14. ASSUME NEW w \in Vuelos, NEW g \in 1..cargados,
                desde[w] + Len(en_avion[w]) < g, g <= hasta[w]
         PROVE  \E j \in DOMAIN a : q[j] = g /\ a[j].vuelo = w
    BY <1>4, <1>5, <1>10, <1>11, <1>14 DEF EnLaColaDeAviones
  <1>15. /\ EsElNumero(q[i], v, a[i].total, a[i].contenedor,
                       todos, desde, hasta)
         /\ desde[v] + n < q[i] /\ q[i] <= cargados /\ q[i] \in Nat
         /\ desde[v] \in Nat /\ hasta[v] \in Nat
    BY <1>8, <1>9, <1>12
  <1>16. q[i] = desde[v] + n + 1
    <2>1. PICK g : g = desde[v] + n + 1
      OBVIOUS
    <2>2. g \in Nat /\ g > 0 /\ g <= q[i] /\ desde[v] + n < g
      <3>1. ASSUME NEW x \in Nat, NEW y \in Nat, NEW z \in Nat, x + y < z
            PROVE  /\ x + y + 1 \in Nat /\ x + y + 1 > 0
                   /\ x + y + 1 <= z /\ x + y < x + y + 1
        BY <3>1
      <3> QED  BY <1>9, <1>15, <2>1, <3>1
    <2>3. q[i] <= hasta[v]
      BY <1>15 DEF EsElNumero
    <2>4. g <= hasta[v] /\ g <= cargados
      <3>1. cargados \in Int
        <4>1. Len(bloque[t].contenedores) \in Nat
          BY <1>2 DEF ConBloque, SinBloque
        <4> QED  BY <1>3, <4>1
      <3> QED  BY <1>15, <2>2, <2>3, <3>1
    <2>5. g \in 1..cargados
      <3>1. cargados \in Int
        <4>1. Len(bloque[t].contenedores) \in Nat
          BY <1>2 DEF ConBloque, SinBloque
        <4> QED  BY <1>3, <4>1
      <3> QED  BY <2>2, <2>4, <3>1
    <2>6. PICK j \in DOMAIN a : q[j] = g /\ a[j].vuelo = v
      BY <1>9, <1>14, <2>2, <2>4, <2>5
    <2>7. i <= j /\ i \in Nat /\ j \in Nat
      BY <1>8, <1>11, <2>6
    <2>8. i = j \/ i < j
      BY <2>7
    <2>9. i < j => q[i] < q[j]
      BY <1>8, <1>13, <2>6
    <2>10. ~ (q[i] < g)
      BY <1>15, <2>2
    <2> QED  BY <2>1, <2>6, <2>8, <2>9, <2>10
  <1>17. PICK s \in Seq(SUBSET Equipajes) : s = todos[v]
    OBVIOUS
  <1>18. /\ n <= Len(s) /\ (n = 0 \/ n < Len(s))
         /\ \A j \in 1..n : en_avion[v][j] = s[j]
    BY <1>4, <1>7, <1>9, <1>17 DEF EnElAvion
  <1>19. a[i].total = Len(s) /\ Len(s) > 0 /\ n + 1 <= Len(s)
    <2>1. a[i].total = Len(s) /\ desde[v] < q[i] /\ q[i] <= hasta[v]
      BY <1>15, <1>17 DEF EsElNumero
    <2>2. s = <<>> => hasta[v] = desde[v]
      BY <1>1, <1>17 DEF EnTransito, Numeracion
    <2>3. s # <<>>
      BY <1>15, <2>1, <2>2
    <2>4. Len(s) \in Nat /\ Len(s) > 0
      BY <2>3
    <2> QED  BY <1>18, <2>1, <2>4
  <1>20. a[i].contenedor = s[n + 1]
    <2>1. /\ q[i] <= desde[v] + Len(s) /\ q[i] - desde[v] = n + 1
      <3>1. PICK d \in Nat, m \in Nat : d = desde[v] /\ m = Len(s)
        BY <1>15
      <3>2. q[i] = d + n + 1 /\ n + 1 <= m
        BY <1>16, <1>19, <3>1
      <3>3. d + n + 1 <= d + m /\ (d + n + 1) - d = n + 1
        BY <3>2
      <3> QED  BY <3>1, <3>2, <3>3
    <2>2. a[i].contenedor = IF q[i] <= desde[v] + Len(s)
                            THEN s[q[i] - desde[v]] ELSE Basura
      BY <1>15, <1>17 DEF EsElNumero
    <2> QED  BY <2>1, <2>2
  <1>21. /\ s[n + 1] \in Contenedores /\ en_avion[v] \in Seq(Contenedores)
    <2>1. n + 1 \in 1..Len(s)
      BY <1>19
    <2> QED  BY <1>2, <2>1 DEF Contenedores
  <1>22. PICK c \in Seq(Contenedores) : c = Append(en_avion[v], s[n + 1])
    <2>1. ASSUME NEW p \in Seq(Contenedores), NEW x \in Contenedores
          PROVE  Append(p, x) \in Seq(Contenedores)
      OBVIOUS
    <2> QED  BY <1>21, <2>1
  <1>23. /\ Len(c) = n + 1
         /\ \A j \in 1..n + 1 : c[j] = s[j]
    <2>1. PICK p \in Seq(Contenedores) : p = en_avion[v]
      BY <1>2
    <2>2. PICK x \in Contenedores : x = s[n + 1]
      BY <1>21
    <2>3. /\ Len(Append(p, x)) = Len(p) + 1 /\ Append(p, x)[Len(p) + 1] = x
          /\ \A j \in 1..Len(p) : Append(p, x)[j] = p[j]
      OBVIOUS
    <2>4. Len(p) = n /\ \A j \in 1..n : p[j] = s[j]
      BY <1>9, <1>18, <2>1
    <2>5. \A j \in 1..n + 1 : j \in 1..n \/ j = n + 1
      OBVIOUS
    <2> QED  BY <1>22, <2>1, <2>2, <2>3, <2>4, <2>5
  <1>24. /\ en_avion'[v] = c
         /\ \A w \in Vuelos \ {v} : en_avion'[w] = en_avion[w]
         /\ en_avion' \in [Vuelos -> Seq(Contenedores)]
    BY <1>2, <1>7, <1>20, <1>22
  <1>25. /\ despego'[v] <=> n + 1 = Len(s)
         /\ \A w \in Vuelos \ {v} : despego'[w] = despego[w]
         /\ despego' \in [Vuelos -> BOOLEAN]
    <2>1. (Len(en_avion'[v]) >= a[i].total) <=> n + 1 = Len(s)
      BY <1>19, <1>23, <1>24
    <2>2. (Len(en_avion'[v]) >= a[i].total) \in BOOLEAN
      OBVIOUS
    <2>3. despego'[v] = (Len(en_avion'[v]) >= a[i].total)
      BY <1>2, <1>7
    <2> QED  BY <1>2, <1>7, <2>1, <2>2, <2>3
  <1>26. /\ RemoveAt(a, i) \in Seq(Mensajes) /\ Len(RemoveAt(a, i)) = Len(a) - 1
         /\ \A j \in 1..Len(a) - 1 :
              RemoveAt(a, i)[j] = IF j < i THEN a[j] ELSE a[j + 1]
    BY <1>8, SinUno
  <1>27. /\ RemoveAt(q, i) \in Seq(Nat) /\ Len(RemoveAt(q, i)) = Len(a) - 1
         /\ \A j \in 1..Len(a) - 1 :
              RemoveAt(q, i)[j] = IF j < i THEN q[j] ELSE q[j + 1]
    <2>1. i \in DOMAIN q
      BY <1>8, <1>11
    <2>2. /\ RemoveAt(q, i) \in Seq(Nat) /\ Len(RemoveAt(q, i)) = Len(q) - 1
          /\ \A j \in 1..Len(q) - 1 :
               RemoveAt(q, i)[j] = IF j < i THEN q[j] ELSE q[j + 1]
      BY <2>1, SinUno
    <2> QED  BY <1>11, <2>2
  <1>28. TiposDeLaSalida(t)'
    BY <1>2, <1>7, <1>24, <1>25, <1>26 DEF TiposDeLaSalida
  <1>29. CargasEnviadas(todos)'
    <2>1. \A w : Enviado(w)' <=> Enviado(w)
      BY <1>7 DEF Enviado
    <2>2. Enviado(v)
      <3>1. s # <<>>
        BY <1>19
      <3> QED  BY <1>4, <1>17, <3>1 DEF CargasEnviadas
    <2> QED  BY <1>4, <1>24, <1>25, <2>1, <2>2 DEF CargasEnviadas
  <1>30. EnLosTractores(t, todos, desde, hasta, tomados)'
    BY <1>1, <1>7 DEF EnTransito, EnLosTractores
  <1>31. EnElAvion(todos, desde, cargados)'
    <2>1. desde[v] + (n + 1) <= cargados
      <3>1. ASSUME NEW d \in Nat PROVE d + n + 1 = d + (n + 1)
        OBVIOUS
      <3> QED  BY <1>15, <1>16, <3>1
    <2>2. IF despego'[v] THEN n + 1 = Len(s)
                         ELSE n + 1 = 0 \/ n + 1 < Len(s)
      <3>1. CASE n + 1 = Len(s)
        BY <1>25, <3>1
      <3>2. CASE n + 1 # Len(s)
        <4>1. ~ despego'[v]
          BY <1>25, <3>2
        <4>2. n + 1 < Len(s)
          BY <1>9, <1>19, <3>2
        <4> QED  BY <4>1, <4>2
      <3> QED  BY <3>1, <3>2
    <2>3. ASSUME NEW w \in Vuelos
          PROVE  LET m == Len(en_avion'[w]) IN
                 /\ m <= Len(todos[w])
                 /\ \A j \in 1..m : en_avion'[w][j] = todos[w][j]
                 /\ m > 0 => desde[w] + m <= cargados
                 /\ IF despego'[w] THEN m = Len(todos[w])
                                   ELSE m = 0 \/ m < Len(todos[w])
      <3>1. CASE w # v
        <4>1. /\ en_avion'[w] = en_avion[w] /\ despego'[w] = despego[w]
          BY <1>24, <1>25, <3>1
        <4> QED  BY <1>4, <4>1 DEF EnElAvion
      <3>2. CASE w = v
        <4>1. en_avion'[w] = c /\ todos[w] = s
          BY <1>17, <1>24, <3>2
        <4> QED  BY <1>19, <1>23, <2>1, <2>2, <3>2, <4>1
      <3> QED  BY <3>1, <3>2
    <2> QED  BY <2>3 DEF EnElAvion
  <1>32. EnLaColaDeAviones(todos, desde, hasta, cargados, RemoveAt(q, i))'
    <2>1. PICK b \in Seq(Mensajes) : b = RemoveAt(a, i)
      BY <1>26
    <2>2. PICK r \in Seq(Nat) : r = RemoveAt(q, i)
      BY <1>27
    <2>3. PICK l \in Nat : l = Len(b) /\ l + 1 = Len(a) /\ l = Len(r)
      BY <1>26, <1>27, <2>1, <2>2
    <2>4. /\ DOMAIN b = 1..l /\ DOMAIN r = 1..l /\ i \in 1..l + 1
          /\ DOMAIN a = 1..l + 1
      <3>1. DOMAIN b = 1..Len(b)
        OBVIOUS
      <3>2. DOMAIN r = 1..Len(r)
        OBVIOUS
      <3>3. DOMAIN a = 1..l + 1
        BY <1>11, <2>3
      <3> QED  BY <1>8, <2>3, <3>1, <3>2, <3>3
    <2>5. /\ \A j \in 1..l : j < i => b[j] = a[j] /\ r[j] = q[j]
          /\ \A j \in 1..l : ~ (j < i) => b[j] = a[j + 1] /\ r[j] = q[j + 1]
      BY <1>26, <1>27, <2>1, <2>2, <2>3
    <2>6. ASSUME NEW j \in 1..l
          PROVE  \E k \in 1..l + 1 : /\ k # i /\ b[j] = a[k] /\ r[j] = q[k]
                                     /\ k = IF j < i THEN j ELSE j + 1
      <3>1. CASE j < i
        BY <2>4, <2>5, <3>1
      <3>2. CASE ~ (j < i)
        BY <2>4, <2>5, <3>2
      <3> QED  BY <3>1, <3>2
    <2>7. ASSUME NEW j \in 1..l, NEW k \in 1..l, j < k
          PROVE  r[j] < r[k]
      <3>1. PICK x \in 1..l + 1 : r[j] = q[x] /\ x = IF j < i THEN j ELSE j + 1
        BY <2>6
      <3>2. PICK y \in 1..l + 1 : r[k] = q[y] /\ y = IF k < i THEN k ELSE k + 1
        BY <2>6
      <3>3. x < y
        <4>1. i \in Int /\ j \in Int /\ k \in Int /\ l \in Int
          BY <2>4
        <4>2. CASE j < i
          BY <2>7, <3>1, <3>2, <4>1, <4>2
        <4>3. CASE ~ (j < i)
          <5>1. ~ (k < i)
            BY <2>7, <4>1, <4>3
          <5> QED  BY <2>7, <3>1, <3>2, <4>1, <4>3, <5>1
        <4> QED  BY <4>2, <4>3
      <3> QED  BY <1>13, <2>4, <3>1, <3>2, <3>3
    <2>8. ASSUME NEW x \in 1..l + 1, x # i
          PROVE  \E j \in 1..l : b[j] = a[x] /\ r[j] = q[x]
      <3>1. CASE x < i
        <4>1. x \in 1..l
          BY <2>4, <3>1
        <4> QED  BY <2>5, <3>1, <4>1
      <3>2. CASE x > i
        <4>1. x - 1 \in 1..l /\ ~ (x - 1 < i) /\ (x - 1) + 1 = x
          BY <2>4, <3>2
        <4> QED  BY <2>5, <4>1
      <3> QED  BY <2>4, <2>8, <3>1, <3>2
    <2>9. \A x \in 1..l + 1 : x # i => q[x] # q[i]
      <3>1. ASSUME NEW x \in 1..l + 1, x # i PROVE q[x] # q[i]
        <4>1. x < i \/ i < x
          BY <2>4, <3>1
        <4>2. q[x] < q[i] \/ q[i] < q[x]
          BY <1>13, <2>4, <4>1
        <4>3. q[x] \in Nat /\ q[i] \in Nat
          BY <1>12, <2>4
        <4> QED  BY <4>2, <4>3
      <3> QED  BY <3>1
    <2>10. ASSUME NEW j \in 1..l
           PROVE  /\ EsElNumero(r[j], b[j].vuelo, b[j].total, b[j].contenedor,
                                todos, desde, hasta)
                  /\ desde[b[j].vuelo] + Len(en_avion'[b[j].vuelo]) < r[j]
                  /\ r[j] <= cargados
      <3>1. PICK x \in 1..l + 1 : x # i /\ b[j] = a[x] /\ r[j] = q[x]
        BY <2>6
      <3>2. /\ EsElNumero(q[x], a[x].vuelo, a[x].total, a[x].contenedor,
                          todos, desde, hasta)
            /\ desde[a[x].vuelo] + Len(en_avion[a[x].vuelo]) < q[x]
            /\ q[x] <= cargados /\ q[x] \in Nat
        BY <1>12, <2>4
      <3>3. PICK w \in Vuelos : w = a[x].vuelo
        BY <3>2 DEF EsElNumero
      <3>4. desde[w] + Len(en_avion'[w]) < q[x]
        <4>1. CASE w # v
          BY <1>24, <3>2, <3>3, <4>1
        <4>2. CASE w = v
          <5>1. q[x] # q[i] /\ desde[v] + n < q[x]
            BY <1>9, <2>9, <3>1, <3>2, <3>3, <4>2
          <5>2. desde[v] + (n + 1) < q[x]
            <6>1. ASSUME NEW d \in Nat, NEW e \in Nat, d + n < e, e # d + n + 1
                  PROVE  d + (n + 1) < e
              BY <6>1
            <6> QED  BY <1>15, <1>16, <3>2, <5>1, <6>1
          <5> QED  BY <1>23, <1>24, <4>2, <5>2
        <4> QED  BY <4>1, <4>2
      <3> QED  BY <3>1, <3>2, <3>3, <3>4
    <2>11. ASSUME NEW w \in Vuelos, NEW g \in 1..cargados,
                  desde[w] + Len(en_avion'[w]) < g, g <= hasta[w]
           PROVE  \E j \in 1..l : r[j] = g /\ b[j].vuelo = w
      <3>1. /\ desde[w] + Len(en_avion[w]) < g
            /\ w = v => g # q[i]
        <4>1. CASE w # v
          BY <1>24, <2>11, <4>1
        <4>2. CASE w = v
          <5>1. desde[v] + (n + 1) < g /\ g \in Int
            BY <1>23, <1>24, <2>11, <4>2
          <5>2. ASSUME NEW d \in Nat, d + (n + 1) < g
                PROVE  d + n < g /\ g # d + n + 1
            BY <5>1, <5>2
          <5>3. desde[v] + n < g /\ g # desde[v] + n + 1
            BY <1>15, <5>1, <5>2
          <5> QED  BY <1>9, <1>16, <4>2, <5>3
        <4> QED  BY <4>1, <4>2
      <3>2. PICK x \in DOMAIN a : q[x] = g /\ a[x].vuelo = w
        BY <1>14, <2>11, <3>1
      <3>3. x # i
        BY <1>8, <3>1, <3>2
      <3>4. PICK j \in 1..l : b[j] = a[x] /\ r[j] = q[x]
        BY <2>4, <2>8, <3>2, <3>3
      <3> QED  BY <3>2, <3>4
    <2>12. cola_aviones' = b
      BY <1>7, <2>1
    <2>13. EnLaColaDeAviones(todos, desde, hasta, cargados, r)'
      <3>1. Len(r) = Len(cola_aviones')
        BY <2>3, <2>12
      <3>2. \A j, k \in DOMAIN r : j < k => r[j] < r[k]
        BY <2>4, <2>7
      <3>3. \A j \in DOMAIN r :
              LET m == cola_aviones'[j] IN
              /\ EsElNumero(r[j], m.vuelo, m.total, m.contenedor,
                            todos, desde, hasta)
              /\ desde[m.vuelo] + Len(en_avion'[m.vuelo]) < r[j]
              /\ r[j] <= cargados
        BY <2>4, <2>10, <2>12
      <3>4. \A w \in Vuelos, g \in 1..cargados :
              desde[w] + Len(en_avion'[w]) < g /\ g <= hasta[w] =>
                \E j \in DOMAIN r : r[j] = g /\ cola_aviones'[j].vuelo = w
        <4>1. DOMAIN r = 1..l
          BY <2>4
        <4>2. ASSUME NEW w \in Vuelos, NEW g \in 1..cargados,
                     desde[w] + Len(en_avion'[w]) < g, g <= hasta[w]
              PROVE  \E j \in DOMAIN r : r[j] = g /\ cola_aviones'[j].vuelo = w
          <5>1. PICK j \in 1..l : r[j] = g /\ b[j].vuelo = w
            BY <2>11, <4>2
          <5> QED  BY <2>12, <4>1, <5>1
        <4> QED  BY <4>2
      <3> QED  BY <3>1, <3>2, <3>3, <3>4 DEF EnLaColaDeAviones
    <2> QED  BY <2>2, <2>13
  <1>33. EnTransito(t, todos, desde, hasta, tomados, RemoveAt(q, i))'
    <2>1. Numeracion(todos, desde, hasta,
                     tomados + Len(PorTomar) * PorTractor)'
      BY <1>1, <1>7 DEF EnTransito
    <2>2. cargados = tomados - Len(bloque'[t].contenedores)
      BY <1>3, <1>7
    <2> QED  BY <1>29, <1>30, <1>31, <1>32, <2>1, <2>2 DEF EnTransito
  <1> QED  BY <1>27, <1>28, <1>33 DEF HayNumeracion

(* The numbers of the blocks that are sent after L of them. *)
LEMMA NumerosDeLosBloques ==
  ASSUME NEW P \in Nat, NEW K \in Nat, NEW L \in Nat, NEW k \in 1..K,
         NEW j \in 1..P
  PROVE  /\ (k - 1) * P + j \in Nat /\ 0 < (k - 1) * P + j
         /\ (k - 1) * P + j <= K * P
         /\ ((L + k) - 1) * P + j = L * P + ((k - 1) * P + j)
  <1>1. ASSUME NEW x \in Nat, NEW y \in Nat PROVE x * y \in Nat
    OBVIOUS
  <1>2. PICK p \in Nat : p = (k - 1) * P
    BY <1>1
  <1>3. PICK r \in Nat : r = (K - k) * P
    BY <1>1
  <1>4. K * P = (K - k) * P + ((k - 1) * P + P)
    OBVIOUS
  <1>5. ((L + k) - 1) * P = L * P + (k - 1) * P
    OBVIOUS
  <1>6. PICK h \in Nat : h = L * P
    BY <1>1
  <1> QED  BY <1>2, <1>3, <1>4, <1>5, <1>6

(* d are the K blocks of the load s of flight v: each is full, past the    *)
(* end of the load too.                                                    *)
SonLosBloques(d, K, v, s) ==
  /\ s = <<>> => K = 0
  /\ Len(d) = K
  /\ \A k \in 1..K :
       /\ d[k].vuelo = v /\ d[k].total = Len(s)
       /\ Len(d[k].contenedores) = PorTractor
       /\ \A j \in 1..PorTractor :
            d[k].contenedores[j] = IF (k - 1) * PorTractor + j <= Len(s)
                                   THEN s[(k - 1) * PorTractor + j]
                                   ELSE Basura

(* What is sent are such blocks. *)
LEMMA LosBloques ==
  ASSUME NEW s \in Seq(SUBSET Equipajes), NEW v, s # <<>> => v \in Vuelos
  PROVE  \E K \in Nat : /\ Bloques(v, s) \in Seq(ConBloque)
                        /\ SonLosBloques(Bloques(v, s), K, v, s)
  <1> DEFINE P == PorTractor
  <1>1. PICK n \in Nat : n = Len(s) /\ DOMAIN s = 1..n /\ (s = <<>> <=> n = 0)
    OBVIOUS
  <1>2. PICK K \in Nat : K = (n + P - 1) \div P /\ (n = 0 => K = 0)
    BY CuantosBloques
  <1> DEFINE En(g) == IF g <= n THEN s[g] ELSE Basura
             C(k) == [j \in 1..P |-> En((k - 1) * P + j)]
             B == [k \in 1..K |-> [vuelo |-> v, total |-> n, contenedores |-> C(k)]]
  <1>3. B = Bloques(v, s)
    BY <1>1, <1>2 DEF Bloques
  <1>4. ASSUME NEW k \in 1..K
        PROVE  /\ C(k) \in Seq(Contenedores) /\ Len(C(k)) = P
               /\ \A j \in 1..P : C(k)[j] = En((k - 1) * P + j)
    <2>1. ASSUME NEW g \in Nat, 0 < g PROVE En(g) \in Contenedores
      <3>1. CASE g <= n
        <4>1. g \in 1..n
          BY <2>1, <3>1
        <4>2. PICK y \in SUBSET Equipajes : y = s[g]
          BY <1>1, <4>1
        <4>3. En(g) = y
          BY <3>1, <4>2
        <4>4. y \in Contenedores
          BY DEF Contenedores
        <4> QED  BY <4>3, <4>4
      <3>2. CASE ~ (g <= n)
        <4>1. En(g) = Basura
          BY <3>2
        <4>2. Basura \in Contenedores
          BY DEF Contenedores
        <4> QED  BY <4>1, <4>2
      <3> QED  BY <3>1, <3>2
    <2> HIDE DEF En
    <2>2. \A j \in 1..P : (k - 1) * P + j \in Nat /\ 0 < (k - 1) * P + j
      BY BloqueConLugares, NumerosDeLosBloques
    <2>3. \A j \in 1..P : En((k - 1) * P + j) \in Contenedores
      BY <2>1, <2>2
    <2>4. C(k) \in [1..P -> Contenedores]
      BY <2>3
    <2>5. \A j \in 1..P : C(k)[j] = En((k - 1) * P + j)
      OBVIOUS
    <2> HIDE DEF C
    <2>6. ASSUME NEW m \in Nat, NEW f \in [1..m -> Contenedores]
          PROVE  f \in Seq(Contenedores) /\ Len(f) = m
      OBVIOUS
    <2> QED  BY <2>4, <2>5, <2>6, BloqueConLugares
  <1>5. ASSUME NEW k \in 1..K
        PROVE  [vuelo |-> v, total |-> n, contenedores |-> C(k)] \in ConBloque
    <2>1. v \in Vuelos
      BY <1>1, <1>2
    <2>2. C(k) \in Seq(Contenedores)
      BY <1>4
    <2> HIDE DEF C
    <2> QED  BY <2>1, <2>2 DEF ConBloque
  <1> HIDE DEF C
  <1>6. B \in Seq(ConBloque) /\ Len(B) = K
    BY <1>5
  <1>7. ASSUME NEW k \in 1..K
        PROVE  /\ B[k].vuelo = v /\ B[k].total = n
               /\ Len(B[k].contenedores) = P
               /\ \A j \in 1..P : B[k].contenedores[j] = En((k - 1) * P + j)
    <2>1. B[k] = [vuelo |-> v, total |-> n, contenedores |-> C(k)]
      OBVIOUS
    <2> HIDE DEF B
    <2> QED  BY <1>4, <2>1
  <1> HIDE DEF B
  <1>8. SonLosBloques(B, K, v, s)
    BY <1>1, <1>2, <1>6, <1>7 DEF SonLosBloques
  <1> QED  BY <1>3, <1>6, <1>8

(* Sums of numbers of blocks. *)
LEMMA SumaDeBloques ==
  ASSUME NEW P \in Nat, NEW K \in Nat, NEW L \in Nat, NEW x \in Nat
  PROVE  /\ x + L * P \in Nat /\ x + L * P + K * P \in Nat
         /\ x <= x + L * P /\ x + L * P <= x + L * P + K * P
         /\ x + (L + K) * P = x + L * P + K * P
         /\ K = 0 => x + L * P = x + L * P + K * P
  <1>1. ASSUME NEW y \in Nat, NEW z \in Nat PROVE y * z \in Nat
    OBVIOUS
  <1>2. PICK h \in Nat : h = L * P
    BY <1>1
  <1>3. PICK g \in Nat : g = K * P
    BY <1>1
  <1>4. (L + K) * P = L * P + K * P
    OBVIOUS
  <1>5. K = 0 => K * P = 0
    OBVIOUS
  <1> QED  BY <1>2, <1>3, <1>4, <1>5

(* What a tractor has is a sequence of containers, with a block or not.    *)
LEMMA ContenedoresDelBloque ==
  ASSUME NEW b, b = SinBloque \/ b \in ConBloque
  PROVE  Len(b.contenedores) \in Nat
  <1>1. CASE b = SinBloque
    <2>1. b.contenedores = <<>>
      BY <1>1 DEF SinBloque
    <2> QED  BY <2>1
  <1>2. CASE b \in ConBloque
    <2>1. PICK c \in Seq(Contenedores) : c = b.contenedores
      BY <1>2 DEF ConBloque
    <2> QED  BY <2>1
  <1> QED  BY <1>1, <1>2

(* The load of the zone is sent: its blocks have the numbers that follow   *)
(* those of all that were sent, and nothing of this flight was sent before.*)
LEMMA SalidaTrasEnviar ==
  ASSUME NEW t, InvarianteDelDespacho(t), EnviarContenedores
  PROVE  /\ TiposDeLaSalida(t)' /\ HayNumeracion(t)'
         /\ por_enviar' \in Seq(ConBloque)
  <1> DEFINE P == PorTractor
             ct == PorTomar
  <1>1. PICK todos \in [Vuelos -> Seq(SUBSET Equipajes)],
             desde \in [Vuelos -> Nat], hasta \in [Vuelos -> Nat],
             tomados \in Nat, numero \in Seq(Nat) :
          EnTransito(t, todos, desde, hasta, tomados, numero)
    BY DEF InvarianteDelDespacho, HayNumeracion
  <1>2. /\ PorTomar \in Seq(ConBloque) /\ DOMAIN bloque = {t}
        /\ \A j \in DOMAIN PorTomar :
             Len(PorTomar[j].contenedores) = PorTractor
        /\ bloque[t] = SinBloque \/ bloque[t] \in ConBloque
        /\ cola_aviones \in Seq(Mensajes)
        /\ en_avion \in [Vuelos -> Seq(Contenedores)]
        /\ despego \in [Vuelos -> BOOLEAN]
    BY DEF InvarianteDelDespacho, TiposDeLaSalida
  <1>3. /\ pc_robot = "enviar" /\ pc_robot' = "liberar"
        /\ ct' = ct \o Bloques(numero_de_vuelo, contenedores \o Resto)
        /\ por_enviar' = Bloques(numero_de_vuelo, contenedores \o Resto)
        /\ UNCHANGED <<en_zona, bloque, cola_aviones, en_avion, despego>>
    <2>1. /\ pc_robot = "enviar" /\ pc_robot' = "liberar"
          /\ por_enviar' = Bloques(numero_de_vuelo, contenedores \o Resto)
          /\ UNCHANGED <<en_zona, cola_tractores, bloque, cola_aviones,
                         en_avion, despego>>
      BY DEF EnviarContenedores, zona
    <2>2. PICK q \in Seq(ConBloque) : q = cola_tractores /\ por_enviar = <<>>
      BY <2>1 DEF InvarianteDelDespacho, LosPorEnviar
    <2>3. q \o <<>> = q
      BY ConcatEmptySeq
    <2>4. ct = cola_tractores
      BY <2>2, <2>3 DEF PorTomar
    <2> QED  BY <2>1, <2>4 DEF PorTomar
  <1>4. PICK x \in Vuelos : x = Orden[en_zona] /\ en_zona \in DOMAIN Orden
    <2>1. en_zona \in 1..Len(Orden) + 1 /\ en_zona <= Len(Orden)
      BY <1>3 DEF InvarianteDelDespacho, InvarianteDeLaCarga, TiposDeLaCarga,
                  AvisoDeLaCarga
    <2>2. Orden \in Seq(Vuelos)
      BY SuposicionDespacho
    <2>3. en_zona \in DOMAIN Orden
      BY <2>1, <2>2
    <2> QED  BY <2>2, <2>3
  <1>5. PICK s \in Seq(SUBSET Equipajes) :
          /\ s = contenedores \o Resto
          /\ (UNION ToSet(s)) = CargaDe[x] /\ SinCompartir(s)
          /\ s # <<>> => numero_de_vuelo = x
    BY <1>3, <1>4, CargaEnContenedores DEF InvarianteDelDespacho
  <1>6. /\ Enviado(x)' /\ ~ Enviado(x)
        /\ \A w : w # x => (Enviado(w)' <=> Enviado(w))
    <2>1. Enviado(x)'
      BY <1>3, <1>4 DEF Enviado
    <2>2. ASSUME Enviado(x) PROVE FALSE
      <3>1. PICK i \in DOMAIN Orden : Orden[i] = x /\ i < en_zona
        BY <1>3, <2>2 DEF Enviado
      <3>2. i = en_zona
        BY <1>4, <3>1, SuposicionDespacho DEF IsInjective
      <3>3. en_zona \in Nat
        BY DEF InvarianteDelDespacho, InvarianteDeLaCarga, TiposDeLaCarga
      <3> QED  BY <3>1, <3>2, <3>3
    <2>3. \A w : w # x => (Enviado(w)' <=> Enviado(w))
      BY <1>3, <1>4 DEF Enviado
    <2> QED  BY <2>1, <2>2, <2>3
  <1>7. /\ Numeracion(todos, desde, hasta, tomados + Len(ct) * P)
        /\ CargasEnviadas(todos)
        /\ EnLosTractores(t, todos, desde, hasta, tomados)
    BY <1>1 DEF EnTransito
  <1>8. /\ todos[x] = <<>> /\ en_avion[x] = <<>> /\ ~ despego[x]
        /\ hasta[x] = desde[x]
    <2>1. todos[x] = <<>> /\ en_avion[x] = <<>> /\ ~ despego[x]
      BY <1>6, <1>7 DEF CargasEnviadas
    <2> QED  BY <1>7, <2>1 DEF Numeracion
  <1>9. PICK K \in Nat, d \in Seq(ConBloque) :
          ct' = ct \o d /\ por_enviar' = d /\ SonLosBloques(d, K, x, s)
    <2>1. /\ ct' = ct \o Bloques(numero_de_vuelo, s)
          /\ por_enviar' = Bloques(numero_de_vuelo, s)
      BY <1>3, <1>5
    <2>2. PICK v : v = numero_de_vuelo
      OBVIOUS
    <2>3. s # <<>> => v = x
      BY <1>5, <2>2
    <2>4. s # <<>> => v \in Vuelos
      BY <2>3
    <2>5. PICK K \in Nat : /\ Bloques(v, s) \in Seq(ConBloque)
                           /\ SonLosBloques(Bloques(v, s), K, v, s)
      BY <2>4, LosBloques
    <2>6. PICK d \in Seq(ConBloque) : d = Bloques(v, s)
      BY <2>5
    <2>7. SonLosBloques(d, K, v, s)
      BY <2>5, <2>6
    <2>8. SonLosBloques(d, K, x, s)
      <3>1. CASE s # <<>>
        BY <2>3, <2>7, <3>1
      <3>2. CASE s = <<>>
        BY <2>7, <3>2 DEF SonLosBloques
      <3> QED  BY <3>1, <3>2
    <2> QED  BY <2>1, <2>2, <2>6, <2>8
  <1>10. PICK L \in Nat, F \in Nat, G \in Nat :
           /\ L = Len(ct) /\ F = tomados + L * P /\ G = F + K * P
           /\ tomados <= F /\ F <= G
           /\ s = <<>> => F = G
    <2>1. PICK L \in Nat : L = Len(ct)
      BY <1>2
    <2>2. /\ tomados + L * P \in Nat /\ tomados + L * P + K * P \in Nat
          /\ tomados <= tomados + L * P
          /\ tomados + L * P <= tomados + L * P + K * P
          /\ K = 0 => tomados + L * P = tomados + L * P + K * P
      BY BloqueConLugares, SumaDeBloques
    <2>3. PICK F \in Nat : F = tomados + L * P
      BY <2>2
    <2>4. PICK G \in Nat : G = F + K * P
      BY <2>2, <2>3
    <2>5. s = <<>> => K = 0
      BY <1>9 DEF SonLosBloques
    <2> QED  BY <2>1, <2>2, <2>3, <2>4, <2>5
  <1>11. PICK todos2 \in [Vuelos -> Seq(SUBSET Equipajes)] :
           todos2[x] = s /\ \A w \in Vuelos : w # x => todos2[w] = todos[w]
    <2> WITNESS [todos EXCEPT ![x] = s] \in [Vuelos -> Seq(SUBSET Equipajes)]
    <2> QED  OBVIOUS
  <1>12. PICK desde2 \in [Vuelos -> Nat] :
           desde2[x] = F /\ \A w \in Vuelos : w # x => desde2[w] = desde[w]
    <2> WITNESS [desde EXCEPT ![x] = F] \in [Vuelos -> Nat]
    <2> QED  OBVIOUS
  <1>13. PICK hasta2 \in [Vuelos -> Nat] :
           hasta2[x] = G /\ \A w \in Vuelos : w # x => hasta2[w] = hasta[w]
    <2> WITNESS [hasta EXCEPT ![x] = G] \in [Vuelos -> Nat]
    <2> QED  OBVIOUS
  <1>14. Numeracion(todos2, desde2, hasta2, G)
    <2>1. ASSUME NEW w \in Vuelos
          PROVE  desde2[w] <= hasta2[w] /\ hasta2[w] <= G
      <3>1. CASE w = x
        BY <1>10, <1>12, <1>13, <3>1
      <3>2. CASE w # x
        <4>1. desde[w] <= hasta[w] /\ hasta[w] <= F
          BY <1>7, <1>10 DEF Numeracion
        <4>2. hasta[w] \in Nat
          OBVIOUS
        <4>3. hasta[w] <= G
          BY <1>10, <4>1, <4>2
        <4>4. desde2[w] = desde[w] /\ hasta2[w] = hasta[w]
          BY <1>12, <1>13, <3>2
        <4> QED  BY <4>1, <4>3, <4>4
      <3> QED  BY <3>1, <3>2
    <2>2. ASSUME NEW w \in Vuelos, NEW z \in Vuelos, w # z
          PROVE  hasta2[w] <= desde2[z] \/ hasta2[z] <= desde2[w]
      <3>1. \A y \in Vuelos : hasta[y] <= F
        BY <1>7, <1>10 DEF Numeracion
      <3>2. CASE w = x
        BY <1>12, <1>13, <2>2, <3>1, <3>2
      <3>3. CASE z = x
        BY <1>12, <1>13, <2>2, <3>1, <3>3
      <3>4. CASE w # x /\ z # x
        BY <1>7, <1>12, <1>13, <2>2, <3>4 DEF Numeracion
      <3> QED  BY <3>2, <3>3, <3>4
    <2>3. ASSUME NEW w \in Vuelos, todos2[w] = <<>>
          PROVE  hasta2[w] = desde2[w]
      <3>1. CASE w = x
        BY <1>10, <1>11, <1>12, <1>13, <2>3, <3>1
      <3>2. CASE w # x
        BY <1>7, <1>11, <1>12, <1>13, <2>3, <3>2 DEF Numeracion
      <3> QED  BY <3>1, <3>2
    <2> QED  BY <2>1, <2>2, <2>3 DEF Numeracion
  <1>15. CargasEnviadas(todos2)'
    <2>1. ASSUME NEW w \in Vuelos, w # x
          PROVE  IF Enviado(w)'
                 THEN (UNION ToSet(todos2[w])) = CargaDe[w] /\ SinCompartir(todos2[w])
                 ELSE todos2[w] = <<>> /\ en_avion'[w] = <<>> /\ ~ despego'[w]
      BY <1>3, <1>6, <1>7, <1>11, <2>1 DEF CargasEnviadas
    <2>2. /\ Enviado(x)' /\ (UNION ToSet(todos2[x])) = CargaDe[x]
          /\ SinCompartir(todos2[x])
      BY <1>5, <1>6, <1>11
    <2> QED  BY <2>1, <2>2 DEF CargasEnviadas
  <1>16. ASSUME NEW g \in Int, NEW w, NEW m, NEW c,
                EsElNumero(g, w, m, c, todos, desde, hasta)
         PROVE  EsElNumero(g, w, m, c, todos2, desde2, hasta2) /\ w # x
    <2>1. w \in Vuelos /\ desde[w] < g /\ g <= hasta[w]
      BY <1>16 DEF EsElNumero
    <2>2. PICK y : y = w
      OBVIOUS
    <2>3. w # x
      <3>1. ASSUME w = x PROVE FALSE
        <4>1. PICK e \in Nat : e = desde[x] /\ e = hasta[x]
          BY <1>8
        <4>2. e < g /\ g <= e
          BY <2>1, <3>1, <4>1
        <4> QED  BY <1>16, <4>2
      <3> QED  BY <3>1
    <2> QED  BY <1>11, <1>12, <1>13, <1>16, <2>1, <2>3 DEF EsElNumero
  <1>17. /\ DOMAIN ct = 1..L /\ DOMAIN ct' = 1..L + K /\ ct' \in Seq(ConBloque)
         /\ \A i \in 1..L : ct'[i] = ct[i]
         /\ \A k \in 1..K : ct'[L + k] = d[k]
         /\ Len(ct') = L + K
    <2>1. PICK q \in Seq(ConBloque) : q = ct
      BY <1>2
    <2>2. /\ q \o d \in Seq(ConBloque) /\ Len(q \o d) = Len(q) + Len(d)
          /\ \A i \in 1..Len(q) + Len(d) :
               (q \o d)[i] = IF i <= Len(q) THEN q[i] ELSE d[i - Len(q)]
      BY UnaTrasOtra
    <2>3. Len(d) = K /\ Len(q) = L
      BY <1>9, <1>10, <2>1 DEF SonLosBloques
    <2>4. PICK z \in Seq(ConBloque) : z = q \o d
      BY <2>2
    <2>5. DOMAIN q = 1..Len(q)
      OBVIOUS
    <2>6. DOMAIN z = 1..Len(z)
      OBVIOUS
    <2>7. ASSUME NEW i \in 1..L PROVE z[i] = q[i]
      BY <2>2, <2>3, <2>4
    <2>8. ASSUME NEW k \in 1..K PROVE z[L + k] = d[k]
      <3>1. L + k \in 1..L + K /\ ~ (L + k <= L) /\ (L + k) - L = k
        OBVIOUS
      <3> QED  BY <2>2, <2>3, <2>4, <3>1
    <2> QED  BY <1>9, <2>1, <2>2, <2>3, <2>4, <2>5, <2>6, <2>7, <2>8
  <1>18. TiposDeLaSalida(t)'
    <2>1. ASSUME NEW i \in 1..L + K PROVE Len(ct'[i].contenedores) = P
      <3>1. CASE i \in 1..L
        BY <1>2, <1>17, <3>1
      <3>2. CASE i \notin 1..L
        <4>1. PICK k \in 1..K : i = L + k
          <5>1. i - L \in 1..K /\ i = L + (i - L)
            BY <3>2
          <5> QED  BY <5>1
        <4> QED  BY <1>9, <1>17, <4>1 DEF SonLosBloques
      <3> QED  BY <3>1, <3>2
    <2> QED  BY <1>2, <1>3, <1>17, <2>1 DEF TiposDeLaSalida
  <1>19. EnLosTractores(t, todos2, desde2, hasta2, tomados)'
    <2>1. ASSUME NEW i \in 1..L, NEW j \in 1..P
          PROVE  EsElNumero(tomados + ((i - 1) * P + j), ct'[i].vuelo,
                            ct'[i].total, ct'[i].contenedores[j],
                            todos2, desde2, hasta2)
      <3>1. EsElNumero(tomados + ((i - 1) * P + j), ct[i].vuelo, ct[i].total,
                       ct[i].contenedores[j], todos, desde, hasta)
        BY <1>7, <1>17 DEF EnLosTractores
      <3>2. tomados + ((i - 1) * P + j) \in Int
        BY BloqueConLugares
      <3>3. EsElNumero(tomados + ((i - 1) * P + j), ct[i].vuelo, ct[i].total,
                       ct[i].contenedores[j], todos2, desde2, hasta2)
        BY <1>16, <3>1, <3>2
      <3> QED  BY <1>17, <3>3
    <2>2. ASSUME NEW k \in 1..K, NEW j \in 1..P
          PROVE  EsElNumero(tomados + (((L + k) - 1) * P + j), d[k].vuelo,
                            d[k].total, d[k].contenedores[j],
                            todos2, desde2, hasta2)
      <3>1. PICK p \in Nat : p = (k - 1) * P + j /\ 0 < p /\ p <= K * P
        BY BloqueConLugares, NumerosDeLosBloques
      <3>2. ((L + k) - 1) * P + j = L * P + p
        BY <3>1, BloqueConLugares, NumerosDeLosBloques
      <3>3. tomados + L * P \in Nat /\ L * P \in Int /\ K * P \in Int
        <4>1. ASSUME NEW y \in Nat, NEW z \in Nat PROVE y * z \in Int
          OBVIOUS
        <4>2. L * P \in Int /\ K * P \in Int
          BY <4>1, BloqueConLugares
        <4>3. tomados + L * P \in Nat
          BY <1>10
        <4> QED  BY <4>2, <4>3
      <3>4. PICK g \in Nat : g = tomados + (((L + k) - 1) * P + j) /\ g = F + p
        <4>1. ASSUME NEW h \in Int PROVE tomados + (h + p) = (tomados + h) + p
          OBVIOUS
        <4>2. tomados + (L * P + p) = F + p
          BY <1>10, <3>3, <4>1
        <4>3. F + p \in Nat
          OBVIOUS
        <4> QED  BY <3>2, <4>2, <4>3
      <3>5. F < g /\ g <= G /\ g - F = p
        <4>1. ASSUME NEW h \in Int, p <= h
              PROVE  F < F + p /\ F + p <= F + h /\ (F + p) - F = p
          BY SMTT(20), <3>1, <4>1
        <4>2. F < F + p /\ F + p <= F + K * P /\ (F + p) - F = p
          BY <3>1, <3>3, <4>1
        <4> QED  BY <1>10, <3>4, <4>2
      <3>6. /\ d[k].vuelo = x /\ d[k].total = Len(s)
            /\ d[k].contenedores[j] = IF p <= Len(s) THEN s[p] ELSE Basura
        BY <1>9, <3>1 DEF SonLosBloques
      <3>7. g <= F + Len(s) <=> p <= Len(s)
        <4>1. PICK m \in Nat : m = Len(s)
          OBVIOUS
        <4>2. F + p <= F + m <=> p <= m
          OBVIOUS
        <4> QED  BY <3>4, <4>1, <4>2
      <3>8. EsElNumero(g, d[k].vuelo, d[k].total, d[k].contenedores[j],
                       todos2, desde2, hasta2)
        BY <1>11, <1>12, <1>13, <3>5, <3>6, <3>7 DEF EsElNumero
      <3> QED  BY <3>4, <3>8
    <2>3. ASSUME NEW i \in 1..L + K, NEW j \in 1..P
          PROVE  EsElNumero(tomados + ((i - 1) * P + j), ct'[i].vuelo,
                            ct'[i].total, ct'[i].contenedores[j],
                            todos2, desde2, hasta2)
      <3>1. CASE i \in 1..L
        BY <2>1, <3>1
      <3>2. CASE i \notin 1..L
        <4>1. PICK k \in 1..K : i = L + k
          <5>1. i - L \in 1..K /\ i = L + (i - L)
            BY <3>2
          <5> QED  BY <5>1
        <4> QED  BY <1>17, <2>2, <4>1
      <3> QED  BY <3>1, <3>2
    <2>4. LET b == bloque[t]
              n == Len(b.contenedores)
          IN /\ n <= tomados
             /\ \A j \in 1..n :
                  EsElNumero(tomados - n + j, b.vuelo, b.total,
                             b.contenedores[j], todos2, desde2, hasta2)
      <3>1. PICK b : b = bloque[t]
        OBVIOUS
      <3>2. PICK n \in Nat : n = Len(b.contenedores)
        BY <1>2, <3>1, ContenedoresDelBloque
      <3>3. /\ n <= tomados
            /\ \A j \in 1..n :
                 EsElNumero(tomados - n + j, b.vuelo, b.total,
                            b.contenedores[j], todos, desde, hasta)
        BY <1>7, <3>1, <3>2 DEF EnLosTractores
      <3>4. \A j \in 1..n : tomados - n + j \in Int
        OBVIOUS
      <3>5. \A j \in 1..n :
              EsElNumero(tomados - n + j, b.vuelo, b.total,
                         b.contenedores[j], todos2, desde2, hasta2)
        BY <1>16, <3>3, <3>4
      <3> QED  BY <3>1, <3>2, <3>3, <3>5
    <2> QED  BY <1>3, <1>17, <2>3, <2>4 DEF EnLosTractores
  <1>20. PICK cargados \in Nat :
           /\ cargados = tomados - Len(bloque[t].contenedores)
           /\ cargados <= tomados
    <2>1. PICK b : b = bloque[t]
      OBVIOUS
    <2>2. PICK n \in Nat : n = Len(b.contenedores)
      BY <1>2, <2>1, ContenedoresDelBloque
    <2>3. n <= tomados
      BY <1>7, <2>1, <2>2 DEF EnLosTractores
    <2>4. tomados - n \in Nat /\ tomados - n <= tomados
      BY <2>3
    <2> QED  BY <2>1, <2>2, <2>4
  <1>21. /\ EnLaColaDeAviones(todos, desde, hasta, cargados, numero)
         /\ EnElAvion(todos, desde, cargados)
    BY <1>1, <1>20 DEF EnTransito
  <1>22. EnElAvion(todos2, desde2, cargados)'
    <2>1. ASSUME NEW w \in Vuelos
          PROVE  LET n == Len(en_avion'[w]) IN
                 /\ n <= Len(todos2[w])
                 /\ \A i \in 1..n : en_avion'[w][i] = todos2[w][i]
                 /\ n > 0 => desde2[w] + n <= cargados
                 /\ IF despego'[w] THEN n = Len(todos2[w])
                                   ELSE n = 0 \/ n < Len(todos2[w])
      <3>1. CASE w = x
        <4>1. Len(en_avion'[w]) = 0 /\ ~ despego'[w] /\ Len(todos2[w]) \in Nat
          BY <1>3, <1>8, <3>1
        <4> QED  BY <4>1
      <3>2. CASE w # x
        BY <1>3, <1>11, <1>12, <1>21, <3>2 DEF EnElAvion
      <3> QED  BY <3>1, <3>2
    <2> QED  BY <2>1 DEF EnElAvion
  <1>23. EnLaColaDeAviones(todos2, desde2, hasta2, cargados, numero)'
    <2>1. Len(numero) = Len(cola_aviones')
      BY <1>3, <1>21 DEF EnLaColaDeAviones
    <2>2. \A i, j \in DOMAIN numero : i < j => numero[i] < numero[j]
      BY <1>21 DEF EnLaColaDeAviones
    <2>3. ASSUME NEW i \in DOMAIN numero
          PROVE  LET m == cola_aviones[i] IN
                 /\ EsElNumero(numero[i], m.vuelo, m.total, m.contenedor,
                               todos2, desde2, hasta2)
                 /\ desde2[m.vuelo] + Len(en_avion[m.vuelo]) < numero[i]
                 /\ numero[i] <= cargados
      <3>1. LET m == cola_aviones[i] IN
            /\ EsElNumero(numero[i], m.vuelo, m.total, m.contenedor,
                          todos, desde, hasta)
            /\ desde[m.vuelo] + Len(en_avion[m.vuelo]) < numero[i]
            /\ numero[i] <= cargados
        BY <1>21 DEF EnLaColaDeAviones
      <3>2. PICK m : m = cola_aviones[i]
        OBVIOUS
      <3>3. numero[i] \in Int
        OBVIOUS
      <3>4. /\ EsElNumero(numero[i], m.vuelo, m.total, m.contenedor,
                          todos2, desde2, hasta2)
            /\ m.vuelo # x
        BY <1>16, <3>1, <3>2, <3>3
      <3>5. desde2[m.vuelo] = desde[m.vuelo]
        BY <1>12, <3>4 DEF EsElNumero
      <3> QED  BY <3>1, <3>2, <3>4, <3>5
    <2>4. ASSUME NEW w \in Vuelos, NEW g \in 1..cargados,
                 desde2[w] + Len(en_avion[w]) < g, g <= hasta2[w]
          PROVE  \E i \in DOMAIN numero :
                   numero[i] = g /\ cola_aviones[i].vuelo = w
      <3>1. CASE w = x
        <4>1. F + 0 < g
          BY <1>8, <1>12, <2>4, <3>1
        <4>2. F < g
          BY <4>1
        <4>3. cargados <= tomados
          BY <1>20
        <4>4. tomados <= F
          BY <1>10
        <4>5. g \in Nat /\ g <= cargados
          OBVIOUS
        <4> QED  BY <4>2, <4>3, <4>4, <4>5
      <3>2. CASE w # x
        <4>1. desde[w] + Len(en_avion[w]) < g /\ g <= hasta[w]
          BY <1>12, <1>13, <2>4, <3>2
        <4>2. \A y \in Vuelos, e \in 1..cargados :
                desde[y] + Len(en_avion[y]) < e /\ e <= hasta[y] =>
                  \E i \in DOMAIN numero :
                    numero[i] = e /\ cola_aviones[i].vuelo = y
          BY <1>21 DEF EnLaColaDeAviones
        <4> QED  BY <4>1, <4>2
      <3> QED  BY <3>1, <3>2
    <2>5. \A w \in Vuelos, g \in 1..cargados :
            desde2[w] + Len(en_avion[w]) < g /\ g <= hasta2[w] =>
              \E i \in DOMAIN numero : numero[i] = g /\ cola_aviones[i].vuelo = w
      <3>1. ASSUME NEW w \in Vuelos, NEW g \in 1..cargados,
                   desde2[w] + Len(en_avion[w]) < g, g <= hasta2[w]
            PROVE  \E i \in DOMAIN numero :
                     numero[i] = g /\ cola_aviones[i].vuelo = w
        <4>1. PICK i \in DOMAIN numero : numero[i] = g /\ cola_aviones[i].vuelo = w
          BY <2>4, <3>1
        <4> QED  BY <4>1
      <3> QED  BY <3>1
    <2>6. \A i \in DOMAIN numero :
            LET m == cola_aviones'[i] IN
            /\ EsElNumero(numero[i], m.vuelo, m.total, m.contenedor,
                          todos2, desde2, hasta2)
            /\ desde2[m.vuelo] + Len(en_avion'[m.vuelo]) < numero[i]
            /\ numero[i] <= cargados
      BY <1>3, <2>3
    <2>7. \A w \in Vuelos, g \in 1..cargados :
            desde2[w] + Len(en_avion'[w]) < g /\ g <= hasta2[w] =>
              \E i \in DOMAIN numero :
                numero[i] = g /\ cola_aviones'[i].vuelo = w
      BY Zenon, <1>3, <2>5
    <2> QED  BY <2>1, <2>2, <2>6, <2>7 DEF EnLaColaDeAviones
  <1>24. EnTransito(t, todos2, desde2, hasta2, tomados, numero)'
    <2>1. tomados + Len(ct') * P = G
      <3>1. tomados + (L + K) * P = tomados + L * P + K * P
        BY BloqueConLugares, SumaDeBloques
      <3> QED  BY <1>10, <1>17, <3>1
    <2>2. Numeracion(todos2, desde2, hasta2, tomados + Len(ct') * P)
      BY <1>14, <2>1
    <2>3. cargados = tomados - Len(bloque'[t].contenedores)
      BY <1>3, <1>20
    <2> QED  BY <1>15, <1>19, <1>22, <1>23, <2>2, <2>3 DEF EnTransito
  <1> QED  BY <1>9, <1>18, <1>24 DEF HayNumeracion

-----------------------------------------------------------------------------
(* The whole dispatch. *)

(* The steps of the belt, of its users and of the load send nothing to the *)
(* tractors; freeing the zone does not change what was sent.               *)
LEMMA NadaEnviado ==
  ASSUME InvarianteDeLaCarga,
         \/ en_zona' = en_zona /\ pc_robot' = pc_robot
         \/ en_zona' = en_zona /\ pc_robot # "liberar" /\ pc_robot' # "liberar"
         \/ LiberarZona
  PROVE  \A v : Enviado(v)' <=> Enviado(v)
  <1>1. CASE en_zona' = en_zona /\ pc_robot' = pc_robot
    BY <1>1 DEF Enviado
  <1>2. CASE en_zona' = en_zona /\ pc_robot # "liberar" /\ pc_robot' # "liberar"
    BY <1>2 DEF Enviado
  <1>3. CASE LiberarZona
    <2>1. /\ pc_robot = "liberar" /\ pc_robot' = "reiniciar"
          /\ en_zona' = en_zona + 1 /\ en_zona \in Nat
      BY <1>3 DEF LiberarZona, InvarianteDeLaCarga, TiposDeLaCarga
    <2>2. DOMAIN Orden \subseteq Nat
      BY SuposicionDespacho
    <2>3. \A i \in DOMAIN Orden :
            i < en_zona' <=> i < en_zona \/ i = en_zona
      BY <2>1, <2>2
    <2> QED  BY <2>1, <2>3 DEF Enviado
  <1> QED  BY <1>1, <1>2, <1>3

(* No bag has left at the start. *)
LEMMA DespachoInicial ==
  ASSUME NEW t, Tractores = {t}, InitDespacho
  PROVE  InvarianteDelDespacho(t)
  <1>1. /\ cola_tractores = <<>> /\ por_enviar = <<>> /\ cola_aviones = <<>>
        /\ bloque = [x \in {t} |-> SinBloque]
        /\ en_avion = [v \in Vuelos |-> <<>>]
        /\ despego = [v \in Vuelos |-> FALSE]
        /\ en_zona = 1 /\ pc_robot = "cargar"
    BY DEF InitDespacho
  <1>2. bloque[t] = SinBloque /\ DOMAIN bloque = {t}
    BY <1>1
  <1>3. /\ \A S : <<>> \in Seq(S)
        /\ Len(<<>>) = 0 /\ DOMAIN <<>> = {}
    OBVIOUS
  <1>4. /\ en_avion \in [Vuelos -> Seq(Contenedores)]
        /\ \A v \in Vuelos : en_avion[v] = <<>> /\ ~ despego[v]
    BY <1>1, <1>3
  <1>5. PorTomar = <<>> /\ LosPorEnviar /\ TiposDeLaSalida(t)
    <2>1. PorTomar = <<>>
      BY <1>1, <1>3, ConcatEmptySeq DEF PorTomar
    <2> QED  BY <1>1, <1>2, <1>3, <1>4, <2>1 DEF LosPorEnviar, TiposDeLaSalida
  <1>6. PICK todos \in [Vuelos -> Seq(SUBSET Equipajes)] :
          \A v \in Vuelos : todos[v] = <<>>
    <2> WITNESS [v \in Vuelos |-> <<>>] \in [Vuelos -> Seq(SUBSET Equipajes)]
    <2> QED  OBVIOUS
  <1>7. PICK cero \in [Vuelos -> Nat] : \A v \in Vuelos : cero[v] = 0
    <2> WITNESS [v \in Vuelos |-> 0] \in [Vuelos -> Nat]
    <2> QED  OBVIOUS
  <1>8. PICK numero \in Seq(Nat) : numero = <<>>
    <2> WITNESS <<>> \in Seq(Nat)
    <2> QED  OBVIOUS
  <1>9. 0 + Len(PorTomar) * PorTractor = 0
    BY <1>3, <1>5, BloqueConLugares
  <1>10. 0 - Len(bloque[t].contenedores) = 0 /\ Len(bloque[t].contenedores) = 0
    <2>1. bloque[t].contenedores = <<>>
      BY <1>2 DEF SinBloque
    <2>2. Len(bloque[t].contenedores) = 0
      BY <1>3, <2>1
    <2> QED  BY <2>2
  <1>11. Numeracion(todos, cero, cero, 0)
    BY <1>7 DEF Numeracion
  <1>12. CargasEnviadas(todos)
    <2>1. DOMAIN Orden \subseteq Nat /\ \A i \in DOMAIN Orden : ~ (i < 1)
      BY SuposicionDespacho
    <2>2. \A v : ~ Enviado(v)
      BY <1>1, <2>1 DEF Enviado
    <2> QED  BY <1>4, <1>6, <2>2 DEF CargasEnviadas
  <1>13. EnLosTractores(t, todos, cero, cero, 0)
    BY <1>3, <1>5, <1>10 DEF EnLosTractores
  <1>14. EnLaColaDeAviones(todos, cero, cero, 0, numero)
    BY <1>1, <1>3, <1>8 DEF EnLaColaDeAviones
  <1>15. EnElAvion(todos, cero, 0)
    BY <1>3, <1>4, <1>6 DEF EnElAvion
  <1>16. EnTransito(t, todos, cero, cero, 0, numero)
    BY <1>9, <1>10, <1>11, <1>12, <1>13, <1>14, <1>15 DEF EnTransito
  <1>17. HayNumeracion(t)
    BY <1>16 DEF HayNumeracion
  <1> QED  BY <1>5, <1>17, CargaInicial DEF InvarianteDelDespacho

(* robot_carga frees the zone when it has sent all the blocks. *)
LEMMA NadaQuedaPorEnviar ==
  ASSUME NEW t, Tractores = {t}, InvarianteDelDespacho(t),
         [NextDespacho]_varsDespacho
  PROVE  LosPorEnviar'
  <1>1. LosPorEnviar
    BY DEF InvarianteDelDespacho
  <1>2. pc_robot # "cargar" => pc_consumidor = "fuera"
    BY DEF InvarianteDelDespacho, InvarianteDeLaCarga, AvisoDeLaCarga
  <1>3. CASE UNCHANGED salida /\ (pc_robot = "liberar" => pc_robot' = "liberar")
    BY <1>1, <1>3 DEF LosPorEnviar, salida
  <1>4. CASE LiberarZona
    BY <1>1, <1>4 DEF LosPorEnviar, LiberarZona, salida
  <1>5. CASE EnviarContenedores
    <2>1. por_enviar' \in Seq(ConBloque)
      BY <1>5, SalidaTrasEnviar
    <2> QED  BY <1>1, <1>5, <2>1 DEF LosPorEnviar, EnviarContenedores
  <1>6. CASE EnviarBloque
    <2>1. pc_robot' = "liberar"
      BY <1>6 DEF EnviarBloque, robot
    <2> QED  BY <1>1, <1>6, <2>1, BloqueEnviado DEF LosPorEnviar
  <1>7. CASE PasoDespacho \/ Avisar \/ Llamar
    <2>1. UNCHANGED salida /\ pc_robot' = pc_robot
      BY <1>7 DEF PasoDespacho, SeguirPoniendo, Poner, Avisar, Llamar, robot
    <2> QED  BY <1>3, <2>1
  <1>8. CASE SacarEquipaje \/ SacarAviso
    <2>1. UNCHANGED salida
      BY <1>8 DEF SacarEquipaje, SacarAviso
    <2>2. pc_robot = "cargar"
      BY <1>2, <1>8 DEF SacarEquipaje, SacarAviso, Extraer, RecibirAviso
    <2> QED  BY <1>3, <2>1, <2>2
  <1>9. CASE LeerTotal \/ Reiniciar
    <2>1. UNCHANGED salida /\ pc_robot # "liberar"
      BY <1>9 DEF LeerTotal, Reiniciar
    <2> QED  BY <1>3, <2>1
  <1>10. CASE PasoTractor(t)
    <2>1. CASE TomarBloque(t)
      <3>1. /\ cola_tractores # <<>> /\ cola_tractores' = Tail(cola_tractores)
            /\ por_enviar' = por_enviar /\ pc_robot' = pc_robot
        BY <2>1 DEF TomarBloque, robot
      <3>2. Tail(cola_tractores) \in Seq(ConBloque)
        BY <1>1, <3>1 DEF LosPorEnviar
      <3> QED  BY <1>1, <3>1, <3>2 DEF LosPorEnviar
    <2>2. CASE CargarContenedorEnAvion(t)
      BY <1>1, <2>2 DEF LosPorEnviar, CargarContenedorEnAvion, robot
    <2> QED  BY <1>10, <2>1, <2>2 DEF PasoTractor
  <1>11. CASE \E v \in Vuelos : RecibirContenedor(v)
    BY <1>1, <1>11 DEF LosPorEnviar, RecibirContenedor, robot
  <1>12. CASE UNCHANGED varsDespacho
    <2>1. UNCHANGED salida /\ pc_robot' = pc_robot
      BY <1>12 DEF varsDespacho, robot
    <2> QED  BY <1>3, <2>1
  <1> QED
    BY <1>4, <1>5, <1>6, <1>7, <1>8, <1>9, <1>10, <1>11, <1>12
       DEF NextDespacho, PasoRobot

(* Every step keeps the invariant, with one tractor. *)
LEMMA ConservaElDespacho ==
  ASSUME NEW t, Tractores = {t}, InvarianteDelDespacho(t),
         [NextDespacho]_varsDespacho
  PROVE  InvarianteDelDespacho(t)'
  <1>1. InvarianteDeLaCarga /\ InvarianteDeLaCarga'
    BY ConservaLaCarga DEF InvarianteDelDespacho
  <1>2. pc_robot # "cargar" => pc_consumidor = "fuera"
    BY <1>1 DEF InvarianteDeLaCarga, AvisoDeLaCarga
  <1>3. (TiposDeLaSalida(t) /\ HayNumeracion(t))'
    <2>1. CASE PasoDespacho
      <3>1. UNCHANGED salida /\ en_zona' = en_zona /\ pc_robot' = pc_robot
        BY <2>1 DEF PasoDespacho, SeguirPoniendo, Poner, zona, robot
      <3> QED  BY <1>1, <3>1, NadaEnviado, SalidaQuieta
    <2>2. CASE Avisar
      <3>1. UNCHANGED salida /\ en_zona' = en_zona /\ pc_robot' = pc_robot
        BY <2>2 DEF Avisar, robot
      <3> QED  BY <1>1, <3>1, NadaEnviado, SalidaQuieta
    <2>3. CASE Llamar
      <3>1. UNCHANGED salida /\ en_zona' = en_zona /\ pc_robot' = pc_robot
        BY <2>3 DEF Llamar, zona, robot
      <3> QED  BY <1>1, <3>1, NadaEnviado, SalidaQuieta
    <2>4. CASE SacarEquipaje
      <3>1. UNCHANGED salida /\ en_zona' = en_zona
        BY <2>4 DEF SacarEquipaje, zona
      <3>2. pc_robot = "cargar"
        BY <1>2, <2>4 DEF SacarEquipaje, Extraer
      <3>3. pc_robot' # "liberar"
        BY <2>4 DEF SacarEquipaje, SiguePc
      <3> QED  BY <1>1, <3>1, <3>2, <3>3, NadaEnviado, SalidaQuieta
    <2>5. CASE SacarAviso
      <3>1. UNCHANGED salida /\ en_zona' = en_zona /\ pc_robot' # "liberar"
        BY <2>5 DEF SacarAviso, zona
      <3>2. pc_robot = "cargar"
        BY <1>2, <2>5 DEF SacarAviso, RecibirAviso
      <3> QED  BY <1>1, <3>1, <3>2, NadaEnviado, SalidaQuieta
    <2>6. CASE LeerTotal
      <3>1. UNCHANGED salida /\ en_zona' = en_zona
            /\ pc_robot # "liberar" /\ pc_robot' # "liberar"
        BY <2>6 DEF LeerTotal, SiguePc, zona
      <3> QED  BY <1>1, <3>1, NadaEnviado, SalidaQuieta
    <2>7. CASE EnviarContenedores
      BY <2>7, SalidaTrasEnviar
    <2>8. CASE LiberarZona
      <3>1. UNCHANGED salida
        BY <2>8 DEF LiberarZona
      <3> QED  BY <1>1, <2>8, <3>1, NadaEnviado, SalidaQuieta
    <2>9. CASE Reiniciar
      <3>1. UNCHANGED salida /\ en_zona' = en_zona
            /\ pc_robot # "liberar" /\ pc_robot' # "liberar"
        BY <2>9 DEF Reiniciar, zona
      <3> QED  BY <1>1, <3>1, NadaEnviado, SalidaQuieta
    <2>10. CASE PasoTractor(t)
      BY <2>10, SalidaTrasTomar, SalidaTrasCargar DEF PasoTractor
    <2>11. CASE \E v \in Vuelos : RecibirContenedor(v)
      BY <2>11, SalidaTrasRecibir
    <2>12. CASE EnviarBloque
      <3>1. en_zona' = en_zona /\ pc_robot' = pc_robot
        BY <2>12 DEF EnviarBloque, zona, robot
      <3> QED  BY <1>1, <2>12, <3>1, NadaEnviado, SalidaQuieta
    <2>13. CASE UNCHANGED varsDespacho
      <3>1. UNCHANGED salida /\ en_zona' = en_zona /\ pc_robot' = pc_robot
        BY <2>13 DEF varsDespacho, zona, robot
      <3> QED  BY <1>1, <3>1, NadaEnviado, SalidaQuieta
    <2> QED
      BY <2>1, <2>2, <2>3, <2>4, <2>5, <2>6, <2>7, <2>8, <2>9, <2>10, <2>11,
         <2>12, <2>13 DEF NextDespacho, PasoRobot
  <1>4. LosPorEnviar'
    BY NadaQuedaPorEnviar
  <1> QED  BY <1>1, <1>3, <1>4 DEF InvarianteDelDespacho

(* A plane that leaves has all the containers of its load, which are the   *)
(* bags of its flight.                                                     *)
LEMMA InvarianteImplicaAvion ==
  ASSUME NEW t, InvarianteDelDespacho(t)
  PROVE  AvionCompleto
  <1>1. PICK todos \in [Vuelos -> Seq(SUBSET Equipajes)],
             desde \in [Vuelos -> Nat], hasta \in [Vuelos -> Nat],
             tomados \in Nat, numero \in Seq(Nat) :
          EnTransito(t, todos, desde, hasta, tomados, numero)
    BY DEF InvarianteDelDespacho, HayNumeracion
  <1>2. PICK cargados : EnElAvion(todos, desde, cargados)
    BY <1>1 DEF EnTransito
  <1>3. CargasEnviadas(todos)
    BY <1>1 DEF EnTransito
  <1>4. ASSUME NEW v \in Vuelos, despego[v]
        PROVE  LET cs == en_avion[v] IN
               /\ Basura \notin ToSet(cs)
               /\ (UNION ToSet(cs)) = CargaDe[v]
               /\ \A i, j \in DOMAIN cs : i # j => cs[i] \cap cs[j] = {}
    <2>1. PICK s \in Seq(SUBSET Equipajes) : s = todos[v]
      OBVIOUS
    <2>2. PICK cs \in Seq(Contenedores) : cs = en_avion[v]
      BY DEF InvarianteDelDespacho, TiposDeLaSalida
    <2>3. Len(cs) = Len(s) /\ \A i \in 1..Len(s) : cs[i] = s[i]
      BY <1>2, <1>4, <2>1, <2>2 DEF EnElAvion
    <2>4. DOMAIN cs = DOMAIN s /\ \A i \in DOMAIN s : cs[i] = s[i]
      <3>1. DOMAIN cs = 1..Len(cs)
        OBVIOUS
      <3>2. DOMAIN s = 1..Len(s)
        OBVIOUS
      <3> QED  BY <2>3, <3>1, <3>2
    <2>5. (UNION ToSet(s)) = CargaDe[v] /\ SinCompartir(s)
      BY <1>3, <1>4, <2>1 DEF CargasEnviadas
    <2>6. Basura \notin ToSet(s)
      <3>1. \A i \in DOMAIN s : s[i] \in SUBSET Equipajes
        OBVIOUS
      <3>2. \A c \in SUBSET Equipajes : c # Basura
        BY SuposicionDespacho
      <3> QED  BY <3>1, <3>2 DEF ToSet
    <2>7. ToSet(cs) = ToSet(s)
      BY <2>4 DEF ToSet
    <2>8. \A i, j \in DOMAIN cs : i # j => cs[i] \cap cs[j] = {}
      BY <2>4, <2>5 DEF SinCompartir
    <2> QED  BY <2>2, <2>5, <2>6, <2>7, <2>8
  <1> QED  BY <1>4 DEF AvionCompleto

(* AvionCompleto: with the only tractor that main.cpp launches, no plane   *)
(* takes off without a bag of its flight, with one of another, or with     *)
(* what was read past the end of the containers.                           *)
THEOREM AvionCompletoSiempre ==
  ASSUME NEW t, Tractores = {t}
  PROVE  SpecDespacho => []AvionCompleto
  <1>1. InitDespacho => InvarianteDelDespacho(t)
    BY DespachoInicial
  <1>2. InvarianteDelDespacho(t) /\ [NextDespacho]_varsDespacho
          => InvarianteDelDespacho(t)'
    BY ConservaElDespacho
  <1>3. InvarianteDelDespacho(t) => AvionCompleto
    BY InvarianteImplicaAvion
  <1> QED  BY <1>1, <1>2, <1>3, PTL DEF SpecDespacho
=============================================================================
