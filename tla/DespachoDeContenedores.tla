------------------------ MODULE DespachoDeContenedores -----------------------
(***************************************************************************)
(* From the container belt to the planes, for the flights that one zone    *)
(* loads in turn:                                                          *)
(*                                                                         *)
(*   robot_carga   takes the bags off the belt (CintaCarga, in detail),    *)
(*                 fills a container per escala, and sends the containers  *)
(*                 of the load to the tractors in blocks of two;           *)
(*   tractor       takes a block and sends its containers to the plane;    *)
(*   avion         counts containers until it has the total that they      *)
(*                 carry, and takes off.                                   *)
(*                                                                         *)
(* cola_tractores is FIFO; in cola_aviones each plane takes the messages   *)
(* whose type is its flight.  Both are System V queues, and push is a      *)
(* msgsnd that waits while the queue is full (src/ipc/messagequeue.cpp).   *)
(* No bag weighs more than TOPE_PESO_VALIJA, so that 30 of them are        *)
(* lighter than MAX_PESO_CONTENEDOR, and the number of bags is what fills  *)
(* a container.                                                            *)
(***************************************************************************)
EXTENDS CintaCarga, SequencesExt

CONSTANTS
  Orden,          (* the flights of the zone, in the order it loads them   *)
  CargaDe,        (* the bags of each flight                               *)
  EscalaDe,       (* the escala of each bag; numbered in the map's order   *)
  CantEscalas,
  MaxValijas,     (* MAX_VALIJAS_POR_CONTENEDOR                            *)
  PorTractor,     (* MAX_CONTENEDORES_POR_TRACTOR                          *)
  CapacidadTractores, CapacidadAviones,   (* the messages that each queue  *)
                                          (* holds before a send waits     *)
  Tractores,
  Basura          (* what is past the end of the vector of containers      *)

Vuelos == ToSet(Orden)

(* No flight is loaded twice, each bag is of one flight, and what is past  *)
(* the end of the vector is no container of these bags.                    *)
ASSUME SuposicionDespacho ==
  /\ Orden \in Seq(Vuelos) /\ Orden # <<>> /\ IsInjective(Orden)
  /\ IsFiniteSet(Equipajes)
  /\ CargaDe \in [Vuelos -> SUBSET Equipajes]
  /\ UNION {CargaDe[v] : v \in Vuelos} = Equipajes
  /\ \A v, w \in Vuelos : v # w => CargaDe[v] \cap CargaDe[w] = {}
  /\ \A v \in Vuelos : Cardinality(CargaDe[v]) \in Totales
  /\ CantEscalas \in Nat
  /\ EscalaDe \in [Equipajes -> 1..CantEscalas]
  /\ {MaxValijas, PorTractor} \subseteq Nat \ {0}
  /\ \A c \in SUBSET Equipajes : c # Basura

ASSUME SuposicionColas ==
  {CapacidadTractores, CapacidadAviones} \subseteq Nat \ {0}

VueloDe(e) == CHOOSE v \in Vuelos : e \in CargaDe[v]

VARIABLES
  (* the zone: its flight, as an index in Orden; the bags that the         *)
  (* dispatch robot has still to put; whether the notice was given         *)
  en_zona, por_poner, avisado,
  (* robot_carga *)
  pc_robot, checkin_cerro, equipajes_cargados, equipajes_por_cargar,
  numero_de_vuelo, contenedores_por_escala, contenedores,
  (* the blocks that robot_carga has still to send                         *)
  por_enviar,
  (* the queues, the block of each tractor, the containers of each plane   *)
  cola_tractores, bloque, cola_aviones, en_avion, despego

zona  == <<en_zona, por_poner, avisado>>
carga == <<checkin_cerro, equipajes_cargados, equipajes_por_cargar,
           numero_de_vuelo, contenedores_por_escala, contenedores>>
robot == <<pc_robot, carga>>
salida == <<por_enviar, cola_tractores, bloque, cola_aviones, en_avion, despego>>

varsDespacho == <<vars, zona, robot, salida>>

SinVuelo == 0     (* numero_de_vuelo before the first bag *)

SinContenedores == [x \in 1..CantEscalas |-> {}]

SinBloque == [vuelo |-> SinVuelo, total |-> 0, contenedores |-> <<>>]

InitDespacho ==
  /\ Init
  /\ en_zona = 1
  /\ por_poner = CargaDe[Orden[1]]
  /\ avisado = FALSE
  /\ pc_robot = "cargar"
  /\ checkin_cerro = FALSE
  /\ equipajes_cargados = 0
  /\ equipajes_por_cargar = 0
  /\ numero_de_vuelo = SinVuelo
  /\ contenedores_por_escala = SinContenedores
  /\ contenedores = <<>>
  /\ por_enviar = <<>>
  /\ cola_tractores = <<>>
  /\ bloque = [t \in Tractores |-> SinBloque]
  /\ cola_aviones = <<>>
  /\ en_avion = [v \in Vuelos |-> <<>>]
  /\ despego = [v \in Vuelos |-> FALSE]

-----------------------------------------------------------------------------
(* The belt's other users *)

(* The dispatch robot puts the bags of the flight in any order. *)
Poner(e) ==
  /\ e \in por_poner
  /\ LlamarPoner(e)
  /\ por_poner' = por_poner \ {e}
  /\ UNCHANGED <<en_zona, avisado, robot, salida>>

SeguirPoniendo == PasoProductor /\ UNCHANGED <<zona, robot, salida>>

(* The notice of the flight, with its total.  A check-in lasts a minute    *)
(* (SLEEP_DURACION_CHECKIN), so that the belt has been reset since the     *)
(* zone was freed; CicloDeVuelo has what happens otherwise.                *)
Avisar ==
  /\ en_zona <= Len(Orden)
  /\ ~ avisado
  /\ pc_robot # "reiniciar"
  /\ AvisarCierre(Cardinality(CargaDe[Orden[en_zona]]))
  /\ avisado' = TRUE
  /\ UNCHANGED <<en_zona, por_poner, robot, salida>>

-----------------------------------------------------------------------------
(* robot_carga *)

Llamar ==
  /\ pc_robot = "cargar"
  /\ LlamarSacar \/ EsperarConsumidor \/ NoPudoExtraer
  /\ UNCHANGED <<zona, robot, salida>>

(* agregar_equipaje: the bag goes to the container of its escala; when it  *)
(* is full it joins the loaded ones and another takes its place.           *)
AgregarEquipaje(e) ==
  LET x == EscalaDe[e]
      c == contenedores_por_escala[x]
  IN IF Cardinality(c) < MaxValijas
     THEN /\ contenedores_por_escala' =
               [contenedores_por_escala EXCEPT ![x] = c \cup {e}]
          /\ UNCHANGED contenedores
     ELSE /\ contenedores_por_escala' =
               [contenedores_por_escala EXCEPT ![x] = {e}]
          /\ contenedores' = Append(contenedores, c)

(* The loop of the load ends with this many bags. *)
SiguePc(cerro, cargados, total) ==
  IF cerro /\ cargados >= total THEN "enviar" ELSE "cargar"

SacarEquipaje ==
  /\ Extraer
  /\ numero_de_vuelo' = VueloDe(elemento')
  /\ AgregarEquipaje(elemento')
  /\ equipajes_cargados' = equipajes_cargados + 1
  /\ pc_robot' = SiguePc(checkin_cerro, equipajes_cargados', equipajes_por_cargar)
  /\ UNCHANGED <<zona, checkin_cerro, equipajes_por_cargar, salida>>

SacarAviso ==
  /\ RecibirAviso
  /\ checkin_cerro' = TRUE
  /\ pc_robot' = "leer_total"
  /\ UNCHANGED <<zona, equipajes_cargados, equipajes_por_cargar,
                 numero_de_vuelo, contenedores_por_escala, contenedores,
                 salida>>

(* obtener_cantidad_equipaje_total, with the lock taken again *)
LeerTotal ==
  /\ pc_robot = "leer_total"
  /\ equipajes_por_cargar' = numero_de_valijas_totales
  /\ pc_robot' = SiguePc(TRUE, equipajes_cargados, numero_de_valijas_totales)
  /\ UNCHANGED <<vars, zona, checkin_cerro, equipajes_cargados,
                 numero_de_vuelo, contenedores_por_escala, contenedores,
                 salida>>

(* Fault: the blocks are counted rounding down. *)
BloquesEnteros(v, todos) ==
  [i \in 1..Len(todos) \div PorTractor |->
     [vuelo |-> v, total |-> Len(todos),
      contenedores |-> [j \in 1..PorTractor |-> todos[(i - 1) * PorTractor + j]]]]

(* enviar_contenedores_a_avion always fills a block: past the end of the   *)
(* vector there is Basura, a container of an earlier load or memory that   *)
(* was never written.                                                      *)
Bloques(v, todos) ==
  LET cant_bloques == (Len(todos) + PorTractor - 1) \div PorTractor
      En(k) == IF k <= Len(todos) THEN todos[k] ELSE Basura
  IN [i \in 1..cant_bloques |->
        [vuelo |-> v, total |-> Len(todos),
         contenedores |-> [j \in 1..PorTractor |-> En((i - 1) * PorTractor + j)]]]

(* The k-th of a set of numbers. *)
Enesimo(S, k) == CHOOSE x \in S : Cardinality({y \in S : y <= x}) = k

(* The containers that are not full, in the order of the map. *)
Resto ==
  LET escalas == {x \in 1..CantEscalas : contenedores_por_escala[x] # {}} IN
  [k \in 1..Cardinality(escalas) |->
     contenedores_por_escala[Enesimo(escalas, k)]]

(* Fault: contenedores_por_escala.clear() is missing. *)
EnviarSinVaciar ==
  /\ pc_robot = "enviar"
  /\ por_enviar' = Bloques(numero_de_vuelo, contenedores \o Resto)
  /\ contenedores' = <<>>
  /\ pc_robot' = "liberar"
  /\ UNCHANGED <<vars, zona, checkin_cerro, equipajes_cargados,
                 contenedores_por_escala, equipajes_por_cargar,
                 numero_de_vuelo, cola_tractores, bloque, cola_aviones,
                 en_avion, despego>>

(* The containers that are not full join the others, and the load is made  *)
(* into blocks for the tractors.                                           *)
EnviarContenedores ==
  /\ pc_robot = "enviar"
  /\ por_enviar' = Bloques(numero_de_vuelo, contenedores \o Resto)
  /\ contenedores' = <<>>
  /\ contenedores_por_escala' = SinContenedores
  /\ pc_robot' = "liberar"
  /\ UNCHANGED <<vars, zona, checkin_cerro, equipajes_cargados,
                 equipajes_por_cargar, numero_de_vuelo, cola_tractores,
                 bloque, cola_aviones, en_avion, despego>>

(* One turn of the loop that sends the blocks: push waits for room. *)
EnviarBloque ==
  /\ pc_robot = "liberar"
  /\ por_enviar # <<>>
  /\ Len(cola_tractores) < CapacidadTractores
  /\ cola_tractores' = Append(cola_tractores, Head(por_enviar))
  /\ por_enviar' = Tail(por_enviar)
  /\ UNCHANGED <<vars, zona, robot, bloque, cola_aviones, en_avion, despego>>

(* The zone is free once the last block is sent, and the next flight gets  *)
(* it.                                                                     *)
LiberarZona ==
  /\ pc_robot = "liberar"
  /\ por_enviar = <<>>
  /\ pc_robot' = "reiniciar"
  /\ en_zona' = en_zona + 1
  /\ por_poner' = por_poner \cup
       (IF en_zona < Len(Orden) THEN CargaDe[Orden[en_zona + 1]] ELSE {})
  /\ avisado' = FALSE
  /\ UNCHANGED <<vars, carga, salida>>

Reiniciar ==
  /\ pc_robot = "reiniciar"
  /\ ComenzarNuevaCarga
  /\ checkin_cerro' = FALSE
  /\ equipajes_cargados' = 0
  /\ equipajes_por_cargar' = 0
  /\ pc_robot' = "cargar"
  /\ UNCHANGED <<zona, numero_de_vuelo, contenedores_por_escala,
                 contenedores, salida>>

-----------------------------------------------------------------------------
(* tractor *)

TomarBloque(t) ==
  /\ bloque[t].contenedores = <<>>
  /\ cola_tractores # <<>>
  /\ bloque' = [bloque EXCEPT ![t] = Head(cola_tractores)]
  /\ cola_tractores' = Tail(cola_tractores)
  /\ UNCHANGED <<vars, zona, robot, por_enviar, cola_aviones, en_avion,
                 despego>>

(* push waits for room here too, and only the plane of the flight takes a  *)
(* message out of cola_aviones.                                            *)
CargarContenedorEnAvion(t) ==
  LET b == bloque[t] IN
  /\ b.contenedores # <<>>
  /\ Len(cola_aviones) < CapacidadAviones
  /\ cola_aviones' = Append(cola_aviones,
       [vuelo |-> b.vuelo, total |-> b.total,
        contenedor |-> Head(b.contenedores)])
  /\ bloque' = [bloque EXCEPT ![t].contenedores = Tail(@)]
  /\ UNCHANGED <<vars, zona, robot, por_enviar, cola_tractores, en_avion,
                 despego>>

(* avion: esperar_carga_equipajes *)
RecibirContenedor(v) ==
  LET i == SelectInSeq(cola_aviones, LAMBDA m : m.vuelo = v) IN
  /\ ~ despego[v]
  /\ i # 0
  /\ en_avion' = [en_avion EXCEPT ![v] = Append(@, cola_aviones[i].contenedor)]
  /\ despego' = [despego EXCEPT ![v] = Len(en_avion'[v]) >= cola_aviones[i].total]
  /\ cola_aviones' = RemoveAt(cola_aviones, i)
  /\ UNCHANGED <<vars, zona, robot, por_enviar, cola_tractores, bloque>>

-----------------------------------------------------------------------------
PasoDespacho == SeguirPoniendo \/ \E e \in Equipajes : Poner(e)

PasoRobot ==
  \/ Llamar
  \/ SacarEquipaje
  \/ SacarAviso
  \/ LeerTotal
  \/ EnviarContenedores
  \/ EnviarBloque
  \/ LiberarZona
  \/ Reiniciar

PasoTractor(t) == TomarBloque(t) \/ CargarContenedorEnAvion(t)

NextDespacho ==
  \/ PasoDespacho
  \/ Avisar
  \/ PasoRobot
  \/ \E t \in Tractores : PasoTractor(t)
  \/ \E v \in Vuelos : RecibirContenedor(v)

SpecDespacho == InitDespacho /\ [][NextDespacho]_varsDespacho

(* Every process goes on; the bags of the flight arrive; nobody has to     *)
(* close a check-in.                                                       *)
SpecDespachoJusta ==
  /\ SpecDespacho
  /\ WF_varsDespacho(PasoDespacho)
  /\ WF_varsDespacho(PasoRobot)
  /\ \A t \in Tractores : WF_varsDespacho(PasoTractor(t))
  /\ \A v \in Vuelos : WF_varsDespacho(RecibirContenedor(v))

-----------------------------------------------------------------------------
(* Properties *)

(* A plane that has taken off has each bag of its flight in exactly one    *)
(* container, no bag of another flight, and nothing that was read past the *)
(* end of the containers of its load: contenedores_actual counts that one  *)
(* too, but the plane has left when it comes (api_avion.h, api_carga.h).   *)
AvionCompleto ==
  \A v \in Vuelos :
    despego[v] =>
      LET cs == en_avion[v] IN
      /\ Basura \notin ToSet(cs)
      /\ UNION ToSet(cs) = CargaDe[v]
      /\ \A i, j \in DOMAIN cs : i # j => cs[i] \cap cs[j] = {}

(* The queue of the planes is full of containers of flights that have left *)
(* (what was read past the end of their loads): nobody will take them.     *)
ColaTapada ==
  /\ Len(cola_aviones) = CapacidadAviones
  /\ \A i \in DOMAIN cola_aviones : despego[cola_aviones[i].vuelo]

(* A flight with bags takes off once its check-in has closed: the load     *)
(* ends, its last container is sent too, and the plane gets as many as it  *)
(* counts to.  Nothing else stops it than the full queue of ColaTapada,    *)
(* which holds the tractor for good.  (A plane without bags waits for      *)
(* ever: no block is sent.)                                                *)
AvionDespega ==
  \A i \in DOMAIN Orden :
    en_zona = i /\ avisado /\ CargaDe[Orden[i]] # {} ~>
      despego[Orden[i]] \/ []ColaTapada
=============================================================================
