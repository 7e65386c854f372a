------------------------------- MODULE Trasbordo -------------------------------
(***************************************************************************)
(* Bags that come with one flight and go on with another one, which leaves *)
(* from any of several airports.  All of it goes through the broker:       *)
(*                                                                         *)
(*   lanzador      creates the queues between airports;                    *)
(*   generador     announces each flight that comes in to the flights that *)
(*                 its bags go on with, and launches a controller for each *)
(*                 of those the first time;                                *)
(*   vuelo         says in which airport a flight has got its zone;        *)
(*   controlador   waits for that, then for the flights with its bags, and *)
(*                 sends the bags to the airport;                          *)
(*   robot         of an airport: takes its bags and puts them on the      *)
(*                 central belt.                                           *)
(*                                                                         *)
(* A queue serves several readers, each of which takes messages of its own *)
(* type: the flight, or the airport.  A robot may break and be started     *)
(* again.                                                                  *)
(*                                                                         *)
(* The generador's queue is in the airport's broker and the others in the  *)
(* intermediate one, two servers of one program: one table and one child   *)
(* per process stand for both, since a process makes one call at a time.   *)
(***************************************************************************)
EXTENDS BrokerDeMensajes

CONSTANTS
  Aeropuertos,    (* their numbers *)
  Arribos,        (* the flights that come in, in the order they do        *)
  Interconexion,  (* pairs of a flight that comes in and one that leaves   *)
  Vuelos,         (* the flights that leave, with transfers or without     *)
  AeropuertoDe,   (* where each of those gets its zone                     *)
  EquipajesIntercargo,     (* the bags...                                  *)
  EntranteDe, DestinoDe    (* ... and the two flights of each              *)

Destinos == {par[2] : par \in Interconexion}

EquipajesDe(d) == {e \in EquipajesIntercargo : DestinoDe[e] = d}

ColaZonas     == "cola_escucha_zona_asignada"
ColaIntercargo == "intercargo"
ColaEntrantes == "cola_escucha_robots_intercargo"

Lanzador       == <<"lanzador", 0>>
Generador      == <<"generador", 0>>
Controlador(d) == <<"controlador", d>>
Vuelo(v)       == <<"vuelo", v>>
Robot(a)       == <<"robot", a>>

Procesos == {Lanzador, Generador} \cup {Controlador(d) : d \in Destinos}
              \cup {Vuelo(v) : v \in Vuelos} \cup {Robot(a) : a \in Aeropuertos}

ASSUME SuposicionTrasbordo ==
  /\ Colas = {ColaZonas, ColaIntercargo, ColaEntrantes}
  /\ Clientes = Procesos
  /\ Aeropuertos \subseteq Nat \ {0}
  /\ Destinos \subseteq Vuelos /\ Vuelos \subseteq Nat \ {0}
  /\ AeropuertoDe \in [Vuelos -> Aeropuertos]
  /\ IsFiniteSet(EquipajesIntercargo)
  /\ Arribos \in Seq(Nat)
  /\ EntranteDe \in [EquipajesIntercargo -> ToSet(Arribos)]
  /\ DestinoDe \in [EquipajesIntercargo -> Destinos]
  /\ \A e \in EquipajesIntercargo : <<EntranteDe[e], DestinoDe[e]>> \in Interconexion

VARIABLES
  pc,            (* of each process *)
  (* generador: the flights still to come, those of its table, the flights *)
  (* the last one has still to be announced to                             *)
  arribos, vuelos_interconexion, por_avisar,
  (* controlador: equipajes_a_cargar, those it is sending, and where to    *)
  equipajes_a_cargar, enviando, id_aeropuerto,
  cinta          (* what each robot has put on its central belt            *)

generador   == <<arribos, vuelos_interconexion, por_avisar>>
controlador == <<equipajes_a_cargar, enviando, id_aeropuerto>>
datos       == <<generador, controlador, cinta>>

varsTrasbordo == <<varsBroker, pc, datos>>

InitTrasbordo ==
  /\ InitBroker
  /\ pc = [p \in Procesos |-> "sin_lanzar"]
  /\ arribos = Arribos
  /\ vuelos_interconexion = Interconexion
  /\ por_avisar = {}
  /\ equipajes_a_cargar = [d \in Destinos |-> EquipajesDe(d)]
  /\ enviando = [d \in Destinos |-> {}]
  /\ id_aeropuerto = [d \in Destinos |-> 0]
  /\ cinta = [a \in Aeropuertos |-> <<>>]

En(p, estado) == pc[p] = estado
Pasa(p, estado) == pc' = [pc EXCEPT ![p] = estado]

(* A call that is a step of p: p is at "de", and at "a" when it is made.   *)
Llamar(p, de, pedido, a) ==
  En(p, de) /\ Pedir(p, pedido) /\ Pasa(p, a)

(* p is at "en" and has the message it waits for. *)
Contestado(p, en) ==
  En(p, en) /\ Recibir(p)

(* The broker answered BROKER_ERROR: an exception ends the process. *)
Terminar(p) ==
  /\ respuesta[p] = BROKER_ERROR
  /\ Desconectar(p)
  /\ Pasa(p, "muerto")
  /\ UNCHANGED datos

-----------------------------------------------------------------------------
(* intermediate_broker_launcher: the two queues between airports *)

Lanzar ==
  /\ En(Lanzador, "sin_lanzar")
  /\ Conectar(Lanzador, Crear(ColaZonas))
  /\ Pasa(Lanzador, "intercargo")
  /\ UNCHANGED datos

CrearColaIntercargo ==
  /\ Llamar(Lanzador, "intercargo", Crear(ColaIntercargo), "listo")
  /\ UNCHANGED datos

-----------------------------------------------------------------------------
(* generador_vuelos_trasbordo; the other processes that use these queues   *)
(* are launched after intermediate_broker (start_process.txt), which a     *)
(* robot may not wait for                                                  *)

Lanzado == En(Lanzador, "listo") /\ Ocioso(Lanzador)

LanzarGenerador ==
  /\ Lanzado
  /\ En(Generador, "sin_lanzar")
  /\ Conectar(Generador, Crear(ColaEntrantes))
  /\ Pasa(Generador, "avisar")
  /\ UNCHANGED datos

(* Fault: only one of the lines of the flight is looked at. *)
ArriboConUno ==
  /\ En(Generador, "avisar") /\ Ocioso(Generador)
  /\ por_avisar = {}
  /\ arribos # <<>>
  /\ LET lineas == {par \in vuelos_interconexion : par[1] = Head(arribos)}
     IN /\ por_avisar' = {CHOOSE par \in lineas : TRUE}
        /\ vuelos_interconexion' = vuelos_interconexion \ lineas
  /\ arribos' = Tail(arribos)
  /\ UNCHANGED <<varsBroker, pc, controlador, cinta>>

(* The next flight comes in: those its bags go on with are still to be     *)
(* told, and its lines leave the table.                                    *)
Arribo ==
  /\ En(Generador, "avisar") /\ Ocioso(Generador)
  /\ por_avisar = {}
  /\ arribos # <<>>
  /\ por_avisar' = {par \in vuelos_interconexion : par[1] = Head(arribos)}
  /\ vuelos_interconexion' = vuelos_interconexion \ por_avisar'
  /\ arribos' = Tail(arribos)
  /\ UNCHANGED <<varsBroker, pc, controlador, cinta>>

(* lanzar_cargador, the first time that a flight is told of anything... *)
LanzarCargador(par) ==
  LET p == Controlador(par[2])
  IN /\ En(Generador, "avisar") /\ Ocioso(Generador)
     /\ par \in por_avisar
     /\ En(p, "sin_lanzar")
     /\ Conectar(p, Sacar(ColaZonas, par[2]))
     /\ Pasa(p, "espera_zona")
     /\ UNCHANGED datos

(* ... and informar_vuelo_entrante, every time *)
Informar(par) ==
  /\ par \in por_avisar
  /\ ~ En(Controlador(par[2]), "sin_lanzar")
  /\ Llamar(Generador, "avisar",
            Poner(ColaEntrantes, [mtype |-> par[2], dato |-> par[1]]), "avisar")
  /\ por_avisar' = por_avisar \ {par}
  /\ UNCHANGED <<arribos, vuelos_interconexion, controlador, cinta>>

-----------------------------------------------------------------------------
(* controlador_de_vuelo: it has got a zone in some airport, and says so *)

ZonaAsignada(v) ==
  /\ Lanzado
  /\ En(Vuelo(v), "sin_lanzar")
  /\ Conectar(Vuelo(v), Poner(ColaZonas, [mtype |-> v, dato |-> AeropuertoDe[v]]))
  /\ Pasa(Vuelo(v), "fin")
  /\ UNCHANGED datos

-----------------------------------------------------------------------------
(* controlador_equipaje_intercargo: its first call waits for the zone      *)

RecibirZona(d) ==
  /\ Contestado(Controlador(d), "espera_zona")
  /\ id_aeropuerto' = [id_aeropuerto EXCEPT
                         ![d] = respuesta[Controlador(d)].msg.dato]
  /\ Pasa(Controlador(d), "enviar")
  /\ UNCHANGED <<generador, equipajes_a_cargar, enviando, cinta>>

PedirEntrante(d) ==
  /\ enviando[d] = {}
  /\ equipajes_a_cargar[d] # {}
  /\ Llamar(Controlador(d), "enviar", Sacar(ColaEntrantes, d), "espera")
  /\ UNCHANGED datos

RecibirEntrante(d) ==
  LET entrante == respuesta[Controlador(d)].msg.dato
  IN /\ Contestado(Controlador(d), "espera")
     /\ enviando' = [enviando EXCEPT
          ![d] = {e \in equipajes_a_cargar[d] : EntranteDe[e] = entrante}]
     /\ equipajes_a_cargar' = [equipajes_a_cargar EXCEPT ![d] = @ \ enviando'[d]]
     /\ Pasa(Controlador(d), "enviar")
     /\ UNCHANGED <<generador, id_aeropuerto, cinta>>

(* enviar_equipaje_intercargo *)
EnviarEquipaje(d, e) ==
  /\ e \in enviando[d]
  /\ Llamar(Controlador(d), "enviar",
            Poner(ColaIntercargo, [mtype |-> id_aeropuerto[d], dato |-> e]),
            "enviar")
  /\ enviando' = [enviando EXCEPT ![d] = @ \ {e}]
  /\ UNCHANGED <<generador, equipajes_a_cargar, id_aeropuerto, cinta>>

PasoControlador(d) ==
  \/ RecibirZona(d)
  \/ PedirEntrante(d)
  \/ RecibirEntrante(d)
  \/ \E e \in EquipajesIntercargo : EnviarEquipaje(d, e)

-----------------------------------------------------------------------------
(* robot_intercargo *)

(* The first time, or again after it broke or got an error *)
LanzarRobot(a) ==
  /\ pc[Robot(a)] \in {"sin_lanzar", "muerto"}
  /\ Conectar(Robot(a), Sacar(ColaIntercargo, a))
  /\ Pasa(Robot(a), "espera")
  /\ UNCHANGED datos

PedirEquipaje(a) ==
  /\ Llamar(Robot(a), "libre", Sacar(ColaIntercargo, a), "espera")
  /\ UNCHANGED datos

(* poner_en_cinta_principal: until the belt has it the bag is the robot's *)
PonerEnCinta(a) ==
  /\ Contestado(Robot(a), "espera")
  /\ cinta' = [cinta EXCEPT ![a] = Append(@, respuesta[Robot(a)].msg.dato)]
  /\ Pasa(Robot(a), "libre")
  /\ UNCHANGED <<generador, controlador>>

PasoRobot(a) == PedirEquipaje(a) \/ PonerEnCinta(a)

(* A robot breaks wherever it is. *)
Caer(a) ==
  /\ pc[Robot(a)] \in {"libre", "espera"}
  /\ vida[Robot(a)] < VidasDe[Robot(a)]
  /\ Desconectar(Robot(a))
  /\ Pasa(Robot(a), "muerto")
  /\ UNCHANGED datos

-----------------------------------------------------------------------------

PasoLanzador  == Lanzar \/ CrearColaIntercargo
PasoGenerador ==
  \/ Arribo
  \/ \E par \in Interconexion : LanzarCargador(par) \/ Informar(par)

PasoBroker(h) == PasoHijo(h) /\ UNCHANGED <<pc, datos>>

NextTrasbordo ==
  \/ PasoLanzador
  \/ LanzarGenerador
  \/ PasoGenerador
  \/ \E v \in Vuelos : ZonaAsignada(v)
  \/ \E d \in Destinos : PasoControlador(d)
  \/ \E a \in Aeropuertos : LanzarRobot(a) \/ PasoRobot(a) \/ Caer(a)
  \/ \E p \in Procesos : Terminar(p)
  \/ \E h \in Hijos : PasoBroker(h)

SpecTrasbordo == InitTrasbordo /\ [][NextTrasbordo]_varsTrasbordo

(* Every process that was launched goes on, and so does every child of the *)
(* broker.  Nothing makes a flight get a zone, nor a robot or the          *)
(* generator be started, nor again after it ended.                         *)
SpecTrasbordoJusta ==
  /\ SpecTrasbordo
  /\ WF_varsTrasbordo(PasoLanzador)
  /\ WF_varsTrasbordo(PasoGenerador)
  /\ \A d \in Destinos : WF_varsTrasbordo(PasoControlador(d))
  /\ \A a \in Aeropuertos : /\ WF_varsTrasbordo(PasoRobot(a))
                             /\ WF_varsTrasbordo(Terminar(Robot(a)))
  /\ \A h \in Hijos : WF_varsTrasbordo(PasoBroker(h))

-----------------------------------------------------------------------------
(* Where the bags are *)

SinEnviar == UNION {equipajes_a_cargar[d] \cup enviando[d] : d \in Destinos}

Enviandose ==
  {hijo[h].pedido.msg.dato : h \in
     {x \in Hijos : Sirve(x, "push") /\ hijo[x].pedido.cola = ColaIntercargo}}

EnCola ==
  UNION {{ipc[l][i].dato : i \in DOMAIN ipc[l]} : l \in
           {x \in DOMAIN ipc : proj_id_to_queue_id[x] = ColaIntercargo}}

EntregadosA(a) ==
  {r.msg.dato : r \in {x \in {respuesta[Robot(a)]} : x.que = "msg"}}

EnCinta == UNION {ToSet(cinta[a]) : a \in Aeropuertos}

(* The flights that have come in already *)
Llegados == {Arribos[i] : i \in 1..(Len(Arribos) - Len(arribos))}

Lanzados == {p \in Procesos : ~ En(p, "sin_lanzar")}

Perdidos ==
  EquipajesIntercargo \ (SinEnviar \cup Enviandose \cup EnCola \cup EnCinta
                 \cup UNION {EntregadosA(a) : a \in Aeropuertos})

PerdidosDe(a) == {e \in Perdidos : AeropuertoDe[DestinoDe[e]] = a}

ConexionesCortadas(a) ==
  vida[Robot(a)] - (IF conectado[Robot(a)] THEN 1 ELSE 0)

-----------------------------------------------------------------------------
(* Properties *)

(* A bag gets to the belt of the airport where its flight was given a      *)
(* zone, once, and not before the flight it came with: though all airports *)
(* share the queues, and a flight is told of its zone and of the flights   *)
(* that come in by other processes, in any order.                          *)
EnSuAeropuerto ==
  \A a \in Aeropuertos :
    /\ IsInjective(cinta[a])
    /\ \A e \in ToSet(cinta[a]) : /\ AeropuertoDe[DestinoDe[e]] = a
                                  /\ ~ En(Vuelo(DestinoDe[e]), "sin_lanzar")
                                  /\ EntranteDe[e] \in Llegados

(* A robot that breaks takes one bag with it at most: the one it holds, or *)
(* the next one, which goes to the child that it left waiting.  The robot  *)
(* that takes its place loses no other.                                    *)
UnaPerdidaPorCaida ==
  \A a \in Aeropuertos : Cardinality(PerdidosDe(a)) <= ConexionesCortadas(a)

(* Every bag whose flight gets a zone comes to its belt or is one of those *)
(* lost, if in the end there is a robot in each airport: announcements,    *)
(* zones and bags wait in their queues for whoever comes late.             *)
TodoTrasbordoLlega ==
  <>[](\A a \in Aeropuertos : conectado[Robot(a)])
    => \A e \in EquipajesIntercargo :
         ({Vuelo(DestinoDe[e]), Generador} \subseteq Lanzados)
           ~> e \in EnCinta \cup Perdidos
=============================================================================
