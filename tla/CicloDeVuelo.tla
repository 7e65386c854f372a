---------------------------- MODULE CicloDeVuelo ----------------------------
(***************************************************************************)
(* The life of a flight, from the desk to the tractors:                    *)
(*                                                                         *)
(*   controlador_de_vuelo       takes a desk and a zone from the queues of *)
(*                              the control tower, registers the zone,     *)
(*                              opens and closes the check-in, gives the   *)
(*                              desk back;                                 *)
(*   puesto_checkin             registers the bags of the passengers, with *)
(*                              mutex_checkin taken;                       *)
(*   controlador_puesto_checkin obeys the open and close messages, and     *)
(*                              sends the total of bags to the zone;       *)
(*   control_carga_contenedores passes the total on to the container belt; *)
(*   robot_carga                loads what comes until it has the total,   *)
(*                              sends the load off and frees the zone.     *)
(*                                                                         *)
(* Between the desk and the container belts a bag is en_camino: it comes   *)
(* out on the belt that get_zona says, in any order (CintaCheckin, the     *)
(* scanners and CircuitoCentral).  Container belts are as ColaConCierre    *)
(* promises, and as long as needed.                                        *)
(***************************************************************************)
EXTENDS ZonasAsignadas, CintaContenedor, SequencesExt

CONSTANTS
  Vuelos,        (* flight numbers                                         *)
  Puestos,       (* check-in desks                                         *)
  Zonas,         (* loading zones, by id of their robot_carga              *)
  Pasajeros, VueloDePasajero, ValijasDe,   (* who flies where with what    *)
  Trasbordo,     (* the transfer bags of each flight                       *)
  Desfasaje,     (* what is added to get_zona's answer: 0 in the code; 1   *)
                 (* would be the zone that its callers take it for         *)
  Anuncios       (* how often a zone is announced as free at the start: 2  *)
                 (* in the code, by the ApiCarga of robot_carga and by the *)
                 (* one of control_carga_contenedores                      *)

ASSUME SuposicionCiclo ==
  /\ Vuelos \subseteq Nat
  /\ Zonas \subseteq {z \in 1..MaxZonas : ZonaValida(z)}
  /\ VueloDePasajero \in [Pasajeros -> Vuelos]
  /\ DOMAIN ValijasDe = Pasajeros
  /\ DOMAIN Trasbordo = Vuelos
  /\ Desfasaje \in {0, 1}
  /\ Anuncios \in {1, 2}

Valijas == (UNION {ValijasDe[p] : p \in Pasajeros})
             \cup (UNION {Trasbordo[v] : v \in Vuelos})

(* An rfid names one bag. *)
ASSUME SuposicionEquipajes ==
  /\ IsFiniteSet(Puestos) /\ IsFiniteSet(Valijas)
  /\ \A s, t \in Pasajeros : s # t => ValijasDe[s] \cap ValijasDe[t] = {}
  /\ \A v, w \in Vuelos : v # w => Trasbordo[v] \cap Trasbordo[w] = {}
  /\ \A v \in Vuelos, s \in Pasajeros : Trasbordo[v] \cap ValijasDe[s] = {}

VueloDe(e) == CHOOSE v \in Vuelos :
                \/ e \in Trasbordo[v]
                \/ \E p \in Pasajeros : VueloDePasajero[p] = v /\ e \in ValijasDe[p]

VARIABLES
  (* the control tower *)
  puestos_libres, zonas_libres, zonas,
  (* controlador_de_vuelo *)
  pc_vuelo, puesto, zona,
  (* the desks: vuelo_actual (num_vuelo, cant_equipajes), the mutex, the   *)
  (* queues, and the total of transfer bags the controller has read        *)
  num_vuelo, cant_equipajes, mutex_checkin, queue_controlador,
  queue_pasajeros, por_registrar, cant_intercargo,
  (* bags not yet in, and bags between the desks and the container belts   *)
  por_llegar, en_camino, perdidos,
  (* the zones *)
  cola_aviso, cinta, pc_carga, cargados, checkin_cerro,
  equipajes_por_cargar, numero_de_vuelo,
  (* loads sent off: <<zone, set of bags>> *)
  embarques

torre  == <<puestos_libres, zonas_libres, zonas>>
vuelos == <<pc_vuelo, puesto, zona>>
puestos == <<num_vuelo, cant_equipajes, mutex_checkin, queue_controlador,
             queue_pasajeros, por_registrar, cant_intercargo>>
equipajes == <<por_llegar, en_camino, perdidos>>
robots == <<pc_carga, cargados, checkin_cerro, equipajes_por_cargar,
            numero_de_vuelo, embarques>>

vars == <<torre, vuelos, puestos, equipajes, cola_aviso, cinta, robots>>

SinVuelo  == -1     (* vuelo_actual->num_vuelo of a closed desk            *)
SinPuesto == 0

(* The robots and their controls start in any order. *)
AnunciosIniciales ==
  {s \in [1..Anuncios * Cardinality(Zonas) -> Zonas] :
     \A z \in Zonas : Cardinality({i \in DOMAIN s : s[i] = z}) = Anuncios}

Init ==
  /\ puestos_libres \in SetToSeqs(Puestos)
  /\ zonas_libres \in AnunciosIniciales
  /\ zonas = ZonasVacias
  /\ pc_vuelo = [v \in Vuelos |-> "inicio"]
  /\ puesto = [v \in Vuelos |-> SinPuesto]
  /\ zona = [v \in Vuelos |-> SinZona]
  /\ num_vuelo = [p \in Puestos |-> SinVuelo]
  /\ cant_equipajes = [p \in Puestos |-> 0]
  /\ mutex_checkin = [p \in Puestos |-> FALSE]
  /\ queue_controlador = [p \in Puestos |-> <<>>]
  /\ queue_pasajeros = [p \in Puestos |-> {}]
  /\ por_registrar = [p \in Puestos |-> {}]
  /\ cant_intercargo = [p \in Puestos |-> 0]
  /\ por_llegar = Pasajeros \cup UNION {Trasbordo[v] : v \in Vuelos}
  /\ en_camino = {}
  /\ perdidos = {}
  /\ cola_aviso = [z \in Zonas |-> <<>>]
  /\ cinta = [z \in Zonas |-> CintaVacia]
  /\ pc_carga = [z \in Zonas |-> "sacar"]
  /\ cargados = [z \in Zonas |-> {}]
  /\ checkin_cerro = [z \in Zonas |-> FALSE]
  /\ equipajes_por_cargar = [z \in Zonas |-> 0]
  /\ numero_de_vuelo = [z \in Zonas |-> SinVuelo]
  /\ embarques = {}

-----------------------------------------------------------------------------
(* controlador_de_vuelo *)

(* The flight goes on to step pc of its controller. *)
Sigue(v, pc) == pc_vuelo' = [pc_vuelo EXCEPT ![v] = pc]

PedirPuesto(v) ==
  /\ pc_vuelo[v] = "inicio"
  /\ puestos_libres # <<>>
  /\ puesto' = [puesto EXCEPT ![v] = Head(puestos_libres)]
  /\ puestos_libres' = Tail(puestos_libres)
  /\ Sigue(v, "con_puesto")
  /\ UNCHANGED <<zonas_libres, zonas, zona, puestos, equipajes, cola_aviso,
                 cinta, robots>>

PedirZona(v) ==
  /\ pc_vuelo[v] = "con_puesto"
  /\ zonas_libres # <<>>
  /\ zona' = [zona EXCEPT ![v] = Head(zonas_libres)]
  /\ zonas_libres' = Tail(zonas_libres)
  /\ Sigue(v, "con_zona")
  /\ UNCHANGED <<puestos_libres, zonas, puesto, puestos, equipajes,
                 cola_aviso, cinta, robots>>

RegistrarZona(v) ==
  /\ pc_vuelo[v] = "con_zona"
  /\ zonas' = AsignarVuelo(zonas, zona[v], v)
  /\ Sigue(v, "registrado")
  /\ UNCHANGED <<puestos_libres, zonas_libres, puesto, zona, puestos,
                 equipajes, cola_aviso, cinta, robots>>

(* enviar_mensaje_to_checkin *)
EnviarAlPuesto(v, iniciar) ==
  queue_controlador' =
    [queue_controlador EXCEPT ![puesto[v]] =
       Append(@, [iniciar_checkin |-> iniciar, num_vuelo |-> v,
                  num_zona |-> zona[v]])]

IniciarCheckin(v) ==
  /\ pc_vuelo[v] = "registrado"
  /\ EnviarAlPuesto(v, TRUE)
  /\ Sigue(v, "abierto")
  /\ UNCHANGED <<torre, puesto, zona, num_vuelo, cant_equipajes,
                 mutex_checkin, queue_pasajeros, por_registrar,
                 cant_intercargo, equipajes, cola_aviso, cinta, robots>>

CerrarCheckin(v) ==
  /\ pc_vuelo[v] = "abierto"
  /\ EnviarAlPuesto(v, FALSE)
  /\ Sigue(v, "cerrado")
  /\ UNCHANGED <<torre, puesto, zona, num_vuelo, cant_equipajes,
                 mutex_checkin, queue_pasajeros, por_registrar,
                 cant_intercargo, equipajes, cola_aviso, cinta, robots>>

(* Fault: the desk is given back before the message that closes it. *)
LiberarAntesDeCerrar(v) ==
  /\ pc_vuelo[v] = "abierto"
  /\ puesto[v] \notin ToSet(puestos_libres)
  /\ puestos_libres' = Append(puestos_libres, puesto[v])
  /\ UNCHANGED <<zonas_libres, zonas, vuelos, puestos, equipajes, cola_aviso,
                 cinta, robots>>

LiberarPuesto(v) ==
  /\ pc_vuelo[v] = "cerrado"
  /\ puestos_libres' = Append(puestos_libres, puesto[v])
  /\ Sigue(v, "fin")
  /\ UNCHANGED <<zonas_libres, zonas, puesto, zona, puestos, equipajes,
                 cola_aviso, cinta, robots>>

-----------------------------------------------------------------------------
(* Passengers and transfer bags *)

(* generador_pasajeros, started once the check-in was opened, sends the    *)
(* passengers of the flight to its desk; they may come late.               *)
LlegaPasajero(s) ==
  LET v == VueloDePasajero[s] IN
  /\ s \in por_llegar
  /\ pc_vuelo[v] \in {"abierto", "cerrado", "fin"}
  /\ por_llegar' = por_llegar \ {s}
  /\ queue_pasajeros' = [queue_pasajeros EXCEPT ![puesto[v]] = @ \cup {s}]
  /\ UNCHANGED <<torre, vuelos, num_vuelo, cant_equipajes, mutex_checkin,
                 queue_controlador, por_registrar, cant_intercargo,
                 en_camino, perdidos, cola_aviso, cinta, robots>>

(* Transfer bags are sent once the flight's zone is known. *)
LlegaTrasbordo(v, e) ==
  /\ pc_vuelo[v] \in {"abierto", "cerrado", "fin"}
  /\ e \in Trasbordo[v] \cap por_llegar
  /\ por_llegar' = por_llegar \ {e}
  /\ en_camino' = en_camino \cup {e}
  /\ UNCHANGED <<torre, vuelos, puestos, perdidos, cola_aviso, cinta, robots>>

-----------------------------------------------------------------------------
(* puesto_checkin *)

(* Fault: the passenger is taken by the desk's flight, without the mutex. *)
AtenderSinMutex(p, s) ==
  /\ s \in queue_pasajeros[p]
  /\ por_registrar[p] = {}
  /\ queue_pasajeros' = [queue_pasajeros EXCEPT ![p] = @ \ {s}]
  /\ por_registrar' =
       [por_registrar EXCEPT ![p] =
          IF num_vuelo[p] = VueloDePasajero[s] THEN ValijasDe[s] ELSE {}]
  /\ UNCHANGED <<torre, vuelos, num_vuelo, cant_equipajes, mutex_checkin,
                 queue_controlador, cant_intercargo, equipajes, cola_aviso,
                 cinta, robots>>

(* comienza_checkin_pasajero takes the mutex; a passenger of a flight that *)
(* is not the one at the desk, or at a closed desk, registers nothing.     *)
AtenderPasajero(p, s) ==
  /\ s \in queue_pasajeros[p]
  /\ ~ mutex_checkin[p]
  /\ mutex_checkin' = [mutex_checkin EXCEPT ![p] = TRUE]
  /\ queue_pasajeros' = [queue_pasajeros EXCEPT ![p] = @ \ {s}]
  /\ por_registrar' =
       [por_registrar EXCEPT ![p] =
          IF num_vuelo[p] = VueloDePasajero[s] THEN ValijasDe[s] ELSE {}]
  /\ UNCHANGED <<torre, vuelos, num_vuelo, cant_equipajes, queue_controlador,
                 cant_intercargo, equipajes, cola_aviso, cinta, robots>>

(* registrar_equipaje counts the bag and puts it on the check-in belt. *)
RegistrarEquipaje(p, e) ==
  /\ e \in por_registrar[p]
  /\ cant_equipajes' = [cant_equipajes EXCEPT ![p] = @ + 1]
  /\ por_registrar' = [por_registrar EXCEPT ![p] = @ \ {e}]
  /\ en_camino' = en_camino \cup {e}
  /\ UNCHANGED <<torre, vuelos, num_vuelo, mutex_checkin, queue_controlador,
                 queue_pasajeros, cant_intercargo, por_llegar, perdidos,
                 cola_aviso, cinta, robots>>

(* fin_checkin_pasajero *)
DespedirPasajero(p) ==
  /\ mutex_checkin[p]
  /\ por_registrar[p] = {}
  /\ mutex_checkin' = [mutex_checkin EXCEPT ![p] = FALSE]
  /\ UNCHANGED <<torre, vuelos, num_vuelo, cant_equipajes, queue_controlador,
                 queue_pasajeros, por_registrar, cant_intercargo, equipajes,
                 cola_aviso, cinta, robots>>

-----------------------------------------------------------------------------
(* controlador_puesto_checkin *)

(* iniciar_checkin does nothing at a desk that is open. *)
AbrirPuesto(p) ==
  /\ queue_controlador[p] # <<>>
  /\ Head(queue_controlador[p]).iniciar_checkin
  /\ ~ mutex_checkin[p]
  /\ LET v == Head(queue_controlador[p]).num_vuelo IN
     /\ IF num_vuelo[p] = SinVuelo
        THEN /\ num_vuelo' = [num_vuelo EXCEPT ![p] = v]
             /\ cant_equipajes' = [cant_equipajes EXCEPT ![p] = 0]
        ELSE UNCHANGED <<num_vuelo, cant_equipajes>>
     /\ cant_intercargo' =
          [cant_intercargo EXCEPT ![p] = Cardinality(Trasbordo[v])]
  /\ queue_controlador' = [queue_controlador EXCEPT ![p] = Tail(@)]
  /\ UNCHANGED <<torre, vuelos, mutex_checkin, queue_pasajeros,
                 por_registrar, equipajes, cola_aviso, cinta, robots>>

(* cerrar_checkin, which throws at a closed desk, and cargar_equipajes *)
CerrarPuesto(p) ==
  /\ queue_controlador[p] # <<>>
  /\ ~ Head(queue_controlador[p]).iniciar_checkin
  /\ ~ mutex_checkin[p]
  /\ num_vuelo[p] # SinVuelo
  /\ num_vuelo' = [num_vuelo EXCEPT ![p] = SinVuelo]
  /\ LET z == Head(queue_controlador[p]).num_zona IN
     cola_aviso' = [cola_aviso EXCEPT ![z] =
                      Append(@, cant_equipajes[p] + cant_intercargo[p])]
  /\ queue_controlador' = [queue_controlador EXCEPT ![p] = Tail(@)]
  /\ UNCHANGED <<torre, vuelos, cant_equipajes, mutex_checkin,
                 queue_pasajeros, por_registrar, cant_intercargo, equipajes,
                 cinta, robots>>

-----------------------------------------------------------------------------
(* From the desks to the container belts *)

(* The zone the dispatch robots are told for flight v. *)
ZonaInformada(v) ==
  LET z == GetZona(zonas, v) IN IF z = SinZona THEN SinZona ELSE z + Desfasaje

(* A dispatch robot puts the bag on the belt of the zone; the last         *)
(* consumer of the central belt drops a bag with no zone; a bag of a zone  *)
(* that has no robot goes round and round.                                 *)
LlegaACinta(e) ==
  LET z == ZonaInformada(VueloDe(e)) IN
  /\ e \in en_camino
  /\ z \in Zonas \cup {SinZona}
  /\ en_camino' = en_camino \ {e}
  /\ IF z = SinZona
     THEN perdidos' = perdidos \cup {e} /\ UNCHANGED cinta
     ELSE cinta' = [cinta EXCEPT ![z] = ConEquipaje(@, e)] /\ UNCHANGED perdidos
  /\ UNCHANGED <<torre, vuelos, puestos, por_llegar, cola_aviso, robots>>

-----------------------------------------------------------------------------
(* control_carga_contenedores *)
AvisarCierre(z) ==
  /\ cola_aviso[z] # <<>>
  /\ cinta' = [cinta EXCEPT ![z] = ConAviso(@, Head(cola_aviso[z]))]
  /\ cola_aviso' = [cola_aviso EXCEPT ![z] = Tail(@)]
  /\ UNCHANGED <<torre, vuelos, puestos, equipajes, robots>>

(* robot_carga *)

(* The loop of the load goes on while one of these fails. *)
CargaCompleta(cerro, hay, total) == cerro /\ hay >= total

IrA(z, pc) == pc_carga' = [pc_carga EXCEPT ![z] = pc]

SacarEquipaje(z) ==
  /\ pc_carga[z] = "sacar"
  /\ cinta[z].cierre # "avisado"
  /\ cinta[z].cola # <<>>
  /\ LET e == Head(cinta[z].cola) IN
     /\ numero_de_vuelo' = [numero_de_vuelo EXCEPT ![z] = VueloDe(e)]
     /\ cargados' = [cargados EXCEPT ![z] = @ \cup {e}]
  /\ cinta' = [cinta EXCEPT ![z] = SinPrimero(@)]
  /\ IF CargaCompleta(checkin_cerro[z], Cardinality(cargados'[z]),
                      equipajes_por_cargar[z])
     THEN IrA(z, "desasignar") ELSE UNCHANGED pc_carga
  /\ UNCHANGED <<torre, vuelos, puestos, equipajes, cola_aviso, checkin_cerro,
                 equipajes_por_cargar, embarques>>

(* The notice comes out as a bag with rfid 0, *)
SacarAviso(z) ==
  /\ pc_carga[z] = "sacar"
  /\ cinta[z].cierre = "avisado"
  /\ cinta' = [cinta EXCEPT ![z] = ConAvisoAtendido(@)]
  /\ checkin_cerro' = [checkin_cerro EXCEPT ![z] = TRUE]
  /\ IrA(z, "leer_total")
  /\ UNCHANGED <<torre, vuelos, puestos, equipajes, cola_aviso, cargados,
                 equipajes_por_cargar, numero_de_vuelo, embarques>>

(* and then the total is read, with the lock of the belt taken again. *)
LeerTotal(z) ==
  /\ pc_carga[z] = "leer_total"
  /\ equipajes_por_cargar' = [equipajes_por_cargar EXCEPT ![z] = cinta[z].total]
  /\ IF CargaCompleta(TRUE, Cardinality(cargados[z]), cinta[z].total)
     THEN IrA(z, "desasignar") ELSE IrA(z, "sacar")
  /\ UNCHANGED <<torre, vuelos, puestos, equipajes, cola_aviso, cinta,
                 cargados, checkin_cerro, numero_de_vuelo, embarques>>

(* desasignar_vuelo is given the number of the robot. *)
Desasignar(z) ==
  /\ pc_carga[z] = "desasignar"
  /\ zonas' = DesasignarVuelo(zonas, z)
  /\ IrA(z, "enviar")
  /\ UNCHANGED <<puestos_libres, zonas_libres, vuelos, puestos, equipajes,
                 cola_aviso, cinta, cargados, checkin_cerro,
                 equipajes_por_cargar, numero_de_vuelo, embarques>>

EnviarContenedores(z) ==
  /\ pc_carga[z] = "enviar"
  /\ embarques' = embarques \cup {<<numero_de_vuelo[z], cargados[z]>>}
  /\ IrA(z, "liberar")
  /\ UNCHANGED <<torre, vuelos, puestos, equipajes, cola_aviso, cinta,
                 cargados, checkin_cerro, equipajes_por_cargar,
                 numero_de_vuelo>>

LiberarZona(z) ==
  /\ pc_carga[z] = "liberar"
  /\ zonas_libres' = Append(zonas_libres, z)
  /\ IrA(z, "reiniciar")
  /\ UNCHANGED <<puestos_libres, zonas, vuelos, puestos, equipajes,
                 cola_aviso, cinta, cargados, checkin_cerro,
                 equipajes_por_cargar, numero_de_vuelo, embarques>>

(* comenzar_nueva_carga, and the variables of the loop *)
ComenzarNuevaCarga(z) ==
  /\ pc_carga[z] = "reiniciar"
  /\ cinta' = [cinta EXCEPT ![z] = ParaNuevaCarga(@)]
  /\ cargados' = [cargados EXCEPT ![z] = {}]
  /\ checkin_cerro' = [checkin_cerro EXCEPT ![z] = FALSE]
  /\ equipajes_por_cargar' = [equipajes_por_cargar EXCEPT ![z] = 0]
  /\ IrA(z, "sacar")
  /\ UNCHANGED <<torre, vuelos, puestos, equipajes, cola_aviso,
                 numero_de_vuelo, embarques>>

-----------------------------------------------------------------------------
PasoVuelo(v) ==
  \/ PedirPuesto(v)
  \/ PedirZona(v)
  \/ RegistrarZona(v)
  \/ IniciarCheckin(v)
  \/ CerrarCheckin(v)
  \/ LiberarPuesto(v)

PasoPuesto(p) ==
  \/ \E s \in Pasajeros : AtenderPasajero(p, s)
  \/ \E e \in Valijas : RegistrarEquipaje(p, e)
  \/ DespedirPasajero(p)

PasoControlador(p) == AbrirPuesto(p) \/ CerrarPuesto(p)

PasoCarga(z) ==
  \/ SacarEquipaje(z)
  \/ SacarAviso(z)
  \/ LeerTotal(z)
  \/ Desasignar(z)
  \/ EnviarContenedores(z)
  \/ LiberarZona(z)
  \/ ComenzarNuevaCarga(z)

PasoEquipaje(e) ==
  \/ LlegaACinta(e)
  \/ \E v \in Vuelos : LlegaTrasbordo(v, e)

Next ==
  \/ \E v \in Vuelos : PasoVuelo(v)
  \/ \E s \in Pasajeros : LlegaPasajero(s)
  \/ \E p \in Puestos : PasoPuesto(p)
  \/ \E p \in Puestos : PasoControlador(p)
  \/ \E e \in Valijas : PasoEquipaje(e)
  \/ \E z \in Zonas : AvisarCierre(z)
  \/ \E z \in Zonas : PasoCarga(z)

Spec == Init /\ [][Next]_vars

(* Every process runs when it can, and the bags on their way arrive; the   *)
(* mutex of a desk is a semaphore, taken again and again by puesto_checkin *)
(* between passengers, hence the strong fairness of its controller.        *)
SpecJusta ==
  /\ Spec
  /\ \A v \in Vuelos : WF_vars(PasoVuelo(v))
  /\ \A p \in Puestos : WF_vars(PasoPuesto(p)) /\ SF_vars(PasoControlador(p))
  /\ \A e \in Valijas : WF_vars(PasoEquipaje(e))
  /\ \A z \in Zonas : WF_vars(AvisarCierre(z)) /\ WF_vars(PasoCarga(z))

-----------------------------------------------------------------------------
(* Properties *)

DeUnVuelo(v) == {e \in Valijas : VueloDe(e) = v}

(* The open and close messages of the flights that share a desk alternate, *)
(* although several controllers send them: when an open message is at the  *)
(* head of the queue its desk is closed (the "ya esta abierto" branch of   *)
(* iniciar_checkin is dead), and a close message finds its own flight      *)
(* there (cerrar_checkin does not throw and closes nobody else's flight).  *)
MensajesEnOrden ==
  \A p \in Puestos :
    LET q == queue_controlador[p] IN
    /\ q # <<>> =>
         num_vuelo[p] = IF Head(q).iniciar_checkin THEN SinVuelo
                        ELSE Head(q).num_vuelo
    /\ \A i \in 1..Len(q) - 1 :
         /\ q[i].iniciar_checkin # q[i + 1].iniciar_checkin
         /\ q[i].iniciar_checkin => q[i].num_vuelo = q[i + 1].num_vuelo

(* The bags of flight v that some desk put on its belt. *)
Registrados(v) ==
  {e \in DeUnVuelo(v) \ Trasbordo[v] :
     \/ e \in en_camino \cup perdidos
     \/ \E z \in Zonas : e \in ToSet(cinta[z].cola) \cup cargados[z]
     \/ \E x \in embarques : e \in x[2]}

(* cant_equipajes of an open desk is what was registered for the flight    *)
(* that is at the desk, whichever flights were there before and however    *)
(* late their passengers come.                                             *)
CuentaAlDia ==
  \A p \in Puestos :
    num_vuelo[p] # SinVuelo =>
      cant_equipajes[p] = Cardinality(Registrados(num_vuelo[p]))

(* The desk has obeyed the close message of flight v. *)
CheckinCerrado(v) ==
  /\ pc_vuelo[v] \in {"cerrado", "fin"}
  /\ \A i \in DOMAIN queue_controlador[puesto[v]] :
       queue_controlador[puesto[v]][i].num_vuelo # v

(* Once the total was sent to the zone no bag is registered for the        *)
(* flight: a passenger halfway through holds mutex_checkin, and one who    *)
(* comes later is turned away.                                             *)
NadaDespuesDelCierre ==
  [][\A v \in Vuelos : CheckinCerrado(v) =>
        Registrados(v)' = Registrados(v)]_vars

(* Every flight that closes is sent off with all its bags. *)
TodoSeEmbarca ==
  \A v \in Vuelos :
    CheckinCerrado(v) ~> (Registrados(v) \cup Trasbordo[v] = {} \/
                           <<v, Registrados(v) \cup Trasbordo[v]>> \in embarques)
=============================================================================
