--------------------------- MODULE CircuitoCentral --------------------------
(***************************************************************************)
(* The processes around the central belt and the loop they form:           *)
(*                                                                         *)
(*   robot_scanner       scans a bag and puts it on the central belt;      *)
(*   robot_despacho      (consumers 1..CantConsumidores - 1) reads a bag,  *)
(*                       asks the control tower for its zone, and takes it *)
(*                       to the container belt of the zone or lets it pass *)
(*   robot_control_equipaje_sospechoso   (the last consumer) takes every   *)
(*                       bag that reaches it and queues it for control,    *)
(*                       unless its flight has no zone;                    *)
(*   control_equipaje_sospechoso         (a producer) cleans the bags of   *)
(*                       the queue and puts them back on the belt.         *)
(*                                                                         *)
(* The belt is the detailed one of CintaPrincipal.  The container belts    *)
(* and the message queue stand for what they promise: bounded FIFO queues. *)
(***************************************************************************)
EXTENDS CintaPrincipal, ZonasAsignadas, Sequences, SequencesExt

CONSTANTS
  Ids,            (* the bags, by rfid                                     *)
  VueloDe,        (* numero_de_vuelo_destino of each                       *)
  Control,        (* the producer control_equipaje_sospechoso              *)
  ZonasDe,        (* the zones of each dispatch robot: zona_desde..hasta   *)
  RobotsCarga,    (* the loading robots, by the zone each announces        *)
  CapacidadCola,  (* messages that fit in the queue to control             *)
  CapacidadContenedor  (* CAPACIDAD_CINTA_CONTENEDOR                       *)

ASSUME SuposicionCircuito ==
  /\ Equipajes = [id : Ids, sospechoso : BOOLEAN]
  /\ Ninguno \notin Equipajes
  /\ VueloDe \in [Ids -> Nat]
  /\ Control \in Productores
  /\ CantConsumidores > 1
  /\ ZonasDe \in [1..CantConsumidores - 1 -> SUBSET (1..MaxZonas)]
  /\ RobotsCarga \subseteq {z \in 1..MaxZonas : ZonaValida(z)}

Despachos  == 1..CantConsumidores - 1
Ultimo     == CantConsumidores
Scanners   == Productores \ {Control}
Vuelos     == {VueloDe[id] : id \in Ids}
ZonasServidas == UNION {ZonasDe[c] : c \in Despachos}

VARIABLES
  por_llegar,     (* bags not scanned yet                                  *)
  zonas,          (* the table of the control tower                        *)
  vuelos_abiertos,(* flights whose controller has registered a zone        *)
  zonas_libres,   (* how often each zone is in the tower's queue of zones  *)
  num_zona,       (* what get_zona answered to each consumer               *)
  en_mano,        (* the bag each consumer took off the belt               *)
  cola_control,   (* messages to control_equipaje_sospechoso               *)
  cinta_contenedor,
  cargados,       (* bags taken off the container belts                    *)
  descartados     (* bags dropped by the last consumer                     *)

circuito == <<por_llegar, zonas, vuelos_abiertos, zonas_libres, num_zona,
              en_mano, cola_control, cinta_contenedor, cargados, descartados>>

todo == <<vars, circuito>>

(* Every zone is announced as free by the ApiCarga of its robot_carga and  *)
(* by that of its control_carga_contenedores.                              *)
Anuncios == 2

(* num_zona before get_zona is called for the bag just read *)
SinConsultar == -2

InitCircuito ==
  /\ Init
  /\ por_llegar = Ids
  /\ zonas = ZonasVacias
  /\ vuelos_abiertos = {}
  /\ zonas_libres = [z \in RobotsCarga |-> Anuncios]
  /\ num_zona = [c \in Consumidores |-> SinConsultar]
  /\ en_mano = [c \in Consumidores |-> Ninguno]
  /\ cola_control = <<>>
  /\ cinta_contenedor = [z \in ZonasServidas |-> <<>>]
  /\ cargados = {}
  /\ descartados = {}

Vuelo(e) == VueloDe[e.id]

-----------------------------------------------------------------------------
(* The flights' controllers and the loading robots, as the tower sees them *)

(* controlador_de_vuelo takes a free zone and registers it before it opens *)
(* the check-in.                                                           *)
AbrirVuelo(v, z) ==
  /\ v \notin vuelos_abiertos
  /\ zonas_libres[z] > 0
  /\ zonas_libres' = [zonas_libres EXCEPT ![z] = @ - 1]
  /\ vuelos_abiertos' = vuelos_abiertos \cup {v}
  /\ zonas' = AsignarVuelo(zonas, z, v)
  /\ UNCHANGED <<vars, por_llegar, num_zona, en_mano, cola_control,
                 cinta_contenedor, cargados, descartados>>

(* robot_carga z ends a load: it passes its own id to desasignar_vuelo,    *)
(* which takes it for a flight number, and frees the zone.  The two calls  *)
(* are one step here; CicloDeVuelo has them apart.                         *)
TerminarCarga(z) ==
  /\ zonas_libres[z] < Anuncios
  /\ zonas' = DesasignarVuelo(zonas, z)
  /\ zonas_libres' = [zonas_libres EXCEPT ![z] = @ + 1]
  /\ UNCHANGED <<vars, por_llegar, vuelos_abiertos, num_zona, en_mano,
                 cola_control, cinta_contenedor, cargados, descartados>>

(* robot_carga takes a bag off its container belt. *)
Cargar(z) ==
  /\ cinta_contenedor[z] # <<>>
  /\ cargados' = cargados \cup {Head(cinta_contenedor[z]).id}
  /\ cinta_contenedor' = [cinta_contenedor EXCEPT ![z] = Tail(@)]
  /\ UNCHANGED <<vars, por_llegar, zonas, vuelos_abiertos, zonas_libres,
                 num_zona, en_mano, cola_control, descartados>>

-----------------------------------------------------------------------------
(* robot_scanner: the mark of suspicion is drawn for every bag. *)
Escanear(p, e) ==
  /\ e.id \in por_llegar
  /\ Vuelo(e) \in vuelos_abiertos
  /\ por_llegar' = por_llegar \ {e.id}
  /\ LlamarColocar(p, e)
  /\ UNCHANGED <<zonas, vuelos_abiertos, zonas_libres, num_zona, en_mano,
                 cola_control, cinta_contenedor, cargados, descartados>>

-----------------------------------------------------------------------------
(* The consumers *)

LeerProximo(c) ==
  /\ pc_consumidor[c] = "fuera"
  /\ en_mano[c] = Ninguno
  /\ LlamarLeer(c)
  /\ UNCHANGED circuito

(* get_zona, an RPC to the control tower *)
ConsultarZona(c, e) ==
  /\ num_zona[c] = SinConsultar
  /\ num_zona' = [num_zona EXCEPT ![c] = GetZona(zonas, Vuelo(e))]
  /\ UNCHANGED <<vars, por_llegar, zonas, vuelos_abiertos, zonas_libres,
                 en_mano, cola_control, cinta_contenedor, cargados,
                 descartados>>

ConsultarZonaDelLeido(c) ==
  /\ c \in Despachos
  /\ pc_consumidor[c] = "leyo"
  /\ ConsultarZona(c, ultimo_equipaje_leido[c])

(* Fault: zona_desde is taken as the zone before the first. *)
DesdeExclusivo(c, e) ==
  ~ e.sospechoso /\ num_zona[c] \in ZonasDe[c] \ {Min(ZonasDe[c])}

(* Fault: the mark of suspicion is not looked at. *)
SoloPorZona(c, e) == num_zona[c] \in ZonasDe[c]

(* The bag is for robot_despacho c, by what get_zona answered. *)
EsParaMi(c, e) == ~ e.sospechoso /\ num_zona[c] \in ZonasDe[c]

DejarPasar(c) ==
  /\ c \in Despachos
  /\ pc_consumidor[c] = "leyo"
  /\ num_zona[c] # SinConsultar
  /\ ~ EsParaMi(c, ultimo_equipaje_leido[c])
  /\ Avanzar(c)
  /\ num_zona' = [num_zona EXCEPT ![c] = SinConsultar]
  /\ UNCHANGED <<por_llegar, zonas, vuelos_abiertos, zonas_libres, en_mano,
                 cola_control, cinta_contenedor, cargados, descartados>>

(* Fault: the bag is taken and the belt advanced in place of extracted. *)
TomarYAvanzar(c) ==
  /\ c \in Despachos =>
       /\ num_zona[c] # SinConsultar
       /\ EsParaMi(c, ultimo_equipaje_leido[c])
  /\ Avanzar(c)
  /\ en_mano' = [en_mano EXCEPT ![c] = ultimo_equipaje_leido[c]]
  /\ UNCHANGED <<por_llegar, zonas, vuelos_abiertos, zonas_libres, num_zona,
                 cola_control, cinta_contenedor, cargados, descartados>>

(* A dispatch robot takes a bag of its zones, the last consumer any bag. *)
Tomar(c) ==
  /\ c \in Despachos =>
       /\ num_zona[c] # SinConsultar
       /\ EsParaMi(c, ultimo_equipaje_leido[c])
  /\ Extraer(c)
  /\ en_mano' = [en_mano EXCEPT ![c] = ultimo_equipaje_leido[c]]
  /\ UNCHANGED <<por_llegar, zonas, vuelos_abiertos, zonas_libres, num_zona,
                 cola_control, cinta_contenedor, cargados, descartados>>

(* The bag leaves the hands of consumer c, which starts its loop again. *)
Soltar(c) ==
  /\ en_mano' = [en_mano EXCEPT ![c] = Ninguno]
  /\ num_zona' = [num_zona EXCEPT ![c] = SinConsultar]

(* robot_despacho: poner_equipaje on the container belt, when it has room *)
Entregar(c) ==
  /\ c \in Despachos
  /\ en_mano[c] # Ninguno
  /\ Len(cinta_contenedor[num_zona[c]]) < CapacidadContenedor
  /\ cinta_contenedor' =
       [cinta_contenedor EXCEPT ![num_zona[c]] = Append(@, en_mano[c])]
  /\ Soltar(c)
  /\ UNCHANGED <<vars, por_llegar, zonas, vuelos_abiertos, zonas_libres,
                 cola_control, cargados, descartados>>

(* robot_control_equipaje_sospechoso asks for the zone of what it took, *)
ConsultarZonaDelTomado ==
  /\ en_mano[Ultimo] # Ninguno
  /\ ConsultarZona(Ultimo, en_mano[Ultimo])

(* drops it if its flight has none, *)
Descartar ==
  /\ en_mano[Ultimo] # Ninguno
  /\ num_zona[Ultimo] = SinZona
  /\ descartados' = descartados \cup {en_mano[Ultimo].id}
  /\ Soltar(Ultimo)
  /\ UNCHANGED <<vars, por_llegar, zonas, vuelos_abiertos, zonas_libres,
                 cola_control, cinta_contenedor, cargados>>

(* and sends it to control otherwise, when the queue has room.  Every bag  *)
(* of the loop has an rfid other than 0, so that the test of it is no      *)
(* guard here.                                                             *)
EnviarAControl ==
  /\ en_mano[Ultimo] # Ninguno
  /\ num_zona[Ultimo] \notin {SinConsultar, SinZona}
  /\ Len(cola_control) < CapacidadCola
  /\ cola_control' = Append(cola_control, en_mano[Ultimo])
  /\ Soltar(Ultimo)
  /\ UNCHANGED <<vars, por_llegar, zonas, vuelos_abiertos, zonas_libres,
                 cinta_contenedor, cargados, descartados>>

(* Fault: the bag goes back as it came. *)
SinLimpiar(e) == e

(* control_equipaje_sospechoso: what set_sospechoso(false) leaves *)
Limpio(e) == [e EXCEPT !.sospechoso = FALSE]

Recolocar ==
  /\ cola_control # <<>>
  /\ LlamarColocar(Control, Limpio(Head(cola_control)))
  /\ cola_control' = Tail(cola_control)
  /\ UNCHANGED <<por_llegar, zonas, vuelos_abiertos, zonas_libres, num_zona,
                 en_mano, cinta_contenedor, cargados, descartados>>

-----------------------------------------------------------------------------
(* What a consumer does on its own once its loop has started *)
PasoRobot(c) ==
  \/ LeerProximo(c)
  \/ (EsperarConsumidor(c) \/ Leer(c) \/ NoPudoLeer(c)) /\ UNCHANGED circuito
  \/ ConsultarZonaDelLeido(c)
  \/ DejarPasar(c)
  \/ Tomar(c)
  \/ Entregar(c)

PasoUltimo == ConsultarZonaDelTomado \/ Descartar \/ EnviarAControl

PasoCinta(p) == PasoProductor(p) /\ UNCHANGED circuito

NextCircuito ==
  \/ \E v \in Vuelos, z \in RobotsCarga : AbrirVuelo(v, z)
  \/ \E z \in RobotsCarga : TerminarCarga(z)
  \/ \E z \in ZonasServidas : Cargar(z)
  \/ \E p \in Scanners, e \in Equipajes : Escanear(p, e)
  \/ \E p \in Productores : PasoCinta(p)
  \/ \E c \in Consumidores : PasoRobot(c)
  \/ PasoUltimo
  \/ Recolocar

SpecCircuito == InitCircuito /\ [][NextCircuito]_todo

(* Every process is an endless loop whose calls run when they can; flights *)
(* need not open and nothing says when a load ends.                        *)
EquidadCircuito ==
  /\ \A p \in Productores : WF_todo(PasoCinta(p))
  /\ \A c \in Consumidores : WF_todo(PasoRobot(c))
  /\ WF_todo(PasoUltimo)
  /\ WF_todo(Recolocar)
  /\ \A z \in ZonasServidas : WF_todo(Cargar(z))

SpecCircuitoJusta == SpecCircuito /\ EquidadCircuito

-----------------------------------------------------------------------------
(* Properties *)

(* How many times bag id is with some holders or in a queue, or in a set *)
DelId(id) == {e \in Equipajes : e.id = id}
EnTenedores(id, f) == Cardinality({k \in DOMAIN f : f[k] \in DelId(id)})
EnConjunto(id, S) == IF id \in S THEN 1 ELSE 0

Ejemplares(id) ==
  EnConjunto(id, por_llegar) + EnTenedores(id, a_colocar)
    + EnTenedores(id, Contenido) + EnTenedores(id, en_mano)
    + EnTenedores(id, cola_control)
    + SumFunction([z \in ZonasServidas |-> EnTenedores(id, cinta_contenedor[z])])
    + EnConjunto(id, cargados) + EnConjunto(id, descartados)

(* No bag is lost or duplicated on its way: at every moment each is in one *)
(* place, be it a process's hands, the central belt, the queue to control, *)
(* a container belt, or already loaded or discarded.                       *)
CadaEquipajeEnUnLugar == \A id \in Ids : Ejemplares(id) = 1

(* A flight is attended when get_zona gives a zone of a dispatch robot. *)
Atendido(v) == \E z \in ZonasServidas \cap DOMAIN zonas : zonas[z] = v

(* A bag marked by a scanner never gets to a container belt or into the    *)
(* hands of a dispatch robot before control has cleared the mark           *)
(* (robot_despacho.cpp:65), although all of them read it first.            *)
SospechosoNoSeCarga ==
  /\ \A c \in Despachos : en_mano[c] # Ninguno => ~ en_mano[c].sospechoso
  /\ \A z \in ZonasServidas : \A i \in DOMAIN cinta_contenedor[z] :
       ~ cinta_contenedor[z][i].sospechoso

(* A clean bag of a flight that is attended does not reach the last        *)
(* consumer, the queue to control nor control again: a dispatch robot      *)
(* stops it, in whatever order scanners, control and robots run.  And no   *)
(* bag of a flight with a zone was discarded                               *)
(* (robot_control_equipaje_sospechoso.cpp:47).                             *)
LimpiosNoVuelven ==
  /\ \A e \in {en_mano[Ultimo]} \cup ToSet(cola_control) :
       e # Ninguno /\ Atendido(Vuelo(e)) => e.sospechoso
  /\ \A id \in descartados : \A i \in DOMAIN zonas : zonas[i] # VueloDe[id]

(* What controlador_de_vuelo.cpp:78 announces: the dispatch robot takes    *)
(* the bags of the flight for the zone the flight was given.  A bag a      *)
(* robot is about to put on the container belt of zone z belongs to the    *)
(* flight that zone z was assigned to, while the flight has a zone.        *)
EquipajeEnSuZona ==
  \A c \in Despachos :
    en_mano[c] # Ninguno /\ (\E i \in DOMAIN zonas : zonas[i] = Vuelo(en_mano[c]))
      => zonas[num_zona[c] - 1] = Vuelo(en_mano[c])

(* Everybody waits for everybody: the last consumer has a bag for a full   *)
(* queue to control, and control, which would take one out, has a bag for  *)
(* a full belt (robot_control_equipaje_sospechoso.cpp:54).                 *)
LazoDetenido ==
  /\ en_mano[Ultimo] # Ninguno
  /\ num_zona[Ultimo] \notin {SinConsultar, SinZona}
  /\ Len(cola_control) = CapacidadCola
  /\ a_colocar[Control] # Ninguno
  /\ cantidad_elementos = Tamanio

(* In the end every bag that was scanned is loaded, after a visit to       *)
(* control if it was marked, unless its flight stopped being attended, or  *)
(* the loop of belt, queue and control has stopped for good: no bag turns  *)
(* for ever, and nothing else stops one.  Nothing undoes a load, a flight  *)
(* that lost its zone gets no other, and there are finitely many bags: the *)
(* formula says of each that it gets there once scanned.                   *)
TodoEquipajeLlega ==
  \/ <>[](\A id \in Ids \ por_llegar :
            id \in cargados \cup descartados \/ ~ Atendido(VueloDe[id]))
  \/ <>[]LazoDetenido
=============================================================================
