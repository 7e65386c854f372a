----------------------------- MODULE CintaCarga -----------------------------
(***************************************************************************)
(* The container belt, src/api/cintacarga.h: class CintaCarga.  The        *)
(* dispatch robot of the zone (the producer) puts bags, robot_carga (the   *)
(* consumer) takes them, and control_carga_contenedores gives the notice   *)
(* that the check-in of the flight has closed, with the total of bags.     *)
(* robot_carga starts the next load with comenzar_nueva_carga.             *)
(*                                                                         *)
(* A belt has one producer and one consumer, both with the number of the   *)
(* belt, so of the arrays of marks one slot each is used.  wait_on is a    *)
(* step and the critical section lock ... unlock another.                  *)
(***************************************************************************)
EXTENDS Naturals

CONSTANTS
  Equipajes, Ninguno,
  Aviso,          (* Equipaje(), with rfid 0: sacar_equipaje's notice      *)
  Tamanio,        (* *tamanio_vector: CAPACIDAD_CINTA_CONTENEDOR           *)
  Totales         (* the totals of bags that a notice may carry            *)

ASSUME SuposicionCarga ==
  /\ Tamanio \in Nat \ {0}
  /\ Totales \subseteq Nat

VARIABLES
  (* the shared memory *)
  posicion_libre, posicion_ocupada, cantidad_elementos,
  cantidad_productores_esperando, cantidad_consumidores_esperando,
  checkin_cerrado, numero_de_valijas_totales,
  id_productor_esperando, id_consumidor_esperando, vector_elementos,
  (* the distributed semaphores *)
  semaforo_productor, semaforo_consumidor,
  (* the copy of robot_carga: it was told of the notice *)
  ya_me_desperto_el_cierre_de_checkin,
  (* the processes: where the call is, and its argument or result *)
  pc_productor, a_colocar, pc_consumidor, elemento

posiciones == <<posicion_libre, posicion_ocupada, vector_elementos>>
espera_productor == <<cantidad_productores_esperando, id_productor_esperando>>
espera_consumidor ==
  <<cantidad_consumidores_esperando, id_consumidor_esperando>>
aviso == <<checkin_cerrado, numero_de_valijas_totales,
           ya_me_desperto_el_cierre_de_checkin>>
productor  == <<pc_productor, a_colocar>>
consumidor == <<pc_consumidor, elemento>>

vars == <<posiciones, cantidad_elementos, espera_productor,
          espera_consumidor, aviso, semaforo_productor, semaforo_consumidor,
          productor, consumidor>>

(* The calls: fuera, before and after one; esperando, before wait_on;      *)
(* despierto, after it.                                                    *)

(* src/local_broker/locks/cinta_contenedor.init *)
Init ==
  /\ posicion_libre = 0
  /\ posicion_ocupada = 0
  /\ cantidad_elementos = 0
  /\ cantidad_productores_esperando = 0
  /\ cantidad_consumidores_esperando = 0
  /\ checkin_cerrado = 0
  /\ numero_de_valijas_totales = 0
  /\ id_productor_esperando = 0
  /\ id_consumidor_esperando = 0
  /\ vector_elementos = [i \in 0..Tamanio - 1 |-> Ninguno]
  /\ semaforo_productor = 1
  /\ semaforo_consumidor = 1
  /\ ya_me_desperto_el_cierre_de_checkin = FALSE
  /\ pc_productor = "fuera"
  /\ a_colocar = Ninguno
  /\ pc_consumidor = "fuera"
  /\ elemento = Ninguno

(* Fault: the last slot is never used. *)
SiguienteCorto(i) == IF i + 2 >= Tamanio THEN 0 ELSE i + 1

Siguiente(i) == (i + 1) % Tamanio

DespertarConsumidores ==
  IF cantidad_consumidores_esperando > 0
  THEN /\ semaforo_consumidor' = semaforo_consumidor + id_consumidor_esperando
       /\ id_consumidor_esperando' = 0
       /\ cantidad_consumidores_esperando' = 0
  ELSE UNCHANGED <<semaforo_consumidor, espera_consumidor>>

DespertarProductores ==
  IF cantidad_productores_esperando > 0
  THEN /\ semaforo_productor' = semaforo_productor + id_productor_esperando
       /\ id_productor_esperando' = 0
       /\ cantidad_productores_esperando' = 0
  ELSE UNCHANGED <<semaforo_productor, espera_productor>>

-----------------------------------------------------------------------------
(* poner_equipaje *)

LlamarPoner(e) ==
  /\ pc_productor = "fuera"
  /\ pc_productor' = "esperando"
  /\ a_colocar' = e
  /\ UNCHANGED <<posiciones, cantidad_elementos, espera_productor,
                 espera_consumidor, aviso, semaforo_productor,
                 semaforo_consumidor, consumidor>>

EsperarProductor ==
  /\ pc_productor = "esperando"
  /\ semaforo_productor > 0
  /\ semaforo_productor' = semaforo_productor - 1
  /\ pc_productor' = "despierto"
  /\ UNCHANGED <<posiciones, cantidad_elementos, espera_productor,
                 espera_consumidor, aviso, semaforo_consumidor, a_colocar,
                 consumidor>>

TerminarTurnoProductor(n) ==
  IF n = Tamanio
  THEN /\ cantidad_productores_esperando' = cantidad_productores_esperando + 1
       /\ id_productor_esperando' = 1
       /\ UNCHANGED semaforo_productor
  ELSE /\ semaforo_productor' = semaforo_productor + 1
       /\ UNCHANGED espera_productor

(* The loop has a way round for a belt that is full here; with one         *)
(* producer it is never taken: see NadieDuermeDeMas.                       *)
Colocar ==
  /\ pc_productor = "despierto"
  /\ cantidad_elementos < Tamanio
  /\ vector_elementos' = [vector_elementos EXCEPT ![posicion_libre] = a_colocar]
  /\ posicion_libre' = Siguiente(posicion_libre)
  /\ cantidad_elementos' = cantidad_elementos + 1
  /\ IF cantidad_elementos' = 1
     THEN DespertarConsumidores
     ELSE UNCHANGED <<semaforo_consumidor, espera_consumidor>>
  /\ TerminarTurnoProductor(cantidad_elementos')
  /\ pc_productor' = "fuera"
  /\ UNCHANGED <<posicion_ocupada, aviso, a_colocar, consumidor>>

-----------------------------------------------------------------------------
(* sacar_equipaje *)

LlamarSacar ==
  /\ pc_consumidor = "fuera"
  /\ pc_consumidor' = "esperando"
  /\ UNCHANGED <<posiciones, cantidad_elementos, espera_productor,
                 espera_consumidor, aviso, semaforo_productor,
                 semaforo_consumidor, productor, elemento>>

EsperarConsumidor ==
  /\ pc_consumidor = "esperando"
  /\ semaforo_consumidor > 0
  /\ semaforo_consumidor' = semaforo_consumidor - 1
  /\ pc_consumidor' = "despierto"
  /\ UNCHANGED <<posiciones, cantidad_elementos, espera_productor,
                 espera_consumidor, aviso, semaforo_productor, productor,
                 elemento>>

(* Fault: the notice is only looked for when there is no bag left. *)
AvisoSoloSiVacia ==
  /\ checkin_cerrado = 1
  /\ ~ ya_me_desperto_el_cierre_de_checkin
  /\ cantidad_elementos = 0

(* The notice was given and the consumer has not been told. *)
AvisoPendiente ==
  checkin_cerrado = 1 /\ ~ ya_me_desperto_el_cierre_de_checkin

TerminarTurnoConsumidor(n) ==
  IF n = 0
  THEN /\ cantidad_consumidores_esperando' =
            cantidad_consumidores_esperando + 1
       /\ id_consumidor_esperando' = 1
       /\ UNCHANGED semaforo_consumidor
  ELSE /\ semaforo_consumidor' = semaforo_consumidor + 1
       /\ UNCHANGED espera_consumidor

Extraer ==
  /\ pc_consumidor = "despierto"
  /\ ~ AvisoPendiente
  /\ cantidad_elementos > 0
  /\ elemento' = vector_elementos[posicion_ocupada]
  /\ posicion_ocupada' = Siguiente(posicion_ocupada)
  /\ cantidad_elementos' = cantidad_elementos - 1
  /\ IF cantidad_elementos' = Tamanio - 1
     THEN DespertarProductores
     ELSE UNCHANGED <<semaforo_productor, espera_productor>>
  /\ TerminarTurnoConsumidor(cantidad_elementos')
  /\ pc_consumidor' = "fuera"
  /\ UNCHANGED <<posicion_libre, vector_elementos, aviso, productor>>

NoPudoExtraer ==
  /\ pc_consumidor = "despierto"
  /\ ~ AvisoPendiente
  /\ cantidad_elementos = 0
  /\ TerminarTurnoConsumidor(cantidad_elementos)
  /\ pc_consumidor' = "esperando"
  /\ UNCHANGED <<posiciones, cantidad_elementos, espera_productor, aviso,
                 semaforo_productor, productor, elemento>>

RecibirAviso ==
  /\ pc_consumidor = "despierto"
  /\ AvisoPendiente
  /\ ya_me_desperto_el_cierre_de_checkin' = TRUE
  /\ elemento' = Aviso
  /\ semaforo_consumidor' = semaforo_consumidor + 1
  /\ pc_consumidor' = "fuera"
  /\ UNCHANGED <<posiciones, cantidad_elementos, espera_productor,
                 espera_consumidor, checkin_cerrado,
                 numero_de_valijas_totales, semaforo_productor, productor>>

-----------------------------------------------------------------------------
(* Fault: the notice does not wake the consumer. *)
AvisarSinDespertar(n) ==
  /\ numero_de_valijas_totales' = n
  /\ checkin_cerrado' = 1
  /\ UNCHANGED <<posiciones, cantidad_elementos, espera_productor,
                 espera_consumidor, ya_me_desperto_el_cierre_de_checkin,
                 semaforo_productor, semaforo_consumidor, productor,
                 consumidor>>

(* avisar_cierre_de_checkin, called by control_carga_contenedores *)
AvisarCierre(n) ==
  /\ numero_de_valijas_totales' = n
  /\ checkin_cerrado' = 1
  /\ DespertarConsumidores
  /\ UNCHANGED <<posiciones, cantidad_elementos, espera_productor,
                 ya_me_desperto_el_cierre_de_checkin, semaforo_productor,
                 productor, consumidor>>

(* comenzar_nueva_carga, called by the consumer between its calls *)
ComenzarNuevaCarga ==
  /\ pc_consumidor = "fuera"
  /\ numero_de_valijas_totales' = 0
  /\ checkin_cerrado' = 0
  /\ ya_me_desperto_el_cierre_de_checkin' = FALSE
  /\ UNCHANGED <<posiciones, cantidad_elementos, espera_productor,
                 espera_consumidor, semaforo_productor, semaforo_consumidor,
                 productor, consumidor>>

-----------------------------------------------------------------------------
PasoProductor == EsperarProductor \/ Colocar

PasoConsumidor ==
  \/ LlamarSacar
  \/ EsperarConsumidor
  \/ Extraer
  \/ NoPudoExtraer
  \/ RecibirAviso

Next ==
  \/ PasoProductor
  \/ \E e \in Equipajes : LlamarPoner(e)
  \/ PasoConsumidor
  \/ \E n \in Totales : AvisarCierre(n)
  \/ ComenzarNuevaCarga

Spec == Init /\ [][Next]_vars

(* robot_carga keeps calling; the calls that can run do. *)
SpecJusta == Spec /\ WF_vars(PasoProductor) /\ WF_vars(PasoConsumidor)

-----------------------------------------------------------------------------
(* Properties *)

(* robot_carga does not sleep while there is a bag or a notice it has not  *)
(* been told of, nor the dispatch robot while there is room: the notice is *)
(* not missed when it comes while the consumer is going to sleep           *)
(* (despertar_consumidores in avisar_cierre_de_checkin).  Nobody is        *)
(* signalled twice, and a producer that gets past wait_on finds room, so   *)
(* that the second turn of the loop of poner_equipaje is never needed.     *)
NadieDuermeDeMas ==
  /\ id_consumidor_esperando = 1 => cantidad_elementos = 0 /\ ~ AvisoPendiente
  /\ id_productor_esperando = 1 => cantidad_elementos = Tamanio
  /\ semaforo_consumidor + id_consumidor_esperando <= 1
  /\ semaforo_productor + id_productor_esperando <= 1
  /\ pc_productor = "despierto" => cantidad_elementos < Tamanio

(* The bags on the belt, the oldest first, and the state of the notice. *)
Contenido ==
  [i \in 1..cantidad_elementos |->
     vector_elementos[(posicion_ocupada + i - 1) % Tamanio]]

EstadoDelCierre ==
  CASE checkin_cerrado = 0 -> "abierto"
    [] AvisoPendiente      -> "avisado"
    [] OTHER               -> "atendido"

Cola == INSTANCE ColaConCierre
  WITH cinta <- [cola |-> Contenido, cierre |-> EstadoDelCierre,
                 total |-> numero_de_valijas_totales],
       recibido <- elemento, Capacidad <- Tamanio

(* The belt implements the bounded queue with a notice: bags come out in   *)
(* order, each once, and between a notice and the next load the consumer   *)
(* is told of it exactly once, ahead of the bags still on the belt.        *)
ImplementaColaConCierre == Cola!Spec

(* The notice reaches robot_carga, even with an empty belt on which it     *)
(* sleeps, unless it starts another load first.                            *)
AvisoLlega == AvisoPendiente ~> ~ AvisoPendiente
=============================================================================
