-------------------------- MODULE CicloDeVueloProofs --------------------------
(***************************************************************************)
(* The check-in of the flights is correct, for any number of flights,      *)
(* desks, zones and passengers and whatever get_zona answers: the messages *)
(* to the desks come in order, the count of a desk is that of its flight,  *)
(* and nothing is registered for a flight after its total was sent.        *)
(***************************************************************************)
EXTENDS CicloDeVuelo, FiniteSetTheorems, SequenceTheorems, TLAPS

Mensajes == [iniciar_checkin : BOOLEAN, num_vuelo : Vuelos, num_zona : Zonas]
Cintas   == [cola : Seq(Valijas), cierre : {"abierto", "avisado", "atendido"},
             total : Nat]

PasosDeVuelo == {"inicio", "con_puesto", "con_zona", "registrado", "abierto",
                 "cerrado", "fin"}
PasosDeCarga == {"sacar", "leer_total", "desasignar", "enviar", "liberar", "reiniciar"}

(* The controllers, the desks and the belts have their types. *)
TiposCiclo ==
  /\ puestos_libres \in Seq(Puestos)
  /\ zonas_libres \in Seq(Zonas)
  /\ pc_vuelo \in [Vuelos -> PasosDeVuelo]
  /\ puesto \in [Vuelos -> Puestos \cup {SinPuesto}]
  /\ zona \in [Vuelos -> Zonas \cup {SinZona}]
  /\ num_vuelo \in [Puestos -> Vuelos \cup {SinVuelo}]
  /\ cant_equipajes \in [Puestos -> Nat]
  /\ cant_intercargo \in [Puestos -> Nat]
  /\ queue_controlador \in [Puestos -> Seq(Mensajes)]
  /\ queue_pasajeros \in [Puestos -> SUBSET Pasajeros]
  /\ por_registrar \in [Puestos -> SUBSET Valijas]
  /\ en_camino \subseteq Valijas
  /\ cola_aviso \in [Zonas -> Seq(Nat)]
  /\ cinta \in [Zonas -> Cintas]
  /\ cargados \in [Zonas -> SUBSET Valijas]
  /\ pc_carga \in [Zonas -> PasosDeCarga]

MutexTipo == mutex_checkin \in [Puestos -> BOOLEAN]

(* The flight has a desk: from pedir_puesto_checkin to the call that gives *)
(* it back.                                                                *)
ConPuesto(v) == pc_vuelo[v] \notin {"inicio", "fin"}

(* Its controller has sent the open message. *)
Abrio(v) == pc_vuelo[v] \in {"abierto", "cerrado", "fin"}

(* A desk is free, once in the queue of the tower, or has one flight. *)
PuestosRepartidos ==
  /\ \A i, j \in DOMAIN puestos_libres :
       puestos_libres[i] = puestos_libres[j] => i = j
  /\ \A v \in Vuelos :
       /\ pc_vuelo[v] # "inicio" => puesto[v] \in Puestos
       /\ pc_vuelo[v] \notin {"inicio", "con_puesto"} => zona[v] \in Zonas
       /\ ConPuesto(v) =>
            /\ \A i \in DOMAIN puestos_libres : puestos_libres[i] # puesto[v]
            /\ \A w \in Vuelos : ConPuesto(w) /\ puesto[w] = puesto[v] => w = v

(* The flight at a desk once it has obeyed all the messages of its queue. *)
Final(q, n) ==
  IF q = <<>> THEN n
  ELSE IF q[Len(q)].iniciar_checkin THEN q[Len(q)].num_vuelo ELSE SinVuelo

(* Which is the one whose controller has opened it and not closed it. *)
FinalCoherente ==
  \A p \in Puestos :
    LET n == Final(queue_controlador[p], num_vuelo[p]) IN
    /\ n # SinVuelo => pc_vuelo[n] = "abierto" /\ puesto[n] = p
    /\ \A v \in Vuelos : pc_vuelo[v] = "abierto" /\ puesto[v] = p => n = v

(* A message is of a flight that has, or had, this desk, and so is what    *)
(* the desk is open for.                                                   *)
MensajesDelPuesto ==
  \A p \in Puestos :
    /\ \A i \in DOMAIN queue_controlador[p] :
         LET v == queue_controlador[p][i].num_vuelo IN Abrio(v) /\ puesto[v] = p
    /\ num_vuelo[p] # SinVuelo =>
         Abrio(num_vuelo[p]) /\ puesto[num_vuelo[p]] = p

(* The bags that were put on a check-in belt or sent from another flight.  *)
EnCurso ==
  {e \in Valijas :
     \/ e \in en_camino \cup perdidos
     \/ \E z \in Zonas : e \in ToSet(cinta[z].cola) \cup cargados[z]
     \/ \E x \in embarques : e \in x[2]}

(* The luggage of the passengers of a flight *)
DeLosPasajeros(v) ==
  {e \in Valijas :
     \E s \in Pasajeros : VueloDePasajero[s] = v /\ e \in ValijasDe[s]}

SinRegistrar(v) == DeLosPasajeros(v) \cap EnCurso = {}

(* A flight is opened once: while the message is in the queue the desk has *)
(* not been open for it.                                                   *)
AperturaUnica ==
  /\ \A v \in Vuelos : ~ Abrio(v) => SinRegistrar(v)
  /\ \A p \in Puestos : \A i \in DOMAIN queue_controlador[p] :
       LET q == queue_controlador[p] IN
       q[i].iniciar_checkin =>
         /\ SinRegistrar(q[i].num_vuelo)
         /\ num_vuelo[p] # q[i].num_vuelo
         /\ \A j \in DOMAIN q :
              q[j].iniciar_checkin /\ q[j].num_vuelo = q[i].num_vuelo => j = i

(* What is left to register is of a passenger of the desk's flight, whose  *)
(* mutex is taken.                                                         *)
RegistroEnCurso ==
  \A p \in Puestos : \A e \in por_registrar[p] :
    /\ mutex_checkin[p]
    /\ e \notin EnCurso
    /\ num_vuelo[p] # SinVuelo
    /\ e \in DeLosPasajeros(num_vuelo[p])

(* A passenger is attended once: one that has not come, or is in a queue,  *)
(* has all the bags.                                                       *)
PasajeroConSusValijas ==
  \A s \in Pasajeros :
    /\ \A p \in Puestos : s \in queue_pasajeros[p] =>
         s \notin por_llegar /\ \A q \in Puestos : s \in queue_pasajeros[q] => q = p
    /\ (s \in por_llegar \/ \E p \in Puestos : s \in queue_pasajeros[p]) =>
         \A e \in ValijasDe[s] :
           e \notin EnCurso /\ \A p \in Puestos : e \notin por_registrar[p]

(* A load that was sent off is forgotten only after. *)
CargaEnviada ==
  \A z \in Zonas : pc_carga[z] \in {"liberar", "reiniciar"} =>
    \E x \in embarques : x[2] = cargados[z]

(* The inductive invariant of the check-in. *)
InvarianteCheckin ==
  /\ TiposCiclo
  /\ MutexTipo
  /\ PuestosRepartidos
  /\ MensajesEnOrden
  /\ FinalCoherente
  /\ MensajesDelPuesto
  /\ AperturaUnica
  /\ RegistroEnCurso
  /\ PasajeroConSusValijas
  /\ CargaEnviada
  /\ CuentaAlDia

-----------------------------------------------------------------------------
(* Bags and flights *)

(* A bag of a passenger is of that passenger's flight and is not a         *)
(* transfer bag: DespacharEquipaje reads the flight off the bag.           *)
LEMMA VueloDeUnaValija ==
  ASSUME NEW s \in Pasajeros, NEW e \in ValijasDe[s]
  PROVE  /\ e \in Valijas
         /\ VueloDePasajero[s] \in Vuelos
         /\ VueloDe(e) = VueloDePasajero[s]
         /\ \A v \in Vuelos : e \notin Trasbordo[v]
<1>1. e \in Valijas
  BY DEF Valijas
<1>2. VueloDePasajero[s] \in Vuelos
  BY SuposicionCiclo DEF SuposicionCiclo
<1>3. \A v \in Vuelos : e \notin Trasbordo[v]
  BY SuposicionEquipajes DEF SuposicionEquipajes
<1> DEFINE Es(v) == \/ e \in Trasbordo[v]
                    \/ \E p \in Pasajeros : VueloDePasajero[p] = v /\ e \in ValijasDe[p]
<1>4. \A v \in Vuelos : Es(v) <=> v = VueloDePasajero[s]
  BY <1>3, SuposicionEquipajes DEF SuposicionEquipajes
<1>5. VueloDe(e) = CHOOSE v \in Vuelos : Es(v)
  BY DEF VueloDe
<1> HIDE DEF Es
<1>6. (CHOOSE v \in Vuelos : Es(v)) = VueloDePasajero[s]
  BY <1>2, <1>4
<1> QED
  BY <1>1, <1>2, <1>3, <1>5, <1>6

(* Every bag is of a flight, and no bag of two. *)
LEMMA CadaValijaDeUnVuelo ==
  ASSUME NEW e \in Valijas
  PROVE  /\ VueloDe(e) \in Vuelos
         /\ e \notin Trasbordo[VueloDe(e)] => e \in DeLosPasajeros(VueloDe(e))
<1> DEFINE Es(v) == \/ e \in Trasbordo[v]
                    \/ \E p \in Pasajeros : VueloDePasajero[p] = v /\ e \in ValijasDe[p]
<1>1. \E v \in Vuelos : Es(v)
  BY SuposicionCiclo DEF Valijas, SuposicionCiclo
<1>2. VueloDe(e) = CHOOSE v \in Vuelos : Es(v)
  BY DEF VueloDe
<1> HIDE DEF Es
<1>3. VueloDe(e) \in Vuelos /\ Es(VueloDe(e))
  BY <1>1, <1>2
<1> QED
  BY <1>3 DEF Es, DeLosPasajeros

(* registrar_equipaje counts the luggage of the passengers of one flight,  *)
(* which no other flight shares.                                           *)
LEMMA ValijasDeUnVuelo ==
  /\ \A v, w, e : e \in DeLosPasajeros(v) /\ e \in DeLosPasajeros(w) => v = w
  /\ \A v, e : e \in DeLosPasajeros(v) => v \in Vuelos /\ e \in Valijas
  /\ \A s \in Pasajeros : ValijasDe[s] \subseteq DeLosPasajeros(VueloDePasajero[s])
  /\ \A v \in Vuelos : DeLosPasajeros(v) = DeUnVuelo(v) \ Trasbordo[v]
<1>1. \A v, w, e : e \in DeLosPasajeros(v) /\ e \in DeLosPasajeros(w) => v = w
  BY VueloDeUnaValija DEF DeLosPasajeros
<1>2. \A v, e : e \in DeLosPasajeros(v) => v \in Vuelos /\ e \in Valijas
  BY VueloDeUnaValija DEF DeLosPasajeros
<1>3. \A s \in Pasajeros : ValijasDe[s] \subseteq DeLosPasajeros(VueloDePasajero[s])
  BY VueloDeUnaValija DEF DeLosPasajeros
<1>4. ASSUME NEW v \in Vuelos
      PROVE  DeLosPasajeros(v) = DeUnVuelo(v) \ Trasbordo[v]
  <2>1. DeLosPasajeros(v) \subseteq DeUnVuelo(v) \ Trasbordo[v]
    BY VueloDeUnaValija DEF DeLosPasajeros, DeUnVuelo
  <2>2. DeUnVuelo(v) \ Trasbordo[v] \subseteq DeLosPasajeros(v)
    BY CadaValijaDeUnVuelo DEF DeUnVuelo
  <2> QED
    BY <2>1, <2>2
<1> QED
  BY <1>1, <1>2, <1>3, <1>4

(* What CuentaAlDia counts is the luggage of the flight's passengers that  *)
(* some desk put on its belt.                                              *)
LEMMA RegistradosDelVuelo ==
  ASSUME NEW v \in Vuelos
  PROVE  /\ Registrados(v) = DeLosPasajeros(v) \cap EnCurso
         /\ Registrados(v)' = DeLosPasajeros(v) \cap EnCurso'
<1>1. DeLosPasajeros(v) = DeUnVuelo(v) \ Trasbordo[v]
  BY ValijasDeUnVuelo
<1>2. DeUnVuelo(v) \subseteq Valijas
  BY DEF DeUnVuelo
<1>3. Registrados(v) = (DeUnVuelo(v) \ Trasbordo[v]) \cap EnCurso
  BY <1>2 DEF Registrados, EnCurso
<1>4. Registrados(v)' = (DeUnVuelo(v) \ Trasbordo[v]) \cap EnCurso'
  BY <1>2 DEF Registrados, EnCurso
<1> QED
  BY <1>1, <1>3, <1>4

-----------------------------------------------------------------------------
(* Queues of messages *)

(* The messages of queue q come in order for a desk whose flight is n. *)
Encadenada(q, n) ==
  /\ q # <<>> => n = IF q[1].iniciar_checkin THEN SinVuelo ELSE q[1].num_vuelo
  /\ \A i \in 1..Len(q) - 1 :
       /\ q[i].iniciar_checkin # q[i + 1].iniciar_checkin
       /\ q[i].iniciar_checkin => q[i].num_vuelo = q[i + 1].num_vuelo

(* The flight at the desk once message m is obeyed. *)
Tras(m) == IF m.iniciar_checkin THEN m.num_vuelo ELSE SinVuelo

(* A queue of the desks holds messages (queue_controlador). *)
LEMMA MensajesDeCola ==
  ASSUME NEW q \in Seq(Mensajes), NEW i \in DOMAIN q
  PROVE  /\ q[i] \in Mensajes
         /\ q[i].num_vuelo \in Vuelos /\ q[i].num_zona \in Zonas
         /\ q[i].iniciar_checkin \in BOOLEAN
<1>1. q[i] \in Mensajes
  OBVIOUS
<1> QED
  BY <1>1 DEF Mensajes

(* The desk ends up with a flight or with none. *)
LEMMA FinalEsVuelo ==
  ASSUME NEW q \in Seq(Mensajes), NEW n \in Vuelos \cup {SinVuelo}
  PROVE  Final(q, n) \in Vuelos \cup {SinVuelo}
<1>1. CASE q = <<>>
  BY <1>1 DEF Final
<1>2. CASE q # <<>>
  <2>1. Len(q) \in DOMAIN q
    BY <1>2
  <2> QED
    BY <1>2, <2>1, MensajesDeCola DEF Final
<1> QED
  BY <1>1, <1>2

(* What MensajesEnOrden says of each desk. *)
LEMMA OrdenDeCadaPuesto ==
  ASSUME queue_controlador \in [Puestos -> Seq(Mensajes)]
  PROVE  MensajesEnOrden <=>
           \A p \in Puestos : Encadenada(queue_controlador[p], num_vuelo[p])
<1>1. ASSUME NEW p \in Puestos, queue_controlador[p] # <<>>
      PROVE  Head(queue_controlador[p]) = queue_controlador[p][1]
  BY <1>1
<1> QED
  BY <1>1 DEF MensajesEnOrden, Encadenada

(* And of each desk after a step. *)
LEMMA OrdenTrasElPaso ==
  ASSUME queue_controlador' \in [Puestos -> Seq(Mensajes)]
  PROVE  MensajesEnOrden' <=>
           \A p \in Puestos : Encadenada(queue_controlador'[p], num_vuelo'[p])
<1>1. ASSUME NEW p \in Puestos, queue_controlador'[p] # <<>>
      PROVE  Head(queue_controlador'[p]) = queue_controlador'[p][1]
  BY <1>1
<1> QED
  BY <1>1 DEF MensajesEnOrden, Encadenada

(* A message sent by the controller of the flight that the desk ends up    *)
(* with (enviar_mensaje_to_checkin) keeps the queue in order: an open      *)
(* message for a desk with no flight, a close message for its own.         *)
LEMMA EnviarEnOrden ==
  ASSUME NEW q \in Seq(Mensajes), NEW n \in Vuelos \cup {SinVuelo},
         NEW m \in Mensajes, Encadenada(q, n),
         Final(q, n) = IF m.iniciar_checkin THEN SinVuelo ELSE m.num_vuelo
  PROVE  /\ Append(q, m) \in Seq(Mensajes)
         /\ Encadenada(Append(q, m), n)
         /\ Final(Append(q, m), n) = Tras(m)
<1> DEFINE r == Append(q, m)
<1>1. /\ r \in Seq(Mensajes) /\ Len(r) = Len(q) + 1
      /\ \A i \in 1..Len(q) : r[i] = q[i]
      /\ r[Len(q) + 1] = m
  OBVIOUS
<1>2. /\ SinVuelo \notin Vuelos
      /\ \A x \in Mensajes : x.num_vuelo \in Vuelos /\ x.iniciar_checkin \in BOOLEAN
  BY SuposicionCiclo DEF SuposicionCiclo, SinVuelo, Mensajes
<1>3. Final(r, n) = Tras(m)
  BY <1>1 DEF Final, Tras
<1>4. CASE q = <<>>
  BY <1>1, <1>3, <1>4 DEF Encadenada, Final
<1>5. CASE q # <<>>
  <2>1. Len(q) \in Nat /\ Len(q) > 0 /\ q[Len(q)] \in Mensajes /\ q[1] = r[1]
    BY <1>1, <1>5
  <2>2. /\ q[Len(q)].iniciar_checkin # m.iniciar_checkin
        /\ q[Len(q)].iniciar_checkin => q[Len(q)].num_vuelo = m.num_vuelo
    BY <1>2, <1>5, <2>1 DEF Final
  <2>3. ASSUME NEW i \in 1..Len(r) - 1
        PROVE  /\ r[i].iniciar_checkin # r[i + 1].iniciar_checkin
               /\ r[i].iniciar_checkin => r[i].num_vuelo = r[i + 1].num_vuelo
    <3>1. CASE i = Len(q)
      BY <1>1, <2>1, <2>2, <3>1
    <3>2. CASE i # Len(q)
      <4>1. i \in 1..Len(q) - 1 /\ r[i] = q[i] /\ r[i + 1] = q[i + 1]
        BY <1>1, <2>1, <3>2
      <4> QED
        BY <4>1 DEF Encadenada
    <3> QED
      BY <3>1, <3>2
  <2>4. r # <<>> => n = IF r[1].iniciar_checkin THEN SinVuelo ELSE r[1].num_vuelo
    BY <1>5, <2>1 DEF Encadenada
  <2> QED
    BY <1>1, <1>3, <2>3, <2>4 DEF Encadenada
<1> QED
  BY <1>4, <1>5

(* Obeying the first message of the queue (iniciar_checkin,                *)
(* cerrar_checkin) keeps the rest in order, and the flight the desk ends   *)
(* up with.                                                                *)
LEMMA ObedecerEnOrden ==
  ASSUME NEW q \in Seq(Mensajes), NEW n, Encadenada(q, n), q # <<>>
  PROVE  /\ Tail(q) \in Seq(Mensajes)
         /\ Encadenada(Tail(q), Tras(q[1]))
         /\ Final(Tail(q), Tras(q[1])) = Final(q, n)
         /\ DOMAIN Tail(q) = 1..Len(q) - 1
         /\ \A i \in DOMAIN Tail(q) : Tail(q)[i] = q[i + 1] /\ i + 1 \in DOMAIN q
         /\ q[1] \in Mensajes /\ Head(q) = q[1] /\ 1 \in DOMAIN q
<1> DEFINE r == Tail(q)
<1>1. /\ r \in Seq(Mensajes) /\ Len(r) = Len(q) - 1 /\ Len(q) \in Nat /\ Len(q) > 0
      /\ \A i \in 1..Len(r) : r[i] = q[i + 1]
      /\ q[1] \in Mensajes /\ Head(q) = q[1] /\ 1 \in DOMAIN q
      /\ DOMAIN r = 1..Len(q) - 1
      /\ \A i \in DOMAIN r : i + 1 \in DOMAIN q
  OBVIOUS
<1> HIDE DEF r
<1>2. \A x \in Mensajes : x.iniciar_checkin \in BOOLEAN
  BY DEF Mensajes
<1>3. ASSUME NEW i \in 1..Len(r) - 1
      PROVE  /\ r[i].iniciar_checkin # r[i + 1].iniciar_checkin
             /\ r[i].iniciar_checkin => r[i].num_vuelo = r[i + 1].num_vuelo
  <2>1. i + 1 \in 1..Len(q) - 1 /\ r[i] = q[i + 1] /\ r[i + 1] = q[(i + 1) + 1]
    BY <1>1
  <2> QED
    BY <2>1 DEF Encadenada
<1>4. CASE r = <<>>
  <2>1. Len(q) = 1
    BY <1>1, <1>4
  <2> QED
    BY <1>1, <1>3, <1>4, <2>1 DEF Encadenada, Final, Tras, r
<1>5. CASE r # <<>>
  <2>1. Len(r) > 0 /\ 1 \in 1..Len(q) - 1 /\ r[1] = q[1 + 1]
    BY <1>1, <1>5
  <2>2. /\ q[1].iniciar_checkin # r[1].iniciar_checkin
        /\ q[1].iniciar_checkin => q[1].num_vuelo = r[1].num_vuelo
    BY <2>1 DEF Encadenada
  <2>3. Tras(q[1]) = IF r[1].iniciar_checkin THEN SinVuelo ELSE r[1].num_vuelo
    <3>1. r[1] \in Mensajes
      BY <1>1, <2>1
    <3> QED
      BY <1>1, <1>2, <2>2, <3>1 DEF Tras
  <2>4. Encadenada(r, Tras(q[1]))
    BY <1>3, <2>3 DEF Encadenada
  <2>5. r[Len(r)] = q[Len(q)]
    BY <1>1, <2>1
  <2>6. Final(r, Tras(q[1])) = Final(q, n)
    BY <1>5, <2>5 DEF Final
  <2> QED
    BY <1>1, <2>4, <2>6 DEF r
<1> QED
  BY <1>4, <1>5

-----------------------------------------------------------------------------
(* What a step leaves alone *)

(* No bag of a passenger is put on a belt or forgotten. *)
NadaNuevo ==
  \A v \in Vuelos : DeLosPasajeros(v) \cap EnCurso' = DeLosPasajeros(v) \cap EnCurso

(* A step that moves no bag puts none on a belt. *)
LEMMA ValijasQuietas ==
  ASSUME UNCHANGED <<en_camino, perdidos, cinta, cargados, embarques>>
  PROVE  EnCurso' = EnCurso /\ NadaNuevo
BY DEF EnCurso, NadaNuevo

(* A step of neither the controllers of the flights nor the desk's keeps   *)
(* the desks shared out, the messages in order and what they are about.    *)
LEMMA MensajesQuietos ==
  ASSUME PuestosRepartidos, MensajesEnOrden, FinalCoherente, MensajesDelPuesto,
         UNCHANGED <<puestos_libres, pc_vuelo, puesto, zona, num_vuelo,
                     queue_controlador>>
  PROVE  PuestosRepartidos' /\ MensajesEnOrden' /\ FinalCoherente' /\ MensajesDelPuesto'
<1> USE DEF ConPuesto, Abrio, Final
<1>1. PuestosRepartidos'
  BY DEF PuestosRepartidos
<1>2. MensajesEnOrden'
  BY DEF MensajesEnOrden
<1>3. FinalCoherente'
  BY DEF FinalCoherente
<1>4. MensajesDelPuesto'
  BY DEF MensajesDelPuesto
<1> QED
  BY <1>1, <1>2, <1>3, <1>4

(* Without a message and without a bag, what is not open stays so. *)
LEMMA AperturaQuieta ==
  ASSUME AperturaUnica, NadaNuevo, MensajesDelPuesto,
         queue_controlador \in [Puestos -> Seq(Mensajes)],
         UNCHANGED <<pc_vuelo, num_vuelo, queue_controlador>>
  PROVE  AperturaUnica'
<1>1. \A p \in Puestos : \A i \in DOMAIN queue_controlador[p] :
        queue_controlador[p][i].num_vuelo \in Vuelos
  BY MensajesDeCola
<1>2. \A v \in Vuelos : SinRegistrar(v)' <=> SinRegistrar(v)
  BY DEF NadaNuevo, SinRegistrar
<1>3. ASSUME NEW v \in Vuelos, ~ Abrio(v)' PROVE SinRegistrar(v)'
  BY <1>2, <1>3 DEF AperturaUnica, Abrio
<1>4. ASSUME NEW p \in Puestos, NEW i \in DOMAIN queue_controlador[p],
             queue_controlador[p][i].iniciar_checkin
      PROVE  /\ SinRegistrar(queue_controlador[p][i].num_vuelo)'
             /\ num_vuelo[p] # queue_controlador[p][i].num_vuelo
             /\ \A j \in DOMAIN queue_controlador[p] :
                  /\ queue_controlador[p][j].iniciar_checkin
                  /\ queue_controlador[p][j].num_vuelo = queue_controlador[p][i].num_vuelo
                  => j = i
  BY <1>1, <1>4 DEF AperturaUnica, SinRegistrar, NadaNuevo
<1> QED
  BY <1>3, <1>4 DEF AperturaUnica, SinRegistrar

(* Without a passenger and without a bag, what is left to register stays.  *)
LEMMA RegistroQuieto ==
  ASSUME RegistroEnCurso, PasajeroConSusValijas, NadaNuevo,
         UNCHANGED <<mutex_checkin, num_vuelo, por_registrar, queue_pasajeros>>,
         por_llegar' \subseteq por_llegar
  PROVE  RegistroEnCurso' /\ PasajeroConSusValijas'
<1>1. \A v, e : e \in DeLosPasajeros(v) => (e \in EnCurso' <=> e \in EnCurso)
  BY ValijasDeUnVuelo DEF NadaNuevo
<1>2. \A s \in Pasajeros : \A e \in ValijasDe[s] : e \in EnCurso' <=> e \in EnCurso
  BY <1>1, ValijasDeUnVuelo
<1>3. RegistroEnCurso'
  BY <1>1 DEF RegistroEnCurso
<1>4. PasajeroConSusValijas'
  BY <1>2 DEF PasajeroConSusValijas
<1> QED
  BY <1>3, <1>4

(* Without a bag the count of a desk stays true. *)
LEMMA CuentaQuieta ==
  ASSUME CuentaAlDia, NadaNuevo, num_vuelo \in [Puestos -> Vuelos \cup {SinVuelo}],
         UNCHANGED <<num_vuelo, cant_equipajes>>
  PROVE  CuentaAlDia'
<1> SUFFICES ASSUME NEW p \in Puestos, num_vuelo[p] # SinVuelo
             PROVE  cant_equipajes[p] = Cardinality(Registrados(num_vuelo[p])')
  BY DEF CuentaAlDia
<1>1. num_vuelo[p] \in Vuelos
  OBVIOUS
<1>2. Registrados(num_vuelo[p])' = Registrados(num_vuelo[p])
  <2> DEFINE v == num_vuelo[p]
  <2>1. Registrados(v) = DeLosPasajeros(v) \cap EnCurso
    BY <1>1, RegistradosDelVuelo
  <2>2. ASSUME NEW w \in Vuelos, w = num_vuelo[p]
        PROVE  Registrados(num_vuelo[p])' = DeLosPasajeros(w) \cap EnCurso'
    <3>1. Registrados(w)' = DeLosPasajeros(w) \cap EnCurso'
      BY RegistradosDelVuelo
    <3>2. Registrados(w)' = Registrados(num_vuelo[p])'
      BY <2>2 DEF Registrados
    <3> QED
      BY <3>1, <3>2
  <2> QED
    BY <1>1, <2>1, <2>2 DEF NadaNuevo
<1> QED
  BY <1>2 DEF CuentaAlDia

(* A step that neither sends a load off nor forgets one. *)
LEMMA CargaQuieta ==
  ASSUME CargaEnviada, UNCHANGED <<pc_carga, embarques, cargados>>
  PROVE  CargaEnviada'
BY DEF CargaEnviada

-----------------------------------------------------------------------------
(* controlador_de_vuelo *)

(* What the steps of a controller that sends no message leave alone. *)
LEMMA SinMensaje ==
  ASSUME InvarianteCheckin, TiposCiclo', PuestosRepartidos',
         NEW v \in Vuelos, NEW paso \in PasosDeVuelo,
         pc_vuelo' = [pc_vuelo EXCEPT ![v] = paso],
         pc_vuelo[v] # "abierto", paso # "abierto",
         paso \in {"abierto", "cerrado", "fin"} <=> Abrio(v),
         \A w \in Vuelos : Abrio(w) => puesto'[w] = puesto[w],
         UNCHANGED <<puestos, equipajes, cinta, robots>>
  PROVE  InvarianteCheckin'
<1> USE DEF InvarianteCheckin, puestos, equipajes, robots
<1>1. /\ UNCHANGED <<num_vuelo, queue_controlador, cant_equipajes, mutex_checkin,
                     por_registrar, queue_pasajeros, por_llegar>>
      /\ UNCHANGED <<en_camino, perdidos, cinta, cargados, embarques, pc_carga>>
  OBVIOUS
<1>2. NadaNuevo
  BY <1>1, ValijasQuietas
<1>3. MutexTipo' /\ MensajesEnOrden'
  BY <1>1 DEF MutexTipo, MensajesEnOrden
<1>4. RegistroEnCurso' /\ PasajeroConSusValijas'
  BY <1>1, <1>2, RegistroQuieto
<1>5. CuentaAlDia'
  BY <1>1, <1>2, CuentaQuieta DEF TiposCiclo
<1>6. CargaEnviada'
  BY <1>1, CargaQuieta
<1>7. \A w \in Vuelos : Abrio(w)' <=> Abrio(w)
  BY DEF Abrio, TiposCiclo, PasosDeVuelo
<1>8. \A w \in Vuelos : Abrio(w) => puesto'[w] = puesto[w]
  OBVIOUS
<1>9. \A p \in Puestos :
        /\ \A i \in DOMAIN queue_controlador[p] :
             queue_controlador[p][i].num_vuelo \in Vuelos
        /\ num_vuelo[p] # SinVuelo => num_vuelo[p] \in Vuelos
  BY MensajesDeCola DEF TiposCiclo
<1>10. MensajesDelPuesto'
  BY <1>1, <1>7, <1>8, <1>9 DEF MensajesDelPuesto
<1>11. AperturaUnica'
  <2>1. \A w \in Vuelos : SinRegistrar(w)' <=> SinRegistrar(w)
    BY <1>2 DEF NadaNuevo, SinRegistrar
  <2>2. \A w \in Vuelos : ~ Abrio(w)' => SinRegistrar(w)'
    BY <1>7, <2>1 DEF AperturaUnica
  <2>3. ASSUME NEW p \in Puestos, NEW i \in DOMAIN queue_controlador[p],
               queue_controlador[p][i].iniciar_checkin
        PROVE  /\ SinRegistrar(queue_controlador[p][i].num_vuelo)'
               /\ num_vuelo[p] # queue_controlador[p][i].num_vuelo
               /\ \A j \in DOMAIN queue_controlador[p] :
                    /\ queue_controlador[p][j].iniciar_checkin
                    /\ queue_controlador[p][j].num_vuelo = queue_controlador[p][i].num_vuelo
                    => j = i
    BY <1>1, <1>2, <1>9, <2>3 DEF AperturaUnica, SinRegistrar, NadaNuevo
  <2> QED
    BY <1>1, <2>2, <2>3 DEF AperturaUnica, SinRegistrar
<1>12. FinalCoherente'
  <2>1. \A w \in Vuelos : /\ pc_vuelo'[w] = "abierto" <=> pc_vuelo[w] = "abierto"
                         /\ pc_vuelo[w] = "abierto" => puesto'[w] = puesto[w]
    BY <1>8 DEF TiposCiclo, Abrio
  <2>2. ASSUME NEW p \in Puestos
        PROVE  /\ Final(queue_controlador[p], num_vuelo[p]) \in Vuelos \cup {SinVuelo}
               /\ Final(queue_controlador[p], num_vuelo[p])' =
                    Final(queue_controlador[p], num_vuelo[p])
    <3>1. queue_controlador[p] \in Seq(Mensajes) /\ num_vuelo[p] \in Vuelos \cup {SinVuelo}
      BY DEF TiposCiclo
    <3> QED
      BY <1>1, <3>1, FinalEsVuelo DEF Final
  <2> QED
    BY <2>1, <2>2 DEF FinalCoherente
<1> QED
  BY <1>3, <1>4, <1>5, <1>6, <1>10, <1>11, <1>12

(* pedir_puesto_checkin: the desk at the head of the tower's queue is no   *)
(* other flight's.                                                         *)
LEMMA PedirPuestoCorrecto ==
  ASSUME InvarianteCheckin, NEW v \in Vuelos, PedirPuesto(v)
  PROVE  InvarianteCheckin'
<1> USE DEF PedirPuesto, Sigue, InvarianteCheckin
<1> DEFINE p == puestos_libres[1]
<1>1. /\ puestos_libres \in Seq(Puestos) /\ puestos_libres # <<>>
      /\ pc_vuelo[v] = "inicio" /\ pc_vuelo \in [Vuelos -> PasosDeVuelo]
      /\ puesto \in [Vuelos -> Puestos \cup {SinPuesto}]
  BY DEF TiposCiclo
<1>2. /\ Tail(puestos_libres) \in Seq(Puestos) /\ Head(puestos_libres) = p
      /\ p \in Puestos /\ 1 \in DOMAIN puestos_libres
      /\ \A i \in DOMAIN Tail(puestos_libres) :
           /\ i + 1 \in DOMAIN puestos_libres /\ i \in Nat /\ i # 0
           /\ Tail(puestos_libres)[i] = puestos_libres[i + 1]
  BY <1>1
<1> HIDE DEF p
<1>3. /\ puesto' = [puesto EXCEPT ![v] = p]
      /\ puestos_libres' = Tail(puestos_libres)
      /\ pc_vuelo' = [pc_vuelo EXCEPT ![v] = "con_puesto"]
      /\ UNCHANGED <<zonas_libres, zonas, zona, cola_aviso, cinta>>
      /\ UNCHANGED <<puestos, equipajes, robots>>
  BY <1>2
<1>4. TiposCiclo'
  BY <1>1, <1>2, <1>3 DEF TiposCiclo, PasosDeVuelo, puestos, equipajes, robots
<1>5. PuestosRepartidos'
  <2>1. \A i, j \in DOMAIN puestos_libres' :
          puestos_libres'[i] = puestos_libres'[j] => i = j
    <3>1. \A i, j \in DOMAIN puestos_libres' :
            puestos_libres'[i] = puestos_libres'[j] => i + 1 = j + 1
      BY <1>2, <1>3 DEF PuestosRepartidos
    <3> QED
      BY <1>2, <1>3, <3>1
  <2>2. \A i \in DOMAIN puestos_libres' : puestos_libres'[i] # p
    <3>1. ASSUME NEW i \in DOMAIN puestos_libres', puestos_libres'[i] = p
          PROVE  i + 1 = 1
      BY <1>2, <1>3, <3>1 DEF PuestosRepartidos, p
    <3> QED
      BY <1>2, <1>3, <3>1
  <2>3. \A w \in Vuelos : ConPuesto(w) =>
          /\ puesto[w] # p
          /\ \A i \in DOMAIN puestos_libres' : puestos_libres'[i] # puesto[w]
    BY <1>2, <1>3 DEF PuestosRepartidos, p
  <2>4. ASSUME NEW w \in Vuelos
        PROVE  /\ pc_vuelo'[w] # "inicio" => puesto'[w] \in Puestos
               /\ pc_vuelo'[w] \notin {"inicio", "con_puesto"} => zona'[w] \in Zonas
    BY <1>1, <1>2, <1>3 DEF PuestosRepartidos
  <2>5. ASSUME NEW w \in Vuelos, ConPuesto(w)'
        PROVE  /\ \A i \in DOMAIN puestos_libres' : puestos_libres'[i] # puesto'[w]
               /\ \A x \in Vuelos : ConPuesto(x)' /\ puesto'[x] = puesto'[w] => x = w
    BY <1>1, <1>3, <2>2, <2>3, <2>5 DEF PuestosRepartidos, ConPuesto
  <2> QED
    BY <2>1, <2>4, <2>5 DEF PuestosRepartidos
<1>6. \A w \in Vuelos : Abrio(w) => puesto'[w] = puesto[w]
  BY <1>1, <1>3 DEF Abrio
<1> QED
  BY <1>1, <1>3, <1>4, <1>5, <1>6, SinMensaje DEF Abrio, PasosDeVuelo

(* pedir_zona *)
LEMMA PedirZonaCorrecto ==
  ASSUME InvarianteCheckin, NEW v \in Vuelos, PedirZona(v)
  PROVE  InvarianteCheckin'
<1> USE DEF PedirZona, Sigue, InvarianteCheckin
<1>1. /\ zonas_libres \in Seq(Zonas) /\ zonas_libres # <<>>
      /\ pc_vuelo[v] = "con_puesto" /\ pc_vuelo \in [Vuelos -> PasosDeVuelo]
      /\ zona \in [Vuelos -> Zonas \cup {SinZona}]
  BY DEF TiposCiclo
<1>2. Tail(zonas_libres) \in Seq(Zonas) /\ Head(zonas_libres) \in Zonas
  BY <1>1
<1>3. /\ pc_vuelo' = [pc_vuelo EXCEPT ![v] = "con_zona"]
      /\ UNCHANGED <<puestos_libres, zonas, puesto, cola_aviso, cinta>>
      /\ UNCHANGED <<puestos, equipajes, robots>>
  OBVIOUS
<1>4. TiposCiclo'
  BY <1>1, <1>2, <1>3 DEF TiposCiclo, PasosDeVuelo, puestos, equipajes, robots
<1>5. PuestosRepartidos'
  BY <1>1, <1>2, <1>3 DEF PuestosRepartidos, ConPuesto
<1> QED
  BY <1>1, <1>3, <1>4, <1>5, SinMensaje DEF Abrio, PasosDeVuelo

(* asignar_vuelo, whose table this invariant does not look at: the check-in *)
(* is the same wherever the bags go.                                       *)
LEMMA RegistrarZonaCorrecto ==
  ASSUME InvarianteCheckin, NEW v \in Vuelos, RegistrarZona(v)
  PROVE  InvarianteCheckin'
<1> USE DEF RegistrarZona, Sigue, InvarianteCheckin
<1>1. pc_vuelo[v] = "con_zona" /\ pc_vuelo \in [Vuelos -> PasosDeVuelo]
  BY DEF TiposCiclo
<1>2. /\ pc_vuelo' = [pc_vuelo EXCEPT ![v] = "registrado"]
      /\ UNCHANGED <<puestos_libres, zonas_libres, zona, puesto, cola_aviso, cinta>>
      /\ UNCHANGED <<puestos, equipajes, robots>>
  OBVIOUS
<1>3. TiposCiclo'
  BY <1>1, <1>2 DEF TiposCiclo, PasosDeVuelo, puestos, equipajes, robots
<1>4. PuestosRepartidos'
  BY <1>1, <1>2 DEF PuestosRepartidos, ConPuesto
<1> QED
  BY <1>1, <1>2, <1>3, <1>4, SinMensaje DEF Abrio, PasosDeVuelo

(* liberar_puesto_checkin: the desk goes back once to the tower's queue.   *)
LEMMA LiberarPuestoCorrecto ==
  ASSUME InvarianteCheckin, NEW v \in Vuelos, LiberarPuesto(v)
  PROVE  InvarianteCheckin'
<1> USE DEF LiberarPuesto, Sigue, InvarianteCheckin
<1> DEFINE p == puesto[v]
           s == puestos_libres
<1>1. /\ s \in Seq(Puestos) /\ p \in Puestos
      /\ pc_vuelo[v] = "cerrado" /\ pc_vuelo \in [Vuelos -> PasosDeVuelo]
  BY DEF TiposCiclo, PuestosRepartidos
<1>2. /\ pc_vuelo' = [pc_vuelo EXCEPT ![v] = "fin"]
      /\ puestos_libres' = Append(s, p)
      /\ UNCHANGED <<zonas_libres, zona, zonas, puesto, cola_aviso, cinta>>
      /\ UNCHANGED <<puestos, equipajes, robots>>
  OBVIOUS
<1>3. /\ Append(s, p) \in Seq(Puestos) /\ Len(s) \in Nat
      /\ DOMAIN s = 1..Len(s) /\ DOMAIN Append(s, p) = 1..Len(s) + 1
      /\ \A i \in 1..Len(s) : Append(s, p)[i] = s[i]
      /\ Append(s, p)[Len(s) + 1] = p
  BY <1>1
<1>4. TiposCiclo'
  BY <1>1, <1>2, <1>3 DEF TiposCiclo, PasosDeVuelo, puestos, equipajes, robots
<1>5. PuestosRepartidos'
  <2>1. ConPuesto(v)
    BY <1>1 DEF ConPuesto
  <2>2. \A i \in 1..Len(s) : s[i] # p
    BY <1>3, <2>1 DEF PuestosRepartidos
  <2>3. ASSUME NEW i \in DOMAIN puestos_libres', NEW j \in DOMAIN puestos_libres',
               puestos_libres'[i] = puestos_libres'[j]
        PROVE  i = j
    <3>1. CASE i \in 1..Len(s) /\ j \in 1..Len(s)
      BY <1>2, <1>3, <2>3, <3>1 DEF PuestosRepartidos
    <3>2. CASE i \in 1..Len(s) /\ j = Len(s) + 1
      BY <1>2, <1>3, <2>2, <2>3, <3>2
    <3>3. CASE i = Len(s) + 1 /\ j \in 1..Len(s)
      BY <1>2, <1>3, <2>2, <2>3, <3>3
    <3>4. CASE i = Len(s) + 1 /\ j = Len(s) + 1
      BY <3>4
    <3> QED
      BY <1>2, <1>3, <3>1, <3>2, <3>3, <3>4
  <2>4. ASSUME NEW w \in Vuelos
        PROVE  /\ pc_vuelo'[w] # "inicio" => puesto'[w] \in Puestos
               /\ pc_vuelo'[w] \notin {"inicio", "con_puesto"} => zona'[w] \in Zonas
    BY <1>1, <1>2 DEF PuestosRepartidos
  <2>5. ASSUME NEW w \in Vuelos, ConPuesto(w)'
        PROVE  /\ \A i \in DOMAIN puestos_libres' : puestos_libres'[i] # puesto'[w]
               /\ \A x \in Vuelos : ConPuesto(x)' /\ puesto'[x] = puesto'[w] => x = w
    <3>1. w # v /\ ConPuesto(w)
      BY <1>1, <1>2, <2>5 DEF ConPuesto
    <3>2. puesto[w] # p /\ \A i \in 1..Len(s) : s[i] # puesto[w]
      BY <1>3, <2>1, <3>1 DEF PuestosRepartidos
    <3>3. \A i \in DOMAIN puestos_libres' : puestos_libres'[i] # puesto'[w]
      <4>1. ASSUME NEW i \in DOMAIN puestos_libres' PROVE puestos_libres'[i] # puesto[w]
        <5>1. i \in 1..Len(s) \/ i = Len(s) + 1
          BY <1>2, <1>3
        <5> QED
          BY <1>2, <1>3, <3>2, <5>1
      <4> QED
        BY <1>2, <4>1
    <3>4. ASSUME NEW x \in Vuelos, ConPuesto(x)', puesto'[x] = puesto'[w]
          PROVE  x = w
      <4>1. ConPuesto(x)
        BY <1>1, <1>2, <3>4 DEF ConPuesto
      <4> QED
        BY <1>2, <3>1, <3>4, <4>1 DEF PuestosRepartidos
    <3> QED
      BY <3>3, <3>4
  <2> QED
    BY <2>3, <2>4, <2>5 DEF PuestosRepartidos
<1> QED
  BY <1>1, <1>2, <1>4, <1>5, SinMensaje DEF Abrio, PasosDeVuelo

(* enviar_mensaje_to_checkin: the open message of a flight goes to a desk  *)
(* that ends up with none, the close message to the one that ends up with  *)
(* the flight, though other flights used the desk before.                  *)
LEMMA EnviarCorrecto ==
  ASSUME InvarianteCheckin, NEW v \in Vuelos, NEW iniciar \in BOOLEAN,
         pc_vuelo[v] = IF iniciar THEN "registrado" ELSE "abierto",
         pc_vuelo' = [pc_vuelo EXCEPT ![v] = IF iniciar THEN "abierto" ELSE "cerrado"],
         EnviarAlPuesto(v, iniciar),
         UNCHANGED <<torre, puesto, zona, num_vuelo, cant_equipajes,
                     mutex_checkin, queue_pasajeros, por_registrar,
                     cant_intercargo, equipajes, cola_aviso, cinta, robots>>
  PROVE  InvarianteCheckin'
<1> USE DEF InvarianteCheckin
<1> DEFINE p == puesto[v]
           q == queue_controlador[p]
           n == num_vuelo[p]
           m == [iniciar_checkin |-> iniciar, num_vuelo |-> v, num_zona |-> zona[v]]
           r == Append(q, m)
<1>1. /\ p \in Puestos /\ zona[v] \in Zonas /\ m \in Mensajes
      /\ q \in Seq(Mensajes) /\ n \in Vuelos \cup {SinVuelo}
      /\ queue_controlador \in [Puestos -> Seq(Mensajes)]
      /\ num_vuelo \in [Puestos -> Vuelos \cup {SinVuelo}]
      /\ pc_vuelo \in [Vuelos -> PasosDeVuelo]
      /\ pc_vuelo' \in [Vuelos -> PasosDeVuelo]
      /\ SinVuelo \notin Vuelos
      /\ m.iniciar_checkin = iniciar /\ m.num_vuelo = v
  <2>1. pc_vuelo[v] \in {"registrado", "abierto"}
    OBVIOUS
  <2>2. p \in Puestos /\ zona[v] \in Zonas
    BY <2>1 DEF PuestosRepartidos
  <2>3. pc_vuelo \in [Vuelos -> PasosDeVuelo] /\ pc_vuelo' \in [Vuelos -> PasosDeVuelo]
    BY DEF TiposCiclo, PasosDeVuelo
  <2>4. m \in Mensajes
    BY <2>2 DEF Mensajes
  <2>5. SinVuelo \notin Vuelos
    BY SuposicionCiclo DEF SuposicionCiclo, SinVuelo
  <2> HIDE DEF m
  <2>6. /\ queue_controlador \in [Puestos -> Seq(Mensajes)]
        /\ num_vuelo \in [Puestos -> Vuelos \cup {SinVuelo}]
    BY DEF TiposCiclo
  <2>7. m.iniciar_checkin = iniciar /\ m.num_vuelo = v
    BY DEF m
  <2> QED
    BY <2>2, <2>3, <2>4, <2>5, <2>6, <2>7
<1>2. /\ UNCHANGED <<puestos_libres, zonas_libres, puesto, zona, num_vuelo,
                     cant_equipajes, cant_intercargo, mutex_checkin>>
      /\ UNCHANGED <<queue_pasajeros, por_registrar, por_llegar, cola_aviso>>
      /\ UNCHANGED <<en_camino, perdidos, cinta, cargados, embarques, pc_carga>>
      /\ queue_controlador' = [queue_controlador EXCEPT ![p] = r]
  BY DEF torre, equipajes, robots, EnviarAlPuesto
<1>3. Final(q, n) = IF iniciar THEN SinVuelo ELSE v
  <2>1. CASE iniciar
    <3>1. ASSUME Final(q, n) # SinVuelo PROVE FALSE
      <4>1. Final(q, n) \in Vuelos
        BY <1>1, <3>1, FinalEsVuelo
      <4>2. pc_vuelo[Final(q, n)] = "abierto" /\ puesto[Final(q, n)] = p
        BY <1>1, <3>1 DEF FinalCoherente
      <4>3. Final(q, n) = v
        BY <2>1, <4>1, <4>2 DEF PuestosRepartidos, ConPuesto
      <4> QED
        BY <2>1, <4>2, <4>3
    <3> QED
      BY <2>1, <3>1
  <2>2. CASE ~ iniciar
    BY <1>1, <2>2 DEF FinalCoherente
  <2> QED
    BY <2>1, <2>2
<1>4. Encadenada(q, n)
  BY <1>1, OrdenDeCadaPuesto
<1> HIDE DEF p, q, n, m
<1>5. /\ r \in Seq(Mensajes) /\ Encadenada(r, n)
      /\ Final(r, n) = IF iniciar THEN v ELSE SinVuelo
  BY <1>1, <1>3, <1>4, EnviarEnOrden DEF Tras
<1>6. /\ Len(q) \in Nat /\ DOMAIN q = 1..Len(q) /\ DOMAIN r = 1..Len(q) + 1
      /\ \A i \in 1..Len(q) : r[i] = q[i]
      /\ r[Len(q) + 1] = m
  BY <1>1
<1> HIDE DEF r
<1>7. /\ queue_controlador' \in [Puestos -> Seq(Mensajes)]
      /\ queue_controlador'[p] = r
      /\ queue_controlador[p] = q /\ num_vuelo[p] = n
      /\ \A d \in Puestos \ {p} : queue_controlador'[d] = queue_controlador[d]
  BY <1>1, <1>2, <1>5 DEF q, n
<1>8. TiposCiclo'
  BY <1>1, <1>2, <1>7 DEF TiposCiclo
<1>9. MutexTipo' /\ PuestosRepartidos'
  BY <1>1, <1>2 DEF MutexTipo, PuestosRepartidos, ConPuesto
<1>10. MensajesEnOrden'
  <2>1. ASSUME NEW d \in Puestos PROVE Encadenada(queue_controlador'[d], num_vuelo'[d])
    <3>1. Encadenada(queue_controlador[d], num_vuelo[d])
      BY <1>1, OrdenDeCadaPuesto
    <3>2. CASE d = p
      BY <1>2, <1>5, <1>7, <3>2
    <3>3. CASE d # p
      BY <1>2, <1>7, <3>1, <3>3
    <3> QED
      BY <3>2, <3>3
  <2> QED
    BY <1>7, <2>1, OrdenTrasElPaso
<1>11. \A w \in Vuelos : Abrio(w)' <=> (Abrio(w) \/ w = v)
  BY <1>1 DEF Abrio, PasosDeVuelo
<1>12. FinalCoherente'
  <2>1. ASSUME NEW d \in Puestos, d # p
        PROVE  /\ Final(queue_controlador[d], num_vuelo[d])' =
                    Final(queue_controlador[d], num_vuelo[d])
               /\ Final(queue_controlador[d], num_vuelo[d]) \in Vuelos \cup {SinVuelo}
    <3>1. queue_controlador[d] \in Seq(Mensajes) /\ num_vuelo[d] \in Vuelos \cup {SinVuelo}
      BY <1>1
    <3> QED
      BY <1>2, <1>7, <2>1, <3>1, FinalEsVuelo DEF Final
  <2>2. ASSUME NEW d \in Puestos, d = p
        PROVE  Final(queue_controlador[d], num_vuelo[d])' = IF iniciar THEN v ELSE SinVuelo
    BY <1>2, <1>5, <1>7, <2>2 DEF Final
  <2>3. \A w \in Vuelos \ {v} : pc_vuelo'[w] = pc_vuelo[w] /\ puesto'[w] = puesto[w]
    BY <1>1, <1>2
  <2>4. /\ pc_vuelo'[v] = IF iniciar THEN "abierto" ELSE "cerrado"
        /\ puesto'[v] = p
    BY <1>1, <1>2 DEF p
  <2>5. ASSUME NEW d \in Puestos, NEW k, k = Final(queue_controlador[d], num_vuelo[d])'
        PROVE  /\ k # SinVuelo => pc_vuelo'[k] = "abierto" /\ puesto'[k] = d
               /\ \A w \in Vuelos : pc_vuelo'[w] = "abierto" /\ puesto'[w] = d => k = w
    <3>1. CASE d = p
      <4>1. \A w \in Vuelos \ {v} : pc_vuelo[w] = "abierto" => puesto[w] # p
        <5>1. ConPuesto(v) /\ \A w \in Vuelos : pc_vuelo[w] = "abierto" => ConPuesto(w)
          BY DEF ConPuesto
        <5> QED
          BY <5>1 DEF PuestosRepartidos, p
      <4>2. k = IF iniciar THEN v ELSE SinVuelo
        BY <2>2, <2>5, <3>1
      <4>3. \A w \in Vuelos : pc_vuelo'[w] = "abierto" /\ puesto'[w] = d => w = v /\ iniciar
        BY <2>3, <2>4, <3>1, <4>1
      <4> QED
        BY <1>1, <2>4, <3>1, <4>2, <4>3
    <3>2. CASE d # p
      <4>1. /\ k = Final(queue_controlador[d], num_vuelo[d])
            /\ k \in Vuelos \cup {SinVuelo}
        BY <2>1, <2>5, <3>2
      <4>2. k # SinVuelo => pc_vuelo[k] = "abierto" /\ puesto[k] = d
        BY <4>1 DEF FinalCoherente
      <4>3. k # v
        BY <1>1, <3>2, <4>2 DEF p
      <4>4. \A w \in Vuelos : pc_vuelo[w] = "abierto" /\ puesto[w] = d => k = w
        BY <4>1 DEF FinalCoherente
      <4> QED
        BY <2>3, <2>4, <3>2, <4>1, <4>2, <4>3, <4>4
    <3> QED
      BY <3>1, <3>2
  <2> QED
    BY <2>5 DEF FinalCoherente
<1>13. ASSUME NEW i \in DOMAIN r PROVE (i \in DOMAIN q /\ r[i] = q[i]) \/ (i = Len(q) + 1 /\ r[i] = m)
  BY <1>6
<1>14. \A d \in Puestos : \A i \in DOMAIN queue_controlador[d] :
         /\ queue_controlador[d][i].num_vuelo \in Vuelos
         /\ Abrio(queue_controlador[d][i].num_vuelo)
         /\ puesto[queue_controlador[d][i].num_vuelo] = d
  BY <1>1, MensajesDeCola DEF MensajesDelPuesto
<1>15. MensajesDelPuesto'
  <2>1. ASSUME NEW d \in Puestos, num_vuelo[d] # SinVuelo
        PROVE  Abrio(num_vuelo[d])' /\ puesto[num_vuelo[d]] = d
    <3>1. num_vuelo[d] \in Vuelos
      BY <1>1, <2>1
    <3> QED
      BY <1>11, <2>1, <3>1 DEF MensajesDelPuesto
  <2>2. ASSUME NEW d \in Puestos, NEW i \in DOMAIN queue_controlador'[d]
        PROVE  /\ Abrio(queue_controlador[d][i].num_vuelo)'
               /\ puesto[queue_controlador'[d][i].num_vuelo] = d
    <3>1. CASE d # p
      BY <1>7, <1>11, <1>14, <2>2, <3>1 DEF Abrio
    <3>2. CASE d = p
      <4>1. i \in DOMAIN r
        BY <1>7, <2>2, <3>2
      <4>2. CASE i \in DOMAIN q /\ r[i] = q[i]
        BY <1>7, <1>11, <1>14, <3>2, <4>2 DEF Abrio
      <4>3. CASE r[i] = m
        BY <1>1, <1>7, <1>11, <3>2, <4>3 DEF Abrio, p
      <4> QED
        BY <1>13, <4>1, <4>2, <4>3
    <3> QED
      BY <3>1, <3>2
  <2> QED
    BY <1>2, <2>1, <2>2 DEF MensajesDelPuesto, Abrio
<1>16. NadaNuevo
  BY <1>2, ValijasQuietas
<1>17. RegistroEnCurso' /\ PasajeroConSusValijas'
  BY <1>2, <1>16, RegistroQuieto
<1>18. CuentaAlDia'
  BY <1>1, <1>2, <1>16, CuentaQuieta
<1>19. CargaEnviada'
  BY <1>2, CargaQuieta
<1>20. AperturaUnica'
  <2>1. \A w \in Vuelos : SinRegistrar(w)' <=> SinRegistrar(w)
    BY <1>16 DEF NadaNuevo, SinRegistrar
  <2>2. \A w \in Vuelos : ~ Abrio(w)' => SinRegistrar(w)'
    BY <1>11, <2>1 DEF AperturaUnica
  <2>3. iniciar => ~ Abrio(v)
    BY DEF Abrio
  <2>4. num_vuelo[p] # SinVuelo => Abrio(num_vuelo[p])
    BY <1>1 DEF MensajesDelPuesto
  <2>5. ASSUME NEW d \in Puestos, NEW i \in DOMAIN queue_controlador'[d],
               queue_controlador'[d][i].iniciar_checkin
        PROVE  /\ SinRegistrar(queue_controlador[d][i].num_vuelo)'
               /\ num_vuelo[d] # queue_controlador'[d][i].num_vuelo
               /\ \A j \in DOMAIN queue_controlador'[d] :
                    /\ queue_controlador'[d][j].iniciar_checkin
                    /\ queue_controlador'[d][j].num_vuelo = queue_controlador'[d][i].num_vuelo
                    => j = i
    <3>1. CASE d # p
      BY <1>7, <1>14, <1>16, <2>5, <3>1 DEF AperturaUnica, SinRegistrar, NadaNuevo
    <3>2. CASE d = p
      <4>1. i \in DOMAIN r /\ r[i].iniciar_checkin
        BY <1>7, <2>5, <3>2
      <4>2. CASE i \in DOMAIN q /\ r[i] = q[i]
        <5>1. /\ q[i].num_vuelo \in Vuelos /\ Abrio(q[i].num_vuelo)
              /\ SinRegistrar(q[i].num_vuelo) /\ n # q[i].num_vuelo
              /\ \A j \in DOMAIN q :
                   q[j].iniciar_checkin /\ q[j].num_vuelo = q[i].num_vuelo => j = i
          BY <1>1, <1>7, <1>14, <4>1, <4>2 DEF AperturaUnica
        <5>2. ASSUME NEW j \in DOMAIN r, r[j].iniciar_checkin, r[j].num_vuelo = q[i].num_vuelo
              PROVE  j = i
          BY <1>1, <1>13, <2>3, <5>1, <5>2
        <5> QED
          BY <1>7, <1>16, <3>2, <4>2, <5>1, <5>2 DEF SinRegistrar, NadaNuevo
      <4>3. CASE i = Len(q) + 1 /\ r[i] = m
        <5>1. ~ Abrio(v)
          BY <1>1, <2>3, <4>1, <4>3
        <5>2. SinRegistrar(v) /\ num_vuelo[p] # v
          BY <1>1, <2>4, <5>1 DEF AperturaUnica
        <5>3. ASSUME NEW j \in DOMAIN r, r[j].num_vuelo = v
              PROVE  j = i
          BY <1>1, <1>7, <1>13, <1>14, <4>3, <5>1, <5>3
        <5> QED
          BY <1>1, <1>7, <1>16, <3>2, <4>3, <5>2, <5>3 DEF SinRegistrar, NadaNuevo
      <4> QED
        BY <1>13, <4>1, <4>2, <4>3
    <3> QED
      BY <3>1, <3>2
  <2> QED
    BY <1>2, <2>2, <2>5 DEF AperturaUnica, SinRegistrar
<1> QED
  BY <1>8, <1>9, <1>10, <1>12, <1>15, <1>17, <1>18, <1>19, <1>20

(* A step of controlador_de_vuelo *)
LEMMA PasoVueloCorrecto ==
  ASSUME InvarianteCheckin, NEW v \in Vuelos, PasoVuelo(v)
  PROVE  InvarianteCheckin'
<1>1. CASE PedirPuesto(v)
  BY <1>1, PedirPuestoCorrecto
<1>2. CASE PedirZona(v)
  BY <1>2, PedirZonaCorrecto
<1>3. CASE RegistrarZona(v)
  BY <1>3, RegistrarZonaCorrecto
<1>4. CASE IniciarCheckin(v)
  <2>1. /\ pc_vuelo' = [pc_vuelo EXCEPT ![v] = "abierto"]
        /\ pc_vuelo[v] = "registrado" /\ EnviarAlPuesto(v, TRUE)
        /\ UNCHANGED <<torre, puesto, zona, num_vuelo, cant_equipajes,
                       mutex_checkin, queue_pasajeros, por_registrar,
                       cant_intercargo, equipajes, cola_aviso, cinta, robots>>
    BY <1>4 DEF IniciarCheckin, Sigue
  <2> QED
    BY <2>1, EnviarCorrecto
<1>5. CASE CerrarCheckin(v)
  <2>1. /\ pc_vuelo' = [pc_vuelo EXCEPT ![v] = "cerrado"]
        /\ pc_vuelo[v] = "abierto" /\ EnviarAlPuesto(v, FALSE)
        /\ UNCHANGED <<torre, puesto, zona, num_vuelo, cant_equipajes,
                       mutex_checkin, queue_pasajeros, por_registrar,
                       cant_intercargo, equipajes, cola_aviso, cinta, robots>>
    BY <1>5 DEF CerrarCheckin, Sigue
  <2> QED
    BY <2>1, EnviarCorrecto
<1>6. CASE LiberarPuesto(v)
  BY <1>6, LiberarPuestoCorrecto
<1> QED
  BY <1>1, <1>2, <1>3, <1>4, <1>5, <1>6 DEF PasoVuelo

-----------------------------------------------------------------------------
(* Passengers and transfer bags *)

(* A step that changes neither the messages nor who is attended, and puts  *)
(* no bag of a passenger on a belt.                                        *)
LEMMA SinRegistro ==
  ASSUME InvarianteCheckin, TiposCiclo', MutexTipo', RegistroEnCurso',
         PasajeroConSusValijas', CargaEnviada', NadaNuevo,
         UNCHANGED <<puestos_libres, pc_vuelo, puesto, zona, num_vuelo,
                     queue_controlador, cant_equipajes>>
  PROVE  InvarianteCheckin'
<1> USE DEF InvarianteCheckin
<1>1. PuestosRepartidos' /\ MensajesEnOrden' /\ FinalCoherente' /\ MensajesDelPuesto'
  BY MensajesQuietos
<1>2. AperturaUnica'
  BY AperturaQuieta DEF TiposCiclo
<1>3. CuentaAlDia'
  BY CuentaQuieta DEF TiposCiclo
<1> QED
  BY <1>1, <1>2, <1>3

(* generador_pasajeros: a passenger goes to the desk of the flight, perhaps *)
(* when another flight is there.                                           *)
LEMMA LlegaPasajeroCorrecto ==
  ASSUME InvarianteCheckin, NEW s \in Pasajeros, LlegaPasajero(s)
  PROVE  InvarianteCheckin'
<1> USE DEF InvarianteCheckin, LlegaPasajero
<1> DEFINE v == VueloDePasajero[s]
           p == puesto[v]
<1>1. v \in Vuelos
  BY SuposicionCiclo DEF SuposicionCiclo
<1>2. p \in Puestos
  BY <1>1 DEF PuestosRepartidos
<1> HIDE DEF v
<1>3. /\ s \in por_llegar /\ por_llegar' = por_llegar \ {s}
      /\ queue_pasajeros' = [queue_pasajeros EXCEPT ![p] = @ \cup {s}]
      /\ UNCHANGED <<puestos_libres, zonas_libres, pc_vuelo, puesto, zona, num_vuelo,
                     queue_controlador, cant_equipajes, cant_intercargo>>
      /\ UNCHANGED <<mutex_checkin, por_registrar, cola_aviso, en_camino, perdidos,
                     cinta, cargados, embarques, pc_carga>>
  BY DEF torre, vuelos, robots, v
<1>4. EnCurso' = EnCurso /\ NadaNuevo
  BY <1>3, ValijasQuietas
<1> HIDE DEF LlegaPasajero, p
<1>5. TiposCiclo'
  <2>1. queue_pasajeros' \in [Puestos -> SUBSET Pasajeros]
    BY <1>2, <1>3 DEF TiposCiclo
  <2> QED
    BY <1>3, <2>1 DEF TiposCiclo
<1>6. MutexTipo' /\ RegistroEnCurso'
  BY <1>3, <1>4 DEF MutexTipo, RegistroEnCurso
<1>7. CargaEnviada'
  BY <1>3, CargaQuieta
<1>8. PasajeroConSusValijas'
  <2>1. queue_pasajeros \in [Puestos -> SUBSET Pasajeros]
    BY DEF TiposCiclo
  <2>2. \A d \in Puestos : s \notin queue_pasajeros[d]
    BY <1>3 DEF PasajeroConSusValijas
  <2>3. \A d \in Puestos : s \in queue_pasajeros'[d] <=> d = p
    BY <1>2, <1>3, <2>1, <2>2
  <2>4. \A t \in Pasajeros \ {s} :
          /\ t \in por_llegar' <=> t \in por_llegar
          /\ \A d \in Puestos : t \in queue_pasajeros'[d] <=> t \in queue_pasajeros[d]
    BY <1>2, <1>3, <2>1
  <2>5. ASSUME NEW t \in Pasajeros
        PROVE  \A d \in Puestos : t \in queue_pasajeros'[d] =>
                 t \notin por_llegar' /\ \A c \in Puestos : t \in queue_pasajeros'[c] => c = d
    <3>1. CASE t = s
      BY <1>3, <2>3, <3>1
    <3>2. CASE t # s
      BY <2>4, <3>2 DEF PasajeroConSusValijas
    <3> QED
      BY <3>1, <3>2
  <2>6. ASSUME NEW t \in Pasajeros,
               t \in por_llegar' \/ \E d \in Puestos : t \in queue_pasajeros'[d]
        PROVE  \A e \in ValijasDe[t] :
                 e \notin EnCurso /\ \A d \in Puestos : e \notin por_registrar[d]
    <3>1. t \in por_llegar \/ \E d \in Puestos : t \in queue_pasajeros[d]
      BY <1>3, <2>4, <2>6
    <3> QED
      BY <3>1 DEF PasajeroConSusValijas
  <2> QED
    BY <1>3, <1>4, <2>5, <2>6 DEF PasajeroConSusValijas
<1> QED
  BY <1>3, <1>4, <1>5, <1>6, <1>7, <1>8, SinRegistro

(* A transfer bag goes to the belts and is no passenger's: CuentaAlDia     *)
(* does not count it.                                                      *)
LEMMA LlegaTrasbordoCorrecto ==
  ASSUME InvarianteCheckin, NEW v \in Vuelos, NEW e \in Valijas, LlegaTrasbordo(v, e)
  PROVE  InvarianteCheckin' /\ NadaNuevo
<1> USE DEF InvarianteCheckin, LlegaTrasbordo
<1>1. /\ e \in Trasbordo[v] /\ por_llegar' \subseteq por_llegar
      /\ en_camino' = en_camino \cup {e}
      /\ UNCHANGED <<puestos_libres, zonas_libres, pc_vuelo, puesto, zona, num_vuelo,
                     queue_controlador, cant_equipajes, cant_intercargo>>
      /\ UNCHANGED <<mutex_checkin, por_registrar, queue_pasajeros, cola_aviso,
                     perdidos, cinta, cargados, embarques, pc_carga>>
  BY DEF torre, vuelos, robots, puestos
<1>2. EnCurso' = EnCurso \cup {e}
  BY <1>1 DEF EnCurso
<1>3. \A w : e \notin DeLosPasajeros(w)
  BY <1>1, VueloDeUnaValija DEF DeLosPasajeros
<1>4. NadaNuevo
  BY <1>2, <1>3 DEF NadaNuevo
<1>5. TiposCiclo'
  BY <1>1 DEF TiposCiclo
<1>6. MutexTipo'
  BY <1>1 DEF MutexTipo
<1>7. RegistroEnCurso' /\ PasajeroConSusValijas'
  BY <1>1, <1>4, RegistroQuieto
<1>8. CargaEnviada'
  BY <1>1, CargaQuieta
<1> QED
  BY <1>1, <1>4, <1>5, <1>6, <1>7, <1>8, SinRegistro

-----------------------------------------------------------------------------
(* puesto_checkin *)

(* comienza_checkin_pasajero: with the mutex taken, a passenger of the     *)
(* flight at the desk leaves all the bags to register, and is not seen     *)
(* again.                                                                  *)
LEMMA AtenderPasajeroCorrecto ==
  ASSUME InvarianteCheckin, NEW p \in Puestos, NEW s \in Pasajeros,
         AtenderPasajero(p, s)
  PROVE  InvarianteCheckin' /\ NadaNuevo
<1> USE DEF InvarianteCheckin
<1> DEFINE b == IF num_vuelo[p] = VueloDePasajero[s] THEN ValijasDe[s] ELSE {}
<1>1. /\ s \in queue_pasajeros[p] /\ ~ mutex_checkin[p]
      /\ mutex_checkin' = [mutex_checkin EXCEPT ![p] = TRUE]
      /\ queue_pasajeros' = [queue_pasajeros EXCEPT ![p] = @ \ {s}]
      /\ por_registrar' = [por_registrar EXCEPT ![p] = b]
      /\ UNCHANGED <<puestos_libres, zonas_libres, pc_vuelo, puesto, zona, num_vuelo,
                     queue_controlador, cant_equipajes, cant_intercargo>>
      /\ UNCHANGED <<por_llegar, cola_aviso, en_camino, perdidos,
                     cinta, cargados, embarques, pc_carga>>
  BY DEF AtenderPasajero, torre, vuelos, robots, equipajes
<1>2. /\ queue_pasajeros \in [Puestos -> SUBSET Pasajeros]
      /\ por_registrar \in [Puestos -> SUBSET Valijas]
      /\ mutex_checkin \in [Puestos -> BOOLEAN]
  BY DEF TiposCiclo, MutexTipo
<1>3. b \subseteq ValijasDe[s] /\ b \subseteq Valijas
  BY VueloDeUnaValija
<1>4. b # {} => /\ num_vuelo[p] # SinVuelo
                /\ ValijasDe[s] \subseteq DeLosPasajeros(num_vuelo[p])
  BY ValijasDeUnVuelo, SuposicionCiclo DEF SuposicionCiclo, SinVuelo
<1> HIDE DEF b
<1>5. EnCurso' = EnCurso /\ NadaNuevo
  BY <1>1, ValijasQuietas
<1>6. TiposCiclo'
  <2>1. /\ queue_pasajeros' \in [Puestos -> SUBSET Pasajeros]
        /\ por_registrar' \in [Puestos -> SUBSET Valijas]
    BY <1>1, <1>2, <1>3
  <2> QED
    BY <1>1, <2>1 DEF TiposCiclo
<1>7. MutexTipo'
  BY <1>1, <1>2 DEF MutexTipo
<1>8. CargaEnviada'
  BY <1>1, CargaQuieta
<1>9. \A e \in ValijasDe[s] : e \notin EnCurso
  BY <1>1 DEF PasajeroConSusValijas
<1>10. /\ mutex_checkin'[p] = TRUE /\ por_registrar'[p] = b
       /\ \A d \in Puestos \ {p} : /\ por_registrar'[d] = por_registrar[d]
                                   /\ mutex_checkin'[d] = mutex_checkin[d]
                                   /\ queue_pasajeros'[d] = queue_pasajeros[d]
       /\ queue_pasajeros'[p] = queue_pasajeros[p] \ {s}
  BY <1>1, <1>2
<1>11. RegistroEnCurso'
  <2>1. ASSUME NEW d \in Puestos, NEW e \in por_registrar'[d]
        PROVE  /\ mutex_checkin'[d]
               /\ e \notin EnCurso
               /\ num_vuelo[d] # SinVuelo
               /\ e \in DeLosPasajeros(num_vuelo[d])
    <3>1. CASE d = p
      <4>1. e \in b
        BY <1>10, <2>1, <3>1
      <4>2. e \notin EnCurso /\ num_vuelo[p] # SinVuelo /\ e \in DeLosPasajeros(num_vuelo[p])
        BY <1>3, <1>4, <1>9, <4>1
      <4> QED
        BY <1>10, <3>1, <4>2
    <3>2. CASE d # p
      BY <1>10, <2>1, <3>2 DEF RegistroEnCurso
    <3> QED
      BY <3>1, <3>2
  <2> QED
    BY <1>1, <1>5, <2>1 DEF RegistroEnCurso
<1>12. PasajeroConSusValijas'
  <2>1. \A d \in Puestos : s \notin queue_pasajeros'[d]
    BY <1>1, <1>10 DEF PasajeroConSusValijas
  <2>2. \A t \in Pasajeros \ {s} : \A d \in Puestos :
          t \in queue_pasajeros'[d] <=> t \in queue_pasajeros[d]
    BY <1>10
  <2>3. s \notin por_llegar
    BY <1>1 DEF PasajeroConSusValijas
  <2>4. ASSUME NEW t \in Pasajeros
        PROVE  \A d \in Puestos : t \in queue_pasajeros'[d] =>
                 t \notin por_llegar' /\ \A c \in Puestos : t \in queue_pasajeros'[c] => c = d
    BY <1>1, <2>1, <2>2 DEF PasajeroConSusValijas
  <2>5. ASSUME NEW t \in Pasajeros,
               t \in por_llegar' \/ \E d \in Puestos : t \in queue_pasajeros'[d],
               NEW e \in ValijasDe[t]
        PROVE  e \notin EnCurso /\ \A d \in Puestos : e \notin por_registrar'[d]
    <3>1. t # s /\ (t \in por_llegar \/ \E d \in Puestos : t \in queue_pasajeros[d])
      BY <1>1, <2>1, <2>2, <2>3, <2>5
    <3>2. e \notin EnCurso /\ \A d \in Puestos : e \notin por_registrar[d]
      BY <2>5, <3>1 DEF PasajeroConSusValijas
    <3>3. e \notin b
      BY <1>3, <3>1, SuposicionEquipajes DEF SuposicionEquipajes
    <3> QED
      BY <1>10, <3>2, <3>3
  <2> QED
    BY <1>5, <2>4, <2>5 DEF PasajeroConSusValijas
<1> QED
  BY <1>1, <1>5, <1>6, <1>7, <1>8, <1>11, <1>12, SinRegistro

(* fin_checkin_pasajero gives the mutex back with nothing left to register. *)
LEMMA DespedirPasajeroCorrecto ==
  ASSUME InvarianteCheckin, NEW p \in Puestos, DespedirPasajero(p)
  PROVE  InvarianteCheckin' /\ NadaNuevo
<1> USE DEF InvarianteCheckin
<1>1. /\ por_registrar[p] = {}
      /\ mutex_checkin' = [mutex_checkin EXCEPT ![p] = FALSE]
      /\ UNCHANGED <<puestos_libres, zonas_libres, pc_vuelo, puesto, zona, num_vuelo,
                     queue_controlador, cant_equipajes, cant_intercargo>>
      /\ UNCHANGED <<por_llegar, cola_aviso, en_camino, perdidos, queue_pasajeros,
                     por_registrar, cinta, cargados, embarques, pc_carga>>
  BY DEF DespedirPasajero, torre, vuelos, robots, equipajes
<1>2. EnCurso' = EnCurso /\ NadaNuevo
  BY <1>1, ValijasQuietas
<1>3. TiposCiclo'
  BY <1>1 DEF TiposCiclo
<1>4. MutexTipo' /\ \A d \in Puestos \ {p} : mutex_checkin'[d] = mutex_checkin[d]
  BY <1>1 DEF MutexTipo
<1>5. RegistroEnCurso'
  BY <1>1, <1>2, <1>4 DEF RegistroEnCurso
<1>6. PasajeroConSusValijas'
  BY <1>1, <1>2 DEF PasajeroConSusValijas
<1>7. CargaEnviada'
  BY <1>1, CargaQuieta
<1> QED
  BY <1>1, <1>2, <1>3, <1>4, <1>5, <1>6, <1>7, SinRegistro

(* The flights at two desks, and those of the messages to two desks, are   *)
(* not the same.                                                           *)
LEMMA UnPuestoPorVuelo ==
  ASSUME InvarianteCheckin, NEW p \in Puestos, num_vuelo[p] # SinVuelo
  PROVE  /\ num_vuelo[p] \in Vuelos /\ Abrio(num_vuelo[p])
         /\ \A d \in Puestos \ {p} :
              /\ num_vuelo[d] # num_vuelo[p]
              /\ \A i \in DOMAIN queue_controlador[d] :
                   queue_controlador[d][i].num_vuelo # num_vuelo[p]
BY DEF InvarianteCheckin, MensajesDelPuesto, TiposCiclo

(* registrar_equipaje: the bag is of the flight at the desk, which has     *)
(* been opened, and is put on the belt once.                               *)
LEMMA RegistrarEquipajeCorrecto ==
  ASSUME InvarianteCheckin, NEW p \in Puestos, NEW e \in Valijas,
         RegistrarEquipaje(p, e)
  PROVE  /\ InvarianteCheckin'
         /\ num_vuelo[p] \in Vuelos
         /\ \A v \in Vuelos \ {num_vuelo[p]} :
              DeLosPasajeros(v) \cap EnCurso' = DeLosPasajeros(v) \cap EnCurso
<1> USE DEF InvarianteCheckin
<1>1. /\ e \in por_registrar[p]
      /\ cant_equipajes' = [cant_equipajes EXCEPT ![p] = @ + 1]
      /\ por_registrar' = [por_registrar EXCEPT ![p] = @ \ {e}]
      /\ en_camino' = en_camino \cup {e}
      /\ UNCHANGED <<puestos_libres, zonas_libres, pc_vuelo, puesto, zona, num_vuelo,
                     queue_controlador, cant_intercargo, mutex_checkin>>
      /\ UNCHANGED <<por_llegar, cola_aviso, perdidos, queue_pasajeros,
                     cinta, cargados, embarques, pc_carga>>
  BY DEF RegistrarEquipaje, torre, vuelos, robots, equipajes
<1> DEFINE n == num_vuelo[p]
<1>2. /\ mutex_checkin[p] /\ e \notin EnCurso
      /\ n # SinVuelo /\ e \in DeLosPasajeros(n)
  BY <1>1 DEF RegistroEnCurso
<1>3. /\ n \in Vuelos /\ Abrio(n)
      /\ \A d \in Puestos \ {p} :
           /\ num_vuelo[d] # n
           /\ \A i \in DOMAIN queue_controlador[d] : queue_controlador[d][i].num_vuelo # n
  BY <1>2, UnPuestoPorVuelo
<1>4. /\ cant_equipajes \in [Puestos -> Nat]
      /\ por_registrar \in [Puestos -> SUBSET Valijas]
      /\ queue_controlador \in [Puestos -> Seq(Mensajes)]
      /\ num_vuelo \in [Puestos -> Vuelos \cup {SinVuelo}]
  BY DEF TiposCiclo
<1>5. EnCurso' = EnCurso \cup {e}
  BY <1>1 DEF EnCurso
<1>6. \A v : v # n => e \notin DeLosPasajeros(v)
  BY <1>2, ValijasDeUnVuelo
<1>7. \A v \in Vuelos \ {n} :
        DeLosPasajeros(v) \cap EnCurso' = DeLosPasajeros(v) \cap EnCurso
  BY <1>5, <1>6
<1>8. TiposCiclo'
  BY <1>1 DEF TiposCiclo
<1>9. MutexTipo' /\ CargaEnviada'
  BY <1>1, CargaQuieta DEF MutexTipo
<1>10. PuestosRepartidos' /\ MensajesEnOrden' /\ FinalCoherente' /\ MensajesDelPuesto'
  BY <1>1, MensajesQuietos
<1>11. /\ por_registrar'[p] = por_registrar[p] \ {e}
       /\ \A d \in Puestos \ {p} : por_registrar'[d] = por_registrar[d]
       /\ cant_equipajes'[p] = cant_equipajes[p] + 1
       /\ \A d \in Puestos \ {p} : cant_equipajes'[d] = cant_equipajes[d]
  BY <1>1, <1>4
<1>12. RegistroEnCurso'
  <2>1. ASSUME NEW d \in Puestos, NEW f \in por_registrar'[d]
        PROVE  /\ mutex_checkin[d]
               /\ f \notin EnCurso'
               /\ num_vuelo[d] # SinVuelo
               /\ f \in DeLosPasajeros(num_vuelo[d])
    <3>1. f \in por_registrar[d]
      BY <1>11, <2>1
    <3>2. /\ mutex_checkin[d] /\ f \notin EnCurso
          /\ num_vuelo[d] # SinVuelo /\ f \in DeLosPasajeros(num_vuelo[d])
      BY <3>1 DEF RegistroEnCurso
    <3>3. f # e
      BY <1>3, <1>6, <1>11, <2>1, <3>2
    <3> QED
      BY <1>5, <3>2, <3>3
  <2> QED
    BY <1>1, <2>1 DEF RegistroEnCurso
<1>13. PasajeroConSusValijas'
  <2>1. ASSUME NEW t \in Pasajeros,
               t \in por_llegar \/ \E d \in Puestos : t \in queue_pasajeros[d],
               NEW f \in ValijasDe[t]
        PROVE  f \notin EnCurso' /\ \A d \in Puestos : f \notin por_registrar'[d]
    <3>1. f \notin EnCurso /\ \A d \in Puestos : f \notin por_registrar[d]
      BY <2>1 DEF PasajeroConSusValijas
    <3> QED
      BY <1>1, <1>5, <1>11, <3>1
  <2> QED
    BY <1>1, <2>1 DEF PasajeroConSusValijas
<1>14. AperturaUnica'
  <2>1. \A v \in Vuelos \ {n} : SinRegistrar(v)' <=> SinRegistrar(v)
    BY <1>7 DEF SinRegistrar
  <2>2. \A v \in Vuelos : ~ Abrio(v)' => SinRegistrar(v)'
    BY <1>1, <1>3, <2>1 DEF AperturaUnica, Abrio
  <2>3. ASSUME NEW d \in Puestos, NEW i \in DOMAIN queue_controlador[d],
               queue_controlador[d][i].iniciar_checkin
        PROVE  /\ SinRegistrar(queue_controlador[d][i].num_vuelo)'
               /\ num_vuelo[d] # queue_controlador[d][i].num_vuelo
               /\ \A j \in DOMAIN queue_controlador[d] :
                    /\ queue_controlador[d][j].iniciar_checkin
                    /\ queue_controlador[d][j].num_vuelo = queue_controlador[d][i].num_vuelo
                    => j = i
    <3> DEFINE w == queue_controlador[d][i].num_vuelo
    <3>1. /\ DeLosPasajeros(w) \cap EnCurso = {}
          /\ num_vuelo[d] # w
          /\ \A j \in DOMAIN queue_controlador[d] :
               queue_controlador[d][j].iniciar_checkin /\ queue_controlador[d][j].num_vuelo = w
               => j = i
      BY <2>3 DEF AperturaUnica, SinRegistrar
    <3>2. w # n
      BY <1>3, <3>1
    <3>3. DeLosPasajeros(w) \cap EnCurso' = {}
      BY <1>5, <1>6, <3>1, <3>2
    <3> QED
      BY <1>1, <3>1, <3>3 DEF SinRegistrar
  <2> QED
    BY <1>1, <2>2, <2>3 DEF AperturaUnica, SinRegistrar
<1>15. CuentaAlDia'
  <2>1. ASSUME NEW d \in Puestos, num_vuelo[d] # SinVuelo,
               NEW v \in Vuelos, v = num_vuelo[d]
        PROVE  cant_equipajes'[d] = Cardinality(Registrados(v)')
    <3>1. /\ Registrados(v) = DeLosPasajeros(v) \cap EnCurso
          /\ Registrados(v)' = DeLosPasajeros(v) \cap EnCurso'
      BY RegistradosDelVuelo
    <3>2. cant_equipajes[d] = Cardinality(DeLosPasajeros(v) \cap EnCurso)
      BY <2>1, <3>1 DEF CuentaAlDia
    <3>3. CASE d = p
      <4>1. DeLosPasajeros(v) \cap EnCurso' = (DeLosPasajeros(v) \cap EnCurso) \cup {e}
        BY <1>2, <1>5, <2>1, <3>3
      <4>2. IsFiniteSet(DeLosPasajeros(v) \cap EnCurso)
        BY FS_Subset, SuposicionEquipajes DEF SuposicionEquipajes, DeLosPasajeros
      <4>3. e \notin DeLosPasajeros(v) \cap EnCurso
        BY <1>2
      <4>4. Cardinality(DeLosPasajeros(v) \cap EnCurso') =
              Cardinality(DeLosPasajeros(v) \cap EnCurso) + 1
        BY <4>1, <4>2, <4>3, FS_AddElement
      <4> QED
        BY <1>11, <3>1, <3>2, <3>3, <4>4
    <3>4. CASE d # p
      BY <1>3, <1>7, <1>11, <2>1, <3>1, <3>2, <3>4
    <3> QED
      BY <3>3, <3>4
  <2>2. ASSUME NEW d \in Puestos, num_vuelo'[d] # SinVuelo
        PROVE  cant_equipajes'[d] = Cardinality(Registrados(num_vuelo[d]))'
    <3>1. num_vuelo[d] \in Vuelos /\ num_vuelo[d] # SinVuelo
      BY <1>1, <1>4, <2>2
    <3> QED
      BY <1>1, <2>1, <3>1 DEF Registrados
  <2> QED
    BY <2>2 DEF CuentaAlDia
<1> QED
  BY <1>3, <1>7, <1>8, <1>9, <1>10, <1>12, <1>13, <1>14, <1>15

-----------------------------------------------------------------------------
(* controlador_puesto_checkin *)

(* What obeying the first message does to the desk, with the mutex free:   *)
(* iniciar_checkin finds it closed and cerrar_checkin open for the flight  *)
(* of the message.                                                         *)
LEMMA ObedecerCorrecto ==
  ASSUME InvarianteCheckin, NEW p \in Puestos,
         queue_controlador[p] # <<>>, ~ mutex_checkin[p],
         queue_controlador' = [queue_controlador EXCEPT ![p] = Tail(@)],
         num_vuelo' = [num_vuelo EXCEPT ![p] = Tras(queue_controlador[p][1])],
         UNCHANGED <<puestos_libres, pc_vuelo, puesto, zona, mutex_checkin,
                     por_registrar, queue_pasajeros, por_llegar, EnCurso>>
  PROVE  /\ PuestosRepartidos' /\ MensajesEnOrden' /\ FinalCoherente'
         /\ MensajesDelPuesto' /\ AperturaUnica' /\ RegistroEnCurso'
         /\ PasajeroConSusValijas'
<1> USE DEF InvarianteCheckin
<1> DEFINE q == queue_controlador[p]
           m == q[1]
           n == num_vuelo[p]
<1>1. /\ queue_controlador \in [Puestos -> Seq(Mensajes)]
      /\ num_vuelo \in [Puestos -> Vuelos \cup {SinVuelo}]
      /\ q \in Seq(Mensajes) /\ n \in Vuelos \cup {SinVuelo}
      /\ SinVuelo \notin Vuelos
  BY SuposicionCiclo DEF TiposCiclo, SuposicionCiclo, SinVuelo
<1>2. Encadenada(q, n)
  BY <1>1, OrdenDeCadaPuesto
<1>3. /\ Tail(q) \in Seq(Mensajes)
      /\ Encadenada(Tail(q), Tras(m))
      /\ Final(Tail(q), Tras(m)) = Final(q, n)
      /\ \A i \in DOMAIN Tail(q) : i \in Nat /\ Tail(q)[i] = q[i + 1] /\ i + 1 \in DOMAIN q
      /\ m \in Mensajes /\ 1 \in DOMAIN q
  BY <1>1, <1>2, ObedecerEnOrden
<1>4. m.num_vuelo \in Vuelos /\ Tras(m) \in Vuelos \cup {SinVuelo}
  BY <1>3 DEF Mensajes, Tras
<1>5. /\ queue_controlador' \in [Puestos -> Seq(Mensajes)]
      /\ num_vuelo' \in [Puestos -> Vuelos \cup {SinVuelo}]
      /\ queue_controlador'[p] = Tail(q) /\ num_vuelo'[p] = Tras(m)
      /\ \A d \in Puestos \ {p} : /\ queue_controlador'[d] = queue_controlador[d]
                                  /\ num_vuelo'[d] = num_vuelo[d]
  BY <1>1, <1>3, <1>4
<1> HIDE DEF q, m, n
<1>6. PuestosRepartidos'
  BY DEF PuestosRepartidos, ConPuesto
<1>7. MensajesEnOrden'
  <2>1. ASSUME NEW d \in Puestos PROVE Encadenada(queue_controlador'[d], num_vuelo'[d])
    <3>1. Encadenada(queue_controlador[d], num_vuelo[d])
      BY <1>1, OrdenDeCadaPuesto
    <3>2. CASE d = p
      BY <1>3, <1>5, <3>2
    <3>3. CASE d # p
      BY <1>5, <3>1, <3>3
    <3> QED
      BY <3>2, <3>3
  <2> QED
    BY <1>5, <2>1, OrdenTrasElPaso
<1>8. FinalCoherente'
  <2>1. ASSUME NEW d \in Puestos
        PROVE  Final(queue_controlador[d], num_vuelo[d])' =
                 Final(queue_controlador[d], num_vuelo[d])
    <3>1. CASE d = p
      BY <1>3, <1>5, <3>1 DEF Final, q, n
    <3>2. CASE d # p
      BY <1>5, <3>2 DEF Final
    <3> QED
      BY <3>1, <3>2
  <2> QED
    BY <2>1 DEF FinalCoherente
<1>9. MensajesDelPuesto'
  <2>1. ASSUME NEW d \in Puestos, NEW i \in DOMAIN queue_controlador'[d]
        PROVE  /\ Abrio(queue_controlador'[d][i].num_vuelo)
               /\ puesto[queue_controlador'[d][i].num_vuelo] = d
    <3>1. CASE d = p
      <4>1. i + 1 \in DOMAIN queue_controlador[p] /\
            queue_controlador'[d][i] = queue_controlador[p][i + 1]
        BY <1>3, <1>5, <2>1, <3>1 DEF q
      <4> QED
        BY <3>1, <4>1 DEF MensajesDelPuesto
    <3>2. CASE d # p
      BY <1>5, <2>1, <3>2 DEF MensajesDelPuesto
    <3> QED
      BY <3>1, <3>2
  <2>2. ASSUME NEW d \in Puestos, num_vuelo'[d] # SinVuelo
        PROVE  Abrio(num_vuelo'[d]) /\ puesto[num_vuelo'[d]] = d
    <3>1. CASE d = p
      <4>1. num_vuelo'[d] = queue_controlador[p][1].num_vuelo
        BY <1>5, <2>2, <3>1 DEF Tras, m, q
      <4> QED
        BY <1>3, <3>1, <4>1 DEF MensajesDelPuesto, q
    <3>2. CASE d # p
      BY <1>5, <2>2, <3>2 DEF MensajesDelPuesto
    <3> QED
      BY <3>1, <3>2
  <2> QED
    BY <2>1, <2>2 DEF MensajesDelPuesto, Abrio
<1>10. AperturaUnica'
  <2>1. ASSUME NEW d \in Puestos, NEW i \in DOMAIN queue_controlador'[d],
               queue_controlador'[d][i].iniciar_checkin
        PROVE  /\ SinRegistrar(queue_controlador'[d][i].num_vuelo)
               /\ num_vuelo'[d] # queue_controlador'[d][i].num_vuelo
               /\ \A j \in DOMAIN queue_controlador'[d] :
                    /\ queue_controlador'[d][j].iniciar_checkin
                    /\ queue_controlador'[d][j].num_vuelo = queue_controlador'[d][i].num_vuelo
                    => j = i
    <3>1. CASE d = p
      <4>1. /\ i \in Nat /\ i + 1 \in DOMAIN q /\ Tail(q)[i] = q[i + 1]
            /\ queue_controlador'[d] = Tail(q) /\ q[i + 1].iniciar_checkin
        BY <1>3, <1>5, <2>1, <3>1
      <4>2. /\ SinRegistrar(q[i + 1].num_vuelo)
            /\ \A j \in DOMAIN q :
                 q[j].iniciar_checkin /\ q[j].num_vuelo = q[i + 1].num_vuelo => j = i + 1
        BY <4>1 DEF AperturaUnica, q
      <4>3. \A j \in DOMAIN Tail(q) :
              Tail(q)[j].iniciar_checkin /\ Tail(q)[j].num_vuelo = Tail(q)[i].num_vuelo => j = i
        <5>1. ASSUME NEW j \in DOMAIN Tail(q), Tail(q)[j].iniciar_checkin,
                     Tail(q)[j].num_vuelo = Tail(q)[i].num_vuelo
              PROVE  j + 1 = i + 1
          BY <1>3, <4>1, <4>2, <5>1
        <5> QED
          BY <1>3, <4>1, <5>1
      <4>4. m.iniciar_checkin => m.num_vuelo # q[i + 1].num_vuelo
        <5>1. 1 # i + 1
          BY <1>3, <1>5, <2>1, <3>1, <4>1
        <5> QED
          BY <1>3, <4>2, <5>1 DEF m
      <4>5. q[i + 1].num_vuelo \in Vuelos
        BY <1>1, <4>1, MensajesDeCola
      <4>6. Tras(m) # q[i + 1].num_vuelo
        BY <1>1, <4>4, <4>5 DEF Tras
      <4>7. num_vuelo'[d] # queue_controlador'[d][i].num_vuelo
        BY <1>5, <3>1, <4>1, <4>6
      <4>8. queue_controlador'[d][i].num_vuelo = q[i + 1].num_vuelo
        BY <4>1
      <4>9. \A j \in DOMAIN queue_controlador'[d] :
              /\ queue_controlador'[d][j].iniciar_checkin
              /\ queue_controlador'[d][j].num_vuelo = queue_controlador'[d][i].num_vuelo
              => j = i
        BY <4>1, <4>3
      <4> QED
        BY <4>2, <4>7, <4>8, <4>9
    <3>2. CASE d # p
      BY <1>5, <2>1, <3>2 DEF AperturaUnica
    <3> QED
      BY <3>1, <3>2
  <2>2. \A v \in Vuelos : ~ Abrio(v) => SinRegistrar(v)
    BY DEF AperturaUnica
  <2> QED
    BY <2>1, <2>2 DEF AperturaUnica, SinRegistrar, Abrio
<1>11. RegistroEnCurso'
  <2>1. por_registrar[p] = {}
    BY DEF RegistroEnCurso
  <2> QED
    BY <1>5, <2>1 DEF RegistroEnCurso
<1>12. PasajeroConSusValijas'
  BY DEF PasajeroConSusValijas
<1> QED
  BY <1>6, <1>7, <1>8, <1>9, <1>10, <1>11, <1>12

(* iniciar_checkin: the count starts at zero, and nothing of the flight    *)
(* was ever registered.                                                    *)
LEMMA AbrirPuestoCorrecto ==
  ASSUME InvarianteCheckin, NEW p \in Puestos, AbrirPuesto(p)
  PROVE  InvarianteCheckin' /\ NadaNuevo
<1> USE DEF InvarianteCheckin
<1> DEFINE q == queue_controlador[p]
           v == q[1].num_vuelo
<1>1. /\ queue_controlador \in [Puestos -> Seq(Mensajes)]
      /\ num_vuelo \in [Puestos -> Vuelos \cup {SinVuelo}]
      /\ cant_equipajes \in [Puestos -> Nat]
      /\ q \in Seq(Mensajes) /\ q # <<>>
  BY DEF TiposCiclo, AbrirPuesto
<1>2. Encadenada(q, num_vuelo[p])
  BY <1>1, OrdenDeCadaPuesto
<1>3. Head(q) = q[1] /\ 1 \in DOMAIN q /\ v \in Vuelos /\ q[1].iniciar_checkin
      /\ Tail(q) \in Seq(Mensajes)
  BY <1>1, MensajesDeCola DEF AbrirPuesto
<1>4. num_vuelo[p] = SinVuelo /\ Tras(q[1]) = v
  BY <1>1, <1>2, <1>3 DEF Encadenada, Tras
<1>5. /\ ~ mutex_checkin[p]
      /\ num_vuelo' = [num_vuelo EXCEPT ![p] = Tras(q[1])]
      /\ cant_equipajes' = [cant_equipajes EXCEPT ![p] = 0]
      /\ cant_intercargo' = [cant_intercargo EXCEPT ![p] = Cardinality(Trasbordo[v])]
      /\ queue_controlador' = [queue_controlador EXCEPT ![p] = Tail(@)]
  BY <1>3, <1>4 DEF AbrirPuesto
<1>6. /\ UNCHANGED <<puestos_libres, zonas_libres, pc_vuelo, puesto, zona, mutex_checkin>>
      /\ UNCHANGED <<por_llegar, cola_aviso, perdidos, en_camino, queue_pasajeros,
                     por_registrar, cinta, cargados, embarques, pc_carga>>
  BY DEF AbrirPuesto, torre, vuelos, robots, equipajes
<1> HIDE DEF q, v
<1>7. EnCurso' = EnCurso /\ NadaNuevo
  BY <1>6, ValijasQuietas
<1>8. /\ PuestosRepartidos' /\ MensajesEnOrden' /\ FinalCoherente'
      /\ MensajesDelPuesto' /\ AperturaUnica' /\ RegistroEnCurso'
      /\ PasajeroConSusValijas'
  BY <1>1, <1>5, <1>6, <1>7, ObedecerCorrecto DEF q
<1>9. TiposCiclo'
  <2>1. IsFiniteSet(Trasbordo[v])
    <3>1. Trasbordo[v] \subseteq Valijas
      BY <1>3 DEF Valijas
    <3> QED
      BY <3>1, FS_Subset, SuposicionEquipajes DEF SuposicionEquipajes
  <2>2. Cardinality(Trasbordo[v]) \in Nat
    BY <2>1, FS_CardinalityType
  <2>3. /\ cant_intercargo' \in [Puestos -> Nat]
        /\ cant_equipajes' \in [Puestos -> Nat]
    BY <1>5, <2>2 DEF TiposCiclo
  <2>4. /\ num_vuelo' \in [Puestos -> Vuelos \cup {SinVuelo}]
        /\ queue_controlador' \in [Puestos -> Seq(Mensajes)]
    BY <1>1, <1>3, <1>4, <1>5 DEF q
  <2> QED
    BY <1>6, <2>3, <2>4 DEF TiposCiclo
<1>10. MutexTipo' /\ CargaEnviada'
  BY <1>6, CargaQuieta DEF MutexTipo
<1>11. CuentaAlDia'
  <2>1. SinRegistrar(v)
    BY <1>3 DEF AperturaUnica, q, v
  <2>2. ASSUME NEW d \in Puestos, num_vuelo'[d] # SinVuelo,
               NEW w \in Vuelos, w = num_vuelo'[d]
        PROVE  cant_equipajes'[d] = Cardinality(Registrados(w)')
    <3>1. /\ Registrados(w) = DeLosPasajeros(w) \cap EnCurso
          /\ Registrados(w)' = DeLosPasajeros(w) \cap EnCurso'
      BY RegistradosDelVuelo
    <3>2. CASE d = p
      <4>1. w = v /\ cant_equipajes'[d] = 0
        BY <1>1, <1>4, <1>5, <2>2, <3>2
      <4>2. Registrados(w)' = {}
        BY <1>7, <2>1, <3>1, <4>1 DEF SinRegistrar
      <4> QED
        BY <4>1, <4>2, FS_EmptySet
    <3>3. CASE d # p
      BY <1>1, <1>5, <1>7, <2>2, <3>1, <3>3 DEF CuentaAlDia
    <3> QED
      BY <3>2, <3>3
  <2>3. ASSUME NEW d \in Puestos, num_vuelo'[d] # SinVuelo
        PROVE  cant_equipajes'[d] = Cardinality(Registrados(num_vuelo[d]))'
    <3>1. num_vuelo'[d] \in Vuelos
      BY <1>9, <2>3 DEF TiposCiclo
    <3> QED
      BY <2>2, <2>3, <3>1 DEF Registrados
  <2> QED
    BY <2>3 DEF CuentaAlDia
<1> QED
  BY <1>7, <1>8, <1>9, <1>10, <1>11

(* cerrar_checkin and cargar_equipajes: the total goes to the zone of the  *)
(* message.                                                                *)
LEMMA CerrarPuestoCorrecto ==
  ASSUME InvarianteCheckin, NEW p \in Puestos, CerrarPuesto(p)
  PROVE  InvarianteCheckin' /\ NadaNuevo
<1> USE DEF InvarianteCheckin
<1> DEFINE q == queue_controlador[p]
           z == q[1].num_zona
<1>1. /\ queue_controlador \in [Puestos -> Seq(Mensajes)]
      /\ num_vuelo \in [Puestos -> Vuelos \cup {SinVuelo}]
      /\ cant_equipajes[p] + cant_intercargo[p] \in Nat
      /\ cola_aviso \in [Zonas -> Seq(Nat)]
      /\ q \in Seq(Mensajes) /\ q # <<>>
  BY DEF TiposCiclo, CerrarPuesto
<1>2. Head(q) = q[1] /\ 1 \in DOMAIN q /\ z \in Zonas /\ ~ q[1].iniciar_checkin
      /\ Tail(q) \in Seq(Mensajes)
  BY <1>1, MensajesDeCola DEF CerrarPuesto
<1>3. /\ ~ mutex_checkin[p]
      /\ num_vuelo' = [num_vuelo EXCEPT ![p] = SinVuelo]
      /\ cola_aviso' = [cola_aviso EXCEPT ![z] =
                          Append(@, cant_equipajes[p] + cant_intercargo[p])]
      /\ queue_controlador' = [queue_controlador EXCEPT ![p] = Tail(@)]
  BY <1>2 DEF CerrarPuesto
<1>4. /\ UNCHANGED <<puestos_libres, zonas_libres, pc_vuelo, puesto, zona, mutex_checkin,
                     cant_equipajes, cant_intercargo>>
      /\ UNCHANGED <<por_llegar, perdidos, en_camino, queue_pasajeros,
                     por_registrar, cinta, cargados, embarques, pc_carga>>
  BY DEF CerrarPuesto, torre, vuelos, robots, equipajes
<1>5. Tras(q[1]) = SinVuelo
  BY <1>2 DEF Tras
<1> HIDE DEF q, z
<1>6. EnCurso' = EnCurso /\ NadaNuevo
  BY <1>4, ValijasQuietas
<1>7. /\ PuestosRepartidos' /\ MensajesEnOrden' /\ FinalCoherente'
      /\ MensajesDelPuesto' /\ AperturaUnica' /\ RegistroEnCurso'
      /\ PasajeroConSusValijas'
  BY <1>1, <1>3, <1>4, <1>5, <1>6, ObedecerCorrecto DEF q
<1>8. TiposCiclo'
  <2>1. /\ num_vuelo' \in [Puestos -> Vuelos \cup {SinVuelo}]
        /\ queue_controlador' \in [Puestos -> Seq(Mensajes)]
    BY <1>1, <1>2, <1>3 DEF q
  <2>2. cola_aviso' \in [Zonas -> Seq(Nat)]
    BY <1>1, <1>2, <1>3
  <2> QED
    BY <1>4, <2>1, <2>2 DEF TiposCiclo
<1>9. MutexTipo' /\ CargaEnviada'
  BY <1>4, CargaQuieta DEF MutexTipo
<1>10. CuentaAlDia'
  <2>1. ASSUME NEW d \in Puestos, num_vuelo'[d] # SinVuelo,
               NEW w \in Vuelos, w = num_vuelo'[d]
        PROVE  cant_equipajes'[d] = Cardinality(Registrados(w)')
    <3>1. /\ Registrados(w) = DeLosPasajeros(w) \cap EnCurso
          /\ Registrados(w)' = DeLosPasajeros(w) \cap EnCurso'
      BY RegistradosDelVuelo
    <3>2. d # p
      BY <1>1, <1>3, <2>1
    <3> QED
      BY <1>1, <1>3, <1>4, <1>6, <2>1, <3>1, <3>2 DEF CuentaAlDia
  <2>2. ASSUME NEW d \in Puestos, num_vuelo'[d] # SinVuelo
        PROVE  cant_equipajes'[d] = Cardinality(Registrados(num_vuelo[d]))'
    <3>1. num_vuelo'[d] \in Vuelos
      BY <1>8, <2>2 DEF TiposCiclo
    <3> QED
      BY <2>1, <2>2, <3>1 DEF Registrados
  <2> QED
    BY <2>2 DEF CuentaAlDia
<1> QED
  BY <1>6, <1>7, <1>8, <1>9, <1>10

-----------------------------------------------------------------------------
(* From the desks to the loads *)

(* The operations of a container belt: a bag goes to the end, the first    *)
(* one comes out, and the notices leave the bags alone.                    *)
LEMMA OperacionesDeCinta ==
  ASSUME NEW c \in Cintas
  PROVE  /\ c.cola \in Seq(Valijas) /\ c.total \in Nat
         /\ \A e \in Valijas :
              /\ ConEquipaje(c, e) \in Cintas
              /\ ToSet(ConEquipaje(c, e).cola) = ToSet(c.cola) \cup {e}
         /\ c.cola # <<>> =>
              /\ SinPrimero(c) \in Cintas
              /\ Head(c.cola) \in Valijas
              /\ ToSet(c.cola) = ToSet(SinPrimero(c).cola) \cup {Head(c.cola)}
         /\ \A n \in Nat : ConAviso(c, n) \in Cintas /\ ConAviso(c, n).cola = c.cola
         /\ ConAvisoAtendido(c) \in Cintas /\ ConAvisoAtendido(c).cola = c.cola
         /\ ParaNuevaCarga(c) \in Cintas /\ ParaNuevaCarga(c).cola = c.cola
<1>1. c.cola \in Seq(Valijas) /\ c.total \in Nat
  BY DEF Cintas
<1>2. ASSUME NEW e \in Valijas
      PROVE  /\ ConEquipaje(c, e) \in Cintas
             /\ ToSet(ConEquipaje(c, e).cola) = ToSet(c.cola) \cup {e}
  <2>1. ConEquipaje(c, e) \in Cintas /\ ConEquipaje(c, e).cola = Append(c.cola, e)
    BY SMTT(30) DEF ConEquipaje, Cintas
  <2>2. ToSet(Append(c.cola, e)) = ToSet(c.cola) \cup {e}
    <3> DEFINE q == c.cola
               r == Append(q, e)
    <3>1. /\ Len(q) \in Nat /\ DOMAIN q = 1..Len(q) /\ DOMAIN r = 1..Len(q) + 1
          /\ \A i \in 1..Len(q) : r[i] = q[i]
          /\ r[Len(q) + 1] = e
      BY <1>1
    <3> HIDE DEF q, r
    <3>2. ToSet(q) \cup {e} \subseteq ToSet(r)
      BY <3>1 DEF ToSet
    <3>3. \A i \in DOMAIN r : i \in DOMAIN q \/ i = Len(q) + 1
      BY <3>1
    <3>4. ToSet(r) \subseteq ToSet(q) \cup {e}
      BY <3>1, <3>3 DEF ToSet
    <3> QED
      BY <3>2, <3>4 DEF q, r
  <2> QED
    BY <2>1, <2>2
<1>3. ASSUME c.cola # <<>>
      PROVE  /\ SinPrimero(c) \in Cintas
             /\ Head(c.cola) \in Valijas
             /\ ToSet(c.cola) = ToSet(SinPrimero(c).cola) \cup {Head(c.cola)}
  <2>1. Tail(c.cola) \in Seq(Valijas) /\ Head(c.cola) \in Valijas
    BY <1>1, <1>3
  <2>2. SinPrimero(c) \in Cintas /\ SinPrimero(c).cola = Tail(c.cola)
    BY <2>1 DEF SinPrimero, Cintas
  <2>3. ToSet(c.cola) = ToSet(Tail(c.cola)) \cup {Head(c.cola)}
    <3> DEFINE q == c.cola
               r == Tail(q)
    <3>1. /\ Len(q) \in Nat /\ Len(q) > 0 /\ DOMAIN q = 1..Len(q) /\ DOMAIN r = 1..Len(q) - 1
          /\ \A i \in 1..Len(q) - 1 : r[i] = q[i + 1]
          /\ Head(q) = q[1]
      BY <1>1, <1>3
    <3> HIDE DEF q, r
    <3>2. \A i \in DOMAIN r : i + 1 \in DOMAIN q /\ r[i] = q[i + 1]
      BY <3>1
    <3>3. \A i \in DOMAIN q : i = 1 \/ (i - 1 \in DOMAIN r /\ r[i - 1] = q[i])
      BY <3>1
    <3>4. 1 \in DOMAIN q
      BY <3>1
    <3>5. ToSet(r) \cup {Head(q)} \subseteq ToSet(q)
      BY <3>1, <3>2, <3>4 DEF ToSet
    <3>6. ToSet(q) \subseteq ToSet(r) \cup {Head(q)}
      BY <3>1, <3>3 DEF ToSet
    <3> QED
      BY <3>5, <3>6 DEF q, r
  <2> QED
    BY <2>1, <2>2, <2>3
<1>4. \A n \in Nat : ConAviso(c, n) \in Cintas /\ ConAviso(c, n).cola = c.cola
  BY DEF ConAviso, Cintas
<1>5. ConAvisoAtendido(c) \in Cintas /\ ConAvisoAtendido(c).cola = c.cola
  BY DEF ConAvisoAtendido, Cintas
<1>6. ParaNuevaCarga(c) \in Cintas /\ ParaNuevaCarga(c).cola = c.cola
  BY DEF ParaNuevaCarga, Cintas
<1> QED
  BY <1>1, <1>2, <1>3, <1>4, <1>5, <1>6

(* A step of the belts and the robots loses no bag of sight and changes    *)
(* nothing of the check-in.                                                *)
LEMMA MoverCorrecto ==
  ASSUME InvarianteCheckin, EnCurso' = EnCurso, TiposCiclo', CargaEnviada',
         UNCHANGED <<puestos_libres, vuelos, puestos, por_llegar>>
  PROVE  InvarianteCheckin' /\ NadaNuevo
<1>1. UNCHANGED <<pc_vuelo, puesto, zona, num_vuelo, queue_controlador, cant_equipajes,
                  mutex_checkin, por_registrar, queue_pasajeros>>
  BY DEF vuelos, puestos
<1>2. NadaNuevo
  BY DEF NadaNuevo
<1>3. RegistroEnCurso' /\ PasajeroConSusValijas'
  BY <1>1, <1>2, RegistroQuieto DEF InvarianteCheckin
<1>4. MutexTipo'
  BY <1>1 DEF MutexTipo, InvarianteCheckin
<1> QED
  BY <1>1, <1>2, <1>3, <1>4, SinRegistro

(* A bag on its way gets to a belt or is lost, and stays registered.       *)
LEMMA LlegaACintaCorrecto ==
  ASSUME InvarianteCheckin, NEW e \in Valijas, LlegaACinta(e)
  PROVE  InvarianteCheckin' /\ NadaNuevo
<1> USE DEF InvarianteCheckin
<1> DEFINE z == ZonaInformada(VueloDe(e))
<1>1. /\ e \in en_camino /\ en_camino' = en_camino \ {e} /\ z \in Zonas \cup {SinZona}
      /\ IF z = SinZona
         THEN perdidos' = perdidos \cup {e} /\ UNCHANGED cinta
         ELSE cinta' = [cinta EXCEPT ![z] = ConEquipaje(@, e)] /\ UNCHANGED perdidos
      /\ UNCHANGED <<puestos_libres, vuelos, puestos, por_llegar>>
      /\ UNCHANGED <<zonas_libres, cola_aviso, cargados, embarques, pc_carga>>
  BY DEF LlegaACinta, torre, robots
<1> HIDE DEF z
<1>2. cinta \in [Zonas -> Cintas]
  BY DEF TiposCiclo
<1>3. CargaEnviada'
  BY <1>1, CargaQuieta
<1>4. CASE z = SinZona
  <2>1. TiposCiclo'
    BY <1>1, <1>4 DEF TiposCiclo, vuelos, puestos
  <2>2. EnCurso' = EnCurso
    BY <1>1, <1>4 DEF EnCurso
  <2> QED
    BY <1>1, <1>3, <2>1, <2>2, MoverCorrecto
<1>5. CASE z # SinZona
  <2>1. z \in Zonas /\ cinta' = [cinta EXCEPT ![z] = ConEquipaje(@, e)] /\ perdidos' = perdidos
    BY <1>1, <1>5
  <2>2. /\ ConEquipaje(cinta[z], e) \in Cintas
        /\ ToSet(ConEquipaje(cinta[z], e).cola) = ToSet(cinta[z].cola) \cup {e}
    BY <1>2, <2>1, OperacionesDeCinta
  <2>3. /\ cinta' \in [Zonas -> Cintas]
        /\ ToSet(cinta'[z].cola) = ToSet(cinta[z].cola) \cup {e}
        /\ \A y \in Zonas \ {z} : cinta'[y] = cinta[y]
    BY <1>2, <2>1, <2>2
  <2>4. TiposCiclo'
    BY <1>1, <2>3 DEF TiposCiclo, vuelos, puestos
  <2>5. EnCurso' = EnCurso
    <3>1. \A f \in Valijas \ {e} : \A y \in Zonas :
            f \in ToSet(cinta'[y].cola) <=> f \in ToSet(cinta[y].cola)
      BY <2>3
    <3>2. e \in ToSet(cinta'[z].cola)
      BY <2>3
    <3>3. e \in EnCurso /\ e \in EnCurso'
      BY <1>1, <2>1, <3>2 DEF EnCurso
    <3>4. \A f \in Valijas \ {e} : f \in EnCurso' <=> f \in EnCurso
      BY <1>1, <2>1, <3>1 DEF EnCurso
    <3>5. EnCurso \subseteq Valijas /\ EnCurso' \subseteq Valijas
      BY DEF EnCurso
    <3> QED
      BY <3>3, <3>4, <3>5
  <2> QED
    BY <1>1, <1>3, <2>4, <2>5, MoverCorrecto
<1> QED
  BY <1>4, <1>5

(* A step of control_carga_contenedores or robot_carga after which every   *)
(* bag is in the same zone, on its belt or loaded, and none is sent off.   *)
LEMMA ZonaCorrecta ==
  ASSUME InvarianteCheckin, NEW z \in Zonas,
         NEW c \in Cintas, cinta' = [cinta EXCEPT ![z] = c],
         NEW b \in SUBSET Valijas, cargados' = [cargados EXCEPT ![z] = b],
         ToSet(c.cola) \cup b = ToSet(cinta[z].cola) \cup cargados[z],
         zonas_libres' \in Seq(Zonas), cola_aviso' \in [Zonas -> Seq(Nat)],
         pc_carga' \in [Zonas -> PasosDeCarga], CargaEnviada',
         UNCHANGED <<puestos_libres, vuelos, puestos, equipajes, embarques>>
  PROVE  InvarianteCheckin' /\ NadaNuevo
<1> USE DEF InvarianteCheckin
<1>1. /\ cinta \in [Zonas -> Cintas] /\ cargados \in [Zonas -> SUBSET Valijas]
      /\ UNCHANGED <<en_camino, perdidos, por_llegar>>
  BY DEF TiposCiclo, equipajes
<1>2. /\ cinta' \in [Zonas -> Cintas] /\ cargados' \in [Zonas -> SUBSET Valijas]
      /\ \A y \in Zonas : ToSet(cinta'[y].cola) \cup cargados'[y] =
                          ToSet(cinta[y].cola) \cup cargados[y]
  <2>1. cinta' \in [Zonas -> Cintas] /\ cargados' \in [Zonas -> SUBSET Valijas]
    BY <1>1
  <2>2. cinta'[z] = c /\ cargados'[z] = b
    BY <1>1
  <2>3. \A y \in Zonas \ {z} : cinta'[y] = cinta[y] /\ cargados'[y] = cargados[y]
    BY <1>1
  <2> QED
    BY <2>1, <2>2, <2>3
<1>3. TiposCiclo'
  BY <1>1, <1>2 DEF TiposCiclo, vuelos, puestos
<1>4. EnCurso' = EnCurso
  BY <1>1, <1>2 DEF EnCurso
<1> QED
  BY <1>1, <1>3, <1>4, MoverCorrecto

(* informar_cierre_checkin *)
LEMMA AvisarCierreCorrecto ==
  ASSUME InvarianteCheckin, NEW z \in Zonas, AvisarCierre(z)
  PROVE  InvarianteCheckin' /\ NadaNuevo
<1> DEFINE n == Head(cola_aviso[z])
           c == ConAviso(cinta[z], n)
<1>1. /\ cinta \in [Zonas -> Cintas] /\ cargados \in [Zonas -> SUBSET Valijas]
      /\ cola_aviso \in [Zonas -> Seq(Nat)] /\ zonas_libres \in Seq(Zonas)
      /\ cola_aviso[z] # <<>> /\ pc_carga \in [Zonas -> PasosDeCarga]
  BY DEF InvarianteCheckin, TiposCiclo, AvisarCierre
<1>2. n \in Nat /\ Tail(cola_aviso[z]) \in Seq(Nat)
  BY <1>1
<1>3. c \in Cintas /\ c.cola = cinta[z].cola
  BY <1>1, <1>2, OperacionesDeCinta
<1>4. /\ cinta' = [cinta EXCEPT ![z] = c]
      /\ cargados' = [cargados EXCEPT ![z] = cargados[z]]
      /\ cola_aviso' \in [Zonas -> Seq(Nat)]
      /\ UNCHANGED <<puestos_libres, vuelos, puestos, equipajes, embarques, pc_carga,
                     zonas_libres, cargados>>
  BY <1>1, <1>2 DEF AvisarCierre, torre, robots
<1>5. CargaEnviada'
  BY <1>4, CargaQuieta DEF InvarianteCheckin
<1> HIDE DEF c
<1> QED
  BY <1>1, <1>3, <1>4, <1>5, ZonaCorrecta

(* robot_carga: the bag that comes out is loaded; what was loaded is only  *)
(* forgotten (comenzar_nueva_carga) once it was sent.                      *)
LEMMA PasoCargaCorrecto ==
  ASSUME InvarianteCheckin, NEW z \in Zonas, PasoCarga(z)
  PROVE  InvarianteCheckin' /\ NadaNuevo
<1>1. /\ cinta \in [Zonas -> Cintas] /\ cargados \in [Zonas -> SUBSET Valijas]
      /\ cola_aviso \in [Zonas -> Seq(Nat)] /\ zonas_libres \in Seq(Zonas)
      /\ cinta[z] \in Cintas
      /\ cinta' = cinta => cinta' = [cinta EXCEPT ![z] = cinta[z]]
      /\ cargados' = cargados => cargados' = [cargados EXCEPT ![z] = cargados[z]]
  BY DEF InvarianteCheckin, TiposCiclo
<1>2. CargaEnviada /\ pc_carga \in [Zonas -> PasosDeCarga]
  BY DEF InvarianteCheckin, TiposCiclo
<1> USE DEF PasosDeCarga
<1>3. CASE SacarEquipaje(z)
  <2> DEFINE c == SinPrimero(cinta[z])
             e == Head(cinta[z].cola)
             b == cargados[z] \cup {e}
  <2>1. c \in Cintas /\ e \in Valijas /\ ToSet(cinta[z].cola) = ToSet(c.cola) \cup {e}
    BY <1>1, <1>3, OperacionesDeCinta DEF SacarEquipaje
  <2>2. /\ cinta' = [cinta EXCEPT ![z] = c] /\ cargados' = [cargados EXCEPT ![z] = b]
        /\ UNCHANGED <<puestos_libres, vuelos, puestos, equipajes, embarques, zonas_libres,
                       cola_aviso>>
        /\ pc_carga[z] = "sacar"
        /\ pc_carga' = [pc_carga EXCEPT ![z] = "desasignar"] \/ pc_carga' = pc_carga
    BY <1>3 DEF SacarEquipaje, torre, IrA
  <2> HIDE DEF c, e
  <2>3. CargaEnviada'
    <3> SUFFICES ASSUME NEW y \in Zonas, pc_carga'[y] \in {"liberar", "reiniciar"}
                 PROVE  \E x \in embarques : x[2] = cargados'[y]
      BY <2>2 DEF CargaEnviada
    <3>1. y # z /\ pc_carga[y] = pc_carga'[y]
      BY <1>2, <2>2
    <3> QED
      BY <1>1, <1>2, <2>2, <3>1 DEF CargaEnviada
  <2>4. ToSet(c.cola) \cup b = ToSet(cinta[z].cola) \cup cargados[z]
    BY <2>1
  <2>5. b \in SUBSET Valijas /\ pc_carga' \in [Zonas -> PasosDeCarga]
    BY <1>1, <1>2, <2>1, <2>2
  <2> HIDE DEF b
  <2> QED
    BY <1>1, <2>1, <2>2, <2>3, <2>4, <2>5, ZonaCorrecta
<1>4. CASE SacarAviso(z)
  <2> DEFINE c == ConAvisoAtendido(cinta[z])
  <2>1. c \in Cintas /\ c.cola = cinta[z].cola
    BY <1>1, OperacionesDeCinta
  <2>2. /\ cinta' = [cinta EXCEPT ![z] = c]
        /\ UNCHANGED <<puestos_libres, vuelos, puestos, equipajes, embarques, zonas_libres,
                       cola_aviso, cargados>>
        /\ pc_carga' = [pc_carga EXCEPT ![z] = "leer_total"]
    BY <1>4 DEF SacarAviso, torre, IrA
  <2>3. CargaEnviada' /\ pc_carga' \in [Zonas -> PasosDeCarga]
    BY <1>2, <2>2 DEF CargaEnviada
  <2> HIDE DEF c
  <2> QED
    BY <1>1, <2>1, <2>2, <2>3, ZonaCorrecta
<1>5. CASE LeerTotal(z)
  <2>1. /\ UNCHANGED <<puestos_libres, vuelos, puestos, equipajes, embarques, zonas_libres,
                       cola_aviso, cargados, cinta>>
        /\ \/ pc_carga' = [pc_carga EXCEPT ![z] = "desasignar"]
           \/ pc_carga' = [pc_carga EXCEPT ![z] = "sacar"]
    BY <1>5 DEF LeerTotal, torre, IrA
  <2>2. CargaEnviada' /\ pc_carga' \in [Zonas -> PasosDeCarga]
    BY <1>2, <2>1 DEF CargaEnviada
  <2> QED
    BY <1>1, <2>1, <2>2, ZonaCorrecta
<1>6. CASE Desasignar(z)
  <2>1. /\ UNCHANGED <<puestos_libres, vuelos, puestos, equipajes, embarques, zonas_libres,
                       cola_aviso, cargados, cinta>>
        /\ pc_carga' = [pc_carga EXCEPT ![z] = "enviar"]
    BY <1>6 DEF Desasignar, torre, IrA
  <2>2. CargaEnviada' /\ pc_carga' \in [Zonas -> PasosDeCarga]
    BY <1>2, <2>1 DEF CargaEnviada
  <2> QED
    BY <1>1, <2>1, <2>2, ZonaCorrecta
<1>7. CASE EnviarContenedores(z)
  <2>1. /\ UNCHANGED <<puestos_libres, vuelos, puestos, equipajes, zonas_libres,
                       cola_aviso, cargados, cinta>>
        /\ pc_carga' = [pc_carga EXCEPT ![z] = "liberar"]
        /\ embarques' = embarques \cup {<<numero_de_vuelo[z], cargados[z]>>}
    BY <1>7 DEF EnviarContenedores, torre, IrA
  <2>2. <<numero_de_vuelo[z], cargados[z]>>[2] = cargados[z]
    OBVIOUS
  <2>3. CargaEnviada' /\ pc_carga' \in [Zonas -> PasosDeCarga]
    BY <1>2, <2>1, <2>2 DEF CargaEnviada
  <2>4. EnCurso' = EnCurso
    <3>1. UNCHANGED <<en_camino, perdidos>>
      BY <2>1 DEF equipajes
    <3> QED
      BY <2>1, <2>2, <3>1 DEF EnCurso
  <2>5. TiposCiclo'
    BY <2>1, <2>3 DEF InvarianteCheckin, TiposCiclo, vuelos, puestos, equipajes
  <2> QED
    BY <2>1, <2>3, <2>4, <2>5, MoverCorrecto DEF equipajes
<1>8. CASE LiberarZona(z)
  <2>1. /\ UNCHANGED <<puestos_libres, vuelos, puestos, equipajes, embarques,
                       cola_aviso, cargados, cinta>>
        /\ zonas_libres' = Append(zonas_libres, z)
        /\ pc_carga[z] = "liberar"
        /\ pc_carga' = [pc_carga EXCEPT ![z] = "reiniciar"]
    BY <1>8 DEF LiberarZona, torre, IrA
  <2>2. CargaEnviada' /\ pc_carga' \in [Zonas -> PasosDeCarga]
    BY <1>2, <2>1 DEF CargaEnviada
  <2>3. zonas_libres' \in Seq(Zonas)
    BY <1>1, <2>1
  <2> QED
    BY <1>1, <2>1, <2>2, <2>3, ZonaCorrecta
<1>9. CASE ComenzarNuevaCarga(z)
  <2> DEFINE c == ParaNuevaCarga(cinta[z])
  <2>1. c \in Cintas /\ c.cola = cinta[z].cola
    BY <1>1, OperacionesDeCinta
  <2>2. /\ cinta' = [cinta EXCEPT ![z] = c] /\ cargados' = [cargados EXCEPT ![z] = {}]
        /\ UNCHANGED <<puestos_libres, vuelos, puestos, equipajes, embarques, zonas_libres,
                       cola_aviso>>
        /\ pc_carga[z] = "reiniciar"
        /\ pc_carga' = [pc_carga EXCEPT ![z] = "sacar"]
    BY <1>9 DEF ComenzarNuevaCarga, torre, IrA
  <2> HIDE DEF c
  <2>3. CargaEnviada' /\ pc_carga' \in [Zonas -> PasosDeCarga]
    BY <1>1, <1>2, <2>2 DEF CargaEnviada
  <2>4. EnCurso' = EnCurso
    <3>1. UNCHANGED <<en_camino, perdidos>>
      BY <2>2 DEF equipajes
    <3>2. PICK x \in embarques : x[2] = cargados[z]
      BY <1>2, <2>2 DEF CargaEnviada
    <3>3. \A y \in Zonas : cinta'[y].cola = cinta[y].cola
      BY <1>1, <2>1, <2>2
    <3>4. cargados'[z] = {} /\ \A y \in Zonas \ {z} : cargados'[y] = cargados[y]
      BY <1>1, <2>2
    <3>5. EnCurso' \subseteq EnCurso
      BY <2>2, <3>1, <3>3, <3>4 DEF EnCurso
    <3>6. EnCurso \subseteq EnCurso'
      BY <2>2, <3>1, <3>2, <3>3, <3>4 DEF EnCurso
    <3> QED
      BY <3>5, <3>6
  <2>5. TiposCiclo'
    <3>1. cinta' \in [Zonas -> Cintas] /\ cargados' \in [Zonas -> SUBSET Valijas]
      BY <1>1, <2>1, <2>2
    <3> QED
      BY <2>2, <2>3, <3>1 DEF InvarianteCheckin, TiposCiclo, vuelos, puestos, equipajes
  <2> QED
    BY <2>2, <2>3, <2>4, <2>5, MoverCorrecto DEF equipajes
<1> QED
  BY <1>3, <1>4, <1>5, <1>6, <1>7, <1>8, <1>9 DEF PasoCarga

-----------------------------------------------------------------------------
(* The invariant holds always *)

(* The server fills the queues of free desks and zones, and nothing else   *)
(* has begun.                                                              *)
LEMMA InicioCorrecto ==
  ASSUME Init PROVE InvarianteCheckin
<1> USE DEF Init
<1>1. PICK n \in Nat : n = Cardinality(Puestos)
  BY FS_CardinalityType, SuposicionEquipajes DEF SuposicionEquipajes
<1>2. puestos_libres \in Seq(Puestos) /\
      \A i, j \in DOMAIN puestos_libres : puestos_libres[i] = puestos_libres[j] => i = j
  <2>1. /\ puestos_libres \in [1..n -> Puestos]
        /\ \A i, j \in 1..n : puestos_libres[i] = puestos_libres[j] => i = j
    BY <1>1, Zenon DEF SetToSeqs, IsInjective
  <2> QED
    BY <2>1
<1>3. zonas_libres \in Seq(Zonas)
  <2>1. IsFiniteSet(Zonas)
    <3>1. IsFiniteSet(1..MaxZonas)
      BY SuposicionZonas, FS_Interval DEF SuposicionZonas
    <3>2. Zonas \subseteq 1..MaxZonas
      BY SuposicionCiclo DEF SuposicionCiclo
    <3> QED
      BY <3>1, <3>2, FS_Subset
  <2>2. Anuncios * Cardinality(Zonas) \in Nat
    BY <2>1, FS_CardinalityType, SuposicionCiclo DEF SuposicionCiclo
  <2>3. zonas_libres \in [1..(Anuncios * Cardinality(Zonas)) -> Zonas]
    BY DEF AnunciosIniciales
  <2> QED
    BY <2>2, <2>3
<1>4. TiposCiclo
  <2>1. \A z \in Zonas : CintaVacia \in Cintas
    BY DEF CintaVacia, Cintas
  <2> QED
    BY <1>2, <1>3, <2>1 DEF TiposCiclo, PasosDeVuelo, PasosDeCarga
<1>5. MutexTipo
  BY DEF MutexTipo
<1>6. PuestosRepartidos
  BY <1>2 DEF PuestosRepartidos, ConPuesto
<1>7. MensajesEnOrden
  BY DEF MensajesEnOrden
<1>8. FinalCoherente
  BY DEF FinalCoherente, Final
<1>9. MensajesDelPuesto
  BY DEF MensajesDelPuesto
<1>10. EnCurso = {}
  BY DEF EnCurso, CintaVacia, ToSet
<1>11. AperturaUnica
  BY <1>10 DEF AperturaUnica, SinRegistrar
<1>12. RegistroEnCurso
  BY DEF RegistroEnCurso
<1>13. PasajeroConSusValijas
  BY <1>10 DEF PasajeroConSusValijas
<1>14. CargaEnviada
  BY DEF CargaEnviada
<1>15. CuentaAlDia
  BY DEF CuentaAlDia
<1> QED
  BY <1>4, <1>5, <1>6, <1>7, <1>8, <1>9, <1>11, <1>12, <1>13, <1>14, <1>15
     DEF InvarianteCheckin

(* A step that changes nothing *)
LEMMA SinPaso ==
  ASSUME InvarianteCheckin, UNCHANGED vars
  PROVE  InvarianteCheckin' /\ NadaNuevo
<1>1. /\ UNCHANGED <<puestos_libres, zonas_libres, vuelos, puestos, por_llegar>>
      /\ UNCHANGED <<pc_vuelo, puesto, zona, num_vuelo, cant_equipajes, cant_intercargo>>
      /\ UNCHANGED <<queue_controlador, queue_pasajeros, por_registrar, en_camino>>
      /\ UNCHANGED <<perdidos, cola_aviso, cinta, cargados, embarques, pc_carga>>
  BY DEF vars, torre, vuelos, puestos, equipajes, robots
<1>2. EnCurso' = EnCurso
  BY <1>1, ValijasQuietas
<1>3. TiposCiclo'
  BY <1>1 DEF InvarianteCheckin, TiposCiclo
<1>4. CargaEnviada'
  BY <1>1, CargaQuieta DEF InvarianteCheckin
<1> QED
  BY <1>1, <1>2, <1>3, <1>4, MoverCorrecto

(* No controller puts a bag on a belt.                                     *)
LEMMA ControladorNoRegistra ==
  ASSUME NEW v \in Vuelos, PasoVuelo(v)
  PROVE  NadaNuevo
<1>1. UNCHANGED <<equipajes, cinta, robots>>
  BY DEF PasoVuelo, PedirPuesto, PedirZona, RegistrarZona, IniciarCheckin, CerrarCheckin,
         LiberarPuesto
<1> QED
  BY <1>1, ValijasQuietas DEF equipajes, robots

(* Every step keeps the invariant, and the only one that registers a bag   *)
(* of a passenger is registrar_equipaje, for the flight that its desk is   *)
(* open for.                                                               *)
LEMMA PasoCorrecto ==
  ASSUME InvarianteCheckin, [Next]_vars
  PROVE  /\ InvarianteCheckin'
         /\ \/ NadaNuevo
            \/ \E p \in Puestos :
                 /\ num_vuelo[p] \in Vuelos
                 /\ \A v \in Vuelos \ {num_vuelo[p]} :
                      DeLosPasajeros(v) \cap EnCurso' = DeLosPasajeros(v) \cap EnCurso
<1>1. ASSUME NEW v \in Vuelos, PasoVuelo(v) PROVE InvarianteCheckin' /\ NadaNuevo
  BY <1>1, PasoVueloCorrecto, ControladorNoRegistra
<1>2. ASSUME NEW s \in Pasajeros, LlegaPasajero(s) PROVE InvarianteCheckin' /\ NadaNuevo
  <2>1. UNCHANGED <<en_camino, perdidos, cinta, cargados, embarques>>
    BY <1>2 DEF LlegaPasajero, robots
  <2> QED
    BY <1>2, <2>1, LlegaPasajeroCorrecto, ValijasQuietas
<1>3. ASSUME NEW p \in Puestos, NEW s \in Pasajeros, AtenderPasajero(p, s)
      PROVE  InvarianteCheckin' /\ NadaNuevo
  BY <1>3, AtenderPasajeroCorrecto
<1>4. ASSUME NEW p \in Puestos, NEW e \in Valijas, RegistrarEquipaje(p, e)
      PROVE  /\ InvarianteCheckin'
             /\ num_vuelo[p] \in Vuelos
             /\ \A v \in Vuelos \ {num_vuelo[p]} :
                  DeLosPasajeros(v) \cap EnCurso' = DeLosPasajeros(v) \cap EnCurso
  BY <1>4, RegistrarEquipajeCorrecto
<1>5. ASSUME NEW p \in Puestos, DespedirPasajero(p) PROVE InvarianteCheckin' /\ NadaNuevo
  BY <1>5, DespedirPasajeroCorrecto
<1>6. ASSUME NEW p \in Puestos, PasoControlador(p) PROVE InvarianteCheckin' /\ NadaNuevo
  BY <1>6, AbrirPuestoCorrecto, CerrarPuestoCorrecto DEF PasoControlador
<1>7. ASSUME NEW e \in Valijas, PasoEquipaje(e) PROVE InvarianteCheckin' /\ NadaNuevo
  BY <1>7, LlegaACintaCorrecto, LlegaTrasbordoCorrecto DEF PasoEquipaje
<1>8. ASSUME NEW z \in Zonas, AvisarCierre(z) PROVE InvarianteCheckin' /\ NadaNuevo
  BY <1>8, AvisarCierreCorrecto
<1>9. ASSUME NEW z \in Zonas, PasoCarga(z) PROVE InvarianteCheckin' /\ NadaNuevo
  BY <1>9, PasoCargaCorrecto
<1>10. CASE UNCHANGED vars
  BY <1>10, SinPaso
<1> QED
  BY <1>1, <1>2, <1>3, <1>4, <1>5, <1>6, <1>7, <1>8, <1>9, <1>10 DEF Next, PasoPuesto

(* The inductive invariant of the check-in holds always: whatever desks    *)
(* the flights take in turn, the messages, the counts and the passengers   *)
(* agree.                                                                  *)
THEOREM InvarianteSiempre == Spec => []InvarianteCheckin
<1>1. Init => InvarianteCheckin
  BY InicioCorrecto
<1>2. InvarianteCheckin /\ [Next]_vars => InvarianteCheckin'
  BY PasoCorrecto
<1> QED
  BY <1>1, <1>2, PTL DEF Spec

(* cerrar_checkin never throws and iniciar_checkin never finds its desk    *)
(* open: the messages that the controllers of several flights send to a    *)
(* desk come in order.                                                     *)
THEOREM MensajesSiempre == Spec => []MensajesEnOrden
<1>1. InvarianteCheckin => MensajesEnOrden
  BY DEF InvarianteCheckin
<1> QED
  BY <1>1, InvarianteSiempre, PTL

(* cant_equipajes of an open desk is what was registered for its flight,   *)
(* whichever flights were there before and however late they come.         *)
THEOREM CuentaSiempre == Spec => []CuentaAlDia
<1>1. InvarianteCheckin => CuentaAlDia
  BY DEF InvarianteCheckin
<1> QED
  BY <1>1, InvarianteSiempre, PTL

(* A flight whose desk has obeyed the close message is at no desk.         *)
LEMMA CerradoSinPuesto ==
  ASSUME InvarianteCheckin, NEW v \in Vuelos, CheckinCerrado(v), NEW p \in Puestos
  PROVE  num_vuelo[p] # v
<1> SUFFICES ASSUME num_vuelo[p] = v PROVE FALSE
  OBVIOUS
<1> USE DEF InvarianteCheckin
<1>1. v # SinVuelo
  BY SuposicionCiclo DEF SuposicionCiclo, SinVuelo
<1>2. puesto[v] = p /\ pc_vuelo[v] \in {"cerrado", "fin"}
  BY <1>1 DEF MensajesDelPuesto, CheckinCerrado
<1>3. queue_controlador[p] \in Seq(Mensajes)
  BY DEF TiposCiclo
<1>4. CASE queue_controlador[p] = <<>>
  BY <1>1, <1>2, <1>4 DEF FinalCoherente, Final
<1>5. CASE queue_controlador[p] # <<>>
  <2>1. 1 \in DOMAIN queue_controlador[p] /\ Head(queue_controlador[p]) = queue_controlador[p][1]
    BY <1>3, <1>5
  <2>2. queue_controlador[p][1].num_vuelo # v
    BY <1>2, <2>1 DEF CheckinCerrado
  <2> QED
    BY <1>1, <1>5, <2>1, <2>2 DEF MensajesEnOrden
<1> QED
  BY <1>4, <1>5

(* Once the total of a flight was sent to its zone no bag of it is         *)
(* registered: not by a passenger halfway through, who holds the mutex,    *)
(* nor by one that comes late to a desk that may have another flight.      *)
THEOREM CierreSiempre == Spec => NadaDespuesDelCierre
<1>1. InvarianteCheckin /\ [Next]_vars =>
        [\A v \in Vuelos : CheckinCerrado(v) => Registrados(v)' = Registrados(v)]_vars
  <2> SUFFICES ASSUME InvarianteCheckin, [Next]_vars, NEW v \in Vuelos, CheckinCerrado(v)
               PROVE  Registrados(v)' = Registrados(v)
    OBVIOUS
  <2>1. /\ Registrados(v) = DeLosPasajeros(v) \cap EnCurso
        /\ Registrados(v)' = DeLosPasajeros(v) \cap EnCurso'
    BY RegistradosDelVuelo
  <2>2. CASE NadaNuevo
    BY <2>1, <2>2 DEF NadaNuevo
  <2>3. ASSUME NEW p \in Puestos,
               \A w \in Vuelos \ {num_vuelo[p]} :
                 DeLosPasajeros(w) \cap EnCurso' = DeLosPasajeros(w) \cap EnCurso
        PROVE  Registrados(v)' = Registrados(v)
    <3>1. num_vuelo[p] # v
      BY CerradoSinPuesto
    <3> QED
      BY <2>1, <2>3, <3>1
  <2> QED
    BY <2>2, <2>3, PasoCorrecto
<1> QED
  BY <1>1, InvarianteSiempre, PTL DEF Spec, NadaDespuesDelCierre
=============================================================================
