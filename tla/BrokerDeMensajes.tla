--------------------------- MODULE BrokerDeMensajes ---------------------------
(***************************************************************************)
(* The queues that processes of one or of several airports share through a *)
(* message broker.  The broker keeps a table of names; the place of a name *)
(* in it is the key of a System V queue.  Each connection has a child of   *)
(* the server of its own, which serves one request after the other:        *)
(*                                                                         *)
(*   recibir    it waits for a request (receiveall);                       *)
(*   servir     it looks the name up, opens the queue, puts or takes a     *)
(*              message once it can, and answers;                          *)
(*   crear      it has taken a place for a new name, and creates the queue.*)
(*                                                                         *)
(* A child that waits for a message does not see that its client has gone: *)
(* it takes the next message, and finds nobody to give it to.              *)
(*                                                                         *)
(* A client that has gone may come back; it then has another child, of its *)
(* next vida.  Names are not destroyed: their owners run for as long as    *)
(* the broker does.  An answer is sent in the step that makes it: a client *)
(* that breaks before it reads an answer loses it as one that breaks after.*)
(***************************************************************************)
EXTENDS Naturals, SequencesExt, FiniteSetsExt

CONSTANTS
  Colas,        (* names of queues                                         *)
  CapacidadDe,  (* messages that fit in each (MSGMNB)                      *)
  MaxColas,     (* places of the table: 255                                *)
  Clientes,
  VidasDe       (* how often each client may connect                       *)

ASSUME SuposicionBroker ==
  /\ CapacidadDe \in [Colas -> Nat \ {0}]
  /\ MaxColas \in Nat \ {0}
  /\ VidasDe \in [Clientes -> Nat \ {0}]

Lugares == 0..(MaxColas - 1)
Hijos   == UNION {{c} \X (1..VidasDe[c]) : c \in Clientes}

Libre == "libre"
Nada  == [que |-> "nada"]

VARIABLES
  proj_id_to_queue_id,  (* the table                                       *)
  ipc,                  (* the System V queues, by the places that are key *)
  hijo,                 (* the child of each connection                    *)
  vida, conectado,      (* of each client                                  *)
  respuesta             (* the answer it has received and not yet used     *)

broker   == <<proj_id_to_queue_id, ipc, hijo>>
conexion == <<vida, conectado>>
varsBroker == <<broker, conexion, respuesta>>

SinHijo == [pc |-> "sin_conexion", pedido |-> Nada, lugar |-> MaxColas]

InitBroker ==
  /\ proj_id_to_queue_id = [l \in Lugares |-> Libre]
  /\ ipc = [l \in {} |-> <<>>]
  /\ hijo = [h \in Hijos |-> SinHijo]
  /\ vida = [c \in Clientes |-> 0]
  /\ conectado = [c \in Clientes |-> FALSE]
  /\ respuesta = [c \in Clientes |-> Nada]

-----------------------------------------------------------------------------
(* Requests and answers *)

Crear(cola)        == [que |-> "crear", cola |-> cola]
Poner(cola, msg)   == [que |-> "push", cola |-> cola, msg |-> msg]
Sacar(cola, mtype) == [que |-> "pull", cola |-> cola, mtype |-> mtype]

Bien        == [que |-> "ok"]
ConMsg(msg) == [que |-> "msg", msg |-> msg]
BROKER_ERROR == [que |-> "error"]

-----------------------------------------------------------------------------
(* The client's side (MessageBrokerStub) *)

HijoDe(c) == <<c, vida[c]>>

(* It waits for no answer.  Unless the answer is a message or an error,    *)
(* having it is all that matters.                                          *)
Ocioso(c) ==
  /\ conectado[c]
  /\ respuesta[c] \in {Nada, Bien}
  /\ hijo[HijoDe(c)].pc = "recibir"

(* A process connects to make its first call. *)
Conectar(c, pedido) ==
  /\ ~ conectado[c]
  /\ vida[c] < VidasDe[c]
  /\ conectado' = [conectado EXCEPT ![c] = TRUE]
  /\ vida' = [vida EXCEPT ![c] = @ + 1]
  /\ hijo' = [hijo EXCEPT ![<<c, vida[c] + 1>>].pc = "servir",
                          ![<<c, vida[c] + 1>>].pedido = pedido]
  /\ UNCHANGED <<proj_id_to_queue_id, ipc, respuesta>>

(* The first half of a call; the client then waits for its answer... *)
Pedir(c, pedido) ==
  /\ Ocioso(c)
  /\ hijo' = [hijo EXCEPT ![HijoDe(c)].pc = "servir",
                          ![HijoDe(c)].pedido = pedido]
  /\ respuesta' = [respuesta EXCEPT ![c] = Nada]
  /\ UNCHANGED <<proj_id_to_queue_id, ipc, conexion>>

(* ... and uses it, if it is a message. *)
Recibir(c) ==
  /\ respuesta[c] \notin {Nada, Bien, BROKER_ERROR}
  /\ respuesta' = [respuesta EXCEPT ![c] = Nada]
  /\ UNCHANGED <<broker, conexion>>

(* The client ends or breaks, in a call or between two: a child that waits *)
(* for a request ends, and any other one goes on with what it is doing.    *)
Desconectar(c) ==
  /\ conectado[c]
  /\ conectado' = [conectado EXCEPT ![c] = FALSE]
  /\ respuesta' = [respuesta EXCEPT ![c] = Nada]
  /\ hijo' = [hijo EXCEPT ![HijoDe(c)].pc =
                            IF @ = "recibir" THEN "fin" ELSE @]
  /\ UNCHANGED <<proj_id_to_queue_id, ipc, vida>>

-----------------------------------------------------------------------------
(* The server's side (client_handler and MessageBroker) *)

Sirve(h, que) == hijo[h].pc = "servir" /\ hijo[h].pedido.que = que

(* Fault: a child whose client has gone serves the request again. *)
ResponderYSeguir(h, r) ==
  LET c == h[1]
      esta == conectado[c] /\ HijoDe(c) = h
  IN /\ respuesta' = IF esta THEN [respuesta EXCEPT ![c] = r] ELSE respuesta
     /\ hijo' = IF esta
                THEN [hijo EXCEPT ![h] = [SinHijo EXCEPT !.pc = "recibir"]]
                ELSE [hijo EXCEPT ![h].pc = "servir"]
     /\ UNCHANGED conexion

(* sendall, and receiveall again; a child whose client has gone ends. *)
Responder(h, r) ==
  LET c == h[1]
      esta == conectado[c] /\ HijoDe(c) = h
  IN /\ respuesta' = IF esta THEN [respuesta EXCEPT ![c] = r] ELSE respuesta
     /\ hijo' = [hijo EXCEPT ![h] =
                   [SinHijo EXCEPT !.pc = IF esta THEN "recibir" ELSE "fin"]]
     /\ UNCHANGED conexion

Libres == {l \in Lugares : proj_id_to_queue_id[l] = Libre}

(* create_queue: allocate_queue_id, under the lock of the table... *)
AllocateQueueId(h) ==
  /\ Sirve(h, "crear")
  /\ Libres # {}
  /\ proj_id_to_queue_id' = [proj_id_to_queue_id EXCEPT
                               ![Min(Libres)] = hijo[h].pedido.cola]
  /\ hijo' = [hijo EXCEPT ![h].pc = "crear", ![h].lugar = Min(Libres)]
  /\ UNCHANGED <<ipc, conexion, respuesta>>

(* ... and then the queue itself, without it. *)
CrearCola(h) ==
  /\ hijo[h].pc = "crear"
  /\ ipc' = [l \in DOMAIN ipc \cup {hijo[h].lugar} |->
               IF l \in DOMAIN ipc THEN ipc[l] ELSE <<>>]
  /\ Responder(h, Bien)
  /\ UNCHANGED proj_id_to_queue_id

(* get_proj_id, which takes no lock: the first place with the name, or     *)
(* none (MaxColas here, -1 in the code).                                   *)
GetProjId(cola) ==
  Min({l \in Lugares : proj_id_to_queue_id[l] = cola} \cup {MaxColas})

LugarDe(h) == GetProjId(hijo[h].pedido.cola)

(* The name is not there, or not yet its queue; or the table is full.      *)
NoHayCola(h) ==
  /\ \/ Sirve(h, "push") /\ LugarDe(h) \notin DOMAIN ipc
     \/ Sirve(h, "pull") /\ LugarDe(h) \notin DOMAIN ipc
     \/ Sirve(h, "crear") /\ Libres = {}
  /\ Responder(h, BROKER_ERROR)
  /\ UNCHANGED <<proj_id_to_queue_id, ipc>>

(* msgsnd, which waits while the queue is full. *)
Push(h) ==
  LET l == LugarDe(h)
  IN /\ Sirve(h, "push")
     /\ l \in DOMAIN ipc
     /\ Len(ipc[l]) < CapacidadDe[hijo[h].pedido.cola]
     /\ ipc' = [ipc EXCEPT ![l] = Append(@, hijo[h].pedido.msg)]
     /\ Responder(h, Bien)
     /\ UNCHANGED proj_id_to_queue_id

(* Fault: the type of the messages is not looked at. *)
DeCualquierTipo(cola, mtype) == DOMAIN cola

(* The messages of a type, as positions in a queue. *)
DelTipo(cola, mtype) == {i \in DOMAIN cola : cola[i].mtype = mtype}

(* msgrcv: the first message of the type, once there is one. *)
Pull(h) ==
  LET l == LugarDe(h)
      mensajes == DelTipo(ipc[l], hijo[h].pedido.mtype)
  IN /\ Sirve(h, "pull")
     /\ l \in DOMAIN ipc
     /\ mensajes # {}
     /\ ipc' = [ipc EXCEPT ![l] = RemoveAt(@, Min(mensajes))]
     /\ Responder(h, ConMsg(ipc[l][Min(mensajes)]))
     /\ UNCHANGED proj_id_to_queue_id

PasoHijo(h) ==
  \/ AllocateQueueId(h)
  \/ CrearCola(h)
  \/ NoHayCola(h)
  \/ Push(h)
  \/ Pull(h)
=============================================================================
