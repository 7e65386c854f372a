---------------------------- MODULE GrupoDeBroker ----------------------------
(***************************************************************************)
(* The clients of one memory in a local broker that come, go and break     *)
(* their connection: the table of src/local_broker/grupo.cpp, the rotation *)
(* of token_manager, and one client_handler per client.  It is the broker  *)
(* of TokensDistribuidos without its assumption that the clients stay, and *)
(* a client here is no more than whether it answers.                       *)
(*                                                                         *)
(* Every change of the table is made under the mutex of the group, so each *)
(* is one step.  A client comes back only after its last handler has left, *)
(* so join never finds its name in the table.                              *)
(***************************************************************************)
EXTENDS Naturals, FiniteSets, FiniteSetsExt

CONSTANTS
  Clientes,
  MaxClientes,  (* MAX_CLIENTS: slots of the table, each with its queue    *)
  Vacio         (* the empty name                                          *)

ASSUME SuposicionGrupo ==
  /\ IsFiniteSet(Clientes)
  /\ MaxClientes \in Nat \ {0}
  /\ Vacio \notin Clientes

Slots == 0..MaxClientes - 1

VARIABLES
  client_names, cant_clientes,  (* the table                               *)
  cliente_actual,               (* the slot the token was last passed to   *)
  cola_token_manager,           (* tokens given back to token_manager      *)
  cola,                         (* tokens passed to each slot              *)
  pc,                           (* the handler of each client              *)
  numero_cola,                  (* numero_cola_asignada, as a slot         *)
  conexion                      (* whether the client is still connected   *)

tabla     == <<client_names, cant_clientes>>
tokens    == <<cola_token_manager, cola, cliente_actual>>
handler   == <<pc, numero_cola, conexion>>
vars      == <<tabla, tokens, handler>>

(* fuera: there is none; espera: in lock_token; presta: the token and the  *)
(* memory are with the client; deja, libera: before leave_group and before *)
(* the release_token that follows it.                                      *)
PcHandler == {"fuera", "espera", "presta", "deja", "libera"}

(* The token manager has just created the group and released its token. *)
Init ==
  /\ client_names = [i \in Slots |-> Vacio]
  /\ cant_clientes = 0
  /\ cliente_actual = 0
  /\ cola_token_manager = 1
  /\ cola = [i \in Slots |-> 0]
  /\ pc = [c \in Clientes |-> "fuera"]
  /\ numero_cola = [c \in Clientes |-> 0]
  /\ conexion = [c \in Clientes |-> FALSE]

Ocupados == {i \in Slots : client_names[i] # Vacio}

(* Fault: the last free slot. *)
UltimoLibre == Max(Slots \ Ocupados)

PrimerLibre == Min(Slots \ Ocupados)

IrA(c, donde) == pc' = [pc EXCEPT ![c] = donde]

-----------------------------------------------------------------------------
(* The table and the token manager *)

(* join; a client too many is refused. *)
Join(c) ==
  /\ pc[c] = "fuera"
  /\ cant_clientes # MaxClientes
  /\ client_names' = [client_names EXCEPT ![PrimerLibre] = c]
  /\ cant_clientes' = cant_clientes + 1
  /\ numero_cola' = [numero_cola EXCEPT ![c] = PrimerLibre]
  /\ conexion' = [conexion EXCEPT ![c] = TRUE]
  /\ IrA(c, "espera")
  /\ UNCHANGED tokens

(* Fault: the search always starts at the first slot. *)
SiemprePrimero == IF cant_clientes = 0 THEN 0 ELSE Min(Ocupados)

(* The next occupied slot, going round; the first one of an empty table,   *)
(* where the next client to join will find the token.                      *)
ProximoCliente ==
  LET despues == {i \in Ocupados : i > cliente_actual} IN
    IF cant_clientes = 0 THEN 0
    ELSE Min(IF despues # {} THEN despues ELSE Ocupados)

(* pasar_token_a_proximo_cliente *)
PasarToken ==
  /\ cola_token_manager > 0
  /\ cola_token_manager' = cola_token_manager - 1
  /\ cliente_actual' = ProximoCliente
  /\ cola' = [cola EXCEPT ![ProximoCliente] = @ + 1]
  /\ UNCHANGED <<tabla, handler>>

-----------------------------------------------------------------------------
(* The handler of a client *)

(* lock_token, after which the memory is sent *)
LockToken(c) ==
  /\ pc[c] = "espera"
  /\ cola[numero_cola[c]] > 0
  /\ cola' = [cola EXCEPT ![numero_cola[c]] = @ - 1]
  /\ IrA(c, "presta")
  /\ UNCHANGED <<tabla, cola_token_manager, cliente_actual, numero_cola, conexion>>

(* recv_token gets the memory back, and release_token *)
RecvToken(c) ==
  /\ pc[c] = "presta"
  /\ conexion[c]
  /\ cola_token_manager' = cola_token_manager + 1
  /\ IrA(c, "espera")
  /\ UNCHANGED <<tabla, cliente_actual, cola, numero_cola, conexion>>

(* send_token fails, or recv_token gets a LEAVE or the end of the stream *)
PerderCliente(c) ==
  /\ pc[c] = "presta"
  /\ ~conexion[c]
  /\ IrA(c, "deja")
  /\ UNCHANGED <<tabla, tokens, numero_cola, conexion>>

(* Fault: the clients are not counted down. *)
DejarSinContar(c) ==
  /\ pc[c] = "deja"
  /\ client_names' = [i \in Slots |-> IF client_names[i] = c THEN Vacio
                                      ELSE client_names[i]]
  /\ IrA(c, "libera")
  /\ UNCHANGED <<cant_clientes, tokens, numero_cola, conexion>>

(* leave_group: the first slot with the name of the client is freed. *)
LeaveGroup(c) ==
  /\ pc[c] = "deja"
  /\ client_names' =
       [client_names EXCEPT ![Min({i \in Slots : client_names[i] = c})] = Vacio]
  /\ cant_clientes' = cant_clientes - 1
  /\ IrA(c, "libera")
  /\ UNCHANGED <<tokens, numero_cola, conexion>>

(* Fault: the token is dropped with the client. *)
TerminarSinToken(c) ==
  /\ pc[c] = "libera"
  /\ IrA(c, "fuera")
  /\ UNCHANGED <<tabla, tokens, numero_cola, conexion>>

(* release_token of a handler that has left the group *)
LiberarToken(c) ==
  /\ pc[c] = "libera"
  /\ cola_token_manager' = cola_token_manager + 1
  /\ IrA(c, "fuera")
  /\ UNCHANGED <<tabla, cliente_actual, cola, numero_cola, conexion>>

(* The client leaves, crashes or loses its connection, with or without the *)
(* token; its handler sees it when it next sends or receives.              *)
Cortar(c) ==
  /\ pc[c] # "fuera"
  /\ conexion[c]
  /\ conexion' = [conexion EXCEPT ![c] = FALSE]
  /\ UNCHANGED <<tabla, tokens, pc, numero_cola>>

PasoHandler(c) ==
  \/ LockToken(c)
  \/ RecvToken(c)
  \/ PerderCliente(c)
  \/ LeaveGroup(c)
  \/ LiberarToken(c)

Next ==
  \/ PasarToken
  \/ \E c \in Clientes : Join(c) \/ PasoHandler(c) \/ Cortar(c)

Spec == Init /\ [][Next]_vars

(* token_manager and the handlers run, and a connected client gives the    *)
(* token back.  Nobody has to join, nor to break.                          *)
SpecJusta ==
  Spec /\ WF_vars(PasarToken) /\ \A c \in Clientes : WF_vars(PasoHandler(c))

-----------------------------------------------------------------------------
(* Properties *)

Registrado(c) == pc[c] \in {"espera", "presta", "deja"}
ConToken(c)   == pc[c] \in {"presta", "deja", "libera"}

(* Types; nothing is counted below zero, nor above the slots. *)
TypeInv ==
  /\ client_names \in [Slots -> Clientes \cup {Vacio}]
  /\ cant_clientes \in 0..MaxClientes
  /\ cliente_actual \in Slots
  /\ cola_token_manager \in 0..1
  /\ cola \in [Slots -> 0..1]
  /\ pc \in [Clientes -> PcHandler]
  /\ numero_cola \in [Clientes -> Slots]
  /\ conexion \in [Clientes -> BOOLEAN]

(* The table has the clients whose handler runs, each in the slot whose    *)
(* queue its handler reads, and counts them (join, leave_group).           *)
TablaCoherente ==
  /\ cant_clientes = Cardinality(Ocupados)
  /\ \A i \in Ocupados : Registrado(client_names[i])
  /\ \A c \in Clientes : Registrado(c) => client_names[numero_cola[c]] = c
  /\ \A i \in Ocupados : numero_cola[client_names[i]] = i

(* Where the token of the group may be. *)
Lugares ==
  {<<"cola", i>> : i \in {s \in Slots : cola[s] > 0}}
    \cup {<<"handler", c>> : c \in {d \in Clientes : ConToken(d)}}
    \cup {<<"manager", n>> : n \in 1..cola_token_manager}

(* There is one token, whoever comes, leaves or breaks and when: a broken  *)
(* client does not take it away, and its handler does not make another     *)
(* (loop_memoria of the client handler).                                   *)
UnSoloToken == Cardinality(Lugares) = 1

(* A token that was passed to a slot has a handler that waits for it, or   *)
(* the table is empty, and the next client to join gets that slot: none is *)
(* passed to a client that has just left.                                  *)
TokenAlcanzable ==
  \A i \in Slots : cola[i] > 0 =>
    \/ client_names[i] # Vacio /\ pc[client_names[i]] = "espera"
    \/ Ocupados = {} /\ i = 0

(* A client that has joined gets the token, whoever else comes and goes. *)
Atendido == \A c \in Clientes : pc[c] = "espera" ~> pc[c] # "espera"
=============================================================================
