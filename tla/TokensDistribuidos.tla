-------------------------- MODULE TokensDistribuidos ------------------------
(***************************************************************************)
(* The distributed locks of src/clientes and src/local_broker with one     *)
(* broker.  Each group, a memory or a semaphore, has tokens that go round  *)
(* its clients: token_manager passes one to the next client; the process   *)
(* local_broker_comm of that client asks ControlTokens whether the         *)
(* application waits for this group, and hands the token over, or sends it *)
(* back.  The token of a memory carries its contents.                      *)
(*                                                                         *)
(* An application waits for one group at a time, whose name it writes in   *)
(* token_esperando, the memory that all its local_broker_comm share.  It   *)
(* holds one memory at a time: the belts of the scanners, which lock their *)
(* control with a belt already locked (src/api/cintascanner.h:296, :355),  *)
(* are outside this model.                                                 *)
(*                                                                         *)
(* The clients have joined already and none leaves.                        *)
(***************************************************************************)
EXTENDS Naturals, FiniteSets, FiniteSetsExt

CONSTANTS
  CantClientes,  (* clients are numbered by their slot in the groups       *)
  Semaforos, Memorias,
  Clientes,      (* the clients of each group                              *)
  QuienEspera,   (* the client that calls wait_on of each semaphore        *)
  Datos, DatoInicial,
  Ninguno,       (* the empty name in token_esperando                      *)
  Nadie, SinMensaje,
  ValorInicial,  (* the third column of group_list_all.txt                 *)
  MaxValor       (* the belts never signal a semaphore past this           *)

Procesos == 0..CantClientes - 1
Grupos   == Semaforos \cup Memorias

ASSUME SuposicionTokens ==
  /\ CantClientes \in Nat \ {0}
  /\ IsFiniteSet(Grupos)
  /\ Semaforos \cap Memorias = {}
  /\ Ninguno \notin Grupos
  /\ Clientes \in [Grupos -> (SUBSET Procesos) \ {{}}]
  /\ \A s \in Semaforos : QuienEspera[s] \in Clientes[s]
  /\ DatoInicial \in Datos
  /\ SinMensaje \notin [hacia : {"cliente", "broker"}, dato : Datos]
  /\ ValorInicial \in [Grupos -> 0..1]
  /\ \A m \in Memorias : ValorInicial[m] = 1
  /\ MaxValor \in Nat \ {0}

VARIABLES
  (* the broker: the queue of token_manager, the last client each group's  *)
  (* token was passed to, and the memory of the group                      *)
  cola_token_manager, cliente_actual, memoria_grupo,
  (* tokens passed to a client and not yet with its local_broker_comm      *)
  cola,
  (* what the socket carries between broker and client of a memory         *)
  red,
  (* local_broker_comm of each client and group, the two local semaphores  *)
  (* it shares with the application, and the client's copy of the memory   *)
  pc_comm, token_local, a_devolver, memoria_local,
  (* ControlTokens and the application *)
  token_esperando, pc_app, recurso, leido

broker == <<cola_token_manager, cliente_actual, memoria_grupo, cola, red>>
comm   == <<pc_comm, token_local, a_devolver, memoria_local>>
app    == <<token_esperando, pc_app, recurso, leido>>
vars   == <<broker, comm, app>>

(* recibe: in wait_token; compara: it has the token; entrega, reenvia: it  *)
(* has asked ControlTokens; presta: in esperar_token; devuelve: before     *)
(* send_token.  The last two are of memories: with a semaphore another     *)
(* process, the son, waits and sends.                                      *)

(* afuera: in no call; espera: in the wait_on of the local semaphore;      *)
(* obtuvo: after it; dentro: holding the lock of a memory.                 *)

DelGrupo(G) == {c \in G \X Procesos : c[2] \in Clientes[c[1]]}
Membresias  == DelGrupo(Grupos)
DeMemorias  == DelGrupo(Memorias)

(* crear_grupo has released the first token of every group that has one. *)
Init ==
  /\ cola_token_manager = ValorInicial
  /\ cliente_actual = [g \in Grupos |-> 0]
  /\ memoria_grupo = [m \in Memorias |-> DatoInicial]
  /\ cola = [c \in Membresias |-> 0]
  /\ red = [c \in DeMemorias |-> SinMensaje]
  /\ pc_comm = [c \in Membresias |-> "recibe"]
  /\ token_local = [c \in Membresias |-> 0]
  /\ a_devolver = [c \in Membresias |-> 0]
  /\ memoria_local = [c \in DeMemorias |-> DatoInicial]
  /\ token_esperando = [p \in Procesos |-> Ninguno]
  /\ pc_app = [p \in Procesos |-> "afuera"]
  /\ recurso = [p \in Procesos |-> Ninguno]
  /\ leido = [p \in Procesos |-> DatoInicial]

IrA(c, pc) == pc_comm' = [pc_comm EXCEPT ![c] = pc]

-----------------------------------------------------------------------------
(* The broker *)

(* Fault: the token always goes to the first client of the group. *)
SiemprePrimero(g) == Min(Clientes[g])

(* The first client after the last one, going round the slots. *)
ProximoCliente(g) ==
  LET despues == {p \in Clientes[g] : p > cliente_actual[g]} IN
    Min(IF despues # {} THEN despues ELSE Clientes[g])

(* token_manager: pasar_token_a_proximo_cliente *)
PasarToken(g) ==
  /\ cola_token_manager[g] > 0
  /\ cola_token_manager' = [cola_token_manager EXCEPT ![g] = @ - 1]
  /\ cliente_actual' = [cliente_actual EXCEPT ![g] = ProximoCliente(g)]
  /\ cola' = [cola EXCEPT ![<<g, ProximoCliente(g)>>] = @ + 1]
  /\ UNCHANGED <<memoria_grupo, red, comm, app>>

(* loop_memoria of the client handler: lock_token and send_token, *)
EnviarMemoria(c) ==
  /\ cola[c] > 0
  /\ red[c] = SinMensaje
  /\ cola' = [cola EXCEPT ![c] = @ - 1]
  /\ red' = [red EXCEPT ![c] = [hacia |-> "cliente", dato |-> memoria_grupo[c[1]]]]
  /\ UNCHANGED <<cola_token_manager, cliente_actual, memoria_grupo, comm, app>>

(* recv_token and release_token. *)
GuardarMemoria(c) ==
  /\ red[c] # SinMensaje
  /\ red[c].hacia = "broker"
  /\ memoria_grupo' = [memoria_grupo EXCEPT ![c[1]] = red[c].dato]
  /\ red' = [red EXCEPT ![c] = SinMensaje]
  /\ cola_token_manager' = [cola_token_manager EXCEPT ![c[1]] = @ + 1]
  /\ UNCHANGED <<cliente_actual, cola, comm, app>>

-----------------------------------------------------------------------------
(* local_broker_comm *)

(* wait_token of a semaphore: the handler's son passed it on. *)
RecibirToken(c) ==
  /\ c[1] \in Semaforos
  /\ pc_comm[c] = "recibe"
  /\ cola[c] > 0
  /\ cola' = [cola EXCEPT ![c] = @ - 1]
  /\ IrA(c, "compara")
  /\ UNCHANGED <<cola_token_manager, cliente_actual, memoria_grupo, red,
                 token_local, a_devolver, memoria_local, app>>

(* wait_token of a memory, whose contents are copied. *)
RecibirMemoria(c) ==
  /\ pc_comm[c] = "recibe"
  /\ red[c] # SinMensaje
  /\ red[c].hacia = "cliente"
  /\ memoria_local' = [memoria_local EXCEPT ![c] = red[c].dato]
  /\ red' = [red EXCEPT ![c] = SinMensaje]
  /\ IrA(c, "compara")
  /\ UNCHANGED <<cola_token_manager, cliente_actual, memoria_grupo, cola,
                 token_local, a_devolver, app>>

(* comparar_token: does the application wait for this group? *)
Comparar(c) ==
  /\ pc_comm[c] = "compara"
  /\ IrA(c, IF token_esperando[c[2]] = c[1] THEN "entrega" ELSE "reenvia")
  /\ UNCHANGED <<broker, token_local, a_devolver, memoria_local, app>>

(* Fault: a memory's token is lent, and sent back without esperar_token. *)
EntregarSinEsperar(c) ==
  /\ pc_comm[c] = "entrega"
  /\ token_local' = [token_local EXCEPT ![c] = @ + 1]
  /\ IrA(c, IF c[1] \in Memorias THEN "devuelve" ELSE "recibe")
  /\ UNCHANGED <<broker, a_devolver, memoria_local, app>>

(* entregar_token *)
Entregar(c) ==
  /\ pc_comm[c] = "entrega"
  /\ token_local' = [token_local EXCEPT ![c] = @ + 1]
  /\ IrA(c, IF c[1] \in Memorias THEN "presta" ELSE "recibe")
  /\ UNCHANGED <<broker, a_devolver, memoria_local, app>>

(* Fault: the token of a semaphore is not passed on. *)
ReenviarSoloMemoria(c) ==
  /\ pc_comm[c] = "reenvia"
  /\ IrA(c, IF c[1] \in Memorias THEN "devuelve" ELSE "recibe")
  /\ UNCHANGED <<broker, token_local, a_devolver, memoria_local, app>>

(* forwardear_token wakes the son of a semaphore; the process of a memory  *)
(* sends the token back itself.                                            *)
Reenviar(c) ==
  /\ pc_comm[c] = "reenvia"
  /\ IF c[1] \in Memorias
     THEN IrA(c, "devuelve") /\ UNCHANGED a_devolver
     ELSE IrA(c, "recibe") /\ a_devolver' = [a_devolver EXCEPT ![c] = @ + 1]
  /\ UNCHANGED <<broker, token_local, memoria_local, app>>

(* esperar_token of a memory *)
EsperarToken(c) ==
  /\ pc_comm[c] = "presta"
  /\ a_devolver[c] > 0
  /\ a_devolver' = [a_devolver EXCEPT ![c] = @ - 1]
  /\ IrA(c, "devuelve")
  /\ UNCHANGED <<broker, token_local, memoria_local, app>>

(* send_token(memory) *)
DevolverMemoria(c) ==
  /\ pc_comm[c] = "devuelve"
  /\ red' = [red EXCEPT ![c] = [hacia |-> "broker", dato |-> memoria_local[c]]]
  /\ IrA(c, "recibe")
  /\ UNCHANGED <<cola_token_manager, cliente_actual, memoria_grupo, cola,
                 token_local, a_devolver, memoria_local, app>>

(* The son of a semaphore: esperar_token and send_token; the father of the *)
(* client handler gives the token to token_manager.                        *)
DevolverToken(c) ==
  /\ c[1] \in Semaforos
  /\ a_devolver[c] > 0
  /\ a_devolver' = [a_devolver EXCEPT ![c] = @ - 1]
  /\ cola_token_manager' = [cola_token_manager EXCEPT ![c[1]] = @ + 1]
  /\ UNCHANGED <<cliente_actual, memoria_grupo, cola, red, pc_comm,
                 token_local, memoria_local, app>>

-----------------------------------------------------------------------------
(* The application: wait_on of a semaphore, lock and unlock of a memory,   *)
(* signalize                                                               *)

(* cargar_esperando_token *)
Pedir(p, g) ==
  /\ pc_app[p] = "afuera"
  /\ p \in Clientes[g]
  /\ g \in Semaforos => QuienEspera[g] = p
  /\ token_esperando' = [token_esperando EXCEPT ![p] = g]
  /\ recurso' = [recurso EXCEPT ![p] = g]
  /\ pc_app' = [pc_app EXCEPT ![p] = "espera"]
  /\ UNCHANGED <<broker, comm, leido>>

(* The wait_on of the local semaphore returns; the first thing a belt does *)
(* with a memory it has locked is read it.                                 *)
Obtener(p) ==
  LET c == <<recurso[p], p>> IN
    /\ pc_app[p] = "espera"
    /\ token_local[c] > 0
    /\ token_local' = [token_local EXCEPT ![c] = @ - 1]
    /\ pc_app' = [pc_app EXCEPT ![p] = "obtuvo"]
    /\ IF c[1] \in Memorias
       THEN leido' = [leido EXCEPT ![p] = memoria_local[c]]
       ELSE UNCHANGED leido
    /\ UNCHANGED <<broker, pc_comm, a_devolver, memoria_local,
                   token_esperando, recurso>>

(* limpiar_esperando_token *)
Limpiar(p) ==
  /\ pc_app[p] = "obtuvo"
  /\ token_esperando' = [token_esperando EXCEPT ![p] = Ninguno]
  /\ pc_app' = [pc_app EXCEPT ![p] =
                  IF recurso[p] \in Memorias THEN "dentro" ELSE "afuera"]
  /\ UNCHANGED <<broker, comm, recurso, leido>>

Escribir(p, d) ==
  /\ pc_app[p] = "dentro"
  /\ memoria_local' = [memoria_local EXCEPT ![<<recurso[p], p>>] = d]
  /\ UNCHANGED <<broker, pc_comm, token_local, a_devolver, app>>

(* Fault: unlock forgets to wake local_broker_comm. *)
SoltarSinDevolver(p) ==
  /\ pc_app[p] = "dentro"
  /\ token_esperando' = [token_esperando EXCEPT ![p] = Ninguno]
  /\ pc_app' = [pc_app EXCEPT ![p] = "afuera"]
  /\ UNCHANGED <<broker, comm, recurso, leido>>

(* unlock *)
Soltar(p) ==
  /\ pc_app[p] = "dentro"
  /\ token_esperando' = [token_esperando EXCEPT ![p] = Ninguno]
  /\ a_devolver' = [a_devolver EXCEPT ![<<recurso[p], p>>] = @ + 1]
  /\ pc_app' = [pc_app EXCEPT ![p] = "afuera"]
  /\ UNCHANGED <<broker, pc_comm, token_local, memoria_local, recurso, leido>>

Uno(b) == IF b THEN 1 ELSE 0

(* The tokens of group c[1] that client c[2] has to pass on or to use. *)
TokensDe(c) ==
  cola[c] + token_local[c] + a_devolver[c]
    + Uno(pc_comm[c] \in {"compara", "entrega", "reenvia", "devuelve"})
    + Uno(c \in DeMemorias /\ red[c] # SinMensaje)

TieneCerrojo(p, m) == recurso[p] = m /\ pc_app[p] \in {"obtuvo", "dentro"}

(* The tokens of a group that nobody has taken. *)
Valor(g) ==
  cola_token_manager[g] + SumFunction([p \in Clientes[g] |-> TokensDe(<<g, p>>)])

(* signalize, by a client of the semaphore *)
Senializar(p, s) ==
  /\ pc_app[p] \in {"afuera", "dentro"}
  /\ p \in Clientes[s]
  /\ Valor(s) < MaxValor
  /\ token_esperando' = [token_esperando EXCEPT ![p] = Ninguno]
  /\ a_devolver' = [a_devolver EXCEPT ![<<s, p>>] = @ + 1]
  /\ UNCHANGED <<broker, pc_comm, token_local, memoria_local, pc_app, recurso,
                 leido>>

-----------------------------------------------------------------------------
PasoComm(c) ==
  \/ RecibirToken(c)
  \/ c \in DeMemorias /\ (RecibirMemoria(c) \/ EsperarToken(c) \/ DevolverMemoria(c))
  \/ Comparar(c)
  \/ Entregar(c)
  \/ Reenviar(c)

PasoManejador(c) == EnviarMemoria(c) \/ GuardarMemoria(c)

PasoApp(p) == Obtener(p) \/ Limpiar(p) \/ Soltar(p)

Next ==
  \/ \E g \in Grupos : PasarToken(g)
  \/ \E c \in DeMemorias : PasoManejador(c)
  \/ \E c \in Membresias : PasoComm(c) \/ DevolverToken(c)
  \/ \E p \in Procesos :
       \/ PasoApp(p)
       \/ \E g \in Grupos : Pedir(p, g)
       \/ \E d \in Datos : Escribir(p, d)
       \/ \E s \in Semaforos : Senializar(p, s)

Spec == Init /\ [][Next]_vars

(* token_manager takes its messages in order, so each group has its turn;  *)
(* every process runs; and who holds a lock gives it back.  Nobody has to  *)
(* ask for a lock, nor to signal.                                          *)
Equidad ==
  /\ \A g \in Grupos : WF_vars(PasarToken(g))
  /\ \A c \in DeMemorias : WF_vars(PasoManejador(c))
  /\ \A c \in Membresias : WF_vars(PasoComm(c)) /\ WF_vars(DevolverToken(c))
  /\ \A p \in Procesos : WF_vars(PasoApp(p))

SpecJusta == Spec /\ Equidad

-----------------------------------------------------------------------------
(* Properties *)

(* The contents of a memory travel with its token. *)
MemoriaVigente(m) ==
  LET conToken == {p \in Clientes[m] : pc_comm[<<m, p>>] # "recibe"}
      enViaje  == {p \in Clientes[m] : red[<<m, p>>] # SinMensaje} IN
    CASE conToken # {} -> memoria_local[<<m, CHOOSE p \in conToken : TRUE>>]
      [] enViaje # {}  -> red[<<m, CHOOSE p \in enViaje : TRUE>>].dato
      [] OTHER         -> memoria_grupo[m]

Duenio(m) ==
  IF \E p \in Clientes[m] : TieneCerrojo(p, m)
  THEN CHOOSE p \in Clientes[m] : TieneCerrojo(p, m)
  ELSE Nadie

Locks == INSTANCE LocksAbstractos
           WITH valor   <- [s \in Semaforos |-> Valor(s)],
                duenio  <- [m \in Memorias |-> Duenio(m)],
                memoria <- [m \in Memorias |-> MemoriaVigente(m)],
                ValorInicial <- [s \in Semaforos |-> ValorInicial[s]]

(* The tokens that go round are semaphores and locks: wait_on and          *)
(* signalize take and give one unit, one client at a time holds a memory,  *)
(* and it reads what the last holder wrote, whichever clients the token    *)
(* went through in between.                                                *)
ImplementaLocks == Locks!Spec

(* Whoever asks for the lock of a memory gets it, though the token passes  *)
(* by just before the name is written in token_esperando, and though the   *)
(* others ask again and again.                                             *)
CerrojoLlega ==
  \A p \in Procesos : \A m \in Memorias :
    pc_app[p] = "espera" /\ recurso[p] = m ~> TieneCerrojo(p, m)

(* A client that waits on its semaphore gets the token that is there, or   *)
(* that another client signals, wherever in the group it is.               *)
SenialLlega ==
  \A s \in Semaforos :
    LET p == QuienEspera[s] IN
      pc_app[p] = "espera" /\ recurso[p] = s /\ Valor(s) > 0
        ~> pc_app[p] # "espera"
=============================================================================
