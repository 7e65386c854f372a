---------------------------- MODULE AnilloDeNodos ----------------------------
(***************************************************************************)
(* The ring of nodes and the election of its leader, src/group.            *)
(*                                                                         *)
(*   inbound   opens the tail of the node: it announces that it listens    *)
(*             (OPEN), accepts the node before it in the ring, and takes   *)
(*             the messages that come;                                     *)
(*   outbound  looks for the tail of another node (head), connects to it   *)
(*             and sends what is in the node's queue, one message at a     *)
(*             time, each with its acknowledgement;                        *)
(*   leader    runs at the node whose name came back to it: when it hears  *)
(*             of the leader of another ring (FIND) it breaks its own, so  *)
(*             that the two become one.                                    *)
(*                                                                         *)
(* A name is a number; names are compared by their order.  inbound and     *)
(* outbound are processes, and each knows a leader_name of its own; they   *)
(* change it while they pass messages, not while tail or head look for a   *)
(* neighbour.  Messages of the user are left out.                          *)
(***************************************************************************)
EXTENDS Integers, SequencesExt

CONSTANTS
  Nodos,            (* localhost_name: host and pid                        *)
  TTL,              (* passage.TTL, "initial time to live"                 *)
  Tardios,          (* the nodes that may be started later than the others *)
  MaxEventos        (* bound: links cut and proposals repeated by leaders  *)

ASSUME SuposicionAnillo ==
  /\ Nodos \subseteq Nat \ {0}
  /\ IsFiniteSet(Nodos)
  /\ TTL >= Cardinality(Nodos)
  /\ Tardios \subseteq Nodos

VARIABLES
  (* inbound: apagado, busca (in tail), pasa (passing messages)            *)
  pc_entrada, lider_entrada, pendientes, ant,
  (* outbound: apagado, busca (in head), pasa; the time it has looked for  *)
  pc_salida, lider_salida, sig, fase,
  (* userland_outbound_queue *)
  cola_salida,
  (* the process leader, and whether a FIND of another one is in its socket*)
  leader_process, oyo_find,
  (* how much of the bound is left *)
  eventos

entrada == <<pc_entrada, lider_entrada, pendientes, ant>>
salida  == <<pc_salida, lider_salida, sig, fase>>
lider   == <<leader_process, oyo_find>>
vars    == <<entrada, salida, cola_salida, lider, eventos>>

Nadie == 0

Mensaje(tipo, nombre) == [tipo |-> tipo, nombre |-> nombre, ttl |-> TTL]

Leader(n)       == Mensaje("Leader", n)
LinkBroken(n)   == Mensaje("LinkBroken", n)
BreakLinkForced == [tipo |-> "BreakLinkForced", nombre |-> Nadie, ttl |-> 0]

AlInicio(n, tarde, pronto) == IF n \in Tardios THEN tarde ELSE pronto

Init ==
  /\ pc_entrada = [n \in Nodos |-> AlInicio(n, "apagado", "busca")]
  /\ lider_entrada = [n \in Nodos |-> n]
  /\ pendientes = [n \in Nodos |-> <<>>]
  /\ ant = [n \in Nodos |-> Nadie]
  /\ pc_salida = [n \in Nodos |-> AlInicio(n, "apagado", "busca")]
  /\ lider_salida = [n \in Nodos |-> n]
  /\ sig = [n \in Nodos |-> Nadie]
  /\ fase = [n \in Nodos |-> 0]
  /\ cola_salida = [n \in Nodos |-> AlInicio(n, <<>>, <<LinkBroken(n)>>)]
  /\ leader_process = [n \in Nodos |-> FALSE]
  /\ oyo_find = [n \in Nodos |-> FALSE]
  /\ eventos = MaxEventos

(* Both ends have the link from n to m. *)
Unidos(n, m) == n # Nadie /\ m # Nadie /\ sig[n] = m /\ ant[m] = n

(* The link that outbound sends on is there, or waits to be accepted. *)
HayEnlace(n) ==
  sig[n] # Nadie /\ (Unidos(n, sig[n]) \/ n \in ToSet(pendientes[sig[n]]))

ConMensaje(colas, n, m) == [colas EXCEPT ![n] = Append(@, m)]

Encolar(n, m) == cola_salida' = ConMensaje(cola_salida, n, m)

(* clean: the process leader is stopped. *)
Clean(n) ==
  /\ leader_process' = [leader_process EXCEPT ![n] = FALSE]
  /\ oyo_find' = [oyo_find EXCEPT ![n] = FALSE]

-----------------------------------------------------------------------------
(* inbound *)

(* The node starts: inbound announces a broken link and opens its tail;    *)
(* outbound starts to look for another's.                                  *)
Arrancar(n) ==
  /\ pc_entrada[n] = "apagado"
  /\ pc_entrada' = [pc_entrada EXCEPT ![n] = "busca"]
  /\ pc_salida' = [pc_salida EXCEPT ![n] = "busca"]
  /\ Encolar(n, LinkBroken(n))
  /\ UNCHANGED <<lider_entrada, pendientes, ant, lider_salida, sig, fase, lider,
                 eventos>>

(* tail returns with the first that connected; the listener is closed, and *)
(* the connections of the others with it.                                  *)
Aceptar(m) ==
  /\ pc_entrada[m] = "busca"
  /\ pendientes[m] # <<>>
  /\ ant' = [ant EXCEPT ![m] = Head(pendientes[m])]
  /\ pendientes' = [pendientes EXCEPT ![m] = <<>>]
  /\ pc_entrada' = [pc_entrada EXCEPT ![m] = "pasa"]
  /\ Encolar(m, Leader(m))
  /\ UNCHANGED <<lider_entrada, salida, lider, eventos>>

(* The link before the node is gone: another turn of inbound's loop. *)
DetectarCorte(m) ==
  /\ pc_entrada[m] = "pasa"
  /\ ~ Unidos(ant[m], m)
  /\ pc_entrada' = [pc_entrada EXCEPT ![m] = "busca"]
  /\ ant' = [ant EXCEPT ![m] = Nadie]
  /\ Encolar(m, LinkBroken(m))
  /\ Clean(m)
  /\ UNCHANGED <<lider_entrada, pendientes, salida, eventos>>

(* handle_loop_message: whether inbound of m passes the message on, and    *)
(* what it does to its leader.  The largest name goes round; a broken link *)
(* stops every leader it meets.                                            *)
SigueEnEntrada(m, msg) ==
  /\ msg.ttl > 0
  /\ IF msg.tipo = "Leader" THEN msg.nombre > m ELSE msg.nombre # m

(* A fault: a larger proposal or a broken link goes on, and the leader of  *)
(* the node stays.                                                         *)
RecibirSinLimpiar(m, msg) ==
  IF msg.ttl <= 0 THEN UNCHANGED <<lider_entrada, lider>>
  ELSE /\ lider_entrada' =
            IF msg.tipo = "Leader" /\ msg.nombre >= m
            THEN [lider_entrada EXCEPT ![m] = msg.nombre] ELSE lider_entrada
       /\ IF msg.tipo = "Leader" /\ msg.nombre = m
          THEN /\ leader_process' = [leader_process EXCEPT ![m] = TRUE]
               /\ UNCHANGED oyo_find
          ELSE UNCHANGED lider

Recibir(m, msg) ==
  IF msg.ttl <= 0 THEN UNCHANGED <<lider_entrada, lider>>
  ELSE /\ lider_entrada' =
            IF msg.tipo = "Leader" /\ msg.nombre >= m
            THEN [lider_entrada EXCEPT ![m] = msg.nombre] ELSE lider_entrada
       /\ IF msg.tipo = "Leader" /\ msg.nombre = m
          THEN /\ leader_process' = [leader_process EXCEPT ![m] = TRUE]
               /\ UNCHANGED oyo_find
          ELSE IF SigueEnEntrada(m, msg) THEN Clean(m)
          ELSE UNCHANGED lider

-----------------------------------------------------------------------------
(* outbound *)

(* head connects to a tail of another leader's group at once; to one of    *)
(* its own group after OWN_RING_CLOSE_TIMEWAIT and before                  *)
(* SELF_CLOSE_TIMEWAIT; to its own tail after that.                        *)
Conviene(n, m) ==
  LET otro_grupo == lider_salida[n] # lider_entrada[m] IN
    \/ n # m /\ otro_grupo
    \/ n # m /\ ~ otro_grupo /\ fase[n] = 1
    \/ n = m /\ fase[n] = 2

Conectar(n, m) ==
  /\ pc_salida[n] = "busca"
  /\ pc_entrada[m] = "busca"
  /\ Conviene(n, m)
  /\ sig' = [sig EXCEPT ![n] = m]
  /\ pendientes' = [pendientes EXCEPT ![m] = Append(@, n)]
  /\ pc_salida' = [pc_salida EXCEPT ![n] = "pasa"]
  /\ UNCHANGED <<pc_entrada, lider_entrada, ant, lider_salida, fase,
                 cola_salida, lider, eventos>>

(* outbound closes its link and goes back to head.  If it was not accepted *)
(* yet, tail will accept a connection that is dead.                        *)
CerrarSalida(n) ==
  /\ sig' = [sig EXCEPT ![n] = Nadie]
  /\ pendientes' = [m \in Nodos |->
       [i \in DOMAIN pendientes[m] |->
          IF pendientes[m][i] = n THEN Nadie ELSE pendientes[m][i]]]
  /\ pc_salida' = [pc_salida EXCEPT ![n] = "busca"]
  /\ fase' = [fase EXCEPT ![n] = 0]

(* handle_loop_message: a proposal smaller than the node stops here; of a  *)
(* larger one outbound takes the name.                                     *)
SigueEnSalida(n, msg) == msg.tipo # "Leader" \/ msg.nombre >= n

AnotarLider(n, msg) ==
  lider_salida' = IF msg.tipo = "Leader"
                  THEN [lider_salida EXCEPT ![n] = msg.nombre]
                  ELSE lider_salida

(* The next message of the queue.  outbound waits the acknowledgement of   *)
(* each, so that sending and receiving it is one step, once the link was   *)
(* accepted.                                                               *)
Enviar(n) ==
  LET msg == Head(cola_salida[n])
      resto == [cola_salida EXCEPT ![n] = Tail(@)]
      m == sig[n]
  IN
  /\ pc_salida[n] = "pasa"
  /\ cola_salida[n] # <<>>
  /\ msg.tipo # "BreakLinkForced"
  /\ IF ~ SigueEnSalida(n, msg)
     THEN cola_salida' = resto /\ UNCHANGED <<lider_entrada, lider_salida, lider>>
     ELSE /\ Unidos(n, m)
          /\ AnotarLider(n, msg)
          /\ Recibir(m, msg)
          /\ cola_salida' =
               IF SigueEnEntrada(m, msg)
               THEN ConMensaje(resto, m, [msg EXCEPT !.ttl = @ - 1])
               ELSE resto
  /\ UNCHANGED <<pc_entrada, pendientes, ant, pc_salida, sig, fase, eventos>>

(* The link is gone: the message is lost, and head starts again. *)
PerderMensaje(n) ==
  LET msg == Head(cola_salida[n]) IN
  /\ pc_salida[n] = "pasa"
  /\ cola_salida[n] # <<>>
  /\ msg.tipo # "BreakLinkForced"
  /\ SigueEnSalida(n, msg)
  /\ ~ HayEnlace(n)
  /\ AnotarLider(n, msg)
  /\ cola_salida' = [cola_salida EXCEPT ![n] = Tail(@)]
  /\ CerrarSalida(n)
  /\ UNCHANGED <<pc_entrada, lider_entrada, ant, lider, eventos>>

(* The leader asked for the link to be broken. *)
CortarPorOrden(n) ==
  /\ pc_salida[n] = "pasa"
  /\ cola_salida[n] # <<>>
  /\ Head(cola_salida[n]) = BreakLinkForced
  /\ cola_salida' = [cola_salida EXCEPT ![n] = Tail(@)]
  /\ CerrarSalida(n)
  /\ UNCHANGED <<pc_entrada, lider_entrada, ant, lider_salida, lider, eventos>>

-----------------------------------------------------------------------------
(* leader *)

(* The leader of another ring is heard of: this one answers it, asks       *)
(* outbound twice to break the link, and ends.                             *)
OtrosLideres(n) == {m \in Nodos \ {n} : leader_process[m]}

OyeFind(n) == leader_process[n] /\ (oyo_find[n] \/ OtrosLideres(n) # {})

(* A fault: the leader that hears of another ends without an answer. *)
OirSinContestar(n) ==
  /\ OyeFind(n)
  /\ leader_process' = [leader_process EXCEPT ![n] = FALSE]
  /\ oyo_find' = [oyo_find EXCEPT ![n] = FALSE]
  /\ cola_salida' = [cola_salida EXCEPT ![n] =
                       @ \o <<BreakLinkForced, BreakLinkForced>>]
  /\ UNCHANGED <<entrada, salida, eventos>>

OirFind(n) ==
  /\ OyeFind(n)
  /\ leader_process' = [leader_process EXCEPT ![n] = FALSE]
  /\ oyo_find' = [m \in Nodos |-> m # n /\ (oyo_find[m] \/ m \in OtrosLideres(n))]
  /\ cola_salida' = [cola_salida EXCEPT ![n] =
                       @ \o <<BreakLinkForced, BreakLinkForced>>]
  /\ UNCHANGED <<entrada, salida, eventos>>

(* After LEADER_REELECTION_MINIMUN without hearing of another. *)
Reelegir(n) ==
  /\ leader_process[n]
  /\ eventos > 0
  /\ eventos' = eventos - 1
  /\ Encolar(n, Leader(n))
  /\ UNCHANGED <<entrada, salida, lider>>

-----------------------------------------------------------------------------
(* The network and time *)

(* A link breaks.  inbound sees it; outbound only when it next sends. *)
Cortar(n) ==
  /\ eventos > 0
  /\ Unidos(n, sig[n])
  /\ ant' = [ant EXCEPT ![sig[n]] = Nadie]
  /\ eventos' = eventos - 1
  /\ UNCHANGED <<pc_entrada, lider_entrada, pendientes, salida, cola_salida,
                 lider>>

(* Nothing is under way but waiting: no node has a message to send, a      *)
(* broken link to find out, somebody to accept, a tail to connect to or    *)
(* another leader to hear of.                                              *)
EnCalma(n) ==
  /\ ~ OyeFind(n)
  /\ pc_entrada[n] = "pasa" => Unidos(ant[n], n)
  /\ pc_entrada[n] = "busca" => pendientes[n] = <<>>
  /\ pc_salida[n] = "pasa" => cola_salida[n] = <<>>
  /\ pc_salida[n] = "busca" =>
       \A m \in Nodos : pc_entrada[m] = "busca" => ~ Conviene(n, m)

(* A minute goes by for a node that looks for another.  It is long for     *)
(* everything else: a tail that is open is heard every LISTEN_TIMEOUT.     *)
Cuenta(n) == pc_salida[n] = "busca" /\ fase[n] < 2

PasarTiempo(n) ==
  /\ Cuenta(n)
  /\ \A m \in Nodos : EnCalma(m)
  /\ fase' = [fase EXCEPT ![n] = @ + 1]
  /\ UNCHANGED <<entrada, pc_salida, lider_salida, sig, cola_salida,
                 lider, eventos>>

(* A fault: tail begins again without a word. *)
CansarseEnSilencio(m) ==
  /\ pc_entrada[m] = "busca"
  /\ \A n \in Nodos : EnCalma(n) /\ ~ Cuenta(n)
  /\ Clean(m)
  /\ UNCHANGED <<entrada, salida, cola_salida, eventos>>

(* Nobody connected in LISTEN_RETRIES * LISTEN_TIMEOUT, which is more than *)
(* the time any head looks before it closes on itself: tail gives up, and  *)
(* the link is announced as broken once more.                              *)
Cansarse(m) ==
  /\ pc_entrada[m] = "busca"
  /\ \A n \in Nodos : EnCalma(n) /\ ~ Cuenta(n)
  /\ Encolar(m, LinkBroken(m))
  /\ Clean(m)
  /\ UNCHANGED <<entrada, salida, eventos>>

-----------------------------------------------------------------------------
PasoEntrada(n) == Aceptar(n) \/ DetectarCorte(n) \/ Cansarse(n)

PasoSalida(n) ==
  \/ \E m \in Nodos : Conectar(n, m)
  \/ Enviar(n)
  \/ PerderMensaje(n)
  \/ CortarPorOrden(n)
  \/ PasarTiempo(n)

Next ==
  \E n \in Nodos :
    \/ Arrancar(n)
    \/ PasoEntrada(n)
    \/ PasoSalida(n)
    \/ OirFind(n)
    \/ Reelegir(n)
    \/ Cortar(n)

Spec == Init /\ [][Next]_vars

SpecJusta ==
  /\ Spec
  /\ \A n \in Nodos :
       /\ WF_vars(PasoEntrada(n))
       /\ WF_vars(PasoSalida(n))
       /\ WF_vars(OirFind(n))

-----------------------------------------------------------------------------
(* Properties *)

(* The nodes that messages of n reach. *)
Alcanza(n) ==
  LET paso[i \in Nat] ==
        IF i = 0 THEN {n}
        ELSE paso[i - 1] \cup ({sig[k] : k \in paso[i - 1]} \ {Nadie})
  IN paso[Cardinality(Nodos)]

EnAnillo(n) ==
  /\ \A k \in Alcanza(n) : sig[k] # Nadie /\ Unidos(k, sig[k])
  /\ ant[n] \in Alcanza(n)

(* A closed ring in which no message travels. *)
EnReposo(n) ==
  /\ EnAnillo(n)
  /\ \A k \in Alcanza(n) : cola_salida[k] = <<>>

(* The leader of a closed ring at rest is its largest node, and there is   *)
(* no other: the broken link that stops the old leaders goes round before  *)
(* the proposal that makes the new one.                                    *)
LiderUnico ==
  \A n \in Nodos :
    leader_process[n] /\ EnReposo(n) =>
      \A k \in Alcanza(n) : k <= n /\ (leader_process[k] => k = n)

(* Every node comes to be in a closed ring: none is left for ever with a   *)
(* tail that nobody connects to, or with a link that the other end never   *)
(* accepted and it does not know is broken.                                *)
TodosEnAnillo ==
  <>[] \A n \in Nodos : pc_entrada[n] # "apagado" => EnAnillo(n)

(* Leaders of different rings do not stand side by side: each hears of the *)
(* other, and their rings are broken to make one.                          *)
UnSoloLider ==
  <>[] \A m, n \in Nodos : leader_process[m] /\ leader_process[n] => m = n
=============================================================================
