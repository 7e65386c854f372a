----------------------- MODULE TokensDistribuidosProofs ----------------------
(***************************************************************************)
(* The tokens that go round the clients are semaphores and locks, for any  *)
(* groups with any clients in any slots.                                   *)
(***************************************************************************)
EXTENDS TokensDistribuidos, FiniteSetTheorems, LemasGenerales

-----------------------------------------------------------------------------
(* The invariant *)

PcComm == {"recibe", "compara", "entrega", "reenvia", "presta", "devuelve"}
Mensajes == [hacia : {"cliente", "broker"}, dato : Datos]

(* The queues, the messages, and where everybody is. *)
Tipos ==
  /\ cola_token_manager \in [Grupos -> Nat]
  /\ memoria_grupo \in [Memorias -> Datos]
  /\ cola \in [Membresias -> Nat]
  /\ red \in [DeMemorias -> Mensajes \cup {SinMensaje}]
  /\ pc_comm \in [Membresias -> PcComm]
  /\ token_local \in [Membresias -> Nat]
  /\ a_devolver \in [Membresias -> Nat]
  /\ memoria_local \in [DeMemorias -> Datos]
  /\ token_esperando \in [Procesos -> Grupos \cup {Ninguno}]
  /\ pc_app \in [Procesos -> {"afuera", "espera", "obtuvo", "dentro"}]
  /\ recurso \in [Procesos -> Grupos \cup {Ninguno}]
  /\ leido \in [Procesos -> Datos]

(* An application asks for groups it is a client of, and only a memory is  *)
(* unlocked.                                                               *)
PedidosCoherentes ==
  \A p \in Procesos :
    /\ pc_app[p] # "afuera" => recurso[p] \in Grupos /\ p \in Clientes[recurso[p]]
    /\ pc_app[p] = "dentro" => recurso[p] \in Memorias

(* Neither the application of client c nor its two local semaphores have   *)
(* anything of the memory.                                                 *)
SinPrestar(c) ==
  token_local[c] = 0 /\ a_devolver[c] = 0 /\ ~ TieneCerrojo(c[2], c[1])

(* The token was lent, and is in one of the three. *)
Prestado(c) ==
  IF TieneCerrojo(c[2], c[1])
  THEN token_local[c] = 0 /\ a_devolver[c] = 0
  ELSE \/ token_local[c] = 1 /\ a_devolver[c] = 0
       \/ token_local[c] = 0 /\ a_devolver[c] = 1

(* Nothing of the memory is with client c. *)
NoLaTiene(c) ==
  cola[c] = 0 /\ red[c] = SinMensaje /\ pc_comm[c] = "recibe" /\ SinPrestar(c)

(* The token is with client c: in its queue, in its socket, either way, or *)
(* with its local_broker_comm, which may have lent it.                     *)
LaTiene(c) ==
  \/ cola[c] = 1 /\ red[c] = SinMensaje /\ pc_comm[c] = "recibe" /\ SinPrestar(c)
  \/ cola[c] = 0 /\ red[c] # SinMensaje /\ pc_comm[c] = "recibe" /\ SinPrestar(c)
  \/ /\ cola[c] = 0 /\ red[c] = SinMensaje
     /\ pc_comm[c] \in {"compara", "entrega", "reenvia", "devuelve"}
     /\ SinPrestar(c)
  \/ cola[c] = 0 /\ red[c] = SinMensaje /\ pc_comm[c] = "presta" /\ Prestado(c)

(* The token of a memory is in one place. *)
UnLugar(m) ==
  \/ /\ cola_token_manager[m] = 1
     /\ \A p \in Clientes[m] : NoLaTiene(<<m, p>>)
  \/ /\ cola_token_manager[m] = 0
     /\ \E p \in Clientes[m] :
          LaTiene(<<m, p>>) /\ \A q \in Clientes[m] \ {p} : NoLaTiene(<<m, q>>)

(* The inductive invariant.  One lock at a time is not inductive: that the *)
(* token comes back only after it was lent takes where it is in between.   *)
Invariante == Tipos /\ PedidosCoherentes /\ \A m \in Memorias : UnLugar(m)

-----------------------------------------------------------------------------
(* Groups and clients *)

(* A client of a group has a slot in it; of a memory, a socket with its    *)
(* contents too.                                                           *)
LEMMA MembresiaDe ==
  ASSUME NEW g \in Grupos, NEW p \in Clientes[g]
  PROVE  /\ p \in Procesos /\ <<g, p>> \in Membresias
         /\ g \in Memorias => <<g, p>> \in DeMemorias
  <1>1. p \in Procesos
    BY SuposicionTokens
  <1> QED  BY <1>1 DEF Membresias, DeMemorias, DelGrupo

(* The pairs that index the queues are a group and one of its clients.     *)
LEMMA PartesDe ==
  ASSUME NEW c \in Membresias
  PROVE  /\ c = <<c[1], c[2]>>
         /\ c[1] \in Grupos /\ c[2] \in Procesos /\ c[2] \in Clientes[c[1]]
         /\ c \in DeMemorias <=> c[1] \in Memorias
  BY DEF Membresias, DeMemorias, DelGrupo

(* The pairs of the memories are some of those.                            *)
LEMMA DeMemoriasSonMembresias ==
  /\ DeMemorias \subseteq Membresias
  /\ \A c \in DeMemorias : c[1] \in Memorias
  BY DEF Membresias, DeMemorias, DelGrupo, Grupos

(* The next client of a group, the first one after the last or the first   *)
(* of all, is one of its clients (pasar_token_a_proximo_cliente).          *)
LEMMA ProximoEsCliente ==
  ASSUME NEW g \in Grupos
  PROVE  ProximoCliente(g) \in Clientes[g]
  <1> DEFINE despues == {p \in Clientes[g] : p > cliente_actual[g]}
             S == IF despues # {} THEN despues ELSE Clientes[g]
  <1>1. Clientes[g] \in SUBSET Procesos /\ Clientes[g] # {}
    BY SuposicionTokens
  <1>2. S \in SUBSET Nat /\ S # {} /\ S \subseteq Clientes[g]
    BY <1>1 DEF Procesos
  <1>3. \E n \in S : \A k \in S : n <= k
    <2> HIDE DEF S
    <2> QED  BY <1>2, MinimoDeNaturales
  <1>4. Min(S) \in S
    <2> HIDE DEF S
    <2> QED  BY <1>3 DEF Min
  <1>5. ProximoCliente(g) = Min(S)
    BY DEF ProximoCliente
  <1> QED  BY <1>2, <1>4, <1>5

-----------------------------------------------------------------------------
(* Types *)

(* What the broker and local_broker_comm do keeps queues, messages and     *)
(* places within their types.                                              *)
LEMMA TiposDelComm ==
  ASSUME Tipos,
         \/ \E g \in Grupos : PasarToken(g)
         \/ \E c \in DeMemorias : PasoManejador(c)
         \/ \E c \in Membresias : PasoComm(c) \/ DevolverToken(c)
  PROVE  Tipos'
  <1> USE DEF Tipos
  <1>1. ASSUME NEW g \in Grupos, PasarToken(g) PROVE Tipos'
    <2>1. <<g, ProximoCliente(g)>> \in Membresias
      BY ProximoEsCliente, MembresiaDe
    <2> QED  BY <1>1, <2>1 DEF PasarToken, comm, app
  <1>2. ASSUME NEW c \in DeMemorias, EnviarMemoria(c) PROVE Tipos'
    <2>1. c \in Membresias /\ c[1] \in Memorias
      BY DeMemoriasSonMembresias
    <2> QED  BY <1>2, <2>1 DEF EnviarMemoria, comm, app, Mensajes
  <1>3. ASSUME NEW c \in DeMemorias, GuardarMemoria(c) PROVE Tipos'
    <2>1. c[1] \in Memorias /\ c[1] \in Grupos
      BY DeMemoriasSonMembresias DEF Grupos
    <2>2. red[c] \in Mensajes
      BY <1>3 DEF GuardarMemoria
    <2> QED  BY <1>3, <2>1, <2>2 DEF GuardarMemoria, comm, app, Mensajes
  <1>4. ASSUME NEW c \in Membresias, RecibirToken(c) PROVE Tipos'
    BY <1>4 DEF RecibirToken, IrA, PcComm, app
  <1>5. ASSUME NEW c \in DeMemorias, RecibirMemoria(c) PROVE Tipos'
    <2>1. c \in Membresias
      BY DeMemoriasSonMembresias
    <2>2. red[c] \in Mensajes
      BY <1>5 DEF RecibirMemoria
    <2> QED  BY <1>5, <2>1, <2>2 DEF RecibirMemoria, IrA, PcComm, app, Mensajes
  <1>6. ASSUME NEW c \in DeMemorias, EsperarToken(c) PROVE Tipos'
    <2>1. c \in Membresias
      BY DeMemoriasSonMembresias
    <2> QED  BY <1>6, <2>1 DEF EsperarToken, IrA, PcComm, broker, app
  <1>7. ASSUME NEW c \in DeMemorias, DevolverMemoria(c) PROVE Tipos'
    <2>1. c \in Membresias
      BY DeMemoriasSonMembresias
    <2> QED  BY <1>7, <2>1 DEF DevolverMemoria, IrA, PcComm, app, Mensajes
  <1>8. ASSUME NEW c \in Membresias, Comparar(c) PROVE Tipos'
    BY <1>8 DEF Comparar, IrA, PcComm, broker, app
  <1>9. ASSUME NEW c \in Membresias, Entregar(c) PROVE Tipos'
    BY <1>9 DEF Entregar, IrA, PcComm, broker, app
  <1>10. ASSUME NEW c \in Membresias, Reenviar(c) PROVE Tipos'
    BY <1>10 DEF Reenviar, IrA, PcComm, broker, app
  <1>11. ASSUME NEW c \in Membresias, DevolverToken(c) PROVE Tipos'
    <2>1. c[1] \in Grupos
      BY PartesDe
    <2> QED  BY <1>11, <2>1 DEF DevolverToken, app
  <1> QED
    BY <1>1, <1>2, <1>3, <1>4, <1>5, <1>6, <1>7, <1>8, <1>9, <1>10, <1>11
       DEF PasoManejador, PasoComm

(* An application that is in a call asked for a group it is a client of.   *)
LEMMA GrupoPedido ==
  ASSUME PedidosCoherentes, Tipos, NEW p \in Procesos, pc_app[p] # "afuera"
  PROVE  /\ recurso[p] \in Grupos /\ p \in Clientes[recurso[p]]
         /\ <<recurso[p], p>> \in Membresias
         /\ recurso[p] \in Memorias => <<recurso[p], p>> \in DeMemorias
         /\ pc_app[p] = "dentro" => recurso[p] \in Memorias
  <1>1. recurso[p] \in Grupos /\ p \in Clientes[recurso[p]]
    BY DEF PedidosCoherentes
  <1>2. pc_app[p] = "dentro" => recurso[p] \in Memorias
    BY DEF PedidosCoherentes
  <1> QED  BY <1>1, <1>2, MembresiaDe

(* The calls of the application keep the types and ask for groups that the *)
(* process is a client of.                                                 *)
LEMMA TiposDeLaApp ==
  ASSUME Tipos, PedidosCoherentes, NEW p \in Procesos,
         \/ PasoApp(p)
         \/ \E g \in Grupos : Pedir(p, g)
         \/ \E d \in Datos : Escribir(p, d)
         \/ \E s \in Semaforos : Senializar(p, s)
  PROVE  Tipos' /\ PedidosCoherentes'
  <1> USE DEF Tipos
  <1>1. CASE Obtener(p)
    <2>1. /\ <<recurso[p], p>> \in Membresias
          /\ recurso[p] \in Memorias => <<recurso[p], p>> \in DeMemorias
      BY <1>1, GrupoPedido DEF Obtener
    <2>2. Tipos'
      BY <1>1, <2>1 DEF Obtener, broker
    <2>3. PedidosCoherentes'
      BY <1>1 DEF PedidosCoherentes, Obtener
    <2> QED  BY <2>2, <2>3
  <1>2. CASE Limpiar(p)
    <2>1. Tipos'
      BY <1>2 DEF Limpiar, broker, comm
    <2>2. PedidosCoherentes'
      BY <1>2 DEF PedidosCoherentes, Limpiar
    <2> QED  BY <2>1, <2>2
  <1>3. CASE Soltar(p)
    <2>1. <<recurso[p], p>> \in Membresias
      BY <1>3, GrupoPedido DEF Soltar
    <2>2. Tipos'
      BY <1>3, <2>1 DEF Soltar, broker
    <2>3. PedidosCoherentes'
      BY <1>3 DEF PedidosCoherentes, Soltar
    <2> QED  BY <2>2, <2>3
  <1>4. ASSUME NEW g \in Grupos, Pedir(p, g) PROVE Tipos' /\ PedidosCoherentes'
    <2>1. Tipos'
      BY <1>4 DEF Pedir, broker, comm
    <2>2. PedidosCoherentes'
      BY <1>4 DEF PedidosCoherentes, Pedir
    <2> QED  BY <2>1, <2>2
  <1>5. ASSUME NEW d \in Datos, Escribir(p, d) PROVE Tipos' /\ PedidosCoherentes'
    <2>1. <<recurso[p], p>> \in DeMemorias
      BY <1>5, GrupoPedido DEF Escribir
    <2>2. Tipos'
      BY <1>5, <2>1 DEF Escribir, broker, app
    <2>3. PedidosCoherentes'
      BY <1>5 DEF PedidosCoherentes, Escribir, app
    <2> QED  BY <2>2, <2>3
  <1>6. ASSUME NEW s \in Semaforos, Senializar(p, s)
        PROVE  Tipos' /\ PedidosCoherentes'
    <2>1. <<s, p>> \in Membresias
      BY <1>6, MembresiaDe DEF Senializar, Grupos
    <2>2. Tipos'
      BY <1>6, <2>1 DEF Senializar, broker
    <2>3. PedidosCoherentes'
      BY <1>6 DEF PedidosCoherentes, Senializar
    <2> QED  BY <2>2, <2>3
  <1> QED  BY <1>1, <1>2, <1>3, <1>4, <1>5, <1>6 DEF PasoApp

-----------------------------------------------------------------------------
(* The token of a memory *)

(* What a step keeps of a client of a memory: it has the token after the   *)
(* step if it had it before, and only then.                                *)
Conserva(c) ==
  (LaTiene(c) => LaTiene(c)') /\ (NoLaTiene(c) => NoLaTiene(c)')

(* A step that leaves the token with the client that has it, or in the     *)
(* queue of token_manager, leaves it in one place.                         *)
LEMMA UnLugarSigue ==
  ASSUME NEW m \in Memorias, UnLugar(m),
         cola_token_manager'[m] = cola_token_manager[m],
         \A p \in Clientes[m] : Conserva(<<m, p>>)
  PROVE  UnLugar(m)'
  <1> HIDE DEF LaTiene, NoLaTiene
  <1>1. \A p \in Clientes[m] :
          /\ LaTiene(<<m, p>>) => LaTiene(<<m, p>>)'
          /\ NoLaTiene(<<m, p>>) => NoLaTiene(<<m, p>>)'
    BY DEF Conserva
  <1>2. CASE /\ cola_token_manager[m] = 1
             /\ \A p \in Clientes[m] : NoLaTiene(<<m, p>>)
    BY <1>1, <1>2 DEF UnLugar
  <1>3. CASE /\ cola_token_manager[m] = 0
             /\ \E p \in Clientes[m] :
                  LaTiene(<<m, p>>) /\ \A q \in Clientes[m] \ {p} : NoLaTiene(<<m, q>>)
    BY <1>1, <1>3 DEF UnLugar
  <1> QED  BY <1>2, <1>3 DEF UnLugar

(* What is with a client depends on its own queues and places.             *)
LEMMA OtroCliente ==
  ASSUME NEW c,
         cola'[c] = cola[c], red'[c] = red[c], pc_comm'[c] = pc_comm[c],
         token_local'[c] = token_local[c], a_devolver'[c] = a_devolver[c],
         TieneCerrojo(c[2], c[1])' <=> TieneCerrojo(c[2], c[1])
  PROVE  Conserva(c)
  BY DEF Conserva, LaTiene, NoLaTiene, SinPrestar, Prestado

(* The handler sends the memory that came with the token, token_manager    *)
(* takes no part.                                                          *)
LEMMA ConservaEnviar ==
  ASSUME Invariante, NEW c \in DeMemorias, EnviarMemoria(c), NEW d \in DeMemorias
  PROVE  Conserva(d)
  <1>1. c \in Membresias /\ d \in Membresias /\ c[1] \in Memorias
    BY DeMemoriasSonMembresias
  <1>2. CASE d # c
    <2>1. cola'[d] = cola[d] /\ red'[d] = red[d]
      BY <1>1, <1>2 DEF EnviarMemoria, Invariante, Tipos
    <2> QED
      BY <2>1, OtroCliente DEF EnviarMemoria, comm, app, TieneCerrojo
  <1>3. CASE d = c
    <2>1. /\ red'[c] = [hacia |-> "cliente", dato |-> memoria_grupo[c[1]]]
          /\ cola'[c] = cola[c] - 1 /\ cola[c] > 0
          /\ UNCHANGED <<pc_comm, token_local, a_devolver, pc_app, recurso>>
      BY <1>1 DEF EnviarMemoria, Invariante, Tipos, comm, app
    <2>2. red'[c] # SinMensaje
      BY <1>1, <2>1, SuposicionTokens DEF Invariante, Tipos
    <2>3. SinPrestar(c)' <=> SinPrestar(c)
      BY <2>1 DEF SinPrestar, TieneCerrojo
    <2> QED
      BY <1>3, <2>1, <2>2, <2>3 DEF Conserva, LaTiene, NoLaTiene
  <1> QED  BY <1>2, <1>3

(* local_broker_comm takes the memory from the socket.                     *)
LEMMA ConservaRecibir ==
  ASSUME Invariante, NEW c \in DeMemorias, RecibirMemoria(c), NEW d \in DeMemorias
  PROVE  Conserva(d)
  <1>1. c \in Membresias /\ d \in Membresias
    BY DeMemoriasSonMembresias
  <1>2. CASE d # c
    <2>1. red'[d] = red[d] /\ pc_comm'[d] = pc_comm[d]
      BY <1>1, <1>2 DEF RecibirMemoria, IrA, Invariante, Tipos
    <2> QED
      BY <2>1, OtroCliente DEF RecibirMemoria, app, TieneCerrojo
  <1>3. CASE d = c
    <2>1. /\ red[c] # SinMensaje /\ red'[c] = SinMensaje
          /\ pc_comm[c] = "recibe" /\ pc_comm'[c] = "compara"
          /\ UNCHANGED <<cola, token_local, a_devolver, pc_app, recurso>>
      BY <1>1 DEF RecibirMemoria, IrA, Invariante, Tipos, app
    <2>2. SinPrestar(c)' <=> SinPrestar(c)
      BY <2>1 DEF SinPrestar, TieneCerrojo
    <2> QED
      BY <1>3, <2>1, <2>2 DEF Conserva, LaTiene, NoLaTiene
  <1> QED  BY <1>2, <1>3

(* local_broker_comm sends the memory back.                                *)
LEMMA ConservaDevolver ==
  ASSUME Invariante, NEW c \in DeMemorias, DevolverMemoria(c), NEW d \in DeMemorias
  PROVE  Conserva(d)
  <1>1. c \in Membresias /\ d \in Membresias
    BY DeMemoriasSonMembresias
  <1>2. CASE d # c
    <2>1. red'[d] = red[d] /\ pc_comm'[d] = pc_comm[d]
      BY <1>1, <1>2 DEF DevolverMemoria, IrA, Invariante, Tipos
    <2> QED
      BY <2>1, OtroCliente DEF DevolverMemoria, app, TieneCerrojo
  <1>3. CASE d = c
    <2>1. /\ red'[c] = [hacia |-> "broker", dato |-> memoria_local[c]]
          /\ pc_comm[c] = "devuelve" /\ pc_comm'[c] = "recibe"
          /\ UNCHANGED <<cola, token_local, a_devolver, pc_app, recurso>>
      BY <1>1 DEF DevolverMemoria, IrA, Invariante, Tipos, app
    <2>2. red'[c] # SinMensaje
      BY <2>1, SuposicionTokens DEF Invariante, Tipos
    <2>3. SinPrestar(c)' <=> SinPrestar(c)
      BY <2>1 DEF SinPrestar, TieneCerrojo
    <2> QED
      BY <1>3, <2>1, <2>2, <2>3 DEF Conserva, LaTiene, NoLaTiene
  <1> QED  BY <1>2, <1>3

(* ControlTokens: local_broker_comm asks whether to lend the token, lends  *)
(* it or is told to send it back, and waits until it is given back.  The   *)
(* token of a semaphore does none of it to those of the memories.          *)
LEMMA ConservaControl ==
  ASSUME Invariante, NEW c \in Membresias, NEW d \in DeMemorias,
         \/ Comparar(c)
         \/ Entregar(c)
         \/ Reenviar(c)
         \/ c \in DeMemorias /\ EsperarToken(c)
  PROVE  Conserva(d)
  <1>1. d \in Membresias /\ d[1] \in Memorias
    BY DeMemoriasSonMembresias
  <1>2. /\ UNCHANGED <<cola, red, pc_app, recurso>>
        /\ TieneCerrojo(d[2], d[1])' <=> TieneCerrojo(d[2], d[1])
    BY DEF Comparar, Entregar, Reenviar, EsperarToken, broker, app, TieneCerrojo
  <1>3. CASE d # c
    <2>1. /\ pc_comm'[d] = pc_comm[d] /\ token_local'[d] = token_local[d]
          /\ a_devolver'[d] = a_devolver[d]
      BY <1>1, <1>3 DEF Comparar, Entregar, Reenviar, EsperarToken, IrA,
         Invariante, Tipos
    <2> QED  BY <1>2, <2>1, OtroCliente
  <1>4. CASE d = c /\ Comparar(c)
    <2>1. /\ pc_comm[c] = "compara" /\ pc_comm'[c] \in {"entrega", "reenvia"}
          /\ UNCHANGED <<token_local, a_devolver>>
      BY <1>4 DEF Comparar, IrA, Invariante, Tipos
    <2> QED
      BY <1>2, <1>4, <2>1 DEF Conserva, LaTiene, NoLaTiene, SinPrestar
  <1>5. CASE d = c /\ Entregar(c)
    <2>1. /\ pc_comm[c] = "entrega" /\ pc_comm'[c] = "presta"
          /\ token_local'[c] = token_local[c] + 1 /\ UNCHANGED a_devolver
      BY <1>1, <1>5 DEF Entregar, IrA, Invariante, Tipos
    <2> QED
      BY <1>2, <1>5, <2>1 DEF Conserva, LaTiene, NoLaTiene, SinPrestar, Prestado
  <1>6. CASE d = c /\ Reenviar(c)
    <2>1. /\ pc_comm[c] = "reenvia" /\ pc_comm'[c] = "devuelve"
          /\ UNCHANGED <<token_local, a_devolver>>
      BY <1>1, <1>6 DEF Reenviar, IrA, Invariante, Tipos
    <2> QED
      BY <1>2, <1>6, <2>1 DEF Conserva, LaTiene, NoLaTiene, SinPrestar
  <1>7. CASE d = c /\ EsperarToken(c)
    <2>1. /\ pc_comm[c] = "presta" /\ pc_comm'[c] = "devuelve"
          /\ a_devolver[c] > 0 /\ a_devolver'[c] = a_devolver[c] - 1
          /\ UNCHANGED token_local
      BY <1>1, <1>7 DEF EsperarToken, IrA, Invariante, Tipos
    <2> QED
      BY <1>2, <1>7, <2>1 DEF Conserva, LaTiene, NoLaTiene, SinPrestar, Prestado
  <1> QED  BY <1>3, <1>4, <1>5, <1>6, <1>7

(* The tokens of the semaphores do not touch those of the memories.        *)
LEMMA ConservaSemaforo ==
  ASSUME Invariante, NEW d \in DeMemorias,
         \/ \E c \in Membresias : RecibirToken(c) \/ DevolverToken(c)
         \/ \E p \in Procesos, s \in Semaforos : Senializar(p, s)
  PROVE  Conserva(d)
  <1>1. d \in Membresias /\ d[1] \in Memorias
    BY DeMemoriasSonMembresias
  <1>2. ASSUME NEW c \in Membresias, RecibirToken(c) PROVE Conserva(d)
    <2>1. d # c
      BY <1>1, <1>2, SuposicionTokens DEF RecibirToken
    <2>2. cola'[d] = cola[d] /\ pc_comm'[d] = pc_comm[d]
      BY <1>1, <1>2, <2>1 DEF RecibirToken, IrA, Invariante, Tipos
    <2> QED
      BY <1>2, <2>2, OtroCliente DEF RecibirToken, app, TieneCerrojo
  <1>3. ASSUME NEW c \in Membresias, DevolverToken(c) PROVE Conserva(d)
    <2>1. d # c
      BY <1>1, <1>3, SuposicionTokens DEF DevolverToken
    <2>2. a_devolver'[d] = a_devolver[d]
      BY <1>1, <1>3, <2>1 DEF DevolverToken, Invariante, Tipos
    <2> QED
      BY <1>3, <2>2, OtroCliente DEF DevolverToken, app, TieneCerrojo
  <1>4. ASSUME NEW p \in Procesos, NEW s \in Semaforos, Senializar(p, s)
        PROVE  Conserva(d)
    <2>1. d # <<s, p>>
      BY <1>1, SuposicionTokens
    <2>2. a_devolver'[d] = a_devolver[d]
      BY <1>1, <1>4, <2>1 DEF Senializar, Invariante, Tipos
    <2> QED
      BY <1>4, <2>2, OtroCliente DEF Senializar, broker, TieneCerrojo
  <1> QED  BY <1>2, <1>3, <1>4

(* The application asks, gets the token that was lent to it, clears the    *)
(* name, and writes; with the lock of a memory it is the one that was lent *)
(* the token, until unlock.                                                *)
LEMMA ConservaApp ==
  ASSUME Invariante, NEW p \in Procesos, NEW d \in DeMemorias,
         \/ PasoApp(p)
         \/ \E g \in Grupos : Pedir(p, g)
         \/ \E x \in Datos : Escribir(p, x)
  PROVE  Conserva(d)
  <1> DEFINE c == <<recurso[p], p>>
  <1>1. d \in Membresias /\ d[1] \in Memorias /\ d[2] \in Procesos /\ d = <<d[1], d[2]>>
    BY DeMemoriasSonMembresias, PartesDe
  <1>2. CASE Obtener(p)
    <2>1. c \in Membresias /\ pc_app[p] = "espera" /\ pc_app' = [pc_app EXCEPT ![p] = "obtuvo"]
      BY <1>2, GrupoPedido DEF Obtener, Invariante
    <2>2. /\ token_local[c] > 0
          /\ token_local' = [token_local EXCEPT ![c] = @ - 1]
          /\ UNCHANGED <<cola, red, pc_comm, a_devolver, recurso>>
      BY <1>2 DEF Obtener, broker
    <2>3. CASE d # c
      <3>1. token_local'[d] = token_local[d]
        BY <1>1, <2>2, <2>3 DEF Invariante, Tipos
      <3>2. TieneCerrojo(d[2], d[1])' <=> TieneCerrojo(d[2], d[1])
        BY <1>1, <2>1, <2>2, <2>3 DEF TieneCerrojo, Invariante, Tipos
      <3> QED  BY <2>2, <3>1, <3>2, OtroCliente
    <2>4. CASE d = c
      <3>1. token_local'[d] = token_local[d] - 1 /\ token_local[d] > 0
        BY <2>1, <2>2, <2>4 DEF Invariante, Tipos
      <3>2. TieneCerrojo(d[2], d[1])' /\ ~ TieneCerrojo(d[2], d[1])
        BY <1>1, <2>1, <2>2, <2>4 DEF TieneCerrojo, Invariante, Tipos
      <3> QED
        BY <2>2, <3>1, <3>2 DEF Conserva, LaTiene, NoLaTiene, SinPrestar, Prestado
    <2> QED  BY <2>3, <2>4
  <1>3. CASE Limpiar(p)
    <2>1. /\ pc_app[p] = "obtuvo"
          /\ pc_app' = [pc_app EXCEPT ![p] =
                          IF recurso[p] \in Memorias THEN "dentro" ELSE "afuera"]
          /\ UNCHANGED <<cola, red, pc_comm, token_local, a_devolver, recurso>>
      BY <1>3 DEF Limpiar, broker, comm
    <2>2. TieneCerrojo(d[2], d[1])' <=> TieneCerrojo(d[2], d[1])
      BY <1>1, <2>1 DEF TieneCerrojo, Invariante, Tipos
    <2> QED  BY <2>1, <2>2, OtroCliente
  <1>4. CASE Soltar(p)
    <2>1. /\ c \in Membresias /\ pc_app[p] = "dentro"
          /\ pc_app' = [pc_app EXCEPT ![p] = "afuera"]
      BY <1>4, GrupoPedido DEF Soltar, Invariante
    <2>2. /\ a_devolver' = [a_devolver EXCEPT ![c] = @ + 1]
          /\ UNCHANGED <<cola, red, pc_comm, token_local, recurso>>
      BY <1>4 DEF Soltar, broker
    <2>3. CASE d # c
      <3>1. a_devolver'[d] = a_devolver[d]
        BY <1>1, <2>2, <2>3 DEF Invariante, Tipos
      <3>2. TieneCerrojo(d[2], d[1])' <=> TieneCerrojo(d[2], d[1])
        BY <1>1, <2>1, <2>2, <2>3 DEF TieneCerrojo, Invariante, Tipos
      <3> QED  BY <2>2, <3>1, <3>2, OtroCliente
    <2>4. CASE d = c
      <3>1. a_devolver'[d] = a_devolver[d] + 1
        BY <2>1, <2>2, <2>4 DEF Invariante, Tipos
      <3>2. ~ TieneCerrojo(d[2], d[1])' /\ TieneCerrojo(d[2], d[1])
        BY <1>1, <2>1, <2>2, <2>4 DEF TieneCerrojo, Invariante, Tipos
      <3> QED
        BY <2>2, <3>1, <3>2 DEF Conserva, LaTiene, NoLaTiene, SinPrestar, Prestado
    <2> QED  BY <2>3, <2>4
  <1>5. ASSUME NEW g \in Grupos, Pedir(p, g) PROVE Conserva(d)
    <2>1. /\ pc_app[p] = "afuera" /\ pc_app' = [pc_app EXCEPT ![p] = "espera"]
          /\ recurso' = [recurso EXCEPT ![p] = g]
          /\ UNCHANGED <<cola, red, pc_comm, token_local, a_devolver>>
      BY <1>5 DEF Pedir, broker, comm
    <2>2. TieneCerrojo(d[2], d[1])' <=> TieneCerrojo(d[2], d[1])
      BY <1>1, <2>1 DEF TieneCerrojo, Invariante, Tipos
    <2> QED  BY <2>1, <2>2, OtroCliente
  <1>6. ASSUME NEW x \in Datos, Escribir(p, x) PROVE Conserva(d)
    BY <1>6, OtroCliente DEF Escribir, broker, app, TieneCerrojo
  <1> QED  BY <1>2, <1>3, <1>4, <1>5, <1>6 DEF PasoApp

(* token_manager passes the token of the memory to the queue of its next   *)
(* client.                                                                 *)
LEMMA UnLugarAlPasar ==
  ASSUME Invariante, NEW g \in Grupos, PasarToken(g), NEW m \in Memorias
  PROVE  UnLugar(m)'
  <1>0. PICK q \in Clientes[g] : q = ProximoCliente(g)
    BY ProximoEsCliente
  <1> DEFINE c == <<g, q>>
  <1>1. /\ c \in Membresias /\ q \in Clientes[g] /\ m \in Grupos
        /\ cola_token_manager[g] > 0
        /\ cola_token_manager' = [cola_token_manager EXCEPT ![g] = @ - 1]
        /\ cola' = [cola EXCEPT ![c] = @ + 1]
        /\ UNCHANGED <<red, pc_comm, token_local, a_devolver, pc_app, recurso>>
    BY <1>0, MembresiaDe DEF PasarToken, comm, app, Grupos
  <1>2. UnLugar(m)
    BY DEF Invariante
  <1>3. CASE m # g
    <2>1. cola_token_manager'[m] = cola_token_manager[m]
      BY <1>1, <1>3 DEF Invariante, Tipos
    <2>2. ASSUME NEW p \in Clientes[m] PROVE Conserva(<<m, p>>)
      <3>1. <<m, p>> \in Membresias /\ <<m, p>> # c
        BY <1>1, <1>3, MembresiaDe
      <3>2. cola'[<<m, p>>] = cola[<<m, p>>]
        BY <1>1, <3>1 DEF Invariante, Tipos
      <3> HIDE DEF c
      <3> QED  BY <1>1, <3>2, OtroCliente DEF TieneCerrojo
    <2> QED  BY <1>2, <2>1, <2>2, UnLugarSigue
  <1>4. CASE m = g
    <2>1. /\ cola_token_manager[m] = 1
          /\ \A p \in Clientes[m] : NoLaTiene(<<m, p>>)
      BY <1>1, <1>2, <1>4 DEF UnLugar
    <2>2. cola_token_manager'[m] = 0
      BY <1>1, <1>4, <2>1 DEF Invariante, Tipos
    <2>3. LaTiene(<<m, q>>)'
      <3>1. cola'[c] = cola[c] + 1 /\ NoLaTiene(c)
        BY <1>1, <1>4, <2>1 DEF Invariante, Tipos
      <3>2. cola'[c] = 1 /\ red'[c] = SinMensaje /\ pc_comm'[c] = "recibe"
        BY <1>1, <3>1 DEF NoLaTiene
      <3>3. SinPrestar(c)'
        BY <1>1, <3>1 DEF NoLaTiene, SinPrestar, TieneCerrojo
      <3>4. LaTiene(c)'
        BY <3>2, <3>3 DEF LaTiene
      <3> QED  BY <1>4, <3>4
    <2>4. ASSUME NEW p \in Clientes[m] \ {q} PROVE NoLaTiene(<<m, p>>)'
      <3>1. <<m, p>> \in Membresias /\ <<m, p>> # c
        BY <1>1, MembresiaDe
      <3>2. cola'[<<m, p>>] = cola[<<m, p>>]
        BY <1>1, <3>1 DEF Invariante, Tipos
      <3>3. NoLaTiene(<<m, p>>)
        BY <2>1
      <3> HIDE DEF c
      <3>4. Conserva(<<m, p>>)
        BY <1>1, <3>2, OtroCliente DEF TieneCerrojo
      <3> QED  BY <3>3, <3>4 DEF Conserva
    <2> HIDE DEF LaTiene, NoLaTiene
    <2> QED  BY <1>1, <1>4, <2>2, <2>3, <2>4 DEF UnLugar
  <1> QED  BY <1>3, <1>4

(* The handler gets the memory back and gives the token to token_manager.  *)
LEMMA UnLugarAlGuardar ==
  ASSUME Invariante, NEW c \in DeMemorias, GuardarMemoria(c), NEW m \in Memorias
  PROVE  UnLugar(m)'
  <1>1. /\ c \in Membresias /\ c[1] \in Memorias /\ m \in Grupos
        /\ c[2] \in Clientes[c[1]] /\ c = <<c[1], c[2]>>
    BY DeMemoriasSonMembresias, PartesDe DEF Grupos
  <1>2. /\ red[c] # SinMensaje /\ red' = [red EXCEPT ![c] = SinMensaje]
        /\ cola_token_manager' = [cola_token_manager EXCEPT ![c[1]] = @ + 1]
        /\ UNCHANGED <<cola, pc_comm, token_local, a_devolver, pc_app, recurso>>
    BY DEF GuardarMemoria, comm, app
  <1>3. UnLugar(m)
    BY DEF Invariante
  <1>4. ASSUME NEW p \in Clientes[m], <<m, p>> # c PROVE Conserva(<<m, p>>)
    <2>1. <<m, p>> \in DeMemorias
      BY MembresiaDe DEF Grupos
    <2>2. red'[<<m, p>>] = red[<<m, p>>]
      BY <1>2, <1>4, <2>1 DEF Invariante, Tipos
    <2> QED  BY <1>2, <2>2, OtroCliente DEF TieneCerrojo
  <1>5. CASE m # c[1]
    <2>1. cola_token_manager'[m] = cola_token_manager[m]
      BY <1>1, <1>2, <1>5 DEF Invariante, Tipos
    <2>2. \A p \in Clientes[m] : Conserva(<<m, p>>)
      BY <1>1, <1>4, <1>5
    <2> QED  BY <1>3, <2>1, <2>2, UnLugarSigue
  <1>6. CASE m = c[1]
    <2>1. c[2] \in Clientes[m] /\ c = <<m, c[2]>> /\ ~ NoLaTiene(c)
      BY <1>1, <1>2, <1>6 DEF NoLaTiene
    <2>2. /\ cola_token_manager[m] = 0 /\ LaTiene(c)
          /\ \A q \in Clientes[m] \ {c[2]} : NoLaTiene(<<m, q>>)
      <3> HIDE DEF LaTiene, NoLaTiene
      <3>1. PICK p \in Clientes[m] :
              /\ cola_token_manager[m] = 0 /\ LaTiene(<<m, p>>)
              /\ \A q \in Clientes[m] \ {p} : NoLaTiene(<<m, q>>)
        BY <1>3, <2>1 DEF UnLugar
      <3>2. p = c[2]
        BY <2>1, <3>1
      <3> QED  BY <2>1, <3>1, <3>2
    <2>3. cola_token_manager'[m] = 1
      BY <1>1, <1>2, <1>6, <2>2 DEF Invariante, Tipos
    <2>4. NoLaTiene(c)'
      <3>1. red'[c] = SinMensaje
        BY <1>2 DEF Invariante, Tipos
      <3>2. cola[c] = 0 /\ pc_comm[c] = "recibe" /\ SinPrestar(c)
        BY <1>2, <2>2 DEF LaTiene
      <3>3. SinPrestar(c)'
        BY <1>2, <3>2 DEF SinPrestar, TieneCerrojo
      <3> QED  BY <1>2, <3>1, <3>2, <3>3 DEF NoLaTiene
    <2>5. ASSUME NEW p \in Clientes[m] PROVE NoLaTiene(<<m, p>>)'
      <3>1. CASE p = c[2]
        BY <2>1, <2>4, <3>1
      <3>2. CASE p # c[2]
        <4>1. <<m, p>> # c /\ NoLaTiene(<<m, p>>)
          BY <1>1, <2>2, <3>2
        <4> QED  BY <1>4, <4>1 DEF Conserva
      <3> QED  BY <3>1, <3>2
    <2> HIDE DEF LaTiene, NoLaTiene
    <2> QED  BY <2>3, <2>5 DEF UnLugar
  <1> QED  BY <1>5, <1>6

(* crear_grupo has released the token of every memory, and no client has   *)
(* any.                                                                    *)
LEMMA InvarianteInicial == Init => Invariante
  <1> SUFFICES ASSUME Init PROVE Invariante
    OBVIOUS
  <1> USE SuposicionTokens DEF Init
  <1>1. Tipos
    <2>1. cola_token_manager \in [Grupos -> Nat]
      BY DEF Grupos
    <2>2. /\ pc_comm \in [Membresias -> PcComm]
          /\ red \in [DeMemorias -> Mensajes \cup {SinMensaje}]
      BY DEF PcComm
    <2> QED  BY <2>1, <2>2 DEF Tipos
  <1>2. PedidosCoherentes
    BY DEF PedidosCoherentes
  <1>3. ASSUME NEW m \in Memorias PROVE UnLugar(m)
    <2>1. cola_token_manager[m] = 1
      BY DEF Grupos
    <2>2. ASSUME NEW p \in Clientes[m] PROVE NoLaTiene(<<m, p>>)
      <3>1. p \in Procesos /\ <<m, p>> \in Membresias /\ <<m, p>> \in DeMemorias
        BY MembresiaDe DEF Grupos
      <3> QED  BY <3>1 DEF NoLaTiene, SinPrestar, TieneCerrojo
    <2> QED  BY <2>1, <2>2 DEF UnLugar
  <1> QED  BY <1>1, <1>2, <1>3 DEF Invariante

(* Only token_manager and the handler that gets a memory back move a token *)
(* between token_manager and a client.                                     *)
LEMMA UnLugarSinManager ==
  ASSUME Invariante, NEW m \in Memorias,
         cola_token_manager'[m] = cola_token_manager[m],
         \A d \in DeMemorias : Conserva(d)
  PROVE  UnLugar(m)'
  <1>1. \A p \in Clientes[m] : Conserva(<<m, p>>)
    BY MembresiaDe DEF Grupos
  <1>2. UnLugar(m)
    BY DEF Invariante
  <1> QED  BY <1>1, <1>2, UnLugarSigue

(* No step of the program breaks the invariant.                            *)
LEMMA InvarianteSigue == Invariante /\ [Next]_vars => Invariante'
  <1> SUFFICES ASSUME Invariante, [Next]_vars PROVE Invariante'
    OBVIOUS
  <1> USE DEF Invariante
  <1> HIDE DEF Conserva, UnLugar, Tipos, PedidosCoherentes
  <1>1. ASSUME NEW g \in Grupos, PasarToken(g) PROVE Invariante'
    <2>1. Tipos'
      BY <1>1, TiposDelComm
    <2>2. PedidosCoherentes'
      BY <1>1 DEF PasarToken, app, PedidosCoherentes
    <2> QED  BY <1>1, <2>1, <2>2, UnLugarAlPasar
  <1>2. ASSUME NEW c \in DeMemorias, PasoManejador(c) PROVE Invariante'
    <2>1. Tipos'
      BY <1>2, TiposDelComm
    <2>2. PedidosCoherentes'
      BY <1>2 DEF PasoManejador, EnviarMemoria, GuardarMemoria, app, PedidosCoherentes
    <2>3. ASSUME NEW m \in Memorias PROVE UnLugar(m)'
      <3>1. CASE EnviarMemoria(c)
        <4>1. cola_token_manager' = cola_token_manager
          BY <3>1 DEF EnviarMemoria
        <4>2. \A d \in DeMemorias : Conserva(d)
          BY <3>1, ConservaEnviar
        <4> QED  BY <4>1, <4>2, UnLugarSinManager
      <3>2. CASE GuardarMemoria(c)
        BY <3>2, UnLugarAlGuardar
      <3> QED  BY <1>2, <3>1, <3>2 DEF PasoManejador
    <2> QED  BY <2>1, <2>2, <2>3
  <1>3. ASSUME NEW c \in Membresias, PasoComm(c) \/ DevolverToken(c)
        PROVE  Invariante'
    <2>1. Tipos'
      BY <1>3, TiposDelComm
    <2>2. PedidosCoherentes'
      BY <1>3 DEF PasoComm, RecibirToken, RecibirMemoria, EsperarToken,
         DevolverMemoria, Comparar, Entregar, Reenviar, DevolverToken, app,
         PedidosCoherentes
    <2>3. \A d \in DeMemorias : Conserva(d)
      BY <1>3, ConservaRecibir, ConservaDevolver, ConservaControl, ConservaSemaforo
         DEF PasoComm
    <2>4. ASSUME NEW m \in Memorias
          PROVE  cola_token_manager'[m] = cola_token_manager[m]
      <3>1. CASE DevolverToken(c)
        <4>1. c[1] # m /\ m \in Grupos /\ c[1] \in Grupos
          BY <3>1, SuposicionTokens, PartesDe DEF DevolverToken, Grupos
        <4> QED  BY <3>1, <4>1 DEF DevolverToken, Tipos
      <3>2. CASE PasoComm(c)
        BY <3>2 DEF PasoComm, RecibirToken, RecibirMemoria, EsperarToken,
           DevolverMemoria, Comparar, Entregar, Reenviar, broker
      <3> QED  BY <1>3, <3>1, <3>2
    <2> QED  BY <2>1, <2>2, <2>3, <2>4, UnLugarSinManager
  <1>4. ASSUME NEW p \in Procesos,
               \/ PasoApp(p)
               \/ \E g \in Grupos : Pedir(p, g)
               \/ \E d \in Datos : Escribir(p, d)
               \/ \E s \in Semaforos : Senializar(p, s)
        PROVE  Invariante'
    <2>1. Tipos' /\ PedidosCoherentes'
      BY <1>4, TiposDeLaApp
    <2>2. cola_token_manager' = cola_token_manager
      BY <1>4 DEF PasoApp, Obtener, Limpiar, Soltar, Pedir, Escribir, Senializar,
         broker
    <2>3. \A d \in DeMemorias : Conserva(d)
      BY <1>4, ConservaApp, ConservaSemaforo
    <2> QED  BY <2>1, <2>2, <2>3, UnLugarSinManager
  <1>5. CASE UNCHANGED vars
    <2>1. /\ UNCHANGED <<cola_token_manager, cola, red, memoria_grupo>>
          /\ UNCHANGED <<pc_comm, token_local, a_devolver, memoria_local>>
          /\ UNCHANGED <<token_esperando, pc_app, recurso, leido>>
      BY <1>5 DEF vars, broker, comm, app
    <2>2. Tipos' /\ PedidosCoherentes'
      BY <2>1 DEF Tipos, PedidosCoherentes
    <2>3. \A d \in DeMemorias : Conserva(d)
      BY <2>1, OtroCliente DEF TieneCerrojo
    <2> QED  BY <2>1, <2>2, <2>3, UnLugarSinManager
  <1> QED  BY <1>1, <1>2, <1>3, <1>4, <1>5 DEF Next

(* The token of every memory is in one place, whatever clients ask, write, *)
(* signal and give back.                                                   *)
THEOREM InvarianteSiempre == Spec => []Invariante
  <1>1. Init => Invariante
    BY InvarianteInicial
  <1>2. Invariante /\ [Next]_vars => Invariante'
    BY InvarianteSigue
  <1> QED  BY <1>1, <1>2, PTL DEF Spec

-----------------------------------------------------------------------------
(* What the abstract locks see of a memory *)

(* Only one client has anything of the memory, and it has the token.       *)
LEMMA SoloUnCliente ==
  ASSUME Invariante, NEW m \in Memorias, NEW p \in Clientes[m],
         ~ NoLaTiene(<<m, p>>)
  PROVE  LaTiene(<<m, p>>) /\ \A q \in Clientes[m] \ {p} : NoLaTiene(<<m, q>>)
  <1> HIDE DEF LaTiene, NoLaTiene
  <1>1. UnLugar(m)
    BY DEF Invariante
  <1>2. PICK r \in Clientes[m] :
          LaTiene(<<m, r>>) /\ \A q \in Clientes[m] \ {r} : NoLaTiene(<<m, q>>)
    BY <1>1 DEF UnLugar
  <1>3. r = p
    BY <1>2
  <1> QED  BY <1>2, <1>3

(* duenio is the client that has the lock, if there is one.                *)
DuenioCoherente ==
  \A m \in Memorias :
    /\ \A p \in Clientes[m] : TieneCerrojo(p, m) => Duenio(m) = p
    /\ (\A p \in Clientes[m] : ~ TieneCerrojo(p, m)) => Duenio(m) = Nadie

(* The contents are with the token: in local_broker_comm's copy, in the    *)
(* socket, or in the memory of the group.                                  *)
VigenteCoherente ==
  \A m \in Memorias :
    /\ \A p \in Clientes[m] :
         /\ pc_comm[<<m, p>>] # "recibe" => MemoriaVigente(m) = memoria_local[<<m, p>>]
         /\ red[<<m, p>>] # SinMensaje => MemoriaVigente(m) = red[<<m, p>>].dato
    /\ (\A p \in Clientes[m] :
          pc_comm[<<m, p>>] = "recibe" /\ red[<<m, p>>] = SinMensaje)
         => MemoriaVigente(m) = memoria_grupo[m]

(* One client at a time has the lock of a memory.                          *)
LEMMA UnDuenio == Invariante => DuenioCoherente
  <1> SUFFICES ASSUME Invariante, NEW m \in Memorias
               PROVE  /\ \A p \in Clientes[m] : TieneCerrojo(p, m) => Duenio(m) = p
                      /\ (\A p \in Clientes[m] : ~ TieneCerrojo(p, m))
                           => Duenio(m) = Nadie
    BY DEF DuenioCoherente
  <1>1. ASSUME NEW p \in Clientes[m], TieneCerrojo(p, m) PROVE Duenio(m) = p
    <2>1. ~ NoLaTiene(<<m, p>>)
      BY <1>1 DEF NoLaTiene, SinPrestar
    <2>2. ASSUME NEW q \in Clientes[m], TieneCerrojo(q, m) PROVE q = p
      <3>1. ~ NoLaTiene(<<m, q>>)
        BY <2>2 DEF NoLaTiene, SinPrestar
      <3> HIDE DEF NoLaTiene
      <3> QED  BY <2>1, <3>1, SoloUnCliente
    <2> HIDE DEF TieneCerrojo
    <2>3. (CHOOSE q \in Clientes[m] : TieneCerrojo(q, m)) = p
      BY <1>1, <2>2
    <2> QED  BY <1>1, <2>3 DEF Duenio
  <1>2. (\A p \in Clientes[m] : ~ TieneCerrojo(p, m)) => Duenio(m) = Nadie
    BY DEF Duenio
  <1> QED  BY <1>1, <1>2

(* The contents of a memory are in one place.                              *)
LEMMA UnContenido == Invariante => VigenteCoherente
  <1> SUFFICES ASSUME Invariante, NEW m \in Memorias
               PROVE  /\ \A p \in Clientes[m] :
                           /\ pc_comm[<<m, p>>] # "recibe"
                                => MemoriaVigente(m) = memoria_local[<<m, p>>]
                           /\ red[<<m, p>>] # SinMensaje
                                => MemoriaVigente(m) = red[<<m, p>>].dato
                      /\ (\A p \in Clientes[m] :
                            pc_comm[<<m, p>>] = "recibe" /\ red[<<m, p>>] = SinMensaje)
                           => MemoriaVigente(m) = memoria_grupo[m]
    BY DEF VigenteCoherente
  <1> DEFINE conToken == {p \in Clientes[m] : pc_comm[<<m, p>>] # "recibe"}
             enViaje  == {p \in Clientes[m] : red[<<m, p>>] # SinMensaje}
  <1>0. MemoriaVigente(m) =
          CASE conToken # {} -> memoria_local[<<m, CHOOSE p \in conToken : TRUE>>]
            [] enViaje # {}  -> red[<<m, CHOOSE p \in enViaje : TRUE>>].dato
            [] OTHER         -> memoria_grupo[m]
    BY DEF MemoriaVigente
  <1>1. ASSUME NEW p \in Clientes[m],
               pc_comm[<<m, p>>] # "recibe" \/ red[<<m, p>>] # SinMensaje
        PROVE  /\ \A q \in Clientes[m] \ {p} :
                    pc_comm[<<m, q>>] = "recibe" /\ red[<<m, q>>] = SinMensaje
               /\ red[<<m, p>>] # SinMensaje => pc_comm[<<m, p>>] = "recibe"
    <2>1. ~ NoLaTiene(<<m, p>>)
      BY <1>1 DEF NoLaTiene
    <2>2. LaTiene(<<m, p>>) /\ \A q \in Clientes[m] \ {p} : NoLaTiene(<<m, q>>)
      BY <2>1, SoloUnCliente
    <2> QED  BY <2>2 DEF LaTiene, NoLaTiene
  <1>2. ASSUME NEW p \in Clientes[m], pc_comm[<<m, p>>] # "recibe"
        PROVE  MemoriaVigente(m) = memoria_local[<<m, p>>]
    <2>1. conToken = {p} /\ enViaje = {}
      BY <1>1, <1>2
    <2>2. /\ conToken # {} /\ (CHOOSE q \in conToken : TRUE) = p
          /\ enViaje = {}
      BY <2>1
    <2> HIDE DEF conToken, enViaje
    <2> QED  BY <1>0, <2>2
  <1>3. ASSUME NEW p \in Clientes[m], red[<<m, p>>] # SinMensaje
        PROVE  MemoriaVigente(m) = red[<<m, p>>].dato
    <2>1. conToken = {} /\ enViaje = {p}
      BY <1>1, <1>3
    <2>2. conToken = {} /\ enViaje # {} /\ (CHOOSE q \in enViaje : TRUE) = p
      BY <2>1
    <2> HIDE DEF conToken, enViaje
    <2> QED  BY <1>0, <2>2
  <1>4. ASSUME \A p \in Clientes[m] :
                 pc_comm[<<m, p>>] = "recibe" /\ red[<<m, p>>] = SinMensaje
        PROVE  MemoriaVigente(m) = memoria_grupo[m]
    <2>1. conToken = {} /\ enViaje = {}
      BY <1>4
    <2> HIDE DEF conToken, enViaje
    <2> QED  BY <1>0, <2>1
  <1> QED  BY <1>2, <1>3, <1>4

(* The same of the state after a step.                                     *)
LEMMA CoherenteDespues ==
  Invariante' => DuenioCoherente' /\ VigenteCoherente'
  BY UnDuenio, UnContenido, PTL

-----------------------------------------------------------------------------
(* What the abstract locks see of a semaphore *)

(* The clients of a group are finitely many.                               *)
LEMMA ClientesFinitos ==
  ASSUME NEW g \in Grupos
  PROVE  IsFiniteSet(Clientes[g])
  <1>1. Clientes[g] \in SUBSET Procesos
    BY SuposicionTokens
  <1>2. IsFiniteSet(Procesos)
    BY SuposicionTokens, FS_Interval DEF Procesos
  <1> QED  BY <1>1, <1>2, FS_Subset

(* The tokens that a client has to use or to pass on.                      *)
LEMMA TokensSonNaturales ==
  ASSUME Tipos, NEW c \in Membresias
  PROVE  TokensDe(c) \in Nat
  BY DEF TokensDe, Uno, Tipos

(* The same after a step.                                                  *)
LEMMA TokensSonNaturalesDespues ==
  ASSUME Tipos', NEW c \in Membresias
  PROVE  TokensDe(c)' \in Nat
  BY DEF TokensDe, Uno, Tipos

(* The value of a semaphore is that of each of its parts at least.         *)
LEMMA ValorCubre ==
  ASSUME Tipos, NEW g \in Grupos, NEW p \in Clientes[g]
  PROVE  Valor(g) \in Nat /\ TokensDe(<<g, p>>) <= Valor(g)
  <1> DEFINE f == [q \in Clientes[g] |-> TokensDe(<<g, q>>)]
  <1>1. \A q \in Clientes[g] : TokensDe(<<g, q>>) \in Nat
    BY MembresiaDe, TokensSonNaturales
  <1>2. f \in [Clientes[g] -> Nat]
    BY <1>1
  <1>3. f[p] = TokensDe(<<g, p>>)
    OBVIOUS
  <1>4. Valor(g) = cola_token_manager[g] + SumFunction(f)
    BY DEF Valor
  <1> HIDE DEF f
  <1>5. SumFunction(f) \in Nat /\ f[p] <= SumFunction(f)
    BY <1>2, ClientesFinitos, SumandoAcotado
  <1>6. cola_token_manager[g] \in Nat /\ f[p] \in Nat
    BY <1>2 DEF Tipos
  <1> QED  BY <1>3, <1>4, <1>5, <1>6

(* A semaphore whose tokens are the same has the same value...             *)
LEMMA ValorIgual ==
  ASSUME NEW g \in Grupos, cola_token_manager'[g] = cola_token_manager[g],
         \A q \in Clientes[g] : TokensDe(<<g, q>>)' = TokensDe(<<g, q>>)
  PROVE  Valor(g)' = Valor(g)
  <1>1. [q \in Clientes[g] |-> TokensDe(<<g, q>>)']
          = [q \in Clientes[g] |-> TokensDe(<<g, q>>)]
    OBVIOUS
  <1>2. Valor(g)' = cola_token_manager'[g]
                      + SumFunction([q \in Clientes[g] |-> TokensDe(<<g, q>>)'])
    BY DEF Valor
  <1>3. Valor(g) = cola_token_manager[g]
                      + SumFunction([q \in Clientes[g] |-> TokensDe(<<g, q>>)])
    BY DEF Valor
  <1> QED  BY <1>1, <1>2, <1>3

(* ... and if those of one client change, its value changes by as much.    *)
LEMMA ValorCambia ==
  ASSUME Tipos, Tipos', NEW g \in Grupos, NEW p \in Clientes[g],
         \A q \in Clientes[g] \ {p} : TokensDe(<<g, q>>)' = TokensDe(<<g, q>>)
  PROVE  Valor(g)' = Valor(g)
                       + (cola_token_manager'[g] - cola_token_manager[g])
                       + (TokensDe(<<g, p>>)' - TokensDe(<<g, p>>))
  <1>1. PICK f \in [Clientes[g] -> Int] : \A q \in Clientes[g] : f[q] = TokensDe(<<g, q>>)
    <2>1. \A q \in Clientes[g] : TokensDe(<<g, q>>) \in Int
      BY MembresiaDe, TokensSonNaturales
    <2>2. [q \in Clientes[g] |-> TokensDe(<<g, q>>)] \in [Clientes[g] -> Int]
      BY <2>1
    <2> QED  BY <2>2
  <1>2. PICK h \in [Clientes[g] -> Int] : \A q \in Clientes[g] : h[q] = TokensDe(<<g, q>>)'
    <2>1. \A q \in Clientes[g] : TokensDe(<<g, q>>)' \in Int
      BY MembresiaDe, TokensSonNaturalesDespues
    <2>2. [q \in Clientes[g] |-> TokensDe(<<g, q>>)'] \in [Clientes[g] -> Int]
      BY <2>1
    <2> QED  BY <2>2
  <1>3. Valor(g) = cola_token_manager[g] + SumFunction(f)
    <2>1. f = [q \in Clientes[g] |-> TokensDe(<<g, q>>)]
      BY <1>1
    <2> QED  BY <2>1 DEF Valor
  <1>4. Valor(g)' = cola_token_manager'[g] + SumFunction(h)
    <2>1. h = [q \in Clientes[g] |-> TokensDe(<<g, q>>)']
      BY <1>2
    <2> QED  BY <2>1 DEF Valor
  <1>5. SumFunction(h) = SumFunction(f) + (h[p] - f[p])
    <2>1. \A q \in Clientes[g] \ {p} : h[q] = f[q]
      BY <1>1, <1>2
    <2> QED  BY <2>1, ClientesFinitos, CambiaUnSumando
  <1>6. SumFunction(f) \in Int
    <2>1. IsFiniteSet(Clientes[g])
      BY ClientesFinitos
    <2>2. \E k \in [SUBSET Clientes[g] -> Int] : SumFunction(f) = k[Clientes[g]]
      BY <2>1, LaSuma
    <2> QED  BY <2>2
  <1>7. cola_token_manager[g] \in Int /\ cola_token_manager'[g] \in Int
    BY DEF Tipos
  <1>8. /\ f[p] = TokensDe(<<g, p>>) /\ h[p] = TokensDe(<<g, p>>)'
        /\ f[p] \in Int /\ h[p] \in Int
    BY <1>1, <1>2
  <1> QED  BY <1>3, <1>4, <1>5, <1>6, <1>7, <1>8

(* A token that goes between token_manager and a client, or within one,    *)
(* leaves the value of the semaphore as it was.                            *)
LEMMA ValorSigue ==
  ASSUME Tipos, Tipos', NEW c \in Membresias, NEW s \in Semaforos,
         c[1] # s => cola_token_manager'[s] = cola_token_manager[s],
         c[1] = s => cola_token_manager'[s] + TokensDe(c)'
                       = cola_token_manager[s] + TokensDe(c),
         \A d \in Membresias : d # c /\ d[1] \in Semaforos =>
           TokensDe(d)' = TokensDe(d)
  PROVE  Valor(s)' = Valor(s)
  <1>1. s \in Grupos
    BY DEF Grupos
  <1>2. ASSUME NEW q \in Clientes[s], <<s, q>> # c
        PROVE  TokensDe(<<s, q>>)' = TokensDe(<<s, q>>)
    <2>1. <<s, q>> \in Membresias /\ <<s, q>>[1] = s
      BY <1>1, MembresiaDe
    <2> QED  BY <1>2, <2>1
  <1>3. CASE c[1] # s
    <2>1. \A q \in Clientes[s] : <<s, q>> # c
      BY <1>3
    <2> QED  BY <1>1, <1>2, <1>3, <2>1, ValorIgual
  <1>4. CASE c[1] = s
    <2>1. PICK p \in Clientes[s] : c = <<s, p>>
      BY <1>4, PartesDe
    <2>2. \A q \in Clientes[s] \ {p} : TokensDe(<<s, q>>)' = TokensDe(<<s, q>>)
      BY <1>2, <2>1
    <2>3. Valor(s)' = Valor(s)
                        + (cola_token_manager'[s] - cola_token_manager[s])
                        + (TokensDe(<<s, p>>)' - TokensDe(<<s, p>>))
      BY <1>1, <2>2, ValorCambia
    <2>4. cola_token_manager'[s] + TokensDe(<<s, p>>)'
            = cola_token_manager[s] + TokensDe(<<s, p>>)
      BY <1>4, <2>1
    <2>5. /\ TokensDe(<<s, p>>) \in Nat /\ TokensDe(<<s, p>>)' \in Nat
          /\ Valor(s) \in Nat
      BY <1>1, <2>1, TokensSonNaturales, TokensSonNaturalesDespues, ValorCubre
    <2>6. cola_token_manager[s] \in Nat /\ cola_token_manager'[s] \in Nat
      BY <1>1 DEF Tipos
    <2> QED  BY <2>3, <2>4, <2>5, <2>6
  <1> QED  BY <1>3, <1>4

(* The lock of a memory is where it was if no client took it or left it.   *)
LEMMA DuenioIgual ==
  ASSUME Invariante, Invariante', NEW m \in Memorias,
         \A p \in Clientes[m] : TieneCerrojo(p, m)' <=> TieneCerrojo(p, m)
  PROVE  Duenio(m)' = Duenio(m)
  <1>1. DuenioCoherente /\ DuenioCoherente'
    BY UnDuenio, CoherenteDespues
  <1>2. CASE \E p \in Clientes[m] : TieneCerrojo(p, m)
    <2>1. PICK p \in Clientes[m] : TieneCerrojo(p, m)
      BY <1>2
    <2>2. Duenio(m) = p
      BY <1>1, <2>1 DEF DuenioCoherente
    <2>3. TieneCerrojo(p, m)'
      BY <2>1
    <2>4. Duenio(m)' = p
      BY <1>1, <2>3 DEF DuenioCoherente
    <2> QED  BY <2>2, <2>4
  <1>3. CASE \A p \in Clientes[m] : ~ TieneCerrojo(p, m)
    <2>1. Duenio(m) = Nadie
      BY <1>1, <1>3 DEF DuenioCoherente
    <2>2. \A p \in Clientes[m] : ~ TieneCerrojo(p, m)'
      BY <1>3
    <2>3. Duenio(m)' = Nadie
      BY <1>1, <2>2 DEF DuenioCoherente
    <2> QED  BY <2>1, <2>3
  <1> QED  BY <1>2, <1>3

(* The contents are the same if the token is where it was: with the same   *)
(* local_broker_comm, in the same socket or with the broker.               *)
LEMMA VigenteIgual ==
  ASSUME Invariante, Invariante', NEW m \in Memorias,
         memoria_grupo'[m] = memoria_grupo[m],
         \A p \in Clientes[m] :
           /\ pc_comm'[<<m, p>>] = "recibe" <=> pc_comm[<<m, p>>] = "recibe"
           /\ red'[<<m, p>>] = red[<<m, p>>]
           /\ memoria_local'[<<m, p>>] = memoria_local[<<m, p>>]
  PROVE  MemoriaVigente(m)' = MemoriaVigente(m)
  <1>1. VigenteCoherente /\ VigenteCoherente'
    BY UnContenido, CoherenteDespues
  <1>2. ASSUME NEW p \in Clientes[m], pc_comm[<<m, p>>] # "recibe"
        PROVE  MemoriaVigente(m)' = MemoriaVigente(m)
    <2>1. MemoriaVigente(m) = memoria_local[<<m, p>>]
      BY <1>1, <1>2 DEF VigenteCoherente
    <2>2. MemoriaVigente(m)' = memoria_local'[<<m, p>>]
      BY <1>1, <1>2 DEF VigenteCoherente
    <2> QED  BY <2>1, <2>2
  <1>3. ASSUME NEW p \in Clientes[m], red[<<m, p>>] # SinMensaje
        PROVE  MemoriaVigente(m)' = MemoriaVigente(m)
    <2>1. MemoriaVigente(m) = red[<<m, p>>].dato
      BY <1>1, <1>3 DEF VigenteCoherente
    <2>2. MemoriaVigente(m)' = red'[<<m, p>>].dato
      BY <1>1, <1>3 DEF VigenteCoherente
    <2> QED  BY <2>1, <2>2
  <1>4. CASE \A p \in Clientes[m] :
               pc_comm[<<m, p>>] = "recibe" /\ red[<<m, p>>] = SinMensaje
    <2>1. MemoriaVigente(m) = memoria_grupo[m]
      BY <1>1, <1>4 DEF VigenteCoherente
    <2>2. MemoriaVigente(m)' = memoria_grupo'[m]
      BY <1>1, <1>4 DEF VigenteCoherente
    <2> QED  BY <2>1, <2>2
  <1> QED  BY <1>2, <1>3, <1>4

-----------------------------------------------------------------------------
(* Steps that the abstract locks do not see *)

(* Nothing changes of what the applications are promised.                  *)
SinCambio ==
  /\ \A s \in Semaforos : Valor(s)' = Valor(s)
  /\ \A m \in Memorias : Duenio(m)' = Duenio(m)
                         /\ MemoriaVigente(m)' = MemoriaVigente(m)
  /\ leido' = leido

(* token_manager passes a token on.                                        *)
LEMMA PasarNoSeVe ==
  ASSUME Invariante, Invariante', NEW g \in Grupos, PasarToken(g)
  PROVE  SinCambio
  <1>0. PICK q \in Clientes[g] : q = ProximoCliente(g)
    BY ProximoEsCliente
  <1> DEFINE c == <<g, q>>
  <1>1. /\ c \in Membresias /\ cola_token_manager[g] > 0
        /\ cola_token_manager' = [cola_token_manager EXCEPT ![g] = @ - 1]
        /\ cola' = [cola EXCEPT ![c] = @ + 1]
        /\ UNCHANGED <<red, memoria_grupo, pc_comm, token_local, a_devolver,
                       memoria_local, pc_app, recurso, leido>>
    BY <1>0, MembresiaDe DEF PasarToken, comm, app
  <1>2. ASSUME NEW s \in Semaforos PROVE Valor(s)' = Valor(s)
    <2>1. c[1] # s => cola_token_manager'[s] = cola_token_manager[s]
      BY <1>1 DEF Invariante, Tipos, Grupos
    <2>2. cola_token_manager'[g] + TokensDe(c)' = cola_token_manager[g] + TokensDe(c)
      BY <1>1 DEF TokensDe, Uno, Invariante, Tipos
    <2>3. \A d \in Membresias : d # c => TokensDe(d)' = TokensDe(d)
      BY <1>1 DEF TokensDe, Uno, Invariante, Tipos
    <2> QED  BY <1>1, <2>1, <2>2, <2>3, ValorSigue DEF Invariante
  <1>3. ASSUME NEW m \in Memorias
        PROVE  Duenio(m)' = Duenio(m) /\ MemoriaVigente(m)' = MemoriaVigente(m)
    <2>1. \A p \in Clientes[m] : TieneCerrojo(p, m)' <=> TieneCerrojo(p, m)
      BY <1>1 DEF TieneCerrojo
    <2> QED  BY <1>1, <2>1, DuenioIgual, VigenteIgual
  <1> QED  BY <1>1, <1>2, <1>3 DEF SinCambio

(* The token of a memory in the queue or in the socket of a client, and    *)
(* from either the client or the broker.                                   *)
LEMMA MemoriaNoSeVe ==
  ASSUME Invariante, Invariante', NEW c \in DeMemorias,
         \/ PasoManejador(c)
         \/ RecibirMemoria(c)
         \/ DevolverMemoria(c)
  PROVE  SinCambio
  <1> USE DEF Invariante
  <1>1. /\ c \in Membresias /\ c[1] \in Memorias /\ c[2] \in Clientes[c[1]]
        /\ c = <<c[1], c[2]>>
    BY DeMemoriasSonMembresias, PartesDe
  <1>2. UNCHANGED <<token_local, a_devolver, pc_app, recurso, leido>>
    BY DEF PasoManejador, EnviarMemoria, GuardarMemoria, RecibirMemoria,
       DevolverMemoria, comm, app
  <1>3. ASSUME NEW s \in Semaforos PROVE Valor(s)' = Valor(s)
    <2>1. c[1] # s /\ s \in Grupos /\ c[1] \in Grupos
      BY <1>1, SuposicionTokens DEF Grupos
    <2>2. cola_token_manager'[s] = cola_token_manager[s]
      BY <2>1 DEF PasoManejador, EnviarMemoria, GuardarMemoria, RecibirMemoria,
         DevolverMemoria, Tipos
    <2>3. ASSUME NEW d \in Membresias, d # c, d[1] \in Semaforos
          PROVE  TokensDe(d)' = TokensDe(d)
      <3>1. d \notin DeMemorias
        BY <2>3, SuposicionTokens, PartesDe
      <3>2. cola'[d] = cola[d] /\ pc_comm'[d] = pc_comm[d]
        BY <2>3 DEF PasoManejador, EnviarMemoria, GuardarMemoria, RecibirMemoria,
           DevolverMemoria, IrA, Tipos, comm
      <3> QED  BY <1>2, <3>1, <3>2 DEF TokensDe
    <2> QED  BY <1>1, <2>1, <2>2, <2>3, ValorSigue
  <1>4. ASSUME NEW m \in Memorias PROVE Duenio(m)' = Duenio(m)
    BY <1>2, DuenioIgual DEF TieneCerrojo
  <1>5. ASSUME NEW m \in Memorias, m # c[1]
        PROVE  MemoriaVigente(m)' = MemoriaVigente(m)
    <2>1. memoria_grupo'[m] = memoria_grupo[m]
      BY <1>1, <1>5 DEF PasoManejador, EnviarMemoria, GuardarMemoria,
         RecibirMemoria, DevolverMemoria, Tipos
    <2>2. ASSUME NEW p \in Clientes[m]
          PROVE  /\ pc_comm'[<<m, p>>] = pc_comm[<<m, p>>]
                 /\ red'[<<m, p>>] = red[<<m, p>>]
                 /\ memoria_local'[<<m, p>>] = memoria_local[<<m, p>>]
      <3>1. <<m, p>> # c /\ <<m, p>> \in DeMemorias /\ <<m, p>> \in Membresias
        BY <1>5, MembresiaDe DEF Grupos
      <3> QED
        BY <3>1 DEF PasoManejador, EnviarMemoria, GuardarMemoria,
           RecibirMemoria, DevolverMemoria, IrA, Tipos, comm
    <2> QED  BY <2>1, <2>2, VigenteIgual
  <1> DEFINE m == c[1]
             p == c[2]
  <1>6. VigenteCoherente /\ VigenteCoherente'
    BY UnContenido, CoherenteDespues
  <1>7. MemoriaVigente(m)' = MemoriaVigente(m)
    <2>0. ASSUME ~ NoLaTiene(c)
          PROVE  /\ LaTiene(c)
                 /\ \A q \in Clientes[m] \ {p} : NoLaTiene(<<m, q>>)
      BY <1>1, <2>0, SoloUnCliente
    <2>1. CASE EnviarMemoria(c)
      <3>1. /\ cola[c] > 0 /\ red'[c].dato = memoria_grupo[m]
            /\ red'[c] \in Mensajes
        BY <1>1, <2>1 DEF EnviarMemoria, Tipos, Mensajes
      <3>2. LaTiene(c) /\ \A q \in Clientes[m] \ {p} : NoLaTiene(<<m, q>>)
        BY <2>0, <3>1 DEF NoLaTiene
      <3>3. \A q \in Clientes[m] :
              pc_comm[<<m, q>>] = "recibe" /\ red[<<m, q>>] = SinMensaje
        BY <1>1, <3>1, <3>2 DEF LaTiene, NoLaTiene
      <3>4. MemoriaVigente(m) = memoria_grupo[m]
        BY <1>1, <1>6, <3>3 DEF VigenteCoherente
      <3>5. red'[c] # SinMensaje
        BY <3>1, SuposicionTokens DEF Mensajes
      <3>6. MemoriaVigente(m)' = red'[c].dato
        BY <1>1, <1>6, <3>5 DEF VigenteCoherente
      <3> QED  BY <3>1, <3>4, <3>6
    <2>2. CASE GuardarMemoria(c)
      <3>1. /\ red[c] # SinMensaje /\ red' = [red EXCEPT ![c] = SinMensaje]
            /\ memoria_grupo'[m] = red[c].dato /\ UNCHANGED pc_comm
        BY <1>1, <2>2 DEF GuardarMemoria, Tipos, comm
      <3>2. LaTiene(c) /\ \A q \in Clientes[m] \ {p} : NoLaTiene(<<m, q>>)
        BY <2>0, <3>1 DEF NoLaTiene
      <3>3. MemoriaVigente(m) = red[c].dato
        BY <1>1, <1>6, <3>1 DEF VigenteCoherente
      <3>4. ASSUME NEW q \in Clientes[m]
            PROVE  pc_comm'[<<m, q>>] = "recibe" /\ red'[<<m, q>>] = SinMensaje
        <4>1. <<m, q>> \in DeMemorias
          BY <1>1, MembresiaDe DEF Grupos
        <4>2. CASE q = p
          BY <1>1, <3>1, <3>2, <4>2 DEF LaTiene, Tipos
        <4>3. CASE q # p
          <5>1. NoLaTiene(<<m, q>>)
            BY <3>2, <4>3
          <5> QED  BY <3>1, <4>1, <4>3, <5>1 DEF NoLaTiene, Tipos
        <4> QED  BY <4>2, <4>3
      <3>5. MemoriaVigente(m)' = memoria_grupo'[m]
        BY <1>1, <1>6, <3>4 DEF VigenteCoherente
      <3> QED  BY <3>1, <3>3, <3>5
    <2>3. CASE RecibirMemoria(c)
      <3>1. /\ red[c] # SinMensaje /\ pc_comm'[c] # "recibe"
            /\ memoria_local'[c] = red[c].dato
        BY <1>1, <2>3 DEF RecibirMemoria, IrA, Tipos
      <3>2. MemoriaVigente(m) = red[c].dato
        BY <1>1, <1>6, <3>1 DEF VigenteCoherente
      <3>3. MemoriaVigente(m)' = memoria_local'[c]
        BY <1>1, <1>6, <3>1 DEF VigenteCoherente
      <3> QED  BY <3>1, <3>2, <3>3
    <2>4. CASE DevolverMemoria(c)
      <3>1. /\ pc_comm[c] # "recibe" /\ red'[c].dato = memoria_local[c]
            /\ red'[c] \in Mensajes
        BY <1>1, <2>4 DEF DevolverMemoria, Tipos, Mensajes
      <3>2. MemoriaVigente(m) = memoria_local[c]
        BY <1>1, <1>6, <3>1 DEF VigenteCoherente
      <3>3. red'[c] # SinMensaje
        BY <3>1, SuposicionTokens DEF Mensajes
      <3>4. MemoriaVigente(m)' = red'[c].dato
        BY <1>1, <1>6, <3>3 DEF VigenteCoherente
      <3> QED  BY <3>1, <3>2, <3>4
    <2> QED  BY <2>1, <2>2, <2>3, <2>4 DEF PasoManejador
  <1> QED  BY <1>2, <1>3, <1>4, <1>5, <1>7 DEF SinCambio

(* local_broker_comm asks ControlTokens, lends the token and gets it back; *)
(* the token of a semaphore comes in and goes out.                         *)
LEMMA ControlNoSeVe ==
  ASSUME Invariante, Invariante', NEW c \in Membresias,
         \/ RecibirToken(c)
         \/ DevolverToken(c)
         \/ Comparar(c)
         \/ Entregar(c)
         \/ Reenviar(c)
         \/ c \in DeMemorias /\ EsperarToken(c)
  PROVE  SinCambio
  <1> USE DEF Invariante
  <1>1. c[1] \in Grupos /\ (c \in DeMemorias <=> c[1] \in Memorias)
    BY PartesDe
  <1>2. UNCHANGED <<red, memoria_grupo, memoria_local, pc_app, recurso, leido>>
    BY DEF RecibirToken, DevolverToken, Comparar, Entregar, Reenviar,
       EsperarToken, broker, app
  <1>3. ASSUME NEW s \in Semaforos PROVE Valor(s)' = Valor(s)
    <2>1. s \in Grupos
      BY DEF Grupos
    <2>2. c[1] # s => cola_token_manager'[s] = cola_token_manager[s]
      BY <1>1, <2>1 DEF RecibirToken, DevolverToken, Comparar, Entregar, Reenviar,
         EsperarToken, broker, Tipos
    <2>3. ASSUME NEW d \in Membresias, d # c, d[1] \in Semaforos
          PROVE  TokensDe(d)' = TokensDe(d)
      <3>1. /\ cola'[d] = cola[d] /\ pc_comm'[d] = pc_comm[d]
            /\ token_local'[d] = token_local[d] /\ a_devolver'[d] = a_devolver[d]
        BY <2>3 DEF RecibirToken, DevolverToken, Comparar, Entregar, Reenviar,
           EsperarToken, IrA, broker, Tipos
      <3> QED  BY <1>2, <3>1 DEF TokensDe
    <2>4. ASSUME c[1] = s
          PROVE  cola_token_manager'[s] + TokensDe(c)'
                   = cola_token_manager[s] + TokensDe(c)
      <3>1. c \notin DeMemorias /\ c[1] \notin Memorias
        BY <1>1, <2>4, SuposicionTokens
      <3>2. CASE RecibirToken(c)
        <4>1. /\ cola[c] > 0 /\ cola'[c] = cola[c] - 1
              /\ pc_comm[c] = "recibe" /\ pc_comm'[c] = "compara"
              /\ UNCHANGED <<cola_token_manager, token_local, a_devolver>>
          BY <3>2 DEF RecibirToken, IrA, Tipos
        <4> QED  BY <3>1, <4>1 DEF TokensDe, Uno, Tipos
      <3>3. CASE DevolverToken(c)
        <4>1. /\ a_devolver[c] > 0 /\ a_devolver'[c] = a_devolver[c] - 1
              /\ cola_token_manager'[s] = cola_token_manager[s] + 1
              /\ UNCHANGED <<cola, pc_comm, token_local>>
          BY <2>1, <2>4, <3>3 DEF DevolverToken, Tipos
        <4> QED  BY <2>1, <3>1, <4>1 DEF TokensDe, Uno, Tipos
      <3>4. CASE Comparar(c)
        <4>1. /\ pc_comm[c] = "compara" /\ pc_comm'[c] \in {"entrega", "reenvia"}
              /\ UNCHANGED <<cola_token_manager, cola, token_local, a_devolver>>
          BY <3>4 DEF Comparar, IrA, broker, Tipos
        <4> QED  BY <3>1, <4>1 DEF TokensDe, Uno, Tipos
      <3>5. CASE Entregar(c)
        <4>1. /\ pc_comm[c] = "entrega" /\ pc_comm'[c] = "recibe"
              /\ token_local'[c] = token_local[c] + 1
              /\ UNCHANGED <<cola_token_manager, cola, a_devolver>>
          BY <3>1, <3>5 DEF Entregar, IrA, broker, Tipos
        <4> QED  BY <3>1, <4>1 DEF TokensDe, Uno, Tipos
      <3>6. CASE Reenviar(c)
        <4>1. /\ pc_comm[c] = "reenvia" /\ pc_comm'[c] = "recibe"
              /\ a_devolver'[c] = a_devolver[c] + 1
              /\ UNCHANGED <<cola_token_manager, cola, token_local>>
          BY <3>1, <3>6 DEF Reenviar, IrA, broker, Tipos
        <4> QED  BY <3>1, <4>1 DEF TokensDe, Uno, Tipos
      <3> QED  BY <3>1, <3>2, <3>3, <3>4, <3>5, <3>6
    <2> QED  BY <2>2, <2>3, <2>4, ValorSigue
  <1>4. ASSUME NEW m \in Memorias
        PROVE  Duenio(m)' = Duenio(m) /\ MemoriaVigente(m)' = MemoriaVigente(m)
    <2>1. \A p \in Clientes[m] : TieneCerrojo(p, m)' <=> TieneCerrojo(p, m)
      BY <1>2 DEF TieneCerrojo
    <2>2. ASSUME NEW p \in Clientes[m]
          PROVE  pc_comm'[<<m, p>>] = "recibe" <=> pc_comm[<<m, p>>] = "recibe"
      <3>1. <<m, p>> \in Membresias /\ <<m, p>>[1] \in Memorias
        BY MembresiaDe DEF Grupos
      <3>2. CASE <<m, p>> # c
        BY <3>1, <3>2 DEF RecibirToken, DevolverToken, Comparar, Entregar,
           Reenviar, EsperarToken, IrA, Tipos
      <3>3. CASE <<m, p>> = c
        BY <3>1, <3>3, SuposicionTokens DEF RecibirToken, DevolverToken, Comparar,
           Entregar, Reenviar, EsperarToken, IrA, Tipos
      <3> QED  BY <3>2, <3>3
    <2> QED  BY <1>2, <2>1, <2>2, DuenioIgual, VigenteIgual
  <1> QED  BY <1>2, <1>3, <1>4 DEF SinCambio

(* The application writes the name of what it asks for, and clears it.     *)
LEMMA PedidoNoSeVe ==
  ASSUME Invariante, Invariante', NEW p \in Procesos,
         Limpiar(p) \/ \E g \in Grupos : Pedir(p, g)
  PROVE  SinCambio
  <1> USE DEF Invariante
  <1>1. /\ UNCHANGED <<cola_token_manager, cola, red, memoria_grupo>>
        /\ UNCHANGED <<pc_comm, token_local, a_devolver, memoria_local, leido>>
    BY DEF Limpiar, Pedir, broker, comm
  <1>2. ASSUME NEW s \in Semaforos PROVE Valor(s)' = Valor(s)
    BY <1>1, ValorIgual DEF TokensDe, Grupos
  <1>3. ASSUME NEW m \in Memorias, NEW q \in Clientes[m]
        PROVE  TieneCerrojo(q, m)' <=> TieneCerrojo(q, m)
    <2>1. q \in Procesos
      BY MembresiaDe DEF Grupos
    <2> QED  BY <2>1 DEF Limpiar, Pedir, TieneCerrojo, Tipos
  <1>4. ASSUME NEW m \in Memorias
        PROVE  Duenio(m)' = Duenio(m) /\ MemoriaVigente(m)' = MemoriaVigente(m)
    BY <1>1, <1>3, DuenioIgual, VigenteIgual
  <1> QED  BY <1>1, <1>2, <1>4 DEF SinCambio

-----------------------------------------------------------------------------
(* Steps that the abstract locks see *)

(* Where nothing happens nothing is seen.                                  *)
LEMMA SinPasoNoSeVe ==
  ASSUME Invariante, Invariante', UNCHANGED vars
  PROVE  SinCambio
  <1>1. /\ UNCHANGED <<cola_token_manager, cola, red, memoria_grupo, pc_comm>>
        /\ UNCHANGED <<token_local, a_devolver, memoria_local>>
        /\ UNCHANGED <<pc_app, recurso, leido>>
    BY DEF vars, broker, comm, app
  <1>2. ASSUME NEW s \in Semaforos PROVE Valor(s)' = Valor(s)
    BY <1>1, ValorIgual DEF TokensDe, Grupos
  <1>3. ASSUME NEW m \in Memorias
        PROVE  Duenio(m)' = Duenio(m) /\ MemoriaVigente(m)' = MemoriaVigente(m)
    <2>1. \A q \in Clientes[m] : TieneCerrojo(q, m)' <=> TieneCerrojo(q, m)
      BY <1>1 DEF TieneCerrojo
    <2> QED  BY <1>1, <2>1, DuenioIgual, VigenteIgual
  <1> QED  BY <1>1, <1>2, <1>3 DEF SinCambio

(* The contents stay where they are while the applications ask for locks,  *)
(* get them and give them back.                                            *)
LEMMA ContenidosIguales ==
  ASSUME Invariante, Invariante', NEW m \in Memorias,
         UNCHANGED <<pc_comm, red, memoria_local, memoria_grupo>>
  PROVE  MemoriaVigente(m)' = MemoriaVigente(m)
  BY VigenteIgual

(* wait_on of a semaphore returns: it takes a unit of its value.           *)
LEMMA ObtenerEsWaitOn ==
  ASSUME Invariante, Invariante', NEW p \in Procesos, Obtener(p),
         recurso[p] \in Semaforos
  PROVE  /\ Valor(recurso[p]) > 0
         /\ \A s \in Semaforos :
              Valor(s)' = IF s = recurso[p] THEN Valor(s) - 1 ELSE Valor(s)
         /\ \A m \in Memorias : Duenio(m)' = Duenio(m)
                                /\ MemoriaVigente(m)' = MemoriaVigente(m)
         /\ leido' = leido
  <1> USE DEF Invariante
  <1>0. PICK g \in Semaforos : g = recurso[p]
    OBVIOUS
  <1> DEFINE c == <<g, p>>
  <1>1. /\ g \in Grupos /\ g \notin Memorias /\ p \in Clientes[g]
        /\ c \in Membresias /\ c \notin DeMemorias
    BY <1>0, GrupoPedido, PartesDe, SuposicionTokens DEF Obtener
  <1>2. /\ token_local[c] > 0 /\ token_local' = [token_local EXCEPT ![c] = @ - 1]
        /\ pc_app' = [pc_app EXCEPT ![p] = "obtuvo"]
        /\ UNCHANGED <<cola_token_manager, cola, red, memoria_grupo, pc_comm,
                       a_devolver, memoria_local, recurso, leido>>
    BY <1>0, <1>1 DEF Obtener, broker
  <1>3. /\ TokensDe(c)' = TokensDe(c) - 1 /\ TokensDe(c) > 0
    <2>1. token_local'[c] = token_local[c] - 1
      BY <1>1, <1>2 DEF Tipos
    <2> QED  BY <1>1, <1>2, <2>1 DEF TokensDe, Uno, Tipos
  <1>4. ASSUME NEW d \in Membresias, d # c PROVE TokensDe(d)' = TokensDe(d)
    <2>1. token_local'[d] = token_local[d]
      BY <1>1, <1>2, <1>4 DEF Tipos
    <2> QED  BY <1>2, <2>1 DEF TokensDe
  <1>5. /\ Valor(g) > 0 /\ Valor(g)' = Valor(g) - 1
    <2>1. \A q \in Clientes[g] \ {p} : TokensDe(<<g, q>>)' = TokensDe(<<g, q>>)
      BY <1>1, <1>4, MembresiaDe
    <2>2. Valor(g)' = Valor(g) + (cola_token_manager'[g] - cola_token_manager[g])
                        + (TokensDe(c)' - TokensDe(c))
      BY <1>1, <2>1, ValorCambia
    <2>3. Valor(g) \in Nat /\ TokensDe(c) <= Valor(g)
      BY <1>1, ValorCubre
    <2>4. TokensDe(c) \in Nat /\ cola_token_manager[g] \in Nat
      BY <1>1, TokensSonNaturales DEF Tipos
    <2> QED  BY <1>2, <1>3, <2>2, <2>3, <2>4
  <1>6. ASSUME NEW s \in Semaforos, s # g PROVE Valor(s)' = Valor(s)
    <2>1. s \in Grupos
      BY DEF Grupos
    <2>2. \A q \in Clientes[s] : TokensDe(<<s, q>>)' = TokensDe(<<s, q>>)
      BY <1>4, <1>6, <2>1, MembresiaDe
    <2> QED  BY <1>2, <2>1, <2>2, ValorIgual
  <1>7. ASSUME NEW m \in Memorias
        PROVE  Duenio(m)' = Duenio(m) /\ MemoriaVigente(m)' = MemoriaVigente(m)
    <2>1. ASSUME NEW q \in Clientes[m]
          PROVE  TieneCerrojo(q, m)' <=> TieneCerrojo(q, m)
      <3>1. q \in Procesos /\ recurso[p] # m
        BY <1>0, <1>1, MembresiaDe DEF Grupos
      <3> QED  BY <1>2, <3>1 DEF TieneCerrojo, Tipos
    <2> QED  BY <1>2, <2>1, DuenioIgual, ContenidosIguales
  <1> QED  BY <1>0, <1>2, <1>5, <1>6, <1>7

(* signalize gives a unit to the semaphore.                                *)
LEMMA SenializarEsSignalize ==
  ASSUME Invariante, Invariante', NEW p \in Procesos, NEW g \in Semaforos,
         Senializar(p, g)
  PROVE  /\ \A s \in Semaforos :
              Valor(s)' = IF s = g THEN Valor(s) + 1 ELSE Valor(s)
         /\ \A m \in Memorias : Duenio(m)' = Duenio(m)
                                /\ MemoriaVigente(m)' = MemoriaVigente(m)
         /\ leido' = leido
  <1> USE DEF Invariante
  <1> DEFINE c == <<g, p>>
  <1>1. /\ g \in Grupos /\ p \in Clientes[g] /\ c \in Membresias
        /\ c \notin DeMemorias
    BY MembresiaDe, PartesDe, SuposicionTokens DEF Senializar, Grupos
  <1>2. /\ a_devolver' = [a_devolver EXCEPT ![c] = @ + 1]
        /\ UNCHANGED <<cola_token_manager, cola, red, memoria_grupo, pc_comm,
                       token_local, memoria_local, pc_app, recurso, leido>>
    BY DEF Senializar, broker
  <1>3. TokensDe(c)' = TokensDe(c) + 1
    <2>1. a_devolver'[c] = a_devolver[c] + 1
      BY <1>1, <1>2 DEF Tipos
    <2> QED  BY <1>1, <1>2, <2>1 DEF TokensDe, Uno, Tipos
  <1>4. ASSUME NEW d \in Membresias, d # c PROVE TokensDe(d)' = TokensDe(d)
    <2>1. a_devolver'[d] = a_devolver[d]
      BY <1>1, <1>2, <1>4 DEF Tipos
    <2> QED  BY <1>2, <2>1 DEF TokensDe
  <1>5. Valor(g)' = Valor(g) + 1
    <2>1. \A q \in Clientes[g] \ {p} : TokensDe(<<g, q>>)' = TokensDe(<<g, q>>)
      BY <1>1, <1>4, MembresiaDe
    <2>2. Valor(g)' = Valor(g) + (cola_token_manager'[g] - cola_token_manager[g])
                        + (TokensDe(c)' - TokensDe(c))
      BY <1>1, <2>1, ValorCambia
    <2>3. Valor(g) \in Nat /\ TokensDe(c) \in Nat /\ cola_token_manager[g] \in Nat
      BY <1>1, ValorCubre, TokensSonNaturales DEF Tipos
    <2> QED  BY <1>2, <1>3, <2>2, <2>3
  <1>6. ASSUME NEW s \in Semaforos, s # g PROVE Valor(s)' = Valor(s)
    <2>1. s \in Grupos
      BY DEF Grupos
    <2>2. \A q \in Clientes[s] : TokensDe(<<s, q>>)' = TokensDe(<<s, q>>)
      BY <1>4, <1>6, <2>1, MembresiaDe
    <2> QED  BY <1>2, <2>1, <2>2, ValorIgual
  <1>7. ASSUME NEW m \in Memorias
        PROVE  Duenio(m)' = Duenio(m) /\ MemoriaVigente(m)' = MemoriaVigente(m)
    BY <1>2, DuenioIgual, ContenidosIguales DEF TieneCerrojo
  <1> QED  BY <1>2, <1>5, <1>6, <1>7

(* The steps of the application inside a memory leave the semaphores as    *)
(* they are.                                                               *)
LEMMA MemoriaSinSemaforos ==
  ASSUME Invariante, Invariante', NEW p \in Procesos, recurso[p] \in Memorias,
         Obtener(p) \/ Soltar(p) \/ \E x \in Datos : Escribir(p, x)
  PROVE  \A s \in Semaforos : Valor(s)' = Valor(s)
  <1> USE DEF Invariante
  <1> SUFFICES ASSUME NEW s \in Semaforos PROVE Valor(s)' = Valor(s)
    OBVIOUS
  <1>1. UNCHANGED <<cola_token_manager, cola, red, pc_comm>>
    BY DEF Obtener, Soltar, Escribir, broker
  <1>2. s \in Grupos /\ s \notin Memorias
    BY SuposicionTokens DEF Grupos
  <1>3. ASSUME NEW q \in Clientes[s]
        PROVE  TokensDe(<<s, q>>)' = TokensDe(<<s, q>>)
    <2>1. <<s, q>> \in Membresias /\ <<s, q>> # <<recurso[p], p>>
      BY <1>2, MembresiaDe
    <2>2. /\ token_local'[<<s, q>>] = token_local[<<s, q>>]
          /\ a_devolver'[<<s, q>>] = a_devolver[<<s, q>>]
      BY <2>1 DEF Obtener, Soltar, Escribir, Tipos
    <2> QED  BY <1>1, <2>2 DEF TokensDe
  <1> QED  BY <1>1, <1>2, <1>3, ValorIgual

(* lock of a memory returns: nobody had it, and what is read is what the   *)
(* last one to have it left.                                               *)
LEMMA ObtenerEsLock ==
  ASSUME Invariante, Invariante', NEW p \in Procesos, Obtener(p),
         recurso[p] \in Memorias
  PROVE  /\ \A s \in Semaforos : Valor(s)' = Valor(s)
         /\ Duenio(recurso[p]) = Nadie
         /\ leido' = [leido EXCEPT ![p] = MemoriaVigente(recurso[p])]
         /\ \A m \in Memorias :
              /\ Duenio(m)' = IF m = recurso[p] THEN p ELSE Duenio(m)
              /\ MemoriaVigente(m)' = MemoriaVigente(m)
  <1> USE DEF Invariante
  <1>0. PICK g \in Memorias : g = recurso[p]
    OBVIOUS
  <1> DEFINE c == <<g, p>>
  <1>1. /\ p \in Clientes[g] /\ c \in Membresias /\ c \in DeMemorias
    BY <1>0, GrupoPedido DEF Obtener
  <1>2. /\ token_local[c] > 0 /\ pc_app[p] = "espera"
        /\ pc_app' = [pc_app EXCEPT ![p] = "obtuvo"]
        /\ leido' = [leido EXCEPT ![p] = memoria_local[c]]
        /\ UNCHANGED <<red, memoria_grupo, pc_comm, memoria_local, recurso>>
    BY <1>0 DEF Obtener, broker
  <1>3. /\ LaTiene(c)
        /\ \A q \in Clientes[g] \ {p} : NoLaTiene(<<g, q>>)
    <2>1. ~ NoLaTiene(c)
      BY <1>2 DEF NoLaTiene, SinPrestar
    <2> QED  BY <1>1, <2>1, SoloUnCliente
  <1>4. pc_comm[c] = "presta"
    BY <1>2, <1>3 DEF LaTiene, SinPrestar
  <1>5. DuenioCoherente /\ DuenioCoherente' /\ VigenteCoherente
    BY UnDuenio, UnContenido, CoherenteDespues
  <1>6. Duenio(g) = Nadie
    <2>1. ASSUME NEW q \in Clientes[g] PROVE ~ TieneCerrojo(q, g)
      <3>1. CASE q = p
        BY <1>2, <3>1 DEF TieneCerrojo
      <3>2. CASE q # p
        BY <1>3, <3>2 DEF NoLaTiene, SinPrestar
      <3> QED  BY <3>1, <3>2
    <2> QED  BY <1>5, <2>1 DEF DuenioCoherente
  <1>7. Duenio(g)' = p
    <2>1. TieneCerrojo(p, g)'
      BY <1>0, <1>2 DEF TieneCerrojo, Tipos
    <2> QED  BY <1>1, <1>5, <2>1 DEF DuenioCoherente
  <1>8. ASSUME NEW m \in Memorias, m # g PROVE Duenio(m)' = Duenio(m)
    <2>1. ASSUME NEW q \in Clientes[m]
          PROVE  TieneCerrojo(q, m)' <=> TieneCerrojo(q, m)
      <3>1. q \in Procesos
        BY MembresiaDe DEF Grupos
      <3> QED  BY <1>0, <1>2, <1>8, <3>1 DEF TieneCerrojo, Tipos
    <2> QED  BY <2>1, DuenioIgual
  <1>9. \A m \in Memorias : MemoriaVigente(m)' = MemoriaVigente(m)
    BY <1>2, ContenidosIguales
  <1>10. MemoriaVigente(g) = memoria_local[c]
    BY <1>1, <1>4, <1>5 DEF VigenteCoherente
  <1> QED
    BY <1>0, <1>2, <1>6, <1>7, <1>8, <1>9, <1>10, MemoriaSinSemaforos

(* The application that has the lock writes its own copy of the memory,    *)
(* which is the one that counts.                                           *)
LEMMA EscribirEsEscribir ==
  ASSUME Invariante, Invariante', NEW p \in Procesos, NEW x \in Datos,
         Escribir(p, x)
  PROVE  /\ recurso[p] \in Memorias /\ Duenio(recurso[p]) = p
         /\ \A s \in Semaforos : Valor(s)' = Valor(s)
         /\ leido' = leido
         /\ \A m \in Memorias :
              /\ Duenio(m)' = Duenio(m)
              /\ MemoriaVigente(m)' =
                   IF m = recurso[p] THEN x ELSE MemoriaVigente(m)
  <1> USE DEF Invariante
  <1>a. recurso[p] \in Memorias
    BY GrupoPedido DEF Escribir
  <1>0. PICK g \in Memorias : g = recurso[p]
    BY <1>a
  <1> DEFINE c == <<g, p>>
  <1>1. p \in Clientes[g] /\ c \in Membresias /\ c \in DeMemorias
    BY <1>0, GrupoPedido DEF Escribir
  <1>2. /\ pc_app[p] = "dentro"
        /\ memoria_local' = [memoria_local EXCEPT ![c] = x]
        /\ UNCHANGED <<red, memoria_grupo, pc_comm, recurso, pc_app, leido>>
    BY <1>0 DEF Escribir, broker, app
  <1>3. TieneCerrojo(p, g) /\ ~ NoLaTiene(c)
    BY <1>0, <1>2 DEF TieneCerrojo, NoLaTiene, SinPrestar
  <1>4. pc_comm[c] = "presta"
    <2>1. LaTiene(c)
      BY <1>1, <1>3, SoloUnCliente
    <2> QED  BY <1>3, <2>1 DEF LaTiene, SinPrestar
  <1>5. DuenioCoherente /\ VigenteCoherente'
    BY UnDuenio, CoherenteDespues
  <1>6. Duenio(g) = p
    BY <1>1, <1>3, <1>5 DEF DuenioCoherente
  <1>7. MemoriaVigente(g)' = x
    <2>1. pc_comm'[c] # "recibe" /\ memoria_local'[c] = x
      BY <1>1, <1>2, <1>4 DEF Tipos
    <2> QED  BY <1>1, <1>5, <2>1 DEF VigenteCoherente
  <1>8. ASSUME NEW m \in Memorias, m # g
        PROVE  MemoriaVigente(m)' = MemoriaVigente(m)
    <2>1. ASSUME NEW q \in Clientes[m]
          PROVE  memoria_local'[<<m, q>>] = memoria_local[<<m, q>>]
      <3>1. <<m, q>> \in DeMemorias /\ <<m, q>> # c
        BY <1>8, MembresiaDe DEF Grupos
      <3> QED  BY <1>2, <3>1 DEF Tipos
    <2> QED  BY <1>2, <2>1, VigenteIgual
  <1>9. \A m \in Memorias : Duenio(m)' = Duenio(m)
    BY <1>2, DuenioIgual DEF TieneCerrojo
  <1> QED
    BY <1>0, <1>2, <1>6, <1>7, <1>8, <1>9, MemoriaSinSemaforos

(* unlock: the lock is free, with the contents that its holder left.       *)
LEMMA SoltarEsUnlock ==
  ASSUME Invariante, Invariante', NEW p \in Procesos, Soltar(p)
  PROVE  /\ recurso[p] \in Memorias /\ Duenio(recurso[p]) = p
         /\ \A s \in Semaforos : Valor(s)' = Valor(s)
         /\ leido' = leido
         /\ \A m \in Memorias :
              /\ Duenio(m)' = IF m = recurso[p] THEN Nadie ELSE Duenio(m)
              /\ MemoriaVigente(m)' = MemoriaVigente(m)
  <1> USE DEF Invariante
  <1>a. recurso[p] \in Memorias
    BY GrupoPedido DEF Soltar
  <1>0. PICK g \in Memorias : g = recurso[p]
    BY <1>a
  <1> DEFINE c == <<g, p>>
  <1>1. p \in Clientes[g] /\ c \in Membresias
    BY <1>0, GrupoPedido DEF Soltar
  <1>2. /\ pc_app[p] = "dentro" /\ pc_app' = [pc_app EXCEPT ![p] = "afuera"]
        /\ UNCHANGED <<red, memoria_grupo, pc_comm, memoria_local, recurso, leido>>
    BY <1>0 DEF Soltar, broker
  <1>3. TieneCerrojo(p, g) /\ ~ NoLaTiene(c)
    BY <1>0, <1>2 DEF TieneCerrojo, NoLaTiene, SinPrestar
  <1>4. \A q \in Clientes[g] \ {p} : NoLaTiene(<<g, q>>)
    BY <1>1, <1>3, SoloUnCliente
  <1>5. DuenioCoherente /\ DuenioCoherente'
    BY UnDuenio, CoherenteDespues
  <1>6. Duenio(g) = p
    BY <1>1, <1>3, <1>5 DEF DuenioCoherente
  <1>7. Duenio(g)' = Nadie
    <2>1. ASSUME NEW q \in Clientes[g] PROVE ~ TieneCerrojo(q, g)'
      <3>1. CASE q = p
        BY <1>2, <3>1 DEF TieneCerrojo, Tipos
      <3>2. CASE q # p
        <4>1. ~ TieneCerrojo(q, g) /\ q \in Procesos
          BY <1>4, <3>2, MembresiaDe DEF NoLaTiene, SinPrestar, Grupos
        <4> QED  BY <1>2, <3>2, <4>1 DEF TieneCerrojo, Tipos
      <3> QED  BY <3>1, <3>2
    <2> QED  BY <1>5, <2>1 DEF DuenioCoherente
  <1>8. ASSUME NEW m \in Memorias, m # g PROVE Duenio(m)' = Duenio(m)
    <2>1. ASSUME NEW q \in Clientes[m]
          PROVE  TieneCerrojo(q, m)' <=> TieneCerrojo(q, m)
      <3>1. q \in Procesos
        BY MembresiaDe DEF Grupos
      <3> QED  BY <1>0, <1>2, <1>8, <3>1 DEF TieneCerrojo, Tipos
    <2> QED  BY <2>1, DuenioIgual
  <1>9. \A m \in Memorias : MemoriaVigente(m)' = MemoriaVigente(m)
    BY <1>2, ContenidosIguales
  <1> QED
    BY <1>0, <1>2, <1>6, <1>7, <1>8, <1>9, MemoriaSinSemaforos

-----------------------------------------------------------------------------
(* Refinement *)

(* Before anybody has a token all of them are with token_manager, every    *)
(* memory is free and has its first contents.                              *)
LEMMA InicioDeLosLocks == Init => Locks!Init
  <1> SUFFICES ASSUME Init PROVE Locks!Init
    OBVIOUS
  <1>0. Invariante
    BY InvarianteInicial
  <1>1. ASSUME NEW s \in Semaforos PROVE Valor(s) = ValorInicial[s]
    <2> DEFINE f == [q \in Clientes[s] |-> TokensDe(<<s, q>>)]
    <2>1. s \in Grupos /\ ValorInicial[s] \in Int
      BY SuposicionTokens DEF Grupos
    <2>2. ASSUME NEW q \in Clientes[s] PROVE TokensDe(<<s, q>>) = 0
      <3>1. <<s, q>> \in Membresias
        BY <2>1, MembresiaDe
      <3> QED  BY <3>1 DEF Init, TokensDe, Uno
    <2>3. f \in [Clientes[s] -> Int] /\ \A q \in Clientes[s] : f[q] = 0
      BY <2>2
    <2>4. Valor(s) = cola_token_manager[s] + SumFunction(f)
      BY DEF Valor
    <2> HIDE DEF f
    <2>5. SumFunction(f) = 0
      BY <2>1, <2>3, ClientesFinitos, SumaDeCeros
    <2> QED  BY <2>1, <2>4, <2>5 DEF Init
  <1>2. ASSUME NEW m \in Memorias
        PROVE  Duenio(m) = Nadie /\ MemoriaVigente(m) = DatoInicial
    <2>1. DuenioCoherente /\ VigenteCoherente
      BY <1>0, UnDuenio, UnContenido
    <2>2. ASSUME NEW q \in Clientes[m]
          PROVE  /\ ~ TieneCerrojo(q, m)
                 /\ pc_comm[<<m, q>>] = "recibe" /\ red[<<m, q>>] = SinMensaje
      <3>1. q \in Procesos /\ <<m, q>> \in Membresias /\ <<m, q>> \in DeMemorias
        BY MembresiaDe DEF Grupos
      <3> QED  BY <3>1 DEF Init, TieneCerrojo
    <2>3. Duenio(m) = Nadie /\ MemoriaVigente(m) = memoria_grupo[m]
      BY <2>1, <2>2 DEF DuenioCoherente, VigenteCoherente
    <2> QED  BY <2>3 DEF Init
  <1>3. leido = [p \in Procesos |-> DatoInicial]
    BY DEF Init
  <1> QED  BY <1>1, <1>2, <1>3 DEF Locks!Init

(* What is not seen is a stutter of the abstract locks.                    *)
LEMMA SinCambioEsBalbuceo ==
  ASSUME SinCambio
  PROVE  UNCHANGED Locks!vars
  BY DEF SinCambio, Locks!vars

(* A step of an application that holds or takes a lock or a semaphore is   *)
(* the same step of the abstract ones.                                     *)
LEMMA PasoDeLaApp ==
  ASSUME Invariante, Invariante', NEW p \in Procesos,
         \/ Obtener(p)
         \/ Soltar(p)
         \/ \E d \in Datos : Escribir(p, d)
         \/ \E s \in Semaforos : Senializar(p, s)
  PROVE  Locks!Next
  <1>1. CASE Obtener(p) /\ recurso[p] \in Semaforos
    <2>1. PICK g \in Semaforos : g = recurso[p]
      BY <1>1
    <2>2. Locks!WaitOn(g)
      BY <1>1, <2>1, ObtenerEsWaitOn DEF Locks!WaitOn
    <2> QED  BY <2>2 DEF Locks!Next
  <1>2. CASE Obtener(p) /\ recurso[p] \in Memorias
    <2>1. PICK m \in Memorias : m = recurso[p]
      BY <1>2
    <2>2. Locks!Lock(p, m)
      BY <1>2, <2>1, ObtenerEsLock DEF Locks!Lock
    <2> QED  BY <2>2 DEF Locks!Next
  <1>3. CASE Soltar(p)
    <2>1. PICK m \in Memorias : m = recurso[p]
      BY <1>3, SoltarEsUnlock
    <2>2. Locks!Unlock(p, m)
      BY <1>3, <2>1, SoltarEsUnlock DEF Locks!Unlock
    <2> QED  BY <2>2 DEF Locks!Next
  <1>4. ASSUME NEW d \in Datos, Escribir(p, d) PROVE Locks!Next
    <2>1. PICK m \in Memorias : m = recurso[p]
      BY <1>4, EscribirEsEscribir
    <2>2. Locks!Escribir(p, m, d)
      BY <1>4, <2>1, EscribirEsEscribir DEF Locks!Escribir
    <2> QED  BY <2>2 DEF Locks!Next
  <1>5. ASSUME NEW s \in Semaforos, Senializar(p, s) PROVE Locks!Next
    <2>1. Locks!Signalize(s)
      BY <1>5, SenializarEsSignalize DEF Locks!Signalize
    <2> QED  BY <2>1 DEF Locks!Next
  <1>6. Obtener(p) => recurso[p] \in Semaforos \/ recurso[p] \in Memorias
    BY GrupoPedido DEF Obtener, Grupos, Invariante
  <1> QED  BY <1>1, <1>2, <1>3, <1>4, <1>5, <1>6

(* Every step is one of the abstract locks, or is not seen.                *)
LEMMA PasoDeLosLocks ==
  Invariante /\ Invariante' /\ [Next]_vars => [Locks!Next]_(Locks!vars)
  <1> SUFFICES ASSUME Invariante, Invariante', [Next]_vars
               PROVE  Locks!Next \/ UNCHANGED Locks!vars
    OBVIOUS
  <1>1. ASSUME NEW g \in Grupos, PasarToken(g) PROVE UNCHANGED Locks!vars
    BY <1>1, PasarNoSeVe, SinCambioEsBalbuceo
  <1>2. ASSUME NEW c \in DeMemorias, PasoManejador(c) PROVE UNCHANGED Locks!vars
    BY <1>2, MemoriaNoSeVe, SinCambioEsBalbuceo
  <1>3. ASSUME NEW c \in Membresias, PasoComm(c) \/ DevolverToken(c)
        PROVE  UNCHANGED Locks!vars
    <2>1. CASE c \in DeMemorias /\ (RecibirMemoria(c) \/ DevolverMemoria(c))
      BY <2>1, MemoriaNoSeVe, SinCambioEsBalbuceo
    <2>2. CASE \/ RecibirToken(c) \/ DevolverToken(c) \/ Comparar(c)
               \/ Entregar(c) \/ Reenviar(c)
               \/ c \in DeMemorias /\ EsperarToken(c)
      BY <2>2, ControlNoSeVe, SinCambioEsBalbuceo
    <2> QED  BY <1>3, <2>1, <2>2 DEF PasoComm
  <1>4. ASSUME NEW p \in Procesos, Limpiar(p) \/ \E g \in Grupos : Pedir(p, g)
        PROVE  UNCHANGED Locks!vars
    BY <1>4, PedidoNoSeVe, SinCambioEsBalbuceo
  <1>5. ASSUME NEW p \in Procesos,
               \/ Obtener(p)
               \/ Soltar(p)
               \/ \E d \in Datos : Escribir(p, d)
               \/ \E s \in Semaforos : Senializar(p, s)
        PROVE  Locks!Next
    BY <1>5, PasoDeLaApp
  <1>6. CASE UNCHANGED vars
    <2>1. SinCambio
      BY <1>6, SinPasoNoSeVe
    <2> QED  BY <2>1, SinCambioEsBalbuceo
  <1> QED  BY <1>1, <1>2, <1>3, <1>4, <1>5, <1>6 DEF Next, PasoApp

(* The distributed locks are semaphores and locks: wait_on and signalize   *)
(* take and give a unit, one client at a time has a memory, and it reads   *)
(* what the last one to have it wrote, whichever clients the token went    *)
(* through in between.                                                     *)
THEOREM Refinamiento == Spec => ImplementaLocks
  <1>1. Init => Locks!Init
    BY InicioDeLosLocks
  <1>2. Invariante /\ Invariante' /\ [Next]_vars => [Locks!Next]_(Locks!vars)
    BY PasoDeLosLocks
  <1>3. Spec => []Invariante
    BY InvarianteSiempre
  <1> QED  BY <1>1, <1>2, <1>3, PTL DEF Spec, ImplementaLocks, Locks!Spec
=============================================================================
