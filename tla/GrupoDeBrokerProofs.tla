------------------------ MODULE GrupoDeBrokerProofs -------------------------
(***************************************************************************)
(* The token of a group is safe for any clients and any number of slots.   *)
(***************************************************************************)
EXTENDS GrupoDeBroker, FiniteSetTheorems, WellFoundedInduction, TLAPS

SinMensajes == \A i \in Slots : cola[i] = 0
NadieTiene  == \A c \in Clientes : ~ConToken(c)

(* The token, place by place: with token_manager, in the queue of a slot,  *)
(* or with a handler.                                                      *)
EnManager ==
  cola_token_manager = 1 /\ SinMensajes /\ NadieTiene

EnCola(i) ==
  /\ cola_token_manager = 0
  /\ NadieTiene
  /\ cola[i] = 1
  /\ \A j \in Slots \ {i} : cola[j] = 0

EnHandler(c) ==
  /\ cola_token_manager = 0
  /\ SinMensajes
  /\ ConToken(c)
  /\ \A d \in Clientes \ {c} : ~ConToken(d)

UnLugar ==
  \/ EnManager
  \/ \E i \in Slots : EnCola(i)
  \/ \E c \in Clientes : EnHandler(c)

(* The inductive invariant.  The token is within reach only because        *)
(* handlers leave the table while they hold it, and because the table says *)
(* which handler reads each queue; that no second token appears needs      *)
(* neither.                                                                *)
Invariante == TypeInv /\ TablaCoherente /\ TokenAlcanzable /\ UnLugar

-----------------------------------------------------------------------------
(* The smallest element of a set of slots. *)
LEMMA MinDeSlots ==
  ASSUME NEW S \in SUBSET Slots, S # {}
  PROVE  Min(S) \in S /\ \A j \in S : Min(S) <= j
PROOF
  <1>1. S \in SUBSET Nat
    BY SuposicionGrupo DEF Slots
  <1> DEFINE menor == {ss \in Nat \X Nat : ss[1] < ss[2]}
  <1>2. IsWellFoundedOn(menor, Nat)
    BY NatLessThanWellFounded DEF OpToRel
  <1>3. \E i \in S : \A j \in S : ~ (<<j, i>> \in menor)
    <2> HIDE DEF menor
    <2> QED
      BY <1>1, <1>2, WFMin
  <1>4. \E i \in S : \A j \in S : i <= j
    <2>1. PICK i \in S : \A j \in S : ~ (<<j, i>> \in menor)
      BY <1>3
    <2>2. ASSUME NEW j \in S PROVE i <= j
      <3>1. i \in Nat /\ j \in Nat
        BY <1>1
      <3>2. <<j, i>> \in Nat \X Nat => ~ (j < i)
        BY <2>1
      <3> QED
        BY <3>1, <3>2
    <2> QED
      BY <2>2
  <1> QED
    BY <1>4 DEF Min

(* The slots of the table of a group, 0..MAX_CLIENTES-1, can be counted. *)
LEMMA SlotsFinito == IsFiniteSet(Slots) /\ Cardinality(Slots) = MaxClientes
  BY SuposicionGrupo, FS_Interval DEF Slots

(* So can those that list a client. *)
LEMMA OcupadosFinito == IsFiniteSet(Ocupados) /\ Cardinality(Ocupados) \in Nat
  BY SlotsFinito, FS_Subset, FS_CardinalityType DEF Ocupados

(* A table that is not full has a first free slot. *)
LEMMA HayLibre ==
  ASSUME TablaCoherente, cant_clientes # MaxClientes
  PROVE  /\ PrimerLibre \in Slots \ Ocupados
         /\ Ocupados = {} => PrimerLibre = 0
PROOF
  <1>1. Slots \ Ocupados # {}
    <2>1. Ocupados # Slots
      BY SlotsFinito DEF TablaCoherente
    <2> QED
      BY <2>1 DEF Ocupados
  <1>2. PrimerLibre \in Slots \ Ocupados /\ \A j \in Slots \ Ocupados : PrimerLibre <= j
    BY <1>1, MinDeSlots DEF PrimerLibre
  <1>3. ASSUME Ocupados = {} PROVE PrimerLibre = 0
    <2>1. 0 \in Slots \ Ocupados
      BY <1>3, SuposicionGrupo DEF Slots
    <2> QED
      BY <1>2, <2>1, SuposicionGrupo DEF Slots
  <1> QED
    BY <1>2, <1>3

(* The token is passed to an occupied slot, or to the first one if there   *)
(* is none.                                                                *)
LEMMA ProximoOcupado ==
  ASSUME TablaCoherente
  PROVE  /\ ProximoCliente \in Slots
         /\ Ocupados # {} => ProximoCliente \in Ocupados
         /\ Ocupados = {} => ProximoCliente = 0
PROOF
  <1>1. cant_clientes = 0 <=> Ocupados = {}
    BY OcupadosFinito, FS_EmptySet DEF TablaCoherente
  <1>2. CASE Ocupados = {}
    BY <1>1, <1>2, SuposicionGrupo DEF ProximoCliente, Slots
  <1>3. CASE Ocupados # {}
    <2> DEFINE despues == {i \in Ocupados : i > cliente_actual}
               candidatos == IF despues # {} THEN despues ELSE Ocupados
    <2>1. candidatos \in SUBSET Slots /\ candidatos \in SUBSET Ocupados /\ candidatos # {}
      BY <1>3 DEF Ocupados
    <2>2. Min(candidatos) \in candidatos
      BY <2>1, MinDeSlots
    <2>3. ProximoCliente = Min(candidatos)
      BY <1>1, <1>3 DEF ProximoCliente
    <2> QED
      BY <1>3, <2>1, <2>2, <2>3
  <1> QED
    BY <1>2, <1>3

(* One place of the token is one element of Lugares. *)
LEMMA UnLugarBasta ==
  ASSUME TypeInv, UnLugar
  PROVE  UnSoloToken
PROOF
  <1>1. CASE EnManager
    <2>1. Lugares = {<<"manager", 1>>}
      BY <1>1 DEF Lugares, EnManager, SinMensajes, NadieTiene
    <2> QED
      BY <2>1, FS_Singleton DEF UnSoloToken
  <1>2. ASSUME NEW i \in Slots, EnCola(i) PROVE UnSoloToken
    <2>1. {s \in Slots : cola[s] > 0} = {i}
      BY <1>2 DEF EnCola
    <2>2. {d \in Clientes : ConToken(d)} = {} /\ 1..cola_token_manager = {}
      BY <1>2 DEF EnCola, NadieTiene
    <2>3. Lugares = {<<"cola", i>>}
      BY <2>1, <2>2 DEF Lugares
    <2> QED
      BY <2>3, FS_Singleton DEF UnSoloToken
  <1>3. ASSUME NEW c \in Clientes, EnHandler(c) PROVE UnSoloToken
    <2>1. {d \in Clientes : ConToken(d)} = {c}
      BY <1>3 DEF EnHandler
    <2>2. {s \in Slots : cola[s] > 0} = {} /\ 1..cola_token_manager = {}
      BY <1>3 DEF EnHandler, SinMensajes
    <2>3. Lugares = {<<"handler", c>>}
      BY <2>1, <2>2 DEF Lugares
    <2> QED
      BY <2>3, FS_Singleton DEF UnSoloToken
  <1> QED
    BY <1>1, <1>2, <1>3 DEF UnLugar

-----------------------------------------------------------------------------
(* The initial table of a group. *)
LEMMA Inicio == Init => Invariante
PROOF
  <1> SUFFICES ASSUME Init PROVE Invariante
    OBVIOUS
  <1> USE DEF Init
  <1>1. 0 \in Slots
    BY SuposicionGrupo DEF Slots
  <1>2. Ocupados = {}
    BY DEF Ocupados
  <1>3. TypeInv
    BY <1>1, SuposicionGrupo DEF TypeInv, PcHandler
  <1>4. TablaCoherente
    BY <1>2, FS_EmptySet DEF TablaCoherente, Registrado
  <1>5. TokenAlcanzable
    BY DEF TokenAlcanzable
  <1>6. UnLugar
    BY DEF UnLugar, EnManager, SinMensajes, NadieTiene, ConToken
  <1> QED
    BY <1>3, <1>4, <1>5, <1>6 DEF Invariante

(* A client that comes takes a free slot, whose queue is empty unless the  *)
(* table was, and it waits there.                                          *)
LEMMA PasoJoin ==
  ASSUME Invariante, NEW c \in Clientes, Join(c)
  PROVE  Invariante'
PROOF
  <1> USE DEF Invariante
  <1> DEFINE libre == PrimerLibre
  <1>1. libre \in Slots /\ libre \notin Ocupados /\ (Ocupados = {} => libre = 0)
    BY HayLibre DEF Join
  <1>2. /\ client_names' = [client_names EXCEPT ![libre] = c]
        /\ cant_clientes' = cant_clientes + 1
        /\ numero_cola' = [numero_cola EXCEPT ![c] = libre]
        /\ conexion' = [conexion EXCEPT ![c] = TRUE]
        /\ pc' = [pc EXCEPT ![c] = "espera"]
        /\ pc[c] = "fuera" /\ cant_clientes # MaxClientes
        /\ cola' = cola /\ cola_token_manager' = cola_token_manager
        /\ cliente_actual' = cliente_actual
    BY DEF Join, IrA, tokens
  <1> HIDE DEF libre
  <1>3. TypeInv'
    BY <1>1, <1>2, SuposicionGrupo DEF TypeInv, PcHandler
  <1>4. Ocupados' = Ocupados \cup {libre}
    BY <1>1, <1>2, SuposicionGrupo DEF TypeInv, Ocupados
  <1>5. \A i \in Ocupados : client_names'[i] = client_names[i] /\ client_names[i] # c
    BY <1>1, <1>2 DEF TypeInv, Ocupados, TablaCoherente, Registrado
  <1>6. TablaCoherente'
    <2>1. cant_clientes' = Cardinality(Ocupados')
      BY <1>1, <1>2, <1>4, OcupadosFinito, FS_AddElement DEF TablaCoherente
    <2>2. \A i \in Ocupados' : /\ Registrado(client_names[i])'
                             /\ numero_cola'[client_names'[i]] = i
      BY <1>1, <1>2, <1>4, <1>5 DEF TypeInv, TablaCoherente, Registrado, Ocupados
    <2>3. ASSUME NEW d \in Clientes, Registrado(d)' PROVE client_names'[numero_cola'[d]] = d
      <3>1. CASE d = c
        BY <1>1, <1>2, <3>1 DEF TypeInv
      <3>2. CASE d # c
        <4>1. client_names[numero_cola[d]] = d
          BY <1>2, <2>3, <3>2 DEF TypeInv, TablaCoherente, Registrado
        <4>2. numero_cola[d] \in Ocupados
          BY <4>1, SuposicionGrupo DEF TypeInv, Ocupados
        <4> QED
          BY <1>1, <1>2, <3>2, <4>1, <4>2 DEF TypeInv
      <3> QED
        BY <3>1, <3>2
    <2> QED
      BY <2>1, <2>2, <2>3 DEF TablaCoherente
  <1>7. TokenAlcanzable'
    <2> SUFFICES ASSUME NEW i \in Slots, cola[i] > 0
                 PROVE  client_names'[i] # Vacio /\ pc'[client_names'[i]] = "espera"
      BY <1>2 DEF TokenAlcanzable
    <2>1. CASE client_names[i] # Vacio /\ pc[client_names[i]] = "espera"
      <3>1. i \in Ocupados
        BY <2>1 DEF Ocupados
      <3> QED
        BY <1>2, <1>5, <2>1, <3>1 DEF TypeInv, Ocupados
    <2>2. CASE Ocupados = {} /\ i = 0
      BY <1>1, <1>2, <2>2, SuposicionGrupo DEF TypeInv
    <2> QED
      BY <2>1, <2>2 DEF TokenAlcanzable
  <1>8. UnLugar'
    <2>1. \A d \in Clientes : ConToken(d)' <=> ConToken(d)
      BY <1>2 DEF TypeInv, ConToken
    <2> QED
      BY <1>2, <2>1 DEF UnLugar, EnManager, EnCola, EnHandler, SinMensajes, NadieTiene
  <1> QED
    BY <1>3, <1>6, <1>7, <1>8

(* What a step that leaves the table alone owes to it: the handlers it     *)
(* moves were registered and still are, or neither.                        *)
LEMMA TablaQuieta ==
  ASSUME Invariante, UNCHANGED <<tabla, numero_cola>>,
         \A c \in Clientes : Registrado(c)' <=> Registrado(c)
  PROVE  TablaCoherente' /\ Ocupados' = Ocupados
PROOF
  <1>1. Ocupados' = Ocupados
    BY DEF Ocupados, tabla
  <1>2. \A i \in Ocupados : client_names[i] \in Clientes
    BY DEF Invariante, TypeInv, Ocupados
  <1>3. ASSUME NEW i \in Ocupados'
        PROVE  Registrado(client_names[i])' /\ numero_cola'[client_names'[i]] = i
    <2>1. i \in Ocupados /\ client_names' = client_names /\ numero_cola' = numero_cola
      BY <1>1, <1>3 DEF tabla
    <2>2. client_names[i] \in Clientes /\ Registrado(client_names[i])
      BY <1>2, <2>1 DEF Invariante, TablaCoherente
    <2> QED
      BY <2>1, <2>2 DEF Invariante, TablaCoherente, Registrado
  <1>4. \A c \in Clientes : Registrado(c)' => client_names'[numero_cola'[c]] = c
    BY DEF Invariante, TablaCoherente, tabla
  <1> QED
    BY <1>1, <1>3, <1>4 DEF Invariante, TablaCoherente, tabla

(* Whoever has the token is the only one. *)
LEMMA DondeEsta ==
  ASSUME TypeInv, UnLugar
  PROVE  /\ cola_token_manager > 0 => EnManager
         /\ \A i \in Slots : cola[i] > 0 => EnCola(i)
         /\ \A c \in Clientes : ConToken(c) => EnHandler(c)
PROOF
  <1>1. CASE EnManager
    BY <1>1 DEF EnManager, SinMensajes, NadieTiene
  <1>2. CASE \E i \in Slots : EnCola(i)
    BY <1>2 DEF EnCola, NadieTiene
  <1>3. CASE \E c \in Clientes : EnHandler(c)
    BY <1>3 DEF EnHandler, SinMensajes
  <1> QED
    BY <1>1, <1>2, <1>3 DEF UnLugar

(* The token goes to a slot whose handler is registered and, as nobody has *)
(* the token, waits.                                                       *)
LEMMA PasoPasarToken ==
  ASSUME Invariante, PasarToken
  PROVE  Invariante'
PROOF
  <1> USE DEF Invariante
  <1>1. PICK i \in Slots : /\ i = ProximoCliente
                           /\ (Ocupados # {} => i \in Ocupados) /\ (Ocupados = {} => i = 0)
    BY ProximoOcupado
  <1>2. EnManager
    BY DondeEsta DEF PasarToken
  <1>3. /\ cola_token_manager' = 0
        /\ cliente_actual' = i
        /\ cola' = [cola EXCEPT ![i] = 1]
        /\ UNCHANGED <<tabla, handler>>
    <2>1. cola[i] + 1 = 1 /\ cola_token_manager - 1 = 0
      BY <1>1, <1>2 DEF EnManager, SinMensajes
    <2> QED
      BY <1>1, <2>1 DEF PasarToken
  <1>4. TypeInv'
    BY <1>1, <1>3 DEF TypeInv, tabla, handler
  <1>5. TablaCoherente' /\ Ocupados' = Ocupados
    BY <1>3, TablaQuieta DEF handler, Registrado
  <1>6. EnCola(i)'
    BY <1>1, <1>2, <1>3 DEF EnCola, EnManager, SinMensajes, NadieTiene, ConToken, TypeInv, handler
  <1>7. TokenAlcanzable'
    <2> SUFFICES ASSUME NEW j \in Slots, cola'[j] > 0
                 PROVE  \/ client_names[j] # Vacio /\ pc[client_names[j]] = "espera"
                        \/ Ocupados = {} /\ j = 0
      BY <1>3, <1>5 DEF TokenAlcanzable, tabla, handler
    <2>1. j = i
      BY <1>6 DEF EnCola
    <2>2. CASE Ocupados # {}
      <3>1. i \in Ocupados /\ client_names[i] \in Clientes
        BY <1>1, <2>2 DEF TypeInv, Ocupados
      <3>2. Registrado(client_names[i]) /\ ~ConToken(client_names[i])
        BY <1>2, <3>1 DEF TablaCoherente, EnManager, NadieTiene
      <3> QED
        BY <2>1, <3>1, <3>2 DEF Registrado, ConToken, Ocupados
    <2> QED
      BY <1>1, <2>1, <2>2
  <1> QED
    BY <1>1, <1>4, <1>5, <1>6, <1>7 DEF UnLugar

(* The handler takes the token out of its queue. *)
LEMMA PasoLockToken ==
  ASSUME Invariante, NEW c \in Clientes, LockToken(c)
  PROVE  Invariante'
PROOF
  <1> USE DEF Invariante
  <1>1. numero_cola[c] \in Slots
    BY DEF TypeInv
  <1>2. EnCola(numero_cola[c])
    BY <1>1, DondeEsta DEF LockToken
  <1>3. /\ cola' = [cola EXCEPT ![numero_cola[c]] = 0]
        /\ pc' = [pc EXCEPT ![c] = "presta"] /\ pc[c] = "espera"
        /\ UNCHANGED <<tabla, cola_token_manager, cliente_actual, numero_cola, conexion>>
    BY <1>1, <1>2 DEF LockToken, EnCola, IrA, TypeInv
  <1>4. TypeInv'
    BY <1>1, <1>3 DEF TypeInv, PcHandler, tabla
  <1>5. TablaCoherente'
    BY <1>3, TablaQuieta DEF Registrado, TypeInv
  <1>6. EnHandler(c)'
    BY <1>1, <1>2, <1>3 DEF EnHandler, EnCola, SinMensajes, NadieTiene, ConToken, TypeInv
  <1>7. TokenAlcanzable'
    BY <1>6 DEF TokenAlcanzable, EnHandler, SinMensajes
  <1> QED
    BY <1>4, <1>5, <1>6, <1>7 DEF UnLugar

(* The handler gives the token back and waits for it again. *)
LEMMA PasoRecvToken ==
  ASSUME Invariante, NEW c \in Clientes, RecvToken(c)
  PROVE  Invariante'
PROOF
  <1> USE DEF Invariante
  <1>1. EnHandler(c)
    BY DondeEsta DEF RecvToken, ConToken
  <1>2. /\ cola_token_manager' = 1
        /\ pc' = [pc EXCEPT ![c] = "espera"] /\ pc[c] = "presta"
        /\ UNCHANGED <<tabla, cliente_actual, cola, numero_cola, conexion>>
    BY <1>1 DEF RecvToken, EnHandler, IrA
  <1>3. TypeInv'
    BY <1>2 DEF TypeInv, PcHandler, tabla
  <1>4. TablaCoherente'
    BY <1>2, TablaQuieta DEF Registrado, TypeInv
  <1>5. EnManager'
    BY <1>1, <1>2 DEF EnManager, EnHandler, SinMensajes, NadieTiene, ConToken, TypeInv
  <1>6. TokenAlcanzable'
    BY <1>5 DEF TokenAlcanzable, EnManager, SinMensajes
  <1> QED
    BY <1>3, <1>4, <1>5, <1>6 DEF UnLugar

(* The connection of a client breaks. *)
LEMMA PasoPerderCliente ==
  ASSUME Invariante, NEW c \in Clientes, PerderCliente(c)
  PROVE  Invariante'
PROOF
  <1> USE DEF Invariante
  <1>1. EnHandler(c)
    BY DondeEsta DEF PerderCliente, ConToken
  <1>2. /\ pc' = [pc EXCEPT ![c] = "deja"] /\ pc[c] = "presta"
        /\ UNCHANGED <<tabla, tokens, numero_cola, conexion>>
    BY DEF PerderCliente, IrA
  <1>3. TypeInv'
    BY <1>2 DEF TypeInv, PcHandler, tabla, tokens
  <1>4. TablaCoherente'
    BY <1>2, TablaQuieta DEF Registrado, TypeInv
  <1>5. EnHandler(c)'
    BY <1>1, <1>2 DEF EnHandler, SinMensajes, ConToken, TypeInv, tokens
  <1>6. TokenAlcanzable'
    BY <1>5 DEF TokenAlcanzable, EnHandler, SinMensajes
  <1> QED
    BY <1>3, <1>4, <1>5, <1>6 DEF UnLugar

(* The handler leaves the table, with the token still in its hands. *)
LEMMA PasoLeaveGroup ==
  ASSUME Invariante, NEW c \in Clientes, LeaveGroup(c)
  PROVE  Invariante'
PROOF
  <1> USE DEF Invariante
  <1> DEFINE i == numero_cola[c]
  <1>1. i \in Slots /\ i \in Ocupados /\ client_names[i] = c
    BY SuposicionGrupo DEF TypeInv, TablaCoherente, Registrado, LeaveGroup, Ocupados
  <1>2. {s \in Slots : client_names[s] = c} = {i}
    BY <1>1, SuposicionGrupo DEF TablaCoherente, Ocupados
  <1>3. Min({s \in Slots : client_names[s] = c}) = i
    BY <1>1, <1>2, MinDeSlots
  <1>4. EnHandler(c)
    BY DondeEsta DEF LeaveGroup, ConToken
  <1>5. /\ client_names' = [client_names EXCEPT ![i] = Vacio]
        /\ cant_clientes' = cant_clientes - 1
        /\ pc' = [pc EXCEPT ![c] = "libera"] /\ pc[c] = "deja"
        /\ UNCHANGED <<tokens, numero_cola, conexion>>
    BY <1>3 DEF LeaveGroup, IrA
  <1> HIDE DEF i
  <1>6. Ocupados' = Ocupados \ {i}
    BY <1>1, <1>5 DEF TypeInv, Ocupados
  <1>7. cant_clientes' = Cardinality(Ocupados') /\ cant_clientes' \in 0..MaxClientes
    <2>1. cant_clientes' = Cardinality(Ocupados')
      BY <1>1, <1>5, <1>6, OcupadosFinito, FS_RemoveElement DEF TablaCoherente
    <2>2. Cardinality(Ocupados') \in Nat
      BY <1>6, OcupadosFinito, FS_RemoveElement, FS_CardinalityType
    <2> QED
      BY <1>5, <2>1, <2>2, SuposicionGrupo DEF TypeInv
  <1>8. TypeInv'
    BY <1>1, <1>5, <1>7, SuposicionGrupo DEF TypeInv, PcHandler, tokens
  <1>9. TablaCoherente'
    <2>1. ASSUME NEW j \in Ocupados'
          PROVE  Registrado(client_names[j])' /\ numero_cola'[client_names'[j]] = j
      <3>1. j \in Ocupados /\ j # i /\ j \in Slots
        BY <1>6, <2>1 DEF Ocupados
      <3>2. client_names'[j] = client_names[j] /\ client_names[j] \in Clientes
        BY <1>1, <1>5, <3>1 DEF TypeInv, Ocupados
      <3>3. client_names[j] # c
        BY <1>2, <3>1
      <3> QED
        BY <1>5, <3>1, <3>2, <3>3 DEF TablaCoherente, Registrado, TypeInv
    <2>2. ASSUME NEW d \in Clientes, Registrado(d)' PROVE client_names'[numero_cola'[d]] = d
      <3>1. d # c /\ Registrado(d)
        BY <1>5, <2>2 DEF Registrado, TypeInv
      <3>2. client_names[numero_cola[d]] = d /\ numero_cola[d] \in Slots
        BY <3>1 DEF TablaCoherente, TypeInv
      <3> QED
        BY <1>1, <1>5, <3>1, <3>2 DEF TypeInv
    <2> QED
      BY <1>7, <2>1, <2>2 DEF TablaCoherente
  <1>10. EnHandler(c)'
    BY <1>4, <1>5 DEF EnHandler, SinMensajes, ConToken, TypeInv, tokens
  <1>11. TokenAlcanzable'
    BY <1>10 DEF TokenAlcanzable, EnHandler, SinMensajes
  <1> QED
    BY <1>8, <1>9, <1>10, <1>11 DEF UnLugar

(* The last client to leave keeps the token in the group. *)
LEMMA PasoLiberarToken ==
  ASSUME Invariante, NEW c \in Clientes, LiberarToken(c)
  PROVE  Invariante'
PROOF
  <1> USE DEF Invariante
  <1>1. EnHandler(c)
    BY DondeEsta DEF LiberarToken, ConToken
  <1>2. /\ cola_token_manager' = 1
        /\ pc' = [pc EXCEPT ![c] = "fuera"] /\ pc[c] = "libera"
        /\ UNCHANGED <<tabla, cliente_actual, cola, numero_cola, conexion>>
    BY <1>1 DEF LiberarToken, EnHandler, IrA
  <1>3. TypeInv'
    BY <1>2 DEF TypeInv, PcHandler, tabla
  <1>4. TablaCoherente'
    BY <1>2, TablaQuieta DEF Registrado, TypeInv
  <1>5. EnManager'
    BY <1>1, <1>2 DEF EnManager, EnHandler, SinMensajes, NadieTiene, ConToken, TypeInv
  <1>6. TokenAlcanzable'
    BY <1>5 DEF TokenAlcanzable, EnManager, SinMensajes
  <1> QED
    BY <1>3, <1>4, <1>5, <1>6 DEF UnLugar

(* A broken connection changes nothing until the handler sees it. *)
LEMMA PasoCortar ==
  ASSUME Invariante, NEW c \in Clientes, Cortar(c)
  PROVE  Invariante'
PROOF
  <1> USE DEF Invariante
  <1>1. UNCHANGED <<tabla, tokens, pc, numero_cola>> /\ conexion' \in [Clientes -> BOOLEAN]
    BY DEF Cortar, TypeInv
  <1>2. TypeInv'
    BY <1>1 DEF TypeInv, tabla, tokens
  <1>3. TablaCoherente' /\ Ocupados' = Ocupados
    BY <1>1, TablaQuieta DEF Registrado
  <1>4. TokenAlcanzable'
    BY <1>1, <1>3 DEF TokenAlcanzable, tabla, tokens
  <1>5. UnLugar'
    BY <1>1 DEF UnLugar, EnManager, EnCola, EnHandler, SinMensajes, NadieTiene, ConToken, tokens
  <1> QED
    BY <1>2, <1>3, <1>4, <1>5

(* Every step keeps the invariant. *)
LEMMA Paso == Invariante /\ [Next]_vars => Invariante'
PROOF
  <1> SUFFICES ASSUME Invariante, [Next]_vars PROVE Invariante'
    OBVIOUS
  <1>1. CASE PasarToken
    BY <1>1, PasoPasarToken
  <1>2. ASSUME NEW c \in Clientes, Join(c) PROVE Invariante'
    BY <1>2, PasoJoin
  <1>3. ASSUME NEW c \in Clientes, PasoHandler(c) PROVE Invariante'
    BY <1>3, PasoLockToken, PasoRecvToken, PasoPerderCliente, PasoLeaveGroup, PasoLiberarToken
       DEF PasoHandler
  <1>4. ASSUME NEW c \in Clientes, Cortar(c) PROVE Invariante'
    BY <1>4, PasoCortar
  <1>5. CASE UNCHANGED vars
    <2>1. UNCHANGED <<tabla, tokens, pc, numero_cola, conexion>>
      BY <1>5 DEF vars, handler
    <2>2. TypeInv'
      BY <2>1 DEF Invariante, TypeInv, tabla, tokens
    <2>3. TablaCoherente' /\ Ocupados' = Ocupados
      BY <2>1, TablaQuieta DEF Registrado
    <2>4. TokenAlcanzable'
      BY <2>1, <2>3 DEF Invariante, TokenAlcanzable, tabla, tokens
    <2>5. UnLugar'
      BY <2>1 DEF Invariante, UnLugar, EnManager, EnCola, EnHandler, SinMensajes, NadieTiene,
                  ConToken, tokens
    <2> QED
      BY <2>2, <2>3, <2>4, <2>5 DEF Invariante
  <1> QED
    BY <1>1, <1>2, <1>3, <1>4, <1>5 DEF Next

(* The invariant of the group holds in every state. *)
LEMMA InvarianteSiempre == Spec => []Invariante
  BY Inicio, Paso, PTL DEF Spec

-----------------------------------------------------------------------------
(* The counts of the group stay within the slots and the one token. *)
THEOREM TiposSiempre == Spec => []TypeInv
  BY InvarianteSiempre, PTL DEF Invariante

(* The table of the group agrees with the handlers that run (join and      *)
(* leave of grupo.cpp).                                                    *)
THEOREM TablaSiempre == Spec => []TablaCoherente
  BY InvarianteSiempre, PTL DEF Invariante

(* There is always exactly one token, wherever clients leave or break      *)
(* (loop_memoria of client_handler.cpp).                                   *)
THEOREM UnTokenSiempre == Spec => []UnSoloToken
PROOF
  <1>1. Invariante => UnSoloToken
    BY UnLugarBasta DEF Invariante
  <1> QED
    BY <1>1, InvarianteSiempre, PTL

(* The token is never passed to a client that has left                     *)
(* (pasar_token_a_proximo_cliente of grupo.cpp).                           *)
THEOREM AlcanzableSiempre == Spec => []TokenAlcanzable
  BY InvarianteSiempre, PTL DEF Invariante
=============================================================================
