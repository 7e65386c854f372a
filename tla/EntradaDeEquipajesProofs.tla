---------------------- MODULE EntradaDeEquipajesProofs ----------------------
(***************************************************************************)
(* The two ways in which bags come into an airport's handling system: the  *)
(* check-in belt, and transfers from flights that come in.                 *)
(*                                                                         *)
(* The first part is about CintaCheckin: the belt is correct for any       *)
(* number of desks, any size and any bags.  The second part is about       *)
(* Trasbordo: bags come to the right airport once and at the right time,   *)
(* for any airports, flights, bags and sizes of the queues.  Neither part  *)
(* uses the other one.                                                     *)
(***************************************************************************)
EXTENDS CintaCheckin, Trasbordo, FiniteSetTheorems, LemasGenerales

-----------------------------------------------------------------------------
(***************************************************************************)
(* The check-in belt                                                       *)
(***************************************************************************)

(* A desk inside poner_equipaje has a bag to put. *)
ArgumentoPresente ==
  \A p \in Productores : pc_productor[p] # "fuera" => a_colocar[p] \in Equipajes

(* The inductive invariant.  No part is inductive alone: a mark implies a  *)
(* full belt only because a marked producer cannot enter (one permission), *)
(* and the wake-up loops run only because the counter agrees with them.    *)
Invariante ==
  /\ TypeInv
  /\ UnPermisoPorProceso
  /\ EsperaJustificada
  /\ CuentaDeEsperas
  /\ PosicionesCoherentes
  /\ ArgumentoPresente

-----------------------------------------------------------------------------
(* Siguiente is the successor on the ring. *)
LEMMA SiguienteEnRango ==
  ASSUME NEW i \in 0..Tamanio - 1
  PROVE  Siguiente(i) \in 0..Tamanio - 1
  BY AvanceDePosicion, SuposicionCinta DEF Siguiente

-----------------------------------------------------------------------------
(* The marks and their counter. *)

(* The marks left in ids_productores_esperando can be counted. *)
LEMMA MarcadosFinito == IsFiniteSet(Marcados) /\ Cardinality(Marcados) \in Nat
  BY SuposicionCinta, FS_Subset, FS_CardinalityType DEF Marcados

(* The counter is zero exactly when no producer is marked. *)
LEMMA SinMarcas ==
  ASSUME Invariante
  PROVE  cantidad_productores_esperando = 0 <=> Marcados = {}
  BY MarcadosFinito, FS_EmptySet DEF Invariante, CuentaDeEsperas

(* What the end of a producer's turn does to the marks, their counter and  *)
(* the semaphores, when the producer holds its permission.                 *)
LEMMA TurnoProductor ==
  ASSUME Invariante, NEW p \in Productores, NEW n \in 0..Tamanio,
         pc_productor[p] = "despierto", TerminarTurnoProductor(p, n)
  PROVE  /\ cantidad_productores_esperando' \in Nat
         /\ ids_productores_esperando' \in [Productores -> 0..1]
         /\ semaforo_productores' \in [Productores -> 0..1]
         /\ cantidad_productores_esperando' = Cardinality(Marcados')
         /\ semaforo_productores'[p] + ids_productores_esperando'[p] = 1
         /\ ids_productores_esperando'[p] = 1 => n = Tamanio
         /\ \A q \in Productores \ {p} :
              /\ semaforo_productores'[q] = semaforo_productores[q]
              /\ ids_productores_esperando'[q] = ids_productores_esperando[q]
  <1> USE DEF Invariante, TypeInv
  <1>1. semaforo_productores[p] = 0 /\ ids_productores_esperando[p] = 0
    BY DEF UnPermisoPorProceso, EnMano
  <1>2. CASE n = Tamanio
    <2>1. /\ cantidad_productores_esperando' =
                cantidad_productores_esperando + 1
          /\ ids_productores_esperando' =
                [ids_productores_esperando EXCEPT ![p] = 1]
          /\ semaforo_productores' = semaforo_productores
      BY <1>2 DEF TerminarTurnoProductor
    <2>2. p \notin Marcados /\ Marcados' = Marcados \cup {p}
      BY <1>1, <2>1 DEF Marcados
    <2>3. Cardinality(Marcados') = Cardinality(Marcados) + 1
      BY <2>2, FS_AddElement, MarcadosFinito
    <2> QED  BY <1>1, <1>2, <2>1, <2>3 DEF CuentaDeEsperas
  <1>3. CASE n # Tamanio
    <2>1. /\ semaforo_productores' = [semaforo_productores EXCEPT ![p] = 1]
          /\ UNCHANGED espera_productores
      BY <1>1, <1>3 DEF TerminarTurnoProductor
    <2>2. Marcados' = Marcados
      BY <2>1 DEF Marcados, espera_productores
    <2> QED  BY <1>1, <2>1, <2>2 DEF CuentaDeEsperas, espera_productores
  <1> QED  BY <1>2, <1>3

(* What the end of the consumer's turn does, given its permission. *)
LEMMA TurnoConsumidor ==
  ASSUME Invariante, NEW n \in 0..Tamanio,
         pc_consumidor = "despierto", TerminarTurnoConsumidor(n)
  PROVE  /\ semaforo_consumidores' \in 0..1
         /\ ids_consumidores_esperando' \in 0..1
         /\ cantidad_consumidores_esperando' = ids_consumidores_esperando'
         /\ semaforo_consumidores' + ids_consumidores_esperando' = 1
         /\ ids_consumidores_esperando' = 1 => n = 0
  BY DEF Invariante, TypeInv, UnPermisoPorProceso, EnMano, CuentaDeEsperas,
         TerminarTurnoConsumidor, espera_consumidores

(* despertar_productores, when the belt has stopped being full: nobody is  *)
(* marked any more and every mark has become a signal.                     *)
LEMMA DespiertanProductores ==
  ASSUME Invariante, DespertarProductores
  PROVE  /\ cantidad_productores_esperando' = 0
         /\ ids_productores_esperando' = [p \in Productores |-> 0]
         /\ semaforo_productores' =
              [p \in Productores |-> semaforo_productores[p]
                                       + ids_productores_esperando[p]]
  <1> USE DEF Invariante, TypeInv
  <1>1. CASE cantidad_productores_esperando > 0
    BY <1>1 DEF DespertarProductores
  <1>2. CASE cantidad_productores_esperando = 0
    <2>1. \A p \in Productores : ids_productores_esperando[p] = 0
      BY <1>2, SinMarcas DEF Marcados
    <2>2. UNCHANGED <<semaforo_productores, espera_productores>>
      BY <1>2 DEF DespertarProductores
    <2> QED  BY <1>2, <2>1, <2>2 DEF espera_productores
  <1> QED  BY <1>1, <1>2

(* despertar_consumidores, when the belt has stopped being empty. *)
LEMMA DespiertaConsumidor ==
  ASSUME Invariante, DespertarConsumidores
  PROVE  /\ cantidad_consumidores_esperando' = 0
         /\ ids_consumidores_esperando' = 0
         /\ semaforo_consumidores' =
              semaforo_consumidores + ids_consumidores_esperando
  BY DEF Invariante, TypeInv, CuentaDeEsperas, DespertarConsumidores,
         espera_consumidores

-----------------------------------------------------------------------------
(* The invariant holds at the start and every action keeps it. *)

(* The initial contents of the memory and the semaphores. *)
LEMMA InvarianteInicial == Init => Invariante
  <1> SUFFICES ASSUME Init PROVE Invariante
    OBVIOUS
  <1>1. TypeInv
    BY SuposicionCinta DEF Init, TypeInv, Pc
  <1>2. CuentaDeEsperas
    <2>1. Marcados = {}
      BY DEF Init, Marcados
    <2> QED  BY <2>1, FS_EmptySet DEF Init, CuentaDeEsperas
  <1>3. PosicionesCoherentes
    <2>1. 0 + 0 = 0 /\ 0 % Tamanio = 0
      BY RestoDosVueltas, SuposicionCinta
    <2> QED  BY <2>1 DEF Init, PosicionesCoherentes
  <1> QED
    BY <1>1, <1>2, <1>3 DEF Init, Invariante, UnPermisoPorProceso, EnMano,
       EsperaJustificada, ArgumentoPresente

(* What remains of the invariant once the turn of the producer is known.   *)
LEMMA ConservaColocar ==
  ASSUME Invariante, NEW p \in Productores, Colocar(p)
  PROVE  Invariante'
  <1> USE DEF Invariante
  <1>1. /\ pc_productor[p] = "despierto"
        /\ cantidad_elementos + 1 \in 1..Tamanio
        /\ cantidad_elementos' = cantidad_elementos + 1
        /\ TerminarTurnoProductor(p, cantidad_elementos + 1)
        /\ a_colocar[p] \in Equipajes
    BY SuposicionCinta DEF Colocar, TypeInv, ArgumentoPresente
  <1>2. /\ cantidad_productores_esperando' \in Nat
        /\ ids_productores_esperando' \in [Productores -> 0..1]
        /\ semaforo_productores' \in [Productores -> 0..1]
        /\ cantidad_productores_esperando' = Cardinality(Marcados')
        /\ semaforo_productores'[p] + ids_productores_esperando'[p] = 1
        /\ ids_productores_esperando'[p] = 1 => cantidad_elementos' = Tamanio
        /\ \A q \in Productores \ {p} :
             /\ semaforo_productores'[q] = semaforo_productores[q]
             /\ ids_productores_esperando'[q] = ids_productores_esperando[q]
    BY <1>1, TurnoProductor, SuposicionCinta
  <1>3. /\ cantidad_consumidores_esperando' = ids_consumidores_esperando'
        /\ ids_consumidores_esperando' = 0
        /\ semaforo_consumidores' =
             semaforo_consumidores + ids_consumidores_esperando
    <2>1. CASE cantidad_elementos = 0
      BY <2>1, <1>1, DespiertaConsumidor DEF Colocar
    <2>2. CASE cantidad_elementos # 0
      BY <2>2, <1>1 DEF Colocar, TypeInv, EsperaJustificada, CuentaDeEsperas,
         espera_consumidores
    <2> QED  BY <2>1, <2>2
  <1>4. TypeInv'
    <2>1. /\ posicion_libre' \in 0..Tamanio - 1
          /\ posicion_ocupada' \in 0..Tamanio - 1
          /\ cantidad_elementos' \in 0..Tamanio
      BY <1>1, SiguienteEnRango, SuposicionCinta DEF Colocar, TypeInv
    <2>2. vector_elementos' \in [0..Tamanio - 1 -> Equipajes \cup {Ninguno}]
      BY <1>1 DEF Colocar, TypeInv
    <2>3. semaforo_consumidores' \in 0..1
      BY <1>3 DEF TypeInv, UnPermisoPorProceso, EnMano
    <2>4. /\ pc_productor' \in [Productores -> Pc]
          /\ a_colocar' \in [Productores -> Equipajes \cup {Ninguno}]
          /\ pc_consumidor' \in Pc
          /\ elemento' \in Equipajes \cup {Ninguno}
      BY DEF Colocar, TypeInv, Pc, consumidor
    <2> QED  BY <1>2, <1>3, <2>1, <2>2, <2>3, <2>4 DEF TypeInv
  <1>5. UnPermisoPorProceso'
    <2>1. pc_productor' = [pc_productor EXCEPT ![p] = "fuera"]
          /\ pc_consumidor' = pc_consumidor
      BY DEF Colocar, consumidor
    <2> QED
      BY <1>2, <1>3, <2>1 DEF TypeInv, UnPermisoPorProceso, EnMano
  <1>6. EsperaJustificada'
    BY <1>1, <1>2, <1>3, SuposicionCinta DEF EsperaJustificada, TypeInv
  <1>7. CuentaDeEsperas'
    BY <1>2, <1>3 DEF CuentaDeEsperas
  <1>8. PosicionesCoherentes'
    <2>1. /\ posicion_libre = (posicion_ocupada + cantidad_elementos) % Tamanio
          /\ posicion_ocupada \in 0..Tamanio - 1
          /\ cantidad_elementos \in 0..Tamanio
      BY DEF PosicionesCoherentes, TypeInv
    <2>2. posicion_libre' = (posicion_libre + 1) % Tamanio
      BY DEF Colocar, Siguiente
    <2>3. posicion_libre' = (posicion_ocupada + cantidad_elementos + 1) % Tamanio
      BY <2>1, <2>2, AvanceCoherente, SuposicionCinta
    <2>4. /\ posicion_ocupada' = posicion_ocupada
          /\ posicion_ocupada + cantidad_elementos + 1
               = posicion_ocupada + (cantidad_elementos + 1)
      BY <2>1, SuposicionCinta DEF Colocar
    <2> QED  BY <1>1, <2>3, <2>4 DEF PosicionesCoherentes
  <1>9. ArgumentoPresente'
    BY DEF ArgumentoPresente, Colocar, TypeInv
  <1> QED  BY <1>4, <1>5, <1>6, <1>7, <1>8, <1>9

(* A turn of the loop of poner_equipaje that finds the belt full. *)
LEMMA ConservaNoPudoColocar ==
  ASSUME Invariante, NEW p \in Productores, NoPudoColocar(p)
  PROVE  Invariante'
  <1> USE DEF Invariante
  <1>1. /\ pc_productor[p] = "despierto"
        /\ cantidad_elementos = Tamanio
        /\ TerminarTurnoProductor(p, cantidad_elementos)
    BY SuposicionCinta DEF NoPudoColocar, TypeInv
  <1>2. /\ cantidad_productores_esperando' \in Nat
        /\ ids_productores_esperando' \in [Productores -> 0..1]
        /\ semaforo_productores' \in [Productores -> 0..1]
        /\ cantidad_productores_esperando' = Cardinality(Marcados')
        /\ semaforo_productores'[p] + ids_productores_esperando'[p] = 1
        /\ \A q \in Productores \ {p} :
             /\ semaforo_productores'[q] = semaforo_productores[q]
             /\ ids_productores_esperando'[q] = ids_productores_esperando[q]
    BY <1>1, TurnoProductor, SuposicionCinta
  <1>3. /\ UNCHANGED <<posiciones, cantidad_elementos, espera_consumidores,
                       semaforo_consumidores, a_colocar, consumidor>>
        /\ pc_productor' = [pc_productor EXCEPT ![p] = "esperando"]
    BY DEF NoPudoColocar
  <1>4. TypeInv'
    BY <1>2, <1>3 DEF TypeInv, Pc, posiciones, espera_consumidores, consumidor
  <1>5. UnPermisoPorProceso'
    BY <1>2, <1>3
       DEF TypeInv, UnPermisoPorProceso, EnMano, espera_consumidores, consumidor
  <1>6. EsperaJustificada'
    BY <1>1, <1>3 DEF EsperaJustificada, espera_consumidores
  <1>7. CuentaDeEsperas'
    BY <1>2, <1>3 DEF CuentaDeEsperas, espera_consumidores
  <1>8. PosicionesCoherentes'
    BY <1>3 DEF PosicionesCoherentes, posiciones
  <1>9. ArgumentoPresente'
    BY <1>1, <1>3 DEF ArgumentoPresente, TypeInv
  <1> QED  BY <1>4, <1>5, <1>6, <1>7, <1>8, <1>9

(* A turn of the loop of sacar_equipaje that takes a bag. *)
LEMMA ConservaExtraer ==
  ASSUME Invariante, Extraer
  PROVE  Invariante'
  <1> USE DEF Invariante
  <1>1. /\ pc_consumidor = "despierto"
        /\ cantidad_elementos - 1 \in 0..Tamanio - 1
        /\ cantidad_elementos' = cantidad_elementos - 1
        /\ TerminarTurnoConsumidor(cantidad_elementos - 1)
    BY SuposicionCinta DEF Extraer, TypeInv
  <1>2. /\ semaforo_consumidores' \in 0..1
        /\ ids_consumidores_esperando' \in 0..1
        /\ cantidad_consumidores_esperando' = ids_consumidores_esperando'
        /\ semaforo_consumidores' + ids_consumidores_esperando' = 1
        /\ ids_consumidores_esperando' = 1 => cantidad_elementos' = 0
    <2>1. cantidad_elementos - 1 \in 0..Tamanio
      BY <1>1, SuposicionCinta
    <2> QED  BY <1>1, <2>1, TurnoConsumidor
  <1>3. /\ cantidad_productores_esperando' = 0
        /\ ids_productores_esperando' = [p \in Productores |-> 0]
        /\ semaforo_productores' =
             [p \in Productores |-> semaforo_productores[p]
                                      + ids_productores_esperando[p]]
    <2>1. CASE cantidad_elementos = Tamanio
      BY <2>1, <1>1, DespiertanProductores DEF Extraer
    <2>2. CASE cantidad_elementos # Tamanio
      <3>1. \A p \in Productores : ids_productores_esperando[p] = 0
        BY <2>2 DEF EsperaJustificada, TypeInv
      <3>2. cantidad_productores_esperando = 0
        BY <3>1, SinMarcas DEF Marcados
      <3>3. UNCHANGED <<semaforo_productores, espera_productores>>
        BY <2>2, <1>1, SuposicionCinta DEF Extraer, TypeInv
      <3> QED  BY <3>1, <3>2, <3>3 DEF espera_productores, TypeInv
    <2> QED  BY <2>1, <2>2
  <1>4. /\ pc_consumidor' = "fuera"
        /\ elemento' = vector_elementos[posicion_ocupada]
        /\ UNCHANGED <<posicion_libre, vector_elementos, productores>>
        /\ posicion_ocupada' = Siguiente(posicion_ocupada)
    BY DEF Extraer
  <1>5. TypeInv'
    <2>1. posicion_ocupada' \in 0..Tamanio - 1 /\ cantidad_elementos' \in 0..Tamanio
      BY <1>1, <1>4, SiguienteEnRango, SuposicionCinta DEF TypeInv
    <2>2. semaforo_productores' \in [Productores -> 0..1]
      BY <1>3 DEF TypeInv, UnPermisoPorProceso, EnMano
    <2>3. /\ cantidad_productores_esperando' \in Nat
          /\ ids_productores_esperando' \in [Productores -> 0..1]
      BY <1>3
    <2>4. elemento' \in Equipajes \cup {Ninguno} /\ pc_consumidor' \in Pc
      BY <1>4 DEF TypeInv, Pc
    <2>5. UNCHANGED <<posicion_libre, vector_elementos, pc_productor, a_colocar>>
      BY <1>4 DEF productores
    <2> QED
      BY <1>2, <2>1, <2>2, <2>3, <2>4, <2>5 DEF TypeInv
  <1>6. UnPermisoPorProceso'
    <2>1. semaforo_consumidores' + ids_consumidores_esperando'
            + EnMano(pc_consumidor') = 1
      <3>1. EnMano(pc_consumidor') = 0
        BY <1>4 DEF EnMano
      <3>2. semaforo_consumidores' + ids_consumidores_esperando' = 1
        BY <1>2
      <3>3. 1 + EnMano(pc_consumidor') = 1
        BY <3>1
      <3> QED  BY <3>2, <3>3
    <2>2. ASSUME NEW p \in Productores
          PROVE  semaforo_productores'[p] + ids_productores_esperando'[p]
                   + EnMano(pc_productor'[p]) = 1
      <3>1. pc_productor' = pc_productor
        BY <1>4 DEF productores
      <3>2. EnMano(pc_productor[p]) \in 0..1
        BY DEF EnMano
      <3> QED  BY <1>3, <3>1, <3>2 DEF UnPermisoPorProceso, TypeInv
    <2> QED  BY <2>1, <2>2 DEF UnPermisoPorProceso
  <1>7. EsperaJustificada'
    BY <1>2, <1>3 DEF EsperaJustificada
  <1>8. CuentaDeEsperas'
    <2>1. Marcados' = {}
      BY <1>3 DEF Marcados
    <2> QED  BY <1>2, <1>3, <2>1, FS_EmptySet DEF CuentaDeEsperas
  <1>9. PosicionesCoherentes'
    <2>1. /\ posicion_libre = (posicion_ocupada + cantidad_elementos) % Tamanio
          /\ posicion_ocupada \in 0..Tamanio - 1
          /\ cantidad_elementos \in 0..Tamanio
          /\ cantidad_elementos > 0
      BY <1>1, SuposicionCinta DEF PosicionesCoherentes, TypeInv
    <2>2. posicion_ocupada' = (posicion_ocupada + 1) % Tamanio
      BY <1>4 DEF Siguiente
    <2>3. (((posicion_ocupada + 1) % Tamanio) + (cantidad_elementos - 1)) % Tamanio
            = (posicion_ocupada + cantidad_elementos) % Tamanio
      BY <2>1, AvanceCoherente, SuposicionCinta
    <2> QED  BY <1>1, <1>4, <2>1, <2>2, <2>3 DEF PosicionesCoherentes
  <1>10. ArgumentoPresente'
    BY <1>4 DEF ArgumentoPresente, productores
  <1> QED  BY <1>5, <1>6, <1>7, <1>8, <1>9, <1>10

(* A turn of the loop of sacar_equipaje that finds the belt empty. *)
LEMMA ConservaNoPudoExtraer ==
  ASSUME Invariante, NoPudoExtraer
  PROVE  Invariante'
  <1> USE DEF Invariante
  <1>1. /\ pc_consumidor = "despierto"
        /\ cantidad_elementos = 0
        /\ TerminarTurnoConsumidor(cantidad_elementos)
    BY DEF NoPudoExtraer, TypeInv
  <1>2. /\ semaforo_consumidores' \in 0..1
        /\ ids_consumidores_esperando' \in 0..1
        /\ cantidad_consumidores_esperando' = ids_consumidores_esperando'
        /\ semaforo_consumidores' + ids_consumidores_esperando' = 1
    BY <1>1, TurnoConsumidor, SuposicionCinta
  <1>3. /\ UNCHANGED <<posiciones, cantidad_elementos, espera_productores,
                       semaforo_productores, productores, elemento>>
        /\ pc_consumidor' = "esperando"
    BY DEF NoPudoExtraer
  <1>4. Marcados' = Marcados
    BY <1>3 DEF Marcados, espera_productores
  <1>5. TypeInv'
    BY <1>2, <1>3 DEF TypeInv, Pc, posiciones, espera_productores, productores
  <1>6. UnPermisoPorProceso'
    <2>1. semaforo_consumidores' + ids_consumidores_esperando'
            + EnMano(pc_consumidor') = 1
      <3>1. EnMano(pc_consumidor') = 0
        BY <1>3 DEF EnMano
      <3>2. semaforo_consumidores' + ids_consumidores_esperando' = 1
        BY <1>2
      <3>3. 1 + EnMano(pc_consumidor') = 1
        BY <3>1
      <3> QED  BY <3>2, <3>3
    <2> QED
      BY <1>3, <2>1 DEF UnPermisoPorProceso, espera_productores, productores
  <1>7. EsperaJustificada' /\ CuentaDeEsperas'
    BY <1>1, <1>2, <1>3, <1>4
       DEF EsperaJustificada, CuentaDeEsperas, espera_productores
  <1>8. PosicionesCoherentes' /\ ArgumentoPresente'
    BY <1>3 DEF PosicionesCoherentes, ArgumentoPresente, posiciones, productores
  <1> QED  BY <1>5, <1>6, <1>7, <1>8

(* The steps outside the critical section: the call and wait_on. *)
LEMMA ConservaAfuera ==
  ASSUME Invariante,
         \/ \E p \in Productores, e \in Equipajes : LlamarPoner(p, e)
         \/ \E p \in Productores : EsperarProductor(p)
         \/ LlamarSacar
         \/ EsperarConsumidor
  PROVE  Invariante'
  <1> USE DEF Invariante, TypeInv, Pc, UnPermisoPorProceso, EnMano,
              EsperaJustificada, CuentaDeEsperas, PosicionesCoherentes,
              ArgumentoPresente, Marcados, posiciones, espera_productores,
              espera_consumidores, productores, consumidor
  <1>1. ASSUME NEW p \in Productores, NEW e \in Equipajes, LlamarPoner(p, e)
        PROVE  Invariante'
    BY <1>1 DEF LlamarPoner
  <1>2. ASSUME NEW p \in Productores, EsperarProductor(p)
        PROVE  Invariante'
    BY <1>2 DEF EsperarProductor
  <1>3. ASSUME LlamarSacar
        PROVE  Invariante'
    BY <1>3 DEF LlamarSacar
  <1>4. ASSUME EsperarConsumidor
        PROVE  Invariante'
    BY <1>4 DEF EsperarConsumidor
  <1> QED  BY <1>1, <1>2, <1>3, <1>4

(* The invariant of the check-in belt: whatever the desks and robot_checkin *)
(* do inside poner_equipaje and sacar_equipaje, it holds in every state.    *)
THEOREM InvarianteSiempre == Spec => []Invariante
  <1>1. Invariante /\ [Next]_vars => Invariante'
    <2> SUFFICES ASSUME Invariante, [Next]_vars
                 PROVE  Invariante'
      OBVIOUS
    <2>1. CASE UNCHANGED vars
      BY <2>1 DEF vars, Invariante, TypeInv, UnPermisoPorProceso,
         EsperaJustificada, CuentaDeEsperas, PosicionesCoherentes,
         ArgumentoPresente, Marcados, posiciones, espera_productores,
         espera_consumidores, productores, consumidor
    <2>2. CASE Next
      BY <2>2, ConservaColocar, ConservaNoPudoColocar, ConservaExtraer,
         ConservaNoPudoExtraer, ConservaAfuera
         DEF Next, PasoProductor, PasoConsumidor
    <2> QED  BY <2>1, <2>2
  <1> QED  BY InvarianteInicial, <1>1, PTL DEF Spec

(* The memory, the semaphores and the calls have their types; in           *)
(* particular the semaphores of the belt stay binary.                      *)
THEOREM TiposSiempre == Spec => []TypeInv
  BY InvarianteSiempre, PTL DEF Invariante

(* No signal of the belt is lost or duplicated (UnPermisoPorProceso).      *)
THEOREM PermisosSiempre == Spec => []UnPermisoPorProceso
  BY InvarianteSiempre, PTL DEF Invariante

(* Nobody sleeps at the belt while it could work: a mark of                *)
(* poner_equipaje means a full belt, one of sacar_equipaje an empty one.   *)
THEOREM EsperasSiempre == Spec => []EsperaJustificada
  BY InvarianteSiempre, PTL DEF Invariante

(* The counters of sleeping processes agree with their marks, and the      *)
(* indices of the ring with the number of bags.                            *)
THEOREM CuentasSiempre == Spec => [](CuentaDeEsperas /\ PosicionesCoherentes)
  BY InvarianteSiempre, PTL DEF Invariante

-----------------------------------------------------------------------------
(* The belt implements the bounded queue. *)

(* A bag put on the belt goes to the end of the queue. *)
LEMMA ColocarEsPoner ==
  ASSUME Invariante, NEW p \in Productores, Colocar(p)
  PROVE  Cola!Poner(a_colocar[p])
  <1> USE SuposicionCinta DEF Invariante
  <1> DEFINE o == posicion_ocupada
             n == cantidad_elementos
             e == a_colocar[p]
  <1>1. /\ o \in 0..Tamanio - 1
        /\ n \in 0..Tamanio - 1
        /\ DOMAIN vector_elementos = 0..Tamanio - 1
        /\ posicion_libre = (o + n) % Tamanio
        /\ vector_elementos' = [vector_elementos EXCEPT ![posicion_libre] = e]
        /\ cantidad_elementos' = n + 1
        /\ posicion_ocupada' = o
        /\ elemento' = elemento
    BY DEF Colocar, TypeInv, PosicionesCoherentes, consumidor
  <1>2. /\ Contenido = EnOrden(vector_elementos, o, n, Tamanio)
        /\ Contenido' = EnOrden(vector_elementos', o, n + 1, Tamanio)
    BY <1>1 DEF Contenido, EnOrden
  <1>3. Coloca(vector_elementos, vector_elementos', o, n, Tamanio, e)
    BY <1>1 DEF Coloca
  <1>4. Contenido' = Append(Contenido, e)
    BY <1>2, <1>3, ColocarAgrega
  <1>5. Len(Contenido) < Tamanio
    BY <1>1, <1>2, OrdenEsSecuencia
  <1> QED  BY <1>1, <1>4, <1>5 DEF Cola!Poner

(* The consumer takes the bag at the head of the queue. *)
LEMMA ExtraerEsSacar ==
  ASSUME Invariante, Extraer
  PROVE  Cola!Sacar
  <1> USE SuposicionCinta DEF Invariante
  <1> DEFINE o == posicion_ocupada
             n == cantidad_elementos
  <1>1. /\ o \in 0..Tamanio - 1
        /\ n \in 1..Tamanio
        /\ DOMAIN vector_elementos = 0..Tamanio - 1
        /\ vector_elementos' = vector_elementos
        /\ cantidad_elementos' = n - 1
        /\ posicion_ocupada' = (o + 1) % Tamanio
        /\ elemento' = vector_elementos[o]
    BY DEF Extraer, TypeInv, Siguiente
  <1>2. /\ Contenido = EnOrden(vector_elementos, o, n, Tamanio)
        /\ Contenido' =
             EnOrden(vector_elementos, (o + 1) % Tamanio, n - 1, Tamanio)
    BY <1>1 DEF Contenido, EnOrden
  <1>3. Ocupado(vector_elementos, o, n, Tamanio)
    BY <1>1 DEF Ocupado
  <1>4. Contenido # <<>> /\ Head(Contenido) = vector_elementos[o]
    BY <1>2, <1>3, CabezaDelOrden
  <1>5. Contenido' = Tail(Contenido)
    BY <1>2, <1>3, ExtraerQuita
  <1> QED  BY <1>1, <1>4, <1>5 DEF Cola!Sacar

(* The other steps leave the queue alone. *)
LEMMA OtrosPasosNoTocanLaCola ==
  ASSUME Invariante,
         \/ \E p \in Productores, e \in Equipajes : LlamarPoner(p, e)
         \/ \E p \in Productores : EsperarProductor(p) \/ NoPudoColocar(p)
         \/ LlamarSacar
         \/ EsperarConsumidor
         \/ NoPudoExtraer
         \/ UNCHANGED vars
  PROVE  UNCHANGED <<Contenido, elemento>>
  <1>1. UNCHANGED <<posiciones, cantidad_elementos, elemento>>
    BY DEF LlamarPoner, EsperarProductor, NoPudoColocar, LlamarSacar,
       EsperarConsumidor, NoPudoExtraer, vars, consumidor
  <1> QED  BY <1>1 DEF Contenido, posiciones

(* The check-in belt implements ColaAcotada: bags come out of              *)
(* sacar_equipaje in the order they went in through poner_equipaje, none   *)
(* is lost or repeated, and the belt never holds more than Tamanio.        *)
THEOREM Refinamiento == Spec => ImplementaCola
  <1>1. Init => Cola!Init
    BY SuposicionCinta DEF Init, Cola!Init, Contenido
  <1>2. Invariante /\ [Next]_vars => [Cola!Next]_(Cola!vars)
    <2> SUFFICES ASSUME Invariante, [Next]_vars
                 PROVE  Cola!Next \/ UNCHANGED <<Contenido, elemento>>
      BY DEF Cola!vars
    <2>1. ASSUME NEW p \in Productores, Colocar(p)
          PROVE  Cola!Next
      <3>1. a_colocar[p] \in Equipajes
        BY <2>1 DEF Invariante, ArgumentoPresente, Colocar
      <3> QED  BY <2>1, <3>1, ColocarEsPoner DEF Cola!Next
    <2>2. CASE Extraer
      BY <2>2, ExtraerEsSacar DEF Cola!Next
    <2> QED
      BY <2>1, <2>2, OtrosPasosNoTocanLaCola
         DEF Next, PasoProductor, PasoConsumidor
  <1> QED
    BY <1>1, <1>2, InvarianteSiempre, PTL DEF Spec, Cola!Spec, ImplementaCola

-----------------------------------------------------------------------------
(***************************************************************************)
(* Transfers                                                               *)
(***************************************************************************)

(* The flights that have got a zone *)
VuelosLanzados == {v \in Vuelos : ~ En(Vuelo(v), "sin_lanzar")}

(* The bags that may be on their way: their flight has a zone, and the one *)
(* they came with has come in.                                             *)
PorViajar ==
  {e \in EquipajesIntercargo : /\ DestinoDe[e] \in VuelosLanzados
                               /\ EntranteDe[e] \in Llegados}

Zona(v)         == [mtype |-> v, dato |-> AeropuertoDe[v]]
Entrante(d, f)  == [mtype |-> d, dato |-> f]
Traslado(e)     == [mtype |-> AeropuertoDe[DestinoDe[e]], dato |-> e]

Mensajes == {Zona(v) : v \in Vuelos} \cup {Entrante(d, f) : d \in Destinos, f \in Nat}
              \cup {Traslado(e) : e \in EquipajesIntercargo}

Pedidos == {Nada} \cup {Crear(cola) : cola \in Colas}
             \cup {Poner(cola, m) : cola \in Colas, m \in Mensajes}
             \cup {Sacar(cola, n) : cola \in Colas, n \in Nat}

(* The messages that there may be for each queue. *)
MensajesDe(cola) ==
  CASE cola = ColaZonas -> {Zona(v) : v \in VuelosLanzados}
    [] cola = ColaEntrantes -> {Entrante(d, f) : d \in Destinos, f \in Llegados}
    [] OTHER -> {Traslado(e) : e \in PorViajar}

-----------------------------------------------------------------------------
(* The request that the child of a process may be serving, by the place    *)
(* where the process is.                                                   *)

PedidoLanzador(r) ==
  \/ En(Lanzador, "intercargo") /\ r = Crear(ColaZonas)
  \/ En(Lanzador, "listo") /\ r = Crear(ColaIntercargo)

PedidoGenerador(r) ==
  \/ r = Crear(ColaEntrantes)
  \/ \E m \in MensajesDe(ColaEntrantes) : r = Poner(ColaEntrantes, m)

PedidoControlador(d, r) ==
  \/ En(Controlador(d), "espera_zona") /\ r = Sacar(ColaZonas, d)
  \/ En(Controlador(d), "espera") /\ r = Sacar(ColaEntrantes, d)
  \/ /\ En(Controlador(d), "enviar")
     /\ \E e \in PorViajar : DestinoDe[e] = d /\ r = Poner(ColaIntercargo, Traslado(e))

PedidoVuelo(v, r) == v \in VuelosLanzados /\ r = Poner(ColaZonas, Zona(v))

PedidoLegal(c, r) ==
  \/ c = Lanzador /\ PedidoLanzador(r)
  \/ c = Generador /\ PedidoGenerador(r)
  \/ \E d \in Destinos : c = Controlador(d) /\ PedidoControlador(d, r)
  \/ \E v \in Vuelos : c = Vuelo(v) /\ PedidoVuelo(v, r)
  \/ \E a \in Aeropuertos : c = Robot(a) /\ r = Sacar(ColaIntercargo, a)

(* The answer that it may have. *)
RespuestaLegal(c, r) ==
  \/ r \in {Nada, Bien, BROKER_ERROR}
  \/ \E d \in Destinos :
       /\ c = Controlador(d)
       /\ \/ En(c, "espera_zona") /\ d \in VuelosLanzados /\ r = ConMsg(Zona(d))
          \/ En(c, "espera") /\ \E f \in Llegados : r = ConMsg(Entrante(d, f))
  \/ \E a \in Aeropuertos :
       /\ c = Robot(a)
       /\ En(c, "espera")
       /\ \E e \in PorViajar : /\ AeropuertoDe[DestinoDe[e]] = a
                               /\ r = ConMsg(Traslado(e))

-----------------------------------------------------------------------------
(* The connections: the child of a connection, and its client. *)

PcHijo == {"sin_conexion", "recibir", "servir", "crear", "fin"}

Viva(h) == conectado[h[1]] /\ h[2] = vida[h[1]]

EsRobot(c) == \E a \in Aeropuertos : c = Robot(a)

TiposBroker ==
  /\ vida \in [Clientes -> Nat]
  /\ conectado \in [Clientes -> BOOLEAN]
  /\ respuesta = [c \in Clientes |-> respuesta[c]]
  /\ hijo \in [Hijos -> [pc : PcHijo, pedido : Pedidos, lugar : Nat]]

DeCliente(c) ==
  /\ vida[c] <= VidasDe[c]
  /\ conectado[c] => vida[c] > 0
  /\ ~ conectado[c] => respuesta[c] = Nada

DeHijo(h) ==
  /\ h[2] > vida[h[1]] => hijo[h] = SinHijo
  /\ Viva(h) => hijo[h].pc \in {"recibir", "servir", "crear"}
  /\ h[2] <= vida[h[1]] /\ ~ Viva(h) =>
       \/ hijo[h].pc = "fin"
       \/ EsRobot(h[1]) /\ hijo[h].pc = "servir"
  /\ Viva(h) /\ hijo[h].pc # "recibir" => respuesta[h[1]] = Nada

Conexiones ==
  /\ TiposBroker
  /\ \A c \in Clientes : DeCliente(c)
  /\ \A h \in Hijos : DeHijo(h)

HijoLegal(h) ==
  /\ hijo[h].pc \in {"servir", "crear"} => PedidoLegal(h[1], hijo[h].pedido)
  /\ hijo[h].pc = "crear" => hijo[h].pedido.que = "crear"

Legales ==
  /\ \A h \in Hijos : HijoLegal(h)
  /\ \A c \in Clientes : RespuestaLegal(c, respuesta[c])

-----------------------------------------------------------------------------

LugaresDe(cola) == {l \in Lugares : proj_id_to_queue_id[l] = cola}

Tabla ==
  /\ proj_id_to_queue_id \in [Lugares -> Colas \cup {Libre}]
  /\ DOMAIN ipc \subseteq Lugares
  /\ ipc = [l \in DOMAIN ipc |-> ipc[l]]
  /\ \A l \in DOMAIN ipc : /\ proj_id_to_queue_id[l] \in Colas
                           /\ ipc[l] \in Seq(MensajesDe(proj_id_to_queue_id[l]))
  /\ \A h \in Hijos : hijo[h].pc = "crear" =>
       /\ hijo[h].lugar \in Lugares
       /\ hijo[h].pedido.cola \in Colas
       /\ proj_id_to_queue_id[hijo[h].lugar] = hijo[h].pedido.cola

(* The launcher of the broker connects once.  *)
Lanzamiento ==
  LET h == HijoDe(Lanzador)
  IN /\ pc[Lanzador] \in {"sin_lanzar", "intercargo"} => LugaresDe(ColaIntercargo) = {}
     /\ pc[Lanzador] \in {"intercargo", "listo"} => conectado[Lanzador]
     /\ En(Lanzador, "listo") =>
          /\ hijo[h].pc = "servir" => LugaresDe(ColaIntercargo) = {}
          /\ hijo[h].pc = "crear"  => LugaresDe(ColaIntercargo) = {hijo[h].lugar}
          /\ hijo[h].pc = "recibir" =>
               \/ respuesta[Lanzador] = BROKER_ERROR
               \/ /\ respuesta[Lanzador] = Bien
                  /\ \E l \in DOMAIN ipc : LugaresDe(ColaIntercargo) = {l}

SinConexion(c) == En(c, "sin_lanzar") => vida[c] = 0 /\ ~ conectado[c]

EtapaControlador(d) ==
  /\ ~ En(Controlador(d), "sin_lanzar") => Lanzado
  /\ pc[Controlador(d)] \in {"sin_lanzar", "espera_zona", "espera"} => enviando[d] = {}
  /\ pc[Controlador(d)] \in {"enviar", "espera"} =>
       d \in VuelosLanzados /\ id_aeropuerto[d] = AeropuertoDe[d]

EtapaRobot(a) ==
  /\ conectado[Robot(a)] <=> pc[Robot(a)] \in {"libre", "espera"}
  /\ En(Robot(a), "libre") => hijo[HijoDe(Robot(a))].pc = "recibir"

Estados ==
  {"sin_lanzar", "intercargo", "listo", "avisar", "fin", "espera_zona", "enviar",
   "espera", "libre", "muerto"}

Etapas ==
  /\ pc \in [Procesos -> Estados]
  /\ \A c \in Procesos : SinConexion(c)
  /\ ~ En(Generador, "sin_lanzar") => Lanzado
  /\ \A d \in Destinos : EtapaControlador(d)
  /\ \A a \in Aeropuertos : EtapaRobot(a)

Cargas ==
  /\ arribos \in Seq(Nat) /\ Len(arribos) <= Len(Arribos)
  /\ \A i \in 1..Len(arribos) : arribos[i] = Arribos[Len(Arribos) - Len(arribos) + i]
  /\ por_avisar \subseteq Interconexion
  /\ vuelos_interconexion \subseteq Interconexion
  /\ \A par \in por_avisar : par[1] \in Llegados
  /\ equipajes_a_cargar \in [Destinos -> SUBSET EquipajesIntercargo]
  /\ enviando \in [Destinos -> SUBSET EquipajesIntercargo]
  /\ id_aeropuerto \in [Destinos -> Nat]
  /\ cinta \in [Aeropuertos -> Seq(EquipajesIntercargo)]
  /\ \A d \in Destinos :
       /\ equipajes_a_cargar[d] \cup enviando[d] \subseteq EquipajesDe(d)
       /\ equipajes_a_cargar[d] \cap enviando[d] = {}
       /\ \A e \in enviando[d] : EntranteDe[e] \in Llegados

(* A child that is putting a bag in the queue between airports *)
EnviaAlgo(h) == Sirve(h, "push") /\ hijo[h].pedido.cola = ColaIntercargo

Entregados == UNION {EntregadosA(a) : a \in Aeropuertos}

EnUnLugar ==
  /\ SinEnviar \cap Enviandose = {}
  /\ (SinEnviar \cup Enviandose) \cap EnCola = {}
  /\ (SinEnviar \cup Enviandose \cup EnCola) \cap Entregados = {}
  /\ (SinEnviar \cup Enviandose \cup EnCola \cup Entregados) \cap EnCinta = {}

UnaVez ==
  \A l, k \in LugaresDe(ColaIntercargo) \cap DOMAIN ipc :
    \A i \in DOMAIN ipc[l], j \in DOMAIN ipc[k] :
      ipc[l][i].dato = ipc[k][j].dato => l = k /\ i = j

Abandonados(a) ==
  {h \in Hijos : h[1] = Robot(a) /\ ~ Viva(h) /\ hijo[h].pc = "servir"}

CuentaPerdidas(a) ==
  Cardinality(PerdidosDe(a)) + Cardinality(Abandonados(a)) <= ConexionesCortadas(a)

Perdidas == \A a \in Aeropuertos : CuentaPerdidas(a)

InvTrasbordo ==
  /\ Conexiones
  /\ Legales
  /\ Tabla
  /\ Lanzamiento
  /\ Etapas
  /\ Cargas
  /\ EnUnLugar
  /\ UnaVez
  /\ EnSuAeropuerto
  /\ Perdidas

-----------------------------------------------------------------------------
(* Sequences *)

(* RemoveAt: what it returns. *)
LEMMA QuitarDeCola ==
  ASSUME NEW S, NEW s \in Seq(S), NEW i \in 1..Len(s)
  PROVE  /\ RemoveAt(s, i) \in Seq(S)
         /\ Len(RemoveAt(s, i)) = Len(s) - 1
         /\ \A j \in 1..Len(s) - 1 : RemoveAt(s, i)[j] = IF j < i THEN s[j] ELSE s[j + 1]
PROOF
  <1> DEFINE a == SubSeq(s, 1, i - 1)
             b == SubSeq(s, i + 1, Len(s))
  <1>1. /\ a \in Seq(S) /\ Len(a) = i - 1
        /\ \A j \in 1..i - 1 : a[j] = s[j]
    OBVIOUS
  <1>2. /\ b \in Seq(S) /\ Len(b) = Len(s) - i
        /\ \A j \in 1..Len(s) - i : b[j] = s[i + j]
    OBVIOUS
  <1>3. RemoveAt(s, i) = a \o b
    BY DEF RemoveAt
  <1> HIDE DEF a, b
  <1>4. /\ a \o b \in Seq(S) /\ Len(a \o b) = Len(s) - 1
        /\ \A j \in 1..Len(s) - 1 :
             (a \o b)[j] = IF j <= Len(a) THEN a[j] ELSE b[j - Len(a)]
    <2>1. /\ a \in Seq(S) /\ b \in Seq(S) /\ Len(a) \in Nat /\ Len(b) \in Nat
          /\ Len(a) + Len(b) = Len(s) - 1
      BY <1>1, <1>2
    <2> QED
      BY <2>1, ConcatProperties
  <1>5. ASSUME NEW j \in 1..Len(s) - 1
        PROVE  (a \o b)[j] = IF j < i THEN s[j] ELSE s[j + 1]
    <2>1. CASE j < i
      BY <2>1, <1>1, <1>4
    <2>2. CASE ~ (j < i)
      <3>1. j - (i - 1) \in 1..Len(s) - i
        BY <2>2
      <3>2. b[j - (i - 1)] = s[i + (j - (i - 1))]
        BY <1>2, <3>1
      <3>3. i + (j - (i - 1)) = j + 1
        OBVIOUS
      <3> QED
        BY <2>2, <1>1, <1>4, <3>2, <3>3
    <2> QED
      BY <2>1, <2>2
  <1> QED
    BY <1>3, <1>4, <1>5

(* The smallest of a set of naturals. *)
LEMMA MinEsElMenor ==
  ASSUME NEW S \in SUBSET Nat, S # {}
  PROVE  Min(S) \in S /\ \A k \in S : Min(S) <= k
PROOF
  <1>1. \E n \in S : \A k \in S : n <= k
    BY MinimoDeNaturales
  <1> QED
    BY <1>1 DEF Min

(* A smaller set of messages: a queue of one is a queue of the other. *)
LEMMA ColaDeMas ==
  ASSUME NEW S, NEW T, S \subseteq T, NEW s \in Seq(S)
  PROVE  s \in Seq(T)
PROOF
  BY SeqDef

-----------------------------------------------------------------------------
(* Processes, children and messages *)

(* No two processes have the same name. *)
LEMMA ProcesosDistintos ==
  /\ Lanzador \in Procesos /\ Generador \in Procesos /\ Lanzador # Generador
  /\ \A d \in Destinos : /\ Controlador(d) \in Procesos
                          /\ Controlador(d) # Lanzador /\ Controlador(d) # Generador
                          /\ \A e \in Destinos : Controlador(e) = Controlador(d) => e = d
                          /\ \A v \in Vuelos : Controlador(d) # Vuelo(v)
                          /\ \A a \in Aeropuertos : Controlador(d) # Robot(a)
  /\ \A v \in Vuelos : /\ Vuelo(v) \in Procesos
                        /\ Vuelo(v) # Lanzador /\ Vuelo(v) # Generador
                        /\ \A w \in Vuelos : Vuelo(v) = Vuelo(w) => v = w
                        /\ \A a \in Aeropuertos : Vuelo(v) # Robot(a)
  /\ \A a \in Aeropuertos : /\ Robot(a) \in Procesos
                             /\ Robot(a) # Lanzador /\ Robot(a) # Generador
                             /\ \A b \in Aeropuertos : Robot(b) = Robot(a) => b = a
PROOF
  BY DEF Procesos, Lanzador, Generador, Controlador, Vuelo, Robot

(* The child of a connection is told by its client and by which of its     *)
(* connections it is.                                                      *)
LEMMA SonHijos ==
  /\ Clientes = Procesos
  /\ \A c \in Clientes : VidasDe[c] \in Nat \ {0}
  /\ \A c \in Clientes, n \in Nat :
       n > 0 /\ n <= VidasDe[c] => <<c, n>> \in Hijos
  /\ \A h \in Hijos : /\ h[1] \in Clientes /\ h[2] \in Nat /\ h = <<h[1], h[2]>>
                      /\ h[2] > 0 /\ h[2] <= VidasDe[h[1]]
PROOF
  <1>1. Clientes = Procesos
    BY SuposicionTrasbordo
  <1>2. \A c \in Clientes : VidasDe[c] \in Nat \ {0}
    BY SuposicionBroker
  <1>3. ASSUME NEW c \in Clientes, NEW n \in Nat, n > 0, n <= VidasDe[c]
        PROVE  <<c, n>> \in Hijos
    BY <1>2, <1>3 DEF Hijos
  <1>4. ASSUME NEW h \in Hijos
        PROVE  /\ h[1] \in Clientes /\ h[2] \in Nat /\ h = <<h[1], h[2]>>
               /\ h[2] > 0 /\ h[2] <= VidasDe[h[1]]
    <2>1. PICK c \in Clientes : h \in {c} \X (1..VidasDe[c])
      BY DEF Hijos
    <2> QED
      BY <2>1, <1>2
  <1> QED
    BY <1>1, <1>2, <1>3, <1>4

(* What tells requests and answers apart. *)
LEMMA Registros ==
  /\ Nada.que = "nada" /\ Bien.que = "ok" /\ BROKER_ERROR.que = "error"
  /\ \A m : ConMsg(m).que = "msg" /\ ConMsg(m).msg = m
  /\ \A cola : Crear(cola).que = "crear" /\ Crear(cola).cola = cola
  /\ \A cola, m : /\ Poner(cola, m).que = "push" /\ Poner(cola, m).cola = cola
                  /\ Poner(cola, m).msg = m
  /\ \A cola, n : /\ Sacar(cola, n).que = "pull" /\ Sacar(cola, n).cola = cola
                  /\ Sacar(cola, n).mtype = n
PROOF
  BY DEF Nada, Bien, BROKER_ERROR, ConMsg, Crear, Poner, Sacar

(* The three queues are different, and each has messages of its own. *)
LEMMA NombresDeColas ==
  /\ Colas = {ColaZonas, ColaIntercargo, ColaEntrantes}
  /\ ColaZonas # ColaIntercargo /\ ColaZonas # ColaEntrantes
  /\ ColaEntrantes # ColaIntercargo
  /\ Libre \notin Colas
  /\ MensajesDe(ColaZonas) = {Zona(v) : v \in VuelosLanzados}
  /\ MensajesDe(ColaEntrantes) = {Entrante(d, f) : d \in Destinos, f \in Llegados}
  /\ MensajesDe(ColaIntercargo) = {Traslado(e) : e \in PorViajar}
PROOF
  BY SuposicionTrasbordo DEF ColaZonas, ColaIntercargo, ColaEntrantes, Libre, MensajesDe

-----------------------------------------------------------------------------
(* What the calls and the answers do to the connections *)

(* A child has a client, and is its last one if it is alive. *)
LEMMA HijoVivo ==
  ASSUME Conexiones, NEW c \in Clientes
  PROVE  /\ conectado[c] => HijoDe(c) \in Hijos /\ Viva(HijoDe(c))
         /\ \A h \in Hijos : Viva(h) <=> conectado[h[1]] /\ HijoDe(h[1]) = h
PROOF
  <1>1. vida[c] \in Nat /\ (conectado[c] => vida[c] > 0 /\ vida[c] <= VidasDe[c])
    BY DEF Conexiones, TiposBroker, DeCliente
  <1>2. conectado[c] => <<c, vida[c]>> \in Hijos
    BY <1>1, SonHijos
  <1>3. conectado[c] => HijoDe(c) \in Hijos /\ Viva(HijoDe(c))
    BY <1>2 DEF HijoDe, Viva
  <1>4. ASSUME NEW h \in Hijos PROVE Viva(h) <=> conectado[h[1]] /\ HijoDe(h[1]) = h
    <2>1. h = <<h[1], h[2]>>
      BY SonHijos
    <2> QED
      BY <2>1 DEF Viva, HijoDe
  <1> QED
    BY <1>3, <1>4

(* A process connects: it has a child of its own, which serves its first   *)
(* call.                                                                   *)
LEMMA AlConectar ==
  ASSUME Conexiones, NEW c \in Clientes, NEW r \in Pedidos, Conectar(c, r)
  PROVE  /\ Conexiones'
         /\ ~ conectado[c] /\ conectado'[c] /\ vida'[c] = vida[c] + 1
         /\ \A x \in Clientes \ {c} : conectado'[x] = conectado[x] /\ vida'[x] = vida[x]
         /\ respuesta' = respuesta /\ respuesta[c] = Nada
         /\ \E h \in Hijos :
              /\ h = <<c, vida[c] + 1>>
              /\ hijo[h] = SinHijo /\ hijo'[h].pc = "servir" /\ hijo'[h].pedido = r
              /\ ~ Viva(h) /\ Viva(h)'
              /\ \A x \in Hijos \ {h} : hijo'[x] = hijo[x] /\ (Viva(x)' <=> Viva(x))
PROOF
  <1>1. PICK h : h = <<c, vida[c] + 1>>
    OBVIOUS
  <1>2. /\ vida[c] \in Nat /\ vida[c] < VidasDe[c] /\ ~ conectado[c] /\ respuesta[c] = Nada
        /\ VidasDe[c] \in Nat
    BY SonHijos DEF Conexiones, TiposBroker, DeCliente, Conectar
  <1>3. h \in Hijos
    BY <1>1, <1>2, SonHijos
  <1>4. hijo[h] = SinHijo /\ h[1] = c /\ h[2] = vida[c] + 1
    BY <1>1, <1>2, <1>3 DEF Conexiones, DeHijo
  <1>5. /\ vida' = [vida EXCEPT ![c] = @ + 1]
        /\ conectado' = [conectado EXCEPT ![c] = TRUE]
        /\ respuesta' = respuesta
        /\ hijo' = [hijo EXCEPT ![h].pc = "servir", ![h].pedido = r]
    BY <1>1 DEF Conectar
  <1>6. TiposBroker
    BY DEF Conexiones
  <1>7. TiposBroker'
    <2>1. respuesta' = [x \in Clientes |-> respuesta'[x]]
      BY <1>5, <1>6 DEF TiposBroker
    <2>2. hijo' \in [Hijos -> [pc : PcHijo, pedido : Pedidos, lugar : Nat]]
      BY <1>3, <1>5, <1>6 DEF TiposBroker, PcHijo
    <2> QED
      BY <2>1, <2>2, <1>2, <1>5, <1>6 DEF TiposBroker
  <1>8. /\ conectado'[c] /\ vida'[c] = vida[c] + 1
        /\ \A x \in Clientes \ {c} : conectado'[x] = conectado[x] /\ vida'[x] = vida[x]
    BY <1>5, <1>6 DEF TiposBroker
  <1>9. /\ hijo'[h].pc = "servir" /\ hijo'[h].pedido = r
        /\ \A x \in Hijos \ {h} : hijo'[x] = hijo[x]
    BY <1>3, <1>5, <1>6 DEF TiposBroker
  <1>10. ~ Viva(h) /\ Viva(h)'
    BY <1>2, <1>4, <1>8 DEF Viva
  <1>11. ASSUME NEW x \in Hijos, x # h
         PROVE  Viva(x)' <=> Viva(x)
    <2>1. x[1] = c => x[2] # vida[c] + 1
      BY <1>1, <1>11, SonHijos
    <2>2. x[1] \in Clientes
      BY SonHijos
    <2>3. CASE x[1] = c
      BY <2>1, <2>3, <1>2, <1>8 DEF Viva
    <2>4. CASE x[1] # c
      BY <2>2, <2>4, <1>8 DEF Viva
    <2> QED
      BY <2>3, <2>4
  <1>12. ASSUME NEW x \in Clientes PROVE DeCliente(x)'
    <2>1. DeCliente(x) /\ vida[x] \in Nat
      BY DEF Conexiones, TiposBroker
    <2>2. CASE x = c
      BY <2>2, <1>2, <1>8 DEF DeCliente
    <2>3. CASE x # c
      BY <2>1, <2>3, <1>5, <1>8 DEF DeCliente
    <2> QED
      BY <2>2, <2>3
  <1>13. ASSUME NEW x \in Hijos PROVE DeHijo(x)'
    <2>1. DeHijo(x) /\ x[1] \in Clientes /\ x[2] \in Nat /\ x = <<x[1], x[2]>>
      BY SonHijos DEF Conexiones
    <2>2. CASE x = h
      BY <2>2, <1>2, <1>4, <1>5, <1>8, <1>9, <1>10 DEF DeHijo
    <2>3. CASE x # h /\ x[1] # c
      BY <2>1, <2>3, <1>5, <1>8, <1>9, <1>11 DEF DeHijo
    <2>4. CASE x # h /\ x[1] = c
      <3>1. x[2] # vida[c] + 1
        BY <1>1, <2>1, <2>4
      <3>2. ~ Viva(x) /\ ~ Viva(x)' /\ hijo'[x] = hijo[x]
        BY <2>4, <1>2, <1>9, <1>11 DEF Viva
      <3>3. /\ x[2] > vida'[c] => x[2] > vida[c]
            /\ x[2] <= vida'[c] => x[2] <= vida[c]
        BY <3>1, <2>1, <1>2, <1>8
      <3> QED
        BY <3>2, <3>3, <2>1, <2>4 DEF DeHijo
    <2> QED
      BY <2>2, <2>3, <2>4
  <1>14. Conexiones'
    BY <1>7, <1>12, <1>13 DEF Conexiones
  <1> QED
    BY <1>1, <1>2, <1>3, <1>4, <1>5, <1>8, <1>9, <1>10, <1>11, <1>14

(* A process that waits for nothing makes another call. *)
LEMMA AlPedir ==
  ASSUME Conexiones, NEW c \in Clientes, NEW r \in Pedidos, Pedir(c, r)
  PROVE  /\ Conexiones'
         /\ conectado[c] /\ UNCHANGED <<vida, conectado>>
         /\ respuesta[c] \in {Nada, Bien} /\ respuesta'[c] = Nada
         /\ \A x \in Clientes \ {c} : respuesta'[x] = respuesta[x]
         /\ HijoDe(c) \in Hijos /\ Viva(HijoDe(c))
         /\ hijo[HijoDe(c)].pc = "recibir"
         /\ hijo'[HijoDe(c)].pc = "servir" /\ hijo'[HijoDe(c)].pedido = r
         /\ \A x \in Hijos \ {HijoDe(c)} : hijo'[x] = hijo[x]
         /\ \A x \in Hijos : Viva(x)' <=> Viva(x)
PROOF
  <1> DEFINE h == HijoDe(c)
  <1>1. /\ conectado[c] /\ respuesta[c] \in {Nada, Bien} /\ hijo[h].pc = "recibir"
        /\ UNCHANGED <<vida, conectado>>
        /\ respuesta' = [respuesta EXCEPT ![c] = Nada]
        /\ hijo' = [hijo EXCEPT ![h].pc = "servir", ![h].pedido = r]
    BY DEF Pedir, Ocioso, conexion
  <1>2. h \in Hijos /\ Viva(h) /\ h[1] = c
    BY <1>1, HijoVivo DEF HijoDe
  <1>3. TiposBroker
    BY DEF Conexiones
  <1> HIDE DEF h
  <1>4. TiposBroker'
    <2>1. hijo' \in [Hijos -> [pc : PcHijo, pedido : Pedidos, lugar : Nat]]
      <3>1. PICK x \in [pc : PcHijo, pedido : Pedidos, lugar : Nat] : x = hijo[h]
        BY <1>2, <1>3 DEF TiposBroker
      <3>2. PICK y : y = [x EXCEPT !.pc = "servir", !.pedido = r]
        OBVIOUS
      <3>3. y \in [pc : PcHijo, pedido : Pedidos, lugar : Nat]
        BY <3>2 DEF PcHijo
      <3>4. hijo' = [hijo EXCEPT ![h] = y]
        BY <1>1, <1>2, <1>3, <3>1, <3>2 DEF TiposBroker
      <3> QED
        BY <1>3, <3>3, <3>4 DEF TiposBroker
    <2>2. respuesta' = [x \in Clientes |-> respuesta'[x]]
      BY <1>1, <1>2, <1>3 DEF TiposBroker
    <2>3. vida' \in [Clientes -> Nat] /\ conectado' \in [Clientes -> BOOLEAN]
      BY <1>1, <1>2, <1>3 DEF TiposBroker
    <2> QED
      BY <2>1, <2>2, <2>3 DEF TiposBroker
  <1>5. /\ hijo'[h].pc = "servir" /\ hijo'[h].pedido = r
        /\ \A x \in Hijos \ {h} : hijo'[x] = hijo[x]
    BY <1>1, <1>2, <1>3 DEF TiposBroker
  <1>6. /\ respuesta'[c] = Nada
        /\ \A x \in Clientes \ {c} : respuesta'[x] = respuesta[x]
    BY <1>1, <1>3 DEF TiposBroker
  <1>7. ASSUME NEW x \in Hijos PROVE Viva(x)' <=> Viva(x)
    BY <1>1 DEF Viva
  <1>8. ASSUME NEW x \in Clientes PROVE DeCliente(x)'
    <2>1. DeCliente(x)
      BY DEF Conexiones
    <2> QED
      BY <2>1, <1>1, <1>6 DEF DeCliente
  <1>9. ASSUME NEW x \in Hijos PROVE DeHijo(x)'
    <2>1. DeHijo(x)
      BY DEF Conexiones
    <2>2. DeHijo(x) /\ x[1] \in Clientes /\ (x # h /\ x[1] = c => ~ Viva(x))
      BY <2>1, HijoVivo, SonHijos DEF h
    <2>3. CASE x = h
      <3>1. x[2] = vida[x[1]] /\ vida[x[1]] \in Nat
        BY <2>2, <2>3, <1>2, <1>3 DEF TiposBroker, Viva
      <3> QED
        BY <3>1, <2>2, <2>3, <1>1, <1>2, <1>5, <1>6, <1>7 DEF DeHijo
    <2>4. CASE x # h
      BY <2>2, <2>4, <1>1, <1>5, <1>6, <1>7 DEF DeHijo
    <2> QED
      BY <2>3, <2>4
  <1>10. Conexiones'
    BY <1>4, <1>8, <1>9 DEF Conexiones
  <1> QED
    BY <1>1, <1>2, <1>5, <1>6, <1>7, <1>10 DEF h

(* It uses the message that it was waiting for. *)
LEMMA AlRecibir ==
  ASSUME Conexiones, NEW c \in Clientes, Recibir(c)
  PROVE  /\ Conexiones'
         /\ conectado[c] /\ UNCHANGED <<vida, conectado, hijo>>
         /\ respuesta[c] \notin {Nada, Bien, BROKER_ERROR} /\ respuesta'[c] = Nada
         /\ \A x \in Clientes \ {c} : respuesta'[x] = respuesta[x]
         /\ HijoDe(c) \in Hijos /\ Viva(HijoDe(c)) /\ hijo[HijoDe(c)].pc = "recibir"
         /\ \A x \in Hijos : Viva(x)' <=> Viva(x)
PROOF
  <1>1. /\ respuesta[c] \notin {Nada, Bien, BROKER_ERROR}
        /\ UNCHANGED <<vida, conectado, hijo>>
        /\ respuesta' = [respuesta EXCEPT ![c] = Nada]
    BY DEF Recibir, broker, conexion
  <1>2. TiposBroker /\ TiposBroker'
    BY <1>1 DEF Conexiones, TiposBroker
  <1>3. /\ respuesta'[c] = Nada
        /\ \A x \in Clientes \ {c} : respuesta'[x] = respuesta[x]
    BY <1>1, <1>2 DEF TiposBroker
  <1>4. conectado[c]
    BY <1>1 DEF Conexiones, DeCliente
  <1>5. HijoDe(c) \in Hijos /\ Viva(HijoDe(c)) /\ HijoDe(c)[1] = c
    BY <1>4, HijoVivo DEF HijoDe
  <1>6. hijo[HijoDe(c)].pc = "recibir"
    BY <1>1, <1>5 DEF Conexiones, DeHijo
  <1>7. ASSUME NEW x \in Hijos PROVE Viva(x)' <=> Viva(x)
    BY <1>1 DEF Viva
  <1>8. ASSUME NEW x \in Clientes PROVE DeCliente(x)'
    <2>1. DeCliente(x)
      BY DEF Conexiones
    <2> QED
      BY <2>1, <1>1, <1>3 DEF DeCliente
  <1>9. ASSUME NEW x \in Hijos PROVE DeHijo(x)'
    <2>1. DeHijo(x) /\ x[1] \in Clientes
      BY SonHijos DEF Conexiones
    <2>2. x[1] = c => respuesta'[x[1]] = Nada
      BY <1>3
    <2>3. x[1] # c => respuesta'[x[1]] = respuesta[x[1]]
      BY <1>3, <2>1
    <2> QED
      BY <2>1, <2>2, <2>3, <1>1, <1>7 DEF DeHijo
  <1> QED
    BY <1>1, <1>2, <1>3, <1>4, <1>5, <1>6, <1>7, <1>8, <1>9 DEF Conexiones

(* It goes: its child ends, or goes on with what it is doing. *)
LEMMA AlDesconectar ==
  ASSUME Conexiones, NEW c \in Clientes, Desconectar(c),
         hijo[HijoDe(c)].pc = "recibir" \/ (EsRobot(c) /\ hijo[HijoDe(c)].pc = "servir")
  PROVE  /\ Conexiones'
         /\ conectado[c] /\ ~ conectado'[c] /\ UNCHANGED vida
         /\ \A x \in Clientes \ {c} : conectado'[x] = conectado[x]
         /\ respuesta'[c] = Nada
         /\ \A x \in Clientes \ {c} : respuesta'[x] = respuesta[x]
         /\ HijoDe(c) \in Hijos /\ Viva(HijoDe(c)) /\ ~ Viva(HijoDe(c))'
         /\ hijo'[HijoDe(c)].pc = IF hijo[HijoDe(c)].pc = "recibir" THEN "fin" ELSE "servir"
         /\ \A x \in Hijos : hijo'[x].pedido = hijo[x].pedido
         /\ \A x \in Hijos \ {HijoDe(c)} : hijo'[x] = hijo[x] /\ (Viva(x)' <=> Viva(x))
PROOF
  <1>1. PICK h : h = HijoDe(c)
    OBVIOUS
  <1> DEFINE n == IF hijo[h].pc = "recibir" THEN "fin" ELSE hijo[h].pc
  <1>2. /\ conectado[c] /\ UNCHANGED vida
        /\ conectado' = [conectado EXCEPT ![c] = FALSE]
        /\ respuesta' = [respuesta EXCEPT ![c] = Nada]
        /\ hijo' = [hijo EXCEPT ![h].pc = IF @ = "recibir" THEN "fin" ELSE @]
        /\ hijo[h].pc = "recibir" \/ (EsRobot(c) /\ hijo[h].pc = "servir")
    BY <1>1 DEF Desconectar
  <1>3. TiposBroker
    BY DEF Conexiones
  <1>4. h \in Hijos /\ Viva(h) /\ h[1] = c /\ h[2] = vida[c] /\ vida[c] \in Nat
    BY <1>1, <1>2, <1>3, HijoVivo DEF HijoDe, TiposBroker
  <1>5. TiposBroker'
    <2>1. hijo' \in [Hijos -> [pc : PcHijo, pedido : Pedidos, lugar : Nat]]
      BY <1>2, <1>4, <1>3 DEF TiposBroker, PcHijo
    <2>2. respuesta' = [x \in Clientes |-> respuesta'[x]]
      BY <1>2, <1>4, <1>3 DEF TiposBroker
    <2>3. vida' \in [Clientes -> Nat] /\ conectado' \in [Clientes -> BOOLEAN]
      BY <1>2, <1>4, <1>3 DEF TiposBroker
    <2> QED
      BY <2>1, <2>2, <2>3 DEF TiposBroker
  <1>6. /\ hijo'[h].pc = n
        /\ \A x \in Hijos \ {h} : hijo'[x] = hijo[x]
        /\ \A x \in Hijos : hijo'[x].pedido = hijo[x].pedido
    BY <1>2, <1>4, <1>3 DEF TiposBroker
  <1>7. /\ respuesta'[c] = Nada /\ ~ conectado'[c]
        /\ \A x \in Clientes \ {c} : respuesta'[x] = respuesta[x]
        /\ \A x \in Clientes \ {c} : conectado'[x] = conectado[x]
    BY <1>2, <1>3 DEF TiposBroker
  <1>8. ASSUME NEW x \in Hijos, x # h PROVE Viva(x)' <=> Viva(x)
    <2>1. x[1] \in Clientes /\ (x[1] = c => ~ Viva(x))
      BY <1>1, <1>8, HijoVivo, SonHijos
    <2> QED
      BY <2>1, <1>2, <1>7 DEF Viva
  <1>9. ~ Viva(h)'
    BY <1>4, <1>7 DEF Viva
  <1>10. ASSUME NEW x \in Clientes PROVE DeCliente(x)'
    <2>1. DeCliente(x)
      BY DEF Conexiones
    <2> QED
      BY <2>1, <1>2, <1>7 DEF DeCliente
  <1>11. ASSUME NEW x \in Hijos PROVE DeHijo(x)'
    <2>1. DeHijo(x)
      BY DEF Conexiones
    <2>2. DeHijo(x) /\ x[1] \in Clientes /\ (x # h /\ x[1] = c => ~ Viva(x))
      BY <1>1, <2>1, HijoVivo, SonHijos
    <2>3. CASE x = h
      BY <2>3, <1>2, <1>4, <1>6, <1>9 DEF DeHijo
    <2>4. CASE x # h
      BY <2>2, <2>4, <1>2, <1>6, <1>7, <1>8 DEF DeHijo
    <2> QED
      BY <2>3, <2>4
  <1>12. Conexiones'
    BY <1>5, <1>10, <1>11 DEF Conexiones
  <1> QED
    <2>1. Viva(HijoDe(c))' <=> Viva(h)'
      BY <1>1, <1>2 DEF HijoDe
    <2> QED
      BY <2>1, <1>1, <1>2, <1>4, <1>6, <1>7, <1>8, <1>9, <1>12

(* A child answers: its client has the answer if it is there, and nobody   *)
(* has it otherwise.                                                       *)
LEMMA AlResponder ==
  ASSUME Conexiones, NEW h \in Hijos, NEW r, Responder(h, r),
         hijo[h].pc \in {"servir", "crear"}
  PROVE  /\ Conexiones'
         /\ UNCHANGED <<vida, conectado>>
         /\ Viva(h) => respuesta[h[1]] = Nada /\ respuesta'[h[1]] = r
         /\ ~ Viva(h) => UNCHANGED respuesta
         /\ \A x \in Clientes \ {h[1]} : respuesta'[x] = respuesta[x]
         /\ hijo'[h].pc = IF Viva(h) THEN "recibir" ELSE "fin"
         /\ \A x \in Hijos \ {h} : hijo'[x] = hijo[x]
         /\ \A x \in Hijos : Viva(x)' <=> Viva(x)
PROOF
  <1> DEFINE c == h[1]
             n == IF Viva(h) THEN "recibir" ELSE "fin"
  <1>1. c \in Clientes /\ (Viva(h) <=> conectado[c] /\ HijoDe(c) = h)
    BY SonHijos, HijoVivo
  <1>2. /\ UNCHANGED <<vida, conectado>>
        /\ respuesta' = IF Viva(h) THEN [respuesta EXCEPT ![c] = r] ELSE respuesta
        /\ hijo' = [hijo EXCEPT ![h] = [SinHijo EXCEPT !.pc = n]]
    BY <1>1 DEF Responder, conexion
  <1>3. TiposBroker
    BY DEF Conexiones
  <1>4. [SinHijo EXCEPT !.pc = n] \in [pc : PcHijo, pedido : Pedidos, lugar : Nat]
    BY SuposicionBroker DEF SinHijo, PcHijo, Pedidos
  <1>5. [SinHijo EXCEPT !.pc = n].pc = n
    BY DEF SinHijo
  <1> HIDE DEF n, c
  <1>6. TiposBroker'
    BY <1>2, <1>3, <1>4 DEF TiposBroker
  <1>7. /\ hijo'[h].pc = n
        /\ \A x \in Hijos \ {h} : hijo'[x] = hijo[x]
    BY <1>2, <1>3, <1>5 DEF TiposBroker
  <1>8. /\ Viva(h) => respuesta'[c] = r
        /\ ~ Viva(h) => UNCHANGED respuesta
        /\ \A x \in Clientes \ {c} : respuesta'[x] = respuesta[x]
    BY <1>1, <1>2, <1>3 DEF TiposBroker
  <1>9. ASSUME NEW x \in Hijos PROVE Viva(x)' <=> Viva(x)
    BY <1>2 DEF Viva
  <1>10. /\ DeHijo(h)
         /\ Viva(h) => respuesta[c] = Nada
         /\ h[2] <= vida[c]
    <2>1. DeHijo(h) /\ h[2] \in Nat /\ vida[c] \in Nat
      BY <1>1, <1>3, SonHijos DEF Conexiones, TiposBroker
    <2>2. SinHijo.pc = "sin_conexion"
      BY DEF SinHijo
    <2> QED
      BY <2>1, <2>2 DEF DeHijo, c
  <1>11. ASSUME NEW x \in Clientes PROVE DeCliente(x)'
    <2>1. DeCliente(x)
      BY DEF Conexiones
    <2>2. CASE x = c /\ Viva(h)
      BY <2>1, <2>2, <1>1, <1>2 DEF DeCliente
    <2>3. CASE ~ (x = c /\ Viva(h))
      BY <2>1, <2>3, <1>2, <1>8 DEF DeCliente
    <2> QED
      BY <2>2, <2>3
  <1>12. ASSUME NEW x \in Hijos PROVE DeHijo(x)'
    <2>1. DeHijo(x) /\ x[1] \in Clientes /\ x[2] \in Nat /\ vida[x[1]] \in Nat
      BY <1>3, SonHijos DEF Conexiones, TiposBroker
    <2>2. CASE x = h
      BY <2>1, <2>2, <1>2, <1>7, <1>9, <1>10 DEF DeHijo, n, c
    <2>3. CASE x # h
      <3>1. x[1] = c /\ Viva(x) => ~ Viva(h)
        BY <2>1, <2>3, <1>1, HijoVivo
      <3>2. Viva(x) => respuesta'[x[1]] = respuesta[x[1]]
        BY <2>1, <3>1, <1>8
      <3> QED
        BY <2>1, <2>3, <3>2, <1>2, <1>7, <1>9 DEF DeHijo
    <2> QED
      BY <2>2, <2>3
  <1>13. Conexiones'
    BY <1>6, <1>11, <1>12 DEF Conexiones
  <1> QED
    BY <1>2, <1>7, <1>8, <1>9, <1>10, <1>13 DEF n, c

-----------------------------------------------------------------------------
(* What is legal stays so *)

(* Every request that is legal is one of those that there are. *)
LEMMA LegalesSonPedidos ==
  ASSUME NEW c, NEW r, PedidoLegal(c, r), arribos \in Seq(Nat)
  PROVE  r \in Pedidos
PROOF
  <1>1. Llegados \subseteq Nat
    <2>1. Len(Arribos) \in Nat /\ Len(arribos) \in Nat
      BY SuposicionTrasbordo
    <2>2. \A i \in 1..(Len(Arribos) - Len(arribos)) : i \in 1..Len(Arribos)
      BY <2>1
    <2> QED
      BY <2>2, SuposicionTrasbordo DEF Llegados
  <1>2. /\ VuelosLanzados \subseteq Vuelos /\ PorViajar \subseteq EquipajesIntercargo
        /\ Destinos \subseteq Nat /\ Aeropuertos \subseteq Nat
    BY SuposicionTrasbordo DEF VuelosLanzados, PorViajar
  <1>3. CASE c = Lanzador /\ PedidoLanzador(r)
    BY <1>3, NombresDeColas DEF PedidoLanzador, Pedidos
  <1>4. CASE c = Generador /\ PedidoGenerador(r)
    BY <1>1, <1>4, NombresDeColas DEF PedidoGenerador, Pedidos, Mensajes
  <1>5. ASSUME NEW d \in Destinos, PedidoControlador(d, r)
        PROVE  r \in Pedidos
    BY <1>2, <1>5, NombresDeColas DEF PedidoControlador, Pedidos, Mensajes
  <1>6. ASSUME NEW v \in Vuelos, PedidoVuelo(v, r)
        PROVE  r \in Pedidos
    BY <1>6, NombresDeColas DEF PedidoVuelo, Pedidos, Mensajes
  <1>7. ASSUME NEW a \in Aeropuertos, r = Sacar(ColaIntercargo, a)
        PROVE  r \in Pedidos
    BY <1>2, <1>7, NombresDeColas DEF Pedidos
  <1> QED
    BY <1>3, <1>4, <1>5, <1>6, <1>7 DEF PedidoLegal

(* More flights launched or come in: more bags and messages on their way.  *)
LEMMA HayMas ==
  ASSUME VuelosLanzados \subseteq VuelosLanzados', Llegados \subseteq Llegados'
  PROVE  /\ PorViajar \subseteq PorViajar'
         /\ \A cola \in Colas : MensajesDe(cola) \subseteq MensajesDe(cola)'
PROOF
  <1>1. PorViajar \subseteq PorViajar'
    BY DEF PorViajar
  <1>2. MensajesDe(ColaZonas) \subseteq MensajesDe(ColaZonas)'
    BY DEF MensajesDe
  <1>3. MensajesDe(ColaEntrantes) \subseteq MensajesDe(ColaEntrantes)'
    BY NombresDeColas DEF MensajesDe
  <1>4. MensajesDe(ColaIntercargo) \subseteq MensajesDe(ColaIntercargo)'
    BY <1>1, NombresDeColas DEF MensajesDe
  <1> QED
    BY <1>1, <1>2, <1>3, <1>4, NombresDeColas

(* What a process may ask for or receive depends on its own place only. *)
LEMMA SigueLegal ==
  ASSUME VuelosLanzados \subseteq VuelosLanzados', Llegados \subseteq Llegados',
         NEW c, NEW r, pc'[c] = pc[c]
  PROVE  /\ PedidoLegal(c, r) => PedidoLegal(c, r)'
         /\ RespuestaLegal(c, r) => RespuestaLegal(c, r)'
PROOF
  <1>1. PorViajar \subseteq PorViajar'
    BY HayMas
  <1>2. MensajesDe(ColaEntrantes) \subseteq MensajesDe(ColaEntrantes)'
    BY HayMas, NombresDeColas
  <1>3. ASSUME PedidoLegal(c, r) PROVE PedidoLegal(c, r)'
    <2>1. CASE c = Lanzador /\ PedidoLanzador(r)
      BY <2>1 DEF PedidoLegal, PedidoLanzador, En
    <2>2. CASE c = Generador /\ PedidoGenerador(r)
      BY <2>2, <1>2 DEF PedidoLegal, PedidoGenerador
    <2>3. ASSUME NEW d \in Destinos, c = Controlador(d), PedidoControlador(d, r)
          PROVE  PedidoLegal(c, r)'
      <3>1. PedidoControlador(d, r)'
        BY <2>3, <1>1 DEF PedidoControlador, En
      <3> QED
        BY <2>3, <3>1 DEF PedidoLegal
    <2>4. ASSUME NEW v \in Vuelos, c = Vuelo(v), PedidoVuelo(v, r)
          PROVE  PedidoLegal(c, r)'
      <3>1. PedidoVuelo(v, r)'
        BY <2>4 DEF PedidoVuelo
      <3> QED
        BY <2>4, <3>1 DEF PedidoLegal
    <2>5. ASSUME NEW a \in Aeropuertos, c = Robot(a), r = Sacar(ColaIntercargo, a)
          PROVE  PedidoLegal(c, r)'
      BY <2>5 DEF PedidoLegal
    <2> QED
      BY <1>3, <2>1, <2>2, <2>3, <2>4, <2>5 DEF PedidoLegal
  <1>4. ASSUME RespuestaLegal(c, r) PROVE RespuestaLegal(c, r)'
    BY <1>1, <1>4 DEF RespuestaLegal, En
  <1> QED
    BY <1>3, <1>4

(* What a robot asks for does not even depend on that. *)
LEMMA RobotLegal ==
  ASSUME NEW c, NEW r, EsRobot(c)
  PROVE  /\ PedidoLegal(c, r) => \E a \in Aeropuertos : c = Robot(a) /\ r = Sacar(ColaIntercargo, a)
         /\ PedidoLegal(c, r) => PedidoLegal(c, r)'
PROOF
  <1>1. PICK a \in Aeropuertos : c = Robot(a)
    BY DEF EsRobot
  <1>2. /\ c # Lanzador /\ c # Generador
        /\ \A d \in Destinos : c # Controlador(d)
        /\ \A v \in Vuelos : c # Vuelo(v)
    BY <1>1 DEF Robot, Lanzador, Generador, Controlador, Vuelo
  <1>3. PedidoLegal(c, r) => \E b \in Aeropuertos : c = Robot(b) /\ r = Sacar(ColaIntercargo, b)
    BY <1>2 DEF PedidoLegal
  <1> QED
    BY <1>3 DEF PedidoLegal

(* A step of c alone: the children and the answers of the others stay      *)
(* legal, and so does a child that c left behind.                          *)
LEMMA OtrosLegales ==
  ASSUME Conexiones, Legales, pc \in [Procesos -> Estados], NEW c \in Procesos, NEW s \in Estados,
         s # "sin_lanzar", pc' = [pc EXCEPT ![c] = s], Llegados \subseteq Llegados'
  PROVE  /\ VuelosLanzados \subseteq VuelosLanzados'
         /\ \A x \in Hijos : (x[1] # c \/ ~ Viva(x)) /\ hijo'[x] = hijo[x] => HijoLegal(x)'
         /\ \A y \in Clientes \ {c} : respuesta'[y] = respuesta[y]
                                        => RespuestaLegal(y, respuesta[y])'
PROOF
  <1>1. VuelosLanzados \subseteq VuelosLanzados'
    BY ProcesosDistintos DEF VuelosLanzados, En
  <1>2. ASSUME NEW x \in Hijos, x[1] # c \/ ~ Viva(x), hijo'[x] = hijo[x]
        PROVE  HijoLegal(x)'
    <2>1. HijoLegal(x) /\ DeHijo(x) /\ x[1] \in Procesos /\ x[2] \in Nat /\ vida[x[1]] \in Nat
      BY SonHijos DEF Legales, Conexiones, TiposBroker
    <2>2. PICK r : r = hijo[x].pedido
      OBVIOUS
    <2>3. CASE x[1] # c
      <3>1. PedidoLegal(x[1], r) => PedidoLegal(x[1], r)'
        <4>1. pc'[x[1]] = pc[x[1]]
          BY <2>1, <2>3
        <4> QED
          BY <4>1, <1>1, SigueLegal
      <3> QED
        BY <1>2, <2>1, <2>2, <3>1 DEF HijoLegal
    <2>4. CASE x[1] = c
      <3>1. ~ Viva(x)
        BY <1>2, <2>4
      <3>2. hijo[x].pc \in {"servir", "crear"} => EsRobot(x[1])
        <4>1. SinHijo.pc = "sin_conexion"
          BY DEF SinHijo
        <4> QED
          BY <2>1, <3>1, <4>1 DEF DeHijo
      <3>3. EsRobot(x[1]) /\ PedidoLegal(x[1], r) => PedidoLegal(x[1], r)'
        BY RobotLegal
      <3> QED
        BY <1>2, <2>1, <2>2, <3>2, <3>3 DEF HijoLegal
    <2> QED
      BY <2>3, <2>4
  <1>3. ASSUME NEW y \in Clientes \ {c}, respuesta'[y] = respuesta[y]
        PROVE  RespuestaLegal(y, respuesta[y])'
    <2>1. PICK r : r = respuesta[y]
      OBVIOUS
    <2>2. RespuestaLegal(y, r) /\ pc'[y] = pc[y]
      BY <2>1, SonHijos DEF Legales
    <2>3. RespuestaLegal(y, r)'
      BY <1>1, <2>2, SigueLegal
    <2> QED
      BY <1>3, <2>1, <2>3
  <1> QED
    BY <1>1, <1>2, <1>3

(* A process connects to ask for what it may ask for. *)
LEMMA LegalesAlConectar ==
  ASSUME Conexiones, Legales, pc \in [Procesos -> Estados], NEW c \in Procesos, NEW s \in Estados,
         s # "sin_lanzar", pc' = [pc EXCEPT ![c] = s], Llegados \subseteq Llegados',
         NEW r \in Pedidos, Conectar(c, r), PedidoLegal(c, r)'
  PROVE  Legales'
PROOF
  <1>1. c \in Clientes
    BY SonHijos
  <1>2. PICK h \in Hijos :
              /\ h = <<c, vida[c] + 1>>
              /\ hijo[h] = SinHijo /\ hijo'[h].pc = "servir" /\ hijo'[h].pedido = r
              /\ ~ Viva(h) /\ Viva(h)'
              /\ \A x \in Hijos \ {h} : hijo'[x] = hijo[x] /\ (Viva(x)' <=> Viva(x))
    BY <1>1, AlConectar
  <1>3. respuesta' = respuesta /\ respuesta[c] = Nada /\ ~ conectado[c]
    BY <1>1, AlConectar
  <1>4. ASSUME NEW x \in Hijos PROVE HijoLegal(x)'
    <2>1. CASE x = h
      BY <1>2, <2>1 DEF HijoLegal
    <2>2. CASE x # h
      <3>1. x[1] # c \/ ~ Viva(x)
        BY <1>3 DEF Viva
      <3> QED
        BY <1>2, <2>2, <3>1, OtrosLegales
    <2> QED
      BY <2>1, <2>2
  <1>5. ASSUME NEW y \in Clientes PROVE RespuestaLegal(y, respuesta[y])'
    <2>1. CASE y = c
      BY <1>3, <2>1 DEF RespuestaLegal
    <2>2. CASE y # c
      BY <1>3, <2>2, OtrosLegales
    <2> QED
      BY <2>1, <2>2
  <1> QED
    BY <1>4, <1>5 DEF Legales

(* A process that waits for nothing asks for what it may ask for. *)
LEMMA LegalesAlPedir ==
  ASSUME Conexiones, Legales, pc \in [Procesos -> Estados], NEW c \in Procesos, NEW s \in Estados,
         s # "sin_lanzar", pc' = [pc EXCEPT ![c] = s], Llegados \subseteq Llegados',
         NEW r \in Pedidos, Pedir(c, r), PedidoLegal(c, r)'
  PROVE  Legales'
PROOF
  <1>1. c \in Clientes
    BY SonHijos
  <1>2. PICK h \in Hijos : h = HijoDe(c)
    BY <1>1, AlPedir
  <1>3. /\ hijo'[h].pc = "servir" /\ hijo'[h].pedido = r
        /\ \A x \in Hijos \ {h} : hijo'[x] = hijo[x]
        /\ respuesta'[c] = Nada
        /\ \A x \in Clientes \ {c} : respuesta'[x] = respuesta[x]
    BY <1>1, <1>2, AlPedir
  <1>4. ASSUME NEW x \in Hijos PROVE HijoLegal(x)'
    <2>1. CASE x = h
      <3>1. h[1] = c
        BY <1>2 DEF HijoDe
      <3> QED
        BY <1>3, <2>1, <3>1 DEF HijoLegal
    <2>2. CASE x # h
      <3>1. x[1] # c \/ ~ Viva(x)
        BY <1>1, <1>2, <2>2, HijoVivo
      <3> QED
        BY <1>3, <2>2, <3>1, OtrosLegales
    <2> QED
      BY <2>1, <2>2
  <1>5. ASSUME NEW y \in Clientes PROVE RespuestaLegal(y, respuesta[y])'
    <2>1. CASE y = c
      BY <1>3, <2>1 DEF RespuestaLegal
    <2>2. CASE y # c
      BY <1>3, <2>2, OtrosLegales
    <2> QED
      BY <2>1, <2>2
  <1> QED
    BY <1>4, <1>5 DEF Legales

(* A process uses the answer that it has got. *)
LEMMA LegalesAlRecibir ==
  ASSUME Conexiones, Legales, pc \in [Procesos -> Estados], NEW c \in Procesos, NEW s \in Estados,
         s # "sin_lanzar", pc' = [pc EXCEPT ![c] = s], Llegados \subseteq Llegados',
         Recibir(c)
  PROVE  Legales'
PROOF
  <1>1. c \in Clientes
    BY SonHijos
  <1>2. PICK h \in Hijos : h = HijoDe(c)
    BY <1>1, AlRecibir
  <1>3. /\ hijo[h].pc = "recibir" /\ hijo' = hijo
        /\ respuesta'[c] = Nada
        /\ \A x \in Clientes \ {c} : respuesta'[x] = respuesta[x]
    BY <1>1, <1>2, AlRecibir
  <1>4. ASSUME NEW x \in Hijos PROVE HijoLegal(x)'
    <2>1. CASE x = h
      BY <1>3, <2>1 DEF HijoLegal
    <2>2. CASE x # h
      <3>1. x[1] # c \/ ~ Viva(x)
        BY <1>1, <1>2, <2>2, HijoVivo
      <3> QED
        BY <1>3, <2>2, <3>1, OtrosLegales
    <2> QED
      BY <2>1, <2>2
  <1>5. ASSUME NEW y \in Clientes PROVE RespuestaLegal(y, respuesta[y])'
    <2>1. CASE y = c
      BY <1>3, <2>1 DEF RespuestaLegal
    <2>2. CASE y # c
      BY <1>3, <2>2, OtrosLegales
    <2> QED
      BY <2>1, <2>2
  <1> QED
    BY <1>4, <1>5 DEF Legales

(* A process goes, and only a robot leaves a child at work behind. *)
LEMMA LegalesAlDesconectar ==
  ASSUME Conexiones, Legales, pc \in [Procesos -> Estados], NEW c \in Procesos, NEW s \in Estados,
         s # "sin_lanzar", pc' = [pc EXCEPT ![c] = s], Llegados \subseteq Llegados',
         Desconectar(c),
         hijo[HijoDe(c)].pc = "recibir" \/ (EsRobot(c) /\ hijo[HijoDe(c)].pc = "servir")
  PROVE  Legales'
PROOF
  <1>1. c \in Clientes
    BY SonHijos
  <1>2. PICK h \in Hijos : h = HijoDe(c)
    BY <1>1, AlDesconectar
  <1>3. /\ hijo'[h].pc = IF hijo[h].pc = "recibir" THEN "fin" ELSE "servir"
        /\ hijo'[h].pedido = hijo[h].pedido
        /\ \A x \in Hijos \ {h} : hijo'[x] = hijo[x]
        /\ respuesta'[c] = Nada
        /\ \A x \in Clientes \ {c} : respuesta'[x] = respuesta[x]
    BY <1>1, <1>2, AlDesconectar
  <1>4. ASSUME NEW x \in Hijos PROVE HijoLegal(x)'
    <2>1. CASE x = h
      <3>1. h[1] = c
        BY <1>2 DEF HijoDe
      <3>2. CASE hijo[h].pc = "recibir"
        BY <1>3, <2>1, <3>2 DEF HijoLegal
      <3>3. CASE EsRobot(c) /\ hijo[h].pc = "servir"
        <4>1. PICK r : r = hijo[h].pedido
          OBVIOUS
        <4>2. PedidoLegal(c, r)
          BY <3>1, <3>3, <4>1 DEF Legales, HijoLegal
        <4>3. PedidoLegal(c, r)'
          BY <3>3, <4>2, RobotLegal
        <4> QED
          BY <1>3, <2>1, <3>1, <3>3, <4>1, <4>3 DEF HijoLegal
      <3> QED
        BY <1>2, <3>2, <3>3
    <2>2. CASE x # h
      <3>1. x[1] # c \/ ~ Viva(x)
        BY <1>1, <1>2, <2>2, HijoVivo
      <3> QED
        BY <1>3, <2>2, <3>1, OtrosLegales
    <2> QED
      BY <2>1, <2>2
  <1>5. ASSUME NEW y \in Clientes PROVE RespuestaLegal(y, respuesta[y])'
    <2>1. CASE y = c
      BY <1>3, <2>1 DEF RespuestaLegal
    <2>2. CASE y # c
      BY <1>3, <2>2, OtrosLegales
    <2> QED
      BY <2>1, <2>2
  <1> QED
    BY <1>4, <1>5 DEF Legales

(* A step that only the broker takes changes nothing of what is legal. *)
LEMMA LegalEnElBroker ==
  ASSUME UNCHANGED <<pc, datos>>
  PROVE  /\ VuelosLanzados' = VuelosLanzados /\ Llegados' = Llegados
         /\ \A c, r : PedidoLegal(c, r) => PedidoLegal(c, r)'
         /\ \A c, r : RespuestaLegal(c, r) => RespuestaLegal(c, r)'
PROOF
  <1>1. VuelosLanzados' = VuelosLanzados /\ Llegados' = Llegados
    BY DEF VuelosLanzados, Llegados, En, datos, generador
  <1> QED
    BY <1>1, SigueLegal

(* A child answers what its client may receive. *)
LEMMA LegalesAlResponder ==
  ASSUME Conexiones, Legales, UNCHANGED <<pc, datos>>,
         NEW h \in Hijos, NEW r, Responder(h, r), hijo[h].pc \in {"servir", "crear"},
         Viva(h) => RespuestaLegal(h[1], r)
  PROVE  Legales'
PROOF
  <1>1. /\ Viva(h) => respuesta'[h[1]] = r
        /\ ~ Viva(h) => UNCHANGED respuesta
        /\ \A x \in Clientes \ {h[1]} : respuesta'[x] = respuesta[x]
        /\ hijo'[h].pc = IF Viva(h) THEN "recibir" ELSE "fin"
        /\ \A x \in Hijos \ {h} : hijo'[x] = hijo[x]
    BY AlResponder
  <1>2. ASSUME NEW x \in Hijos PROVE HijoLegal(x)'
    <2>1. CASE x = h
      BY <1>1, <2>1 DEF HijoLegal
    <2>2. CASE x # h
      <3>1. PICK q : q = hijo[x].pedido
        OBVIOUS
      <3>2. PedidoLegal(x[1], q) => PedidoLegal(x[1], q)'
        BY LegalEnElBroker
      <3> QED
        BY <1>1, <2>2, <3>1, <3>2 DEF Legales, HijoLegal
    <2> QED
      BY <2>1, <2>2
  <1>3. ASSUME NEW y \in Clientes PROVE RespuestaLegal(y, respuesta[y])'
    <2>1. PICK q : q = respuesta'[y]
      OBVIOUS
    <2>2. RespuestaLegal(y, q)
      BY <1>1, <2>1 DEF Legales
    <2>3. RespuestaLegal(y, q)'
      BY <2>2, LegalEnElBroker
    <2> QED
      BY <2>1, <2>3
  <1> QED
    BY <1>2, <1>3 DEF Legales

-----------------------------------------------------------------------------
(* The table of names and the queues *)

(* The place of a name, if it has one. *)
LEMMA LugarDeNombre ==
  ASSUME NEW cola
  PROVE  /\ Lugares \subseteq Nat /\ MaxColas \notin Lugares
         /\ GetProjId(cola) \in Lugares => GetProjId(cola) \in LugaresDe(cola)
         /\ \A l : LugaresDe(cola) = {l} => GetProjId(cola) = l
PROOF
  <1>1. MaxColas \in Nat /\ Lugares \subseteq Nat /\ MaxColas \notin Lugares
        /\ \A l \in Lugares : l < MaxColas
    BY SuposicionBroker DEF Lugares
  <1> DEFINE S == LugaresDe(cola) \cup {MaxColas}
  <1>2. S \in SUBSET Nat /\ S # {}
    BY <1>1 DEF LugaresDe
  <1>3. GetProjId(cola) = Min(S)
    BY DEF GetProjId, LugaresDe
  <1> HIDE DEF S
  <1>4. GetProjId(cola) \in S /\ \A k \in S : GetProjId(cola) <= k
    BY <1>2, <1>3, MinEsElMenor
  <1>5. ASSUME NEW l, LugaresDe(cola) = {l} PROVE GetProjId(cola) = l
    <2>1. S = {l, MaxColas} /\ l \in Lugares
      BY <1>5 DEF S, LugaresDe
    <2> QED
      BY <2>1, <1>1, <1>4
  <1> QED
    BY <1>1, <1>4, <1>5 DEF S

(* A step that does not touch the table nor the queues. *)
LEMMA TablaIgual ==
  ASSUME Tabla, UNCHANGED <<proj_id_to_queue_id, ipc>>,
         VuelosLanzados \subseteq VuelosLanzados', Llegados \subseteq Llegados',
         \A x \in Hijos : hijo'[x].pc = "crear" => hijo'[x] = hijo[x]
  PROVE  Tabla'
PROOF
  <1>1. ASSUME NEW l \in DOMAIN ipc
        PROVE  ipc[l] \in Seq(MensajesDe(proj_id_to_queue_id[l]))'
    <2>1. PICK cola \in Colas : cola = proj_id_to_queue_id[l] /\ ipc[l] \in Seq(MensajesDe(cola))
      BY DEF Tabla
    <2>2. MensajesDe(cola) \subseteq MensajesDe(cola)'
      BY HayMas
    <2>3. ipc[l] \in Seq(MensajesDe(cola)')
      BY <2>1, <2>2, ColaDeMas
    <2> QED
      BY <2>1, <2>3
  <1> QED
    BY <1>1 DEF Tabla

(* A step that changes one queue. *)
LEMMA TablaAlCambiarCola ==
  ASSUME Tabla, UNCHANGED proj_id_to_queue_id,
         VuelosLanzados' = VuelosLanzados, Llegados' = Llegados,
         \A x \in Hijos : hijo'[x].pc = "crear" => hijo'[x] = hijo[x],
         NEW l \in DOMAIN ipc, NEW q \in Seq(MensajesDe(proj_id_to_queue_id[l])),
         ipc' = [ipc EXCEPT ![l] = q]
  PROVE  Tabla'
PROOF
  <1>1. DOMAIN ipc' = DOMAIN ipc /\ ipc'[l] = q /\ \A k \in DOMAIN ipc \ {l} : ipc'[k] = ipc[k]
    OBVIOUS
  <1>2. ASSUME NEW k \in DOMAIN ipc
        PROVE  ipc'[k] \in Seq(MensajesDe(proj_id_to_queue_id[k]))'
    <2>1. PICK cola \in Colas : cola = proj_id_to_queue_id[k] /\ ipc'[k] \in Seq(MensajesDe(cola))
      BY <1>1 DEF Tabla
    <2>2. MensajesDe(cola) \subseteq MensajesDe(cola)'
      BY HayMas
    <2>3. ipc'[k] \in Seq(MensajesDe(cola)')
      BY <2>1, <2>2, ColaDeMas
    <2> QED
      BY <2>1, <2>3
  <1>3. ipc' = [k \in DOMAIN ipc' |-> ipc'[k]]
    OBVIOUS
  <1> QED
    BY <1>1, <1>2, <1>3 DEF Tabla

(* A step that takes a place of the table for a name. *)
LEMMA TablaAlTomarLugar ==
  ASSUME Tabla, UNCHANGED ipc, VuelosLanzados' = VuelosLanzados, Llegados' = Llegados,
         NEW l \in Libres, NEW cola \in Colas,
         proj_id_to_queue_id' = [proj_id_to_queue_id EXCEPT ![l] = cola],
         NEW h \in Hijos, hijo'[h].lugar = l, hijo'[h].pedido.cola = cola,
         \A x \in Hijos \ {h} : hijo'[x] = hijo[x]
  PROVE  /\ Tabla'
         /\ LugaresDe(cola)' = LugaresDe(cola) \cup {l}
         /\ l \in Lugares
PROOF
  <1>1. l \in Lugares /\ proj_id_to_queue_id[l] = Libre /\ Libre \notin Colas
    BY NombresDeColas DEF Libres
  <1>2. /\ proj_id_to_queue_id'[l] = cola
        /\ \A k \in Lugares \ {l} : proj_id_to_queue_id'[k] = proj_id_to_queue_id[k]
        /\ proj_id_to_queue_id' \in [Lugares -> Colas \cup {Libre}]
    BY <1>1 DEF Tabla
  <1>3. ASSUME NEW k \in DOMAIN ipc
        PROVE  /\ proj_id_to_queue_id'[k] \in Colas
               /\ ipc'[k] \in Seq(MensajesDe(proj_id_to_queue_id[k]))'
    <2>1. PICK c \in Colas : /\ c = proj_id_to_queue_id[k] /\ c = proj_id_to_queue_id'[k]
                             /\ ipc'[k] \in Seq(MensajesDe(c))
      BY <1>1, <1>2 DEF Tabla
    <2>2. MensajesDe(c) \subseteq MensajesDe(c)'
      BY HayMas
    <2>3. ipc'[k] \in Seq(MensajesDe(c)')
      BY <2>1, <2>2, ColaDeMas
    <2> QED
      BY <2>1, <2>3
  <1>4. ASSUME NEW x \in Hijos, hijo'[x].pc = "crear"
        PROVE  /\ hijo'[x].lugar \in Lugares /\ hijo'[x].pedido.cola \in Colas
               /\ proj_id_to_queue_id'[hijo'[x].lugar] = hijo'[x].pedido.cola
    <2>1. CASE x = h
      BY <2>1, <1>1, <1>2
    <2>2. CASE x # h
      <3>1. /\ hijo'[x] = hijo[x] /\ hijo[x].lugar \in Lugares
            /\ hijo[x].pedido.cola \in Colas
            /\ proj_id_to_queue_id[hijo[x].lugar] = hijo[x].pedido.cola
        BY <2>2, <1>4 DEF Tabla
      <3>2. CASE hijo[x].lugar # l
        <4>1. PICK k \in Lugares \ {l} : k = hijo[x].lugar /\ k = hijo'[x].lugar
          BY <3>1, <3>2
        <4>2. proj_id_to_queue_id'[k] = hijo[x].pedido.cola
          BY <3>1, <4>1, <1>2
        <4> QED
          BY <3>1, <4>1, <4>2
      <3>3. CASE hijo[x].lugar = l
        BY <3>1, <3>3, <1>4, <1>1, <1>2
      <3> QED
        BY <3>2, <3>3
    <2> QED
      BY <2>1, <2>2
  <1>5. LugaresDe(cola)' = LugaresDe(cola) \cup {l}
    BY <1>1, <1>2 DEF LugaresDe
  <1> QED
    BY <1>1, <1>2, <1>3, <1>4, <1>5 DEF Tabla

(* A step that creates the queue of a place: it has no messages, unless it *)
(* was there.                                                              *)
LEMMA TablaAlCrear ==
  ASSUME Tabla, UNCHANGED proj_id_to_queue_id,
         VuelosLanzados' = VuelosLanzados, Llegados' = Llegados,
         \A x \in Hijos : hijo'[x].pc = "crear" => hijo'[x] = hijo[x],
         NEW l \in Lugares, proj_id_to_queue_id[l] \in Colas,
         ipc' = [k \in DOMAIN ipc \cup {l} |-> IF k \in DOMAIN ipc THEN ipc[k] ELSE <<>>]
  PROVE  /\ Tabla'
         /\ DOMAIN ipc' = DOMAIN ipc \cup {l}
         /\ \A k \in DOMAIN ipc : ipc'[k] = ipc[k]
         /\ l \notin DOMAIN ipc => ipc'[l] = <<>>
PROOF
  <1>1. /\ DOMAIN ipc' = DOMAIN ipc \cup {l}
        /\ ipc' = [k \in DOMAIN ipc' |-> ipc'[k]]
        /\ \A k \in DOMAIN ipc : ipc'[k] = ipc[k]
        /\ l \notin DOMAIN ipc => ipc'[l] = <<>>
    OBVIOUS
  <1>2. ASSUME NEW k \in DOMAIN ipc'
        PROVE  /\ proj_id_to_queue_id[k] \in Colas
               /\ ipc'[k] \in Seq(MensajesDe(proj_id_to_queue_id[k]))'
    <2>1. PICK cola \in Colas : cola = proj_id_to_queue_id[k] /\ ipc'[k] \in Seq(MensajesDe(cola))
      <3>1. CASE k \in DOMAIN ipc
        BY <1>1, <3>1 DEF Tabla
      <3>2. CASE k \notin DOMAIN ipc
        <4>1. k = l /\ ipc'[k] = <<>>
          BY <1>1, <3>2
        <4>2. \A S : <<>> \in Seq(S)
          OBVIOUS
        <4> QED
          BY <4>1, <4>2
      <3> QED
        BY <3>1, <3>2
    <2>2. MensajesDe(cola) \subseteq MensajesDe(cola)'
      BY HayMas
    <2>3. ipc'[k] \in Seq(MensajesDe(cola)')
      BY <2>1, <2>2, ColaDeMas
    <2> QED
      BY <2>1, <2>3
  <1> QED
    BY <1>1, <1>2 DEF Tabla

-----------------------------------------------------------------------------
(* Who does not take part in a step *)

Quieto(x) ==
  /\ pc'[x] = pc[x] /\ vida'[x] = vida[x] /\ conectado'[x] = conectado[x]
  /\ respuesta'[x] = respuesta[x]
  /\ conectado[x] => hijo'[HijoDe(x)] = hijo[HijoDe(x)]

(* A call, or the end of one, is of one process. *)
LEMMA LosDemasQuietos ==
  ASSUME Conexiones, pc \in [Procesos -> Estados], NEW c \in Procesos, NEW s,
         pc' = [pc EXCEPT ![c] = s],
         \/ \E r \in Pedidos : Conectar(c, r)
         \/ \E r \in Pedidos : Pedir(c, r)
         \/ Recibir(c)
         \/ /\ Desconectar(c)
            /\ hijo[HijoDe(c)].pc = "recibir" \/ (EsRobot(c) /\ hijo[HijoDe(c)].pc = "servir")
  PROVE  \A x \in Procesos \ {c} : Quieto(x)
PROOF
  <1> SUFFICES ASSUME NEW x \in Procesos \ {c} PROVE Quieto(x)
    OBVIOUS
  <1>1. /\ c \in Clientes /\ x \in Clientes /\ pc'[x] = pc[x]
        /\ HijoDe(x)[1] = x /\ HijoDe(c)[1] = c
        /\ conectado[x] => HijoDe(x) \in Hijos
    BY HijoVivo, SonHijos DEF HijoDe
  <1>2. ASSUME NEW r \in Pedidos, Conectar(c, r) PROVE Quieto(x)
    <2>1. PICK h \in Hijos : /\ h = <<c, vida[c] + 1>>
                             /\ \A y \in Hijos \ {h} : hijo'[y] = hijo[y]
      BY <1>1, <1>2, AlConectar
    <2>2. h # HijoDe(x)
      BY <1>1, <2>1
    <2>3. conectado'[x] = conectado[x] /\ vida'[x] = vida[x] /\ respuesta' = respuesta
      BY <1>1, <1>2, AlConectar
    <2> QED
      BY <1>1, <2>1, <2>2, <2>3 DEF Quieto
  <1>3. ASSUME NEW r \in Pedidos, Pedir(c, r) PROVE Quieto(x)
    <2>1. /\ \A y \in Hijos \ {HijoDe(c)} : hijo'[y] = hijo[y]
          /\ UNCHANGED <<vida, conectado>> /\ respuesta'[x] = respuesta[x]
      BY <1>1, <1>3, AlPedir
    <2> QED
      BY <1>1, <2>1 DEF Quieto
  <1>4. ASSUME Recibir(c) PROVE Quieto(x)
    <2>1. UNCHANGED <<vida, conectado, hijo>> /\ respuesta'[x] = respuesta[x]
      BY <1>1, <1>4, AlRecibir
    <2> QED
      BY <1>1, <2>1 DEF Quieto
  <1>5. ASSUME Desconectar(c),
               hijo[HijoDe(c)].pc = "recibir" \/ (EsRobot(c) /\ hijo[HijoDe(c)].pc = "servir")
        PROVE  Quieto(x)
    <2>1. /\ \A y \in Hijos \ {HijoDe(c)} : hijo'[y] = hijo[y]
          /\ UNCHANGED vida /\ conectado'[x] = conectado[x] /\ respuesta'[x] = respuesta[x]
      BY <1>1, <1>5, AlDesconectar
    <2> QED
      BY <1>1, <2>1 DEF Quieto
  <1> QED
    BY <1>2, <1>3, <1>4, <1>5

(* A step of a child is its client's business, if it is still there. *)
LEMMA QuietosEnElBroker ==
  ASSUME Conexiones, UNCHANGED <<pc, vida, conectado>>, NEW h \in Hijos,
         \A x \in Hijos \ {h} : hijo'[x] = hijo[x],
         \A x \in Clientes \ {h[1]} : respuesta'[x] = respuesta[x],
         ~ Viva(h) => UNCHANGED respuesta
  PROVE  \A x \in Procesos : x # h[1] \/ ~ Viva(h) => Quieto(x)
PROOF
  <1> SUFFICES ASSUME NEW x \in Procesos, x # h[1] \/ ~ Viva(h) PROVE Quieto(x)
    OBVIOUS
  <1>1. x \in Clientes /\ HijoDe(x)[1] = x /\ h[1] \in Clientes
    BY SonHijos DEF HijoDe
  <1>2. conectado[x] => HijoDe(x) \in Hijos /\ Viva(HijoDe(x))
    BY <1>1, HijoVivo
  <1>3. conectado[x] => HijoDe(x) # h
    BY <1>1, <1>2
  <1> QED
    BY <1>1, <1>2, <1>3 DEF Quieto

(* While the launcher does nothing, what it has done stays. *)
LEMMA LanzadorQuieto ==
  ASSUME Lanzamiento, Quieto(Lanzador), DOMAIN ipc \subseteq DOMAIN ipc',
         LugaresDe(ColaIntercargo)' = LugaresDe(ColaIntercargo)
  PROVE  Lanzamiento' /\ (Lanzado => Lanzado')
PROOF
  <1>1. HijoDe(Lanzador)' = HijoDe(Lanzador)
    BY DEF Quieto, HijoDe
  <1>2. Lanzado => Lanzado'
    BY <1>1 DEF Quieto, Lanzado, Ocioso, En
  <1>3. Lanzamiento'
    BY <1>1 DEF Lanzamiento, Quieto, En
  <1> QED
    BY <1>2, <1>3

(* Neither do the stages of those that take no part in a step change. *)
LEMMA EtapasQuietas ==
  ASSUME Lanzado => Lanzado', VuelosLanzados \subseteq VuelosLanzados'
  PROVE  /\ \A c \in Procesos : SinConexion(c) /\ Quieto(c) => SinConexion(c)'
         /\ \A d \in Destinos :
              /\ EtapaControlador(d) /\ Quieto(Controlador(d))
              /\ id_aeropuerto'[d] = id_aeropuerto[d] /\ enviando'[d] = enviando[d]
              => EtapaControlador(d)'
         /\ \A a \in Aeropuertos : EtapaRobot(a) /\ Quieto(Robot(a)) => EtapaRobot(a)'
         /\ Quieto(Generador) /\ (~ En(Generador, "sin_lanzar") => Lanzado)
              => (~ En(Generador, "sin_lanzar") => Lanzado)'
PROOF
  <1>1. \A c \in Procesos : SinConexion(c) /\ Quieto(c) => SinConexion(c)'
    BY DEF SinConexion, Quieto, En
  <1>2. ASSUME NEW d \in Destinos, EtapaControlador(d), Quieto(Controlador(d)),
               id_aeropuerto'[d] = id_aeropuerto[d], enviando'[d] = enviando[d]
        PROVE  EtapaControlador(d)'
    BY <1>2 DEF EtapaControlador, Quieto, En
  <1>3. ASSUME NEW a \in Aeropuertos, EtapaRobot(a), Quieto(Robot(a)) PROVE EtapaRobot(a)'
    <2>1. HijoDe(Robot(a))' = HijoDe(Robot(a))
      BY <1>3 DEF Quieto, HijoDe
    <2> QED
      BY <1>3, <2>1 DEF EtapaRobot, Quieto, En
  <1>4. Quieto(Generador) /\ (~ En(Generador, "sin_lanzar") => Lanzado)
              => (~ En(Generador, "sin_lanzar") => Lanzado)'
    BY DEF Quieto, En
  <1> QED
    BY <1>1, <1>2, <1>3, <1>4

-----------------------------------------------------------------------------
(* Where the bags are: what each step moves *)

(* What the child of a connection serves is its client's. *)
LEMMA QuienEnvia ==
  ASSUME Conexiones, Legales, NEW h \in Hijos, EnviaAlgo(h)
  PROVE  /\ Viva(h)
         /\ \E e \in PorViajar :
              /\ h[1] = Controlador(DestinoDe[e])
              /\ hijo[h].pedido = Poner(ColaIntercargo, Traslado(e))
              /\ hijo[h].pedido.msg = Traslado(e) /\ hijo[h].pedido.msg.dato = e
PROOF
  <1>1. PICK r : r = hijo[h].pedido
    OBVIOUS
  <1>2. r.que = "push" /\ r.cola = ColaIntercargo /\ PedidoLegal(h[1], r)
    BY <1>1 DEF EnviaAlgo, Sirve, Legales, HijoLegal
  <1>3. ~ EsRobot(h[1])
    <2>1. ASSUME NEW a \in Aeropuertos PROVE r # Sacar(ColaIntercargo, a)
      BY <1>2, Registros
    <2> QED
      BY <2>1, <1>2, RobotLegal
  <1>4. Viva(h)
    <2>1. DeHijo(h) /\ h[1] \in Clientes /\ h[2] \in Nat /\ vida[h[1]] \in Nat /\ hijo[h].pc = "servir"
      BY SonHijos DEF Conexiones, TiposBroker, EnviaAlgo, Sirve
    <2>2. SinHijo.pc = "sin_conexion"
      BY DEF SinHijo
    <2> QED
      BY <2>1, <2>2, <1>3 DEF DeHijo
  <1>5. \E e \in PorViajar : h[1] = Controlador(DestinoDe[e]) /\ r = Poner(ColaIntercargo, Traslado(e))
    <2>1. ASSUME PedidoLanzador(r) PROVE FALSE
      BY <2>1, <1>2, Registros DEF PedidoLanzador
    <2>2. ASSUME PedidoGenerador(r) PROVE FALSE
      <3>1. CASE r = Crear(ColaEntrantes)
        BY <3>1, <1>2, Registros
      <3>2. ASSUME NEW m, r = Poner(ColaEntrantes, m) PROVE FALSE
        BY <3>2, <1>2, Registros, NombresDeColas
      <3> QED
        BY <2>2, <3>1, <3>2 DEF PedidoGenerador
    <2>3. ASSUME NEW v \in Vuelos, PedidoVuelo(v, r) PROVE FALSE
      BY <2>3, <1>2, Registros, NombresDeColas DEF PedidoVuelo
    <2>4. ASSUME NEW a \in Aeropuertos, r = Sacar(ColaIntercargo, a) PROVE FALSE
      BY <2>4, <1>2, Registros
    <2>5. PICK d \in Destinos : h[1] = Controlador(d) /\ PedidoControlador(d, r)
      BY <1>2, <2>1, <2>2, <2>3, <2>4 DEF PedidoLegal
    <2> QED
      BY <2>5, <1>2, Registros DEF PedidoControlador
  <1>6. \A e : Traslado(e).dato = e
    BY DEF Traslado
  <1> QED
    BY <1>1, <1>4, <1>5, <1>6, Registros

(* The bags on their way to the queue, one by one. *)
LEMMA EnvioDe ==
  ASSUME NEW e
  PROVE  e \in Enviandose <=> \E h \in Hijos : EnviaAlgo(h) /\ hijo[h].pedido.msg.dato = e
PROOF
  BY DEF Enviandose, EnviaAlgo

(* No child starts or ends to put a bag in the queue. *)
LEMMA EnviandoseIgual ==
  ASSUME \A x \in Hijos : hijo'[x] = hijo[x] \/ (~ EnviaAlgo(x) /\ ~ EnviaAlgo(x)')
  PROVE  Enviandose' = Enviandose
PROOF
  <1>1. ASSUME NEW x \in Hijos, hijo'[x] = hijo[x]
        PROVE  EnviaAlgo(x)' <=> EnviaAlgo(x)
    BY <1>1 DEF EnviaAlgo, Sirve
  <1>2. ASSUME NEW e PROVE e \in Enviandose' <=> e \in Enviandose
    <2>1. e \in Enviandose' <=> \E h \in Hijos : EnviaAlgo(h)' /\ hijo'[h].pedido.msg.dato = e
      BY DEF Enviandose, EnviaAlgo
    <2> QED
      BY <1>1, <2>1, EnvioDe
  <1> QED
    BY <1>2

(* One child starts to put a bag there. *)
LEMMA EmpiezaEnvio ==
  ASSUME NEW h \in Hijos, NEW e, ~ EnviaAlgo(h), EnviaAlgo(h)', hijo'[h].pedido.msg.dato = e,
         \A x \in Hijos \ {h} : hijo'[x] = hijo[x]
  PROVE  Enviandose' = Enviandose \cup {e}
PROOF
  <1>1. ASSUME NEW x \in Hijos \ {h}
        PROVE  EnviaAlgo(x)' <=> EnviaAlgo(x)
    BY <1>1 DEF EnviaAlgo, Sirve
  <1>2. ASSUME NEW y PROVE y \in Enviandose' <=> y \in Enviandose \cup {e}
    <2>1. y \in Enviandose' <=> \E x \in Hijos : EnviaAlgo(x)' /\ hijo'[x].pedido.msg.dato = y
      BY DEF Enviandose, EnviaAlgo
    <2>2. y \in Enviandose <=> \E x \in Hijos : EnviaAlgo(x) /\ hijo[x].pedido.msg.dato = y
      BY EnvioDe
    <2> QED
      BY <1>1, <2>1, <2>2
  <1> QED
    BY <1>2

(* The one that has put it there ends. *)
LEMMA TerminaEnvio ==
  ASSUME Conexiones, Legales, NEW h \in Hijos, NEW e, EnviaAlgo(h), ~ EnviaAlgo(h)',
         hijo[h].pedido.msg.dato = e,
         \A x \in Hijos \ {h} : hijo'[x] = hijo[x]
  PROVE  /\ e \in Enviandose
         /\ Enviandose' = Enviandose \ {e}
PROOF
  <1>1. ASSUME NEW x \in Hijos \ {h}
        PROVE  EnviaAlgo(x)' <=> EnviaAlgo(x)
    BY <1>1 DEF EnviaAlgo, Sirve
  <1>2. ASSUME NEW x \in Hijos, EnviaAlgo(x), hijo[x].pedido.msg.dato = e
        PROVE  x = h
    <2>1. Viva(h) /\ h[1] = Controlador(DestinoDe[e])
      BY QuienEnvia
    <2>2. Viva(x) /\ x[1] = Controlador(DestinoDe[e])
      BY <1>2, QuienEnvia
    <2> QED
      BY <2>1, <2>2, SonHijos DEF Viva
  <1>3. ASSUME NEW y PROVE y \in Enviandose' <=> y \in Enviandose \ {e}
    <2>1. y \in Enviandose' <=> \E x \in Hijos : EnviaAlgo(x)' /\ hijo'[x].pedido.msg.dato = y
      BY DEF Enviandose, EnviaAlgo
    <2>2. y \in Enviandose <=> \E x \in Hijos : EnviaAlgo(x) /\ hijo[x].pedido.msg.dato = y
      BY EnvioDe
    <2> QED
      BY <1>1, <1>2, <2>1, <2>2
  <1>4. e \in Enviandose
    BY EnvioDe
  <1> QED
    BY <1>3, <1>4

(* The bags in the queue, one by one. *)
LEMMA ColaDe ==
  ASSUME NEW e
  PROVE  e \in EnCola <=> \E l \in DOMAIN ipc : /\ proj_id_to_queue_id[l] = ColaIntercargo
                                               /\ \E i \in DOMAIN ipc[l] : e = ipc[l][i].dato
PROOF
  BY DEF EnCola

(* The queue between airports does not change, though others do. *)
LEMMA ColaIgual ==
  ASSUME Tabla, Tabla',
         \A l \in DOMAIN ipc : proj_id_to_queue_id[l] = ColaIntercargo =>
           l \in DOMAIN ipc' /\ proj_id_to_queue_id'[l] = ColaIntercargo /\ ipc'[l] = ipc[l],
         \A l \in DOMAIN ipc' : proj_id_to_queue_id'[l] = ColaIntercargo =>
           \/ l \in DOMAIN ipc /\ proj_id_to_queue_id[l] = ColaIntercargo
           \/ ipc'[l] = <<>>
  PROVE  EnCola' = EnCola /\ (UnaVez => UnaVez')
PROOF
  <1>1. \A i : i \notin DOMAIN <<>>
    OBVIOUS
  <1>2. ASSUME NEW e PROVE e \in EnCola' <=> e \in EnCola
    <2>1. e \in EnCola' <=> \E l \in DOMAIN ipc' : /\ proj_id_to_queue_id'[l] = ColaIntercargo
                                                  /\ \E i \in DOMAIN ipc'[l] : e = ipc'[l][i].dato
      BY DEF EnCola
    <2>2. e \in EnCola <=> \E l \in DOMAIN ipc : /\ proj_id_to_queue_id[l] = ColaIntercargo
                                                /\ \E i \in DOMAIN ipc[l] : e = ipc[l][i].dato
      BY ColaDe
    <2> QED
      BY <1>1, <2>1, <2>2
  <1>3. ASSUME UnaVez PROVE UnaVez'
    <2> SUFFICES ASSUME NEW l \in (LugaresDe(ColaIntercargo) \cap DOMAIN ipc)',
                        NEW k \in (LugaresDe(ColaIntercargo) \cap DOMAIN ipc)',
                        NEW i \in DOMAIN ipc'[l], NEW j \in DOMAIN ipc'[k],
                        ipc'[l][i].dato = ipc'[k][j].dato
                 PROVE  l = k /\ i = j
      BY DEF UnaVez
    <2>1. ASSUME NEW p \in (LugaresDe(ColaIntercargo) \cap DOMAIN ipc)', ipc'[p] # <<>>
          PROVE  p \in LugaresDe(ColaIntercargo) \cap DOMAIN ipc /\ ipc'[p] = ipc[p]
      BY <2>1 DEF LugaresDe
    <2>2. ipc'[l] # <<>> /\ ipc'[k] # <<>>
      BY <1>1
    <2>3. /\ l \in LugaresDe(ColaIntercargo) \cap DOMAIN ipc /\ ipc'[l] = ipc[l]
          /\ k \in LugaresDe(ColaIntercargo) \cap DOMAIN ipc /\ ipc'[k] = ipc[k]
      BY <2>1, <2>2
    <2> QED
      BY <1>3, <2>3 DEF UnaVez
  <1> QED
    BY <1>2, <1>3

(* A bag comes to the end of the queue. *)
LEMMA LlegaACola ==
  ASSUME Tabla, UnaVez, UNCHANGED proj_id_to_queue_id,
         NEW l \in DOMAIN ipc, proj_id_to_queue_id[l] = ColaIntercargo,
         NEW m \in MensajesDe(ColaIntercargo), m.dato \notin EnCola,
         ipc' = [ipc EXCEPT ![l] = Append(@, m)]
  PROVE  EnCola' = EnCola \cup {m.dato} /\ UnaVez'
PROOF
  <1>1. PICK q \in Seq(MensajesDe(ColaIntercargo)) : q = ipc[l]
    BY DEF Tabla
  <1>2. PICK w : w = Append(q, m)
    OBVIOUS
  <1>3. /\ DOMAIN ipc' = DOMAIN ipc /\ ipc'[l] = w
        /\ \A k \in DOMAIN ipc \ {l} : ipc'[k] = ipc[k]
    BY <1>1, <1>2
  <1>4. /\ DOMAIN w = 1..Len(q) + 1 /\ DOMAIN q = 1..Len(q) /\ w[Len(q) + 1] = m
        /\ Len(q) \in Nat
        /\ \A i \in 1..Len(q) : w[i] = q[i]
    BY <1>2
  <1>5. ASSUME NEW e PROVE e \in EnCola' <=> e \in EnCola \cup {m.dato}
    <2>1. e \in EnCola' <=> \E k \in DOMAIN ipc : /\ proj_id_to_queue_id[k] = ColaIntercargo
                                                 /\ \E i \in DOMAIN ipc'[k] : e = ipc'[k][i].dato
      BY <1>3 DEF EnCola
    <2>2. e \in EnCola <=> \E k \in DOMAIN ipc : /\ proj_id_to_queue_id[k] = ColaIntercargo
                                                /\ \E i \in DOMAIN ipc[k] : e = ipc[k][i].dato
      BY ColaDe
    <2>3. (\E i \in DOMAIN w : e = w[i].dato) <=> (e = m.dato \/ \E i \in DOMAIN q : e = q[i].dato)
      <3>1. ASSUME NEW i \in DOMAIN w, e = w[i].dato
            PROVE  e = m.dato \/ \E k \in DOMAIN q : e = q[k].dato
        <4>1. i = Len(q) + 1 \/ i \in 1..Len(q)
          BY <1>4
        <4> QED
          BY <3>1, <4>1, <1>4
      <3>2. Len(q) + 1 \in DOMAIN w /\ DOMAIN q \subseteq DOMAIN w
        BY <1>4
      <3> QED
        BY <3>1, <3>2, <1>4
    <2> QED
      BY <2>1, <2>2, <2>3, <1>1, <1>3
  <1>6. UnaVez'
    <2> SUFFICES ASSUME NEW j \in LugaresDe(ColaIntercargo) \cap DOMAIN ipc,
                        NEW k \in LugaresDe(ColaIntercargo) \cap DOMAIN ipc,
                        NEW x \in DOMAIN ipc'[j], NEW y \in DOMAIN ipc'[k],
                        ipc'[j][x].dato = ipc'[k][y].dato
                 PROVE  j = k /\ x = y
      BY <1>3 DEF UnaVez, LugaresDe
    <2>1. ASSUME NEW p \in LugaresDe(ColaIntercargo) \cap DOMAIN ipc, NEW z \in DOMAIN ipc'[p]
          PROVE  \/ p = l /\ z = Len(q) + 1 /\ ipc'[p][z] = m
                 \/ /\ z \in DOMAIN ipc[p] /\ ipc'[p][z] = ipc[p][z]
                    /\ ipc[p][z].dato \in EnCola
      <3>1. CASE p # l
        BY <3>1, <1>3, ColaDe DEF LugaresDe
      <3>2. CASE p = l
        <4>1. z \in 1..Len(q) + 1
          BY <3>2, <1>3, <1>4
        <4>2. CASE z = Len(q) + 1
          BY <3>2, <4>2, <1>3, <1>4
        <4>3. CASE z # Len(q) + 1
          <5>1. z \in DOMAIN ipc[p] /\ ipc'[p][z] = ipc[p][z]
            BY <3>2, <4>1, <4>3, <1>1, <1>3, <1>4
          <5> QED
            BY <5>1, ColaDe DEF LugaresDe
        <4> QED
          BY <4>2, <4>3
      <3> QED
        BY <3>1, <3>2
    <2> QED
      BY <2>1 DEF UnaVez
  <1> QED
    BY <1>5, <1>6

(* A bag is taken out of the queue. *)
LEMMA SaleDeCola ==
  ASSUME Tabla, UnaVez, UNCHANGED proj_id_to_queue_id,
         NEW l \in DOMAIN ipc, proj_id_to_queue_id[l] = ColaIntercargo,
         NEW i \in DOMAIN ipc[l], NEW e, e = ipc[l][i].dato,
         ipc' = [ipc EXCEPT ![l] = RemoveAt(@, i)]
  PROVE  e \in EnCola /\ EnCola' = EnCola \ {e} /\ UnaVez'
PROOF
  <1>1. PICK q \in Seq(MensajesDe(ColaIntercargo)) : q = ipc[l]
    BY DEF Tabla
  <1>2. PICK w : w = RemoveAt(q, i)
    OBVIOUS
  <1>3. /\ DOMAIN ipc' = DOMAIN ipc /\ ipc'[l] = w
        /\ \A k \in DOMAIN ipc \ {l} : ipc'[k] = ipc[k]
    BY <1>1, <1>2
  <1>4. DOMAIN q = 1..Len(q) /\ Len(q) \in Nat /\ i \in 1..Len(q)
    BY <1>1
  <1>5. /\ w \in Seq(MensajesDe(ColaIntercargo)) /\ Len(w) = Len(q) - 1
        /\ \A j \in 1..Len(q) - 1 : w[j] = IF j < i THEN q[j] ELSE q[j + 1]
    BY <1>2, <1>4, QuitarDeCola
  <1>6. DOMAIN w = 1..Len(q) - 1
    BY <1>5
  <1> DEFINE antes(j) == IF j < i THEN j ELSE j + 1
  <1>7. ASSUME NEW j \in DOMAIN w
        PROVE  antes(j) \in DOMAIN q /\ antes(j) # i /\ w[j] = q[antes(j)]
    BY <1>4, <1>5, <1>6
  <1>8. ASSUME NEW k \in DOMAIN q, k # i
        PROVE  \E j \in DOMAIN w : antes(j) = k
    <2>1. CASE k < i
      BY <2>1, <1>4, <1>6
    <2>2. CASE k > i
      <3>1. k - 1 \in DOMAIN w /\ antes(k - 1) = k
        BY <2>2, <1>4, <1>6
      <3> QED
        BY <3>1
    <2> QED
      BY <2>1, <2>2, <1>4, <1>8
  <1>9. ASSUME NEW j \in DOMAIN w, NEW k \in DOMAIN w, antes(j) = antes(k)
        PROVE  j = k
    BY <1>9, <1>4, <1>6
  <1> HIDE DEF antes
  <1>10. e \in EnCola
    BY ColaDe
  <1>11. ASSUME NEW p \in LugaresDe(ColaIntercargo) \cap DOMAIN ipc, NEW z \in DOMAIN ipc'[p]
         PROVE  IF p = l
                THEN /\ antes(z) \in DOMAIN ipc[p] /\ ipc'[p][z] = ipc[p][antes(z)]
                     /\ antes(z) # i /\ z \in DOMAIN w
                ELSE z \in DOMAIN ipc[p] /\ ipc'[p][z] = ipc[p][z]
    BY <1>1, <1>3, <1>7
  <1>12. UnaVez'
    <2> SUFFICES ASSUME NEW j \in LugaresDe(ColaIntercargo) \cap DOMAIN ipc,
                        NEW k \in LugaresDe(ColaIntercargo) \cap DOMAIN ipc,
                        NEW x \in DOMAIN ipc'[j], NEW y \in DOMAIN ipc'[k],
                        ipc'[j][x].dato = ipc'[k][y].dato
                 PROVE  j = k /\ x = y
      BY <1>3 DEF UnaVez, LugaresDe
    <2>1. PICK u \in DOMAIN ipc[j] : /\ ipc'[j][x] = ipc[j][u]
                                     /\ u = IF j = l THEN antes(x) ELSE x
      BY <1>11
    <2>2. PICK v \in DOMAIN ipc[k] : /\ ipc'[k][y] = ipc[k][v]
                                     /\ v = IF k = l THEN antes(y) ELSE y
      BY <1>11
    <2>3. j = k /\ u = v
      BY <2>1, <2>2 DEF UnaVez
    <2>4. j = l => x \in DOMAIN w /\ y \in DOMAIN w
      BY <2>3, <1>11
    <2> QED
      BY <2>1, <2>2, <2>3, <2>4, <1>9
  <1>13. ASSUME NEW y PROVE y \in EnCola' <=> y \in EnCola \ {e}
    <2>1. y \in EnCola' <=> \E k \in DOMAIN ipc : /\ proj_id_to_queue_id[k] = ColaIntercargo
                                                 /\ \E j \in DOMAIN ipc'[k] : y = ipc'[k][j].dato
      BY <1>3 DEF EnCola
    <2>2. y \in EnCola <=> \E k \in DOMAIN ipc : /\ proj_id_to_queue_id[k] = ColaIntercargo
                                                /\ \E j \in DOMAIN ipc[k] : y = ipc[k][j].dato
      BY ColaDe
    <2>3. ASSUME NEW k \in DOMAIN ipc, proj_id_to_queue_id[k] = ColaIntercargo
          PROVE  k \in LugaresDe(ColaIntercargo) \cap DOMAIN ipc
      BY <2>3 DEF Tabla, LugaresDe
    <2>4. ASSUME NEW k \in DOMAIN ipc, proj_id_to_queue_id[k] = ColaIntercargo,
                 NEW j \in DOMAIN ipc'[k], y = ipc'[k][j].dato
          PROVE  y \in EnCola /\ y # e
      <3>1. k \in LugaresDe(ColaIntercargo) \cap DOMAIN ipc
        BY <2>3, <2>4
      <3>2. PICK u \in DOMAIN ipc[k] : /\ ipc'[k][j] = ipc[k][u]
                                       /\ u = IF k = l THEN antes(j) ELSE j
                                       /\ k = l => u # i
        BY <3>1, <1>11
      <3>3. y \in EnCola
        BY <2>2, <2>4, <3>2
      <3>4. l \in LugaresDe(ColaIntercargo) \cap DOMAIN ipc
        BY <2>3
      <3>5. ipc[k][u].dato # ipc[l][i].dato
        BY <3>1, <3>2, <3>4 DEF UnaVez
      <3> QED
        BY <2>4, <3>2, <3>3, <3>5
    <2>5. ASSUME NEW k \in DOMAIN ipc, proj_id_to_queue_id[k] = ColaIntercargo,
                 NEW u \in DOMAIN ipc[k], y = ipc[k][u].dato, y # e
          PROVE  y \in EnCola'
      <3>1. CASE k # l
        BY <3>1, <2>1, <2>5, <1>3
      <3>2. CASE k = l
        <4>1. u \in DOMAIN q /\ u # i
          BY <3>2, <2>5, <1>1
        <4>2. PICK j \in DOMAIN w : antes(j) = u
          BY <4>1, <1>8
        <4>3. w[j] = q[u]
          BY <4>2, <1>7
        <4> QED
          BY <3>2, <4>2, <4>3, <2>1, <2>5, <1>1, <1>3
      <3> QED
        BY <3>1, <3>2
    <2> QED
      BY <2>1, <2>2, <2>4, <2>5
  <1> QED
    BY <1>10, <1>12, <1>13

(* What a robot has been given is a bag for its airport. *)
LEMMA LoEntregado ==
  ASSUME Legales, NEW a \in Aeropuertos, respuesta[Robot(a)] \notin {Nada, Bien, BROKER_ERROR}
  PROVE  /\ pc[Robot(a)] = "espera"
         /\ \E e \in PorViajar : /\ AeropuertoDe[DestinoDe[e]] = a
                                 /\ respuesta[Robot(a)] = ConMsg(Traslado(e))
                                 /\ respuesta[Robot(a)].que = "msg"
                                 /\ respuesta[Robot(a)].msg.dato = e
PROOF
  <1>1. PICK r : r = respuesta[Robot(a)]
    OBVIOUS
  <1>2. RespuestaLegal(Robot(a), r)
    BY <1>1, ProcesosDistintos, SonHijos DEF Legales
  <1>3. \A d \in Destinos : Robot(a) # Controlador(d)
    BY DEF Robot, Controlador
  <1>4. PICK b \in Aeropuertos : /\ Robot(a) = Robot(b) /\ En(Robot(a), "espera")
                                 /\ \E e \in PorViajar : /\ AeropuertoDe[DestinoDe[e]] = b
                                                         /\ r = ConMsg(Traslado(e))
    BY <1>1, <1>2, <1>3 DEF RespuestaLegal
  <1>5. a = b
    BY <1>4, ProcesosDistintos
  <1>6. \A e : Traslado(e).dato = e
    BY DEF Traslado
  <1> QED
    BY <1>1, <1>4, <1>5, <1>6, Registros DEF En

(* The bags that robots have been given, one by one. *)
LEMMA EntregaDe ==
  ASSUME NEW e
  PROVE  e \in Entregados <=> \E a \in Aeropuertos : /\ respuesta[Robot(a)].que = "msg"
                                                    /\ e = respuesta[Robot(a)].msg.dato
PROOF
  BY DEF Entregados, EntregadosA

(* The robots are given nothing, and use nothing. *)
LEMMA EntregadosIgual ==
  ASSUME \A a \in Aeropuertos : \/ respuesta'[Robot(a)] = respuesta[Robot(a)]
                                \/ /\ respuesta[Robot(a)].que # "msg"
                                   /\ respuesta'[Robot(a)].que # "msg"
  PROVE  Entregados' = Entregados
PROOF
  BY DEF Entregados, EntregadosA

(* A robot is given a bag. *)
LEMMA SeEntrega ==
  ASSUME NEW a \in Aeropuertos, NEW e,
         respuesta[Robot(a)].que # "msg",
         respuesta'[Robot(a)].que = "msg", respuesta'[Robot(a)].msg.dato = e,
         \A b \in Aeropuertos \ {a} : respuesta'[Robot(b)] = respuesta[Robot(b)]
  PROVE  Entregados' = Entregados \cup {e}
PROOF
  <1>1. ASSUME NEW y PROVE y \in Entregados' <=> y \in Entregados \cup {e}
    <2>1. y \in Entregados' <=> \E b \in Aeropuertos : /\ respuesta'[Robot(b)].que = "msg"
                                                      /\ y = respuesta'[Robot(b)].msg.dato
      BY DEF Entregados, EntregadosA
    <2>2. y \in Entregados <=> \E b \in Aeropuertos : /\ respuesta[Robot(b)].que = "msg"
                                                     /\ y = respuesta[Robot(b)].msg.dato
      BY EntregaDe
    <2> QED
      BY <2>1, <2>2
  <1> QED
    BY <1>1

(* A robot uses the bag that it has been given, or loses it. *)
LEMMA SeUsa ==
  ASSUME Legales, NEW a \in Aeropuertos, NEW e,
         respuesta[Robot(a)].que = "msg", respuesta[Robot(a)].msg.dato = e,
         respuesta'[Robot(a)].que # "msg",
         \A b \in Aeropuertos \ {a} : respuesta'[Robot(b)] = respuesta[Robot(b)]
  PROVE  e \in Entregados /\ Entregados' = Entregados \ {e}
PROOF
  <1>1. ASSUME NEW b \in Aeropuertos, respuesta[Robot(b)].que = "msg",
               respuesta[Robot(b)].msg.dato = e
        PROVE  b = AeropuertoDe[DestinoDe[e]]
    <2>1. respuesta[Robot(b)] \notin {Nada, Bien, BROKER_ERROR}
      BY <1>1, Registros
    <2> QED
      BY <1>1, <2>1, LoEntregado
  <1>2. ASSUME NEW y PROVE y \in Entregados' <=> y \in Entregados \ {e}
    <2>1. y \in Entregados' <=> \E b \in Aeropuertos : /\ respuesta'[Robot(b)].que = "msg"
                                                      /\ y = respuesta'[Robot(b)].msg.dato
      BY DEF Entregados, EntregadosA
    <2>2. y \in Entregados <=> \E b \in Aeropuertos : /\ respuesta[Robot(b)].que = "msg"
                                                     /\ y = respuesta[Robot(b)].msg.dato
      BY EntregaDe
    <2> QED
      BY <1>1, <2>1, <2>2
  <1>3. e \in Entregados
    BY EntregaDe
  <1> QED
    BY <1>2, <1>3

Encontrados == SinEnviar \cup Enviandose \cup EnCola \cup Entregados \cup EnCinta

(* The lost ones are those that are nowhere. *)
LEMMA LosPerdidos ==
  Perdidos = EquipajesIntercargo \ Encontrados /\ (Perdidos = EquipajesIntercargo \ Encontrados)'
PROOF
  BY DEF Perdidos, Encontrados, Entregados

(* A step that moves no bag. *)
LEMMA NadaSeMueve ==
  ASSUME EnUnLugar, SinEnviar' = SinEnviar, Enviandose' = Enviandose, EnCola' = EnCola,
         Entregados' = Entregados, EnCinta' = EnCinta
  PROVE  EnUnLugar' /\ Perdidos' = Perdidos
PROOF
  BY LosPerdidos DEF EnUnLugar, Encontrados

-----------------------------------------------------------------------------
(* The losses, and the connections that were cut *)

(* A robot connects so many times, and no more. *)
LEMMA HijosDeRobot ==
  ASSUME NEW a \in Aeropuertos
  PROVE  IsFiniteSet({h \in Hijos : h[1] = Robot(a)})
PROOF
  <1>1. PICK n \in Nat : n = VidasDe[Robot(a)]
    BY ProcesosDistintos, SonHijos
  <1>2. PICK S : S = {h \in Hijos : h[1] = Robot(a)}
    OBVIOUS
  <1>3. S \subseteq {Robot(a)} \X (1..n)
    <2>1. ASSUME NEW h \in S
          PROVE  h \in {Robot(a)} \X (1..n)
      <3>1. h \in Hijos /\ h[1] = Robot(a)
        BY <1>2, <2>1
      <3>2. h = <<h[1], h[2]>> /\ h[2] \in Nat /\ h[2] > 0 /\ h[2] <= n
        BY <1>1, <3>1, SonHijos
      <3>3. h[2] \in 1..n
        BY <3>2
      <3> QED
        BY <3>1, <3>2, <3>3
    <2> QED
      BY <2>1
  <1>4. IsFiniteSet({Robot(a)}) /\ IsFiniteSet(1..n)
    <2>1. IsFiniteSet(1..n)
      BY FS_Interval
    <2>2. IsFiniteSet({Robot(a)})
      BY FS_Singleton
    <2> QED
      BY <2>1, <2>2
  <1>5. IsFiniteSet({Robot(a)} \X (1..n))
    BY <1>4, FS_Product
  <1> QED
    BY <1>2, <1>3, <1>5, FS_Subset

(* Nothing more is lost in an airport than connections of its robot have   *)
(* been cut: what a step may add to the one and to the other.              *)
LEMMA CuentaDePerdidas ==
  ASSUME Conexiones, Conexiones', NEW a \in Aeropuertos, CuentaPerdidas(a),
         \/ /\ PerdidosDe(a)' \subseteq PerdidosDe(a)
            /\ Abandonados(a)' \subseteq Abandonados(a)
            /\ ConexionesCortadas(a)' = ConexionesCortadas(a)
         \/ /\ \E e : PerdidosDe(a)' \subseteq PerdidosDe(a) \cup {e}
            /\ Abandonados(a)' \subseteq Abandonados(a)
            /\ ConexionesCortadas(a)' = ConexionesCortadas(a) + 1
         \/ /\ PerdidosDe(a)' \subseteq PerdidosDe(a)
            /\ \E h : Abandonados(a)' \subseteq Abandonados(a) \cup {h}
            /\ ConexionesCortadas(a)' = ConexionesCortadas(a) + 1
         \/ /\ \E e : PerdidosDe(a)' \subseteq PerdidosDe(a) \cup {e}
            /\ \E h \in Abandonados(a) : Abandonados(a)' \subseteq Abandonados(a) \ {h}
            /\ ConexionesCortadas(a)' = ConexionesCortadas(a)
  PROVE  CuentaPerdidas(a)'
PROOF
  <1>1. IsFiniteSet(EquipajesIntercargo)
    BY SuposicionTrasbordo
  <1>2. Robot(a) \in Clientes /\ VidasDe[Robot(a)] \in Nat
    BY ProcesosDistintos, SonHijos
  <1>3. ASSUME NEW S, S \subseteq Hijos, \A h \in S : h[1] = Robot(a)
        PROVE  IsFiniteSet(S)
    <2>1. S \subseteq {h \in Hijos : h[1] = Robot(a)}
      BY <1>3
    <2> QED
      BY <2>1, HijosDeRobot, FS_Subset
  <1>4. PICK P, Q, A, B :
          /\ P = PerdidosDe(a) /\ Q = PerdidosDe(a)'
          /\ A = Abandonados(a) /\ B = Abandonados(a)'
    OBVIOUS
  <1>5. PICK n, m : n = ConexionesCortadas(a) /\ m = ConexionesCortadas(a)'
    OBVIOUS
  <1>6. IsFiniteSet(P) /\ IsFiniteSet(Q) /\ IsFiniteSet(A) /\ IsFiniteSet(B)
    <2>1. P \subseteq EquipajesIntercargo /\ Q \subseteq EquipajesIntercargo
      BY <1>4 DEF PerdidosDe, Perdidos
    <2>2. /\ A \subseteq Hijos /\ \A h \in A : h[1] = Robot(a)
          /\ B \subseteq Hijos /\ \A h \in B : h[1] = Robot(a)
      BY <1>4 DEF Abandonados
    <2> QED
      BY <2>1, <2>2, <1>1, <1>3, FS_Subset
  <1>7. n \in Int /\ m \in Int
    BY <1>2, <1>5 DEF ConexionesCortadas, Conexiones, TiposBroker
  <1>8. /\ Cardinality(P) \in Nat /\ Cardinality(Q) \in Nat
        /\ Cardinality(A) \in Nat /\ Cardinality(B) \in Nat
    BY <1>6, FS_CardinalityType
  <1>9. Cardinality(P) + Cardinality(A) <= n
    BY <1>4, <1>5 DEF CuentaPerdidas
  <1>10. ASSUME NEW S, NEW T, IsFiniteSet(S), IsFiniteSet(T), T \subseteq S
         PROVE  Cardinality(T) <= Cardinality(S)
    BY <1>10, FS_Subset
  <1>11. ASSUME NEW S, NEW T, IsFiniteSet(S), IsFiniteSet(T), NEW x, T \subseteq S \cup {x}
         PROVE  Cardinality(T) <= Cardinality(S) + 1
    <2>1. IsFiniteSet(S \cup {x}) /\ Cardinality(S \cup {x}) <= Cardinality(S) + 1
      <3>1. /\ IsFiniteSet(S \cup {x})
            /\ Cardinality(S \cup {x}) = IF x \in S THEN Cardinality(S) ELSE Cardinality(S) + 1
        BY <1>11, FS_AddElement
      <3>2. Cardinality(S) \in Nat
        BY <1>11, FS_CardinalityType
      <3> QED
        BY <3>1, <3>2
    <2>2. Cardinality(T) <= Cardinality(S \cup {x})
      BY <1>11, <2>1, FS_Subset
    <2>3. Cardinality(T) \in Nat /\ Cardinality(S) \in Nat /\ Cardinality(S \cup {x}) \in Nat
      BY <1>11, <2>1, FS_CardinalityType
    <2> QED
      BY <2>1, <2>2, <2>3
  <1>12. ASSUME NEW h \in A, B \subseteq A \ {h}
         PROVE  Cardinality(B) <= Cardinality(A) - 1
    <2>1. IsFiniteSet(A \ {h}) /\ Cardinality(A \ {h}) = Cardinality(A) - 1
      BY <1>6, FS_RemoveElement
    <2> QED
      BY <1>12, <2>1, <1>10, <1>6
  <1>13. \/ Q \subseteq P /\ B \subseteq A /\ m = n
         \/ (\E e : Q \subseteq P \cup {e}) /\ B \subseteq A /\ m = n + 1
         \/ Q \subseteq P /\ (\E h : B \subseteq A \cup {h}) /\ m = n + 1
         \/ (\E e : Q \subseteq P \cup {e}) /\ (\E h \in A : B \subseteq A \ {h}) /\ m = n
    BY <1>4, <1>5
  <1>14. Cardinality(Q) + Cardinality(B) <= m
    <2>1. CASE Q \subseteq P /\ B \subseteq A /\ m = n
      <3>1. Cardinality(Q) <= Cardinality(P) /\ Cardinality(B) <= Cardinality(A)
        BY <2>1, <1>6, <1>10
      <3> QED
        BY <2>1, <3>1, <1>7, <1>8, <1>9
    <2>2. CASE (\E e : Q \subseteq P \cup {e}) /\ B \subseteq A /\ m = n + 1
      <3>1. Cardinality(Q) <= Cardinality(P) + 1 /\ Cardinality(B) <= Cardinality(A)
        BY <2>2, <1>6, <1>10, <1>11
      <3> QED
        BY <2>2, <3>1, <1>7, <1>8, <1>9
    <2>3. CASE Q \subseteq P /\ (\E h : B \subseteq A \cup {h}) /\ m = n + 1
      <3>1. Cardinality(Q) <= Cardinality(P) /\ Cardinality(B) <= Cardinality(A) + 1
        BY <2>3, <1>6, <1>10, <1>11
      <3> QED
        BY <2>3, <3>1, <1>7, <1>8, <1>9
    <2>4. CASE (\E e : Q \subseteq P \cup {e}) /\ (\E h \in A : B \subseteq A \ {h}) /\ m = n
      <3>1. Cardinality(Q) <= Cardinality(P) + 1 /\ Cardinality(B) <= Cardinality(A) - 1
        BY <2>4, <1>6, <1>11, <1>12
      <3> QED
        BY <2>4, <3>1, <1>7, <1>8, <1>9
    <2> QED
      BY <1>13, <2>1, <2>2, <2>3, <2>4
  <1> QED
    BY <1>4, <1>5, <1>14 DEF CuentaPerdidas

(* Who connects has not been cut, and leaves no child behind. *)
LEMMA CortesAlConectar ==
  ASSUME Conexiones, NEW c \in Clientes, NEW r \in Pedidos, Conectar(c, r),
         NEW a \in Aeropuertos
  PROVE  Abandonados(a)' = Abandonados(a) /\ ConexionesCortadas(a)' = ConexionesCortadas(a)
PROOF
  <1>1. PICK h \in Hijos :
              /\ hijo[h] = SinHijo /\ Viva(h)'
              /\ \A x \in Hijos \ {h} : hijo'[x] = hijo[x] /\ (Viva(x)' <=> Viva(x))
    BY AlConectar
  <1>2. SinHijo.pc = "sin_conexion"
    BY DEF SinHijo
  <1>3. Abandonados(a)' = Abandonados(a)
    BY <1>1, <1>2 DEF Abandonados
  <1>4. Robot(a) \in Clientes
    BY ProcesosDistintos, SonHijos
  <1>5. /\ ~ conectado[c] /\ conectado'[c] /\ vida'[c] = vida[c] + 1 /\ vida[c] \in Nat
        /\ \A x \in Clientes \ {c} : conectado'[x] = conectado[x] /\ vida'[x] = vida[x]
    BY AlConectar DEF Conexiones, TiposBroker
  <1>6. ConexionesCortadas(a)' = ConexionesCortadas(a)
    <2>1. CASE Robot(a) = c
      BY <2>1, <1>5 DEF ConexionesCortadas
    <2>2. CASE Robot(a) # c
      BY <2>2, <1>4, <1>5 DEF ConexionesCortadas
    <2> QED
      BY <2>1, <2>2
  <1> QED
    BY <1>3, <1>6

(* Neither is anybody cut by a call or by the use of an answer. *)
LEMMA SinCortes ==
  ASSUME UNCHANGED <<vida, conectado>>, NEW a \in Aeropuertos,
         \A x \in Hijos : hijo'[x] = hijo[x] \/ Viva(x)
  PROVE  Abandonados(a)' = Abandonados(a) /\ ConexionesCortadas(a)' = ConexionesCortadas(a)
PROOF
  <1>1. \A x \in Hijos : Viva(x)' <=> Viva(x)
    BY DEF Viva
  <1>2. Abandonados(a)' = Abandonados(a)
    BY <1>1 DEF Abandonados
  <1> QED
    BY <1>2 DEF ConexionesCortadas

(* A robot that goes has its connection cut, and may leave a child behind. *)
LEMMA CortesAlDesconectar ==
  ASSUME Conexiones, NEW c \in Clientes, Desconectar(c),
         hijo[HijoDe(c)].pc = "recibir" \/ (EsRobot(c) /\ hijo[HijoDe(c)].pc = "servir"),
         NEW a \in Aeropuertos
  PROVE  IF Robot(a) = c
         THEN /\ ConexionesCortadas(a)' = ConexionesCortadas(a) + 1
              /\ \E h : /\ Abandonados(a)' \subseteq Abandonados(a) \cup {h}
                        /\ hijo[HijoDe(c)].pc = "recibir" => Abandonados(a)' \subseteq Abandonados(a)
         ELSE Abandonados(a)' = Abandonados(a) /\ ConexionesCortadas(a)' = ConexionesCortadas(a)
PROOF
  <1>1. PICK h \in Hijos : h = HijoDe(c)
    BY AlDesconectar
  <1>2. /\ conectado[c] /\ ~ conectado'[c] /\ UNCHANGED vida
        /\ \A x \in Clientes \ {c} : conectado'[x] = conectado[x]
        /\ hijo'[h].pc = IF hijo[h].pc = "recibir" THEN "fin" ELSE "servir"
        /\ \A x \in Hijos \ {h} : hijo'[x] = hijo[x] /\ (Viva(x)' <=> Viva(x))
        /\ Viva(h) /\ h[1] = c
    BY <1>1, AlDesconectar DEF HijoDe
  <1>3. Robot(a) \in Clientes /\ vida[Robot(a)] \in Nat
    BY ProcesosDistintos, SonHijos DEF Conexiones, TiposBroker
  <1>4. CASE Robot(a) = c
    <2>1. ConexionesCortadas(a)' = ConexionesCortadas(a) + 1
      BY <1>2, <1>3, <1>4 DEF ConexionesCortadas
    <2>2. Abandonados(a)' \subseteq Abandonados(a) \cup {h}
      BY <1>2 DEF Abandonados
    <2>3. ASSUME hijo[h].pc = "recibir" PROVE Abandonados(a)' \subseteq Abandonados(a)
      BY <1>2, <2>3 DEF Abandonados
    <2> QED
      BY <1>1, <1>4, <2>1, <2>2, <2>3
  <1>5. CASE Robot(a) # c
    <2>1. ConexionesCortadas(a)' = ConexionesCortadas(a)
      BY <1>2, <1>3, <1>5 DEF ConexionesCortadas
    <2>2. Abandonados(a)' = Abandonados(a)
      BY <1>2, <1>5 DEF Abandonados
    <2> QED
      BY <1>5, <2>1, <2>2
  <1> QED
    BY <1>4, <1>5

(* A child that was left behind ends with its answer. *)
LEMMA CortesAlResponder ==
  ASSUME Conexiones, NEW h \in Hijos, NEW r, Responder(h, r), hijo[h].pc \in {"servir", "crear"},
         NEW a \in Aeropuertos
  PROVE  /\ ConexionesCortadas(a)' = ConexionesCortadas(a)
         /\ Abandonados(a)' \subseteq Abandonados(a)
         /\ Viva(h) \/ h[1] # Robot(a) => Abandonados(a)' = Abandonados(a)
         /\ ~ Viva(h) /\ h[1] = Robot(a) =>
              \E x \in Abandonados(a) : Abandonados(a)' \subseteq Abandonados(a) \ {x}
PROOF
  <1>1. /\ UNCHANGED <<vida, conectado>>
        /\ hijo'[h].pc = IF Viva(h) THEN "recibir" ELSE "fin"
        /\ \A x \in Hijos \ {h} : hijo'[x] = hijo[x]
        /\ \A x \in Hijos : Viva(x)' <=> Viva(x)
    BY AlResponder
  <1>2. ConexionesCortadas(a)' = ConexionesCortadas(a)
    BY <1>1 DEF ConexionesCortadas
  <1>3. /\ Abandonados(a)' \subseteq Abandonados(a)
        /\ Viva(h) \/ h[1] # Robot(a) => Abandonados(a)' = Abandonados(a)
    BY <1>1 DEF Abandonados
  <1>4. ASSUME ~ Viva(h), h[1] = Robot(a)
        PROVE  h \in Abandonados(a) /\ Abandonados(a)' \subseteq Abandonados(a) \ {h}
    <2>1. DeHijo(h) /\ h[2] \in Nat /\ vida[h[1]] \in Nat
      BY SonHijos DEF Conexiones, TiposBroker
    <2>2. SinHijo.pc = "sin_conexion"
      BY DEF SinHijo
    <2>3. hijo[h].pc = "servir"
      BY <1>4, <2>1, <2>2 DEF DeHijo
    <2> QED
      BY <1>1, <1>4, <2>3 DEF Abandonados
  <1> QED
    BY <1>2, <1>3, <1>4

-----------------------------------------------------------------------------
(* The steps of the processes *)

(* What any call of a process, or the end of one, leaves as it is.  The    *)
(* launcher takes no step once it is done.                                 *)
LEMMA PasoDeProceso ==
  ASSUME InvTrasbordo, NEW c \in Procesos, NEW s \in Estados, s # "sin_lanzar",
         pc' = [pc EXCEPT ![c] = s], Llegados \subseteq Llegados',
         c = Lanzador => ~ Lanzado,
         \/ \E r \in Pedidos : Conectar(c, r)
         \/ \E r \in Pedidos : Pedir(c, r)
         \/ Recibir(c)
         \/ /\ Desconectar(c)
            /\ hijo[HijoDe(c)].pc = "recibir" \/ (EsRobot(c) /\ hijo[HijoDe(c)].pc = "servir")
  PROVE  /\ Conexiones' /\ Tabla' /\ UnaVez' /\ EnCola' = EnCola
         /\ VuelosLanzados \subseteq VuelosLanzados'
         /\ UNCHANGED <<proj_id_to_queue_id, ipc>>
         /\ Lanzado => Lanzado'
         /\ c # Lanzador => Lanzamiento'
         /\ pc' \in [Procesos -> Estados] /\ pc'[c] = s
         /\ \A x \in Procesos \ {c} : Quieto(x)
         /\ \A x \in Procesos : SinConexion(x)'
         /\ c # Generador => (~ En(Generador, "sin_lanzar") => Lanzado)'
         /\ \A d \in Destinos : (/\ c # Controlador(d)
                                 /\ id_aeropuerto'[d] = id_aeropuerto[d]
                                 /\ enviando'[d] = enviando[d]) => EtapaControlador(d)'
         /\ \A a \in Aeropuertos : c # Robot(a) => EtapaRobot(a)'
PROOF
  <1>1. /\ Conexiones /\ Legales /\ Tabla /\ Lanzamiento /\ Etapas /\ UnaVez
        /\ pc \in [Procesos -> Estados] /\ c \in Clientes /\ Lanzador \in Procesos
        /\ Generador \in Procesos
    BY SonHijos, ProcesosDistintos DEF InvTrasbordo, Etapas
  <1>2. /\ Conexiones' /\ UNCHANGED <<proj_id_to_queue_id, ipc>>
        /\ \A x \in Hijos : hijo'[x].pc = "crear" => hijo'[x] = hijo[x]
    <2>1. CASE \E r \in Pedidos : Conectar(c, r)
      <3>1. PICK r \in Pedidos : Conectar(c, r)
        BY <2>1
      <3>2. /\ Conexiones'
            /\ \E h \in Hijos : /\ hijo'[h].pc = "servir"
                                /\ \A x \in Hijos \ {h} : hijo'[x] = hijo[x]
        BY <1>1, <3>1, AlConectar
      <3> QED
        BY <3>1, <3>2 DEF Conectar
    <2>2. CASE \E r \in Pedidos : Pedir(c, r)
      <3>1. PICK r \in Pedidos : Pedir(c, r)
        BY <2>2
      <3>2. /\ Conexiones' /\ hijo'[HijoDe(c)].pc = "servir"
            /\ \A x \in Hijos \ {HijoDe(c)} : hijo'[x] = hijo[x]
        BY <1>1, <3>1, AlPedir
      <3> QED
        BY <3>1, <3>2 DEF Pedir
    <2>3. CASE Recibir(c)
      BY <1>1, <2>3, AlRecibir DEF Recibir, broker
    <2>4. CASE /\ Desconectar(c)
               /\ hijo[HijoDe(c)].pc = "recibir" \/ (EsRobot(c) /\ hijo[HijoDe(c)].pc = "servir")
      <3>1. /\ Conexiones'
            /\ hijo'[HijoDe(c)].pc = IF hijo[HijoDe(c)].pc = "recibir" THEN "fin" ELSE "servir"
            /\ \A x \in Hijos \ {HijoDe(c)} : hijo'[x] = hijo[x]
        BY <1>1, <2>4, AlDesconectar
      <3> QED
        BY <2>4, <3>1 DEF Desconectar
    <2> QED
      BY <2>1, <2>2, <2>3, <2>4
  <1>3. VuelosLanzados \subseteq VuelosLanzados'
    BY <1>1, OtrosLegales
  <1>4. \A x \in Procesos \ {c} : Quieto(x)
    BY <1>1, LosDemasQuietos
  <1>5. Tabla'
    BY <1>1, <1>2, <1>3, TablaIgual
  <1>6. EnCola' = EnCola /\ UnaVez'
    BY <1>1, <1>2, <1>5, ColaIgual
  <1>7. c # Lanzador => Lanzamiento' /\ (Lanzado => Lanzado')
    <2>1. LugaresDe(ColaIntercargo)' = LugaresDe(ColaIntercargo) /\ DOMAIN ipc \subseteq DOMAIN ipc'
      BY <1>2 DEF LugaresDe
    <2> QED
      BY <1>1, <1>4, <2>1, LanzadorQuieto
  <1>8. Lanzado => Lanzado'
    BY <1>7
  <1>9. pc' \in [Procesos -> Estados] /\ pc'[c] = s
    BY <1>1
  <1>10. \A x \in Procesos : SinConexion(x)'
    <2>1. ASSUME NEW x \in Procesos PROVE SinConexion(x)'
      <3>1. CASE x = c
        BY <3>1, <1>9 DEF SinConexion, En
      <3>2. CASE x # c
        BY <3>2, <1>1, <1>3, <1>4, <1>8, EtapasQuietas DEF Etapas
      <3> QED
        BY <3>1, <3>2
    <2> QED
      BY <2>1
  <1>11. c # Generador => (~ En(Generador, "sin_lanzar") => Lanzado)'
    BY <1>1, <1>3, <1>4, <1>8, EtapasQuietas DEF Etapas
  <1>12. \A d \in Destinos : (/\ c # Controlador(d)
                              /\ id_aeropuerto'[d] = id_aeropuerto[d]
                              /\ enviando'[d] = enviando[d]) => EtapaControlador(d)'
    BY <1>1, <1>3, <1>4, <1>8, EtapasQuietas, ProcesosDistintos DEF Etapas
  <1>13. \A a \in Aeropuertos : c # Robot(a) => EtapaRobot(a)'
    BY <1>1, <1>3, <1>4, <1>8, EtapasQuietas, ProcesosDistintos DEF Etapas
  <1> QED
    BY <1>2, <1>3, <1>4, <1>5, <1>6, <1>7, <1>8, <1>9, <1>10, <1>11, <1>12, <1>13

(* A call that sends no bag moves none. *)
LEMMA LlamadaSinEquipaje ==
  ASSUME InvTrasbordo, NEW c \in Procesos, NEW r \in Pedidos,
         r.que # "push" \/ r.cola # ColaIntercargo, Conectar(c, r) \/ Pedir(c, r)
  PROVE  /\ Enviandose' = Enviandose /\ Entregados' = Entregados
         /\ \A a \in Aeropuertos : /\ Abandonados(a)' = Abandonados(a)
                                   /\ ConexionesCortadas(a)' = ConexionesCortadas(a)
PROOF
  <1>1. Conexiones /\ Legales /\ c \in Clientes
    BY SonHijos DEF InvTrasbordo
  <1>2. \A a \in Aeropuertos : Robot(a) \in Clientes
    BY SonHijos, ProcesosDistintos
  <1>3. \A m \in {Nada, Bien} : m.que # "msg"
    BY Registros
  <1>4. CASE Conectar(c, r)
    <2>1. PICK h \in Hijos : /\ hijo[h] = SinHijo /\ hijo'[h].pedido = r
                             /\ \A x \in Hijos \ {h} : hijo'[x] = hijo[x]
      BY <1>1, <1>4, AlConectar
    <2>2. SinHijo.pc = "sin_conexion"
      BY DEF SinHijo
    <2>3. ~ EnviaAlgo(h) /\ ~ EnviaAlgo(h)'
      BY <2>1, <2>2 DEF EnviaAlgo, Sirve
    <2>4. Enviandose' = Enviandose
      BY <2>1, <2>3, EnviandoseIgual
    <2>5. respuesta' = respuesta
      BY <1>1, <1>4, AlConectar
    <2>6. Entregados' = Entregados
      BY <2>5, EntregadosIgual
    <2> QED
      BY <1>1, <1>4, <2>4, <2>6, CortesAlConectar
  <1>5. CASE Pedir(c, r)
    <2>1. /\ UNCHANGED <<vida, conectado>>
          /\ respuesta[c] \in {Nada, Bien} /\ respuesta'[c] = Nada
          /\ \A x \in Clientes \ {c} : respuesta'[x] = respuesta[x]
          /\ HijoDe(c) \in Hijos /\ Viva(HijoDe(c))
          /\ hijo[HijoDe(c)].pc = "recibir" /\ hijo'[HijoDe(c)].pedido = r
          /\ \A x \in Hijos \ {HijoDe(c)} : hijo'[x] = hijo[x]
      BY <1>1, <1>5, AlPedir
    <2>2. PICK h \in Hijos : h = HijoDe(c)
      BY <2>1
    <2>3. ~ EnviaAlgo(h) /\ ~ EnviaAlgo(h)'
      BY <2>1, <2>2 DEF EnviaAlgo, Sirve
    <2>4. Enviandose' = Enviandose
      BY <2>1, <2>2, <2>3, EnviandoseIgual
    <2>5. Entregados' = Entregados
      BY <1>2, <1>3, <2>1, EntregadosIgual
    <2> QED
      BY <2>1, <2>2, <2>4, <2>5, SinCortes
  <1> QED
    BY <1>4, <1>5

(* Neither does the use of an answer by a process that is not a robot. *)
LEMMA UsoSinEquipaje ==
  ASSUME InvTrasbordo, NEW c \in Procesos, ~ EsRobot(c), Recibir(c)
  PROVE  /\ Enviandose' = Enviandose /\ Entregados' = Entregados
         /\ \A a \in Aeropuertos : /\ Abandonados(a)' = Abandonados(a)
                                   /\ ConexionesCortadas(a)' = ConexionesCortadas(a)
PROOF
  <1>1. Conexiones /\ c \in Clientes
    BY SonHijos DEF InvTrasbordo
  <1>2. \A a \in Aeropuertos : Robot(a) \in Clientes /\ Robot(a) # c
    BY SonHijos, ProcesosDistintos DEF EsRobot
  <1>3. /\ UNCHANGED <<vida, conectado, hijo>>
        /\ \A x \in Clientes \ {c} : respuesta'[x] = respuesta[x]
    BY <1>1, AlRecibir
  <1>4. Enviandose' = Enviandose
    BY <1>3, EnviandoseIgual
  <1>5. Entregados' = Entregados
    BY <1>2, <1>3, EntregadosIgual
  <1> QED
    BY <1>3, <1>4, <1>5, SinCortes

(* Nobody who goes is sending a bag. *)
LEMMA CorteSinEnvio ==
  ASSUME InvTrasbordo, NEW c \in Procesos, Desconectar(c),
         hijo[HijoDe(c)].pc = "recibir" \/ (EsRobot(c) /\ hijo[HijoDe(c)].pc = "servir")
  PROVE  Enviandose' = Enviandose
PROOF
  <1>1. Conexiones /\ Legales /\ c \in Clientes
    BY SonHijos DEF InvTrasbordo
  <1>2. PICK h \in Hijos : h = HijoDe(c)
    BY <1>1, AlDesconectar
  <1>3. /\ hijo'[h].pc = IF hijo[h].pc = "recibir" THEN "fin" ELSE "servir"
        /\ hijo'[h].pedido = hijo[h].pedido
        /\ \A x \in Hijos \ {h} : hijo'[x] = hijo[x]
    BY <1>1, <1>2, AlDesconectar
  <1>4. h[1] = c
    BY <1>2 DEF HijoDe
  <1>5. ~ EnviaAlgo(h) /\ ~ EnviaAlgo(h)'
    <2>1. CASE hijo[h].pc = "recibir"
      BY <1>3, <2>1 DEF EnviaAlgo, Sirve
    <2>2. CASE EsRobot(c) /\ hijo[h].pc = "servir"
      <3>1. PICK q : q = hijo[h].pedido
        OBVIOUS
      <3>2. PedidoLegal(c, q)
        BY <1>1, <1>4, <2>2, <3>1 DEF Legales, HijoLegal
      <3>3. q.que = "pull"
        BY <2>2, <3>2, RobotLegal, Registros
      <3> QED
        BY <1>3, <3>1, <3>3 DEF EnviaAlgo, Sirve
    <2> QED
      BY <1>2, <2>1, <2>2
  <1> QED
    BY <1>3, <1>5, EnviandoseIgual

(* The invariants about bags, after a step that moves none. *)
LEMMA NingunEquipaje ==
  ASSUME InvTrasbordo, Conexiones', VuelosLanzados \subseteq VuelosLanzados',
         Llegados \subseteq Llegados', UNCHANGED cinta,
         SinEnviar' = SinEnviar, Enviandose' = Enviandose, EnCola' = EnCola,
         Entregados' = Entregados,
         \A a \in Aeropuertos : /\ Abandonados(a)' \subseteq Abandonados(a)
                                /\ ConexionesCortadas(a)' = ConexionesCortadas(a)
  PROVE  EnUnLugar' /\ EnSuAeropuerto' /\ Perdidas'
PROOF
  <1>1. EnCinta' = EnCinta
    BY DEF EnCinta
  <1>2. EnUnLugar' /\ Perdidos' = Perdidos
    BY <1>1, NadaSeMueve DEF InvTrasbordo
  <1>3. EnSuAeropuerto'
    <2>1. EnSuAeropuerto /\ Cargas
      BY DEF InvTrasbordo
    <2>2. \A v \in Vuelos : ~ En(Vuelo(v), "sin_lanzar") => ~ En(Vuelo(v), "sin_lanzar")'
      BY DEF VuelosLanzados
    <2>3. \A a \in Aeropuertos : ToSet(cinta[a]) \subseteq EquipajesIntercargo
      BY <2>1 DEF Cargas, ToSet
    <2>4. \A e \in EquipajesIntercargo : DestinoDe[e] \in Vuelos
      BY SuposicionTrasbordo
    <2> QED
      BY <2>1, <2>2, <2>3, <2>4 DEF EnSuAeropuerto
  <1>4. Perdidas'
    <2>1. ASSUME NEW a \in Aeropuertos PROVE CuentaPerdidas(a)'
      <3>1. PerdidosDe(a)' = PerdidosDe(a)
        BY <1>2 DEF PerdidosDe
      <3>2. Conexiones /\ CuentaPerdidas(a)
        BY DEF InvTrasbordo, Perdidas
      <3> QED
        BY <3>1, <3>2, CuentaDePerdidas
    <2> QED
      BY <2>1 DEF Perdidas
  <1> QED
    BY <1>2, <1>3, <1>4

-----------------------------------------------------------------------------
(* Calls that send no bag *)

(* A step that leaves alone what the processes keep. *)
LEMMA DatosIguales ==
  ASSUME Cargas, UNCHANGED datos
  PROVE  /\ Cargas' /\ Llegados' = Llegados /\ SinEnviar' = SinEnviar /\ EnCinta' = EnCinta
         /\ UNCHANGED <<equipajes_a_cargar, enviando, id_aeropuerto, cinta>>
PROOF
  BY DEF Cargas, Llegados, SinEnviar, EnCinta, datos, generador, controlador

(* What is left to see of such a call is what concerns its process. *)
LEMMA Llamada ==
  ASSUME InvTrasbordo, NEW c \in Procesos, NEW s \in Estados, s # "sin_lanzar",
         pc' = [pc EXCEPT ![c] = s], Cargas', Llegados' = Llegados,
         UNCHANGED <<equipajes_a_cargar, enviando, id_aeropuerto, cinta>>,
         c = Lanzador => ~ Lanzado,
         NEW r \in Pedidos, r.que # "push" \/ r.cola # ColaIntercargo,
         Conectar(c, r) \/ Pedir(c, r),
         PedidoLegal(c, r)',
         c = Lanzador => Lanzamiento',
         c = Generador => Lanzado,
         \A d \in Destinos : c = Controlador(d) => EtapaControlador(d)',
         \A a \in Aeropuertos : c = Robot(a) => EtapaRobot(a)'
  PROVE  InvTrasbordo'
PROOF
  <1>1. /\ Conexiones' /\ Tabla' /\ UnaVez' /\ EnCola' = EnCola
        /\ VuelosLanzados \subseteq VuelosLanzados'
        /\ Lanzado => Lanzado'
        /\ c # Lanzador => Lanzamiento'
        /\ pc' \in [Procesos -> Estados]
        /\ \A x \in Procesos : SinConexion(x)'
        /\ c # Generador => (~ En(Generador, "sin_lanzar") => Lanzado)'
        /\ \A d \in Destinos : (/\ c # Controlador(d)
                                /\ id_aeropuerto'[d] = id_aeropuerto[d]
                                /\ enviando'[d] = enviando[d]) => EtapaControlador(d)'
        /\ \A a \in Aeropuertos : c # Robot(a) => EtapaRobot(a)'
    BY PasoDeProceso
  <1>2. Lanzamiento'
    BY <1>1
  <1>3. Etapas'
    <2>1. (~ En(Generador, "sin_lanzar") => Lanzado)'
      BY <1>1
    <2>2. \A d \in Destinos : EtapaControlador(d)'
      BY <1>1
    <2>3. \A a \in Aeropuertos : EtapaRobot(a)'
      BY <1>1
    <2> QED
      BY <1>1, <2>1, <2>2, <2>3 DEF Etapas
  <1>4. Legales'
    <2>1. Conexiones /\ Legales /\ pc \in [Procesos -> Estados]
      BY DEF InvTrasbordo, Etapas
    <2> QED
      BY <2>1, LegalesAlConectar, LegalesAlPedir
  <1>5. SinEnviar' = SinEnviar
    BY DEF SinEnviar
  <1>6. EnUnLugar' /\ EnSuAeropuerto' /\ Perdidas'
    BY <1>1, <1>5, LlamadaSinEquipaje, NingunEquipaje
  <1> QED
    BY <1>1, <1>2, <1>3, <1>4, <1>6 DEF InvTrasbordo

(* Each process is one of its kind: the launcher is no other process... *)
LEMMA UnLanzador ==
  ASSUME NEW c, c = Lanzador
  PROVE  /\ c \in Procesos /\ c \in Clientes /\ c # Generador
         /\ \A d \in Destinos : c # Controlador(d)
         /\ \A a \in Aeropuertos : c # Robot(a)
PROOF
  BY ProcesosDistintos, SonHijos DEF Lanzador, Controlador, Robot

(* ... nor is the generator... *)
LEMMA UnGenerador ==
  ASSUME NEW c, c = Generador
  PROVE  /\ c \in Procesos /\ c \in Clientes /\ c # Lanzador
         /\ \A d \in Destinos : c # Controlador(d)
         /\ \A a \in Aeropuertos : c # Robot(a)
PROOF
  BY ProcesosDistintos, SonHijos DEF Generador, Controlador, Robot

(* ... a controller is that of one flight... *)
LEMMA UnControlador ==
  ASSUME NEW d \in Destinos, NEW c, c = Controlador(d)
  PROVE  /\ c \in Procesos /\ c \in Clientes /\ c # Lanzador /\ c # Generador
         /\ \A e \in Destinos : c = Controlador(e) => e = d
         /\ \A v \in Vuelos : c # Vuelo(v)
         /\ \A a \in Aeropuertos : c # Robot(a)
PROOF
  BY ProcesosDistintos, SonHijos DEF Controlador, Robot

(* ... a flight is no controller and no robot... *)
LEMMA UnVuelo ==
  ASSUME NEW v \in Vuelos, NEW c, c = Vuelo(v)
  PROVE  /\ c \in Procesos /\ c \in Clientes /\ c # Lanzador /\ c # Generador
         /\ \A d \in Destinos : c # Controlador(d)
         /\ \A a \in Aeropuertos : c # Robot(a)
PROOF
  BY ProcesosDistintos, SonHijos DEF Controlador, Robot, Vuelo

(* ... and a robot is that of one airport. *)
LEMMA UnRobot ==
  ASSUME NEW a \in Aeropuertos, NEW c, c = Robot(a)
  PROVE  /\ c \in Procesos /\ c \in Clientes /\ c # Lanzador /\ c # Generador
         /\ \A d \in Destinos : c # Controlador(d)
         /\ \A b \in Aeropuertos : c = Robot(b) => b = a
PROOF
  BY ProcesosDistintos, SonHijos DEF Controlador, Robot

(* The launcher of the broker asks for its two queues... *)
LEMMA InvLanzar ==
  ASSUME InvTrasbordo, Lanzar
  PROVE  InvTrasbordo'
PROOF
  <1>1. PICK s : s = "intercargo"
    OBVIOUS
  <1>2. PICK c : c = Lanzador
    OBVIOUS
  <1>3. /\ c \in Procesos /\ c \in Clientes /\ c # Generador
        /\ Conexiones /\ Lanzamiento /\ pc \in [Procesos -> Estados]
    BY <1>2, UnLanzador DEF InvTrasbordo, Etapas
  <1>4. /\ pc[c] = "sin_lanzar" /\ Conectar(c, Crear(ColaZonas))
        /\ pc' = [pc EXCEPT ![c] = s] /\ UNCHANGED datos
    BY <1>1, <1>2 DEF Lanzar, En, Pasa
  <1>5. s \in Estados /\ s # "sin_lanzar"
    BY <1>1 DEF Estados
  <1>6. PICK r \in Pedidos : r = Crear(ColaZonas) /\ r.que = "crear"
    BY NombresDeColas, Registros DEF Pedidos
  <1>7. Conectar(c, r)
    BY <1>4, <1>6
  <1>8. PedidoLegal(c, r)'
    BY <1>1, <1>2, <1>3, <1>4, <1>6 DEF PedidoLegal, PedidoLanzador, En
  <1>9. Lanzamiento'
    <2>1. pc'[c] = "intercargo"
      BY <1>1, <1>3, <1>4
    <2>2. conectado'[c]
      BY <1>3, <1>7, AlConectar
    <2>3. LugaresDe(ColaIntercargo)' = {}
      BY <1>2, <1>3, <1>4 DEF Lanzamiento, LugaresDe, Conectar
    <2> QED
      BY <1>2, <2>1, <2>2, <2>3 DEF Lanzamiento, En
  <1>10. ~ Lanzado
    BY <1>2, <1>4 DEF Lanzado, En
  <1>11. /\ \A d \in Destinos : c # Controlador(d)
        /\ \A a \in Aeropuertos : c # Robot(a)
    BY <1>2, UnLanzador
  <1>12. /\ Cargas' /\ Llegados' = Llegados
         /\ UNCHANGED <<equipajes_a_cargar, enviando, id_aeropuerto, cinta>>
    BY <1>4, DatosIguales DEF InvTrasbordo
  <1> QED
    BY <1>5, <1>3, <1>4, <1>6, <1>7, <1>8, <1>9, <1>10, <1>11, <1>12, Llamada

(* ... one after the other. *)
LEMMA InvCrearColaIntercargo ==
  ASSUME InvTrasbordo, CrearColaIntercargo
  PROVE  InvTrasbordo'
PROOF
  <1>1. PICK s : s = "listo"
    OBVIOUS
  <1>2. PICK c : c = Lanzador
    OBVIOUS
  <1>3. /\ c \in Procesos /\ c \in Clientes /\ c # Generador
        /\ Conexiones /\ Lanzamiento /\ pc \in [Procesos -> Estados]
    BY <1>2, UnLanzador DEF InvTrasbordo, Etapas
  <1>4. /\ pc[c] = "intercargo" /\ Pedir(c, Crear(ColaIntercargo))
        /\ pc' = [pc EXCEPT ![c] = s] /\ UNCHANGED datos
    BY <1>1, <1>2 DEF CrearColaIntercargo, Llamar, En, Pasa
  <1>5. s \in Estados /\ s # "sin_lanzar"
    BY <1>1 DEF Estados
  <1>6. PICK r \in Pedidos : r = Crear(ColaIntercargo) /\ r.que = "crear"
    BY NombresDeColas, Registros DEF Pedidos
  <1>7. Pedir(c, r)
    BY <1>4, <1>6
  <1>8. PedidoLegal(c, r)'
    BY <1>1, <1>2, <1>3, <1>4, <1>6 DEF PedidoLegal, PedidoLanzador, En
  <1>9. Lanzamiento'
    <2>1. pc'[c] = "listo"
      BY <1>1, <1>3, <1>4
    <2>2. /\ conectado[c] /\ UNCHANGED <<vida, conectado>>
          /\ hijo'[HijoDe(c)].pc = "servir"
      BY <1>3, <1>7, AlPedir
    <2>3. LugaresDe(ColaIntercargo)' = {}
      BY <1>2, <1>3, <1>4 DEF Lanzamiento, LugaresDe, Pedir
    <2>4. HijoDe(Lanzador)' = HijoDe(c)
      BY <1>2, <2>2 DEF HijoDe
    <2> QED
      BY <1>2, <2>1, <2>2, <2>3, <2>4 DEF Lanzamiento, En
  <1>10. ~ Lanzado
    BY <1>2, <1>4 DEF Lanzado, En
  <1>11. /\ \A d \in Destinos : c # Controlador(d)
        /\ \A a \in Aeropuertos : c # Robot(a)
    BY <1>2, UnLanzador
  <1>12. /\ Cargas' /\ Llegados' = Llegados
         /\ UNCHANGED <<equipajes_a_cargar, enviando, id_aeropuerto, cinta>>
    BY <1>4, DatosIguales DEF InvTrasbordo
  <1> QED
    BY <1>5, <1>3, <1>4, <1>6, <1>7, <1>8, <1>9, <1>10, <1>11, <1>12, Llamada

(* The generator starts... *)
LEMMA InvLanzarGenerador ==
  ASSUME InvTrasbordo, LanzarGenerador
  PROVE  InvTrasbordo'
PROOF
  <1>1. PICK s : s = "avisar"
    OBVIOUS
  <1>2. PICK c \in Procesos : c = Generador
    BY ProcesosDistintos
  <1>3. Cargas /\ c # Lanzador
    BY <1>2, ProcesosDistintos DEF InvTrasbordo
  <1>4. /\ Lanzado /\ Conectar(c, Crear(ColaEntrantes))
        /\ pc' = [pc EXCEPT ![c] = s] /\ UNCHANGED datos
    BY <1>1, <1>2 DEF LanzarGenerador, Pasa
  <1>5. s \in Estados /\ s # "sin_lanzar"
    BY <1>1 DEF Estados
  <1>6. PICK r \in Pedidos : r = Crear(ColaEntrantes) /\ r.que = "crear"
    BY NombresDeColas, Registros DEF Pedidos
  <1>7. Conectar(c, r)
    BY <1>4, <1>6
  <1>8. PedidoLegal(c, r)'
    BY <1>2, <1>6 DEF PedidoLegal, PedidoGenerador
  <1>9. /\ \A d \in Destinos : c # Controlador(d)
        /\ \A a \in Aeropuertos : c # Robot(a)
    BY <1>2 DEF Generador, Controlador, Robot
  <1>10. /\ Cargas' /\ Llegados' = Llegados
        /\ UNCHANGED <<equipajes_a_cargar, enviando, id_aeropuerto, cinta>>
    BY <1>3, <1>4, DatosIguales
  <1> QED
    BY <1>5, <1>3, <1>4, <1>6, <1>7, <1>8, <1>9, <1>10, Llamada

(* ... launches a controller the first time...  *)
LEMMA InvLanzarCargador ==
  ASSUME InvTrasbordo, NEW par \in Interconexion, LanzarCargador(par)
  PROVE  InvTrasbordo'
PROOF
  <1>1. PICK s : s = "espera_zona"
    OBVIOUS
  <1>2. PICK d \in Destinos : d = par[2]
    BY DEF Destinos
  <1>3. PICK c : c = Controlador(d) /\ d = par[2]
    BY <1>2
  <1>4. /\ c \in Procesos /\ c # Lanzador /\ c # Generador
        /\ \A e \in Destinos : c = Controlador(e) => e = d
        /\ \A a \in Aeropuertos : c # Robot(a)
        /\ Etapas /\ pc \in [Procesos -> Estados]
    BY <1>3, UnControlador DEF InvTrasbordo, Etapas
  <1>5. /\ ~ En(Generador, "sin_lanzar") /\ En(c, "sin_lanzar")
        /\ Conectar(c, Sacar(ColaZonas, d))
        /\ pc' = [pc EXCEPT ![c] = s] /\ UNCHANGED datos
    BY <1>1, <1>3 DEF LanzarCargador, Pasa, En
  <1>6. s \in Estados /\ s # "sin_lanzar"
    BY <1>1 DEF Estados
  <1>7. d \in Nat
    BY SuposicionTrasbordo
  <1>8. PICK r \in Pedidos : r = Sacar(ColaZonas, d) /\ r.que = "pull"
    BY <1>7, NombresDeColas, Registros DEF Pedidos
  <1>9. Conectar(c, r) /\ pc'[c] = "espera_zona"
    BY <1>1, <1>4, <1>5, <1>8
  <1>10. PedidoLegal(c, r)'
    BY <1>3, <1>8, <1>9 DEF PedidoLegal, PedidoControlador, En
  <1>11. /\ Cargas' /\ Llegados' = Llegados
        /\ UNCHANGED <<equipajes_a_cargar, enviando, id_aeropuerto, cinta>>
    BY <1>5, DatosIguales DEF InvTrasbordo
  <1>12. Lanzado'
    <2>1. Lanzado
      BY <1>4, <1>5 DEF Etapas
    <2>2. Llegados \subseteq Llegados'
      BY <1>11
    <2> QED
      BY <1>4, <1>5, <1>8, <1>9, <2>1, <2>2, <1>6, PasoDeProceso
  <1>13. EtapaControlador(d)'
    <2>1. enviando'[d] = {}
      BY <1>3, <1>4, <1>5, <1>11 DEF Etapas, EtapaControlador, En
    <2> QED
      BY <1>3, <1>9, <1>12, <2>1 DEF EtapaControlador, En
  <1>14. \A e \in Destinos : c = Controlador(e) => EtapaControlador(e)'
    BY <1>4, <1>13
  <1> QED
    BY <1>6, <1>4, <1>5, <1>8, <1>9, <1>10, <1>11, <1>14, Llamada

(* ... and tells it of a flight every time. *)
LEMMA InvInformar ==
  ASSUME InvTrasbordo, NEW par \in Interconexion, Informar(par)
  PROVE  InvTrasbordo'
PROOF
  <1>1. PICK s : s = "avisar"
    OBVIOUS
  <1>2. PICK d \in Destinos : d = par[2]
    BY DEF Destinos
  <1>3. PICK f, c : d = par[2] /\ f = par[1] /\ c = Generador
    BY <1>2
  <1>4. /\ Cargas /\ Etapas /\ c \in Procesos /\ c # Lanzador
        /\ \A e \in Destinos : c # Controlador(e)
        /\ \A a \in Aeropuertos : c # Robot(a)
    BY <1>3, UnGenerador DEF InvTrasbordo
  <1>5. /\ par \in por_avisar /\ En(c, "avisar")
        /\ Pedir(c, Poner(ColaEntrantes, Entrante(d, f)))
        /\ pc' = [pc EXCEPT ![c] = s]
        /\ por_avisar' = por_avisar \ {par}
        /\ UNCHANGED <<arribos, vuelos_interconexion, controlador, cinta>>
    BY <1>1, <1>3 DEF Informar, Llamar, Pasa, Entrante
  <1>6. s \in Estados /\ s # "sin_lanzar"
    BY <1>1 DEF Estados
  <1>7. /\ UNCHANGED <<equipajes_a_cargar, enviando, id_aeropuerto, cinta>>
        /\ Llegados' = Llegados
    BY <1>5 DEF controlador, Llegados
  <1>8. Cargas'
    BY <1>4, <1>5, <1>7 DEF Cargas
  <1>9. f \in Llegados /\ f \in Nat
    <2>1. f \in Llegados
      BY <1>3, <1>4, <1>5 DEF Cargas
    <2>2. \A i \in 1..Len(Arribos) : Arribos[i] \in Nat
      BY SuposicionTrasbordo
    <2> QED
      BY <1>4, <2>1, <2>2, SuposicionTrasbordo DEF Llegados, Cargas
  <1>10. PICK r \in Pedidos : /\ r = Poner(ColaEntrantes, Entrante(d, f))
                             /\ r.cola # ColaIntercargo
    BY <1>9, NombresDeColas, Registros DEF Pedidos, Mensajes
  <1>11. PedidoLegal(c, r)'
    <2>1. Entrante(d, f) \in MensajesDe(ColaEntrantes)'
      BY <1>7, <1>9 DEF MensajesDe, ColaZonas, ColaEntrantes
    <2> QED
      BY <1>3, <1>10, <2>1 DEF PedidoLegal, PedidoGenerador
  <1>12. Lanzado
    BY <1>3, <1>4, <1>5 DEF Etapas, En
  <1>13. Pedir(c, r)
    BY <1>5, <1>10
  <1> QED
    BY <1>6, <1>4, <1>5, <1>7, <1>8, <1>10, <1>11, <1>12, <1>13, Llamada

(* A flight says which zone it has got. *)
LEMMA InvZonaAsignada ==
  ASSUME InvTrasbordo, NEW v \in Vuelos, ZonaAsignada(v)
  PROVE  InvTrasbordo'
PROOF
  <1>1. PICK s : s = "fin"
    OBVIOUS
  <1>2. PICK c : c = Vuelo(v)
    OBVIOUS
  <1>3. /\ c \in Procesos /\ c # Lanzador /\ c # Generador
        /\ \A d \in Destinos : c # Controlador(d)
        /\ \A a \in Aeropuertos : c # Robot(a)
        /\ pc \in [Procesos -> Estados]
    BY <1>2, UnVuelo DEF InvTrasbordo, Etapas
  <1>4. /\ Conectar(c, Poner(ColaZonas, Zona(v)))
        /\ pc' = [pc EXCEPT ![c] = s] /\ UNCHANGED datos
    BY <1>1, <1>2 DEF ZonaAsignada, Pasa, Zona
  <1>5. s \in Estados /\ s # "sin_lanzar"
    BY <1>1 DEF Estados
  <1>6. PICK r \in Pedidos : r = Poner(ColaZonas, Zona(v)) /\ r.cola # ColaIntercargo
    BY NombresDeColas, Registros DEF Pedidos, Mensajes
  <1>7. Conectar(c, r) /\ pc'[c] = "fin"
    BY <1>1, <1>3, <1>4, <1>6
  <1>8. PedidoLegal(c, r)'
    BY <1>2, <1>6, <1>7 DEF PedidoLegal, PedidoVuelo, VuelosLanzados, En
  <1>9. /\ Cargas' /\ Llegados' = Llegados
        /\ UNCHANGED <<equipajes_a_cargar, enviando, id_aeropuerto, cinta>>
    BY <1>4, DatosIguales DEF InvTrasbordo
  <1> QED
    BY <1>5, <1>3, <1>4, <1>6, <1>7, <1>8, <1>9, Llamada

(* A controller waits for the next flight that comes in. *)
LEMMA InvPedirEntrante ==
  ASSUME InvTrasbordo, NEW d \in Destinos, PedirEntrante(d)
  PROVE  InvTrasbordo'
PROOF
  <1>1. PICK s : s = "espera"
    OBVIOUS
  <1>2. PICK c : c = Controlador(d)
    OBVIOUS
  <1>3. /\ c \in Procesos /\ c # Lanzador /\ c # Generador
        /\ \A e \in Destinos : c = Controlador(e) => e = d
        /\ \A a \in Aeropuertos : c # Robot(a)
        /\ Etapas /\ pc \in [Procesos -> Estados]
    BY <1>2, UnControlador DEF InvTrasbordo, Etapas
  <1>4. /\ pc[c] = "enviar" /\ enviando[d] = {}
        /\ Pedir(c, Sacar(ColaEntrantes, d))
        /\ pc' = [pc EXCEPT ![c] = s] /\ UNCHANGED datos
    BY <1>1, <1>2 DEF PedirEntrante, Llamar, Pasa, En
  <1>5. s \in Estados /\ s # "sin_lanzar"
    BY <1>1 DEF Estados
  <1>6. d \in Nat
    BY SuposicionTrasbordo
  <1>7. PICK r \in Pedidos : r = Sacar(ColaEntrantes, d) /\ r.que = "pull"
    BY <1>6, NombresDeColas, Registros DEF Pedidos
  <1>8. Pedir(c, r) /\ pc'[c] = "espera"
    BY <1>1, <1>3, <1>4, <1>7
  <1>9. PedidoLegal(c, r)'
    BY <1>2, <1>7, <1>8 DEF PedidoLegal, PedidoControlador, En
  <1>10. /\ Cargas' /\ Llegados' = Llegados
        /\ UNCHANGED <<equipajes_a_cargar, enviando, id_aeropuerto, cinta>>
    BY <1>4, DatosIguales DEF InvTrasbordo
  <1>11. EtapaControlador(d)
    BY <1>3 DEF Etapas
  <1>12. Lanzado' /\ VuelosLanzados \subseteq VuelosLanzados'
    <2>1. Lanzado /\ Llegados \subseteq Llegados'
      BY <1>2, <1>4, <1>10, <1>11 DEF EtapaControlador, En
    <2> QED
      BY <1>3, <1>4, <1>7, <1>8, <2>1, <1>5, PasoDeProceso
  <1>13. EtapaControlador(d)'
    BY <1>2, <1>4, <1>8, <1>10, <1>11, <1>12 DEF EtapaControlador, En
  <1>14. \A e \in Destinos : c = Controlador(e) => EtapaControlador(e)'
    BY <1>3, <1>13
  <1> QED
    BY <1>5, <1>3, <1>4, <1>7, <1>8, <1>9, <1>10, <1>14, Llamada

(* A robot starts, or starts again... *)
LEMMA InvLanzarRobot ==
  ASSUME InvTrasbordo, NEW a \in Aeropuertos, LanzarRobot(a)
  PROVE  InvTrasbordo'
PROOF
  <1>1. PICK s : s = "espera"
    OBVIOUS
  <1>2. PICK c : c = Robot(a)
    OBVIOUS
  <1>3. /\ c \in Procesos /\ c \in Clientes /\ c # Lanzador /\ c # Generador
        /\ \A d \in Destinos : c # Controlador(d)
        /\ \A b \in Aeropuertos : c = Robot(b) => b = a
        /\ Conexiones /\ pc \in [Procesos -> Estados]
    BY <1>2, UnRobot DEF InvTrasbordo, Etapas
  <1>4. /\ Conectar(c, Sacar(ColaIntercargo, a))
        /\ pc' = [pc EXCEPT ![c] = s] /\ UNCHANGED datos
    BY <1>1, <1>2 DEF LanzarRobot, Pasa
  <1>5. s \in Estados /\ s # "sin_lanzar"
    BY <1>1 DEF Estados
  <1>6. a \in Nat
    BY SuposicionTrasbordo
  <1>7. PICK r \in Pedidos : r = Sacar(ColaIntercargo, a) /\ r.que = "pull"
    BY <1>6, NombresDeColas, Registros DEF Pedidos
  <1>8. Conectar(c, r)
    BY <1>4, <1>7
  <1>9. pc'[c] = "espera" /\ conectado'[c]
    BY <1>1, <1>3, <1>4, <1>8, AlConectar
  <1>10. PedidoLegal(c, r)'
    BY <1>2, <1>7 DEF PedidoLegal
  <1>11. EtapaRobot(a)'
    BY <1>2, <1>9 DEF EtapaRobot, En
  <1>12. \A b \in Aeropuertos : c = Robot(b) => EtapaRobot(b)'
    BY <1>3, <1>11
  <1>13. /\ Cargas' /\ Llegados' = Llegados
         /\ UNCHANGED <<equipajes_a_cargar, enviando, id_aeropuerto, cinta>>
    BY <1>4, DatosIguales DEF InvTrasbordo
  <1> QED
    BY <1>5, <1>3, <1>4, <1>7, <1>8, <1>10, <1>12, <1>13, Llamada

(* ... and asks for one bag after the other. *)
LEMMA InvPedirEquipaje ==
  ASSUME InvTrasbordo, NEW a \in Aeropuertos, PedirEquipaje(a)
  PROVE  InvTrasbordo'
PROOF
  <1>1. PICK s : s = "espera"
    OBVIOUS
  <1>2. PICK c : c = Robot(a)
    OBVIOUS
  <1>3. /\ c \in Procesos /\ c \in Clientes /\ c # Lanzador /\ c # Generador
        /\ \A d \in Destinos : c # Controlador(d)
        /\ \A b \in Aeropuertos : c = Robot(b) => b = a
        /\ Conexiones /\ pc \in [Procesos -> Estados]
    BY <1>2, UnRobot DEF InvTrasbordo, Etapas
  <1>4. /\ Pedir(c, Sacar(ColaIntercargo, a))
        /\ pc' = [pc EXCEPT ![c] = s] /\ UNCHANGED datos
    BY <1>1, <1>2 DEF PedirEquipaje, Llamar, Pasa
  <1>5. s \in Estados /\ s # "sin_lanzar"
    BY <1>1 DEF Estados
  <1>6. a \in Nat
    BY SuposicionTrasbordo
  <1>7. PICK r \in Pedidos : r = Sacar(ColaIntercargo, a) /\ r.que = "pull"
    BY <1>6, NombresDeColas, Registros DEF Pedidos
  <1>8. Pedir(c, r)
    BY <1>4, <1>7
  <1>9. pc'[c] = "espera" /\ conectado'[c]
    BY <1>1, <1>3, <1>4, <1>8, AlPedir
  <1>10. PedidoLegal(c, r)'
    BY <1>2, <1>7 DEF PedidoLegal
  <1>11. EtapaRobot(a)'
    BY <1>2, <1>9 DEF EtapaRobot, En
  <1>12. \A b \in Aeropuertos : c = Robot(b) => EtapaRobot(b)'
    BY <1>3, <1>11
  <1>13. /\ Cargas' /\ Llegados' = Llegados
         /\ UNCHANGED <<equipajes_a_cargar, enviando, id_aeropuerto, cinta>>
    BY <1>4, DatosIguales DEF InvTrasbordo
  <1> QED
    BY <1>5, <1>3, <1>4, <1>7, <1>8, <1>10, <1>12, <1>13, Llamada

-----------------------------------------------------------------------------
(* Bags on the move *)

(* A bag that goes from one place to the next is in one place still... *)
LEMMA Movimiento ==
  ASSUME EnUnLugar, NEW e,
         \/ /\ e \in SinEnviar /\ SinEnviar' = SinEnviar \ {e}
            /\ Enviandose' = Enviandose \cup {e}
            /\ EnCola' = EnCola /\ Entregados' = Entregados /\ EnCinta' = EnCinta
         \/ /\ e \in Enviandose /\ Enviandose' = Enviandose \ {e}
            /\ EnCola' = EnCola \cup {e}
            /\ SinEnviar' = SinEnviar /\ Entregados' = Entregados /\ EnCinta' = EnCinta
         \/ /\ e \in EnCola /\ EnCola' = EnCola \ {e}
            /\ Entregados' = Entregados \cup {e}
            /\ SinEnviar' = SinEnviar /\ Enviandose' = Enviandose /\ EnCinta' = EnCinta
         \/ /\ e \in Entregados /\ Entregados' = Entregados \ {e}
            /\ EnCinta' = EnCinta \cup {e}
            /\ SinEnviar' = SinEnviar /\ Enviandose' = Enviandose /\ EnCola' = EnCola
  PROVE  EnUnLugar' /\ Perdidos' = Perdidos
PROOF
  <1>1. PICK A, B, C, D, F :
          A = SinEnviar /\ B = Enviandose /\ C = EnCola /\ D = Entregados /\ F = EnCinta
    OBVIOUS
  <1>2. PICK A1, B1, C1, D1, F1 :
          /\ A1 = SinEnviar' /\ B1 = Enviandose' /\ C1 = EnCola' /\ D1 = Entregados'
          /\ F1 = EnCinta'
    OBVIOUS
  <1>3. \/ e \in A /\ A1 = A \ {e} /\ B1 = B \cup {e} /\ C1 = C /\ D1 = D /\ F1 = F
        \/ e \in B /\ B1 = B \ {e} /\ C1 = C \cup {e} /\ A1 = A /\ D1 = D /\ F1 = F
        \/ e \in C /\ C1 = C \ {e} /\ D1 = D \cup {e} /\ A1 = A /\ B1 = B /\ F1 = F
        \/ e \in D /\ D1 = D \ {e} /\ F1 = F \cup {e} /\ A1 = A /\ B1 = B /\ C1 = C
    BY <1>1, <1>2
  <1>4. /\ A \cap B = {} /\ (A \cup B) \cap C = {} /\ (A \cup B \cup C) \cap D = {}
        /\ (A \cup B \cup C \cup D) \cap F = {}
    BY <1>1 DEF EnUnLugar
  <1>5. /\ A1 \cap B1 = {} /\ (A1 \cup B1) \cap C1 = {} /\ (A1 \cup B1 \cup C1) \cap D1 = {}
        /\ (A1 \cup B1 \cup C1 \cup D1) \cap F1 = {}
    BY <1>3, <1>4
  <1>6. A1 \cup B1 \cup C1 \cup D1 \cup F1 = A \cup B \cup C \cup D \cup F
    BY <1>3
  <1>7. EnUnLugar'
    BY <1>2, <1>5 DEF EnUnLugar
  <1>8. /\ Perdidos = EquipajesIntercargo \ (A \cup B \cup C \cup D \cup F)
        /\ Perdidos' = EquipajesIntercargo \ (A1 \cup B1 \cup C1 \cup D1 \cup F1)
    BY <1>1, <1>2, LosPerdidos DEF Encontrados
  <1> QED
    BY <1>6, <1>7, <1>8

(* ... and one that is lost on the way is the only one. *)
LEMMA Extravio ==
  ASSUME EnUnLugar, NEW e, SinEnviar' = SinEnviar, Enviandose' = Enviandose, EnCinta' = EnCinta,
         \/ EnCola' = EnCola \ {e} /\ Entregados' = Entregados
         \/ Entregados' = Entregados \ {e} /\ EnCola' = EnCola
  PROVE  /\ EnUnLugar'
         /\ \A a \in Aeropuertos :
              /\ PerdidosDe(a)' \subseteq PerdidosDe(a) \cup {e}
              /\ a # AeropuertoDe[DestinoDe[e]] => PerdidosDe(a)' \subseteq PerdidosDe(a)
PROOF
  <1>1. PICK A, B, C, D, F :
          A = SinEnviar /\ B = Enviandose /\ C = EnCola /\ D = Entregados /\ F = EnCinta
    OBVIOUS
  <1>2. PICK C1, D1 : C1 = EnCola' /\ D1 = Entregados'
    OBVIOUS
  <1>3. \/ C1 = C \ {e} /\ D1 = D
        \/ D1 = D \ {e} /\ C1 = C
    BY <1>1, <1>2
  <1>4. /\ A \cap B = {} /\ (A \cup B) \cap C = {} /\ (A \cup B \cup C) \cap D = {}
        /\ (A \cup B \cup C \cup D) \cap F = {}
    BY <1>1 DEF EnUnLugar
  <1>5. /\ A \cap B = {} /\ (A \cup B) \cap C1 = {} /\ (A \cup B \cup C1) \cap D1 = {}
        /\ (A \cup B \cup C1 \cup D1) \cap F = {}
    BY <1>3, <1>4
  <1>6. EnUnLugar'
    BY <1>1, <1>2, <1>5 DEF EnUnLugar
  <1>7. /\ Perdidos = EquipajesIntercargo \ (A \cup B \cup C \cup D \cup F)
        /\ Perdidos' = EquipajesIntercargo \ (A \cup B \cup C1 \cup D1 \cup F)
    BY <1>1, <1>2, LosPerdidos DEF Encontrados
  <1>8. Perdidos' \subseteq Perdidos \cup {e}
    BY <1>3, <1>7
  <1>9. \A a \in Aeropuertos :
           /\ PerdidosDe(a)' \subseteq PerdidosDe(a) \cup {e}
           /\ a # AeropuertoDe[DestinoDe[e]] => PerdidosDe(a)' \subseteq PerdidosDe(a)
    <2>1. PICK P, Q : P = Perdidos /\ Q = Perdidos'
      OBVIOUS
    <2>2. Q \subseteq P \cup {e}
      BY <1>8, <2>1
    <2>3. ASSUME NEW a \in Aeropuertos
          PROVE  /\ PerdidosDe(a) = {x \in P : AeropuertoDe[DestinoDe[x]] = a}
                 /\ PerdidosDe(a)' = {x \in Q : AeropuertoDe[DestinoDe[x]] = a}
      BY <2>1 DEF PerdidosDe
    <2> QED
      BY <2>2, <2>3
  <1> QED
    BY <1>6, <1>9

(* The belts keep what they have. *)
LEMMA CintaIgual ==
  ASSUME Cargas, EnSuAeropuerto, UNCHANGED cinta, VuelosLanzados \subseteq VuelosLanzados',
         Llegados \subseteq Llegados'
  PROVE  EnSuAeropuerto' /\ EnCinta' = EnCinta
PROOF
  <1>1. \A v \in Vuelos : ~ En(Vuelo(v), "sin_lanzar") => ~ En(Vuelo(v), "sin_lanzar")'
    BY DEF VuelosLanzados
  <1>2. \A a \in Aeropuertos : ToSet(cinta[a]) \subseteq EquipajesIntercargo
    BY DEF Cargas, ToSet
  <1>3. \A e \in EquipajesIntercargo : DestinoDe[e] \in Vuelos
    BY SuposicionTrasbordo
  <1> QED
    BY <1>1, <1>2, <1>3 DEF EnSuAeropuerto, EnCinta

(* While nothing is lost and nobody is cut, the account stands. *)
LEMMA PerdidasIguales ==
  ASSUME Conexiones, Conexiones', Perdidas, Perdidos' = Perdidos,
         \A a \in Aeropuertos : /\ Abandonados(a)' \subseteq Abandonados(a)
                                /\ ConexionesCortadas(a)' = ConexionesCortadas(a)
  PROVE  Perdidas'
PROOF
  <1>1. ASSUME NEW a \in Aeropuertos PROVE CuentaPerdidas(a)'
    <2>1. PerdidosDe(a)' = PerdidosDe(a)
      BY DEF PerdidosDe
    <2>2. CuentaPerdidas(a)
      BY DEF Perdidas
    <2> QED
      BY <2>1, <2>2, CuentaDePerdidas
  <1> QED
    BY <1>1 DEF Perdidas

-----------------------------------------------------------------------------
(* The other steps of the processes *)

(* A flight comes in. *)
LEMMA InvArribo ==
  ASSUME InvTrasbordo, Arribo
  PROVE  InvTrasbordo'
PROOF
  <1>1. /\ Cargas /\ Conexiones /\ Legales /\ Tabla /\ Lanzamiento /\ Etapas /\ EnUnLugar
        /\ UnaVez
    BY DEF InvTrasbordo
  <1>2. /\ arribos # <<>> /\ arribos' = Tail(arribos)
        /\ por_avisar' = {par \in vuelos_interconexion : par[1] = Head(arribos)}
        /\ vuelos_interconexion' = vuelos_interconexion \ por_avisar'
        /\ UNCHANGED <<varsBroker, pc, controlador, cinta>>
    BY DEF Arribo
  <1>3. /\ UNCHANGED <<proj_id_to_queue_id, ipc, hijo, vida, conectado, respuesta>>
        /\ UNCHANGED <<equipajes_a_cargar, enviando, id_aeropuerto>>
    BY <1>2 DEF varsBroker, broker, conexion, controlador
  <1>4. /\ arribos \in Seq(Nat) /\ Len(arribos) \in Nat /\ Len(arribos) > 0
        /\ Len(Arribos) \in Nat /\ Len(arribos) <= Len(Arribos)
        /\ arribos' \in Seq(Nat) /\ Len(arribos') = Len(arribos) - 1
        /\ \A i \in 1..Len(arribos') : arribos'[i] = arribos[i + 1]
        /\ Head(arribos) = arribos[1]
    BY <1>1, <1>2, SuposicionTrasbordo DEF Cargas
  <1>5. Llegados \subseteq Llegados' /\ Head(arribos) \in Llegados'
    <2>1. PICK n, m : /\ n = Len(Arribos) - Len(arribos) /\ m = Len(Arribos) - Len(arribos')
                     /\ n \in Nat /\ m \in Nat
      BY <1>4
    <2>2. m = n + 1 /\ Head(arribos) = Arribos[n + 1]
      BY <1>1, <1>4, <2>1 DEF Cargas
    <2>3. /\ Llegados = {Arribos[i] : i \in 1..n}
          /\ Llegados' = {Arribos[i] : i \in 1..m}
      <3>1. 1..(Len(Arribos) - Len(arribos)) = 1..n
        BY <2>1
      <3>2. 1..(Len(Arribos) - Len(arribos')) = 1..m
        BY <2>1
      <3>3. Llegados = {Arribos[i] : i \in 1..n}
        BY <3>1 DEF Llegados
      <3>4. Llegados' = {Arribos[i] : i \in 1..m}
        BY <3>2 DEF Llegados
      <3> QED
        BY <3>3, <3>4
    <2>4. n \in Nat /\ m = n + 1 /\ m \in 1..m /\ 1..n \subseteq 1..m
      <3>1. n \in Nat /\ m = n + 1
        BY <2>1, <2>2
      <3> QED
        BY <3>1
    <2>5. Head(arribos) \in Llegados'
      BY <2>2, <2>3, <2>4
    <2>6. ASSUME NEW y \in Llegados PROVE y \in Llegados'
      <3>1. PICK i \in 1..n : y = Arribos[i]
        BY <2>3
      <3> QED
        BY <3>1, <2>3, <2>4
    <2> QED
      BY <2>5, <2>6
  <1>6. Cargas'
    <2>1. \A i \in 1..Len(arribos') : arribos'[i] = Arribos[Len(Arribos) - Len(arribos') + i]
      <3>1. ASSUME NEW i \in 1..Len(arribos')
            PROVE  arribos'[i] = Arribos[Len(Arribos) - Len(arribos') + i]
        <4>1. i + 1 \in 1..Len(arribos)
          BY <1>4
        <4>2. arribos[i + 1] = Arribos[Len(Arribos) - Len(arribos) + (i + 1)]
          BY <1>1, <4>1 DEF Cargas
        <4>3. Len(Arribos) - Len(arribos) + (i + 1) = Len(Arribos) - Len(arribos') + i
          BY <1>4
        <4> QED
          BY <1>4, <4>2, <4>3
      <3> QED
        BY <3>1
    <2>2. \A par \in por_avisar' : par[1] \in Llegados'
      BY <1>2, <1>5
    <2>3. /\ por_avisar' \subseteq Interconexion /\ vuelos_interconexion' \subseteq Interconexion
      BY <1>1, <1>2 DEF Cargas
    <2>4. Len(arribos') <= Len(Arribos)
      BY <1>4
    <2> QED
      BY <1>1, <1>2, <1>3, <1>4, <1>5, <2>1, <2>2, <2>3, <2>4 DEF Cargas
  <1>7. VuelosLanzados' = VuelosLanzados
    BY <1>2 DEF VuelosLanzados, En
  <1>8. \A x \in Hijos : Viva(x)' <=> Viva(x)
    BY <1>3 DEF Viva
  <1>9. Conexiones'
    BY <1>1, <1>3 DEF Conexiones, TiposBroker, DeCliente, DeHijo, Viva
  <1>10. Legales'
    <2>1. \A c, r : PedidoLegal(c, r) => PedidoLegal(c, r)'
      BY <1>2, <1>5, <1>7, SigueLegal
    <2>2. \A c, r : RespuestaLegal(c, r) => RespuestaLegal(c, r)'
      BY <1>2, <1>5, <1>7, SigueLegal
    <2>3. ASSUME NEW x \in Hijos PROVE HijoLegal(x)'
      BY <1>1, <1>3, <2>1 DEF Legales, HijoLegal
    <2>4. ASSUME NEW c \in Clientes PROVE RespuestaLegal(c, respuesta[c])'
      <3>1. PICK r : r = respuesta[c]
        OBVIOUS
      <3>2. RespuestaLegal(c, r)
        BY <1>1, <3>1 DEF Legales
      <3>3. RespuestaLegal(c, r)' /\ r = respuesta'[c]
        BY <1>3, <2>2, <3>1, <3>2
      <3> QED
        BY <3>3
    <2> QED
      BY <2>3, <2>4 DEF Legales
  <1>11. Tabla'
    BY <1>1, <1>3, <1>5, <1>7, TablaIgual
  <1>12. Lanzamiento'
    BY <1>1, <1>2, <1>3 DEF Lanzamiento, LugaresDe, HijoDe, En
  <1>13. Etapas'
    BY <1>1, <1>2, <1>3, <1>7
       DEF Etapas, SinConexion, EtapaControlador, EtapaRobot, Lanzado, Ocioso, HijoDe, En
  <1>14. EnCola' = EnCola /\ UnaVez'
    BY <1>1, <1>3, <1>11, ColaIgual
  <1>15. SinEnviar' = SinEnviar /\ Enviandose' = Enviandose /\ Entregados' = Entregados
    BY <1>3 DEF SinEnviar, Enviandose, Entregados, EntregadosA, Sirve
  <1>16. \A a \in Aeropuertos : /\ Abandonados(a)' = Abandonados(a)
                                /\ ConexionesCortadas(a)' = ConexionesCortadas(a)
    BY <1>3, SinCortes
  <1>17. EnUnLugar' /\ EnSuAeropuerto' /\ Perdidas'
    BY <1>2, <1>5, <1>7, <1>9, <1>14, <1>15, <1>16, NingunEquipaje
  <1> QED
    BY <1>6, <1>9, <1>10, <1>11, <1>12, <1>13, <1>14, <1>17 DEF InvTrasbordo

(* What a controller has been told is its zone, or a flight that came in. *)
LEMMA LoRecibido ==
  ASSUME Legales, NEW d \in Destinos, NEW c, c = Controlador(d),
         respuesta[c] \notin {Nada, Bien, BROKER_ERROR}
  PROVE  \/ /\ pc[c] = "espera_zona" /\ d \in VuelosLanzados
            /\ respuesta[c].msg.dato = AeropuertoDe[d]
         \/ pc[c] = "espera" /\ respuesta[c].msg.dato \in Llegados
PROOF
  <1>1. /\ c \in Clientes /\ \A e \in Destinos : c = Controlador(e) => e = d
        /\ \A a \in Aeropuertos : c # Robot(a)
    BY UnControlador
  <1>2. PICK r : r = respuesta[c]
    OBVIOUS
  <1>3. RespuestaLegal(c, r)
    BY <1>1, <1>2 DEF Legales
  <1>4. \/ En(c, "espera_zona") /\ d \in VuelosLanzados /\ r = ConMsg(Zona(d))
        \/ En(c, "espera") /\ \E f \in Llegados : r = ConMsg(Entrante(d, f))
    BY <1>1, <1>2, <1>3 DEF RespuestaLegal
  <1>5. Zona(d).dato = AeropuertoDe[d] /\ \A f : Entrante(d, f).dato = f
    BY DEF Zona, Entrante
  <1> QED
    BY <1>2, <1>4, <1>5, Registros DEF En

(* What is left to see when a controller uses it *)
LEMMA Uso ==
  ASSUME InvTrasbordo, NEW c \in Procesos, ~ EsRobot(c), c # Lanzador, c # Generador,
         NEW s \in Estados, s # "sin_lanzar",
         pc' = [pc EXCEPT ![c] = s], Recibir(c), Cargas', Llegados' = Llegados,
         UNCHANGED cinta, SinEnviar' = SinEnviar,
         \A d \in Destinos : c # Controlador(d) =>
           id_aeropuerto'[d] = id_aeropuerto[d] /\ enviando'[d] = enviando[d],
         \A d \in Destinos : c = Controlador(d) => EtapaControlador(d)'
  PROVE  InvTrasbordo'
PROOF
  <1>1. /\ Conexiones' /\ Tabla' /\ UnaVez' /\ EnCola' = EnCola
        /\ VuelosLanzados \subseteq VuelosLanzados'
        /\ Lanzamiento'
        /\ pc' \in [Procesos -> Estados]
        /\ \A x \in Procesos : SinConexion(x)'
        /\ (~ En(Generador, "sin_lanzar") => Lanzado)'
        /\ \A d \in Destinos : (/\ c # Controlador(d)
                                /\ id_aeropuerto'[d] = id_aeropuerto[d]
                                /\ enviando'[d] = enviando[d]) => EtapaControlador(d)'
        /\ \A a \in Aeropuertos : c # Robot(a) => EtapaRobot(a)'
    BY PasoDeProceso
  <1>2. Etapas'
    <2>1. \A d \in Destinos : EtapaControlador(d)'
      BY <1>1
    <2>2. \A a \in Aeropuertos : EtapaRobot(a)'
      BY <1>1 DEF EsRobot
    <2> QED
      BY <1>1, <2>1, <2>2 DEF Etapas
  <1>3. Legales'
    <2>1. Conexiones /\ Legales /\ pc \in [Procesos -> Estados]
      BY DEF InvTrasbordo, Etapas
    <2> QED
      BY <2>1, LegalesAlRecibir
  <1>4. EnUnLugar' /\ EnSuAeropuerto' /\ Perdidas'
    BY <1>1, UsoSinEquipaje, NingunEquipaje
  <1> QED
    BY <1>1, <1>2, <1>3, <1>4 DEF InvTrasbordo

(* A controller is told its zone. *)
LEMMA InvRecibirZona ==
  ASSUME InvTrasbordo, NEW d \in Destinos, RecibirZona(d)
  PROVE  InvTrasbordo'
PROOF
  <1>1. PICK s : s = "enviar"
    OBVIOUS
  <1>2. PICK c : c = Controlador(d)
    OBVIOUS
  <1>3. /\ c \in Procesos /\ c # Lanzador /\ c # Generador
        /\ \A e \in Destinos : c = Controlador(e) => e = d
        /\ ~ EsRobot(c)
        /\ Cargas /\ Etapas /\ Legales /\ pc \in [Procesos -> Estados]
    BY <1>2, UnControlador DEF InvTrasbordo, Etapas, EsRobot
  <1>4. /\ pc[c] = "espera_zona" /\ Recibir(c)
        /\ pc' = [pc EXCEPT ![c] = s]
        /\ id_aeropuerto' = [id_aeropuerto EXCEPT ![d] = respuesta[c].msg.dato]
        /\ UNCHANGED <<generador, equipajes_a_cargar, enviando, cinta>>
    BY <1>1, <1>2 DEF RecibirZona, Contestado, Pasa, En
  <1>5. s \in Estados /\ s # "sin_lanzar"
    BY <1>1 DEF Estados
  <1>6. d \in VuelosLanzados /\ respuesta[c].msg.dato = AeropuertoDe[d]
    <2>1. respuesta[c] \notin {Nada, Bien, BROKER_ERROR}
      BY <1>4 DEF Recibir
    <2>2. "espera_zona" # "espera"
      OBVIOUS
    <2> QED
      BY <1>2, <1>3, <1>4, <2>1, <2>2, LoRecibido
  <1>7. AeropuertoDe[d] \in Nat
    BY SuposicionTrasbordo
  <1>8. Cargas' /\ Llegados' = Llegados /\ SinEnviar' = SinEnviar
    BY <1>3, <1>4, <1>6, <1>7 DEF Cargas, Llegados, SinEnviar, generador
  <1>9. /\ id_aeropuerto'[d] = AeropuertoDe[d]
        /\ \A e \in Destinos : e # d => id_aeropuerto'[e] = id_aeropuerto[e]
    BY <1>3, <1>4, <1>6 DEF Cargas
  <1>10. Lanzado' /\ VuelosLanzados \subseteq VuelosLanzados'
    <2>1. Lanzado
      BY <1>2, <1>3, <1>4 DEF Etapas, EtapaControlador, En
    <2>2. Llegados \subseteq Llegados'
      BY <1>8
    <2> QED
      BY <1>3, <1>4, <1>5, <2>1, <2>2, PasoDeProceso
  <1>11. pc'[c] = "enviar"
    BY <1>1, <1>3, <1>4
  <1>12. EtapaControlador(d)'
    BY <1>2, <1>6, <1>9, <1>10, <1>11 DEF EtapaControlador, En
  <1>13. /\ \A e \in Destinos : c # Controlador(e) =>
              id_aeropuerto'[e] = id_aeropuerto[e] /\ enviando'[e] = enviando[e]
         /\ \A e \in Destinos : c = Controlador(e) => EtapaControlador(e)'
    BY <1>2, <1>3, <1>4, <1>9, <1>12
  <1>14. UNCHANGED cinta
    BY <1>4
  <1> QED
    BY <1>3, <1>4, <1>5, <1>8, <1>13, <1>14, Uso

(* A controller is told of a flight that came in. *)
LEMMA InvRecibirEntrante ==
  ASSUME InvTrasbordo, NEW d \in Destinos, RecibirEntrante(d)
  PROVE  InvTrasbordo'
PROOF
  <1>1. PICK s : s = "enviar"
    OBVIOUS
  <1>2. PICK c : c = Controlador(d)
    OBVIOUS
  <1>3. /\ c \in Procesos /\ c # Lanzador /\ c # Generador
        /\ \A e \in Destinos : c = Controlador(e) => e = d
        /\ ~ EsRobot(c)
        /\ Cargas /\ Etapas /\ Legales /\ pc \in [Procesos -> Estados]
    BY <1>2, UnControlador DEF InvTrasbordo, Etapas, EsRobot
  <1>4. PICK X : X = {e \in equipajes_a_cargar[d] : EntranteDe[e] = respuesta[c].msg.dato}
    OBVIOUS
  <1>5. /\ pc[c] = "espera" /\ Recibir(c)
        /\ pc' = [pc EXCEPT ![c] = s]
        /\ enviando' = [enviando EXCEPT ![d] = X]
        /\ equipajes_a_cargar' = [equipajes_a_cargar EXCEPT ![d] = @ \ enviando'[d]]
        /\ UNCHANGED <<generador, id_aeropuerto, cinta>>
    BY <1>1, <1>2, <1>4 DEF RecibirEntrante, Contestado, Pasa, En
  <1>6. s \in Estados /\ s # "sin_lanzar"
    BY <1>1 DEF Estados
  <1>7. respuesta[c].msg.dato \in Llegados
    <2>1. respuesta[c] \notin {Nada, Bien, BROKER_ERROR}
      BY <1>5 DEF Recibir
    <2>2. "espera_zona" # "espera"
      OBVIOUS
    <2> QED
      BY <1>2, <1>3, <1>5, <2>1, <2>2, LoRecibido
  <1>8. /\ equipajes_a_cargar \in [Destinos -> SUBSET EquipajesIntercargo]
        /\ enviando \in [Destinos -> SUBSET EquipajesIntercargo]
        /\ equipajes_a_cargar[d] \subseteq EquipajesDe(d)
        /\ equipajes_a_cargar[d] \subseteq EquipajesIntercargo
    BY <1>3 DEF Cargas
  <1>9. X \subseteq equipajes_a_cargar[d] /\ \A e \in X : EntranteDe[e] \in Llegados
    BY <1>4, <1>7
  <1>10. /\ enviando'[d] = X /\ equipajes_a_cargar'[d] = equipajes_a_cargar[d] \ X
        /\ \A e \in Destinos : e # d => /\ enviando'[e] = enviando[e]
                                        /\ equipajes_a_cargar'[e] = equipajes_a_cargar[e]
    BY <1>5, <1>8, <1>9
  <1>11. enviando' \in [Destinos -> SUBSET EquipajesIntercargo]
    BY <1>5, <1>8, <1>9
  <1>12. equipajes_a_cargar' \in [Destinos -> SUBSET EquipajesIntercargo]
    BY <1>5, <1>8, <1>9
  <1>13. EtapaControlador(d) /\ enviando[d] = {}
    BY <1>2, <1>3, <1>5 DEF Etapas, EtapaControlador
  <1>14. SinEnviar' = SinEnviar
    <2>1. \A e \in Destinos : equipajes_a_cargar'[e] \cup enviando'[e] = equipajes_a_cargar[e] \cup enviando[e]
      BY <1>9, <1>10, <1>13
    <2> QED
      BY <2>1 DEF SinEnviar
  <1>15. Llegados' = Llegados
    BY <1>5 DEF Llegados, generador
  <1>16. Cargas'
    <2>1. ASSUME NEW e \in Destinos
          PROVE  /\ equipajes_a_cargar'[e] \cup enviando'[e] \subseteq EquipajesDe(e)
                 /\ equipajes_a_cargar'[e] \cap enviando'[e] = {}
                 /\ \A x \in enviando'[e] : EntranteDe[x] \in Llegados
      <3>1. CASE e = d
        BY <3>1, <1>8, <1>9, <1>10
      <3>2. CASE e # d
        BY <3>2, <1>3, <1>10 DEF Cargas
      <3> QED
        BY <3>1, <3>2
    <2>2. UNCHANGED <<arribos, vuelos_interconexion, por_avisar, id_aeropuerto, cinta>>
      BY <1>5 DEF generador
    <2>3. /\ arribos' \in Seq(Nat) /\ Len(arribos') <= Len(Arribos)
          /\ \A i \in 1..Len(arribos') : arribos'[i] = Arribos[Len(Arribos) - Len(arribos') + i]
      BY <1>3, <2>2 DEF Cargas
    <2>4. /\ por_avisar' \subseteq Interconexion
          /\ vuelos_interconexion' \subseteq Interconexion
          /\ \A par \in por_avisar' : par[1] \in Llegados'
      BY <1>3, <1>15, <2>2 DEF Cargas
    <2>5. /\ id_aeropuerto' \in [Destinos -> Nat]
          /\ cinta' \in [Aeropuertos -> Seq(EquipajesIntercargo)]
      BY <1>3, <2>2 DEF Cargas
    <2>6. \A e \in Destinos :
            /\ equipajes_a_cargar'[e] \cup enviando'[e] \subseteq EquipajesDe(e)
            /\ equipajes_a_cargar'[e] \cap enviando'[e] = {}
            /\ \A x \in enviando'[e] : EntranteDe[x] \in Llegados'
      BY <1>15, <2>1
    <2> QED
      BY <1>11, <1>12, <2>3, <2>4, <2>5, <2>6 DEF Cargas
  <1>17. Lanzado' /\ VuelosLanzados \subseteq VuelosLanzados'
    <2>1. Lanzado
      BY <1>2, <1>5, <1>13 DEF EtapaControlador, En
    <2>2. Llegados \subseteq Llegados'
      BY <1>15
    <2> QED
      BY <1>3, <1>5, <1>6, <2>1, <2>2, PasoDeProceso
  <1>18. pc'[c] = "enviar"
    BY <1>1, <1>3, <1>5
  <1>19. EtapaControlador(d)'
    BY <1>2, <1>5, <1>13, <1>17, <1>18 DEF EtapaControlador, En
  <1>20. /\ \A e \in Destinos : c # Controlador(e) =>
              id_aeropuerto'[e] = id_aeropuerto[e] /\ enviando'[e] = enviando[e]
         /\ \A e \in Destinos : c = Controlador(e) => EtapaControlador(e)'
    BY <1>2, <1>3, <1>5, <1>10, <1>19
  <1>21. UNCHANGED cinta
    BY <1>5
  <1> QED
    BY <1>3, <1>5, <1>6, <1>14, <1>15, <1>16, <1>20, <1>21, Uso

(* A controller sends a bag. *)
LEMMA InvEnviarEquipaje ==
  ASSUME InvTrasbordo, NEW d \in Destinos, NEW e \in EquipajesIntercargo, EnviarEquipaje(d, e)
  PROVE  InvTrasbordo'
PROOF
  <1>1. PICK s : s = "enviar"
    OBVIOUS
  <1>2. PICK c : c = Controlador(d)
    OBVIOUS
  <1>3. /\ c \in Procesos /\ c \in Clientes /\ c # Lanzador /\ c # Generador
        /\ \A x \in Destinos : c = Controlador(x) => x = d
        /\ \A a \in Aeropuertos : c # Robot(a)
        /\ Cargas /\ Etapas /\ Legales /\ Conexiones /\ pc \in [Procesos -> Estados]
    BY <1>2, UnControlador DEF InvTrasbordo, Etapas
  <1>4. /\ pc[c] = "enviar" /\ e \in enviando[d]
        /\ Pedir(c, Poner(ColaIntercargo, [mtype |-> id_aeropuerto[d], dato |-> e]))
        /\ pc' = [pc EXCEPT ![c] = s]
        /\ enviando' = [enviando EXCEPT ![d] = @ \ {e}]
        /\ UNCHANGED <<generador, equipajes_a_cargar, id_aeropuerto, cinta>>
    BY <1>1, <1>2 DEF EnviarEquipaje, Llamar, Pasa, En
  <1>5. s \in Estados /\ s # "sin_lanzar"
    BY <1>1 DEF Estados
  <1>6. EtapaControlador(d) /\ d \in VuelosLanzados /\ id_aeropuerto[d] = AeropuertoDe[d] /\ Lanzado
    BY <1>2, <1>3, <1>4 DEF Etapas, EtapaControlador, En
  <1>7. DestinoDe[e] = d /\ EntranteDe[e] \in Llegados /\ e \notin equipajes_a_cargar[d]
    BY <1>3, <1>4 DEF Cargas, EquipajesDe
  <1>8. e \in PorViajar
    BY <1>6, <1>7 DEF PorViajar
  <1>9. PICK r \in Pedidos : /\ r = Poner(ColaIntercargo, Traslado(e))
                             /\ r.que = "push" /\ r.cola = ColaIntercargo
                             /\ r.msg = Traslado(e) /\ r.msg.dato = e
    <2>1. Traslado(e).dato = e
      BY DEF Traslado
    <2> QED
      BY <2>1, NombresDeColas, Registros DEF Pedidos, Mensajes
  <1>10. Pedir(c, r)
    BY <1>4, <1>6, <1>7, <1>9 DEF Traslado
  <1>11. /\ enviando'[d] = enviando[d] \ {e}
         /\ \A x \in Destinos : x # d => enviando'[x] = enviando[x]
         /\ enviando' \in [Destinos -> SUBSET EquipajesIntercargo]
    BY <1>3, <1>4 DEF Cargas
  <1>12. Llegados' = Llegados /\ Cargas'
    <2>1. Llegados' = Llegados
      BY <1>4 DEF Llegados, generador
    <2>2. \A x \in Destinos : enviando'[x] \subseteq enviando[x]
      BY <1>11
    <2>3. ASSUME NEW x \in Destinos
          PROVE  /\ equipajes_a_cargar[x] \cup enviando'[x] \subseteq EquipajesDe(x)
                 /\ equipajes_a_cargar[x] \cap enviando'[x] = {}
                 /\ \A y \in enviando'[x] : EntranteDe[y] \in Llegados
      BY <1>3, <2>2 DEF Cargas
    <2> QED
      BY <1>3, <1>4, <1>11, <2>1, <2>3 DEF Cargas, generador
  <1>13. Llegados \subseteq Llegados'
    BY <1>12
  <1>14. /\ Conexiones' /\ Tabla' /\ UnaVez' /\ EnCola' = EnCola
         /\ VuelosLanzados \subseteq VuelosLanzados'
         /\ Lanzado => Lanzado'
         /\ Lanzamiento'
         /\ pc' \in [Procesos -> Estados] /\ pc'[c] = s
         /\ \A x \in Procesos \ {c} : Quieto(x)
         /\ \A x \in Procesos : SinConexion(x)'
         /\ (~ En(Generador, "sin_lanzar") => Lanzado)'
         /\ \A x \in Destinos : (/\ c # Controlador(x)
                                 /\ id_aeropuerto'[x] = id_aeropuerto[x]
                                 /\ enviando'[x] = enviando[x]) => EtapaControlador(x)'
         /\ \A a \in Aeropuertos : c # Robot(a) => EtapaRobot(a)'
    BY <1>3, <1>4, <1>5, <1>10, <1>13, PasoDeProceso
  <1>15. Etapas'
    <2>1. EtapaControlador(d)'
      BY <1>1, <1>2, <1>4, <1>6, <1>14 DEF EtapaControlador, En
    <2>2. \A x \in Destinos : x # d => c # Controlador(x)
      BY <1>3
    <2>3. \A x \in Destinos : EtapaControlador(x)'
      BY <1>4, <1>11, <1>14, <2>1, <2>2
    <2>4. \A a \in Aeropuertos : EtapaRobot(a)'
      BY <1>3, <1>14
    <2> QED
      BY <1>14, <2>3, <2>4 DEF Etapas
  <1>16. Legales'
    <2>1. e \in PorViajar' /\ pc'[c] = "enviar"
      BY <1>1, <1>8, <1>13, <1>14, HayMas
    <2>2. PedidoLegal(c, r)'
      BY <1>2, <1>7, <1>9, <2>1 DEF PedidoLegal, PedidoControlador, En
    <2> QED
      BY <1>3, <1>4, <1>5, <1>10, <1>13, <2>2, LegalesAlPedir
  <1>17. PICK h \in Hijos : /\ h = HijoDe(c) /\ Viva(h) /\ hijo[h].pc = "recibir"
                            /\ hijo'[h].pc = "servir" /\ hijo'[h].pedido = r
                            /\ \A x \in Hijos \ {h} : hijo'[x] = hijo[x]
                            /\ UNCHANGED <<vida, conectado>>
                            /\ \A x \in Clientes \ {c} : respuesta'[x] = respuesta[x]
    BY <1>3, <1>10, AlPedir
  <1>18. Enviandose' = Enviandose \cup {e}
    <2>1. ~ EnviaAlgo(h) /\ EnviaAlgo(h)' /\ hijo'[h].pedido.msg.dato = e
      BY <1>9, <1>17 DEF EnviaAlgo, Sirve
    <2> QED
      BY <1>17, <2>1, EmpiezaEnvio
  <1>19. Entregados' = Entregados
    <2>1. \A a \in Aeropuertos : Robot(a) \in Clientes \ {c}
      BY <1>3, SonHijos, ProcesosDistintos
    <2> QED
      BY <1>17, <2>1, EntregadosIgual
  <1>20. e \in SinEnviar /\ SinEnviar' = SinEnviar \ {e}
    <2>1. \A x \in Destinos : x # d => e \notin equipajes_a_cargar[x] \cup enviando[x]
      BY <1>3, <1>7 DEF Cargas, EquipajesDe
    <2>2. UNCHANGED equipajes_a_cargar
      BY <1>4
    <2>3. /\ equipajes_a_cargar'[d] \cup enviando'[d]
                = (equipajes_a_cargar[d] \cup enviando[d]) \ {e}
          /\ \A x \in Destinos : x # d =>
               equipajes_a_cargar'[x] \cup enviando'[x]
                 = (equipajes_a_cargar[x] \cup enviando[x]) \ {e}
      BY <1>7, <1>11, <2>1, <2>2
    <2>4. ASSUME NEW y PROVE y \in SinEnviar' <=> y \in SinEnviar /\ y # e
      <3>1. y \in SinEnviar' <=> \E x \in Destinos : y \in equipajes_a_cargar'[x] \cup enviando'[x]
        BY DEF SinEnviar
      <3>2. y \in SinEnviar <=> \E x \in Destinos : y \in equipajes_a_cargar[x] \cup enviando[x]
        BY DEF SinEnviar
      <3> QED
        BY <2>3, <3>1, <3>2
    <2>5. e \in SinEnviar
      BY <1>4 DEF SinEnviar
    <2> QED
      BY <2>4, <2>5
  <1>21. EnSuAeropuerto' /\ EnCinta' = EnCinta
    BY <1>3, <1>4, <1>13, <1>14, CintaIgual DEF InvTrasbordo
  <1>22. EnUnLugar' /\ Perdidos' = Perdidos
    BY <1>14, <1>18, <1>19, <1>20, <1>21, Movimiento DEF InvTrasbordo
  <1>23. Perdidas'
    BY <1>3, <1>14, <1>17, <1>22, SinCortes, PerdidasIguales DEF InvTrasbordo
  <1> QED
    BY <1>12, <1>14, <1>15, <1>16, <1>21, <1>22, <1>23 DEF InvTrasbordo

(* A robot puts a bag on its belt. *)
LEMMA InvPonerEnCinta ==
  ASSUME InvTrasbordo, NEW a \in Aeropuertos, PonerEnCinta(a)
  PROVE  InvTrasbordo'
PROOF
  <1>1. PICK s : s = "libre"
    OBVIOUS
  <1>2. PICK c : c = Robot(a)
    OBVIOUS
  <1>3. /\ c \in Procesos /\ c \in Clientes /\ c # Lanzador /\ c # Generador
        /\ \A d \in Destinos : c # Controlador(d)
        /\ \A b \in Aeropuertos : c = Robot(b) => b = a
        /\ Conexiones /\ Legales /\ Cargas /\ Etapas /\ pc \in [Procesos -> Estados]
    BY <1>2, UnRobot DEF InvTrasbordo, Etapas
  <1>4. /\ Recibir(c) /\ pc' = [pc EXCEPT ![c] = s]
        /\ cinta' = [cinta EXCEPT ![a] = Append(@, respuesta[c].msg.dato)]
        /\ UNCHANGED <<generador, controlador>>
    BY <1>1, <1>2 DEF PonerEnCinta, Contestado, Pasa
  <1>5. s \in Estados /\ s # "sin_lanzar"
    BY <1>1 DEF Estados
  <1>6. PICK e \in PorViajar : /\ AeropuertoDe[DestinoDe[e]] = a
                               /\ respuesta[c].que = "msg" /\ respuesta[c].msg.dato = e
    <2>1. respuesta[Robot(a)] \notin {Nada, Bien, BROKER_ERROR}
      BY <1>2, <1>4 DEF Recibir
    <2> QED
      BY <1>2, <1>3, <2>1, LoEntregado
  <1>7. /\ UNCHANGED <<equipajes_a_cargar, enviando, id_aeropuerto>>
        /\ Llegados' = Llegados /\ Llegados \subseteq Llegados'
    BY <1>4 DEF controlador, generador, Llegados
  <1>8. e \in EquipajesIntercargo
    BY DEF PorViajar
  <1>9. /\ cinta \in [Aeropuertos -> Seq(EquipajesIntercargo)]
        /\ cinta'[a] = Append(cinta[a], e)
        /\ \A b \in Aeropuertos : b # a => cinta'[b] = cinta[b]
        /\ cinta' \in [Aeropuertos -> Seq(EquipajesIntercargo)]
    BY <1>3, <1>4, <1>6, <1>8 DEF Cargas
  <1>10. Cargas'
    BY <1>3, <1>4, <1>7, <1>9 DEF Cargas, generador
  <1>11. /\ Conexiones' /\ Tabla' /\ UnaVez' /\ EnCola' = EnCola
         /\ VuelosLanzados \subseteq VuelosLanzados'
         /\ Lanzamiento'
         /\ pc' \in [Procesos -> Estados] /\ pc'[c] = s
         /\ \A x \in Procesos : SinConexion(x)'
         /\ (~ En(Generador, "sin_lanzar") => Lanzado)'
         /\ \A x \in Destinos : (/\ c # Controlador(x)
                                 /\ id_aeropuerto'[x] = id_aeropuerto[x]
                                 /\ enviando'[x] = enviando[x]) => EtapaControlador(x)'
         /\ \A b \in Aeropuertos : c # Robot(b) => EtapaRobot(b)'
    BY <1>3, <1>4, <1>5, <1>7, PasoDeProceso
  <1>12. PICK h \in Hijos : /\ h = HijoDe(c) /\ hijo[h].pc = "recibir"
                            /\ UNCHANGED <<vida, conectado, hijo>> /\ conectado[c]
                            /\ respuesta'[c] = Nada
                            /\ \A x \in Clientes \ {c} : respuesta'[x] = respuesta[x]
    BY <1>3, <1>4, AlRecibir
  <1>13. EtapaRobot(a)'
    <2>1. HijoDe(Robot(a))' = h
      BY <1>2, <1>12 DEF HijoDe
    <2>2. conectado'[c] /\ hijo'[h].pc = "recibir"
      BY <1>12
    <2>3. pc'[c] = "libre"
      BY <1>1, <1>11
    <2> QED
      BY <1>2, <2>1, <2>2, <2>3 DEF EtapaRobot, En
  <1>14. Etapas'
    <2>1. \A b \in Aeropuertos : EtapaRobot(b)'
      BY <1>3, <1>11, <1>13, UnRobot
    <2>2. \A x \in Destinos : EtapaControlador(x)'
      BY <1>3, <1>7, <1>11
    <2> QED
      BY <1>11, <2>1, <2>2 DEF Etapas
  <1>15. Legales'
    BY <1>3, <1>4, <1>5, <1>7, LegalesAlRecibir
  <1>16. e \in Entregados /\ Entregados' = Entregados \ {e}
    <2>1. \A b \in Aeropuertos \ {a} : Robot(b) \in Clientes \ {c}
      BY <1>3, SonHijos, ProcesosDistintos
    <2>2. respuesta'[Robot(a)].que # "msg"
      BY <1>2, <1>12, Registros
    <2> QED
      BY <1>2, <1>3, <1>6, <1>12, <2>1, <2>2, SeUsa
  <1>17. SinEnviar' = SinEnviar /\ Enviandose' = Enviandose
    <2>1. Enviandose' = Enviandose
      BY <1>12, EnviandoseIgual
    <2> QED
      BY <1>7, <2>1 DEF SinEnviar
  <1>18. ToSet(cinta'[a]) = ToSet(cinta[a]) \cup {e}
    <2>1. PICK q : q = cinta[a] /\ q \in Seq(EquipajesIntercargo) /\ cinta'[a] = Append(q, e)
      BY <1>9
    <2>2. /\ Len(q) \in Nat /\ DOMAIN q = 1..Len(q)
          /\ DOMAIN Append(q, e) = 1..(Len(q) + 1)
          /\ \A i \in 1..Len(q) : Append(q, e)[i] = q[i]
          /\ Append(q, e)[Len(q) + 1] = e
      BY <1>8, <2>1
    <2>3. ASSUME NEW y
          PROVE  (\E i \in DOMAIN Append(q, e) : Append(q, e)[i] = y)
                   <=> (\E i \in DOMAIN q : q[i] = y) \/ y = e
      <3>1. DOMAIN Append(q, e) = DOMAIN q \cup {Len(q) + 1}
        BY <2>2
      <3> QED
        BY <2>2, <3>1
    <2>4. /\ ToSet(Append(q, e)) = {Append(q, e)[i] : i \in DOMAIN Append(q, e)}
          /\ ToSet(q) = {q[i] : i \in DOMAIN q}
      BY DEF ToSet
    <2>5. ToSet(Append(q, e)) = ToSet(q) \cup {e}
      BY <2>3, <2>4
    <2> QED
      BY <2>1, <2>5
  <1>19. EnCinta' = EnCinta \cup {e}
    <2>1. ASSUME NEW y PROVE y \in EnCinta' <=> y \in EnCinta \/ y = e
      <3>1. y \in EnCinta' <=> \E b \in Aeropuertos : y \in ToSet(cinta'[b])
        BY DEF EnCinta
      <3>2. y \in EnCinta <=> \E b \in Aeropuertos : y \in ToSet(cinta[b])
        BY DEF EnCinta
      <3>3. \A b \in Aeropuertos : y \in ToSet(cinta'[b]) <=> y \in ToSet(cinta[b]) \/ (b = a /\ y = e)
        BY <1>9, <1>18
      <3> QED
        BY <3>1, <3>2, <3>3
    <2> QED
      BY <2>1
  <1>20. EnUnLugar' /\ Perdidos' = Perdidos
    BY <1>11, <1>16, <1>17, <1>19, Movimiento DEF InvTrasbordo
  <1>21. EnSuAeropuerto'
    <2>1. EnSuAeropuerto /\ EnUnLugar
      BY DEF InvTrasbordo
    <2>2. \A v \in Vuelos : ~ En(Vuelo(v), "sin_lanzar") => ~ En(Vuelo(v), "sin_lanzar")'
      BY <1>11 DEF VuelosLanzados
    <2>3. ASSUME NEW b \in Aeropuertos, NEW x \in ToSet(cinta'[b])
          PROVE  /\ AeropuertoDe[DestinoDe[x]] = b
                 /\ ~ En(Vuelo(DestinoDe[x]), "sin_lanzar")'
                 /\ EntranteDe[x] \in Llegados'
      <3>1. CASE x \in ToSet(cinta[b])
        <4>1. x \in EquipajesIntercargo
          BY <1>9, <3>1 DEF ToSet
        <4>2. DestinoDe[x] \in Vuelos
          BY <4>1, SuposicionTrasbordo
        <4> QED
          BY <2>1, <2>2, <3>1, <4>2, <1>7 DEF EnSuAeropuerto
      <3>2. CASE x \notin ToSet(cinta[b])
        <4>1. b = a /\ x = e
          BY <1>9, <1>18, <2>3, <3>2
        <4>2. /\ DestinoDe[e] \in Vuelos /\ ~ En(Vuelo(DestinoDe[e]), "sin_lanzar")
              /\ EntranteDe[e] \in Llegados
          BY DEF PorViajar, VuelosLanzados
        <4> QED
          BY <1>6, <1>7, <2>2, <4>1, <4>2
      <3> QED
        BY <3>1, <3>2
    <2>4. ASSUME NEW b \in Aeropuertos PROVE IsInjective(cinta'[b])
      <3>1. CASE b # a
        BY <1>9, <2>1, <3>1 DEF EnSuAeropuerto
      <3>2. CASE b = a
        <4>1. PICK q : q = cinta[a] /\ q \in Seq(EquipajesIntercargo) /\ cinta'[a] = Append(q, e)
          BY <1>9
        <4>2. IsInjective(q)
          BY <2>1, <4>1 DEF EnSuAeropuerto
        <4>3. e \notin EnCinta
          BY <1>16, <2>1 DEF EnUnLugar
        <4>4. \A i \in DOMAIN q : q[i] # e
          BY <4>1, <4>3 DEF EnCinta, ToSet
        <4>5. /\ Len(q) \in Nat /\ DOMAIN q = 1..Len(q)
              /\ DOMAIN Append(q, e) = 1..(Len(q) + 1)
              /\ \A i \in 1..Len(q) : Append(q, e)[i] = q[i]
              /\ Append(q, e)[Len(q) + 1] = e
          BY <1>8, <4>1
        <4>6. IsInjective(Append(q, e))
          BY <4>2, <4>4, <4>5 DEF IsInjective
        <4> QED
          BY <3>2, <4>1, <4>6
      <3> QED
        BY <3>1, <3>2
    <2> QED
      BY <2>3, <2>4 DEF EnSuAeropuerto
  <1>22. Perdidas'
    BY <1>3, <1>11, <1>12, <1>20, SinCortes, PerdidasIguales DEF InvTrasbordo
  <1> QED
    BY <1>10, <1>11, <1>14, <1>15, <1>20, <1>21, <1>22 DEF InvTrasbordo

(* The end of a connection, but for the bag that a robot may have had. *)
LEMMA Corte ==
  ASSUME InvTrasbordo, NEW c \in Procesos, pc' = [pc EXCEPT ![c] = "muerto"],
         Desconectar(c), UNCHANGED datos,
         hijo[HijoDe(c)].pc = "recibir" \/ (EsRobot(c) /\ hijo[HijoDe(c)].pc = "servir"),
         c = Lanzador => ~ Lanzado
  PROVE  /\ Conexiones' /\ Legales' /\ Tabla' /\ Lanzamiento' /\ Etapas' /\ Cargas'
         /\ UnaVez' /\ EnSuAeropuerto' /\ EnCinta' = EnCinta
         /\ SinEnviar' = SinEnviar /\ Enviandose' = Enviandose /\ EnCola' = EnCola
PROOF
  <1>1. PICK s : s = "muerto"
    OBVIOUS
  <1>2. s \in Estados /\ s # "sin_lanzar" /\ pc' = [pc EXCEPT ![c] = s]
    BY <1>1 DEF Estados
  <1>3. /\ Cargas' /\ Llegados' = Llegados /\ SinEnviar' = SinEnviar
        /\ UNCHANGED <<equipajes_a_cargar, enviando, id_aeropuerto, cinta>>
    BY DatosIguales DEF InvTrasbordo
  <1>4. Llegados \subseteq Llegados'
    BY <1>3
  <1>5. /\ Conexiones' /\ Tabla' /\ UnaVez' /\ EnCola' = EnCola
        /\ VuelosLanzados \subseteq VuelosLanzados'
        /\ UNCHANGED <<proj_id_to_queue_id, ipc>>
        /\ Lanzado => Lanzado'
        /\ c # Lanzador => Lanzamiento'
        /\ pc' \in [Procesos -> Estados] /\ pc'[c] = s
        /\ \A x \in Procesos : SinConexion(x)'
        /\ c # Generador => (~ En(Generador, "sin_lanzar") => Lanzado)'
        /\ \A x \in Destinos : (/\ c # Controlador(x)
                                /\ id_aeropuerto'[x] = id_aeropuerto[x]
                                /\ enviando'[x] = enviando[x]) => EtapaControlador(x)'
        /\ \A a \in Aeropuertos : c # Robot(a) => EtapaRobot(a)'
    BY <1>2, <1>4, PasoDeProceso
  <1>6. /\ Conexiones /\ Legales /\ Etapas /\ Cargas /\ c \in Clientes
        /\ pc \in [Procesos -> Estados]
    BY SonHijos DEF InvTrasbordo, Etapas
  <1>7. conectado[c] /\ ~ conectado'[c]
    BY <1>6, AlDesconectar
  <1>8. ~ En(c, "sin_lanzar")
    BY <1>6, <1>7 DEF Etapas, SinConexion
  <1>9. Lanzamiento'
    <2>1. CASE c = Lanzador
      <3>1. pc'[Lanzador] = "muerto"
        BY <1>1, <1>5, <2>1
      <3> QED
        BY <3>1 DEF Lanzamiento, En
    <2> QED
      BY <1>5, <2>1
  <1>10. (~ En(Generador, "sin_lanzar") => Lanzado)'
    <2>1. CASE c = Generador
      <3>1. Lanzado
        BY <1>6, <1>8, <2>1 DEF Etapas
      <3> QED
        BY <1>5, <3>1
    <2> QED
      BY <1>5, <2>1
  <1>11. \A x \in Destinos : EtapaControlador(x)'
    <2>1. ASSUME NEW x \in Destinos, c = Controlador(x) PROVE EtapaControlador(x)'
      <3>1. Lanzado'
        BY <1>5, <1>6, <1>8, <2>1 DEF Etapas, EtapaControlador
      <3>2. pc'[Controlador(x)] = "muerto"
        BY <1>1, <1>5, <2>1
      <3> QED
        BY <3>1, <3>2 DEF EtapaControlador, En
    <2> QED
      BY <1>3, <1>5, <2>1
  <1>12. \A a \in Aeropuertos : EtapaRobot(a)'
    <2>1. ASSUME NEW a \in Aeropuertos, c = Robot(a) PROVE EtapaRobot(a)'
      <3>1. pc'[Robot(a)] = "muerto" /\ ~ conectado'[Robot(a)]
        BY <1>1, <1>5, <1>7, <2>1
      <3> QED
        BY <3>1 DEF EtapaRobot, En
    <2> QED
      BY <1>5, <2>1
  <1>13. Etapas'
    BY <1>5, <1>10, <1>11, <1>12 DEF Etapas
  <1>14. Legales'
    BY <1>2, <1>4, <1>6, LegalesAlDesconectar
  <1>15. Enviandose' = Enviandose
    BY CorteSinEnvio
  <1>16. EnSuAeropuerto' /\ EnCinta' = EnCinta
    BY <1>3, <1>4, <1>5, <1>6, CintaIgual DEF InvTrasbordo
  <1> QED
    BY <1>3, <1>5, <1>9, <1>13, <1>14, <1>15, <1>16

(* A robot breaks: it loses the bag it holds, or leaves a child behind. *)
LEMMA InvCaer ==
  ASSUME InvTrasbordo, NEW a \in Aeropuertos, Caer(a)
  PROVE  InvTrasbordo'
PROOF
  <1>1. PICK c : c = Robot(a)
    OBVIOUS
  <1>2. /\ c \in Procesos /\ c \in Clientes /\ c # Lanzador
        /\ \A b \in Aeropuertos : c = Robot(b) => b = a
        /\ Conexiones /\ Legales /\ EsRobot(c) /\ Perdidas /\ EnUnLugar
    BY <1>1, UnRobot DEF InvTrasbordo, EsRobot
  <1>3. Desconectar(c) /\ pc' = [pc EXCEPT ![c] = "muerto"] /\ UNCHANGED datos
    BY <1>1 DEF Caer, Pasa
  <1>4. conectado[c]
    BY <1>3 DEF Desconectar
  <1>5. PICK h \in Hijos : h = HijoDe(c) /\ Viva(h)
    BY <1>2, <1>4, HijoVivo
  <1>6. h[1] = c
    BY <1>5 DEF HijoDe
  <1>7. DeHijo(h) /\ HijoLegal(h)
    BY <1>2 DEF Conexiones, Legales
  <1>8. hijo[h].pc = "recibir" \/ hijo[h].pc = "servir"
    <2>1. hijo[h].pc \in {"recibir", "servir", "crear"}
      BY <1>5, <1>7 DEF DeHijo
    <2>2. ASSUME hijo[h].pc = "crear" PROVE FALSE
      <3>1. PICK q : q = hijo[h].pedido
        OBVIOUS
      <3>2. PedidoLegal(c, q) /\ q.que = "crear"
        BY <1>6, <1>7, <2>2, <3>1 DEF HijoLegal
      <3>3. q.que = "pull"
        BY <1>2, <3>2, RobotLegal, Registros
      <3> QED
        BY <3>2, <3>3
    <2> QED
      BY <2>1, <2>2
  <1>9. hijo[HijoDe(c)].pc = "recibir" \/ (EsRobot(c) /\ hijo[HijoDe(c)].pc = "servir")
    BY <1>2, <1>5, <1>8
  <1>10. /\ Conexiones' /\ Legales' /\ Tabla' /\ Lanzamiento' /\ Etapas' /\ Cargas'
         /\ UnaVez' /\ EnSuAeropuerto' /\ EnCinta' = EnCinta
         /\ SinEnviar' = SinEnviar /\ Enviandose' = Enviandose /\ EnCola' = EnCola
    BY <1>2, <1>3, <1>9, Corte
  <1>11. /\ respuesta'[c] = Nada
         /\ \A x \in Clientes \ {c} : respuesta'[x] = respuesta[x]
    BY <1>2, <1>3, <1>9, AlDesconectar
  <1>12. \A b \in Aeropuertos \ {a} : Robot(b) \in Clientes \ {c}
    BY <1>2, SonHijos, ProcesosDistintos
  <1>13. \A b \in Aeropuertos :
           IF Robot(b) = c
           THEN /\ ConexionesCortadas(b)' = ConexionesCortadas(b) + 1
                /\ \E x : /\ Abandonados(b)' \subseteq Abandonados(b) \cup {x}
                          /\ hijo[HijoDe(c)].pc = "recibir" => Abandonados(b)' \subseteq Abandonados(b)
           ELSE /\ Abandonados(b)' = Abandonados(b)
                /\ ConexionesCortadas(b)' = ConexionesCortadas(b)
    BY <1>2, <1>3, <1>9, CortesAlDesconectar
  <1>14. \A b \in Aeropuertos : CuentaPerdidas(b)
    BY <1>2 DEF Perdidas
  <1>15. CASE respuesta[c].que = "msg"
    <2>1. PICK e : /\ AeropuertoDe[DestinoDe[e]] = a
                   /\ respuesta[c].msg.dato = e
      <3>1. respuesta[Robot(a)] \notin {Nada, Bien, BROKER_ERROR}
        BY <1>1, <1>15, Registros
      <3> QED
        BY <1>1, <1>2, <3>1, LoEntregado
    <2>2. Entregados' = Entregados \ {e}
      <3>1. respuesta'[Robot(a)].que # "msg"
        BY <1>1, <1>11, Registros
      <3>2. respuesta[Robot(a)].que = "msg" /\ respuesta[Robot(a)].msg.dato = e
        BY <1>1, <1>15, <2>1
      <3> QED
        BY <1>2, <1>11, <1>12, <3>1, <3>2, SeUsa
    <2>3. hijo[HijoDe(c)].pc = "recibir"
      BY <1>5, <1>6, <1>7, <1>15, Registros DEF DeHijo
    <2>4. /\ EnUnLugar'
          /\ \A b \in Aeropuertos :
               /\ PerdidosDe(b)' \subseteq PerdidosDe(b) \cup {e}
               /\ b # AeropuertoDe[DestinoDe[e]] => PerdidosDe(b)' \subseteq PerdidosDe(b)
      BY <1>2, <1>10, <2>2, Extravio
    <2>5. Perdidas'
      <3>1. ASSUME NEW b \in Aeropuertos PROVE CuentaPerdidas(b)'
        <4>1. CASE b = a
          <5>1. /\ ConexionesCortadas(b)' = ConexionesCortadas(b) + 1
                /\ Abandonados(b)' \subseteq Abandonados(b)
                /\ \E y : PerdidosDe(b)' \subseteq PerdidosDe(b) \cup {y}
            BY <1>1, <1>13, <2>3, <2>4, <4>1
          <5> QED
            BY <1>2, <1>10, <1>14, <5>1, CuentaDePerdidas
        <4>2. CASE b # a
          <5>1. /\ ConexionesCortadas(b)' = ConexionesCortadas(b)
                /\ Abandonados(b)' \subseteq Abandonados(b)
                /\ PerdidosDe(b)' \subseteq PerdidosDe(b)
            BY <1>12, <1>13, <2>1, <2>4, <4>2
          <5> QED
            BY <1>2, <1>10, <1>14, <5>1, CuentaDePerdidas
        <4> QED
          BY <4>1, <4>2
      <3> QED
        BY <3>1 DEF Perdidas
    <2> QED
      BY <1>10, <2>4, <2>5 DEF InvTrasbordo
  <1>16. CASE respuesta[c].que # "msg"
    <2>1. Entregados' = Entregados
      <3>1. respuesta'[c].que # "msg"
        BY <1>11, Registros
      <3> QED
        BY <1>1, <1>11, <1>12, <1>16, <3>1, EntregadosIgual
    <2>2. EnUnLugar' /\ Perdidos' = Perdidos
      BY <1>2, <1>10, <2>1, NadaSeMueve
    <2>3. Perdidas'
      <3>1. ASSUME NEW b \in Aeropuertos PROVE CuentaPerdidas(b)'
        <4>1. PerdidosDe(b)' \subseteq PerdidosDe(b)
          BY <2>2 DEF PerdidosDe
        <4>2. CASE b = a
          <5>1. /\ ConexionesCortadas(b)' = ConexionesCortadas(b) + 1
                /\ \E x : Abandonados(b)' \subseteq Abandonados(b) \cup {x}
            BY <1>1, <1>13, <4>2
          <5> QED
            BY <1>2, <1>10, <1>14, <4>1, <5>1, CuentaDePerdidas
        <4>3. CASE b # a
          <5>1. /\ ConexionesCortadas(b)' = ConexionesCortadas(b)
                /\ Abandonados(b)' \subseteq Abandonados(b)
            BY <1>12, <1>13, <4>3
          <5> QED
            BY <1>2, <1>10, <1>14, <4>1, <5>1, CuentaDePerdidas
        <4> QED
          BY <4>2, <4>3
      <3> QED
        BY <3>1 DEF Perdidas
    <2> QED
      BY <1>10, <2>2, <2>3 DEF InvTrasbordo
  <1> QED
    BY <1>15, <1>16

(* A process ends because the broker answered an error. *)
LEMMA InvTerminar ==
  ASSUME InvTrasbordo, NEW c \in Procesos, Terminar(c)
  PROVE  InvTrasbordo'
PROOF
  <1>1. /\ c \in Clientes /\ Conexiones /\ Legales /\ Perdidas /\ EnUnLugar
    BY SonHijos DEF InvTrasbordo
  <1>2. /\ respuesta[c] = BROKER_ERROR
        /\ Desconectar(c) /\ pc' = [pc EXCEPT ![c] = "muerto"] /\ UNCHANGED datos
    BY DEF Terminar, Pasa
  <1>3. conectado[c]
    BY <1>2 DEF Desconectar
  <1>4. PICK h \in Hijos : h = HijoDe(c) /\ Viva(h)
    BY <1>1, <1>3, HijoVivo
  <1>5. h[1] = c /\ DeHijo(h)
    BY <1>1, <1>4 DEF HijoDe, Conexiones
  <1>6. hijo[HijoDe(c)].pc = "recibir"
    BY <1>2, <1>4, <1>5, Registros DEF DeHijo
  <1>7. c = Lanzador => ~ Lanzado
    BY <1>2, Registros DEF Lanzado, Ocioso
  <1>8. /\ Conexiones' /\ Legales' /\ Tabla' /\ Lanzamiento' /\ Etapas' /\ Cargas'
        /\ UnaVez' /\ EnSuAeropuerto' /\ EnCinta' = EnCinta
        /\ SinEnviar' = SinEnviar /\ Enviandose' = Enviandose /\ EnCola' = EnCola
    BY <1>2, <1>6, <1>7, Corte
  <1>9. /\ respuesta'[c] = Nada
        /\ \A x \in Clientes \ {c} : respuesta'[x] = respuesta[x]
    BY <1>1, <1>2, <1>6, AlDesconectar
  <1>10. Entregados' = Entregados
    <2>1. respuesta'[c].que # "msg" /\ respuesta[c].que # "msg"
      BY <1>2, <1>9, Registros
    <2>2. \A b \in Aeropuertos : Robot(b) \in Clientes
      BY SonHijos, ProcesosDistintos
    <2> QED
      BY <1>9, <2>1, <2>2, EntregadosIgual
  <1>11. EnUnLugar' /\ Perdidos' = Perdidos
    BY <1>1, <1>8, <1>10, NadaSeMueve
  <1>12. \A b \in Aeropuertos :
           IF Robot(b) = c
           THEN /\ ConexionesCortadas(b)' = ConexionesCortadas(b) + 1
                /\ \E x : /\ Abandonados(b)' \subseteq Abandonados(b) \cup {x}
                          /\ hijo[HijoDe(c)].pc = "recibir" => Abandonados(b)' \subseteq Abandonados(b)
           ELSE /\ Abandonados(b)' = Abandonados(b)
                /\ ConexionesCortadas(b)' = ConexionesCortadas(b)
    BY <1>1, <1>2, <1>6, CortesAlDesconectar
  <1>13. Perdidas'
    <2>1. ASSUME NEW b \in Aeropuertos PROVE CuentaPerdidas(b)'
      <3>1. PerdidosDe(b)' \subseteq PerdidosDe(b)
        BY <1>11 DEF PerdidosDe
      <3>2. CuentaPerdidas(b)
        BY <1>1 DEF Perdidas
      <3>3. CASE Robot(b) = c
        <4>1. /\ ConexionesCortadas(b)' = ConexionesCortadas(b) + 1
              /\ \E x : Abandonados(b)' \subseteq Abandonados(b) \cup {x}
          BY <1>12, <3>3
        <4> QED
          BY <1>1, <1>8, <3>1, <3>2, <4>1, CuentaDePerdidas
      <3>4. CASE Robot(b) # c
        <4>1. /\ ConexionesCortadas(b)' = ConexionesCortadas(b)
              /\ Abandonados(b)' \subseteq Abandonados(b)
          BY <1>12, <3>4
        <4> QED
          BY <1>1, <1>8, <3>1, <3>2, <4>1, CuentaDePerdidas
      <3> QED
        BY <3>3, <3>4
    <2> QED
      BY <2>1 DEF Perdidas
  <1> QED
    BY <1>8, <1>11, <1>13 DEF InvTrasbordo

-----------------------------------------------------------------------------
(* The steps of the broker *)

(* A step of a child leaves the processes where they are. *)
LEMMA EtapasEnElBroker ==
  ASSUME Conexiones, Etapas, UNCHANGED <<pc, datos, vida, conectado>>,
         NEW h \in Hijos, hijo[h].pc \in {"servir", "crear"},
         \A x \in Hijos \ {h} : hijo'[x] = hijo[x],
         \A c \in Clientes \ {h[1]} : respuesta'[c] = respuesta[c],
         ~ Viva(h) => UNCHANGED respuesta
  PROVE  Etapas' /\ (Lanzado => Lanzado')
PROOF
  <1>1. /\ VuelosLanzados' = VuelosLanzados
        /\ UNCHANGED <<id_aeropuerto, enviando, pc, vida, conectado>>
    BY LegalEnElBroker DEF datos, controlador
  <1>2. pc \in [Procesos -> Estados] /\ Clientes = Procesos /\ Lanzador \in Procesos
    BY SonHijos, ProcesosDistintos DEF Etapas
  <1>3. Lanzado => Lanzado'
    <2>1. CASE h[1] = Lanzador /\ Viva(h)
      <3>1. HijoDe(Lanzador) = h
        BY <1>2, <2>1, HijoVivo
      <3> QED
        BY <3>1 DEF Lanzado, Ocioso
    <2>2. CASE ~ (h[1] = Lanzador /\ Viva(h))
      <3>1. Quieto(Lanzador)
        BY <1>1, <1>2, <2>2, QuietosEnElBroker
      <3>2. HijoDe(Lanzador)' = HijoDe(Lanzador)
        BY <1>1 DEF HijoDe
      <3> QED
        BY <3>1, <3>2 DEF Quieto, Lanzado, Ocioso, En
    <2> QED
      BY <2>1, <2>2
  <1>4. \A c \in Procesos : SinConexion(c)'
    BY <1>1 DEF Etapas, SinConexion, En
  <1>5. (~ En(Generador, "sin_lanzar") => Lanzado)'
    BY <1>1, <1>3 DEF Etapas, En
  <1>6. \A d \in Destinos : EtapaControlador(d)'
    BY <1>1, <1>3 DEF Etapas, EtapaControlador, En
  <1>7. ASSUME NEW a \in Aeropuertos PROVE EtapaRobot(a)'
    <2>1. EtapaRobot(a) /\ Robot(a) \in Clientes
      BY <1>2, ProcesosDistintos DEF Etapas
    <2>2. HijoDe(Robot(a))' = HijoDe(Robot(a))
      BY <1>1 DEF HijoDe
    <2>3. ASSUME En(Robot(a), "libre") PROVE hijo'[HijoDe(Robot(a))].pc = "recibir"
      <3>1. HijoDe(Robot(a)) \in Hijos /\ hijo[HijoDe(Robot(a))].pc = "recibir"
        BY <2>1, <2>3, HijoVivo DEF EtapaRobot, En
      <3> QED
        BY <3>1
    <2> QED
      BY <1>1, <2>1, <2>2, <2>3 DEF EtapaRobot, En
  <1> QED
    BY <1>1, <1>2, <1>3, <1>4, <1>5, <1>6, <1>7 DEF Etapas

(* A request that is not a robot's is of a client that waits for it. *)
LEMMA NoEsRobot ==
  ASSUME Conexiones, Legales, NEW h \in Hijos, hijo[h].pc \in {"servir", "crear"},
         hijo[h].pedido.que # "pull"
  PROVE  /\ ~ EsRobot(h[1]) /\ Viva(h) /\ HijoDe(h[1]) = h /\ respuesta[h[1]] = Nada
         /\ \A a \in Aeropuertos : Robot(a) # h[1]
PROOF
  <1>1. PICK q : q = hijo[h].pedido
    OBVIOUS
  <1>2. PedidoLegal(h[1], q) /\ h[1] \in Clientes /\ h[2] \in Nat /\ vida[h[1]] \in Nat
    BY <1>1, SonHijos DEF Legales, HijoLegal, Conexiones, TiposBroker
  <1>3. ~ EsRobot(h[1])
    BY <1>1, <1>2, RobotLegal, Registros
  <1>4. DeHijo(h)
    BY DEF Conexiones
  <1>5. SinHijo.pc = "sin_conexion"
    BY DEF SinHijo
  <1>6. Viva(h)
    BY <1>2, <1>3, <1>4, <1>5 DEF DeHijo
  <1> QED
    BY <1>2, <1>3, <1>4, <1>6, HijoVivo DEF EsRobot, DeHijo

(* What an answer of the broker leaves as it is *)
LEMMA PasoDelBroker ==
  ASSUME InvTrasbordo, UNCHANGED <<pc, datos>>, NEW h \in Hijos, NEW r, Responder(h, r),
         hijo[h].pc \in {"servir", "crear"}, Viva(h) => RespuestaLegal(h[1], r)
  PROVE  /\ Conexiones' /\ Legales' /\ Cargas' /\ Etapas'
         /\ EnSuAeropuerto' /\ EnCinta' = EnCinta /\ SinEnviar' = SinEnviar
         /\ VuelosLanzados' = VuelosLanzados /\ Llegados' = Llegados
         /\ UNCHANGED <<pc, vida, conectado, cinta>>
         /\ \A x \in Hijos : hijo'[x].pc = "crear" => hijo'[x] = hijo[x]
         /\ \A x \in Hijos \ {h} : hijo'[x] = hijo[x]
         /\ hijo'[h].pc = IF Viva(h) THEN "recibir" ELSE "fin"
         /\ h[1] # Lanzador \/ ~ Viva(h) => Quieto(Lanzador)
         /\ \A c \in Clientes \ {h[1]} : respuesta'[c] = respuesta[c]
PROOF
  <1>1. Conexiones /\ Legales /\ Cargas /\ Etapas /\ EnSuAeropuerto /\ Lanzador \in Procesos
    BY ProcesosDistintos DEF InvTrasbordo
  <1>2. /\ Conexiones' /\ UNCHANGED <<vida, conectado>>
        /\ ~ Viva(h) => UNCHANGED respuesta
        /\ \A c \in Clientes \ {h[1]} : respuesta'[c] = respuesta[c]
        /\ hijo'[h].pc = IF Viva(h) THEN "recibir" ELSE "fin"
        /\ \A x \in Hijos \ {h} : hijo'[x] = hijo[x]
    BY <1>1, AlResponder
  <1>3. Legales'
    BY <1>1, LegalesAlResponder
  <1>4. /\ Cargas' /\ Llegados' = Llegados /\ SinEnviar' = SinEnviar
        /\ UNCHANGED <<equipajes_a_cargar, enviando, id_aeropuerto, cinta>>
    BY <1>1, DatosIguales
  <1>5. VuelosLanzados' = VuelosLanzados
    BY LegalEnElBroker
  <1>6. Etapas'
    BY <1>1, <1>2, EtapasEnElBroker
  <1>7. EnSuAeropuerto' /\ EnCinta' = EnCinta
    BY <1>1, <1>4, <1>5, CintaIgual
  <1>8. h[1] # Lanzador \/ ~ Viva(h) => Quieto(Lanzador)
    BY <1>1, <1>2, QuietosEnElBroker
  <1> QED
    BY <1>2, <1>3, <1>4, <1>5, <1>6, <1>7, <1>8

(* A child takes a place of the table for a name. *)
LEMMA InvAllocateQueueId ==
  ASSUME InvTrasbordo, UNCHANGED <<pc, datos>>, NEW h \in Hijos, AllocateQueueId(h)
  PROVE  InvTrasbordo'
PROOF
  <1>1. /\ Conexiones /\ Legales /\ Tabla /\ Lanzamiento /\ Etapas /\ Cargas /\ UnaVez
        /\ Lanzador \in Clientes
    BY SonHijos, ProcesosDistintos DEF InvTrasbordo
  <1>2. PICK l, q : l = Min(Libres) /\ q = hijo[h].pedido
    OBVIOUS
  <1>3. /\ hijo[h].pc = "servir" /\ q.que = "crear" /\ Libres # {}
        /\ proj_id_to_queue_id' = [proj_id_to_queue_id EXCEPT ![l] = q.cola]
        /\ hijo' = [hijo EXCEPT ![h].pc = "crear", ![h].lugar = l]
        /\ UNCHANGED <<ipc, vida, conectado, respuesta>>
    BY <1>2 DEF AllocateQueueId, Sirve, conexion
  <1>4. l \in Libres /\ l \in Nat
    <2>1. Libres \in SUBSET Nat
      BY LugarDeNombre DEF Libres
    <2> QED
      BY <1>2, <1>3, <2>1, MinEsElMenor
  <1>5. /\ Viva(h) /\ HijoDe(h[1]) = h /\ respuesta[h[1]] = Nada
        /\ \A a \in Aeropuertos : Robot(a) # h[1]
    BY <1>1, <1>2, <1>3, NoEsRobot
  <1>6. hijo \in [Hijos -> [pc : PcHijo, pedido : Pedidos, lugar : Nat]]
    BY <1>1 DEF Conexiones, TiposBroker
  <1>7. /\ hijo' \in [Hijos -> [pc : PcHijo, pedido : Pedidos, lugar : Nat]]
        /\ hijo'[h].pc = "crear" /\ hijo'[h].pedido = q /\ hijo'[h].lugar = l
        /\ \A x \in Hijos \ {h} : hijo'[x] = hijo[x]
    BY <1>2, <1>3, <1>4, <1>6 DEF PcHijo
  <1>8. \A x \in Hijos : Viva(x)' <=> Viva(x)
    BY <1>3 DEF Viva
  <1>9. Conexiones'
    <2>1. TiposBroker'
      BY <1>1, <1>3, <1>7 DEF Conexiones, TiposBroker
    <2>2. \A c \in Clientes : DeCliente(c)'
      BY <1>1, <1>3 DEF Conexiones, DeCliente
    <2>3. ASSUME NEW x \in Hijos PROVE DeHijo(x)'
      <3>1. DeHijo(x)
        BY <1>1 DEF Conexiones
      <3>2. CASE x = h
        <4>1. ~ (h[2] > vida[h[1]])
          BY <1>5, <1>1, SonHijos DEF Viva, Conexiones, TiposBroker
        <4> QED
          BY <3>2, <4>1, <1>3, <1>5, <1>7, <1>8 DEF DeHijo
      <3>3. CASE x # h
        BY <3>1, <3>3, <1>3, <1>7, <1>8 DEF DeHijo
      <3> QED
        BY <3>2, <3>3
    <2> QED
      BY <2>1, <2>2, <2>3 DEF Conexiones
  <1>10. PedidoLegal(h[1], q)
    BY <1>1, <1>2, <1>3 DEF Legales, HijoLegal
  <1>11. Legales'
    <2>1. /\ \A c, r : PedidoLegal(c, r) => PedidoLegal(c, r)'
          /\ \A c, r : RespuestaLegal(c, r) => RespuestaLegal(c, r)'
      BY LegalEnElBroker
    <2>2. ASSUME NEW x \in Hijos PROVE HijoLegal(x)'
      <3>1. HijoLegal(x)
        BY <1>1 DEF Legales
      <3>2. CASE x = h
        BY <3>2, <1>3, <1>7, <1>10, <2>1 DEF HijoLegal
      <3>3. CASE x # h
        BY <3>1, <3>3, <1>7, <2>1 DEF HijoLegal
      <3> QED
        BY <3>2, <3>3
    <2>3. ASSUME NEW c \in Clientes PROVE RespuestaLegal(c, respuesta[c])'
      <3>1. PICK r : r = respuesta[c]
        OBVIOUS
      <3>2. RespuestaLegal(c, r)
        BY <1>1, <3>1 DEF Legales
      <3>3. RespuestaLegal(c, r)' /\ r = respuesta'[c]
        BY <1>3, <2>1, <3>1, <3>2
      <3> QED
        BY <3>3
    <2> QED
      BY <2>2, <2>3 DEF Legales
  <1>12. /\ Cargas' /\ Llegados' = Llegados /\ SinEnviar' = SinEnviar
         /\ UNCHANGED <<equipajes_a_cargar, enviando, id_aeropuerto, cinta>>
    BY <1>1, DatosIguales
  <1>13. VuelosLanzados' = VuelosLanzados
    BY LegalEnElBroker
  (* only the launcher of the broker and the generator create queues *)
  <1>14. \/ h[1] = Lanzador /\ pc[Lanzador] = "intercargo" /\ q = Crear(ColaZonas)
         \/ h[1] = Lanzador /\ pc[Lanzador] = "listo" /\ q = Crear(ColaIntercargo)
         \/ h[1] # Lanzador /\ q = Crear(ColaEntrantes)
    <2>1. \A m, cola : Poner(cola, m).que # "crear" /\ Sacar(cola, m).que # "crear"
      BY Registros
    <2>2. \/ h[1] = Lanzador /\ PedidoLanzador(q)
          \/ h[1] = Generador /\ PedidoGenerador(q)
      BY <1>3, <1>10, <2>1 DEF PedidoLegal, PedidoControlador, PedidoVuelo
    <2>3. Lanzador # Generador
      BY ProcesosDistintos
    <2> QED
      BY <1>3, <2>1, <2>2, <2>3 DEF PedidoLanzador, PedidoGenerador, En
  <1>15. PICK cola \in Colas : q.cola = cola
    BY <1>14, Registros, NombresDeColas
  <1>16. /\ Tabla'
         /\ LugaresDe(cola)' = LugaresDe(cola) \cup {l}
         /\ cola # ColaIntercargo => LugaresDe(ColaIntercargo)' = LugaresDe(ColaIntercargo)
         /\ l \in Lugares
    <2>1. proj_id_to_queue_id' = [proj_id_to_queue_id EXCEPT ![l] = cola]
      BY <1>3, <1>15
    <2>2. hijo'[h].lugar = l /\ hijo'[h].pedido.cola = cola
      BY <1>7, <1>15
    <2>3. UNCHANGED ipc
      BY <1>3
    <2>4. /\ Tabla /\ l \in Libres /\ \A x \in Hijos \ {h} : hijo'[x] = hijo[x]
          /\ VuelosLanzados' = VuelosLanzados /\ Llegados' = Llegados
      BY <1>1, <1>4, <1>7, <1>12, <1>13
    <2>5. /\ Tabla'
          /\ LugaresDe(cola)' = LugaresDe(cola) \cup {l}
          /\ l \in Lugares /\ proj_id_to_queue_id'[l] = cola
          /\ \A k \in Lugares \ {l} : proj_id_to_queue_id'[k] = proj_id_to_queue_id[k]
      <3>1. Tabla'
        BY <2>1, <2>2, <2>3, <2>4, TablaAlTomarLugar
      <3>2. LugaresDe(cola)' = LugaresDe(cola) \cup {l}
        BY <2>1, <2>2, <2>3, <2>4, TablaAlTomarLugar
      <3>3. /\ l \in Lugares /\ proj_id_to_queue_id'[l] = cola
            /\ \A k \in Lugares \ {l} : proj_id_to_queue_id'[k] = proj_id_to_queue_id[k]
        BY <2>1, <2>4 DEF Tabla, Libres
      <3> QED
        BY <3>1, <3>2, <3>3
    <2>6. ASSUME cola # ColaIntercargo
          PROVE  LugaresDe(ColaIntercargo)' = LugaresDe(ColaIntercargo)
      <3>1. proj_id_to_queue_id[l] = Libre /\ Libre # ColaIntercargo
        BY <1>4, NombresDeColas DEF Libres
      <3> QED
        BY <2>5, <2>6, <3>1 DEF LugaresDe
    <2> QED
      BY <2>5, <2>6
  <1>17. Etapas' /\ (Lanzado => Lanzado')
    <2>1. UNCHANGED <<vida, conectado>>
      BY <1>3
    <2>2. UNCHANGED respuesta /\ \A c \in Clientes \ {h[1]} : respuesta'[c] = respuesta[c]
      BY <1>3
    <2>3. hijo[h].pc \in {"servir", "crear"}
      BY <1>3
    <2> QED
      BY <1>1, <1>7, <2>1, <2>2, <2>3, EtapasEnElBroker
  <1>18. Lanzamiento'
    <2>1. /\ UNCHANGED <<vida, conectado>> /\ HijoDe(Lanzador)' = HijoDe(Lanzador)
          /\ UNCHANGED pc
          /\ pc[Lanzador] \in {"intercargo", "listo"} => conectado[Lanzador]
      BY <1>1, <1>3 DEF HijoDe, Lanzamiento
    <2>2. CASE h[1] = Lanzador /\ pc[Lanzador] = "intercargo" /\ q = Crear(ColaZonas)
      <3>1. LugaresDe(ColaIntercargo)' = LugaresDe(ColaIntercargo)
        BY <1>15, <1>16, <2>2, Registros, NombresDeColas
      <3>2. LugaresDe(ColaIntercargo) = {}
        BY <1>1, <2>2 DEF Lanzamiento
      <3>3. "intercargo" # "listo"
        OBVIOUS
      <3> QED
        BY <2>1, <2>2, <3>1, <3>2, <3>3 DEF Lanzamiento, En
    <2>3. CASE h[1] = Lanzador /\ pc[Lanzador] = "listo" /\ q = Crear(ColaIntercargo)
      <3>1. LugaresDe(ColaIntercargo)' = LugaresDe(ColaIntercargo) \cup {l}
        BY <1>15, <1>16, <2>3, Registros
      <3>2. LugaresDe(ColaIntercargo) = {}
        BY <1>1, <1>3, <1>5, <2>3 DEF Lanzamiento, En
      <3>3. LugaresDe(ColaIntercargo)' = {l}
        BY <3>1, <3>2
      <3>4. /\ "listo" # "sin_lanzar" /\ "listo" # "intercargo"
            /\ "crear" # "servir" /\ "crear" # "recibir"
        OBVIOUS
      <3>5. /\ pc'[Lanzador] = "listo" /\ conectado'[Lanzador]
            /\ HijoDe(Lanzador)' = h
        BY <1>5, <2>1, <2>3
      <3> QED
        BY <1>7, <3>3, <3>4, <3>5 DEF Lanzamiento, En
    <2>4. CASE h[1] # Lanzador /\ q = Crear(ColaEntrantes)
      <3>1. LugaresDe(ColaIntercargo)' = LugaresDe(ColaIntercargo)
        BY <1>15, <1>16, <2>4, Registros, NombresDeColas
      <3>2. Quieto(Lanzador)
        <4>1. UNCHANGED <<pc, vida, conectado>>
          BY <2>1
        <4>2. \A x \in Clientes \ {h[1]} : respuesta'[x] = respuesta[x]
          BY <1>3
        <4>3. Lanzador \in Procesos
          BY ProcesosDistintos
        <4> QED
          BY <1>1, <1>5, <1>7, <2>4, <4>1, <4>2, <4>3, QuietosEnElBroker
      <3>3. DOMAIN ipc \subseteq DOMAIN ipc'
        BY <1>3
      <3> QED
        BY <1>1, <3>1, <3>2, <3>3, LanzadorQuieto
    <2> QED
      BY <1>14, <2>2, <2>3, <2>4
  <1>19. EnCola' = EnCola /\ UnaVez'
    <2>1. \A k \in DOMAIN ipc : k # l /\ k \in Lugares
      BY <1>1, <1>4, NombresDeColas DEF Tabla, Libres
    <2>2. \A k \in DOMAIN ipc : proj_id_to_queue_id'[k] = proj_id_to_queue_id[k]
      BY <1>1, <1>3, <2>1 DEF Tabla
    <2>3. ipc' = ipc
      BY <1>3
    <2> QED
      BY <1>1, <1>16, <2>2, <2>3, ColaIgual
  <1>20. Enviandose' = Enviandose
    <2>1. ~ EnviaAlgo(h) /\ ~ EnviaAlgo(h)'
      BY <1>2, <1>3, <1>7 DEF EnviaAlgo, Sirve
    <2> QED
      BY <1>7, <2>1, EnviandoseIgual
  <1>21. Entregados' = Entregados
    BY <1>3, EntregadosIgual
  <1>22. \A a \in Aeropuertos : /\ Abandonados(a)' = Abandonados(a)
                                /\ ConexionesCortadas(a)' = ConexionesCortadas(a)
    <2>1. UNCHANGED <<vida, conectado>>
      BY <1>3
    <2> QED
      BY <1>5, <1>7, <2>1, SinCortes
  <1>23. EnUnLugar' /\ EnSuAeropuerto' /\ Perdidas'
    BY <1>9, <1>12, <1>13, <1>19, <1>20, <1>21, <1>22, NingunEquipaje
  <1> QED
    BY <1>9, <1>11, <1>12, <1>16, <1>17, <1>18, <1>19, <1>23 DEF InvTrasbordo

(* A child creates the queue of the place it took. *)
LEMMA InvCrearCola ==
  ASSUME InvTrasbordo, UNCHANGED <<pc, datos>>, NEW h \in Hijos, CrearCola(h)
  PROVE  InvTrasbordo'
PROOF
  <1>1. /\ Conexiones /\ Legales /\ Tabla /\ Lanzamiento /\ UnaVez /\ Lanzador \in Clientes
    BY SonHijos, ProcesosDistintos DEF InvTrasbordo
  <1>2. PICK l : l = hijo[h].lugar
    OBVIOUS
  <1>3. /\ hijo[h].pc = "crear" /\ Responder(h, Bien) /\ UNCHANGED proj_id_to_queue_id
        /\ ipc' = [k \in DOMAIN ipc \cup {l} |-> IF k \in DOMAIN ipc THEN ipc[k] ELSE <<>>]
    BY <1>2 DEF CrearCola
  <1>4. hijo[h].pc \in {"servir", "crear"}
    BY <1>3
  <1>5. hijo[h].pedido.que # "pull"
    BY <1>1, <1>3 DEF Legales, HijoLegal
  <1>6. /\ ~ EsRobot(h[1]) /\ Viva(h) /\ HijoDe(h[1]) = h
        /\ \A a \in Aeropuertos : Robot(a) # h[1]
    BY <1>1, <1>4, <1>5, NoEsRobot
  <1>7. RespuestaLegal(h[1], Bien)
    BY DEF RespuestaLegal
  <1>8. /\ Conexiones' /\ Legales' /\ Cargas' /\ Etapas'
        /\ EnSuAeropuerto' /\ EnCinta' = EnCinta /\ SinEnviar' = SinEnviar
        /\ VuelosLanzados' = VuelosLanzados /\ Llegados' = Llegados
        /\ UNCHANGED <<pc, vida, conectado, cinta>>
        /\ \A x \in Hijos : hijo'[x].pc = "crear" => hijo'[x] = hijo[x]
        /\ \A x \in Hijos \ {h} : hijo'[x] = hijo[x]
        /\ hijo'[h].pc = "recibir"
        /\ h[1] # Lanzador => Quieto(Lanzador)
        /\ \A c \in Clientes \ {h[1]} : respuesta'[c] = respuesta[c]
    BY <1>3, <1>4, <1>6, <1>7, PasoDelBroker
  <1>9. l \in Lugares /\ proj_id_to_queue_id[l] \in Colas
    BY <1>1, <1>2, <1>3 DEF Tabla
  <1>10. /\ Tabla'
         /\ DOMAIN ipc' = DOMAIN ipc \cup {l}
         /\ \A k \in DOMAIN ipc : ipc'[k] = ipc[k]
         /\ l \notin DOMAIN ipc => ipc'[l] = <<>>
    BY <1>1, <1>3, <1>8, <1>9, TablaAlCrear
  <1>11. LugaresDe(ColaIntercargo)' = LugaresDe(ColaIntercargo)
    BY <1>3 DEF LugaresDe
  <1>12. Lanzamiento'
    <2>1. CASE h[1] # Lanzador
      <3>1. DOMAIN ipc \subseteq DOMAIN ipc'
        BY <1>10
      <3> QED
        BY <1>1, <1>8, <1>11, <2>1, <3>1, LanzadorQuieto
    <2>2. CASE h[1] = Lanzador
      <3>1. HijoDe(Lanzador)' = h /\ HijoDe(Lanzador) = h
        BY <1>6, <1>8, <2>2 DEF HijoDe
      <3>2. respuesta'[Lanzador] = Bien
        BY <1>1, <1>3, <1>4, <1>6, <2>2, AlResponder
      <3>3. pc'[Lanzador] \in {"sin_lanzar", "intercargo"} => LugaresDe(ColaIntercargo)' = {}
        BY <1>1, <1>8, <1>11 DEF Lanzamiento
      <3>4. pc'[Lanzador] \in {"intercargo", "listo"} => conectado'[Lanzador]
        BY <1>1, <1>8 DEF Lanzamiento
      <3>5. pc'[Lanzador] = "listo" => \E k \in DOMAIN ipc' : LugaresDe(ColaIntercargo)' = {k}
        BY <1>1, <1>2, <1>3, <1>8, <1>10, <1>11, <3>1 DEF Lanzamiento, En
      <3>6. "recibir" # "servir" /\ "recibir" # "crear"
        OBVIOUS
      <3> QED
        BY <1>8, <3>1, <3>2, <3>3, <3>4, <3>5, <3>6 DEF Lanzamiento, En
    <2> QED
      BY <2>1, <2>2
  <1>13. EnCola' = EnCola /\ UnaVez'
    <2>1. \A k \in DOMAIN ipc : proj_id_to_queue_id[k] = ColaIntercargo =>
            k \in DOMAIN ipc' /\ proj_id_to_queue_id'[k] = ColaIntercargo /\ ipc'[k] = ipc[k]
      BY <1>3, <1>10
    <2>2. \A k \in DOMAIN ipc' : proj_id_to_queue_id'[k] = ColaIntercargo =>
            \/ k \in DOMAIN ipc /\ proj_id_to_queue_id[k] = ColaIntercargo
            \/ ipc'[k] = <<>>
      BY <1>3, <1>10
    <2> QED
      BY <1>1, <1>10, <2>1, <2>2, ColaIgual
  <1>14. Enviandose' = Enviandose
    <2>1. ~ EnviaAlgo(h) /\ ~ EnviaAlgo(h)'
      BY <1>3, <1>8 DEF EnviaAlgo, Sirve
    <2> QED
      BY <1>8, <2>1, EnviandoseIgual
  <1>15. Entregados' = Entregados
    <2>1. \A a \in Aeropuertos : Robot(a) \in Clientes \ {h[1]}
      BY <1>6, SonHijos, ProcesosDistintos
    <2> QED
      BY <1>8, <2>1, EntregadosIgual
  <1>16. \A a \in Aeropuertos : /\ Abandonados(a)' \subseteq Abandonados(a)
                                /\ ConexionesCortadas(a)' = ConexionesCortadas(a)
    BY <1>1, <1>3, <1>4, CortesAlResponder
  <1>17. EnUnLugar' /\ EnSuAeropuerto' /\ Perdidas'
    <2>1. UNCHANGED cinta /\ VuelosLanzados \subseteq VuelosLanzados' /\ Llegados \subseteq Llegados'
      BY <1>8
    <2> QED
      BY <1>8, <1>13, <1>14, <1>15, <1>16, <2>1, NingunEquipaje
  <1> QED
    BY <1>8, <1>10, <1>12, <1>13, <1>17 DEF InvTrasbordo

(* While a bag is being sent the queue between airports is there. *)
LEMMA HayColaIntercargo ==
  ASSUME InvTrasbordo, NEW h \in Hijos, EnviaAlgo(h)
  PROVE  LugarDe(h) \in DOMAIN ipc
PROOF
  <1>1. Conexiones /\ Legales /\ Lanzamiento /\ Etapas
    BY DEF InvTrasbordo
  <1>2. PICK e \in PorViajar : Viva(h) /\ h[1] = Controlador(DestinoDe[e])
    BY <1>1, QuienEnvia
  <1>3. DestinoDe[e] \in Destinos
    BY SuposicionTrasbordo DEF PorViajar
  <1>4. PICK d \in Destinos : h[1] = Controlador(d)
    BY <1>2, <1>3
  <1>5. ~ En(Controlador(d), "sin_lanzar")
    BY <1>1, <1>2, <1>4, ProcesosDistintos DEF Etapas, SinConexion, Viva
  <1>6. Lanzado
    BY <1>1, <1>5 DEF Etapas, EtapaControlador
  <1>7. PICK l \in DOMAIN ipc : LugaresDe(ColaIntercargo) = {l}
    BY <1>1, <1>6, Registros DEF Lanzado, Ocioso, Lanzamiento
  <1>8. LugarDe(h) = GetProjId(ColaIntercargo)
    BY DEF LugarDe, EnviaAlgo
  <1> QED
    BY <1>7, <1>8, LugarDeNombre

(* A child answers that there is no queue. *)
LEMMA InvNoHayCola ==
  ASSUME InvTrasbordo, UNCHANGED <<pc, datos>>, NEW h \in Hijos, NoHayCola(h)
  PROVE  InvTrasbordo'
PROOF
  <1>1. /\ Conexiones /\ Legales /\ Tabla /\ Lanzamiento /\ UnaVez /\ Lanzador \in Clientes
    BY SonHijos, ProcesosDistintos DEF InvTrasbordo
  <1>2. /\ hijo[h].pc = "servir" /\ Responder(h, BROKER_ERROR)
        /\ UNCHANGED <<proj_id_to_queue_id, ipc>>
        /\ hijo[h].pedido.que = "push" => LugarDe(h) \notin DOMAIN ipc
    BY DEF NoHayCola, Sirve
  <1>3. hijo[h].pc \in {"servir", "crear"}
    BY <1>2
  <1>4. RespuestaLegal(h[1], BROKER_ERROR)
    BY DEF RespuestaLegal
  <1>5. /\ Conexiones' /\ Legales' /\ Cargas' /\ Etapas'
        /\ EnSuAeropuerto' /\ EnCinta' = EnCinta /\ SinEnviar' = SinEnviar
        /\ VuelosLanzados' = VuelosLanzados /\ Llegados' = Llegados
        /\ UNCHANGED <<pc, vida, conectado, cinta>>
        /\ \A x \in Hijos : hijo'[x].pc = "crear" => hijo'[x] = hijo[x]
        /\ \A x \in Hijos \ {h} : hijo'[x] = hijo[x]
        /\ hijo'[h].pc = IF Viva(h) THEN "recibir" ELSE "fin"
        /\ h[1] # Lanzador \/ ~ Viva(h) => Quieto(Lanzador)
        /\ \A c \in Clientes \ {h[1]} : respuesta'[c] = respuesta[c]
    BY <1>2, <1>3, <1>4, PasoDelBroker
  <1>6. VuelosLanzados \subseteq VuelosLanzados' /\ Llegados \subseteq Llegados'
    BY <1>5
  <1>7. Tabla'
    BY <1>1, <1>2, <1>5, <1>6, TablaIgual
  <1>8. LugaresDe(ColaIntercargo)' = LugaresDe(ColaIntercargo)
    BY <1>2 DEF LugaresDe
  <1>9. Lanzamiento'
    <2>1. CASE h[1] # Lanzador \/ ~ Viva(h)
      <3>1. DOMAIN ipc \subseteq DOMAIN ipc'
        BY <1>2
      <3> QED
        BY <1>1, <1>5, <1>8, <2>1, <3>1, LanzadorQuieto
    <2>2. CASE h[1] = Lanzador /\ Viva(h)
      <3>1. HijoDe(Lanzador) = h
        BY <1>1, <2>2, HijoVivo
      <3>2. HijoDe(Lanzador)' = h
        BY <1>5, <3>1 DEF HijoDe
      <3>3. respuesta'[Lanzador] = BROKER_ERROR
        BY <1>1, <1>2, <1>3, <2>2, AlResponder
      <3>4. pc'[Lanzador] \in {"sin_lanzar", "intercargo"} => LugaresDe(ColaIntercargo)' = {}
        BY <1>1, <1>5, <1>8 DEF Lanzamiento
      <3>5. pc'[Lanzador] \in {"intercargo", "listo"} => conectado'[Lanzador]
        BY <1>1, <1>5 DEF Lanzamiento
      <3>6. hijo'[h].pc = "recibir" /\ "recibir" # "servir" /\ "recibir" # "crear"
        BY <1>5, <2>2
      <3> QED
        BY <3>2, <3>3, <3>4, <3>5, <3>6 DEF Lanzamiento, En
    <2> QED
      BY <2>1, <2>2
  <1>10. EnCola' = EnCola /\ UnaVez'
    BY <1>1, <1>2, <1>7, ColaIgual
  <1>11. Enviandose' = Enviandose
    <2>1. ~ EnviaAlgo(h)
      BY <1>2, HayColaIntercargo DEF EnviaAlgo, Sirve
    <2>2. ~ EnviaAlgo(h)'
      BY <1>5 DEF EnviaAlgo, Sirve
    <2> QED
      BY <1>5, <2>1, <2>2, EnviandoseIgual
  <1>12. Entregados' = Entregados
    <2>1. /\ Viva(h) => respuesta[h[1]] = Nada /\ respuesta'[h[1]] = BROKER_ERROR
          /\ ~ Viva(h) => UNCHANGED respuesta
      BY <1>1, <1>2, <1>3, AlResponder
    <2>2. \A a \in Aeropuertos : Robot(a) \in Clientes
      BY SonHijos, ProcesosDistintos
    <2>3. Nada.que # "msg" /\ BROKER_ERROR.que # "msg"
      BY Registros
    <2> QED
      BY <1>5, <2>1, <2>2, <2>3, EntregadosIgual
  <1>13. \A a \in Aeropuertos : /\ Abandonados(a)' \subseteq Abandonados(a)
                                /\ ConexionesCortadas(a)' = ConexionesCortadas(a)
    BY <1>1, <1>2, <1>3, CortesAlResponder
  <1>14. EnUnLugar' /\ EnSuAeropuerto' /\ Perdidas'
    <2>1. UNCHANGED cinta
      BY <1>5
    <2> QED
      BY <1>5, <1>6, <1>10, <1>11, <1>12, <1>13, <2>1, NingunEquipaje
  <1> QED
    BY <1>5, <1>7, <1>9, <1>10, <1>14 DEF InvTrasbordo

(* A child puts a message in a queue. *)
LEMMA InvPush ==
  ASSUME InvTrasbordo, UNCHANGED <<pc, datos>>, NEW h \in Hijos, Push(h)
  PROVE  InvTrasbordo'
PROOF
  <1>1. /\ Conexiones /\ Legales /\ Tabla /\ Lanzamiento /\ UnaVez /\ EnUnLugar
        /\ Lanzador \in Clientes /\ Perdidas
    BY SonHijos, ProcesosDistintos DEF InvTrasbordo
  <1>2. PICK l, q : l = LugarDe(h) /\ q = hijo[h].pedido
    OBVIOUS
  <1>3. /\ hijo[h].pc = "servir" /\ q.que = "push" /\ l \in DOMAIN ipc
        /\ ipc' = [ipc EXCEPT ![l] = Append(@, q.msg)]
        /\ Responder(h, Bien) /\ UNCHANGED proj_id_to_queue_id
    BY <1>2 DEF Push, Sirve
  <1>4. hijo[h].pc \in {"servir", "crear"} /\ hijo[h].pedido.que # "pull"
    BY <1>2, <1>3
  <1>5. /\ ~ EsRobot(h[1]) /\ Viva(h) /\ HijoDe(h[1]) = h
        /\ \A a \in Aeropuertos : Robot(a) # h[1]
    BY <1>1, <1>4, NoEsRobot
  <1>6. RespuestaLegal(h[1], Bien)
    BY DEF RespuestaLegal
  <1>7. /\ Conexiones' /\ Legales' /\ Cargas' /\ Etapas'
        /\ EnSuAeropuerto' /\ EnCinta' = EnCinta /\ SinEnviar' = SinEnviar
        /\ VuelosLanzados' = VuelosLanzados /\ Llegados' = Llegados
        /\ UNCHANGED <<pc, vida, conectado, cinta>>
        /\ \A x \in Hijos : hijo'[x].pc = "crear" => hijo'[x] = hijo[x]
        /\ \A x \in Hijos \ {h} : hijo'[x] = hijo[x]
        /\ hijo'[h].pc = "recibir"
        /\ h[1] # Lanzador => Quieto(Lanzador)
        /\ \A c \in Clientes \ {h[1]} : respuesta'[c] = respuesta[c]
    BY <1>3, <1>4, <1>5, <1>6, PasoDelBroker
  <1>8. PedidoLegal(h[1], q)
    BY <1>1, <1>2, <1>4 DEF Legales, HijoLegal
  (* what is put in a queue is one of its messages *)
  <1>9. /\ h[1] # Lanzador
        /\ \E cola \in Colas : q.cola = cola /\ q.msg \in MensajesDe(cola)
    <2>1. \A cola, n : Crear(cola).que # "push" /\ Sacar(cola, n).que # "push"
      BY Registros
    <2>2. \/ h[1] = Generador /\ PedidoGenerador(q)
          \/ \E d \in Destinos : h[1] = Controlador(d) /\ PedidoControlador(d, q)
          \/ \E v \in Vuelos : h[1] = Vuelo(v) /\ PedidoVuelo(v, q)
      BY <1>3, <1>8, <2>1 DEF PedidoLegal, PedidoLanzador
    <2>3. h[1] # Lanzador
      BY <2>2, ProcesosDistintos
    <2>4. \/ \E m \in MensajesDe(ColaEntrantes) : q = Poner(ColaEntrantes, m)
          \/ \E e \in PorViajar : q = Poner(ColaIntercargo, Traslado(e))
          \/ \E v \in VuelosLanzados : q = Poner(ColaZonas, Zona(v))
      BY <1>3, <2>1, <2>2 DEF PedidoGenerador, PedidoControlador, PedidoVuelo
    <2>5. \E cola \in Colas : \E m \in MensajesDe(cola) : q = Poner(cola, m)
      BY <2>4, NombresDeColas
    <2> QED
      BY <2>3, <2>5, Registros
  <1>10. PICK cola \in Colas : q.cola = cola /\ q.msg \in MensajesDe(cola)
    BY <1>9
  <1>11. l \in Lugares /\ proj_id_to_queue_id[l] = cola
    <2>1. l \in Lugares /\ l = GetProjId(cola)
      BY <1>1, <1>2, <1>3, <1>10 DEF Tabla, LugarDe
    <2> QED
      BY <2>1, LugarDeNombre DEF LugaresDe
  <1>12. Tabla'
    <2>1. PICK z : z = Append(ipc[l], q.msg) /\ z \in Seq(MensajesDe(proj_id_to_queue_id[l]))
      <3>1. ipc[l] \in Seq(MensajesDe(cola))
        BY <1>1, <1>3, <1>11 DEF Tabla
      <3>2. Append(ipc[l], q.msg) \in Seq(MensajesDe(cola))
        BY <1>10, <3>1
      <3> QED
        BY <1>11, <3>2
    <2>2. ipc' = [ipc EXCEPT ![l] = z]
      BY <1>3, <2>1
    <2> QED
      BY <1>1, <1>3, <1>7, <2>1, <2>2, TablaAlCambiarCola
  <1>13. Lanzamiento'
    <2>1. LugaresDe(ColaIntercargo)' = LugaresDe(ColaIntercargo) /\ DOMAIN ipc \subseteq DOMAIN ipc'
      BY <1>3 DEF LugaresDe
    <2> QED
      BY <1>1, <1>7, <1>9, <2>1, LanzadorQuieto
  <1>14. Entregados' = Entregados
    <2>1. \A a \in Aeropuertos : Robot(a) \in Clientes \ {h[1]}
      BY <1>5, SonHijos, ProcesosDistintos
    <2> QED
      BY <1>7, <2>1, EntregadosIgual
  <1>15. \A a \in Aeropuertos : /\ Abandonados(a)' \subseteq Abandonados(a)
                                /\ ConexionesCortadas(a)' = ConexionesCortadas(a)
    BY <1>1, <1>3, <1>4, CortesAlResponder
  <1>16. EnUnLugar' /\ Perdidos' = Perdidos /\ UnaVez'
    <2>1. CASE cola = ColaIntercargo
      <3>1. EnviaAlgo(h) /\ ~ EnviaAlgo(h)'
        BY <1>2, <1>3, <1>7, <1>10, <2>1 DEF EnviaAlgo, Sirve
      <3>2. PICK e : q.msg.dato = e
        OBVIOUS
      <3>3. e \in Enviandose /\ Enviandose' = Enviandose \ {e}
        BY <1>1, <1>2, <1>7, <3>1, <3>2, TerminaEnvio
      <3>4. e \notin EnCola
        BY <1>1, <3>3 DEF EnUnLugar
      <3>5. EnCola' = EnCola \cup {e} /\ UnaVez'
        <4>1. PICK m \in MensajesDe(ColaIntercargo) : m = q.msg /\ m.dato = e
          BY <1>10, <2>1, <3>2
        <4>2. /\ ipc' = [ipc EXCEPT ![l] = Append(@, m)] /\ m.dato \notin EnCola
              /\ proj_id_to_queue_id[l] = ColaIntercargo
          BY <1>3, <1>11, <2>1, <3>4, <4>1
        <4> QED
          BY <1>1, <1>3, <4>1, <4>2, LlegaACola
      <3> QED
        BY <1>1, <1>7, <1>14, <3>3, <3>5, Movimiento
    <2>2. CASE cola # ColaIntercargo
      <3>1. ~ EnviaAlgo(h) /\ ~ EnviaAlgo(h)'
        BY <1>2, <1>7, <1>10, <2>2 DEF EnviaAlgo, Sirve
      <3>2. Enviandose' = Enviandose
        BY <1>7, <3>1, EnviandoseIgual
      <3>3. /\ DOMAIN ipc' = DOMAIN ipc /\ \A k \in DOMAIN ipc : k # l => ipc'[k] = ipc[k]
        BY <1>3
      <3>4. EnCola' = EnCola /\ UnaVez'
        BY <1>1, <1>3, <1>11, <1>12, <2>2, <3>3, ColaIgual
      <3> QED
        BY <1>1, <1>7, <1>14, <3>2, <3>4, NadaSeMueve
    <2> QED
      BY <2>1, <2>2
  <1>17. Perdidas'
    BY <1>1, <1>7, <1>15, <1>16, PerdidasIguales
  <1> QED
    BY <1>7, <1>12, <1>13, <1>16, <1>17 DEF InvTrasbordo

(* What a child takes out of a queue is one of its messages, of the type   *)
(* that it asks for.                                                       *)
LEMMA LoSacado ==
  ASSUME Conexiones, Legales, Tabla, NEW h \in Hijos, Pull(h)
  PROVE  \E l \in DOMAIN ipc : \E i \in 1..Len(ipc[l]) : \E cola \in Colas :
           /\ hijo[h].pc = "servir" /\ hijo[h].pedido.que = "pull"
           /\ hijo[h].pedido.cola = cola /\ proj_id_to_queue_id[l] = cola
           /\ ipc[l] \in Seq(MensajesDe(cola))
           /\ ipc[l][i] \in MensajesDe(cola)
           /\ ipc[l][i].mtype = hijo[h].pedido.mtype
           /\ ipc' = [ipc EXCEPT ![l] = RemoveAt(@, i)]
           /\ Responder(h, ConMsg(ipc[l][i]))
           /\ UNCHANGED proj_id_to_queue_id
PROOF
  <1>1. PICK l, q : l = LugarDe(h) /\ q = hijo[h].pedido
    OBVIOUS
  <1>2. PICK S : S = DelTipo(ipc[l], q.mtype)
    OBVIOUS
  <1>3. PICK i : i = Min(S)
    OBVIOUS
  <1>4. /\ hijo[h].pc = "servir" /\ q.que = "pull" /\ l \in DOMAIN ipc /\ S # {}
        /\ ipc' = [ipc EXCEPT ![l] = RemoveAt(@, i)]
        /\ Responder(h, ConMsg(ipc[l][i])) /\ UNCHANGED proj_id_to_queue_id
    BY <1>1, <1>2, <1>3 DEF Pull, Sirve
  <1>5. PICK cola \in Colas : q.cola = cola
    <2>1. PedidoLegal(h[1], q)
      BY <1>1, <1>4 DEF Legales, HijoLegal
    <2>2. \A x, m : Crear(x).que # "pull" /\ Poner(x, m).que # "pull"
      BY Registros
    <2>3. \/ \E d \in Destinos : PedidoControlador(d, q)
          \/ \E a \in Aeropuertos : q = Sacar(ColaIntercargo, a)
      BY <1>4, <2>1, <2>2 DEF PedidoLegal, PedidoLanzador, PedidoGenerador, PedidoVuelo
    <2>4. \E x \in Colas : \E n : q = Sacar(x, n)
      BY <1>4, <2>2, <2>3, NombresDeColas DEF PedidoControlador
    <2> QED
      BY <2>4, Registros
  <1>6. l \in Lugares /\ proj_id_to_queue_id[l] = cola
    <2>1. l \in Lugares /\ l = GetProjId(cola)
      BY <1>1, <1>4, <1>5 DEF Tabla, LugarDe
    <2> QED
      BY <2>1, LugarDeNombre DEF LugaresDe
  <1>7. PICK s : s = ipc[l] /\ s \in Seq(MensajesDe(cola))
    BY <1>4, <1>6 DEF Tabla
  <1>8. DOMAIN s = 1..Len(s) /\ Len(s) \in Nat
    BY <1>7
  <1>9. S \in SUBSET Nat /\ \A k \in S : k \in 1..Len(s) /\ s[k].mtype = q.mtype
    BY <1>2, <1>7, <1>8 DEF DelTipo
  <1>10. i \in S
    BY <1>3, <1>4, <1>9, MinEsElMenor
  <1>11. i \in 1..Len(s) /\ s[i].mtype = q.mtype /\ s[i] \in MensajesDe(cola)
    <2>1. i \in 1..Len(s) /\ s[i].mtype = q.mtype
      BY <1>9, <1>10
    <2>2. PICK T : T = MensajesDe(cola) /\ s \in Seq(T)
      BY <1>7
    <2>3. s[i] \in T
      BY <2>1, <2>2
    <2> QED
      BY <2>1, <2>2, <2>3
  <1>12. i \in 1..Len(ipc[l]) /\ ipc[l] \in Seq(MensajesDe(cola))
         /\ ipc[l][i] \in MensajesDe(cola) /\ ipc[l][i].mtype = hijo[h].pedido.mtype
    BY <1>1, <1>7, <1>11
  <1>13. /\ hijo[h].pc = "servir" /\ hijo[h].pedido.que = "pull"
         /\ hijo[h].pedido.cola = cola
    BY <1>1, <1>4, <1>5
  <1> QED
    BY <1>4, <1>6, <1>12, <1>13

(* It is for whoever asked for it: a controller gets a zone or a flight    *)
(* that came in, and a robot a bag of its airport.                         *)
LEMMA ParaQuienEs ==
  ASSUME Conexiones, Legales, Etapas, NEW h \in Hijos,
         hijo[h].pc = "servir", hijo[h].pedido.que = "pull",
         NEW cola \in Colas, hijo[h].pedido.cola = cola,
         NEW m \in MensajesDe(cola), m.mtype = hijo[h].pedido.mtype
  PROVE  /\ h[1] # Lanzador
         /\ Viva(h) => RespuestaLegal(h[1], ConMsg(m))
         /\ \/ /\ cola # ColaIntercargo /\ Viva(h)
               /\ \A a \in Aeropuertos : Robot(a) # h[1]
            \/ /\ cola = ColaIntercargo
               /\ \E a \in Aeropuertos, e \in PorViajar :
                    h[1] = Robot(a) /\ AeropuertoDe[DestinoDe[e]] = a /\ m.dato = e
PROOF
  <1>1. PICK q : q = hijo[h].pedido
    OBVIOUS
  <1>2. PedidoLegal(h[1], q)
    BY <1>1 DEF Legales, HijoLegal
  <1>3. \A x, y : Crear(x).que # "pull" /\ Poner(x, y).que # "pull"
    BY Registros
  <1>4. \/ \E d \in Destinos : h[1] = Controlador(d) /\ PedidoControlador(d, q)
        \/ \E a \in Aeropuertos : h[1] = Robot(a) /\ q = Sacar(ColaIntercargo, a)
    BY <1>1, <1>2, <1>3 DEF PedidoLegal, PedidoLanzador, PedidoGenerador, PedidoVuelo
  <1>5. ASSUME NEW a \in Aeropuertos, h[1] = Robot(a), q = Sacar(ColaIntercargo, a)
        PROVE  /\ h[1] # Lanzador
               /\ Viva(h) => RespuestaLegal(h[1], ConMsg(m))
               /\ cola = ColaIntercargo
               /\ \E e \in PorViajar : AeropuertoDe[DestinoDe[e]] = a /\ m.dato = e
    <2>1. q.cola = ColaIntercargo /\ q.mtype = a
      BY <1>5, Registros
    <2>2. cola = ColaIntercargo /\ m.mtype = a
      BY <1>1, <2>1
    <2>3. PICK e \in PorViajar : m = Traslado(e)
      BY <2>2, NombresDeColas
    <2>4. AeropuertoDe[DestinoDe[e]] = a /\ m.dato = e
      BY <2>2, <2>3 DEF Traslado
    <2>5. Viva(h) => RespuestaLegal(h[1], ConMsg(m))
      <3>1. SUFFICES ASSUME Viva(h) PROVE RespuestaLegal(h[1], ConMsg(m))
        OBVIOUS
      <3>2. h[1] \in Clientes /\ EtapaRobot(a)
        BY SonHijos DEF Etapas
      <3>3. conectado[Robot(a)] /\ HijoDe(Robot(a)) = h
        BY <1>5, <3>1, <3>2, HijoVivo
      <3>4. pc[Robot(a)] \in {"libre", "espera"}
        BY <3>2, <3>3 DEF EtapaRobot
      <3>5. pc[Robot(a)] # "libre"
        BY <3>2, <3>3 DEF EtapaRobot, En
      <3>6. En(h[1], "espera")
        BY <1>5, <3>4, <3>5 DEF En
      <3> QED
        BY <1>5, <2>3, <2>4, <3>6 DEF RespuestaLegal
    <2>6. h[1] # Lanzador
      BY <1>5, ProcesosDistintos
    <2> QED
      BY <2>2, <2>3, <2>4, <2>5, <2>6
  <1>6. ASSUME NEW d \in Destinos, h[1] = Controlador(d), PedidoControlador(d, q)
        PROVE  /\ h[1] # Lanzador
               /\ RespuestaLegal(h[1], ConMsg(m))
               /\ cola # ColaIntercargo /\ Viva(h)
               /\ \A a \in Aeropuertos : Robot(a) # h[1]
    <2>1. h[1] # Lanzador /\ \A a \in Aeropuertos : Robot(a) # h[1]
      <3>1. PICK c : c = h[1] /\ c = Controlador(d)
        BY <1>6
      <3>2. c # Lanzador /\ \A a \in Aeropuertos : c # Robot(a)
        BY <3>1, UnControlador
      <3> QED
        BY <3>1, <3>2
    <2>2. Viva(h)
      <3>1. ~ EsRobot(h[1]) /\ DeHijo(h)
        BY <2>1 DEF EsRobot, Conexiones
      <3>2. hijo[h] # SinHijo
        BY DEF SinHijo
      <3>3. h[1] \in Clientes /\ vida[h[1]] \in Nat /\ h[2] \in Nat
        BY SonHijos DEF Conexiones, TiposBroker
      <3>4. h[2] <= vida[h[1]]
        BY <3>1, <3>2, <3>3 DEF DeHijo
      <3> QED
        BY <3>1, <3>4 DEF DeHijo
    <2>3. CASE En(Controlador(d), "espera_zona") /\ q = Sacar(ColaZonas, d)
      <3>1. q.cola = ColaZonas /\ q.mtype = d
        BY <2>3, Registros
      <3>2. cola = ColaZonas /\ m.mtype = d
        BY <1>1, <3>1
      <3>3. PICK v \in VuelosLanzados : m = Zona(v)
        BY <3>2, NombresDeColas
      <3>4. m = Zona(d) /\ d \in VuelosLanzados
        BY <3>2, <3>3 DEF Zona
      <3> QED
        BY <1>6, <2>1, <2>2, <2>3, <3>2, <3>4, NombresDeColas DEF RespuestaLegal
    <2>4. CASE En(Controlador(d), "espera") /\ q = Sacar(ColaEntrantes, d)
      <3>1. q.cola = ColaEntrantes /\ q.mtype = d
        BY <2>4, Registros
      <3>2. cola = ColaEntrantes /\ m.mtype = d
        BY <1>1, <3>1
      <3>3. PICK x \in Destinos, f \in Llegados : m = Entrante(x, f)
        BY <3>2, NombresDeColas
      <3>4. m = Entrante(d, f) /\ f \in Llegados
        BY <3>2, <3>3 DEF Entrante
      <3> QED
        BY <1>6, <2>1, <2>2, <2>4, <3>2, <3>4, NombresDeColas DEF RespuestaLegal
    <2> QED
      BY <1>1, <1>3, <1>6, <2>3, <2>4 DEF PedidoControlador
  <1> QED
    BY <1>4, <1>5, <1>6

(* A child takes a message out of a queue and answers with it. *)
LEMMA InvPull ==
  ASSUME InvTrasbordo, UNCHANGED <<pc, datos>>, NEW h \in Hijos, Pull(h)
  PROVE  InvTrasbordo'
PROOF
  <1>1. /\ Conexiones /\ Legales /\ Tabla /\ Lanzamiento /\ UnaVez /\ EnUnLugar
        /\ Perdidas /\ Etapas
    BY DEF InvTrasbordo
  <1>2. PICK l \in DOMAIN ipc : \E i \in 1..Len(ipc[l]) : \E cola \in Colas :
           /\ hijo[h].pc = "servir" /\ hijo[h].pedido.que = "pull"
           /\ hijo[h].pedido.cola = cola /\ proj_id_to_queue_id[l] = cola
           /\ ipc[l] \in Seq(MensajesDe(cola))
           /\ ipc[l][i] \in MensajesDe(cola)
           /\ ipc[l][i].mtype = hijo[h].pedido.mtype
           /\ ipc' = [ipc EXCEPT ![l] = RemoveAt(@, i)]
           /\ Responder(h, ConMsg(ipc[l][i]))
           /\ UNCHANGED proj_id_to_queue_id
    BY <1>1, LoSacado
  <1>3. PICK i \in 1..Len(ipc[l]) : \E cola \in Colas :
           /\ hijo[h].pc = "servir" /\ hijo[h].pedido.que = "pull"
           /\ hijo[h].pedido.cola = cola /\ proj_id_to_queue_id[l] = cola
           /\ ipc[l] \in Seq(MensajesDe(cola))
           /\ ipc[l][i] \in MensajesDe(cola)
           /\ ipc[l][i].mtype = hijo[h].pedido.mtype
           /\ ipc' = [ipc EXCEPT ![l] = RemoveAt(@, i)]
           /\ Responder(h, ConMsg(ipc[l][i]))
           /\ UNCHANGED proj_id_to_queue_id
    BY <1>2
  <1>4. PICK cola \in Colas :
           /\ hijo[h].pc = "servir" /\ hijo[h].pedido.que = "pull"
           /\ hijo[h].pedido.cola = cola /\ proj_id_to_queue_id[l] = cola
           /\ ipc[l] \in Seq(MensajesDe(cola))
           /\ ipc[l][i] \in MensajesDe(cola)
           /\ ipc[l][i].mtype = hijo[h].pedido.mtype
           /\ ipc' = [ipc EXCEPT ![l] = RemoveAt(@, i)]
           /\ Responder(h, ConMsg(ipc[l][i]))
           /\ UNCHANGED proj_id_to_queue_id
    BY <1>3
  <1>5. PICK m \in MensajesDe(cola) : m = ipc[l][i]
    BY <1>4
  <1>6. /\ Responder(h, ConMsg(m)) /\ m.mtype = hijo[h].pedido.mtype
        /\ hijo[h].pc \in {"servir", "crear"}
    BY <1>4, <1>5
  <1>7. /\ h[1] # Lanzador
        /\ Viva(h) => RespuestaLegal(h[1], ConMsg(m))
        /\ \/ /\ cola # ColaIntercargo /\ Viva(h)
              /\ \A a \in Aeropuertos : Robot(a) # h[1]
           \/ /\ cola = ColaIntercargo
              /\ \E a \in Aeropuertos, e \in PorViajar :
                   h[1] = Robot(a) /\ AeropuertoDe[DestinoDe[e]] = a /\ m.dato = e
    BY <1>1, <1>4, <1>6, ParaQuienEs
  <1>8. /\ Conexiones' /\ Legales' /\ Cargas' /\ Etapas'
        /\ EnSuAeropuerto' /\ EnCinta' = EnCinta /\ SinEnviar' = SinEnviar
        /\ VuelosLanzados' = VuelosLanzados /\ Llegados' = Llegados
        /\ UNCHANGED <<pc, vida, conectado, cinta>>
        /\ \A x \in Hijos : hijo'[x].pc = "crear" => hijo'[x] = hijo[x]
        /\ \A x \in Hijos \ {h} : hijo'[x] = hijo[x]
        /\ hijo'[h].pc = IF Viva(h) THEN "recibir" ELSE "fin"
        /\ h[1] # Lanzador \/ ~ Viva(h) => Quieto(Lanzador)
        /\ \A c \in Clientes \ {h[1]} : respuesta'[c] = respuesta[c]
    BY <1>6, <1>7, PasoDelBroker
  <1>9. Tabla'
    <2>1. PICK z : z = RemoveAt(ipc[l], i) /\ z \in Seq(MensajesDe(proj_id_to_queue_id[l]))
      BY <1>4, QuitarDeCola
    <2>2. ipc' = [ipc EXCEPT ![l] = z]
      BY <1>4, <2>1
    <2> QED
      BY <1>1, <1>4, <1>8, <2>1, <2>2, TablaAlCambiarCola
  <1>10. Lanzamiento'
    <2>1. LugaresDe(ColaIntercargo)' = LugaresDe(ColaIntercargo) /\ DOMAIN ipc \subseteq DOMAIN ipc'
      BY <1>4 DEF LugaresDe
    <2> QED
      BY <1>1, <1>7, <1>8, <2>1, LanzadorQuieto
  <1>11. Enviandose' = Enviandose
    <2>1. ~ EnviaAlgo(h) /\ ~ EnviaAlgo(h)'
      BY <1>4, <1>8 DEF EnviaAlgo, Sirve
    <2> QED
      BY <1>8, <2>1, EnviandoseIgual
  <1>12. \A a \in Aeropuertos :
           /\ ConexionesCortadas(a)' = ConexionesCortadas(a)
           /\ Abandonados(a)' \subseteq Abandonados(a)
           /\ ~ Viva(h) /\ h[1] = Robot(a) =>
                \E x \in Abandonados(a) : Abandonados(a)' \subseteq Abandonados(a) \ {x}
    BY <1>1, <1>6, CortesAlResponder
  <1>13. \A a \in Aeropuertos : Robot(a) \in Clientes
    BY SonHijos, ProcesosDistintos
  (* a message that is no bag *)
  <1>14. CASE cola # ColaIntercargo
    <2>1. Entregados' = Entregados
      <3>1. \A a \in Aeropuertos : Robot(a) \in Clientes \ {h[1]}
        BY <1>7, <1>13, <1>14
      <3> QED
        BY <1>8, <3>1, EntregadosIgual
    <2>2. /\ DOMAIN ipc' = DOMAIN ipc /\ \A k \in DOMAIN ipc : k # l => ipc'[k] = ipc[k]
      BY <1>4
    <2>3. EnCola' = EnCola /\ UnaVez'
      BY <1>1, <1>4, <1>9, <1>14, <2>2, ColaIgual
    <2>4. EnUnLugar' /\ Perdidos' = Perdidos
      BY <1>1, <1>8, <1>11, <2>1, <2>3, NadaSeMueve
    <2>5. Perdidas'
      BY <1>1, <1>8, <1>12, <2>4, PerdidasIguales
    <2> QED
      BY <1>8, <1>9, <1>10, <2>3, <2>4, <2>5 DEF InvTrasbordo
  (* a bag, that goes to its robot, or to nobody *)
  <1>15. CASE cola = ColaIntercargo
    <2>1. PICK a \in Aeropuertos, e \in PorViajar :
             h[1] = Robot(a) /\ AeropuertoDe[DestinoDe[e]] = a /\ m.dato = e
      BY <1>7, <1>15
    <2>2. e \in EnCola /\ EnCola' = EnCola \ {e} /\ UnaVez'
      <3>1. i \in DOMAIN ipc[l] /\ e = ipc[l][i].dato /\ proj_id_to_queue_id[l] = ColaIntercargo
        BY <1>4, <1>5, <1>15, <2>1
      <3> QED
        BY <1>1, <1>4, <3>1, SaleDeCola
    <2>3. \A b \in Aeropuertos \ {a} : Robot(b) \in Clientes \ {h[1]}
      BY <1>13, <2>1, ProcesosDistintos
    <2>4. /\ Viva(h) => respuesta[h[1]] = Nada /\ respuesta'[h[1]] = ConMsg(m)
          /\ ~ Viva(h) => UNCHANGED respuesta
      BY <1>1, <1>6, AlResponder
    <2>5. CASE Viva(h)
      <3>1. Entregados' = Entregados \cup {e}
        <4>1. /\ respuesta[Robot(a)].que # "msg"
              /\ respuesta'[Robot(a)].que = "msg" /\ respuesta'[Robot(a)].msg.dato = e
          BY <2>1, <2>4, <2>5, Registros
        <4>2. \A b \in Aeropuertos \ {a} : respuesta'[Robot(b)] = respuesta[Robot(b)]
          BY <1>8, <2>3
        <4> QED
          BY <4>1, <4>2, SeEntrega
      <3>2. EnUnLugar' /\ Perdidos' = Perdidos
        BY <1>1, <1>8, <1>11, <2>2, <3>1, Movimiento
      <3>3. Perdidas'
        BY <1>1, <1>8, <1>12, <3>2, PerdidasIguales
      <3> QED
        BY <1>8, <1>9, <1>10, <2>2, <3>2, <3>3 DEF InvTrasbordo
    <2>6. CASE ~ Viva(h)
      <3>1. Entregados' = Entregados
        BY <2>4, <2>6, EntregadosIgual
      <3>2. /\ EnUnLugar'
            /\ \A b \in Aeropuertos :
                 /\ PerdidosDe(b)' \subseteq PerdidosDe(b) \cup {e}
                 /\ b # AeropuertoDe[DestinoDe[e]] => PerdidosDe(b)' \subseteq PerdidosDe(b)
        BY <1>1, <1>8, <1>11, <2>2, <3>1, Extravio
      <3>3. ASSUME NEW b \in Aeropuertos PROVE CuentaPerdidas(b)'
        <4>1. CuentaPerdidas(b)
          BY <1>1 DEF Perdidas
        <4>2. CASE b = a
          <5>1. /\ ConexionesCortadas(b)' = ConexionesCortadas(b)
                /\ \E x \in Abandonados(b) : Abandonados(b)' \subseteq Abandonados(b) \ {x}
                /\ \E y : PerdidosDe(b)' \subseteq PerdidosDe(b) \cup {y}
            BY <1>12, <2>1, <2>6, <3>2, <4>2
          <5> QED
            BY <1>1, <1>8, <4>1, <5>1, CuentaDePerdidas
        <4>3. CASE b # a
          <5>1. /\ ConexionesCortadas(b)' = ConexionesCortadas(b)
                /\ Abandonados(b)' \subseteq Abandonados(b)
                /\ PerdidosDe(b)' \subseteq PerdidosDe(b)
            BY <1>12, <2>1, <3>2, <4>3
          <5> QED
            BY <1>1, <1>8, <4>1, <5>1, CuentaDePerdidas
        <4> QED
          BY <4>2, <4>3
      <3>4. Perdidas'
        BY <3>3 DEF Perdidas
      <3> QED
        BY <1>8, <1>9, <1>10, <2>2, <3>2, <3>4 DEF InvTrasbordo
    <2> QED
      BY <2>5, <2>6
  <1> QED
    BY <1>14, <1>15

-----------------------------------------------------------------------------

(* At the start nobody is connected... *)
LEMMA ConexionesInicial ==
  ASSUME InitTrasbordo
  PROVE  Conexiones /\ Legales
PROOF
  <1>1. /\ hijo = [h \in Hijos |-> SinHijo]
        /\ vida = [c \in Clientes |-> 0]
        /\ conectado = [c \in Clientes |-> FALSE]
        /\ respuesta = [c \in Clientes |-> Nada]
    BY DEF InitTrasbordo, InitBroker
  <1>2. SinHijo \in [pc : PcHijo, pedido : Pedidos, lugar : Nat] /\ SinHijo.pc = "sin_conexion"
    BY SuposicionBroker DEF SinHijo, PcHijo, Pedidos
  <1>3. TiposBroker
    BY <1>1, <1>2 DEF TiposBroker
  <1>4. \A c \in Clientes : DeCliente(c)
    BY <1>1, SonHijos DEF DeCliente
  <1>5. \A h \in Hijos : DeHijo(h)
    <2>1. ASSUME NEW h \in Hijos PROVE DeHijo(h)
      <3>1. h[1] \in Clientes /\ h[2] \in Nat /\ h[2] > 0
        BY SonHijos
      <3>2. ~ Viva(h) /\ vida[h[1]] = 0
        BY <1>1, <3>1 DEF Viva
      <3> QED
        BY <1>1, <3>1, <3>2 DEF DeHijo
    <2> QED
      BY <2>1
  <1>6. Conexiones
    BY <1>3, <1>4, <1>5 DEF Conexiones
  <1>7. Legales
    BY <1>1, <1>2 DEF Legales, HijoLegal, RespuestaLegal
  <1> QED
    BY <1>6, <1>7

(* ... no queue has been created... *)
LEMMA TablaInicial ==
  ASSUME InitTrasbordo
  PROVE  Tabla /\ Lanzamiento /\ UnaVez /\ EnCola = {}
PROOF
  <1>1. /\ proj_id_to_queue_id = [l \in Lugares |-> Libre]
        /\ ipc = [l \in {} |-> <<>>]
        /\ hijo = [h \in Hijos |-> SinHijo]
        /\ pc = [p \in Procesos |-> "sin_lanzar"]
    BY DEF InitTrasbordo, InitBroker
  <1>2. DOMAIN ipc = {} /\ \A h \in Hijos : hijo[h].pc = "sin_conexion"
    BY <1>1 DEF SinHijo
  <1>3. ipc = [l \in DOMAIN ipc |-> ipc[l]]
    BY <1>1
  <1>4. Tabla
    BY <1>1, <1>2, <1>3 DEF Tabla
  <1>5. LugaresDe(ColaIntercargo) = {}
    BY <1>1, NombresDeColas DEF LugaresDe
  <1>6. pc[Lanzador] = "sin_lanzar"
    BY <1>1, ProcesosDistintos
  <1>7. Lanzamiento
    BY <1>5, <1>6 DEF Lanzamiento, En
  <1>8. UnaVez /\ EnCola = {}
    BY <1>2 DEF UnaVez, EnCola
  <1> QED
    BY <1>4, <1>7, <1>8

(* ... no process has been launched... *)
LEMMA EtapasIniciales ==
  ASSUME InitTrasbordo
  PROVE  Etapas /\ Cargas
PROOF
  <1>1. /\ vida = [c \in Clientes |-> 0]
        /\ conectado = [c \in Clientes |-> FALSE]
        /\ pc = [p \in Procesos |-> "sin_lanzar"]
        /\ arribos = Arribos /\ vuelos_interconexion = Interconexion /\ por_avisar = {}
        /\ equipajes_a_cargar = [d \in Destinos |-> EquipajesDe(d)]
        /\ enviando = [d \in Destinos |-> {}]
        /\ id_aeropuerto = [d \in Destinos |-> 0]
        /\ cinta = [a \in Aeropuertos |-> <<>>]
    BY DEF InitTrasbordo, InitBroker
  <1>2. Clientes = Procesos
    BY SonHijos
  <1>3. pc \in [Procesos -> Estados]
    <2>1. PICK s : s = "sin_lanzar"
      OBVIOUS
    <2>2. s \in Estados
      BY <2>1 DEF Estados
    <2>3. pc = [p \in Procesos |-> s]
      BY <1>1, <2>1
    <2> QED
      BY <2>2, <2>3
  <1>4. \A c \in Procesos : SinConexion(c)
    BY <1>1, <1>2 DEF SinConexion
  <1>5. En(Generador, "sin_lanzar")
    BY <1>1, ProcesosDistintos DEF En
  <1>6. \A d \in Destinos : EtapaControlador(d)
    BY <1>1, ProcesosDistintos DEF EtapaControlador, En
  <1>7. \A a \in Aeropuertos : EtapaRobot(a)
    BY <1>1, <1>2, ProcesosDistintos DEF EtapaRobot, En
  <1>8. Etapas
    BY <1>3, <1>4, <1>5, <1>6, <1>7 DEF Etapas
  <1>9. /\ arribos \in Seq(Nat) /\ Len(arribos) <= Len(Arribos)
        /\ \A i \in 1..Len(arribos) : arribos[i] = Arribos[Len(Arribos) - Len(arribos) + i]
    BY <1>1, SuposicionTrasbordo
  <1>10. /\ por_avisar \subseteq Interconexion
         /\ vuelos_interconexion \subseteq Interconexion
         /\ \A par \in por_avisar : par[1] \in Llegados
    BY <1>1
  <1>11. \A d \in Destinos : EquipajesDe(d) \subseteq EquipajesIntercargo
    BY DEF EquipajesDe
  <1>12. /\ equipajes_a_cargar \in [Destinos -> SUBSET EquipajesIntercargo]
         /\ enviando \in [Destinos -> SUBSET EquipajesIntercargo]
         /\ id_aeropuerto \in [Destinos -> Nat]
         /\ cinta \in [Aeropuertos -> Seq(EquipajesIntercargo)]
    BY <1>1, <1>11
  <1>13. \A d \in Destinos :
           /\ equipajes_a_cargar[d] \cup enviando[d] \subseteq EquipajesDe(d)
           /\ equipajes_a_cargar[d] \cap enviando[d] = {}
           /\ \A e \in enviando[d] : EntranteDe[e] \in Llegados
    BY <1>1
  <1>14. Cargas
    BY <1>9, <1>10, <1>12, <1>13 DEF Cargas
  <1> QED
    BY <1>8, <1>14

(* ... and no bag has been sent. *)
LEMMA InvInicial ==
  InitTrasbordo => InvTrasbordo
PROOF
  <1>1. SUFFICES ASSUME InitTrasbordo PROVE InvTrasbordo
    OBVIOUS
  <1>2. /\ Conexiones /\ Legales /\ Tabla /\ Lanzamiento /\ UnaVez /\ EnCola = {}
        /\ Etapas /\ Cargas
    BY <1>1, ConexionesInicial, TablaInicial, EtapasIniciales
  <1>3. /\ hijo = [h \in Hijos |-> SinHijo]
        /\ vida = [c \in Clientes |-> 0]
        /\ conectado = [c \in Clientes |-> FALSE]
        /\ respuesta = [c \in Clientes |-> Nada]
        /\ equipajes_a_cargar = [d \in Destinos |-> EquipajesDe(d)]
        /\ cinta = [a \in Aeropuertos |-> <<>>]
    BY <1>1 DEF InitTrasbordo, InitBroker
  <1>4. \A h \in Hijos : hijo[h].pc = "sin_conexion"
    BY <1>3 DEF SinHijo
  <1>5. Enviandose = {}
    BY <1>4 DEF Enviandose, Sirve
  <1>6. \A a \in Aeropuertos : Robot(a) \in Clientes
    BY SonHijos, ProcesosDistintos
  <1>7. Entregados = {}
    <2>1. \A a \in Aeropuertos : respuesta[Robot(a)].que # "msg"
      BY <1>3, <1>6, Registros
    <2>2. \A e : e \notin Entregados
      BY <2>1, EntregaDe
    <2> QED
      BY <2>2
  <1>8. EnCinta = {} /\ EnSuAeropuerto
    <2>1. \A a \in Aeropuertos : cinta[a] = <<>>
      BY <1>3
    <2>2. ToSet(<<>>) = {} /\ IsInjective(<<>>)
      BY DEF ToSet, IsInjective
    <2>3. \A a \in Aeropuertos : ToSet(cinta[a]) = {} /\ IsInjective(cinta[a])
      BY <2>1, <2>2
    <2> QED
      BY <2>3 DEF EnCinta, EnSuAeropuerto
  <1>9. EnUnLugar
    BY <1>2, <1>5, <1>7, <1>8 DEF EnUnLugar
  <1>10. Perdidos = {}
    <2>1. ASSUME NEW e \in EquipajesIntercargo PROVE e \in SinEnviar
      <3>1. PICK d \in Destinos : d = DestinoDe[e]
        BY SuposicionTrasbordo
      <3>2. e \in equipajes_a_cargar[d]
        BY <1>3, <3>1 DEF EquipajesDe
      <3> QED
        BY <3>2 DEF SinEnviar
    <2> QED
      BY <2>1 DEF Perdidos
  <1>11. Perdidas
    <2>1. ASSUME NEW a \in Aeropuertos PROVE CuentaPerdidas(a)
      <3>1. PerdidosDe(a) = {}
        BY <1>10 DEF PerdidosDe
      <3>2. Abandonados(a) = {}
        BY <1>4 DEF Abandonados
      <3>3. ConexionesCortadas(a) = 0
        BY <1>3, <1>6 DEF ConexionesCortadas
      <3> QED
        BY <3>1, <3>2, <3>3, FS_EmptySet DEF CuentaPerdidas
    <2> QED
      BY <2>1 DEF Perdidas
  <1> QED
    BY <1>2, <1>8, <1>9, <1>11 DEF InvTrasbordo

(* A step of the broker *)
LEMMA InvPasoBroker ==
  ASSUME InvTrasbordo, NEW h \in Hijos, PasoBroker(h)
  PROVE  InvTrasbordo'
PROOF
  <1>1. PasoHijo(h) /\ UNCHANGED <<pc, datos>>
    BY DEF PasoBroker
  <1>2. CASE AllocateQueueId(h)
    BY <1>1, <1>2, InvAllocateQueueId
  <1>3. CASE CrearCola(h)
    BY <1>1, <1>3, InvCrearCola
  <1>4. CASE NoHayCola(h)
    BY <1>1, <1>4, InvNoHayCola
  <1>5. CASE Push(h)
    BY <1>1, <1>5, InvPush
  <1>6. CASE Pull(h)
    BY <1>1, <1>6, InvPull
  <1> QED
    BY <1>1, <1>2, <1>3, <1>4, <1>5, <1>6 DEF PasoHijo

(* Nothing changes. *)
LEMMA InvSinPaso ==
  ASSUME InvTrasbordo, UNCHANGED varsTrasbordo
  PROVE  InvTrasbordo'
PROOF
  <1>1. UNCHANGED <<proj_id_to_queue_id, ipc, hijo, vida, conectado, respuesta, pc,
                    arribos, vuelos_interconexion, por_avisar,
                    equipajes_a_cargar, enviando, id_aeropuerto, cinta>>
    BY DEF varsTrasbordo, varsBroker, broker, conexion, datos, generador, controlador
  <1>2. UNCHANGED <<pc, datos>>
    BY DEF varsTrasbordo
  <1>3. /\ Conexiones /\ Legales /\ Tabla /\ Lanzamiento /\ Etapas /\ Cargas
        /\ EnUnLugar /\ UnaVez /\ EnSuAeropuerto /\ Perdidas
    BY DEF InvTrasbordo
  <1>4. /\ Cargas' /\ Llegados' = Llegados /\ SinEnviar' = SinEnviar /\ EnCinta' = EnCinta
        /\ VuelosLanzados' = VuelosLanzados
    BY <1>2, <1>3, DatosIguales, LegalEnElBroker
  <1>5. \A h \in Hijos : Viva(h)' <=> Viva(h)
    BY <1>1 DEF Viva
  <1>6. Conexiones'
    BY <1>1, <1>3, <1>5 DEF Conexiones, TiposBroker, DeCliente, DeHijo
  <1>7. Legales'
    <2>1. \A c, r : /\ PedidoLegal(c, r) => PedidoLegal(c, r)'
                    /\ RespuestaLegal(c, r) => RespuestaLegal(c, r)'
      BY <1>2, LegalEnElBroker
    <2> QED
      BY <1>1, <1>3, <2>1 DEF Legales, HijoLegal
  <1>8. Tabla'
    BY <1>1, <1>3, <1>4, TablaIgual
  <1>9. Lanzamiento'
    BY <1>1, <1>3 DEF Lanzamiento, LugaresDe, HijoDe, En
  <1>10. Etapas'
    BY <1>1, <1>3, <1>4
       DEF Etapas, SinConexion, EtapaControlador, EtapaRobot, Lanzado, Ocioso, HijoDe, En
  <1>11. EnCola' = EnCola /\ UnaVez'
    BY <1>1, <1>3, <1>8, ColaIgual
  <1>12. Enviandose' = Enviandose
    BY <1>1, EnviandoseIgual
  <1>13. Entregados' = Entregados
    BY <1>1, EntregadosIgual
  <1>14. \A a \in Aeropuertos : /\ Abandonados(a)' \subseteq Abandonados(a)
                                /\ ConexionesCortadas(a)' = ConexionesCortadas(a)
    BY <1>1, SinCortes
  <1>15. EnUnLugar' /\ EnSuAeropuerto' /\ Perdidas'
    BY <1>1, <1>4, <1>6, <1>11, <1>12, <1>13, <1>14, NingunEquipaje
  <1> QED
    BY <1>4, <1>6, <1>7, <1>8, <1>9, <1>10, <1>11, <1>15 DEF InvTrasbordo

(* Every step keeps the invariant. *)
LEMMA InvPaso ==
  InvTrasbordo /\ [NextTrasbordo]_varsTrasbordo => InvTrasbordo'
PROOF
  <1>1. SUFFICES ASSUME InvTrasbordo, [NextTrasbordo]_varsTrasbordo PROVE InvTrasbordo'
    OBVIOUS
  <1>2. CASE PasoLanzador
    BY <1>1, <1>2, InvLanzar, InvCrearColaIntercargo DEF PasoLanzador
  <1>3. CASE LanzarGenerador
    BY <1>1, <1>3, InvLanzarGenerador
  <1>4. CASE PasoGenerador
    BY <1>1, <1>4, InvArribo, InvLanzarCargador, InvInformar DEF PasoGenerador
  <1>5. ASSUME NEW v \in Vuelos, ZonaAsignada(v) PROVE InvTrasbordo'
    BY <1>1, <1>5, InvZonaAsignada
  <1>6. ASSUME NEW d \in Destinos, PasoControlador(d) PROVE InvTrasbordo'
    BY <1>1, <1>6, InvRecibirZona, InvPedirEntrante, InvRecibirEntrante, InvEnviarEquipaje
       DEF PasoControlador
  <1>7. ASSUME NEW a \in Aeropuertos, LanzarRobot(a) \/ PasoRobot(a) \/ Caer(a)
        PROVE  InvTrasbordo'
    BY <1>1, <1>7, InvLanzarRobot, InvPedirEquipaje, InvPonerEnCinta, InvCaer DEF PasoRobot
  <1>8. ASSUME NEW c \in Procesos, Terminar(c) PROVE InvTrasbordo'
    BY <1>1, <1>8, InvTerminar
  <1>9. ASSUME NEW h \in Hijos, PasoBroker(h) PROVE InvTrasbordo'
    BY <1>1, <1>9, InvPasoBroker
  <1>10. CASE UNCHANGED varsTrasbordo
    BY <1>1, <1>10, InvSinPaso
  <1> QED
    BY <1>1, <1>2, <1>3, <1>4, <1>5, <1>6, <1>7, <1>8, <1>9, <1>10 DEF NextTrasbordo

(* The invariant of transfers: who is connected and to which child, what   *)
(* each child and each process may have in its hands, what the queues may  *)
(* hold, and that every bag is in one place at most, once, or was lost by  *)
(* a robot that broke (PasoBroker, PasoControlador, PasoRobot, Caer).      *)
THEOREM InvTrasbordoSiempre == SpecTrasbordo => []InvTrasbordo
PROOF
  <1>1. InitTrasbordo => InvTrasbordo
    BY InvInicial
  <1>2. InvTrasbordo /\ [NextTrasbordo]_varsTrasbordo => InvTrasbordo'
    BY InvPaso
  <1> QED
    BY <1>1, <1>2, PTL DEF SpecTrasbordo

(* A bag gets to the belt of its flight's airport, once, and after both    *)
(* the flight got its zone and the flight it came with came in: the        *)
(* queues that all airports share never give a robot a bag of another one. *)
THEOREM EnSuAeropuertoSiempre == SpecTrasbordo => []EnSuAeropuerto
PROOF
  <1>1. InvTrasbordo => EnSuAeropuerto
    BY DEF InvTrasbordo
  <1> QED
    BY <1>1, InvTrasbordoSiempre, PTL

(* However often a robot breaks, each time costs one bag at most: the one  *)
(* it holds, or the one that its child was left waiting for.               *)
THEOREM UnaPerdidaSiempre == SpecTrasbordo => []UnaPerdidaPorCaida
PROOF
  <1>1. InvTrasbordo => UnaPerdidaPorCaida
    <2>1. SUFFICES ASSUME InvTrasbordo, NEW a \in Aeropuertos
                   PROVE  Cardinality(PerdidosDe(a)) <= ConexionesCortadas(a)
      BY DEF UnaPerdidaPorCaida
    <2>2. Conexiones /\ CuentaPerdidas(a)
      BY <2>1 DEF InvTrasbordo, Perdidas
    <2>3. PICK P, A, n : P = PerdidosDe(a) /\ A = Abandonados(a) /\ n = ConexionesCortadas(a)
      OBVIOUS
    <2>4. Cardinality(P) \in Nat
      <3>1. P \subseteq EquipajesIntercargo /\ IsFiniteSet(EquipajesIntercargo)
        BY <2>3, SuposicionTrasbordo DEF PerdidosDe, Perdidos
      <3> QED
        BY <3>1, FS_Subset, FS_CardinalityType
    <2>5. Cardinality(A) \in Nat
      <3>1. A \subseteq {h \in Hijos : h[1] = Robot(a)}
        BY <2>3 DEF Abandonados
      <3> QED
        BY <3>1, HijosDeRobot, FS_Subset, FS_CardinalityType
    <2>6. n \in Int
      BY <2>2, <2>3, SonHijos, ProcesosDistintos DEF Conexiones, TiposBroker, ConexionesCortadas
    <2>7. Cardinality(P) + Cardinality(A) <= n
      BY <2>2, <2>3 DEF CuentaPerdidas
    <2>8. Cardinality(P) <= n
      BY <2>4, <2>5, <2>6, <2>7
    <2> QED
      BY <2>3, <2>8
  <1> QED
    BY <1>1, InvTrasbordoSiempre, PTL

=============================================================================
