----------------------- MODULE MCTokensDistribuidos -------------------------
(* A few clients of one memory and one semaphore, for TLC. *)
EXTENDS TokensDistribuidos, TLC

CONSTANTS memoria, semaforo

(* The desk (client 0) waits on its semaphore, which the other side signals. *)
ClientesMC == memoria :> Procesos @@ semaforo :> {0, 1}
EsperaMC   == semaforo :> 0
InicialMC  == memoria :> 1 @@ semaforo :> 1
=============================================================================
