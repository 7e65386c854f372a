--------------------------- MODULE MCCicloDeVuelo ---------------------------
(* Two flights with few passengers, for TLC. *)
EXTENDS CicloDeVuelo

CONSTANTS s1, s2,        (* passengers *)
          e1, e2, e3, t1 (* bags; t1 is a transfer bag *)

(* The first passenger flies with flight 101, the second with 102. *)
VueloDePasajeroMC == s1 :> 101 @@ s2 :> 102

(* The first passenger has two bags and the second one; *)
ValijasMC == s1 :> {e1, e2} @@ s2 :> {e3}

(* or one each; *)
UnaPorPasajero == s1 :> {e1} @@ s2 :> {e3}

(* A transfer bag for flight 102 *)
TrasbordoMC  == 101 :> {} @@ 102 :> {t1}
=============================================================================
