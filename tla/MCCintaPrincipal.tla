-------------------------- MODULE MCCintaPrincipal --------------------------
(* The central belt with a few producers and consumers, for TLC. *)
EXTENDS CintaPrincipal, TLC

Simetria == Permutations(Productores) \cup Permutations(Equipajes)
=============================================================================
