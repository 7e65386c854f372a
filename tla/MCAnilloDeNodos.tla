--------------------------- MODULE MCAnilloDeNodos ---------------------------
(* The ring of a few nodes, for TLC. *)
EXTENDS AnilloDeNodos
=============================================================================
