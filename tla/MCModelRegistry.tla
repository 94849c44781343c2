--------------------------- MODULE MCModelRegistry ---------------------------
(* ModelRegistry for TLC. *)
EXTENDS ModelRegistry
=============================================================================
