----------------------- MODULE MCAuthorityBackedModel -----------------------
(* AuthorityBackedModel for TLC. *)
EXTENDS AuthorityBackedModel
=============================================================================
