----------------------------- MODULE MCWalCodec -----------------------------
(* WalCodec for TLC. *)
EXTENDS WalCodec
=============================================================================
