----------------------------- MODULE MCStorage ------------------------------
(***************************************************************************)
(* DurableDocument and WalCodec for TLC.  They have no variable in common: *)
(* DurableDocument takes the verdict on a log for granted, WalCodec is how *)
(* decode() comes to it, on one log of its own.  In a behaviour one of     *)
(* them moves and the other stays as it began.                             *)
(***************************************************************************)
EXTENDS MCDurableDocument, MCWalCodec

StorageInit == Init /\ CodecInit

DocumentMoves ==
  /\ log = <<>> /\ verdict = "idle"
  /\ Next
  /\ UNCHANGED codecVars

CodecMoves ==
  /\ lease.epoch = 0
  /\ CodecNext
  /\ UNCHANGED vars

StorageSpec == StorageInit /\ [][DocumentMoves \/ CodecMoves]_<<vars, codecVars>>

=============================================================================
