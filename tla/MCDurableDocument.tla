------------------------- MODULE MCDurableDocument -------------------------
(***************************************************************************)
(* DurableDocument with few Authorities and a short mainline, for TLC.     *)
(***************************************************************************)
EXTENDS DurableDocument

\* A third Authority and a third commit are explored where no Snapshot was begun.
Explored ==
  (\/ lease.epoch > 2
   \/ \E e \in Epochs : \E i \in DOMAIN line[e] : line[e][i].sequence > 2)
    => temporaries = {} /\ snapshots = {}

=============================================================================
