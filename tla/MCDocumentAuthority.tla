------------------------- MODULE MCDocumentAuthority -------------------------
(***************************************************************************)
(* DocumentAuthority on a small mainline, for TLC. There is no SYMMETRY:   *)
(* the run checks liveness too, and a property of every caller is not one  *)
(* of an orbit of behaviours. Transaction identities are numbers here.     *)
(***************************************************************************)
EXTENDS DocumentAuthority

\* Clients use Transaction identities in order: only their being distinct matters.
UsedInOrder ==
  \A t \in transactionIds : \A s \in Transactions : s < t => s \in transactionIds

\* One caller alone is followed through the last commit, several up to the one before.
FewCallersAtTheEnd ==
  head = MaxSequence =>
    \A c, d \in Callers : waiter[c].state # "idle" /\ waiter[d].state # "idle" => c = d

\* Both cut off steps of callers only, which no fairness speaks of.
Explored == UsedInOrder /\ FewCallersAtTheEnd

=============================================================================
