--------------------------- MODULE MCReadService ---------------------------
(* ReadService for TLC: three Revisions; a query that pages through an     *)
(* outline, one through nodes read by name and one through the history.    *)
EXTENDS ReadService, TLC

Symmetry == Permutations(Sessions)

MCOffers ==
  {[revision |-> 1, scope |-> "document", expiresAt |-> 1],
   [revision |-> 2, scope |-> "document", expiresAt |-> 1],
   [revision |-> 2, scope |-> "section", expiresAt |-> 1]}

MCQueries ==
  {[service |-> "document.get_outline", since |-> 1, maxResults |-> 2],
   [service |-> "document.read_nodes", since |-> 1, maxResults |-> 1],
   [service |-> "document.get_changes_since", since |-> 1, maxResults |-> 1]}

(* An outline has three items, the second and third of them in a section;  *)
(* the nodes that are read are those two.  The items of another Revision   *)
(* are others.                                                             *)
MCFindings ==
  [query \in MCQueries |->
    [scope \in {"document", "section"} |->
      [r \in 1..3 |->
        IF query.service = "document.get_outline" /\ scope = "document"
          THEN <<10 * r + 1, 10 * r + 2, 10 * r + 3>>
          ELSE <<10 * r + 2, 10 * r + 3>>]]]
=============================================================================
