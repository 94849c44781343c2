--------------------------- MODULE ProposalReview ---------------------------
(***************************************************************************)
(* What may be done with a proposal once it is drafted: the status machine *)
(* of src/proposal/state-machine.ts and, for a partial acceptance, the     *)
(* dependency closure of the chosen change groups                          *)
(* (src/proposal/semantic-diff.ts).  Both are functions of values their    *)
(* caller holds.                                                           *)
(***************************************************************************)
EXTENDS Integers, Sequences, FiniteSets, SequencesExt

CONSTANT NoDiff   \* the proposal has no semantic diff yet

TERMINAL_STATUSES == {"accepted", "partially-accepted", "rejected", "discarded", "expired"}

ProposalStatus ==
    {"draft", "validating", "validated", "needs-review", "conflicted"} \cup TERMINAL_STATUSES

ALLOWED_TRANSITIONS ==
    [status \in ProposalStatus |->
        CASE status = "draft" -> {"validating", "discarded", "expired"}
          [] status = "validating" -> {"draft", "validated", "conflicted", "discarded", "expired"}
          [] status = "validated" -> {"draft", "needs-review", "conflicted", "discarded", "expired"}
          [] status = "needs-review" ->
                {"accepted", "partially-accepted", "rejected", "conflicted", "discarded", "expired"}
          [] status = "conflicted" -> {"draft", "discarded", "expired"}
          [] OTHER -> {}]

ReviewStatuses == {"needs-review", "accepted", "partially-accepted", "rejected"}

canEnterProposalStatus(proposal, requested) ==
    /\ requested \in {"validated"} \cup ReviewStatuses => proposal.diff # NoDiff
    /\ requested = "validated" => proposal.validation.status \in {"valid", "warning"}

Rejected(reason) == [type |-> "rejected", reason |-> reason]

transitionProposalStatus(proposal, requested) ==
    CASE proposal.status \in TERMINAL_STATUSES -> Rejected("terminal-state")
      [] requested \notin ALLOWED_TRANSITIONS[proposal.status] -> Rejected("transition-not-allowed")
      [] ~canEnterProposalStatus(proposal, requested) -> Rejected("state-invariants-not-satisfied")
      [] OTHER ->
            [type |-> "transitioned",
             proposal |-> [proposal EXCEPT !.status = requested, !.proposalRevision = @ + 1]]

-----------------------------------------------------------------------------
(* Change groups: [id, dependsOn], dependsOn a sequence of ids.             *)

Known(groups) == {groups[i].id : i \in DOMAIN groups}
Named(groups) == Known(groups) \cup UNION {Range(groups[i].dependsOn) : i \in DOMAIN groups}

\* new Map(...) keeps the last of several groups with one id.
groupById(groups, id) ==
    groups[CHOOSE i \in DOMAIN groups :
             groups[i].id = id /\ \A j \in DOMAIN groups : groups[j].id = id => j <= i]

Failure(reason, id) == [type |-> "error", reason |-> reason, groupId |-> id]

\* The two sets that all walks share: the groups whose dependencies are being walked, and
\* those with which the walk is done.
Walks(groups) ==
    [type : {"ok"}, visiting : SUBSET Known(groups), included : SUBSET Known(groups)]

\* One walk after the other on the same sets, up to the first that fails.
walkEach(walk, ids, start) ==
    LET after[n \in 0 .. Len(ids)] ==
            IF n = 0 THEN start
            ELSE IF after[n - 1].type = "error" THEN after[n - 1]
            ELSE walk[ids[n]][after[n - 1]]
    IN  after[Len(ids)]

\* Broken variant: a group counts as included before its dependencies are walked.
includeDependencies_MarksOnEntry(groups) ==
    LET walk[depth \in 0 .. Cardinality(Known(groups))] ==
            [id \in Named(groups) |-> [sets \in Walks(groups) |->
                IF id \in sets.included THEN sets
                ELSE IF id \notin Known(groups) THEN Failure("dependency-not-found", id)
                ELSE LET entered == [sets EXCEPT !.included = @ \cup {id}]
                     IN  IF depth = 0 THEN entered
                         ELSE walkEach(walk[depth - 1], groupById(groups, id).dependsOn, entered)]]
    IN  walk[Cardinality(Known(groups))]

\* The walk from each group, for each state of the sets.  It goes no deeper than there are
\* groups: at depth 0 each of them is being visited.
includeDependencies(groups) ==
    LET walk[depth \in 0 .. Cardinality(Known(groups))] ==
            [id \in Named(groups) |-> [sets \in Walks(groups) |->
                IF id \in sets.included THEN sets
                ELSE IF id \in sets.visiting THEN Failure("dependency-cycle", id)
                ELSE IF id \notin Known(groups) THEN Failure("dependency-not-found", id)
                ELSE LET entered == [sets EXCEPT !.visiting = @ \cup {id}]
                         below == IF depth = 0 THEN entered
                                  ELSE walkEach(walk[depth - 1], groupById(groups, id).dependsOn,
                                                entered)
                     IN  IF below.type = "error" THEN below
                         ELSE [below EXCEPT !.visiting = @ \ {id}, !.included = @ \cup {id}]]]
    IN  walk[Cardinality(Known(groups))]

\* groups.filter(...).map(...): in the order of the diff.
idsIncluded(groups, included) ==
    LET ids[n \in 0 .. Len(groups)] ==
            IF n = 0 THEN <<>>
            ELSE IF groups[n].id \in included THEN Append(ids[n - 1], groups[n].id)
            ELSE ids[n - 1]
    IN  ids[Len(groups)]

\* A group asked for twice is walked once in the source: the second walk would end at once.
computeProposalGroupDependencyClosure(groups, requested) ==
    LET unknown == {i \in DOMAIN requested : requested[i] \notin Known(groups)}
        none == [type |-> "ok", visiting |-> {}, included |-> {}]
        walked == walkEach(includeDependencies(groups), requested, none)
    IN  IF unknown # {}
        THEN Failure("group-not-found",
                     requested[CHOOSE i \in unknown : \A j \in unknown : i <= j])
        ELSE IF walked.type = "error" THEN walked
        ELSE [type |-> "ok", groupIds |-> idsIncluded(groups, walked.included)]
=============================================================================
