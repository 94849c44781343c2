----------------------------- MODULE Proposing -----------------------------
(***************************************************************************)
(* Agents drafting proposals through the Comet service, while models are   *)
(* closed and the clock moves in either direction; and a proposal that has *)
(* been drafted on its way through review.                                 *)
(*                                                                         *)
(* The two share no state: the service keeps its proposals to itself and   *)
(* only ever stores drafts, and the status machine works on the values its *)
(* caller holds.  A behaviour is therefore of one or of the other, which   *)
(* Init chooses; both would only be interleaved.                           *)
(***************************************************************************)
EXTENDS CometService

CONSTANTS
    Documents,              \* uri -> its revisions
    Clocks,                 \* the instants the clock may show
    Handshakes, Openings, Batches, CreateKeys, StageKeys,
    DiffGroups,             \* the diffs of drafted proposals: sequences of change groups
    MaxSessions, MaxExpectedRevision, MaxReviewedRevision,
    MaxLastByte,            \* bounds the identifiers counted up after a carry
    NoReview, NoChoice

\* The groups of a diff have different ids: canonicalizeProposalChangeGroupOrder()
\* (src/proposal/identity/change-group-identity.ts) refuses a repeated one.
ASSUME DiffGroupsAssumption ==
    /\ NoDiff \notin DiffGroups
    /\ \A groups \in DiffGroups :
        /\ groups \in Seq(Range(groups))
        /\ \A i \in DOMAIN groups :
            /\ groups[i].dependsOn \in Seq(Range(groups[i].dependsOn))
            /\ \A j \in DOMAIN groups : groups[i].id = groups[j].id => i = j

\* What the types of src/proposal/semantic-edit.ts let an edit carry: each field that
\* names a node or evidence belongs to these kinds only.
ASSUME BatchesAssumption ==
    \A batch \in Batches :
        /\ batch \in Seq(Range(batch))
        /\ \A edit \in Range(batch) \ {NotCanonical} :
            /\ "targetNodeId" \in DOMAIN edit =>
                    edit.kind \in {"replace-block-content", "delete-block", "move-block"}
            /\ "target" \in DOMAIN edit => edit.kind \in {"insert-block", "move-block"}
            /\ "position" \in DOMAIN edit => edit.kind = "insert-citation"
            /\ "targetCitationNodeId" \in DOMAIN edit => edit.kind = "replace-citation"
            /\ "anchor" \in DOMAIN edit => edit.kind = "create-claim"
            /\ "evidenceIds" \in DOMAIN edit =>
                    edit.kind \in {"insert-citation", "replace-citation"}

VARIABLE review  \* [proposal, draftedAt, choice]: draftedAt is the revision at which it last became a draft

vars == <<serviceVars, review>>

\* A draft of the service, whose edits do not matter to its review.
Drafted ==
    [id |-> "drafted", documentUri |-> "doc", baseRevisionId |-> "r1", proposalRevision |-> 2,
     status |-> "draft", semanticEdits |-> <<>>, diff |-> NoDiff,
     validation |-> [status |-> "not-run", basedOnProposalRevision |-> 2], sessionId |-> "s"]

Init ==
    /\ models = Documents
    /\ clock \in Clocks
    /\ sessions = <<>> /\ proposals = <<>> /\ idempotency = <<>>
    /\ previousBytes = NoIdentifier
    /\ answered = <<>>
    /\ review \in {NoReview, [proposal |-> Drafted, draftedAt |-> Drafted.proposalRevision, choice |-> NoChoice]}

-----------------------------------------------------------------------------
(* The environment of the service: models close, and the clock is set.      *)

CloseModel(uri) ==
    /\ uri \in DOMAIN models
    /\ models' = [other \in DOMAIN models \ {uri} |-> models[other]]
    /\ UNCHANGED <<clock, previousBytes, held>>

SetClock(time) ==
    /\ time # clock
    /\ clock' = time
    /\ UNCHANGED <<models, previousBytes, held>>

\* A client may ask with the identifiers it was given, and with one nobody was given.
SessionIds == DOMAIN sessions \cup {NoIdentifier}

CreateRequests ==
    [operation : {"create"}, sessionId : SessionIds, idempotencyKey : CreateKeys,
     target : {opening.target : opening \in Openings}]

StageRequests ==
    [operation : {"stage"}, sessionId : DOMAIN sessions, idempotencyKey : StageKeys,
     proposal : [proposalId : DOMAIN proposals \cup {NoIdentifier},
                 expectedProposalRevision : 1 .. MaxExpectedRevision],
     semanticEdits : Batches]

SnapshotRequests ==
    [operation : {"read"}, sessionId : SessionIds, document : {opening.target : opening \in Openings}]

IdentifiersAreFew ==
    previousBytes # NoIdentifier => previousBytes[15] \in 0 .. MaxLastByte \cup {254, 255}

Call ==
    /\ IdentifiersAreFew
    /\ UNCHANGED <<models, clock>>
    /\ \/ \E request \in Handshakes : Handshake(request)
       \/ /\ Cardinality(DOMAIN sessions) < MaxSessions
          /\ \E request \in Openings : OpenSession(request)
       \/ \E request \in SnapshotRequests : ReadSnapshot(request)
       \/ \E request \in CreateRequests : CreateProposal(request)
       \/ \E request \in StageRequests : StageSemanticEdits(request)

Service ==
    /\ review = NoReview
    /\ \/ \E uri \in DOMAIN Documents : CloseModel(uri)
       \/ \E time \in Clocks : SetClock(time)
       \/ Call
    /\ UNCHANGED review

-----------------------------------------------------------------------------
(* The holder of a drafted proposal asks for a status, and at any time      *)
(* attaches a diff, or what a validation has come to.                       *)

RequestStatus(status) ==
    LET result == transitionProposalStatus(review.proposal, status)
    IN  /\ review.proposal.proposalRevision < MaxReviewedRevision
        /\ IF result.type = "rejected" THEN UNCHANGED review
           ELSE review' = [review EXCEPT
                    !.proposal = result.proposal,
                    !.draftedAt =
                        IF status = "draft" THEN result.proposal.proposalRevision ELSE @]

AttachDiff(groups) == review' = [review EXCEPT !.proposal.diff = groups]

\* What its holder attaches was found of the proposal as it now is.
AttachValidation(status) ==
    review' = [review EXCEPT !.proposal.validation =
        [status |-> status, basedOnProposalRevision |-> review.proposal.proposalRevision]]

ChooseGroups(requested) ==
    /\ review.proposal.status = "needs-review"
    /\ review' = [review EXCEPT !.choice =
            [requested |-> requested,
             result |-> computeProposalGroupDependencyClosure(review.proposal.diff, requested)]]

Requested == UNION {[1 .. n -> UNION {Named(groups) : groups \in DiffGroups}] : n \in 1 .. 2}

Review ==
    /\ review # NoReview
    /\ \/ \E status \in ProposalStatus : RequestStatus(status)
       \/ review.choice = NoChoice /\ \E groups \in DiffGroups : AttachDiff(groups)
       \/ \E status \in {"valid", "invalid"} : AttachValidation(status)
       \/ \E requested \in Requested : ChooseGroups(requested)
    /\ UNCHANGED serviceVars

Next == Service \/ Review

Spec == Init /\ [][Next]_vars

-----------------------------------------------------------------------------
\* While its session lasts, a call that was answered with a proposal is answered with that
\* proposal again, whatever was staged since, which models are still open, and whatever
\* the allocator can still do: an agent that lost the answer can always ask again
\* (#replayStageRequest() comes before #getProposalForStaging()).
RetriesAgree ==
    \A request \in DOMAIN answered :
        clock < SessionExpiresAt =>
            /\ mutationVerdict(request) = "replay"
            /\ idempotency[idempotencyScope(request)].proposal = answered[request]

StageRecords(id) ==
    {scope \in DOMAIN idempotency : scope[1] = "stage" /\ idempotency[scope].proposal.id = id}

BatchOf(id, revision) ==
    LET scope == CHOOSE scope \in StageRecords(id) :
                    idempotency[scope].proposal.proposalRevision = revision
    IN  idempotency[scope].input.semanticEdits

\* A stored proposal is made of the batches on record for it, each once and in the order
\* of the revisions they made; and each was sent by an agent that had seen the revision
\* just before: none is taken twice, lost, or put on top of a batch its agent did not know.
EditsAreAccountedFor ==
    \A id \in DOMAIN proposals :
        LET last == proposals[id].proposalRevision
        IN  /\ Cardinality(StageRecords(id)) = last - 1
            /\ {idempotency[scope].proposal.proposalRevision : scope \in StageRecords(id)}
                    = 2 .. last
            /\ \A scope \in StageRecords(id) :
                    idempotency[scope].input.proposal.expectedProposalRevision + 1
                        = idempotency[scope].proposal.proposalRevision
            /\ proposals[id].semanticEdits =
                    FlattenSeq([n \in 1 .. last - 1 |-> BatchOf(id, n + 1)])

\* Every node an edit names, in whichever of its fields.
NodesNamedBy(edit) ==
    LET field(name) == IF name \in DOMAIN edit THEN {edit[name]} ELSE {}
        places == field("target")
        anchors == field("anchor")
    IN  field("targetNodeId") \cup field("targetCitationNodeId") \cup field("position")
          \cup {place.parentNodeId : place \in places}
          \cup (UNION {place.siblingNodeId : place \in places})
          \cup {anchor.primary : anchor \in anchors}
          \cup (UNION {anchor.targetNodeId \cup anchor.pathHint : anchor \in anchors})

\* Whatever the agents of several sessions send in whatever order, a proposal only holds
\* edits that the request of its own session asked to be held to: inside the nodes and
\* sections it named, with the capability its kind needs, no deletion or move it ruled out,
\* and no citation of evidence that the revision it is bound to does not hold verified.
EditsStayInTheGrant ==
    \A id \in DOMAIN proposals :
        LET asked == sessions[proposals[id].sessionId].request
            named == UNION (asked.scope.allowedNodeIds \cup asked.scope.allowedSectionIds)
        IN  /\ proposals[id].documentUri = asked.target.uri
            /\ proposals[id].baseRevisionId = asked.target.revisionId
            /\ \A edit \in Range(proposals[id].semanticEdits) :
                /\ named = {} \/ NodesNamedBy(edit) \subseteq named
                /\ REQUIRED_CAPABILITY_BY_SEMANTIC_EDIT(edit.kind) \in asked.requestedCapabilities
                /\ "evidenceIds" \in DOMAIN edit /\ asked.constraints.requireVerifiedEvidence =>
                        edit.evidenceIds
                            \subseteq VerifiedEvidence(asked.target.uri, asked.target.revisionId)
                /\ edit.kind = "delete-block" => asked.constraints.allowDelete
                /\ edit.kind = "move-block" => asked.constraints.allowStructureMove

\* Every identifier the service takes, the debug ids of its errors included, is a UUIDv7
\* that comes after all the ones before it, even when the clock repeats or goes back and
\* the random field carries over its fixed bits.
IdentifiersGrow ==
    [][previousBytes' # previousBytes =>
            /\ IsUuidV7(previousBytes')
            /\ \A id \in (DOMAIN sessions \cup DOMAIN proposals \cup {previousBytes}) \ {NoIdentifier} :
                    Precedes(id, previousBytes')]_vars

\* ADR-008: "validated MUST mean that the validation snapshot has landed on the current
\* Proposal Revision", and a conflict or reopening is followed by a new validation.  In its
\* weakest reading: a validated proposal carries a validation of a revision it has had since
\* it was last a draft, and not one of what it was before.
ValidatedIsCurrent ==
    review # NoReview /\ review.proposal.status = "validated" =>
        review.proposal.validation.basedOnProposalRevision >= review.draftedAt

\* The groups chosen for a partial acceptance are completed to the least set that is
\* closed under their dependencies, each listed once and in the diff's order, whatever the
\* order of the walk; and it is refused exactly when a group asked for is unknown, or a
\* dependency of that set unknown or circular.
SelectionIsClosed ==
    review # NoReview /\ review.choice # NoChoice =>
        LET groups == review.proposal.diff
            result == review.choice.result
            requested == Range(review.choice.requested)
            dependsOn(id) == UNION {Range(groups[i].dependsOn) : i \in
                                {j \in DOMAIN groups : groups[j].id = id}}
            closed == {ids \in SUBSET (Named(groups) \cup requested) :
                        requested \subseteq ids /\ \A id \in ids : dependsOn(id) \subseteq ids}
            least == {id \in Named(groups) \cup requested : \A ids \in closed : id \in ids}
            sound == /\ least \subseteq Known(groups)
                     /\ \A ids \in (SUBSET least) \ {{}} :
                            \E id \in ids : dependsOn(id) \cap ids = {}
        IN  /\ (result.type = "ok") <=> sound
            /\ sound =>
                /\ Range(result.groupIds) = least
                /\ \A m, n \in DOMAIN result.groupIds : m < n =>
                    \E i, j \in DOMAIN groups :
                        /\ i < j
                        /\ groups[i].id = result.groupIds[m]
                        /\ groups[j].id = result.groupIds[n]
=============================================================================
