---------------------------- MODULE CometService ----------------------------
(***************************************************************************)
(* MockCometIntegrationService (src/integration/comet/mock-service.ts):    *)
(* sessions bound to one revision of one document, draft proposals, and    *)
(* the semantic edits an agent stages into them, each mutation named by an *)
(* idempotency key.  Every method is synchronous.  The models it reads and *)
(* the clock are its environment's.                                        *)
(*                                                                         *)
(* Optional fields are sets of at most one member.  The identifiers are    *)
(* those of UuidV7.                                                        *)
(***************************************************************************)
EXTENDS UuidV7, ProposalReview

CONSTANTS
    COMET_CONTRACT_VERSION,
    MOCK_SUPPORTED_CAPABILITIES,
    MOCK_SUPPORTED_SEMANTIC_EDIT_KINDS,
    SUPPORTED_TRANSPORT_FEATURES,
    CONTRACT_LIMITS,        \* [maxOperations, maxDeletedNodes, maxMovedNodes]
    MaxIdempotencyKey,      \* 256 in the source
    SessionExpiresAt,       \* one instant for every session of this service
    NotCanonical,           \* an edit that has no canonical JSON
    VerifiedEvidence(_, _), \* of a snapshot: uri, revisionId
    RandomFields            \* what the entropy source may return

\* A Uint8Array; validateSeed() refuses one that is not ten bytes long.
ASSUME RandomFieldsAssumption ==
    \A random \in RandomFields : DOMAIN random = 0 .. 9 => random \in [0 .. 9 -> Byte]

VARIABLES
    models,         \* the open models: uri -> the revisions it can read
    clock,          \* IClock.now(), also the timestamp of the next seed
    sessions,       \* #sessions: session id -> [request, grant]
    proposals,      \* #proposals: proposal id -> proposal
    idempotency,    \* #idempotency: scope -> [input, proposal]
    previousBytes,  \* #previousBytes of the allocator
    answered        \* history: the mutations first answered with a proposal -> that proposal

held == <<sessions, proposals, idempotency, answered>>
serviceVars == <<models, clock, previousBytes, held>>

-----------------------------------------------------------------------------
(* The checks answer "ok" or the code of the error.                        *)

andThen(verdict, next) == IF verdict = "ok" THEN next ELSE verdict
orElse(condition, code) == IF condition THEN "ok" ELSE code

handshakeVerdict(request) ==
    andThen(orElse(request.requestedContractVersion = COMET_CONTRACT_VERSION,
                   "CONTRACT_VERSION_UNSUPPORTED"),
    andThen(orElse(request.requiredCapabilities \subseteq MOCK_SUPPORTED_CAPABILITIES,
                   "CAPABILITY_UNSUPPORTED"),
    andThen(orElse(request.requiredSemanticEdits \subseteq MOCK_SUPPORTED_SEMANTIC_EDIT_KINDS,
                   "SEMANTIC_EDIT_UNSUPPORTED"),
            orElse(request.requiredTransportFeatures \subseteq SUPPORTED_TRANSPORT_FEATURES,
                   "CAPABILITY_UNSUPPORTED"))))

\* models.get(uri), then getSnapshot(revisionId) of what it found.
snapshotVerdict(target) ==
    andThen(orElse(target.uri \in DOMAIN models, "MODEL_NOT_FOUND"),
            orElse(target.revisionId \in models[target.uri], "REVISION_NOT_FOUND"))

openVerdict(request) ==
    andThen(orElse(request.contractVersion = COMET_CONTRACT_VERSION,
                   "CONTRACT_VERSION_UNSUPPORTED"),
    andThen(orElse(request.requestedCapabilities \subseteq MOCK_SUPPORTED_CAPABILITIES,
                   "CAPABILITY_UNSUPPORTED"),
            snapshotVerdict(request.target)))

activeSessionVerdict(sessionId, requiredCapabilities) ==
    andThen(orElse(sessionId \in DOMAIN sessions, "SESSION_REVOKED"),
    andThen(orElse(clock < sessions[sessionId].grant.expiresAt, "SESSION_EXPIRED"),
            orElse(requiredCapabilities \subseteq sessions[sessionId].grant.grantedCapabilities,
                   "SCOPE_VIOLATION")))

readSnapshotVerdict(request) ==
    andThen(activeSessionVerdict(request.sessionId, {"document.content.read"}),
    LET grant == sessions[request.sessionId].grant
    IN  andThen(orElse(request.document = grant.target, "SCOPE_VIOLATION"),
        andThen(orElse(grant.scope.allowedNodeIds = {} /\ grant.scope.allowedSectionIds = {},
                       "SCOPE_VIOLATION"),
                snapshotVerdict(grant.target))))

idempotencyKeyVerdict(key) == orElse(Len(key) \in 1 .. MaxIdempotencyKey, "SCHEMA_INVALID")

\* The target that is serialised next equals that of the grant, and serialises as it did:
\* the refusal of one that does not (SCHEMA_INVALID) is never reached.
createVerdict(request) ==
    andThen(activeSessionVerdict(request.sessionId, {"proposal.create"}),
    andThen(orElse(request.target = sessions[request.sessionId].grant.target, "SCOPE_VIOLATION"),
            idempotencyKeyVerdict(request.idempotencyKey)))

-----------------------------------------------------------------------------
(* Semantic edits: [kind, ...] with the fields the checks read.            *)

Least(limit, constraint) == IF constraint = {} THEN limit
                            ELSE CHOOSE least \in {limit} \cup constraint :
                                    \A other \in {limit} \cup constraint : least <= other

OfKind(edits, kind) == Cardinality({i \in DOMAIN edits : edits[i].kind = kind})

semanticEditBatchVerdict(grant, edits) ==
    andThen(orElse(Len(edits) <= Least(grant.limits.maxOperations, grant.constraints.maxOperations),
                   "REQUEST_TOO_LARGE"),
    andThen(orElse(OfKind(edits, "delete-block") <=
                        Least(grant.limits.maxDeletedNodes, grant.constraints.maxDeletedNodes),
                   "REQUEST_TOO_LARGE"),
            orElse(OfKind(edits, "move-block") <=
                        Least(grant.limits.maxMovedNodes, grant.constraints.maxMovedNodes),
                   "REQUEST_TOO_LARGE")))

REQUIRED_CAPABILITY_BY_SEMANTIC_EDIT(kind) ==
    CASE kind \in {"insert-citation", "replace-citation"} -> "citation.propose"
      [] kind \in {"link-claim-evidence", "create-evidence-link"} -> "evidence.propose"
      [] OTHER -> "proposal.edit"

allEvidenceVerified(grant, evidenceIds) ==
    /\ snapshotVerdict(grant.target) = "ok"
    /\ evidenceIds \subseteq VerifiedEvidence(grant.target.uri, grant.target.revisionId)

citationPolicyVerdict(grant, edit) ==
    IF edit.kind \notin {"insert-citation", "replace-citation"} THEN "ok"
    ELSE orElse(IF edit.evidenceIds = {}
                THEN \/ ~grant.constraints.requireEvidenceForCitation
                     \/ grant.constraints.allowMetadataOnlyCitation
                ELSE \/ ~grant.constraints.requireVerifiedEvidence
                     \/ allEvidenceVerified(grant, edit.evidenceIds),
                "EVIDENCE_REQUIRED")

semanticEditPolicyVerdict(grant, edit) ==
    andThen(orElse(edit.kind = "delete-block" => grant.constraints.allowDelete, "POLICY_VIOLATION"),
    andThen(orElse(edit.kind = "move-block" => grant.constraints.allowStructureMove,
                   "POLICY_VIOLATION"),
    andThen(citationPolicyVerdict(grant, edit),
    andThen(orElse(edit.kind = "create-evidence-link" => edit.verification # "verified",
                   "POLICY_VIOLATION"),
            orElse(edit.kind = "link-claim-evidence" => edit.confidence \subseteq 0 .. 100,
                   "SCHEMA_INVALID")))))

insertionTargetNodeIds(target) == {target.parentNodeId} \cup target.siblingNodeId

\* Broken variant: a move only looks at the block it moves.
semanticEditNodeIds_ForgetsWhereItMoves(edit) ==
    CASE edit.kind = "insert-block" -> insertionTargetNodeIds(edit.target)
      [] edit.kind = "move-block" -> {edit.targetNodeId}
      [] edit.kind \in {"replace-block-content", "delete-block"} -> {edit.targetNodeId}
      [] edit.kind = "insert-citation" -> {edit.position}
      [] edit.kind = "replace-citation" -> {edit.targetCitationNodeId}
      [] edit.kind = "create-claim" -> {edit.anchor.primary} \cup edit.anchor.targetNodeId
                                         \cup edit.anchor.pathHint
      [] OTHER -> {}

semanticEditNodeIds(edit) ==
    CASE edit.kind = "insert-block" -> insertionTargetNodeIds(edit.target)
      [] edit.kind = "move-block" -> insertionTargetNodeIds(edit.target) \cup {edit.targetNodeId}
      [] edit.kind \in {"replace-block-content", "delete-block"} -> {edit.targetNodeId}
      [] edit.kind = "insert-citation" -> {edit.position}
      [] edit.kind = "replace-citation" -> {edit.targetCitationNodeId}
      [] edit.kind = "create-claim" -> {edit.anchor.primary} \cup edit.anchor.targetNodeId
                                         \cup edit.anchor.pathHint
      [] OTHER -> {}

\* An absent list of nodes or sections allows as much as an empty one.
AllowedNodeIds(grant) ==
    UNION (grant.scope.allowedNodeIds \cup grant.scope.allowedSectionIds)

semanticEditVerdict(grant, edit) ==
    andThen(orElse(edit.kind \in MOCK_SUPPORTED_SEMANTIC_EDIT_KINDS, "SEMANTIC_EDIT_UNSUPPORTED"),
    andThen(orElse(REQUIRED_CAPABILITY_BY_SEMANTIC_EDIT(edit.kind) \in grant.grantedCapabilities,
                   "SCOPE_VIOLATION"),
    andThen(semanticEditPolicyVerdict(grant, edit),
    andThen(orElse(edit.kind = "create-claim" => edit.anchor.document = grant.target,
                   "SCOPE_VIOLATION"),
            orElse(\/ AllowedNodeIds(grant) = {}
                   \/ semanticEditNodeIds(edit) \subseteq AllowedNodeIds(grant),
                   "SCOPE_VIOLATION")))))

semanticEditsVerdict(grant, edits) ==
    andThen(semanticEditBatchVerdict(grant, edits),
    LET refused == {i \in DOMAIN edits : semanticEditVerdict(grant, edits[i]) # "ok"}
    IN  IF refused = {} THEN "ok"
        ELSE semanticEditVerdict(grant, edits[CHOOSE i \in refused : \A j \in refused : i <= j]))
-----------------------------------------------------------------------------
(* Mutations: [operation, sessionId, idempotencyKey, ...].                 *)

idempotencyScope(request) == <<request.operation, request.sessionId, request.idempotencyKey>>

canonicalInput(request) ==
    IF request.operation = "create" THEN [target |-> request.target]
    ELSE [proposal |-> request.proposal, semanticEdits |-> request.semanticEdits]

\* What a repeated key answers, and otherwise next.
replayOr(request, next) ==
    CASE idempotencyScope(request) \notin DOMAIN idempotency -> next
      [] idempotency[idempotencyScope(request)].input = canonicalInput(request) -> "replay"
      [] OTHER -> "IDEMPOTENCY_CONFLICT"

proposalBelongsToSession(proposal, grant) ==
    /\ proposal.documentUri = grant.target.uri
    /\ proposal.baseRevisionId = grant.target.revisionId
    /\ proposal.sessionId = grant.sessionId

\* Broken variant: the proposal is taken as it is, whatever revision the agent has seen.
proposalForStagingVerdict_AnyRevision(request, grant) ==
    andThen(orElse(request.proposal.proposalId \in DOMAIN proposals, "PROPOSAL_CONFLICT"),
    LET proposal == proposals[request.proposal.proposalId]
    IN  andThen(orElse(proposalBelongsToSession(proposal, grant), "SCOPE_VIOLATION"),
                orElse(proposal.status = "draft", "PROPOSAL_LOCKED")))

proposalForStagingVerdict(request, grant) ==
    andThen(orElse(request.proposal.proposalId \in DOMAIN proposals, "PROPOSAL_CONFLICT"),
    LET proposal == proposals[request.proposal.proposalId]
    IN  andThen(orElse(proposalBelongsToSession(proposal, grant), "SCOPE_VIOLATION"),
        andThen(orElse(proposal.proposalRevision = request.proposal.expectedProposalRevision,
                       "PROPOSAL_REVISION_MISMATCH"),
                orElse(proposal.status = "draft", "PROPOSAL_LOCKED"))))

stageInputVerdict(request) ==
    andThen(activeSessionVerdict(request.sessionId, {}),
    andThen(idempotencyKeyVerdict(request.idempotencyKey),
            orElse(request.semanticEdits # <<>> /\ NotCanonical \notin Range(request.semanticEdits),
                   "SCHEMA_INVALID")))

semanticEditsOf(request) ==
    semanticEditsVerdict(sessions[request.sessionId].grant, request.semanticEdits)

\* Broken variant: a retry is compared with the proposal it has already advanced.
stageVerdict_ChecksTheRevisionFirst(request) ==
    andThen(stageInputVerdict(request),
    andThen(proposalForStagingVerdict(request, sessions[request.sessionId].grant),
            replayOr(request, semanticEditsOf(request))))

stageVerdict(request) ==
    andThen(stageInputVerdict(request),
            replayOr(request,
                     andThen(proposalForStagingVerdict(request, sessions[request.sessionId].grant),
                             semanticEditsOf(request))))

mutationVerdict(request) ==
    IF request.operation = "create"
    THEN andThen(createVerdict(request), replayOr(request, "ok"))
    ELSE stageVerdict(request)

-----------------------------------------------------------------------------
(* The calls.  One that throws or is answered with an error leaves what the  *)
(* service holds as it was, but may have taken an identifier for the error. *)

\* Map.set.
Put(map, key, value) ==
    [x \in DOMAIN map \cup {key} |-> IF x = key THEN value ELSE map[x]]

Seed(random) == [unixMilliseconds |-> clock, randomBytes |-> random]

\* NoIdentifier: the allocator throws.
NextIdentifiers == {allocate(Seed(random), previousBytes) : random \in RandomFields}

\* #error() allocates a debug id; the error of a model that does not have the revision is
\* passed on as it is.
Refuse(code) ==
    /\ UNCHANGED held
    /\ IF code = "REVISION_NOT_FOUND" THEN UNCHANGED previousBytes
       ELSE \E debugId \in NextIdentifiers :
                previousBytes' = IF debugId = NoIdentifier THEN previousBytes ELSE debugId

Read(verdict) == IF verdict = "ok" THEN UNCHANGED <<previousBytes, held>> ELSE Refuse(verdict)

Handshake(request) == Read(handshakeVerdict(request))

ReadSnapshot(request) == Read(readSnapshotVerdict(request))

Grant(request, sessionId) ==
    [sessionId |-> sessionId, target |-> request.target,
     grantedCapabilities |-> request.requestedCapabilities, scope |-> request.scope,
     constraints |-> request.constraints, limits |-> CONTRACT_LIMITS,
     expiresAt |-> SessionExpiresAt]

OpenSession(request) ==
    IF openVerdict(request) # "ok" THEN Refuse(openVerdict(request))
    ELSE \E sessionId \in NextIdentifiers \ {NoIdentifier} :
            /\ previousBytes' = sessionId
            /\ sessions' = Put(sessions, sessionId,
                               [request |-> request, grant |-> Grant(request, sessionId)])
            /\ UNCHANGED <<proposals, idempotency, answered>>

\* The mutation's effect: the proposal is stored, and recorded for repetitions of its key.
Commit(request, proposal) ==
    /\ proposals' = Put(proposals, proposal.id, proposal)
    /\ idempotency' = Put(idempotency, idempotencyScope(request),
                          [input |-> canonicalInput(request), proposal |-> proposal])
    /\ answered' = Put(answered, request, proposal)
    /\ UNCHANGED sessions

NewProposal(grant, id) ==
    [id |-> id, documentUri |-> grant.target.uri, baseRevisionId |-> grant.target.revisionId,
     proposalRevision |-> 1, status |-> "draft", semanticEdits |-> <<>>, diff |-> NoDiff,
     validation |-> [status |-> "not-run", basedOnProposalRevision |-> 1],
     sessionId |-> grant.sessionId]

\* A repeated key is answered from its record, and changes nothing.
CreateProposal(request) ==
    LET verdict == mutationVerdict(request)
    IN  CASE verdict = "replay" -> UNCHANGED <<previousBytes, held>>
          [] verdict = "ok" ->
                \E id \in NextIdentifiers \ {NoIdentifier} :
                    /\ Commit(request, NewProposal(sessions[request.sessionId].grant, id))
                    /\ previousBytes' = id
          [] OTHER -> Refuse(verdict)

Staged(proposal, edits) ==
    [proposal EXCEPT !.proposalRevision = @ + 1,
                     !.semanticEdits = @ \o edits,
                     !.validation = [status |-> "not-run",
                                     basedOnProposalRevision |-> proposal.proposalRevision + 1]]

StageSemanticEdits(request) ==
    LET verdict == mutationVerdict(request)
    IN  CASE verdict = "replay" -> UNCHANGED <<previousBytes, held>>
          [] verdict = "ok" ->
                /\ Commit(request, Staged(proposals[request.proposal.proposalId],
                                          request.semanticEdits))
                /\ UNCHANGED previousBytes
          [] OTHER -> Refuse(verdict)
=============================================================================
