SPECIFICATION Spec
CONSTANTS
    NoIdentifier = NoIdentifier
    NoDiff = NoDiff
    NoReview = NoReview
    NoChoice = NoChoice
    NotCanonical = NotCanonical
    MaxTimestamp = 511
    COMET_CONTRACT_VERSION = "preview.1"
    MOCK_SUPPORTED_CAPABILITIES <- MCCapabilities
    MOCK_SUPPORTED_SEMANTIC_EDIT_KINDS <- MCKinds
    SUPPORTED_TRANSPORT_FEATURES = {"in-process", "idempotency"}
    CONTRACT_LIMITS <- MCLimits
    MaxIdempotencyKey = 2
    SessionExpiresAt = 256
    VerifiedEvidence <- MCVerifiedEvidence
    Documents <- MCDocuments
    Clocks <- MCClocks
    RandomFields <- MCRandomFields
    Handshakes <- MCHandshakes
    Openings <- MCOpenings
    Batches <- MCBatches
    CreateKeys = {"k1"}
    StageKeys = {"k1"}
    DiffGroups <- MCDiffGroups
    MaxSessions = 0
    MaxExpectedRevision = 1
    MaxReviewedRevision = 8
    MaxLastByte = 0
INVARIANT
    ValidatedIsCurrent
