SPECIFICATION Spec
CONSTANTS
    Junk = Junk
    Valid = Valid
    NoNode = NoNode
    NoEntry = NoEntry
    Unpatched = Unpatched
    NothingOffered = NothingOffered
    MAX_MANUSCRIPT_TREE_DEPTH = 4
    MAX_NODE_REPLACEMENT_LAYERS = 2
    MAX_TRANSACTION_CANONICAL_UTF8_BYTES = 8
    MAX_TRANSACTION_JSON_VALUES = 8
    MAX_TRANSACTION_OPERATIONS = 2
    MAX_TRANSACTION_PRECONDITIONS = 4
    MAX_TRANSACTION_TOOL_INVOCATION_IDS = 1
    MAX_CANONICAL_JSON_DEPTH = 3
    MaxUtf16Offset = 100
    FirstTwoDigitNumber = 2
    Documents <- MCDocuments
    Uri = "doc"
    RevisionIds <- MCRevisionIds
    TransactionIds <- MCTransactionIds
    Requests <- MCRequests
    Alterations <- MCAlterations
    MaxRecordUnits = 2
    MaxCommits = 3
    MaxObjects = 4
    MaxOffers = 1
CHECK_DEADLOCK FALSE
INVARIANTS
    EveryRevisionIsSound
    CommitsAreExact
    CacheIsExact
    RetentionIsBounded
    UndoRestores
    PositionsFollowTheText
    ReplayAgrees
