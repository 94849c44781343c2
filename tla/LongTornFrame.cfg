SPECIFICATION CodecSpec
CONSTANTS
  Sizes = {1, 5}
  MaxRecords = 2
  MaxPayloadLength = 6
  MaxCandidateOffsets = 2
  MaxChecksumLength = 12
INVARIANTS
  TornTailIsTruncated
CHECK_DEADLOCK FALSE
