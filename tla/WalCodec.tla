------------------------------ MODULE WalCodec ------------------------------
(***************************************************************************)
(* PortableWalRecordCodec: the frames of a log, and decode() on what is    *)
(* left of them after a crash or after damage to the medium.  WalRecovery  *)
(* takes decode()'s verdict for granted; here it is computed.              *)
(*                                                                         *)
(* A log is a sequence of cells, a coarser unit than bytes: a frame is a   *)
(* cell with the payload's length, one with its checksum, and the cells of *)
(* the payload.  A checksum fits its own payload only.  A cell of text     *)
(* read as a length is too long for any payload: four bytes of canonical   *)
(* JSON are a number above 2^29.                                           *)
(***************************************************************************)
EXTENDS Naturals, Sequences, FiniteSetsExt

CONSTANTS
  Sizes,                 \* the payload lengths of the records to be written
  MaxRecords,            \* the longest log
  MaxPayloadLength,      \* #maxPayloadByteLength
  MaxCandidateOffsets,   \* MAX_RESYNC_CANDIDATE_OFFSETS
  MaxChecksumLength      \* MAX_RESYNC_CHECKSUM_BYTES

ASSUME SizesAssumption == Sizes \subseteq Nat
ASSUME BoundsAssumption ==
  /\ {MaxRecords, MaxPayloadLength} \subseteq Nat
  /\ {MaxCandidateOffsets, MaxChecksumLength} \subseteq Nat

VARIABLES
  log,       \* the durable bytes
  written,   \* the records whose frames are complete
  starts,    \* where each of those starts, and where the last one ends
  torn,      \* the log ends with part of another frame
  damaged,   \* the frame whose cells are not what was written, or 0
  verdict,   \* what decode() has come to
  offset,    \* its place in the log
  records    \* and the records it has decoded

codecVars == <<log, written, starts, torn, damaged, verdict, offset, records>>
decoder == <<verdict, offset, records>>

HEADER_LENGTH == 2

Records == [id : 1..MaxRecords, size : Sizes]

Data(record) ==
  [k \in 1..record.size |-> [kind |-> "data", of |-> record, n |-> k]]

frame(record) ==
  <<[kind |-> "length", of |-> record, n |-> record.size],
    [kind |-> "checksum", of |-> record, n |-> 0]>> \o Data(record)

Cells == [kind : {"length", "checksum", "data", "noise"}, of : Records, n : Nat]

CodecTypeOK ==
  /\ log \in Seq(Cells)
  /\ written \in Seq(Records)
  /\ starts \in Seq(Nat)
  /\ torn \in BOOLEAN
  /\ damaged \in 0..MaxRecords
  /\ verdict \in {"idle", "reading", "ok", "tail", "corrupt"}
  /\ offset \in 0..Len(log)
  /\ records \in Seq(Records)

-----------------------------------------------------------------------------
(* encode(), and what happens to a log.                                    *)

AppendFrame(size) ==
  /\ verdict = "idle"
  /\ ~torn
  /\ damaged = 0
  /\ Len(written) < MaxRecords
  /\ size =< MaxPayloadLength
  /\ LET record == [id |-> Len(written) + 1, size |-> size]
     IN  /\ log' = log \o frame(record)
         /\ written' = Append(written, record)
         /\ starts' = Append(starts, Len(log'))
  /\ UNCHANGED <<torn, damaged, decoder>>

(* A crash leaves the first n cells of a frame that nobody was promised.   *)
Tear(size, n) ==
  /\ verdict = "idle"
  /\ ~torn
  /\ damaged = 0
  /\ Len(written) < MaxRecords
  /\ size =< MaxPayloadLength
  /\ n < HEADER_LENGTH + size
  /\ log' = log \o SubSeq(frame([id |-> Len(written) + 1, size |-> size]), 1, n)
  /\ torn' = TRUE
  /\ UNCHANGED <<written, starts, damaged, decoder>>

(* The medium changes one cell of a complete frame. *)
Damage(i, k, n) ==
  /\ verdict = "idle"
  /\ damaged = 0
  /\ damaged' = i
  /\ LET at == starts[i] + k
     IN  log' = IF k = 1
                  THEN [log EXCEPT ![at].n = n]
                  ELSE [log EXCEPT ![at].kind = "noise"]
  /\ log' # log
  /\ UNCHANGED <<written, starts, torn, decoder>>

-----------------------------------------------------------------------------
(* decode() *)

remaining(at) == Len(log) - at

readLength(at) ==
  IF log[at + 1].kind = "length" THEN log[at + 1].n ELSE MaxPayloadLength + 1

(* Broken variant: the header is forgotten. *)
frameEnd_NoHeader(at) == at + readLength(at)

frameEnd(at) == at + HEADER_LENGTH + readLength(at)

checksumFits(at) ==
  /\ log[at + 2].kind = "checksum"
  /\ SubSeq(log, at + HEADER_LENGTH + 1, frameEnd(at)) = Data(log[at + 2].of)

(* The offsets of findCompleteCanonicalFrameAfter()'s loop, and those of   *)
(* them whose payload it checksums.                                        *)
candidates(start) == start..(Len(log) - HEADER_LENGTH)

isChecksummed(at) ==
  readLength(at) =< MaxPayloadLength /\ frameEnd(at) =< Len(log)

checksumByteCount(start, at) ==
  MapThenSumSet(readLength,
                {c \in candidates(start) : c =< at /\ isChecksummed(c)})

exceedsBudget(start, at) ==
  \/ at - start + 1 > MaxCandidateOffsets
  \/ isChecksummed(at) /\ checksumByteCount(start, at) > MaxChecksumLength

isCompleteFrame(at) == isChecksummed(at) /\ checksumFits(at)

(* Broken variant: the bytes behind an incomplete frame are not searched.  *)
resyncs_Never(start) == FALSE

(* The search ends at a complete frame or when its budget is used up.      *)
resyncs(start) ==
  \E at \in candidates(start) : exceedsBudget(start, at) \/ isCompleteFrame(at)

Start ==
  /\ verdict = "idle"
  /\ verdict' = "reading"
  /\ UNCHANGED <<log, written, starts, torn, damaged, offset, records>>

End(result) ==
  /\ verdict' = result
  /\ UNCHANGED <<log, written, starts, torn, damaged, offset, records>>

AtEnd ==
  /\ verdict = "reading"
  /\ remaining(offset) = 0
  /\ End("ok")

IncompleteHeader ==
  /\ verdict = "reading"
  /\ remaining(offset) \in 1..(HEADER_LENGTH - 1)
  /\ End("tail")

InvalidLength ==
  /\ verdict = "reading"
  /\ remaining(offset) >= HEADER_LENGTH
  /\ readLength(offset) > MaxPayloadLength
  /\ End("corrupt")

IncompletePayload ==
  /\ verdict = "reading"
  /\ remaining(offset) >= HEADER_LENGTH
  /\ readLength(offset) =< MaxPayloadLength
  /\ frameEnd(offset) > Len(log)
  /\ End(IF resyncs(offset + HEADER_LENGTH) THEN "corrupt" ELSE "tail")

(* Broken variant: the checksum is not compared.                           *)
CompletePayload_Trusting ==
  /\ verdict = "reading"
  /\ remaining(offset) >= HEADER_LENGTH
  /\ isChecksummed(offset)
  /\ records' = Append(records, log[offset + 2].of)
  /\ offset' = frameEnd(offset)
  /\ UNCHANGED <<log, written, starts, torn, damaged, verdict>>

CompletePayload ==
  /\ verdict = "reading"
  /\ remaining(offset) >= HEADER_LENGTH
  /\ isChecksummed(offset)
  /\ IF checksumFits(offset)
       THEN /\ records' = Append(records, log[offset + 2].of)
            /\ offset' = frameEnd(offset)
            /\ UNCHANGED verdict
       ELSE /\ verdict' = "corrupt"
            /\ UNCHANGED <<offset, records>>
  /\ UNCHANGED <<log, written, starts, torn, damaged>>

-----------------------------------------------------------------------------
CodecInit ==
  /\ log = <<>>
  /\ written = <<>>
  /\ starts = <<0>>
  /\ torn = FALSE
  /\ damaged = 0
  /\ verdict = "idle"
  /\ offset = 0
  /\ records = <<>>

decode ==
  \/ AtEnd
  \/ IncompleteHeader
  \/ InvalidLength
  \/ IncompletePayload
  \/ CompletePayload

CodecNext ==
  \/ \E size \in Sizes : AppendFrame(size)
  \/ \E size \in Sizes, n \in 1..(MaxPayloadLength + 1) : Tear(size, n)
  \/ \E i \in 1..Len(written), n \in 0..(MaxPayloadLength + 1) :
       \E k \in 1..(HEADER_LENGTH + written[i].size) : Damage(i, k, n)
  \/ Start
  \/ decode

CodecSpec == CodecInit /\ [][CodecNext]_codecVars

-----------------------------------------------------------------------------
(* Properties. *)

isDecoded == verdict \in {"ok", "tail", "corrupt"}

(* decode() invents nothing: a record it returns was written, at the same  *)
(* place, in a frame that is intact.                                       *)
RecordsAreWritten ==
  \A i \in 1..Len(records) :
    i =< Len(written) /\ records[i] = written[i] /\ i # damaged

(* ADR-010: damage with evidence of a later complete frame is not a torn   *)
(* tail.  A verdict that lets recovery go on costs no complete frame but,  *)
(* at most, the last one, whose damaged length looks like a torn write.    *)
DamageIsNotATornTail ==
  verdict \in {"ok", "tail"} =>
    \/ records = written
    \/ damaged = Len(written) /\ Len(records) = Len(written) - 1

(* ADR-010: an incomplete trailing frame is truncated to the last complete *)
(* valid frame.  This is what WalRecovery takes for granted.               *)
TornTailIsTruncated ==
  isDecoded /\ damaged = 0 =>
    /\ verdict = IF torn THEN "tail" ELSE "ok"
    /\ records = written
    /\ offset = starts[Len(written) + 1]

=============================================================================
