---------------------------- MODULE WalRecovery ----------------------------
(***************************************************************************)
(* What recoverDocument() accepts, and where it ends up, as operators on a *)
(* recovery base and the frames of a durable WAL.  A frame is a commit     *)
(* record, reduced to the identities that recovery compares, or Torn: a    *)
(* frame whose bytes end too early.  Documents, hashes and checksums are   *)
(* left out: a frame is taken to hold the record that was encoded.         *)
(***************************************************************************)
EXTENDS Naturals, Sequences

CONSTANT Torn   \* an incomplete frame

(* walCodec.decode(): only the last frame may be incomplete. *)
hasTruncatedTail(wal) == wal # <<>> /\ wal[Len(wal)] = Torn
isCorrupt(wal) == \E i \in 1..(Len(wal) - 1) : wal[i] = Torn

decodedRecords(wal) ==
  IF hasTruncatedTail(wal) THEN SubSeq(wal, 1, Len(wal) - 1) ELSE wal

(* The first record equal to the base is the base itself; no other record  *)
(* may reuse an identity of the base or of an earlier record.              *)
isBaseRecord(base, records, i) ==
  records[i] = base /\ \A j \in 1..(i - 1) : records[j] # base

validateWalRevisionIdentity(base, records) ==
  \A i \in 1..Len(records) :
    \/ isBaseRecord(base, records, i)
    \/ \A other \in {base} \cup {records[j] : j \in 1..(i - 1)} :
         /\ records[i].transactionId # other.transactionId
         /\ records[i].revisionId # other.revisionId

(* validateContinuity() and the same test between neighbouring records.    *)
continues(previous, record) ==
  /\ record.parentRevisionId = previous.revisionId
  /\ record.sequence = previous.sequence + 1

validateBaseWalBoundary(base, records) ==
  \A i \in 1..Len(records) :
    /\ records[i].sequence = base.sequence => records[i] = base
    /\ records[i].sequence + 1 = base.sequence
         => records[i].revisionId = base.parentRevisionId

validateWalStream(base, records) ==
  /\ validateWalRevisionIdentity(base, records)
  /\ \A i \in 2..Len(records) : continues(records[i - 1], records[i])
  /\ validateBaseWalBoundary(base, records)

(* replayRecords(): records up to the base's sequence are skipped. *)
isReplayed(base, records, i) == records[i].sequence > base.sequence

replayIsContinuous(base, records) ==
  \A i \in 1..Len(records) :
    isReplayed(base, records, i) =>
      continues(IF i > 1 /\ isReplayed(base, records, i - 1)
                  THEN records[i - 1] ELSE base,
                records[i])

isRecoverable(base, wal) ==
  /\ ~isCorrupt(wal)
  /\ validateWalStream(base, decodedRecords(wal))
  /\ replayIsContinuous(base, decodedRecords(wal))

(* Of an accepted stream only the last record can be the recovered head.   *)
recoveredHead(base, wal) ==
  LET records == decodedRecords(wal)
  IN  IF records # <<>> /\ isReplayed(base, records, Len(records))
        THEN records[Len(records)] ELSE base

=============================================================================
