----------------------- MODULE DurableDocumentProofs -----------------------
(***************************************************************************)
(* Proofs that what storage acknowledged is recoverable, that Authorities  *)
(* never acknowledge two Revisions for one place, that a manifest is       *)
(* backed by complete files and that reopening never goes back: for any    *)
(* number of Authorities, crashes and commits, and any length of the       *)
(* mainline.                                                               *)
(***************************************************************************)
EXTENDS DurableDocument, WalCodec, SequenceTheorems, TLAPS

(* Every Revision a caller may rely on, and the one before all of them. *)
Settled == Acknowledged("wal") \cup {Genesis}

IsNamed(r) == r.revisionId[2] = r.sequence /\ r.transactionId = r.revisionId

NamesAreTheirOwn ==
  \A e \in Epochs : \A i \in Indices(e) : IsNamed(line[e][i])

Recovering == {"reading-base", "reading-wal", "truncating", "opening"}

(* What the phase of an Authority says of the rest of its state. *)
AuthorityShape ==
  \A e \in Epochs :
    /\ e > lease.epoch => phase[e] = "absent"
    /\ phase[e] \in {"absent"} \cup Recovering => line[e] = <<>>
    /\ phase[e] = "serving" => line[e] # <<>>
    /\ phase[e] # "serving" => /\ walStage[e] = "idle"
                               /\ \A i \in Indices(e) :
                                    commit[e][i].stage = "idle"
    /\ walStage[e] # "idle" => level[e][Len(line[e])] = "memory"
    /\ \A i \in Indices(e) :
         commit[e][i].stage # "idle" => level[e][i] # "memory"

(* One Revision for each place, and every one but the first has a parent.  *)
IsALine(S) ==
  /\ \A r, s \in S : r.sequence = s.sequence => r = s
  /\ \A r \in S : r.sequence > 0 => \E p \in S : continues(p, r)

SettledIsALine ==
  /\ IsALine(Settled)
  /\ \A r \in Settled : r.sequence <= restartPoint.sequence

(* The frames of one log that are settled come in the order of the line.   *)
SettledInOrder(wal) ==
  \A i, j \in 1..Len(wal) :
    i < j /\ wal[i] \in Settled /\ wal[j] \in Settled
      => wal[i].sequence < wal[j].sequence

(* A log from which recovery ends on the line S and reaches all of it that *)
(* the base does not cover.                                                *)
EndsOn(base, decoded, S) ==
  /\ base \in S
  /\ \A i \in 1..Len(decoded) : decoded[i] \in Revision
  /\ decoded # <<>> => /\ decoded[Len(decoded)] \in S
                       /\ base.sequence <= decoded[Len(decoded)].sequence
  /\ \A r \in S : \/ r.sequence <= base.sequence
                  \/ \E i \in 1..Len(decoded) : decoded[i] = r

LogEndsSettled == EndsOn(currentBase, decodedRecords(durableWal), Settled)

(* What is volatile is what is durable, and perhaps whole frames behind it. *)
VolatileExtends ==
  \/ volatileWal = durableWal
  \/ /\ Len(durableWal) <= Len(volatileWal)
     /\ \A i \in 1..Len(durableWal) : volatileWal[i] = durableWal[i]
     /\ \A i \in 1..Len(volatileWal) : volatileWal[i] \in Revision

FramesAreOfThePast ==
  \A i \in 1..Len(volatileWal) :
    volatileWal[i] # Torn => volatileWal[i].revisionId[1] <= lease.epoch

recovers(e) == recoveredHead(recovery[e].base, recovery[e].wal)

(* What e has put into the log so far has been settled.                    *)
OwnFramesSettled(e, n) ==
  \A i \in 1..n :
    volatileWal[i] # Torn /\ volatileWal[i].revisionId[1] = e
      => volatileWal[i] \in Settled

(* Nothing of e is under way behind the durable log.                       *)
IsWaiting(e) ==
  \/ phase[e] \in Recovering
  \/ phase[e] = "serving" /\ walStage[e] = "idle" /\ mode[e] = "read-write"
  \/ walStage[e] = "append"

(* The last Authority to take the lease is the only one that storage may   *)
(* still obey: what it is about to make durable comes right behind the     *)
(* restart point, whatever else is in the log.                             *)
AtTheTail(e) ==
  /\ phase[e] = "serving" => ~hasTruncatedTail(durableWal)
  /\ phase[e] = "serving" /\ walStage[e] = "idle" /\ mode[e] = "read-write"
       => head(e) = restartPoint
  /\ walStage[e] \in {"append", "fsync"}
       => continues(restartPoint, head(e)) /\ head(e).revisionId[1] = e
  /\ IsWaiting(e) => OwnFramesSettled(e, Len(volatileWal))
  /\ walStage[e] = "fsync"
       => /\ volatileWal # <<>>
          /\ volatileWal[Len(volatileWal)] = head(e)
          /\ \A i \in 1..Len(volatileWal) : volatileWal[i] \in Revision
          /\ OwnFramesSettled(e, Len(volatileWal) - 1)
  /\ phase[e] = "reading-wal" => recovery[e].base = currentBase
  /\ phase[e] = "truncating"
       => hasTruncatedTail(durableWal) /\ recovers(e) = restartPoint
  /\ phase[e] = "opening"
       => ~hasTruncatedTail(durableWal) /\ recovers(e) = restartPoint

LeaseholderIsAtTheTail == \A e \in Epochs : e = lease.epoch => AtTheTail(e)

(* Where a recovery would start from what it has read, however long ago,   *)
(* is settled.                                                             *)
ReadsSettled(read) ==
  LET decoded == decodedRecords(read.wal)
  IN  /\ read.base \in Settled
      /\ decoded # <<>> => decoded[Len(decoded)] \in Settled
      /\ read.level = "snapshot" /\ read.base # Genesis
           => /\ hasManifest
              /\ read.base.sequence <= manifest.revision.sequence
              /\ read.base.revisionId \in snapshots

RecoveryReadsSettled == \A e \in Epochs : ReadsSettled(recovery[e])

IInv ==
  /\ TypeOK
  /\ NamesAreTheirOwn
  /\ AuthorityShape
  /\ SettledIsALine
  /\ LogEndsSettled
  /\ VolatileExtends
  /\ SettledInOrder(volatileWal)
  /\ FramesAreOfThePast
  /\ LeaseholderIsAtTheTail
  /\ RecoveryReadsSettled
  /\ ManifestIsBacked

(* Where no Authority finds un-fsynced frames of another, the log is more: *)
(* a piece of the line without gaps that starts no later than behind the   *)
(* base, and nothing but the leaseholder's own write behind it.            *)
Fits(base, decoded, S) ==
  /\ base \in S
  /\ \A i \in 1..Len(decoded) :
       /\ decoded[i] \in S
       /\ decoded[i].sequence + 1 = decoded[1].sequence + i
  /\ decoded # <<>> => /\ decoded[1].sequence <= base.sequence + 1
                       /\ base.sequence <= decoded[Len(decoded)].sequence

LogIsSettled == Fits(currentBase, decodedRecords(durableWal), Settled)

NoForeignTail ==
  \A e \in Epochs : e = lease.epoch =>
    /\ IsWaiting(e) => volatileWal = durableWal
    /\ walStage[e] = "fsync" => volatileWal = Append(durableWal, head(e))

CleanInv == IInv /\ LogIsSettled /\ NoForeignTail

-----------------------------------------------------------------------------
(* Lines and logs, whoever they belong to. *)

(* What the constants and the definitions say of single Revisions.         *)
LEMMA RevisionFacts ==
  /\ Genesis \in Revision
  /\ Torn \notin Revision
  /\ \A r \in Revision : r.sequence \in Nat
<1>1. Genesis \in Revision
  BY EpochAssumption, LengthAssumption DEF Genesis, Revision, RevisionIds
<1>2. \A r \in Revision : r.sequence \in Nat
  BY LengthAssumption DEF Revision
<1> QED
  BY <1>1, <1>2, TornAssumption

(* What a prefix of a sequence holds.                                      *)
LEMMA PrefixProperties ==
  ASSUME NEW T, NEW s \in Seq(T), NEW n \in 0..Len(s)
  PROVE  /\ SubSeq(s, 1, n) \in Seq(T)
         /\ Len(SubSeq(s, 1, n)) = n
         /\ \A i \in 1..n : SubSeq(s, 1, n)[i] = s[i]
OBVIOUS

(* What a suffix of a sequence holds.                                      *)
LEMMA SuffixProperties ==
  ASSUME NEW T, NEW s \in Seq(T), NEW n \in 0..Len(s)
  PROVE  /\ SubSeq(s, n + 1, Len(s)) \in Seq(T)
         /\ Len(SubSeq(s, n + 1, Len(s))) = Len(s) - n
         /\ \A i \in 1..(Len(s) - n) : SubSeq(s, n + 1, Len(s))[i] = s[n + i]
OBVIOUS

(* What a sequence with one more element holds.                            *)
LEMMA AppendedProperties ==
  ASSUME NEW T, NEW s \in Seq(T), NEW t \in T
  PROVE  /\ Append(s, t) \in Seq(T)
         /\ Len(Append(s, t)) = Len(s) + 1
         /\ Append(s, t)[Len(s) + 1] = t
         /\ \A i \in 1..Len(s) : Append(s, t)[i] = s[i]
OBVIOUS

(* Decoding drops a torn last frame and nothing else.                      *)
LEMMA DecodedIsAPrefix ==
  ASSUME NEW wal \in Frames
  PROVE  /\ decodedRecords(wal) \in Frames
         /\ Len(decodedRecords(wal)) = IF hasTruncatedTail(wal)
                                         THEN Len(wal) - 1 ELSE Len(wal)
         /\ \A i \in 1..Len(decodedRecords(wal)) : decodedRecords(wal)[i] = wal[i]
         /\ hasTruncatedTail(wal) => wal[Len(wal)] = Torn /\ Len(wal) > 0
<1>1. CASE hasTruncatedTail(wal)
  <2>1. Len(wal) > 0 /\ wal[Len(wal)] = Torn
    BY <1>1, EmptySeq, LenProperties DEF Frames, hasTruncatedTail
  <2>2. decodedRecords(wal) = SubSeq(wal, 1, Len(wal) - 1)
    BY <1>1 DEF decodedRecords
  <2>3. Len(wal) - 1 \in Nat /\ 1 \in Int
    BY <2>1, LenProperties DEF Frames
  <2>4. Len(wal) - 1 \in 0..Len(wal)
    BY <2>1, <2>3, LenProperties DEF Frames
  <2>5. /\ decodedRecords(wal) \in Frames
        /\ Len(decodedRecords(wal)) = Len(wal) - 1
        /\ \A i \in 1..(Len(wal) - 1) : decodedRecords(wal)[i] = wal[i]
    BY <2>2, <2>4, PrefixProperties DEF Frames
  <2> QED
    BY <1>1, <2>1, <2>5
<1>2. CASE ~ hasTruncatedTail(wal)
  BY <1>2 DEF decodedRecords
<1> QED
  BY <1>1, <1>2

(* Recovery ends with the last record, if it got any, else at its base.    *)
LEMMA RecoveryEnds ==
  ASSUME NEW S \in SUBSET Revision, IsALine(S),
         NEW base \in S, NEW wal \in Frames, decodedRecords(wal) # <<>>
           => LET decoded == decodedRecords(wal)
              IN  /\ decoded[Len(decoded)] \in S
                  /\ base.sequence <= decoded[Len(decoded)].sequence
  PROVE  LET decoded == decodedRecords(wal)
         IN  /\ recoveredHead(base, wal) \in S
             /\ base.sequence <= recoveredHead(base, wal).sequence
             /\ decoded = <<>> => recoveredHead(base, wal) = base
             /\ decoded # <<>> => recoveredHead(base, wal) = decoded[Len(decoded)]
<1> DEFINE decoded == decodedRecords(wal)
           last == decoded[Len(decoded)]
<1>1. base.sequence \in Nat
  BY RevisionFacts
<1>2. CASE decoded = <<>>
  BY <1>1, <1>2 DEF recoveredHead
<1>3. CASE decoded # <<>>
  <2>1. last \in S /\ last.sequence \in Nat /\ base.sequence <= last.sequence
    BY <1>3, RevisionFacts
  <2>2. last.sequence > base.sequence \/ last = base
    BY <1>1, <2>1 DEF IsALine
  <2> QED
    BY <1>1, <1>3, <2>1, <2>2 DEF recoveredHead, isReplayed
<1> QED
  BY <1>2, <1>3

(* A log that grows by whole frames, the last of which continues where it  *)
(* ended, ends there.                                                      *)
LEMMA LongerEndsOn ==
  ASSUME NEW S \in SUBSET Revision, IsALine(S),
         NEW base, NEW wal \in Frames, EndsOn(base, decodedRecords(wal), S),
         ~ hasTruncatedTail(wal),
         \A s \in S : s.sequence <= recoveredHead(base, wal).sequence,
         NEW longer \in Frames, longer # <<>>, Len(wal) <= Len(longer),
         \A i \in 1..Len(wal) : longer[i] = wal[i],
         \A i \in 1..Len(longer) : longer[i] \in Revision,
         NEW r, r = longer[Len(longer)], continues(recoveredHead(base, wal), r)
  PROVE  /\ IsALine(S \cup {r})
         /\ EndsOn(base, decodedRecords(longer), S \cup {r})
         /\ recoveredHead(base, longer) = r
         /\ ~ hasTruncatedTail(longer)
<1> DEFINE top == recoveredHead(base, wal)
<1>1. decodedRecords(wal) = wal /\ Len(wal) \in Nat /\ Len(longer) \in 1..Len(longer)
  BY EmptySeq, LenProperties DEF decodedRecords, Frames
<1>2. r \in Revision /\ r # Torn
  BY <1>1, RevisionFacts
<1>3. ~ hasTruncatedTail(longer) /\ decodedRecords(longer) = longer
  BY <1>2 DEF hasTruncatedTail, decodedRecords
<1>4. /\ base \in S
      /\ base.sequence \in Nat
      /\ top \in S
      /\ top.sequence \in Nat
      /\ base.sequence <= top.sequence
  BY <1>1, RecoveryEnds, RevisionFacts DEF EndsOn
<1>5. r.sequence \in Nat /\ r.sequence = top.sequence + 1
  BY <1>2, RevisionFacts DEF continues
<1>6. IsALine(S \cup {r})
  <2>1. \A s \in S : s.sequence \in Nat /\ s.sequence # r.sequence
    BY <1>4, <1>5, RevisionFacts
  <2> QED
    BY <1>4, <1>5, <2>1 DEF IsALine
<1>7. recoveredHead(base, longer) = r
  BY <1>3, <1>4, <1>5 DEF recoveredHead, isReplayed
<1>8. EndsOn(base, longer, S \cup {r})
  <2>1. \A s \in S \cup {r} : \/ s.sequence <= base.sequence
                              \/ \E i \in 1..Len(longer) : longer[i] = s
    <3> SUFFICES ASSUME NEW s \in S, ~ (s.sequence <= base.sequence)
                 PROVE  \E i \in 1..Len(longer) : longer[i] = s
      BY <1>1
    <3>1. PICK i \in 1..Len(wal) : wal[i] = s
      BY <1>1 DEF EndsOn
    <3>2. i \in 1..Len(longer) /\ longer[i] = s
      BY <1>1, <3>1
    <3> QED
      BY <3>2
  <2>2. base.sequence <= r.sequence
    BY <1>4, <1>5
  <2> QED
    BY <1>4, <2>1, <2>2 DEF EndsOn
<1> QED
  BY <1>3, <1>6, <1>7, <1>8

(* The base may move to any later Revision of the line: the log still ends *)
(* where it ended.                                                         *)
LEMMA LaterBaseEndsOn ==
  ASSUME NEW S \in SUBSET Revision, IsALine(S),
         NEW base, NEW wal \in Frames, EndsOn(base, decodedRecords(wal), S),
         NEW later \in S,
         base.sequence <= later.sequence,
         later.sequence <= recoveredHead(base, wal).sequence
  PROVE  /\ EndsOn(later, decodedRecords(wal), S)
         /\ recoveredHead(later, wal) = recoveredHead(base, wal)
<1> DEFINE decoded == decodedRecords(wal)
           top == recoveredHead(base, wal)
<1>1. /\ base \in S
      /\ base.sequence \in Nat
      /\ later.sequence \in Nat
      /\ top \in S
      /\ decoded = <<>> => top = base
      /\ decoded # <<>> => top = decoded[Len(decoded)]
  BY RecoveryEnds, RevisionFacts DEF EndsOn
<1>2. \A r \in S : r.sequence <= base.sequence => r.sequence <= later.sequence
  BY <1>1, RevisionFacts
<1>3. EndsOn(later, decoded, S)
  BY <1>1, <1>2 DEF EndsOn
<1>4. CASE decoded = <<>>
  BY <1>1, <1>3, <1>4 DEF IsALine
<1>5. CASE decoded # <<>>
  BY <1>1, <1>3, <1>5, RecoveryEnds DEF EndsOn
<1> QED
  BY <1>3, <1>4, <1>5

(* What is left of a log when everything up to one of its frames is cut    *)
(* off.                                                                    *)
LEMMA CutProperties ==
  ASSUME NEW wal \in Frames, NEW n \in 1..Len(wal), wal[n] # Torn
  PROVE  LET shorter == SubSeq(wal, n + 1, Len(wal))
             decoded == decodedRecords(wal)
             kept == decodedRecords(shorter)
         IN  /\ shorter \in Frames
             /\ Len(shorter) = Len(wal) - n
             /\ \A i \in 1..Len(shorter) : shorter[i] = wal[n + i]
             /\ hasTruncatedTail(shorter) <=> hasTruncatedTail(wal)
             /\ kept \in Frames
             /\ n \in 1..Len(decoded)
             /\ decoded[n] = wal[n]
             /\ Len(kept) = Len(decoded) - n
             /\ \A i \in 1..Len(kept) : /\ n + i \in 1..Len(decoded)
                                        /\ kept[i] = decoded[n + i]
<1> DEFINE shorter == SubSeq(wal, n + 1, Len(wal))
           decoded == decodedRecords(wal)
           kept == decodedRecords(shorter)
<1>1. /\ Len(wal) \in Nat
      /\ shorter \in Frames
      /\ Len(shorter) \in Nat
      /\ Len(shorter) = Len(wal) - n
      /\ \A i \in 1..Len(shorter) : shorter[i] = wal[n + i]
  BY SuffixProperties, LenProperties DEF Frames
<1>2. hasTruncatedTail(wal) => n < Len(wal)
  BY <1>1, DecodedIsAPrefix
<1> HIDE DEF shorter
<1>3. shorter # <<>> <=> n < Len(wal)
  <2>1. shorter = <<>> => Len(shorter) = 0
    BY EmptySeq
  <2>2. shorter # <<>> => Len(shorter) > 0
    BY <1>1, EmptySeq DEF Frames
  <2> QED
    BY <1>1, <2>1, <2>2
<1>4. n < Len(wal) => shorter[Len(shorter)] = wal[Len(wal)]
  <2> SUFFICES ASSUME n < Len(wal) PROVE shorter[Len(shorter)] = wal[Len(wal)]
    OBVIOUS
  <2>1. Len(shorter) \in 1..Len(shorter) /\ n + Len(shorter) = Len(wal)
    BY <1>1
  <2> QED
    BY <1>1, <2>1
<1>5. wal # <<>>
  BY <1>1, EmptySeq
<1>6. hasTruncatedTail(shorter) <=> hasTruncatedTail(wal)
  BY <1>2, <1>3, <1>4, <1>5 DEF hasTruncatedTail
<1>7. /\ Len(decoded) \in Nat
      /\ kept \in Frames
      /\ Len(kept) \in Nat
      /\ Len(kept) = Len(decoded) - n
      /\ n \in 1..Len(decoded)
      /\ decoded[n] = wal[n]
  <2>1. /\ decoded \in Frames
        /\ Len(decoded) = IF hasTruncatedTail(wal) THEN Len(wal) - 1 ELSE Len(wal)
        /\ \A i \in 1..Len(decoded) : decoded[i] = wal[i]
    BY DecodedIsAPrefix
  <2>2. /\ kept \in Frames
        /\ Len(kept) = IF hasTruncatedTail(shorter) THEN Len(shorter) - 1
                                                    ELSE Len(shorter)
    BY <1>1, DecodedIsAPrefix
  <2>3. n \in 1..Len(decoded)
    BY <1>1, <1>2, <2>1
  <2> QED
    BY <1>1, <1>2, <1>6, <2>1, <2>2, <2>3, LenProperties DEF Frames
<1>8. \A i \in 1..Len(kept) : /\ n + i \in 1..Len(decoded)
                              /\ kept[i] = decoded[n + i]
  <2> SUFFICES ASSUME NEW i \in 1..Len(kept)
               PROVE n + i \in 1..Len(decoded) /\ kept[i] = decoded[n + i]
    OBVIOUS
  <2>1. n + i \in 1..Len(decoded)
    BY <1>7
  <2>2. i \in 1..Len(shorter)
    BY <1>1, <1>7, DecodedIsAPrefix
  <2>3. kept[i] = shorter[i] /\ decoded[n + i] = wal[n + i]
    BY <1>1, <2>1, DecodedIsAPrefix
  <2> QED
    BY <1>1, <2>1, <2>2, <2>3
<1> QED
  BY <1>1, <1>6, <1>7, <1>8 DEF shorter

(* A log in the order of its line may lose everything up to its base.      *)
LEMMA CompactedEndsOn ==
  ASSUME NEW S \in SUBSET Revision, IsALine(S),
         NEW base, NEW wal \in Frames, EndsOn(base, decodedRecords(wal), S),
         NEW n \in 1..Len(wal), wal[n] = base,
         \A i \in 1..(n - 1) : wal[i] \in S => wal[i].sequence < base.sequence
  PROVE  LET shorter == SubSeq(wal, n + 1, Len(wal))
         IN  /\ EndsOn(base, decodedRecords(shorter), S)
             /\ recoveredHead(base, shorter) = recoveredHead(base, wal)
<1> DEFINE shorter == SubSeq(wal, n + 1, Len(wal))
           decoded == decodedRecords(wal)
           kept == decodedRecords(shorter)
<1>1. base \in S /\ base # Torn /\ base.sequence \in Nat
  BY RevisionFacts DEF EndsOn
<1>2. /\ shorter \in Frames
      /\ kept \in Frames
      /\ n \in 1..Len(decoded)
      /\ decoded[n] = base
      /\ Len(kept) = Len(decoded) - n
      /\ \A i \in 1..Len(kept) : /\ n + i \in 1..Len(decoded)
                                 /\ kept[i] = decoded[n + i]
  BY <1>1, CutProperties
<1>3. /\ Len(decoded) \in Nat
      /\ Len(kept) \in Nat
      /\ \A i \in 1..Len(decoded) : i \in 1..Len(wal) /\ decoded[i] = wal[i]
      /\ EndsOn(base, decoded, S)
  <2>1. /\ decoded \in Frames
        /\ Len(decoded) = IF hasTruncatedTail(wal) THEN Len(wal) - 1 ELSE Len(wal)
        /\ \A i \in 1..Len(decoded) : decoded[i] = wal[i]
    BY DecodedIsAPrefix
  <2>2. Len(decoded) \in Nat /\ Len(kept) \in Nat /\ Len(wal) \in Nat
    BY <1>2, <2>1, LenProperties DEF Frames
  <2> QED
    BY <2>1, <2>2
<1> HIDE DEF shorter, kept, decoded
<1>4. kept # <<>> => /\ decoded # <<>>
                     /\ kept[Len(kept)] = decoded[Len(decoded)]
  <2> SUFFICES ASSUME kept # <<>>
               PROVE  decoded # <<>> /\ kept[Len(kept)] = decoded[Len(decoded)]
    OBVIOUS
  <2>1. Len(kept) \in 1..Len(kept)
    BY <1>2, <1>3, EmptySeq DEF Frames
  <2>2. n + Len(kept) = Len(decoded)
    BY <1>2, <1>3
  <2>3. kept[Len(kept)] = decoded[n + Len(kept)]
    BY <1>2, <2>1
  <2>4. decoded # <<>>
    BY <1>2, EmptySeq
  <2> QED
    BY <2>2, <2>3, <2>4
<1>5. kept = <<>> => decoded # <<>> /\ decoded[Len(decoded)] = base
  <2> SUFFICES ASSUME kept = <<>>
               PROVE  decoded # <<>> /\ decoded[Len(decoded)] = base
    OBVIOUS
  <2>1. Len(kept) = 0
    BY EmptySeq
  <2>2. n = Len(decoded)
    BY <1>2, <1>3, <2>1
  <2>3. decoded # <<>>
    BY <1>2, EmptySeq
  <2> QED
    BY <1>2, <2>2, <2>3
<1>6. \A r \in S : \/ r.sequence <= base.sequence
                   \/ \E i \in 1..Len(kept) : kept[i] = r
  <2> SUFFICES ASSUME NEW r \in S, ~ (r.sequence <= base.sequence)
               PROVE  \E i \in 1..Len(kept) : kept[i] = r
    OBVIOUS
  <2>1. r.sequence \in Nat
    BY RevisionFacts
  <2>2. PICK i \in 1..Len(decoded) : decoded[i] = r
    BY <1>3 DEF EndsOn
  <2>3. i > n
    <3>1. i # n
      BY <1>1, <1>2, <2>1, <2>2
    <3>2. ~ (i \in 1..(n - 1))
      <4> SUFFICES ASSUME i \in 1..(n - 1) PROVE FALSE
        OBVIOUS
      <4>1. wal[i] = r
        BY <1>3, <2>2
      <4> QED
        BY <1>1, <2>1, <4>1
    <3> QED
      BY <1>2, <1>3, <3>1, <3>2
  <2>4. i - n \in 1..Len(kept) /\ n + (i - n) = i
    BY <1>2, <1>3, <2>3
  <2>5. kept[i - n] = r
    BY <1>2, <2>2, <2>4
  <2> QED
    BY <2>4, <2>5
<1>7. EndsOn(base, kept, S)
  BY <1>1, <1>2, <1>3, <1>4, <1>6 DEF EndsOn
<1>8. decoded # <<>> => recoveredHead(base, wal) = decoded[Len(decoded)]
  BY <1>1, <1>3, RecoveryEnds DEF EndsOn, decoded
<1>9. /\ kept = <<>> => recoveredHead(base, shorter) = base
      /\ kept # <<>> => recoveredHead(base, shorter) = kept[Len(kept)]
  BY <1>1, <1>2, <1>7, RecoveryEnds DEF EndsOn, kept
<1> QED
  BY <1>4, <1>5, <1>7, <1>8, <1>9 DEF kept, shorter

(* Half a frame behind a log changes nothing but that it must be cut off.  *)
LEMMA TornTailIsSkipped ==
  ASSUME NEW wal \in Frames, ~ hasTruncatedTail(wal)
  PROVE  LET longer == Append(wal, Torn)
         IN  /\ longer \in Frames
             /\ decodedRecords(longer) = decodedRecords(wal)
             /\ decodedRecords(wal) = wal
<1> DEFINE longer == Append(wal, Torn)
           rest == decodedRecords(longer)
<1>1. /\ longer \in Frames
      /\ Len(wal) \in Nat
      /\ Len(longer) = Len(wal) + 1
      /\ longer[Len(wal) + 1] = Torn
      /\ \A i \in 1..Len(wal) : longer[i] = wal[i]
  BY AppendedProperties, LenProperties DEF Frames
<1> HIDE DEF longer
<1>2. longer # <<>>
  BY <1>1, EmptySeq
<1>3. hasTruncatedTail(longer)
  BY <1>1, <1>2 DEF hasTruncatedTail
<1>4. /\ rest \in Frames
      /\ Len(rest) = Len(wal)
      /\ \A i \in 1..Len(wal) : rest[i] = wal[i]
  BY <1>1, <1>3, DecodedIsAPrefix
<1> HIDE DEF rest
<1>5. rest = wal
  BY <1>4, SeqEqual DEF Frames
<1> QED
  BY <1>1, <1>5 DEF decodedRecords, longer, rest

(* truncateDurable() leaves what decoding returned, without a torn frame.  *)
LEMMA TruncationIsClean ==
  ASSUME NEW wal \in Frames, hasTruncatedTail(wal),
         \A i \in 1..Len(decodedRecords(wal)) : decodedRecords(wal)[i] \in Revision
  PROVE  LET rest == SubSeq(wal, 1, Len(wal) - 1)
         IN  /\ rest \in Frames
             /\ ~ hasTruncatedTail(rest)
             /\ rest = decodedRecords(wal)
             /\ rest = decodedRecords(rest)
<1> DEFINE rest == SubSeq(wal, 1, Len(wal) - 1)
<1>1. rest = decodedRecords(wal)
  BY DEF decodedRecords
<1>2. rest \in Frames
  BY <1>1, DecodedIsAPrefix
<1>3. ~ hasTruncatedTail(rest)
  <2> SUFFICES ASSUME hasTruncatedTail(rest) PROVE FALSE
    OBVIOUS
  <2>1. Len(rest) \in Nat /\ Len(rest) > 0 /\ rest[Len(rest)] = Torn
    <3> HIDE DEF rest
    <3> QED
      BY <1>2, DecodedIsAPrefix, LenProperties DEF Frames
  <2>2. Len(rest) \in 1..Len(rest)
    BY <2>1
  <2> QED
    BY <1>1, <2>1, <2>2, RevisionFacts
<1> QED
  BY <1>1, <1>2, <1>3 DEF decodedRecords

(* The epoch in the name of a whole frame. *)
LEMMA EpochsOfFrames ==
  ASSUME NEW wal \in Frames, NEW i \in 1..Len(wal), wal[i] # Torn
  PROVE  wal[i] \in Revision /\ wal[i].revisionId[1] \in Nat
<1>1. wal[i] \in Revision
  BY ElementOfSeq DEF Frames
<1>2. wal[i].revisionId \in RevisionIds
  BY <1>1 DEF Revision
<1> QED
  BY <1>1, <1>2, EpochAssumption DEF RevisionIds

-----------------------------------------------------------------------------
(* Every variable stays in its range. *)

(* Replacing one value of a sequence that an Authority keeps.              *)
LEMMA NestedExcept ==
  ASSUME NEW T, NEW f \in [Epochs -> Seq(T)], NEW e \in Epochs,
         NEW i \in 1..Len(f[e]), NEW x \in T
  PROVE  LET g == [f EXCEPT ![e][i] = x]
         IN  /\ g \in [Epochs -> Seq(T)]
             /\ Len(g[e]) = Len(f[e])
             /\ g[e][i] = x
             /\ \A j \in 1..Len(f[e]) : j # i => g[e][j] = f[e][j]
             /\ \A other \in Epochs : other # e => g[other] = f[other]
<1> DEFINE s == [f[e] EXCEPT ![i] = x]
<1>1. f[e] \in Seq(T)
  OBVIOUS
<1>2. /\ s \in Seq(T)
      /\ Len(s) = Len(f[e])
      /\ \A j \in 1..Len(f[e]) : s[j] = IF j = i THEN x ELSE f[e][j]
  BY <1>1, ExceptSeq
<1>3. [f EXCEPT ![e][i] = x] = [f EXCEPT ![e] = s]
  OBVIOUS
<1> HIDE DEF s
<1> QED
  BY <1>2, <1>3

(* Appending one value to a sequence that an Authority keeps.              *)
LEMMA NestedAppend ==
  ASSUME NEW T, NEW f \in [Epochs -> Seq(T)], NEW e \in Epochs, NEW x \in T
  PROVE  LET g == [f EXCEPT ![e] = Append(@, x)]
         IN  /\ g \in [Epochs -> Seq(T)]
             /\ Len(g[e]) = Len(f[e]) + 1
             /\ g[e][Len(f[e]) + 1] = x
             /\ \A j \in 1..Len(f[e]) : g[e][j] = f[e][j]
             /\ \A other \in Epochs : other # e => g[other] = f[other]
<1> DEFINE s == Append(f[e], x)
<1>1. f[e] \in Seq(T)
  OBVIOUS
<1>2. /\ s \in Seq(T)
      /\ Len(s) = Len(f[e]) + 1
      /\ s[Len(f[e]) + 1] = x
      /\ \A j \in 1..Len(f[e]) : s[j] = f[e][j]
  BY <1>1, AppendedProperties
<1>3. [f EXCEPT ![e] = Append(@, x)] = [f EXCEPT ![e] = s]
  OBVIOUS
<1> HIDE DEF s
<1> QED
  BY <1>2, <1>3

CommitState == [stage : CommitStages, generation : Nat]

(* Moving the commit of one Revision to another stage, or starting anew.   *)
LEMMA CommitTypes ==
  ASSUME TypeOK, NEW e \in Epochs, NEW i \in Indices(e)
  PROVE  /\ \A stage \in CommitStages :
              LET moved == [commit EXCEPT ![e][i].stage = stage]
              IN  /\ moved \in [Epochs -> Seq(CommitState)]
                  /\ Len(moved[e]) = Len(line[e])
                  /\ moved[e][i].stage = stage
                  /\ \A j \in Indices(e) : j # i => moved[e][j] = commit[e][j]
                  /\ \A other \in Epochs : other # e => moved[other] = commit[other]
         /\ \A state \in CommitState :
              LET moved == [commit EXCEPT ![e][i] = state]
              IN  /\ moved \in [Epochs -> Seq(CommitState)]
                  /\ Len(moved[e]) = Len(line[e])
                  /\ moved[e][i] = state
                  /\ \A j \in Indices(e) : j # i => moved[e][j] = commit[e][j]
                  /\ \A other \in Epochs : other # e => moved[other] = commit[other]
<1>1. /\ commit \in [Epochs -> Seq(CommitState)]
      /\ Len(commit[e]) = Len(line[e])
      /\ i \in 1..Len(commit[e])
  BY DEF TypeOK, CommitState, Indices
<1>2. ASSUME NEW state \in CommitState
      PROVE  LET moved == [commit EXCEPT ![e][i] = state]
             IN  /\ moved \in [Epochs -> Seq(CommitState)]
                 /\ Len(moved[e]) = Len(line[e])
                 /\ moved[e][i] = state
                 /\ \A j \in Indices(e) : j # i => moved[e][j] = commit[e][j]
                 /\ \A other \in Epochs : other # e => moved[other] = commit[other]
  BY <1>1, NestedExcept DEF Indices
<1>3. ASSUME NEW stage \in CommitStages
      PROVE  /\ [commit EXCEPT ![e][i].stage = stage]
                  = [commit EXCEPT ![e][i] = [stage |-> stage,
                       generation |-> commit[e][i].generation]]
             /\ [stage |-> stage, generation |-> commit[e][i].generation]
                  \in CommitState
  <2>1. commit[e][i] \in CommitState
    BY <1>1, ElementOfSeq
  <2>2. [commit[e][i] EXCEPT !.stage = stage]
          = [stage |-> stage, generation |-> commit[e][i].generation]
    BY <2>1 DEF CommitState
  <2> QED
    BY <2>1, <2>2 DEF CommitState
<1>4. ASSUME NEW stage \in CommitStages
      PROVE  LET moved == [commit EXCEPT ![e][i].stage = stage]
             IN  /\ moved \in [Epochs -> Seq(CommitState)]
                 /\ Len(moved[e]) = Len(line[e])
                 /\ moved[e][i].stage = stage
                 /\ \A j \in Indices(e) : j # i => moved[e][j] = commit[e][j]
                 /\ \A other \in Epochs : other # e => moved[other] = commit[other]
  <2> DEFINE state == [stage |-> stage, generation |-> commit[e][i].generation]
  <2>1. state \in CommitState /\ state.stage = stage
    BY <1>3
  <2>2. [commit EXCEPT ![e][i].stage = stage] = [commit EXCEPT ![e][i] = state]
    BY <1>3
  <2> HIDE DEF state
  <2> QED
    BY <1>2, <2>1, <2>2
<1> QED
  BY <1>2, <1>4

-----------------------------------------------------------------------------
(* What is acknowledged. *)

(* Of the three levels, all but `memory` reach `wal`.                      *)
LEMMA RanksOfLevels ==
  /\ \A achieved \in Levels :
       /\ isDurabilityAtLeast(achieved, "wal") <=> achieved # "memory"
       /\ isDurabilityAtLeast(achieved, "snapshot") <=> achieved = "snapshot"
BY DEF Levels, isDurabilityAtLeast, durabilityRank

AcknowledgedMeans ==
  \A target, r :
    r \in Acknowledged(target)
      <=> \E e \in Epochs : \E i \in Indices(e) :
            line[e][i] = r /\ isDurabilityAtLeast(level[e][i], target)

(* What is acknowledged is a Revision of some Authority, at that level.    *)
LEMMA AcknowledgedMembers == AcknowledgedMeans
BY DEF AcknowledgedMeans, Acknowledged, AcknowledgedBy

(* In terms of the levels themselves.                                      *)
AtWal(r) ==
  \E e \in Epochs : \E i \in Indices(e) : line[e][i] = r /\ level[e][i] # "memory"
AtSnapshot(r) ==
  \E e \in Epochs : \E i \in Indices(e) : line[e][i] = r /\ level[e][i] = "snapshot"

LevelsMean ==
  TypeOK => \A r : /\ r \in Acknowledged("wal") <=> AtWal(r)
                   /\ r \in Acknowledged("snapshot") <=> AtSnapshot(r)

(* Where all variables are in their range, that is what the levels say.    *)
LEMMA LevelsOfMembers == LevelsMean
<1> SUFFICES ASSUME TypeOK, NEW r
             PROVE /\ r \in Acknowledged("wal") <=> AtWal(r)
                   /\ r \in Acknowledged("snapshot") <=> AtSnapshot(r)
  BY DEF LevelsMean
<1>1. \A e \in Epochs : \A i \in Indices(e) : level[e][i] \in Levels
  <2> TAKE e \in Epochs
  <2>1. level[e] \in Seq(Levels) /\ Len(level[e]) = Len(line[e])
    BY DEF TypeOK
  <2> QED
    BY <2>1, ElementOfSeq DEF Indices
<1> QED
  BY <1>1, AcknowledgedMembers, RanksOfLevels
    DEF AcknowledgedMeans, AtWal, AtSnapshot

(* The Revisions an Authority knows are Revisions.                         *)
LEMMA LineTypes ==
  ASSUME TypeOK, NEW e \in Epochs
  PROVE  /\ line[e] \in Seq(Revision)
         /\ Len(line[e]) \in Nat
         /\ \A i \in Indices(e) : line[e][i] \in Revision
         /\ line[e] # <<>> => /\ Len(line[e]) \in Indices(e)
                              /\ head(e) \in Revision
<1>1. line[e] \in Seq(Revision) /\ Len(line[e]) \in Nat
  BY LenProperties DEF TypeOK
<1>2. line[e] # <<>> => Len(line[e]) \in Indices(e)
  BY <1>1, EmptySeq DEF Indices
<1> QED
  BY <1>1, <1>2, ElementOfSeq DEF Indices, head

(* So are the settled ones.                                                *)
LEMMA SettledTypes ==
  ASSUME TypeOK
  PROVE  Settled \subseteq Revision
BY LevelsOfMembers, LineTypes, RevisionFacts DEF LevelsMean, AtWal, Settled

(* They carry their own place in their names.                              *)
LEMMA SettledNames ==
  ASSUME TypeOK, NamesAreTheirOwn
  PROVE  \A r \in Settled : IsNamed(r)
<1>1. IsNamed(Genesis)
  BY DEF IsNamed, Genesis
<1> QED
  BY <1>1, LevelsOfMembers DEF LevelsMean, AtWal, Settled, NamesAreTheirOwn

(* What is at `snapshot` is at `wal` too.                                  *)
LEMMA SnapshotsAreSettled ==
  ASSUME TypeOK
  PROVE  Acknowledged("snapshot") \subseteq Settled
BY LevelsOfMembers DEF LevelsMean, AtWal, AtSnapshot, Settled

(* The restart point of a document whose log ends on the settled line.     *)
LEMMA RestartPointFacts ==
  ASSUME IInv
  PROVE  /\ Settled \in SUBSET Revision
         /\ IsALine(Settled)
         /\ durableWal \in Frames
         /\ volatileWal \in Frames
         /\ EndsOn(currentBase, decodedRecords(durableWal), Settled)
         /\ restartPoint \in Settled
         /\ currentBase \in Settled
         /\ currentBase.sequence <= restartPoint.sequence
         /\ \A r \in Settled : r.sequence <= restartPoint.sequence
<1>1. /\ Settled \in SUBSET Revision
      /\ IsALine(Settled)
      /\ durableWal \in Frames
      /\ volatileWal \in Frames
      /\ EndsOn(currentBase, decodedRecords(durableWal), Settled)
      /\ \A r \in Settled : r.sequence <= restartPoint.sequence
  BY SettledTypes DEF IInv, TypeOK, SettledIsALine, LogEndsSettled
<1> QED
  BY <1>1, RecoveryEnds DEF restartPoint, EndsOn

(* What comes next on the line is not settled yet.                         *)
LEMMA TheNextIsNew ==
  ASSUME IInv, NEW r \in Revision, continues(restartPoint, r)
  PROVE  /\ r \notin Settled
         /\ \A s \in Settled : s.sequence < r.sequence
<1>1. /\ restartPoint.sequence \in Nat
      /\ \A s \in Settled : s.sequence \in Nat /\ s.sequence <= restartPoint.sequence
  BY RestartPointFacts, RevisionFacts
<1>2. r.sequence = restartPoint.sequence + 1
  BY DEF continues
<1> QED
  BY <1>1, <1>2

(* The durable log is the beginning of the volatile one, all of it where   *)
(* it ends in a torn frame.                                                *)
LEMMA VolatileFacts ==
  ASSUME IInv
  PROVE  /\ Len(durableWal) \in Nat
         /\ Len(volatileWal) \in Nat
         /\ Len(durableWal) <= Len(volatileWal)
         /\ \A i \in 1..Len(durableWal) : volatileWal[i] = durableWal[i]
         /\ hasTruncatedTail(durableWal) => volatileWal = durableWal
         /\ ~ hasTruncatedTail(durableWal)
              => \A i \in 1..Len(volatileWal) : volatileWal[i] \in Revision
<1>1. /\ durableWal \in Frames /\ Len(durableWal) \in Nat
      /\ volatileWal \in Frames /\ Len(volatileWal) \in Nat
  BY RestartPointFacts, LenProperties DEF Frames
<1>2. CASE volatileWal = durableWal
  <2>1. ~ hasTruncatedTail(durableWal)
          => \A i \in 1..Len(durableWal) : durableWal[i] \in Revision
    BY RestartPointFacts DEF EndsOn, decodedRecords
  <2> QED
    BY <1>1, <1>2, <2>1
<1>3. CASE volatileWal # durableWal
  <2>1. /\ Len(durableWal) <= Len(volatileWal)
        /\ \A i \in 1..Len(durableWal) : volatileWal[i] = durableWal[i]
        /\ \A i \in 1..Len(volatileWal) : volatileWal[i] \in Revision
    BY <1>3 DEF IInv, VolatileExtends
  <2>2. ~ hasTruncatedTail(durableWal)
    <3> SUFFICES ASSUME hasTruncatedTail(durableWal) PROVE FALSE
      OBVIOUS
    <3>1. Len(durableWal) \in 1..Len(durableWal) /\ durableWal[Len(durableWal)] = Torn
      BY <1>1, DecodedIsAPrefix
    <3> QED
      BY <1>1, <2>1, <3>1, RevisionFacts
  <2> QED
    BY <1>1, <2>1, <2>2
<1> QED
  BY <1>2, <1>3

-----------------------------------------------------------------------------
(* Steps that leave history alone. *)

(* Where manifest, lines, levels and decoded log stay, so does all that    *)
(* is said of them.                                                        *)
LEMMA HistoryStays ==
  ASSUME IInv, UNCHANGED <<manifest, line, level>>,
         decodedRecords(durableWal') = decodedRecords(durableWal),
         snapshots \subseteq snapshots'
  PROVE  /\ Settled' = Settled
         /\ restartPoint' = restartPoint
         /\ currentBase' = currentBase
         /\ hasManifest' = hasManifest
         /\ NamesAreTheirOwn'
         /\ SettledIsALine'
         /\ LogEndsSettled'
         /\ ManifestIsBacked'
<1>1. \A target : Acknowledged(target)' = Acknowledged(target)
  BY DEF Acknowledged, AcknowledgedBy, Indices
<1>2. Settled' = Settled
  BY <1>1 DEF Settled
<1>3. hasManifest' = hasManifest /\ currentBase' = currentBase
  BY DEF hasManifest, currentBase
<1>4. restartPoint' = restartPoint
  BY <1>3 DEF restartPoint, recoveredHead
<1>5. NamesAreTheirOwn'
  BY DEF IInv, NamesAreTheirOwn, Indices
<1>6. SettledIsALine'
  BY <1>2, <1>4 DEF IInv, SettledIsALine
<1>7. LogEndsSettled'
  BY <1>2, <1>3 DEF IInv, LogEndsSettled
<1>8. ManifestIsBacked'
  BY <1>1, <1>3 DEF IInv, ManifestIsBacked
<1> QED
  BY <1>2, <1>3, <1>4, <1>5, <1>6, <1>7, <1>8

(* No frame is added to either file.                                       *)
LEMMA FilesStay ==
  ASSUME IInv, UNCHANGED <<volatileWal, durableWal>>, Settled' = Settled,
         lease'.epoch \in Nat, lease.epoch <= lease'.epoch
  PROVE  VolatileExtends' /\ SettledInOrder(volatileWal)' /\ FramesAreOfThePast'
<1>1. VolatileExtends' /\ SettledInOrder(volatileWal)'
  BY DEF IInv, VolatileExtends, SettledInOrder
<1>2. FramesAreOfThePast'
  <2> SUFFICES ASSUME NEW i \in 1..Len(volatileWal), volatileWal[i] # Torn
               PROVE  volatileWal[i].revisionId[1] <= lease'.epoch
    BY DEF FramesAreOfThePast
  <2>1. volatileWal[i].revisionId[1] <= lease.epoch
    BY DEF IInv, FramesAreOfThePast
  <2>2. volatileWal[i].revisionId[1] \in Nat
    BY EpochsOfFrames, RestartPointFacts
  <2>3. lease.epoch \in Nat
    BY DEF IInv, TypeOK
  <2> QED
    BY <2>1, <2>2, <2>3
<1> QED
  BY <1>1, <1>2

(* Both files become one piece of what was volatile, and perhaps a torn    *)
(* frame.                                                                  *)
LEMMA FilesShrink ==
  ASSUME IInv, lease'.epoch = lease.epoch, volatileWal' = durableWal',
         Settled' = Settled,
         NEW n \in Nat, Len(volatileWal') \in Nat,
         \A i \in 1..Len(volatileWal') :
           \/ volatileWal'[i] = Torn
           \/ i + n \in 1..Len(volatileWal) /\ volatileWal'[i] = volatileWal[i + n]
  PROVE  /\ VolatileExtends' /\ SettledInOrder(volatileWal)' /\ FramesAreOfThePast'
         /\ \A e \in Epochs : OwnFramesSettled(e, Len(volatileWal))
                                => OwnFramesSettled(e, Len(volatileWal))'
<1>1. SettledInOrder(volatileWal)'
  <2> SUFFICES ASSUME NEW i \in 1..Len(volatileWal'), NEW j \in 1..Len(volatileWal'),
                      i < j, volatileWal'[i] \in Settled, volatileWal'[j] \in Settled
               PROVE  volatileWal'[i].sequence < volatileWal'[j].sequence
    BY DEF SettledInOrder
  <2>1. Torn \notin Settled
    BY RestartPointFacts, RevisionFacts
  <2>2. /\ i + n \in 1..Len(volatileWal) /\ volatileWal'[i] = volatileWal[i + n]
        /\ j + n \in 1..Len(volatileWal) /\ volatileWal'[j] = volatileWal[j + n]
        /\ i + n < j + n
    BY <2>1
  <2> QED
    BY <2>2 DEF IInv, SettledInOrder
<1>2. FramesAreOfThePast'
  BY DEF IInv, FramesAreOfThePast
<1>3. \A e \in Epochs : OwnFramesSettled(e, Len(volatileWal))
                          => OwnFramesSettled(e, Len(volatileWal))'
  BY DEF OwnFramesSettled
<1> QED
  BY <1>1, <1>2, <1>3 DEF VolatileExtends

(* What recoveries have read stays settled.                                *)
LEMMA ReadingsStay ==
  ASSUME IInv, UNCHANGED <<recovery, manifest>>, Settled \subseteq Settled',
         snapshots \subseteq snapshots'
  PROVE  RecoveryReadsSettled'
BY DEF IInv, RecoveryReadsSettled, ReadsSettled, hasManifest

(* Authorities other than the one that moves stay where they are.          *)
LEMMA OthersStayAtTheTail ==
  ASSUME IInv, NEW f \in Epochs, f = lease.epoch,
         UNCHANGED <<volatileWal, durableWal>>, Settled' = Settled,
         restartPoint' = restartPoint, currentBase' = currentBase,
         phase'[f] = phase[f], recovery'[f] = recovery[f], line'[f] = line[f],
         \/ walStage'[f] = walStage[f] /\ mode'[f] = mode[f]
         \/ walStage'[f] = walStage[f] /\ mode'[f] = "read-only"
         \/ walStage'[f] = "idle" /\ mode'[f] = "read-only"
  PROVE  AtTheTail(f)'
<1>1. AtTheTail(f)
  BY DEF IInv, LeaseholderIsAtTheTail
<1>2. head(f)' = head(f) /\ recovers(f)' = recovers(f)
  BY DEF head, recovers
<1>3. \A n : OwnFramesSettled(f, n)' <=> OwnFramesSettled(f, n)
  BY DEF OwnFramesSettled
<1>4. IsWaiting(f)' => IsWaiting(f)
  BY DEF IsWaiting
<1> QED
  BY <1>1, <1>2, <1>3, <1>4 DEF AtTheTail

(* What a step says of the Revisions and the restart point it leaves.      *)
HistoryIsKept == Settled' = Settled /\ restartPoint' = restartPoint

(* A step that at most seals an Authority, ends its WAL write, releases    *)
(* the lease, adds files or moves the commit of a `wal` Revision along.    *)
QuietStep ==
  /\ UNCHANGED <<volatileWal, durableWal, manifest, phase, recovery, line, level>>
  /\ lease'.epoch = lease.epoch
  /\ snapshots \subseteq snapshots'
  /\ \A e \in Epochs :
       /\ mode'[e] = mode[e] \/ mode'[e] = "read-only"
       /\ \/ walStage'[e] = walStage[e]
          \/ walStage'[e] = "idle" /\ mode'[e] = "read-only"
       /\ \A i \in Indices(e) :
            \/ commit'[e][i].stage = "idle"
            \/ phase[e] = "serving" /\ level[e][i] # "memory"

(* A quiet step keeps the invariant.                                       *)
LEMMA QuietStepKeeps ==
  ASSUME IInv, TypeOK', QuietStep
  PROVE  IInv' /\ HistoryIsKept
<1>1. UNCHANGED <<volatileWal, durableWal, manifest, phase, recovery, line, level>>
  BY DEF QuietStep
<1>2. /\ snapshots \subseteq snapshots'
      /\ lease'.epoch = lease.epoch
      /\ lease.epoch \in Nat
  BY DEF QuietStep, IInv, TypeOK
<1>3. /\ Settled' = Settled
      /\ restartPoint' = restartPoint
      /\ currentBase' = currentBase
      /\ NamesAreTheirOwn'
      /\ SettledIsALine'
      /\ LogEndsSettled'
      /\ ManifestIsBacked'
  BY <1>1, <1>2, HistoryStays
<1>4. AuthorityShape'
  <2> SUFFICES ASSUME NEW e \in Epochs
      PROVE  /\ e > lease'.epoch => phase'[e] = "absent"
             /\ phase'[e] \in {"absent"} \cup Recovering => line'[e] = <<>>
             /\ phase'[e] = "serving" => line'[e] # <<>>
             /\ phase'[e] # "serving" => /\ walStage'[e] = "idle"
                                         /\ \A i \in Indices(e)' :
                                              commit'[e][i].stage = "idle"
             /\ walStage'[e] # "idle" => level'[e][Len(line'[e])] = "memory"
             /\ \A i \in Indices(e)' :
                  commit'[e][i].stage # "idle" => level'[e][i] # "memory"
    BY DEF AuthorityShape
  <2>1. Indices(e)' = Indices(e)
    BY <1>1 DEF Indices
  <2> QED
    BY <1>1, <1>2, <2>1 DEF IInv, AuthorityShape, QuietStep
<1>5. VolatileExtends' /\ SettledInOrder(volatileWal)' /\ FramesAreOfThePast'
  BY <1>1, <1>2, <1>3, FilesStay
<1>6. LeaseholderIsAtTheTail'
  <2> SUFFICES ASSUME NEW e \in Epochs, e = lease'.epoch PROVE AtTheTail(e)'
    BY DEF LeaseholderIsAtTheTail
  <2>1. /\ mode'[e] = mode[e] \/ mode'[e] = "read-only"
        /\ \/ walStage'[e] = walStage[e]
           \/ walStage'[e] = "idle" /\ mode'[e] = "read-only"
    BY DEF QuietStep
  <2> QED
    BY <1>1, <1>2, <1>3, <2>1, OthersStayAtTheTail
<1>7. RecoveryReadsSettled'
  BY <1>1, <1>2, <1>3, ReadingsStay
<1> QED
  BY <1>3, <1>4, <1>5, <1>6, <1>7 DEF IInv, HistoryIsKept

(* commit' is well formed, and only Revisions at `wal` are being committed. *)
CommitsAreInOrder ==
  /\ commit' \in [Epochs -> Seq(CommitState)]
  /\ \A e \in Epochs : Len(commit'[e]) = Len(line[e])
  /\ \A e \in Epochs : \A i \in Indices(e) :
       \/ commit'[e][i].stage = "idle"
       \/ phase[e] = "serving" /\ level[e][i] # "memory"

(* Only an Authority that serves commits, and only Revisions at `wal`.     *)
LEMMA CommitsInFlight ==
  ASSUME IInv
  PROVE  \A e \in Epochs : \A i \in Indices(e) :
           \/ commit[e][i].stage = "idle"
           \/ phase[e] = "serving" /\ level[e][i] # "memory"
BY DEF IInv, AuthorityShape

(* Moving one commit along, or ending it, leaves all commits in order.     *)
LEMMA MovedCommit ==
  ASSUME IInv, NEW e \in Epochs, NEW i \in Indices(e),
         phase[e] = "serving", level[e][i] # "memory",
         \/ \E stage \in CommitStages :
              commit' = [commit EXCEPT ![e][i].stage = stage]
         \/ \E state \in CommitState : commit' = [commit EXCEPT ![e][i] = state]
  PROVE  CommitsAreInOrder
<1>1. /\ commit' \in [Epochs -> Seq(CommitState)]
      /\ Len(commit'[e]) = Len(line[e])
      /\ \A j \in Indices(e) : j # i => commit'[e][j] = commit[e][j]
      /\ \A other \in Epochs : other # e => commit'[other] = commit[other]
  <2>1. CASE \E stage \in CommitStages :
               commit' = [commit EXCEPT ![e][i].stage = stage]
    BY <2>1, CommitTypes DEF IInv
  <2>2. CASE \E state \in CommitState : commit' = [commit EXCEPT ![e][i] = state]
    BY <2>2, CommitTypes DEF IInv
  <2> QED
    BY <2>1, <2>2
<1>2. \A other \in Epochs : Len(commit'[other]) = Len(line[other])
  BY <1>1 DEF IInv, TypeOK
<1>3. ASSUME NEW f \in Epochs, NEW j \in Indices(f)
      PROVE  \/ commit'[f][j].stage = "idle"
             \/ phase[f] = "serving" /\ level[f][j] # "memory"
  <2>1. CASE f = e /\ j = i
    BY <2>1
  <2>2. CASE f # e \/ j # i
    BY <1>1, <2>2, CommitsInFlight
  <2> QED
    BY <2>1, <2>2
<1> QED
  BY <1>1, <1>2, <1>3 DEF CommitsAreInOrder

(* The names of files are names of Revisions.                              *)
LEMMA KeyIsAName ==
  ASSUME TypeOK, NEW e \in Epochs, NEW i \in Indices(e)
  PROVE  key(e, i) \in RevisionIds
BY LineTypes DEF key, Revision

(* Every step of AtomicSnapshotStore.commit() but the last is quiet.       *)
LEMMA CommitStepsAreQuiet ==
  ASSUME IInv, NEW e \in Epochs, NEW i \in Indices(e),
         \/ Checkpoint(e, i)
         \/ writeTemporary(e, i)
         \/ fsyncTemporary(e, i)
         \/ validateTemporary(e, i)
         \/ atomicRename(e, i)
         \/ readManifest(e, i)
         \/ FailSnapshot(e, i)
  PROVE  TypeOK' /\ QuietStep
<1> USE DEF IInv
<1>1. phase[e] = "serving" /\ level[e][i] # "memory"
  <2>1. (level[e][i] = "wal" /\ phase[e] = "serving") \/ commit[e][i].stage # "idle"
    BY DEF Checkpoint, writeTemporary, fsyncTemporary, validateTemporary,
           atomicRename, readManifest, FailSnapshot, AtStage
  <2> QED
    BY <2>1, CommitsInFlight
<1>2. /\ UNCHANGED <<volatileWal, durableWal, manifest, phase, recovery, line,
                     level, walStage, lease>>
  BY DEF Checkpoint, writeTemporary, fsyncTemporary, validateTemporary,
         atomicRename, readManifest, FailSnapshot, storage, walFiles,
         opening, temporaryFiles
<1>3. /\ snapshots \subseteq snapshots'
      /\ snapshots' \subseteq snapshots \cup {key(e, i)}
      /\ temporaries' \subseteq temporaries \cup {key(e, i)}
      /\ synced' \subseteq synced \cup {key(e, i)}
  BY DEF Checkpoint, writeTemporary, fsyncTemporary, validateTemporary,
         atomicRename, readManifest, FailSnapshot, storage, walFiles,
         opening, temporaryFiles
<1>4. mode' = mode \/ \E m \in {mode[e], "read-only"} : mode' = [mode EXCEPT ![e] = m]
  BY DEF Checkpoint, writeTemporary, fsyncTemporary, validateTemporary,
         atomicRename, readManifest, FailSnapshot
<1>5. CommitsAreInOrder
  <2>1. CASE FailSnapshot(e, i)
    <3>1. IdleCommit \in CommitState
      BY DEF IdleCommit, CommitState, CommitStages
    <3> QED
      BY <1>1, <2>1, <3>1, MovedCommit DEF FailSnapshot
  <2>2. CASE readManifest(e, i)
    <3>1. [stage |-> "switch", generation |-> manifest.generation] \in CommitState
      BY DEF CommitState, CommitStages, TypeOK
    <3> QED
      BY <1>1, <2>2, <3>1, MovedCommit DEF readManifest
  <2>3. ASSUME NEW stage \in {"write", "fsync", "validate", "rename", "read-manifest"},
               GoTo(e, i, stage)
        PROVE  CommitsAreInOrder
    <3>1. stage \in CommitStages
      BY DEF CommitStages
    <3> QED
      BY <1>1, <2>3, <3>1, MovedCommit DEF GoTo
  <2> QED
    BY <2>1, <2>2, <2>3
      DEF Checkpoint, writeTemporary, fsyncTemporary, validateTemporary, atomicRename
<1>6. mode \in [Epochs -> {"read-write", "read-only"}]
  BY DEF TypeOK
<1>7. mode' \in [Epochs -> {"read-write", "read-only"}]
  BY <1>4, <1>6
<1>8. TypeOK'
  <2>1. key(e, i) \in RevisionIds
    BY KeyIsAName
  <2>2. /\ temporaries' \subseteq RevisionIds
        /\ synced' \subseteq RevisionIds
        /\ snapshots' \subseteq RevisionIds
    BY <1>3, <2>1 DEF TypeOK
  <2>3. /\ commit' \in [Epochs -> Seq([stage : CommitStages, generation : Nat])]
        /\ \A f \in Epochs : /\ Len(level'[f]) = Len(line'[f])
                            /\ Len(commit'[f]) = Len(line'[f])
    BY <1>2, <1>5 DEF TypeOK, CommitsAreInOrder, CommitState
  <2> QED
    BY <1>2, <1>7, <2>2, <2>3 DEF TypeOK
<1>9. \A f \in Epochs : mode'[f] = mode[f] \/ mode'[f] = "read-only"
  BY <1>4, <1>6
<1> QED
  BY <1>2, <1>3, <1>5, <1>8, <1>9 DEF QuietStep, CommitsAreInOrder

(* So are releases, seals and failures of the WAL.                         *)
LEMMA OtherQuietSteps ==
  ASSUME IInv,
         \/ UNCHANGED vars
         \/ Release
         \/ \E e \in Epochs : NoticeLostLease(e) \/ FailWal(e)
  PROVE  TypeOK' /\ QuietStep
<1> USE DEF IInv
<1>1. UNCHANGED <<volatileWal, durableWal, manifest, phase, recovery, line, level,
                  temporaries, synced, snapshots, commit>>
  BY DEF vars, Release, NoticeLostLease, FailWal, storage, walFiles,
         temporaryFiles, opening, authority
<1>2. lease' \in [epoch : 0..MaxEpoch, owned : BOOLEAN] /\ lease'.epoch = lease.epoch
  BY DEF vars, Release, NoticeLostLease, FailWal, authority, TypeOK
<1>3. /\ mode' \in [Epochs -> {"read-write", "read-only"}]
      /\ walStage' \in [Epochs -> {"idle", "append", "fsync"}]
      /\ \A e \in Epochs :
           /\ mode'[e] = mode[e] \/ mode'[e] = "read-only"
           /\ \/ walStage'[e] = walStage[e]
              \/ walStage'[e] = "idle" /\ mode'[e] = "read-only"
  <2>1. CASE UNCHANGED <<mode, walStage>>
    BY <2>1 DEF TypeOK
  <2>2. ASSUME NEW e \in Epochs,
               mode' = [mode EXCEPT ![e] = "read-only"],
               walStage' = walStage \/ walStage' = [walStage EXCEPT ![e] = "idle"]
        PROVE  <1>3!1 /\ <1>3!2 /\ <1>3!3
    BY <2>2 DEF TypeOK
  <2> QED
    BY <2>1, <2>2 DEF vars, Release, NoticeLostLease, FailWal, authority
<1>4. TypeOK'
  BY <1>1, <1>2, <1>3 DEF TypeOK
<1> QED
  BY <1>1, <1>2, <1>3, <1>4, CommitsInFlight DEF QuietStep

-----------------------------------------------------------------------------
(* Steps of recovery. *)

(* The shape of an Authority that goes on or gives up recovering.          *)
LEMMA ShapeOfRecovery ==
  ASSUME IInv, NEW e \in Epochs, phase[e] \in Recovering,
         UNCHANGED <<lease, line, level, walStage, commit>>,
         NEW next \in Recovering \cup {"stopped"},
         phase' = [phase EXCEPT ![e] = next]
  PROVE  AuthorityShape'
<1> SUFFICES ASSUME NEW f \in Epochs
    PROVE  /\ f > lease.epoch => phase'[f] = "absent"
           /\ phase'[f] \in {"absent"} \cup Recovering => line[f] = <<>>
           /\ phase'[f] = "serving" => line[f] # <<>>
           /\ phase'[f] # "serving" => /\ walStage[f] = "idle"
                                       /\ \A i \in Indices(f) :
                                            commit[f][i].stage = "idle"
           /\ walStage[f] # "idle" => level[f][Len(line[f])] = "memory"
           /\ \A i \in Indices(f) :
                commit[f][i].stage # "idle" => level[f][i] # "memory"
  BY DEF AuthorityShape, Indices
<1>1. phase \in [Epochs -> {"absent", "reading-base", "reading-wal",
                            "truncating", "opening", "serving", "stopped"}]
  BY DEF IInv, TypeOK
<1>2. /\ f > lease.epoch => phase[f] = "absent"
      /\ phase[f] \in {"absent"} \cup Recovering => line[f] = <<>>
      /\ phase[f] = "serving" => line[f] # <<>>
      /\ phase[f] # "serving" => /\ walStage[f] = "idle"
                                 /\ \A i \in Indices(f) :
                                      commit[f][i].stage = "idle"
      /\ walStage[f] # "idle" => level[f][Len(line[f])] = "memory"
      /\ \A i \in Indices(f) :
           commit[f][i].stage # "idle" => level[f][i] # "memory"
  BY DEF IInv, AuthorityShape
<1>3. CASE f = e
  BY <1>1, <1>2, <1>3 DEF Recovering
<1>4. CASE f # e
  BY <1>1, <1>2, <1>4
<1> QED
  BY <1>3, <1>4

(* A recovery that has read something settled leaves all readings settled. *)
LEMMA NewReading ==
  ASSUME IInv, NEW e \in Epochs, UNCHANGED <<manifest, snapshots>>,
         Settled' = Settled,
         NEW read, ReadsSettled(read), recovery' = [recovery EXCEPT ![e] = read]
  PROVE  RecoveryReadsSettled'
<1>1. recovery \in [Epochs -> [base : Revision, level : {"wal", "snapshot"},
                               wal : Frames]]
  BY DEF IInv, TypeOK
<1>2. \A f \in Epochs : ReadsSettled(recovery'[f])
  BY <1>1 DEF IInv, RecoveryReadsSettled
<1>3. hasManifest' = hasManifest
  BY DEF hasManifest
<1> QED
  BY <1>2, <1>3 DEF RecoveryReadsSettled, ReadsSettled

(* Nothing read is settled.                                                *)
LEMMA NothingReadIsSettled ==
  /\ NothingRead \in [base : Revision, level : {"wal", "snapshot"}, wal : Frames]
  /\ ReadsSettled(NothingRead)
<1>1. decodedRecords(<<>>) = <<>> /\ Len(<<>>) = 0 /\ <<>> \in Frames
  BY EmptySeq DEF decodedRecords, hasTruncatedTail, Frames
<1>2. /\ NothingRead.base = Genesis
      /\ NothingRead.wal = <<>>
      /\ NothingRead.level = FallbackLevel
  BY DEF NothingRead
<1> QED
  BY <1>1, <1>2, RevisionFacts, FallbackAssumption
     DEF ReadsSettled, Settled, NothingRead

(* A new leaseholder starts with no frame of its own in the log.           *)
LEMMA AcquireKeeps ==
  ASSUME IInv, NEW e \in Epochs, Acquire(e)
  PROVE  IInv' /\ HistoryIsKept
<1>1. /\ UNCHANGED <<volatileWal, durableWal, temporaries, synced, snapshots,
                     manifest, recovery, line, level, mode, walStage, commit>>
      /\ e = lease.epoch + 1
      /\ lease' = [epoch |-> e, owned |-> TRUE]
      /\ phase' = [phase EXCEPT ![e] = "reading-base"]
  BY DEF Acquire, storage, walFiles, temporaryFiles, authority
<1>2. TypeOK'
  <2>1. lease' \in [epoch : 0..MaxEpoch, owned : BOOLEAN]
    BY <1>1, EpochAssumption DEF Epochs
  <2> QED
    BY <1>1, <2>1 DEF IInv, TypeOK
<1>3. /\ Settled' = Settled
      /\ restartPoint' = restartPoint
      /\ currentBase' = currentBase
      /\ NamesAreTheirOwn'
      /\ SettledIsALine'
      /\ LogEndsSettled'
      /\ ManifestIsBacked'
  BY <1>1, HistoryStays
<1>4. /\ lease.epoch \in Nat
      /\ phase \in [Epochs -> {"absent", "reading-base", "reading-wal",
                               "truncating", "opening", "serving", "stopped"}]
  BY DEF IInv, TypeOK
<1>5. phase[e] = "absent"
  BY <1>1, <1>4 DEF IInv, AuthorityShape
<1>6. /\ walStage[e] = "idle"
      /\ line[e] = <<>>
      /\ \A i \in Indices(e) : commit[e][i].stage = "idle"
  BY <1>5 DEF IInv, AuthorityShape
<1>7. AuthorityShape'
  <2> SUFFICES ASSUME NEW f \in Epochs
      PROVE  /\ f > lease'.epoch => phase'[f] = "absent"
             /\ phase'[f] \in {"absent"} \cup Recovering => line[f] = <<>>
             /\ phase'[f] = "serving" => line[f] # <<>>
             /\ phase'[f] # "serving" => /\ walStage[f] = "idle"
                                         /\ \A i \in Indices(f) :
                                              commit[f][i].stage = "idle"
             /\ walStage[f] # "idle" => level[f][Len(line[f])] = "memory"
             /\ \A i \in Indices(f) :
                  commit[f][i].stage # "idle" => level[f][i] # "memory"
    BY <1>1 DEF AuthorityShape, Indices
  <2>1. CASE f = e
    <3>1. phase'[f] = "reading-base" /\ ~ (f > lease'.epoch)
      BY <1>1, <1>4, <2>1
    <3> QED
      BY <1>6, <2>1, <3>1 DEF IInv, AuthorityShape
  <2>2. CASE f # e
    <3>1. phase'[f] = phase[f] /\ (f > lease'.epoch => f > lease.epoch)
      BY <1>1, <1>4, <2>2 DEF Epochs
    <3> QED
      BY <3>1 DEF IInv, AuthorityShape
  <2> QED
    BY <2>1, <2>2
<1>8. VolatileExtends' /\ SettledInOrder(volatileWal)' /\ FramesAreOfThePast'
  BY <1>1, <1>3, <1>4, FilesStay
<1>9. LeaseholderIsAtTheTail'
  <2>1. phase'[e] = "reading-base" /\ walStage'[e] = "idle"
    BY <1>1, <1>4, <1>6
  <2>2. OwnFramesSettled(e, Len(volatileWal))'
    <3> SUFFICES ASSUME NEW i \in 1..Len(volatileWal), volatileWal[i] # Torn
                 PROVE  volatileWal[i].revisionId[1] # e
      BY <1>1 DEF OwnFramesSettled
    <3>1. volatileWal[i].revisionId[1] <= lease.epoch
      BY DEF IInv, FramesAreOfThePast
    <3>2. volatileWal[i].revisionId[1] \in Nat
      BY RestartPointFacts, EpochsOfFrames
    <3> QED
      BY <1>1, <1>4, <3>1, <3>2
  <2>3. AtTheTail(e)'
    BY <1>1, <2>1, <2>2 DEF AtTheTail
  <2> QED
    BY <1>1, <2>3 DEF LeaseholderIsAtTheTail
<1>10. RecoveryReadsSettled'
  BY <1>1, <1>3, ReadingsStay
<1> QED
  BY <1>2, <1>3, <1>7, <1>8, <1>9, <1>10 DEF IInv, HistoryIsKept

(* What TypeOK says of phases and recoveries.                              *)
LEMMA PhaseTypes ==
  ASSUME TypeOK
  PROVE  /\ phase \in [Epochs -> {"absent", "reading-base", "reading-wal",
                                  "truncating", "opening", "serving", "stopped"}]
         /\ recovery \in [Epochs -> [base  : Revision,
                                     level : {"wal", "snapshot"},
                                     wal   : Frames]]
BY DEF TypeOK

(* Reading and giving up: nothing moves but what e itself has read.        *)
LEMMA ReadingKeeps ==
  ASSUME IInv, NEW e \in Epochs, phase[e] \in Recovering,
         UNCHANGED <<lease, volatileWal, durableWal, temporaries, synced,
                     snapshots, manifest, line, level, mode, walStage, commit>>,
         NEW read \in [base : Revision, level : {"wal", "snapshot"}, wal : Frames],
         ReadsSettled(read), recovery' = [recovery EXCEPT ![e] = read],
         NEW next \in {"reading-wal", "truncating", "opening", "stopped"},
         phase' = [phase EXCEPT ![e] = next],
         next = "reading-wal" => read.base = currentBase,
         next = "truncating"
           => /\ hasTruncatedTail(durableWal)
              /\ e = lease.epoch
                   => recoveredHead(read.base, read.wal) = restartPoint,
         next = "opening"
           => /\ ~ hasTruncatedTail(durableWal)
              /\ e = lease.epoch
                   => recoveredHead(read.base, read.wal) = restartPoint
  PROVE  IInv' /\ HistoryIsKept
<1>1. TypeOK'
  BY PhaseTypes DEF IInv, TypeOK
<1>2. /\ Settled' = Settled
      /\ restartPoint' = restartPoint
      /\ currentBase' = currentBase
      /\ NamesAreTheirOwn'
      /\ SettledIsALine'
      /\ LogEndsSettled'
      /\ ManifestIsBacked'
  BY HistoryStays
<1>3. AuthorityShape'
  BY ShapeOfRecovery DEF Recovering
<1>4. VolatileExtends' /\ SettledInOrder(volatileWal)' /\ FramesAreOfThePast'
  <2>1. lease.epoch \in Nat
    BY DEF IInv, TypeOK
  <2> QED
    BY <1>2, <2>1, FilesStay
<1>5. LeaseholderIsAtTheTail'
  <2> SUFFICES ASSUME NEW f \in Epochs, f = lease.epoch PROVE AtTheTail(f)'
    BY DEF LeaseholderIsAtTheTail
  <2>1. CASE f = e
    <3>1. phase'[e] = next /\ recovery'[e] = read
      BY PhaseTypes DEF IInv
    <3>2. walStage[e] = "idle" /\ OwnFramesSettled(e, Len(volatileWal))
      BY <2>1 DEF IInv, LeaseholderIsAtTheTail, AuthorityShape, AtTheTail,
                  Recovering, IsWaiting
    <3>3. recovers(e)' = recoveredHead(read.base, read.wal)
      BY <3>1 DEF recovers
    <3>4. OwnFramesSettled(e, Len(volatileWal))'
      BY <1>2, <3>2 DEF OwnFramesSettled
    <3> QED
      BY <1>2, <2>1, <3>1, <3>2, <3>3, <3>4 DEF AtTheTail
  <2>2. CASE f # e
    BY <1>2, <2>2, PhaseTypes, OthersStayAtTheTail DEF IInv
  <2> QED
    BY <2>1, <2>2
<1>6. RecoveryReadsSettled'
  BY <1>2, NewReading
<1> QED
  BY <1>1, <1>2, <1>3, <1>4, <1>5, <1>6 DEF IInv, HistoryIsKept

(* Replacing the log that was read. *)
LEMMA LogReadTypes ==
  ASSUME TypeOK, NEW e \in Epochs, NEW wal \in Frames
  PROVE  LET read == [base  |-> recovery[e].base,
                      level |-> recovery[e].level,
                      wal   |-> wal]
         IN  /\ read \in [base : Revision, level : {"wal", "snapshot"}, wal : Frames]
             /\ [recovery EXCEPT ![e].wal = wal] = [recovery EXCEPT ![e] = read]
<1>1. recovery[e] \in [base : Revision, level : {"wal", "snapshot"}, wal : Frames]
  BY PhaseTypes
<1>2. [recovery[e] EXCEPT !.wal = wal]
        = [base |-> recovery[e].base, level |-> recovery[e].level, wal |-> wal]
  BY <1>1
<1>3. recovery[e].base \in Revision /\ recovery[e].level \in {"wal", "snapshot"}
  BY <1>1
<1> QED
  BY <1>2, <1>3

(* Reading the manifest and its file keeps the invariant.                  *)
LEMMA ReadBaseKeeps ==
  ASSUME IInv, NEW e \in Epochs, ReadBase(e)
  PROVE  IInv' /\ HistoryIsKept
<1> DEFINE achieved == IF hasManifest THEN "snapshot" ELSE FallbackLevel
           read == [base |-> currentBase, level |-> achieved, wal |-> <<>>]
<1>1. /\ phase[e] = "reading-base"
      /\ hasManifest => manifest.revision.revisionId \in snapshots
      /\ recovery' = [recovery EXCEPT ![e] = read]
      /\ phase' = [phase EXCEPT ![e] = "reading-wal"]
      /\ UNCHANGED <<lease, volatileWal, durableWal, temporaries, synced, snapshots,
                     manifest, line, level, mode, walStage, commit>>
  BY DEF ReadBase, storage, walFiles, temporaryFiles, authority
<1>2. currentBase \in Revision /\ currentBase \in Settled
  BY RestartPointFacts
<1>3. achieved \in {"wal", "snapshot"}
  BY FallbackAssumption
<1>4. decodedRecords(<<>>) = <<>> /\ Len(<<>>) = 0 /\ <<>> \in Frames
  BY EmptySeq DEF decodedRecords, hasTruncatedTail, Frames
<1>5. read \in [base : Revision, level : {"wal", "snapshot"}, wal : Frames]
  BY <1>2, <1>3, <1>4
<1>6. ReadsSettled(read)
  <2>1. /\ read.base = currentBase
        /\ read.wal = <<>>
        /\ read.level = achieved
    OBVIOUS
  <2>2. hasManifest => /\ currentBase.sequence <= manifest.revision.sequence
                       /\ currentBase.revisionId \in snapshots
    BY <1>1, <1>2, RevisionFacts DEF currentBase
  <2>3. ~ hasManifest => currentBase = Genesis
    BY DEF currentBase
  <2> QED
    BY <1>2, <1>4, <2>1, <2>2, <2>3 DEF ReadsSettled
<1>7. read.base = currentBase
  OBVIOUS
<1> HIDE DEF read
<1> QED
  BY <1>1, <1>5, <1>6, <1>7, ReadingKeeps DEF Recovering

(* So does reading and decoding the log.                                   *)
LEMMA ReadWalKeeps ==
  ASSUME IInv, NEW e \in Epochs, ReadWal(e)
  PROVE  IInv' /\ HistoryIsKept
<1> DEFINE read == [base  |-> recovery[e].base,
                    level |-> recovery[e].level,
                    wal   |-> durableWal]
           next == IF hasTruncatedTail(durableWal) THEN "truncating" ELSE "opening"
<1>1. /\ phase[e] = "reading-wal"
      /\ recovery' = [recovery EXCEPT ![e].wal = durableWal]
      /\ phase' = [phase EXCEPT ![e] = next]
      /\ UNCHANGED <<lease, volatileWal, durableWal, temporaries, synced, snapshots,
                     manifest, line, level, mode, walStage, commit>>
  BY DEF ReadWal, storage, walFiles, temporaryFiles, authority
<1>2. /\ recovery[e].base \in Revision
      /\ recovery[e].level \in {"wal", "snapshot"}
      /\ durableWal \in Frames
  BY PhaseTypes DEF IInv, TypeOK
<1>3. /\ recovery' = [recovery EXCEPT ![e] = read]
      /\ read \in [base : Revision, level : {"wal", "snapshot"}, wal : Frames]
  BY <1>1, <1>2, LogReadTypes DEF IInv
<1>4. /\ read.base = recovery[e].base
      /\ read.wal = durableWal
      /\ read.level = recovery[e].level
  OBVIOUS
<1>5. ReadsSettled(read)
  <2>1. LET decoded == decodedRecords(durableWal)
        IN  decoded # <<>> => decoded[Len(decoded)] \in Settled
    BY DEF IInv, LogEndsSettled, EndsOn
  <2> QED
    BY <1>4, <2>1 DEF ReadsSettled, IInv, RecoveryReadsSettled
<1>6. e = lease.epoch => recoveredHead(read.base, read.wal) = restartPoint
  BY <1>1, <1>4 DEF IInv, LeaseholderIsAtTheTail, AtTheTail, restartPoint
<1> HIDE DEF read
<1> QED
  BY <1>1, <1>3, <1>5, <1>6, ReadingKeeps DEF Recovering

(* So does giving up.                                                      *)
LEMMA FailRecoveryKeeps ==
  ASSUME IInv, NEW e \in Epochs, FailRecovery(e)
  PROVE  IInv' /\ HistoryIsKept
<1>1. /\ phase[e] \in Recovering
      /\ recovery' = [recovery EXCEPT ![e] = NothingRead]
      /\ phase' = [phase EXCEPT ![e] = "stopped"]
      /\ UNCHANGED <<lease, volatileWal, durableWal, temporaries, synced, snapshots,
                     manifest, line, level, mode, walStage, commit>>
  BY DEF FailRecovery, Recovering, storage, walFiles, temporaryFiles, authority
<1> QED
  BY <1>1, NothingReadIsSettled, ReadingKeeps

(* So does cutting off a torn frame: no record is lost.                    *)
LEMMA TruncateTailKeeps ==
  ASSUME IInv, NEW e \in Epochs, TruncateTail(e)
  PROVE  /\ IInv'
         /\ HistoryIsKept
         /\ decodedRecords(durableWal') = decodedRecords(durableWal)
<1>1. /\ phase[e] = "truncating"
      /\ e = lease.epoch
      /\ durableWal' = SubSeq(durableWal, 1, Len(durableWal) - 1)
      /\ volatileWal' = durableWal'
      /\ phase' = [phase EXCEPT ![e] = "opening"]
      /\ UNCHANGED <<lease, temporaries, synced, snapshots, manifest, recovery,
                     line, level, mode, walStage, commit>>
  BY DEF TruncateTail, fenceHolds, isFenceCurrent, temporaryFiles, authority
<1>2. AtTheTail(e)
  BY <1>1 DEF IInv, LeaseholderIsAtTheTail
<1>3. hasTruncatedTail(durableWal) /\ recovers(e) = restartPoint
  BY <1>1, <1>2 DEF AtTheTail
<1>4. \A i \in 1..Len(decodedRecords(durableWal)) :
        decodedRecords(durableWal)[i] \in Revision
  BY RestartPointFacts DEF EndsOn
<1>5. /\ durableWal' \in Frames
      /\ ~ hasTruncatedTail(durableWal')
      /\ decodedRecords(durableWal') = decodedRecords(durableWal)
  BY <1>1, <1>3, <1>4, RestartPointFacts, TruncationIsClean
<1>6. TypeOK'
  BY <1>1, <1>5, PhaseTypes DEF IInv, TypeOK
<1>7. /\ Settled' = Settled
      /\ restartPoint' = restartPoint
      /\ currentBase' = currentBase
      /\ NamesAreTheirOwn'
      /\ SettledIsALine'
      /\ LogEndsSettled'
      /\ ManifestIsBacked'
  BY <1>1, <1>5, HistoryStays
<1>8. AuthorityShape'
  BY <1>1, ShapeOfRecovery DEF Recovering
<1>9. /\ VolatileExtends' /\ SettledInOrder(volatileWal)' /\ FramesAreOfThePast'
      /\ OwnFramesSettled(e, Len(volatileWal))'
  <2>1. /\ volatileWal = durableWal
        /\ volatileWal \in Seq(Revision \cup {Torn})
        /\ Len(volatileWal) \in Nat \ {0}
    BY <1>3, VolatileFacts, RestartPointFacts, DecodedIsAPrefix DEF Frames
  <2>2. /\ volatileWal' = SubSeq(volatileWal, 1, Len(volatileWal) - 1)
        /\ Len(volatileWal) - 1 \in 0..Len(volatileWal)
    BY <1>1, <2>1
  <2>3. /\ Len(volatileWal') = Len(volatileWal) - 1
        /\ \A i \in 1..(Len(volatileWal) - 1) : volatileWal'[i] = volatileWal[i]
    BY <2>1, <2>2, PrefixProperties
  <2>4. /\ Len(volatileWal') \in Nat
        /\ \A i \in 1..Len(volatileWal') :
             i + 0 \in 1..Len(volatileWal) /\ volatileWal'[i] = volatileWal[i + 0]
    BY <2>1, <2>3
  <2>5. OwnFramesSettled(e, Len(volatileWal))
    BY <1>1, <1>2 DEF AtTheTail, IsWaiting, Recovering
  <2> QED
    BY <1>1, <1>7, <2>4, <2>5, FilesShrink
<1>10. LeaseholderIsAtTheTail'
  <2>1. phase'[e] = "opening" /\ walStage'[e] = "idle"
    BY <1>1, PhaseTypes DEF IInv, AuthorityShape
  <2>2. recovers(e)' = recovers(e)
    BY <1>1 DEF recovers
  <2>3. AtTheTail(e)'
    BY <1>1, <1>3, <1>5, <1>7, <1>9, <2>1, <2>2 DEF AtTheTail
  <2> QED
    BY <1>1, <2>3 DEF LeaseholderIsAtTheTail
<1>11. RecoveryReadsSettled'
  BY <1>1, <1>7, ReadingsStay
<1> QED
  BY <1>5, <1>6, <1>7, <1>8, <1>9, <1>10, <1>11 DEF IInv, HistoryIsKept

(* Where a stale or a current recovery would start is settled.             *)
LEMMA StartIsSettled ==
  ASSUME IInv, NEW e \in Epochs
  PROVE  recovers(e) \in Settled
BY DEF IInv, RecoveryReadsSettled, ReadsSettled, recovers, recoveredHead

(* A recovered Authority starts from a settled Revision, the leaseholder   *)
(* from the restart point.                                                 *)
LEMMA OpenKeeps ==
  ASSUME IInv, NEW e \in Epochs, Open(e)
  PROVE  IInv' /\ HistoryIsKept
<1> DEFINE start == recovers(e)
           achieved == IF start = recovery[e].base THEN recovery[e].level ELSE "wal"
<1>1. /\ phase[e] = "opening"
      /\ phase' = [phase EXCEPT ![e] = "serving"]
      /\ line' = [line EXCEPT ![e] = <<start>>]
      /\ level' = [level EXCEPT ![e] = <<achieved>>]
      /\ commit' = [commit EXCEPT ![e] = <<IdleCommit>>]
      /\ mode' = [mode EXCEPT ![e] = "read-write"]
      /\ recovery' = [recovery EXCEPT ![e] = NothingRead]
      /\ UNCHANGED <<lease, volatileWal, durableWal, temporaries, synced, snapshots,
                     manifest, walStage>>
  BY DEF Open, recovers, storage, walFiles, temporaryFiles
<1>2. start \in Settled /\ start \in Revision
  BY StartIsSettled, RestartPointFacts
<1>3. /\ achieved \in {"wal", "snapshot"}
      /\ achieved = "snapshot"
           => start = recovery[e].base /\ recovery[e].level = "snapshot"
  BY PhaseTypes DEF IInv
<1>4. line[e] = <<>> /\ walStage[e] = "idle" /\ ~ (e > lease.epoch)
  BY <1>1 DEF IInv, AuthorityShape, Recovering
<1> HIDE DEF start, achieved
<1>5. /\ line'[e] = <<start>> /\ level'[e] = <<achieved>> /\ commit'[e] = <<IdleCommit>>
      /\ \A f \in Epochs : f # e => /\ line'[f] = line[f]
                                    /\ level'[f] = level[f]
                                    /\ commit'[f] = commit[f]
  BY <1>1 DEF IInv, TypeOK
<1>6. TypeOK'
  <2>1. IdleCommit \in [stage : CommitStages, generation : Nat]
    BY DEF IdleCommit, CommitStages
  <2>2. /\ line' \in [Epochs -> Seq(Revision)]
        /\ level' \in [Epochs -> Seq(Levels)]
        /\ commit' \in [Epochs -> Seq([stage : CommitStages, generation : Nat])]
    <3>1. /\ <<start>> \in Seq(Revision)
          /\ <<achieved>> \in Seq(Levels)
          /\ <<IdleCommit>> \in Seq([stage : CommitStages, generation : Nat])
      BY <1>2, <1>3, <2>1 DEF Levels
    <3> QED
      BY <1>1, <3>1 DEF IInv, TypeOK
  <2>3. \A f \in Epochs : /\ Len(level'[f]) = Len(line'[f])
                          /\ Len(commit'[f]) = Len(line'[f])
    <3>1. Len(<<start>>) = 1 /\ Len(<<achieved>>) = 1 /\ Len(<<IdleCommit>>) = 1
      OBVIOUS
    <3> TAKE f \in Epochs
    <3>2. CASE f = e
      BY <1>5, <3>1, <3>2
    <3>3. CASE f # e
      BY <1>5, <3>3 DEF IInv, TypeOK
    <3> QED
      BY <3>2, <3>3
  <2> QED
    BY <1>1, <2>2, <2>3, PhaseTypes, NothingReadIsSettled DEF IInv, TypeOK
<1>7. /\ Indices(e)' = {1}
      /\ Indices(e) = {}
      /\ \A f \in Epochs : f # e => Indices(f)' = Indices(f)
  BY <1>4, <1>5 DEF Indices
<1>8. /\ \A r : AtWal(r)' <=> AtWal(r) \/ r = start
      /\ \A r : AtSnapshot(r)' <=> AtSnapshot(r) \/ (r = start /\ achieved = "snapshot")
  <2>1. \A f \in Epochs : \A j \in Indices(f) :
          /\ j \in Indices(f)'
          /\ line'[f][j] = line[f][j]
          /\ level'[f][j] = level[f][j]
    BY <1>5, <1>7
  <2>2. \A f \in Epochs : \A j \in Indices(f)' :
          \/ f = e /\ j = 1
          \/ j \in Indices(f)
    BY <1>7
  <2>3. 1 \in Indices(e)' /\ line'[e][1] = start /\ level'[e][1] = achieved
    BY <1>5, <1>7
  <2> QED
    BY <1>3, <2>1, <2>2, <2>3 DEF AtWal, AtSnapshot
<1>9. LevelsMean /\ LevelsMean'
  BY LevelsOfMembers, PTL
<1>10. /\ \A r : r \in Acknowledged("wal")' <=> r \in Acknowledged("wal") \/ r = start
       /\ \A r : r \in Acknowledged("snapshot")'
                   <=> \/ r \in Acknowledged("snapshot")
                       \/ r = start /\ achieved = "snapshot"
  BY <1>6, <1>8, <1>9 DEF LevelsMean, IInv
<1>11. Settled' = Settled
  BY <1>2, <1>10 DEF Settled
<1>12. hasManifest' = hasManifest /\ currentBase' = currentBase
       /\ restartPoint' = restartPoint
  BY <1>1 DEF hasManifest, currentBase, restartPoint
<1>13. NamesAreTheirOwn'
  <2>1. IsNamed(start)
    BY <1>2, SettledNames DEF IInv
  <2> QED
    BY <1>5, <1>7, <2>1 DEF IInv, NamesAreTheirOwn
<1>14. AuthorityShape'
  <2> SUFFICES ASSUME NEW f \in Epochs
      PROVE  /\ f > lease'.epoch => phase'[f] = "absent"
             /\ phase'[f] \in {"absent"} \cup Recovering => line'[f] = <<>>
             /\ phase'[f] = "serving" => line'[f] # <<>>
             /\ phase'[f] # "serving" => /\ walStage'[f] = "idle"
                                         /\ \A i \in Indices(f)' :
                                              commit'[f][i].stage = "idle"
             /\ walStage'[f] # "idle" => level'[f][Len(line'[f])] = "memory"
             /\ \A i \in Indices(f)' :
                  commit'[f][i].stage # "idle" => level'[f][i] # "memory"
    BY DEF AuthorityShape
  <2>1. CASE f = e
    <3>1. phase'[f] = "serving"
      BY <1>1, <2>1, PhaseTypes DEF IInv
    <3>2. line'[f] # <<>>
      BY <1>5, <2>1
    <3>3. \A i \in Indices(f)' : commit'[f][i].stage = "idle"
      BY <1>5, <1>7, <2>1 DEF IdleCommit
    <3> QED
      BY <1>1, <1>4, <2>1, <3>1, <3>2, <3>3 DEF Recovering
  <2>2. CASE f # e
    <3>1. phase'[f] = phase[f]
      BY <1>1, <2>2, PhaseTypes DEF IInv
    <3> QED
      BY <1>1, <1>5, <1>7, <2>2, <3>1 DEF IInv, AuthorityShape
  <2> QED
    BY <2>1, <2>2
<1>15. /\ SettledIsALine' /\ LogEndsSettled' /\ VolatileExtends'
       /\ SettledInOrder(volatileWal)' /\ FramesAreOfThePast'
  <2>1. lease.epoch \in Nat
    BY DEF IInv, TypeOK
  <2> QED
    BY <1>1, <1>11, <1>12, <2>1, FilesStay
       DEF IInv, SettledIsALine, LogEndsSettled
<1>16. LeaseholderIsAtTheTail'
  <2> SUFFICES ASSUME NEW f \in Epochs, f = lease.epoch PROVE AtTheTail(f)'
    BY <1>1 DEF LeaseholderIsAtTheTail
  <2>1. CASE f = e
    <3>1. phase'[e] = "serving" /\ walStage'[e] = "idle"
      BY <1>1, <1>4, PhaseTypes DEF IInv
    <3>2. /\ OwnFramesSettled(e, Len(volatileWal))
          /\ ~ hasTruncatedTail(durableWal)
          /\ start = restartPoint
      BY <1>1, <2>1 DEF IInv, LeaseholderIsAtTheTail, AtTheTail, IsWaiting,
                        Recovering, start
    <3>3. head(e)' = start
      BY <1>5 DEF head
    <3>4. OwnFramesSettled(e, Len(volatileWal))'
      BY <1>1, <1>11, <3>2 DEF OwnFramesSettled
    <3> QED
      BY <1>1, <1>12, <2>1, <3>1, <3>2, <3>3, <3>4 DEF AtTheTail, Recovering
  <2>2. CASE f # e
    <3>1. /\ phase'[f] = phase[f] /\ recovery'[f] = recovery[f]
          /\ mode'[f] = mode[f] /\ walStage'[f] = walStage[f]
      BY <1>1, <2>2, PhaseTypes DEF IInv, TypeOK
    <3> QED
      BY <1>1, <1>5, <1>11, <1>12, <2>2, <3>1, OthersStayAtTheTail
  <2> QED
    BY <2>1, <2>2
<1>17. RecoveryReadsSettled'
  BY <1>1, <1>11, NothingReadIsSettled, NewReading
<1>18. ManifestIsBacked'
  <2>1. start # Genesis /\ achieved = "snapshot"
          => /\ hasManifest
             /\ start.sequence <= manifest.revision.sequence
             /\ start.revisionId \in snapshots
    BY <1>3 DEF IInv, RecoveryReadsSettled, ReadsSettled
  <2> QED
    BY <1>1, <1>10, <1>12, <2>1 DEF IInv, ManifestIsBacked
<1> QED
  BY <1>6, <1>11, <1>12, <1>13, <1>14, <1>15, <1>16, <1>17, <1>18
     DEF IInv, HistoryIsKept

-----------------------------------------------------------------------------
(* Steps of a commit. *)

(* A commit in memory settles nothing.                                     *)
LEMMA ApplyKeeps ==
  ASSUME IInv, NEW e \in Epochs, Apply(e)
  PROVE  IInv' /\ HistoryIsKept
<1> DEFINE sequence == head(e).sequence + 1
           record == [revisionId       |-> <<e, sequence>>,
                      parentRevisionId |-> head(e).revisionId,
                      transactionId    |-> <<e, sequence>>,
                      sequence         |-> sequence]
           last == Len(line[e]) + 1
<1>1. /\ phase[e] = "serving"
      /\ mode[e] = "read-write"
      /\ e = lease.epoch
      /\ walStage[e] = "idle"
      /\ head(e).sequence < MaxSequence
      /\ line' = [line EXCEPT ![e] = Append(@, record)]
      /\ level' = [level EXCEPT ![e] = Append(@, "memory")]
      /\ commit' = [commit EXCEPT ![e] = Append(@, IdleCommit)]
      /\ walStage' = [walStage EXCEPT ![e] = "append"]
      /\ UNCHANGED <<lease, volatileWal, durableWal, temporaries, synced, snapshots,
                     manifest, phase, recovery, mode>>
  BY DEF Apply, isFenceCurrent, storage, walFiles, temporaryFiles, opening
<1>2. /\ line[e] # <<>>
      /\ head(e) \in Revision
      /\ Len(line[e]) \in Nat
      /\ Len(level[e]) = Len(line[e])
      /\ Len(commit[e]) = Len(line[e])
  BY <1>1, LineTypes DEF IInv, AuthorityShape, TypeOK
<1>3. record \in Revision /\ IsNamed(record) /\ continues(head(e), record)
  <2>1. sequence \in 0..MaxSequence /\ e \in 0..MaxEpoch
    BY <1>1, <1>2, LengthAssumption, EpochAssumption, RevisionFacts DEF Epochs
  <2>2. head(e).revisionId \in RevisionIds /\ <<e, sequence>> \in RevisionIds
    BY <1>2, <2>1 DEF Revision, RevisionIds
  <2>3. /\ record.revisionId = <<e, sequence>>
        /\ record.transactionId = <<e, sequence>>
        /\ record.sequence = sequence
        /\ record.parentRevisionId = head(e).revisionId
    OBVIOUS
  <2>4. record \in Revision
    <3> HIDE DEF sequence
    <3> QED
      BY <2>1, <2>2 DEF Revision
  <2> QED
    BY <2>3, <2>4 DEF IsNamed, continues
<1> HIDE DEF record
<1>4. /\ IdleCommit \in [stage : CommitStages, generation : Nat]
      /\ IdleCommit.stage = "idle"
      /\ "memory" \in Levels
  BY DEF IdleCommit, CommitStages, Levels
<1>5. /\ line' \in [Epochs -> Seq(Revision)]
      /\ Len(line'[e]) = last
      /\ line'[e][last] = record
      /\ \A j \in 1..Len(line[e]) : line'[e][j] = line[e][j]
      /\ \A f \in Epochs : f # e => line'[f] = line[f]
  <2>1. line \in [Epochs -> Seq(Revision)]
    BY DEF IInv, TypeOK
  <2> QED
    BY <1>1, <1>3, <2>1, NestedAppend
<1>6. /\ level' \in [Epochs -> Seq(Levels)]
      /\ Len(level'[e]) = last
      /\ level'[e][last] = "memory"
      /\ \A j \in 1..Len(line[e]) : level'[e][j] = level[e][j]
      /\ \A f \in Epochs : f # e => level'[f] = level[f]
  <2>1. level \in [Epochs -> Seq(Levels)]
    BY DEF IInv, TypeOK
  <2>2. /\ level' \in [Epochs -> Seq(Levels)]
        /\ Len(level'[e]) = Len(level[e]) + 1
        /\ level'[e][Len(level[e]) + 1] = "memory"
        /\ \A j \in 1..Len(level[e]) : level'[e][j] = level[e][j]
        /\ \A f \in Epochs : f # e => level'[f] = level[f]
    BY <1>1, <1>4, <2>1, NestedAppend
  <2> QED
    BY <1>2, <2>2
<1>7. /\ commit' \in [Epochs -> Seq([stage : CommitStages, generation : Nat])]
      /\ Len(commit'[e]) = last
      /\ commit'[e][last] = IdleCommit
      /\ \A j \in 1..Len(line[e]) : commit'[e][j] = commit[e][j]
      /\ \A f \in Epochs : f # e => commit'[f] = commit[f]
  <2>1. commit \in [Epochs -> Seq(CommitState)] /\ IdleCommit \in CommitState
    BY <1>4 DEF IInv, TypeOK, CommitState
  <2>2. /\ commit' \in [Epochs -> Seq(CommitState)]
        /\ Len(commit'[e]) = Len(commit[e]) + 1
        /\ commit'[e][Len(commit[e]) + 1] = IdleCommit
        /\ \A j \in 1..Len(commit[e]) : commit'[e][j] = commit[e][j]
        /\ \A f \in Epochs : f # e => commit'[f] = commit[f]
    BY <1>1, <2>1, NestedAppend
  <2> QED
    BY <1>2, <2>2 DEF CommitState
<1>8. /\ \A f \in Epochs : f # e => Indices(f)' = Indices(f)
      /\ Indices(e)' = Indices(e) \cup {last}
      /\ \A j \in Indices(e) : j \in 1..Len(line[e])
      /\ line'[e] # <<>>
  BY <1>2, <1>5, EmptySeq DEF Indices
<1>9. TypeOK'
  <2>1. \A f \in Epochs : /\ Len(level'[f]) = Len(line'[f])
                          /\ Len(commit'[f]) = Len(line'[f])
    BY <1>5, <1>6, <1>7 DEF IInv, TypeOK
  <2>2. walStage' \in [Epochs -> {"idle", "append", "fsync"}]
    BY <1>1 DEF IInv, TypeOK
  <2> QED
    BY <1>1, <1>5, <1>6, <1>7, <2>1, <2>2 DEF IInv, TypeOK
<1>10. /\ \A r : AtWal(r)' <=> AtWal(r)
       /\ \A r : AtSnapshot(r)' <=> AtSnapshot(r)
  <2>1. \A f \in Epochs : \A j \in Indices(f) :
          /\ j \in Indices(f)'
          /\ line'[f][j] = line[f][j]
          /\ level'[f][j] = level[f][j]
    BY <1>5, <1>6, <1>8
  <2>2. \A f \in Epochs : \A j \in Indices(f)' :
          \/ f = e /\ j = last /\ level'[f][j] = "memory"
          \/ j \in Indices(f)
    BY <1>6, <1>8
  <2> HIDE DEF last
  <2> QED
    BY <2>1, <2>2 DEF AtWal, AtSnapshot
<1>11. LevelsMean /\ LevelsMean'
  BY LevelsOfMembers, PTL
<1>12. /\ \A r : r \in Acknowledged("wal")' <=> r \in Acknowledged("wal")
       /\ \A r : r \in Acknowledged("snapshot")' <=> r \in Acknowledged("snapshot")
  BY <1>9, <1>10, <1>11 DEF LevelsMean, IInv
<1>13. Settled' = Settled
  BY <1>12 DEF Settled
<1>14. hasManifest' = hasManifest /\ currentBase' = currentBase
       /\ restartPoint' = restartPoint
  BY <1>1 DEF hasManifest, currentBase, restartPoint
<1>15. NamesAreTheirOwn'
  BY <1>3, <1>5, <1>8 DEF IInv, NamesAreTheirOwn
<1>16. AuthorityShape'
  <2> SUFFICES ASSUME NEW f \in Epochs
      PROVE  /\ f > lease'.epoch => phase'[f] = "absent"
             /\ phase'[f] \in {"absent"} \cup Recovering => line'[f] = <<>>
             /\ phase'[f] = "serving" => line'[f] # <<>>
             /\ phase'[f] # "serving" => /\ walStage'[f] = "idle"
                                         /\ \A i \in Indices(f)' :
                                              commit'[f][i].stage = "idle"
             /\ walStage'[f] # "idle" => level'[f][Len(line'[f])] = "memory"
             /\ \A i \in Indices(f)' :
                  commit'[f][i].stage # "idle" => level'[f][i] # "memory"
    BY DEF AuthorityShape
  <2>1. CASE f = e
    <3>1. \A i \in Indices(e)' : commit'[e][i].stage # "idle" => level'[e][i] # "memory"
      <4> TAKE i \in Indices(e)'
      <4>1. CASE i \in Indices(e)
        <5>1. commit'[e][i] = commit[e][i] /\ level'[e][i] = level[e][i]
          BY <1>6, <1>7, <1>8, <4>1
        <5> QED
          BY <4>1, <5>1, CommitsInFlight
      <4>2. CASE i = last
        BY <1>4, <1>7, <4>2
      <4> QED
        BY <1>8, <4>1, <4>2
    <3>2. level'[e][Len(line'[e])] = "memory"
      BY <1>5, <1>6
    <3>3. ~ (e > lease'.epoch)
      BY <1>1 DEF Epochs
    <3> QED
      BY <1>1, <1>8, <2>1, <3>1, <3>2, <3>3 DEF Recovering
  <2>2. CASE f # e
    <3>1. walStage'[f] = walStage[f]
      BY <1>1, <2>2 DEF IInv, TypeOK
    <3> QED
      BY <1>1, <1>5, <1>6, <1>7, <1>8, <2>2, <3>1 DEF IInv, AuthorityShape
  <2> QED
    BY <2>1, <2>2
<1>17. /\ SettledIsALine' /\ LogEndsSettled' /\ VolatileExtends'
       /\ SettledInOrder(volatileWal)' /\ FramesAreOfThePast'
  <2>1. lease.epoch \in Nat
    BY DEF IInv, TypeOK
  <2> QED
    BY <1>1, <1>13, <1>14, <2>1, FilesStay
       DEF IInv, SettledIsALine, LogEndsSettled
<1>18. LeaseholderIsAtTheTail'
  <2>1. /\ OwnFramesSettled(e, Len(volatileWal))
        /\ ~ hasTruncatedTail(durableWal)
        /\ head(e) = restartPoint
    BY <1>1 DEF IInv, LeaseholderIsAtTheTail, AtTheTail, IsWaiting
  <2>2. head(e)' = record /\ record.revisionId[1] = e
    BY <1>5 DEF head, record
  <2>3. walStage'[e] = "append"
    BY <1>1 DEF IInv, TypeOK
  <2>4. OwnFramesSettled(e, Len(volatileWal))'
    BY <1>1, <1>13, <2>1 DEF OwnFramesSettled
  <2>5. AtTheTail(e)'
    BY <1>1, <1>3, <1>14, <2>1, <2>2, <2>3, <2>4 DEF AtTheTail, Recovering
  <2> QED
    BY <1>1, <2>5 DEF LeaseholderIsAtTheTail
<1>19. RecoveryReadsSettled'
  BY <1>1, <1>13, ReadingsStay
<1>20. ManifestIsBacked'
  BY <1>1, <1>12, <1>14 DEF IInv, ManifestIsBacked
<1> QED
  BY <1>9, <1>13, <1>14, <1>15, <1>16, <1>17, <1>18, <1>19, <1>20
     DEF IInv, HistoryIsKept

(* A frame comes behind whatever is in the log.                             *)
LEMMA AppendKeeps ==
  ASSUME IInv, NEW e \in Epochs, append(e)
  PROVE  IInv' /\ HistoryIsKept
<1>1. /\ walStage[e] = "append"
      /\ e = lease.epoch
      /\ volatileWal' = Append(volatileWal, head(e))
      /\ walStage' = [walStage EXCEPT ![e] = "fsync"]
      /\ UNCHANGED <<lease, durableWal, temporaries, synced, snapshots, manifest,
                     phase, recovery, line, level, mode, commit>>
  BY DEF append, fenceHolds, isFenceCurrent, temporaryFiles, opening
<1>2. phase[e] = "serving" /\ line[e] # <<>>
  BY <1>1 DEF IInv, AuthorityShape
<1>3. head(e) \in Revision
  BY <1>2, LineTypes DEF IInv
<1>4. /\ continues(restartPoint, head(e))
      /\ head(e).revisionId[1] = e
      /\ ~ hasTruncatedTail(durableWal)
      /\ OwnFramesSettled(e, Len(volatileWal))
  BY <1>1, <1>2 DEF IInv, LeaseholderIsAtTheTail, AtTheTail, IsWaiting
<1>5. walStage'[e] = "fsync" /\ \A f \in Epochs : f # e => walStage'[f] = walStage[f]
  BY <1>1 DEF IInv, TypeOK
<1>6. TypeOK'
  <2>1. walStage' \in [Epochs -> {"idle", "append", "fsync"}]
    BY <1>1 DEF IInv, TypeOK
  <2>2. volatileWal' \in Frames
    BY <1>1, <1>3 DEF IInv, TypeOK, Frames
  <2> QED
    BY <1>1, <2>1, <2>2 DEF IInv, TypeOK
<1>7. /\ Settled' = Settled
      /\ restartPoint' = restartPoint
      /\ currentBase' = currentBase
      /\ NamesAreTheirOwn'
      /\ SettledIsALine'
      /\ LogEndsSettled'
      /\ ManifestIsBacked'
  BY <1>1, HistoryStays
<1>8. AuthorityShape'
  <2>1. \A f \in Epochs : Indices(f)' = Indices(f)
    BY <1>1 DEF Indices
  <2>2. \A f \in Epochs : walStage'[f] = "idle" <=> walStage[f] = "idle"
    BY <1>1, <1>5
  <2> QED
    BY <1>1, <2>1, <2>2 DEF IInv, AuthorityShape
<1>9. /\ Len(volatileWal) \in Nat
      /\ Len(volatileWal') = Len(volatileWal) + 1
      /\ volatileWal'[Len(volatileWal) + 1] = head(e)
      /\ \A i \in 1..Len(volatileWal) : volatileWal'[i] = volatileWal[i]
  BY <1>1, <1>3, RestartPointFacts, AppendedProperties, LenProperties DEF Frames
<1>10. \A i \in 1..Len(volatileWal') : volatileWal'[i] \in Revision
  BY <1>3, <1>4, <1>9, VolatileFacts
<1>11. VolatileExtends'
  <2>1. /\ Len(durableWal) <= Len(volatileWal')
        /\ \A i \in 1..Len(durableWal) : volatileWal'[i] = durableWal[i]
    BY <1>9, VolatileFacts
  <2> QED
    BY <1>1, <1>10, <2>1 DEF VolatileExtends
<1>12. SettledInOrder(volatileWal)'
  <2> SUFFICES ASSUME NEW i \in 1..Len(volatileWal'), NEW j \in 1..Len(volatileWal'),
                      i < j, volatileWal'[i] \in Settled, volatileWal'[j] \in Settled
               PROVE  volatileWal'[i].sequence < volatileWal'[j].sequence
    BY <1>7 DEF SettledInOrder
  <2>1. head(e) \notin Settled
    BY <1>3, <1>4, TheNextIsNew
  <2>2. i \in 1..Len(volatileWal) /\ j \in 1..Len(volatileWal)
    BY <1>9, <2>1
  <2> QED
    BY <1>9, <2>2 DEF IInv, SettledInOrder
<1>13. FramesAreOfThePast'
  <2> SUFFICES ASSUME NEW i \in 1..Len(volatileWal'), volatileWal'[i] # Torn
               PROVE  volatileWal'[i].revisionId[1] <= lease.epoch
    BY <1>1 DEF FramesAreOfThePast
  <2>1. CASE i \in 1..Len(volatileWal)
    BY <1>9, <2>1 DEF IInv, FramesAreOfThePast
  <2>2. CASE i = Len(volatileWal) + 1
    <3>1. lease.epoch \in Nat
      BY DEF IInv, TypeOK
    <3> QED
      BY <1>1, <1>4, <1>9, <2>2, <3>1
  <2> QED
    BY <1>9, <2>1, <2>2
<1>14. LeaseholderIsAtTheTail'
  <2>1. head(e)' = head(e)
    BY <1>1 DEF head
  <2>2. volatileWal' # <<>> /\ volatileWal'[Len(volatileWal')] = head(e)
    <3>1. volatileWal' = <<>> => Len(volatileWal') = 0
      BY EmptySeq
    <3> QED
      BY <1>9, <3>1
  <2>3. OwnFramesSettled(e, Len(volatileWal) - 1)'
    <3>1. Len(volatileWal') - 1 = Len(volatileWal)
      BY <1>9
    <3> QED
      BY <1>4, <1>7, <1>9, <3>1 DEF OwnFramesSettled
  <2>4. ~ IsWaiting(e)'
    BY <1>1, <1>2, <1>5 DEF IsWaiting, Recovering
  <2>5. AtTheTail(e)'
    BY <1>1, <1>2, <1>4, <1>5, <1>7, <1>10, <2>1, <2>2, <2>3, <2>4 DEF AtTheTail
  <2> QED
    BY <1>1, <2>5 DEF LeaseholderIsAtTheTail
<1>15. RecoveryReadsSettled'
  BY <1>1, <1>7, ReadingsStay
<1> QED
  BY <1>6, <1>7, <1>8, <1>11, <1>12, <1>13, <1>14, <1>15
     DEF IInv, HistoryIsKept

(* The only step that moves the restart point, and by one child.           *)
LEMMA FsyncKeeps ==
  ASSUME IInv, NEW e \in Epochs, fsync(e)
  PROVE  /\ IInv'
         /\ continues(restartPoint, restartPoint')
         /\ restartPoint' = head(e)
         /\ Settled' = Settled \cup {head(e)}
         /\ currentBase' = currentBase
<1> DEFINE last == Len(line[e])
<1>1. /\ walStage[e] = "fsync"
      /\ e = lease.epoch
      /\ durableWal' = volatileWal
      /\ level' = [level EXCEPT ![e][last] = "wal"]
      /\ walStage' = [walStage EXCEPT ![e] = "idle"]
      /\ UNCHANGED <<lease, volatileWal, temporaries, synced, snapshots, manifest,
                     phase, recovery, line, mode, commit>>
  BY DEF fsync, fenceHolds, isFenceCurrent, temporaryFiles, opening
<1>2. phase[e] = "serving" /\ line[e] # <<>> /\ level[e][last] = "memory"
  BY <1>1 DEF IInv, AuthorityShape
<1>3. head(e) \in Revision /\ last \in Indices(e) /\ head(e) = line[e][last]
  BY <1>2, LineTypes DEF IInv, head
<1>4. /\ continues(restartPoint, head(e))
      /\ head(e).revisionId[1] = e
      /\ ~ hasTruncatedTail(durableWal)
      /\ volatileWal # <<>>
      /\ head(e) = volatileWal[Len(volatileWal)]
      /\ \A i \in 1..Len(volatileWal) : volatileWal[i] \in Revision
      /\ OwnFramesSettled(e, Len(volatileWal) - 1)
  BY <1>1, <1>2 DEF IInv, LeaseholderIsAtTheTail, AtTheTail
<1>5. /\ level' \in [Epochs -> Seq(Levels)]
      /\ Len(level'[e]) = Len(line[e])
      /\ level'[e][last] = "wal"
      /\ \A j \in Indices(e) : j # last => level'[e][j] = level[e][j]
      /\ \A f \in Epochs : f # e => level'[f] = level[f]
  <2>1. level \in [Epochs -> Seq(Levels)] /\ Len(level[e]) = Len(line[e])
    BY DEF IInv, TypeOK
  <2>2. last \in 1..Len(level[e]) /\ "wal" \in Levels
    BY <1>3, <2>1 DEF Indices, Levels
  <2> HIDE DEF last
  <2> QED
    BY <1>1, <2>1, <2>2, NestedExcept DEF Indices
<1>6. walStage'[e] = "idle" /\ \A f \in Epochs : f # e => walStage'[f] = walStage[f]
  BY <1>1 DEF IInv, TypeOK
<1>7. /\ Settled \in SUBSET Revision
      /\ IsALine(Settled)
      /\ IsALine(Settled \cup {head(e)})
      /\ EndsOn(currentBase, decodedRecords(durableWal'), Settled \cup {head(e)})
      /\ recoveredHead(currentBase, durableWal') = head(e)
      /\ ~ hasTruncatedTail(durableWal')
      /\ durableWal' \in Frames
  <2>1. /\ Settled \in SUBSET Revision
        /\ IsALine(Settled)
        /\ durableWal \in Frames
        /\ EndsOn(currentBase, decodedRecords(durableWal), Settled)
        /\ \A s \in Settled : s.sequence <= recoveredHead(currentBase, durableWal).sequence
        /\ volatileWal \in Frames
    BY RestartPointFacts DEF restartPoint
  <2>2. /\ Len(durableWal) <= Len(volatileWal)
        /\ \A i \in 1..Len(durableWal) : volatileWal[i] = durableWal[i]
    BY VolatileFacts
  <2>3. continues(recoveredHead(currentBase, durableWal), head(e))
    BY <1>4 DEF restartPoint
  <2>4. /\ IsALine(Settled \cup {head(e)})
        /\ EndsOn(currentBase, decodedRecords(volatileWal), Settled \cup {head(e)})
        /\ recoveredHead(currentBase, volatileWal) = head(e)
        /\ ~ hasTruncatedTail(volatileWal)
    <3> HIDE DEF last
    <3> QED
      BY <1>4, <2>1, <2>2, <2>3, LongerEndsOn
  <2> QED
    BY <1>1, <2>1, <2>4
<1>8. TypeOK'
  <2>1. walStage' \in [Epochs -> {"idle", "append", "fsync"}]
    BY <1>1 DEF IInv, TypeOK
  <2>2. \A f \in Epochs : /\ Len(level'[f]) = Len(line'[f])
                          /\ Len(commit'[f]) = Len(line'[f])
    BY <1>1, <1>5 DEF IInv, TypeOK
  <2> QED
    BY <1>1, <1>5, <1>7, <2>1, <2>2 DEF IInv, TypeOK
<1>9. \A f \in Epochs : Indices(f)' = Indices(f)
  BY <1>1 DEF Indices
<1>10. /\ \A r : AtWal(r)' <=> AtWal(r) \/ r = head(e)
       /\ \A r : AtSnapshot(r)' <=> AtSnapshot(r)
  <2>1. \A f \in Epochs : \A j \in Indices(f) :
          \/ f = e /\ j = last
          \/ level'[f][j] = level[f][j]
    BY <1>5
  <2> HIDE DEF last
  <2> QED
    BY <1>1, <1>2, <1>3, <1>5, <1>9, <2>1 DEF AtWal, AtSnapshot
<1>11. LevelsMean /\ LevelsMean'
  BY LevelsOfMembers, PTL
<1>12. /\ \A r : r \in Acknowledged("wal")' <=> r \in Acknowledged("wal") \/ r = head(e)
       /\ \A r : r \in Acknowledged("snapshot")' <=> r \in Acknowledged("snapshot")
  BY <1>8, <1>10, <1>11 DEF LevelsMean, IInv
<1>13. Settled' = Settled \cup {head(e)}
  BY <1>12 DEF Settled
<1>14. hasManifest' = hasManifest /\ currentBase' = currentBase
       /\ restartPoint' = head(e)
  BY <1>1, <1>7 DEF hasManifest, currentBase, restartPoint
<1>15. NamesAreTheirOwn'
  BY <1>1, <1>9 DEF IInv, NamesAreTheirOwn
<1>16. AuthorityShape'
  <2> SUFFICES ASSUME NEW f \in Epochs
      PROVE  /\ f > lease'.epoch => phase'[f] = "absent"
             /\ phase'[f] \in {"absent"} \cup Recovering => line'[f] = <<>>
             /\ phase'[f] = "serving" => line'[f] # <<>>
             /\ phase'[f] # "serving" => /\ walStage'[f] = "idle"
                                         /\ \A i \in Indices(f)' :
                                              commit'[f][i].stage = "idle"
             /\ walStage'[f] # "idle" => level'[f][Len(line'[f])] = "memory"
             /\ \A i \in Indices(f)' :
                  commit'[f][i].stage # "idle" => level'[f][i] # "memory"
    BY DEF AuthorityShape
  <2>1. CASE f = e
    <3>1. \A i \in Indices(e)' : commit'[e][i].stage # "idle" => level'[e][i] # "memory"
      <4> TAKE i \in Indices(e)'
      <4>1. CASE i = last
        BY <1>5, <4>1
      <4>2. CASE i # last
        BY <1>1, <1>5, <1>9, <4>2 DEF IInv, AuthorityShape
      <4> QED
        BY <4>1, <4>2
    <3> QED
      BY <1>1, <1>2, <1>6, <2>1, <3>1 DEF Recovering, IInv, AuthorityShape
  <2>2. CASE f # e
    BY <1>1, <1>5, <1>6, <1>9, <2>2 DEF IInv, AuthorityShape
  <2> QED
    BY <2>1, <2>2
<1>17. SettledIsALine'
  <2>1. /\ \A r \in Settled : r.sequence <= restartPoint.sequence
        /\ restartPoint \in Revision
    BY RestartPointFacts
  <2>2. \A r \in Settled \cup {head(e)} : r.sequence <= head(e).sequence
    BY <1>3, <1>4, <1>7, <2>1, RevisionFacts DEF continues
  <2> QED
    BY <1>7, <1>13, <1>14, <2>2 DEF SettledIsALine
<1>18. /\ LogEndsSettled' /\ VolatileExtends' /\ FramesAreOfThePast'
       /\ SettledInOrder(volatileWal)'
  <2>1. LogEndsSettled' /\ VolatileExtends' /\ FramesAreOfThePast'
    BY <1>1, <1>7, <1>13, <1>14
       DEF IInv, LogEndsSettled, VolatileExtends, FramesAreOfThePast
  <2>2. Len(volatileWal) \in Nat
    BY VolatileFacts
  <2>3. /\ head(e) \notin Settled
        /\ \A s \in Settled : s.sequence < head(e).sequence
    BY <1>3, <1>4, TheNextIsNew
  <2>4. \A i \in 1..(Len(volatileWal) - 1) :
          volatileWal[i] \in Settled \cup {head(e)} => volatileWal[i] \in Settled
    <3> SUFFICES ASSUME NEW i \in 1..(Len(volatileWal) - 1), volatileWal[i] = head(e)
                 PROVE  volatileWal[i] \in Settled
      OBVIOUS
    <3>1. volatileWal[i] # Torn /\ volatileWal[i].revisionId[1] = e
      BY <1>3, <1>4, RevisionFacts
    <3> QED
      BY <1>4, <3>1 DEF OwnFramesSettled
  <2>5. SettledInOrder(volatileWal)'
    <3> SUFFICES ASSUME NEW i \in 1..Len(volatileWal), NEW j \in 1..Len(volatileWal),
                        i < j, volatileWal[i] \in Settled \cup {head(e)},
                        volatileWal[j] \in Settled \cup {head(e)}
                 PROVE  volatileWal[i].sequence < volatileWal[j].sequence
      BY <1>1, <1>13 DEF SettledInOrder
    <3>1. volatileWal[i] \in Settled
      BY <2>2, <2>4
    <3>2. CASE volatileWal[j] \in Settled
      BY <3>1, <3>2 DEF IInv, SettledInOrder
    <3>3. CASE volatileWal[j] = head(e)
      BY <2>3, <3>1, <3>3
    <3> QED
      BY <3>2, <3>3
  <2> QED
    BY <2>1, <2>5
<1>19. LeaseholderIsAtTheTail'
  <2>1. head(e)' = head(e)
    BY <1>1 DEF head
  <2>2. OwnFramesSettled(e, Len(volatileWal))'
    <3> SUFFICES ASSUME NEW i \in 1..Len(volatileWal), volatileWal[i] # Torn,
                        volatileWal[i].revisionId[1] = e
                 PROVE  volatileWal[i] \in Settled \cup {head(e)}
      BY <1>1, <1>13 DEF OwnFramesSettled
    <3>1. i \in 1..(Len(volatileWal) - 1) \/ i = Len(volatileWal)
      BY VolatileFacts
    <3> QED
      BY <1>4, <3>1 DEF OwnFramesSettled
  <2>3. AtTheTail(e)'
    BY <1>1, <1>2, <1>6, <1>7, <1>14, <2>1, <2>2 DEF AtTheTail, Recovering
  <2> QED
    BY <1>1, <2>3 DEF LeaseholderIsAtTheTail
<1>20. RecoveryReadsSettled'
  BY <1>1, <1>13, ReadingsStay
<1>21. ManifestIsBacked'
  BY <1>1, <1>12, <1>14 DEF IInv, ManifestIsBacked
<1> QED
  BY <1>4, <1>8, <1>13, <1>14, <1>15, <1>16, <1>17, <1>18, <1>19,
     <1>20, <1>21 DEF IInv

(* The manifest moves to a Revision no earlier than its own, of which every *)
(* byte is in place: what is covered grows, where recovery ends stays.     *)
LEMMA SwitchManifestKeeps ==
  ASSUME IInv, NEW e \in Epochs, NEW i \in Indices(e), switchManifest(e, i)
  PROVE  /\ IInv'
         /\ HistoryIsKept
         /\ currentBase.sequence <= currentBase'.sequence
<1> DEFINE next == line[e][i]
<1>1. /\ commit[e][i].stage = "switch"
      /\ e = lease.epoch
      /\ hasManifest => manifest.revision.sequence <= next.sequence
      /\ next.revisionId \in snapshots
      /\ manifest' = [revision |-> next, generation |-> manifest.generation + 1]
      /\ level' = [level EXCEPT ![e][i] = "snapshot"]
      /\ commit' = [commit EXCEPT ![e][i] = IdleCommit]
      /\ UNCHANGED <<lease, volatileWal, durableWal, temporaries, synced, snapshots,
                     phase, recovery, line, mode, walStage>>
  BY DEF switchManifest, AtStage, fenceHolds, isFenceCurrent, key, walFiles,
         temporaryFiles, opening
<1>2. phase[e] = "serving" /\ level[e][i] # "memory"
  BY <1>1, CommitsInFlight
<1>3. /\ next \in Revision
      /\ next \in Settled
      /\ next # Nothing
      /\ next.sequence \in Nat
  BY <1>2, LineTypes, LevelsOfMembers, RevisionFacts, AbsenceAssumption
     DEF IInv, LevelsMean, AtWal, Settled
<1>4. CommitsAreInOrder
  <2>1. IdleCommit \in CommitState
    BY DEF IdleCommit, CommitState, CommitStages
  <2> QED
    BY <1>1, <1>2, <2>1, MovedCommit
<1>5. /\ level' \in [Epochs -> Seq(Levels)]
      /\ Len(level'[e]) = Len(line[e])
      /\ level'[e][i] = "snapshot"
      /\ \A j \in Indices(e) : j # i => level'[e][j] = level[e][j]
      /\ \A f \in Epochs : f # e => level'[f] = level[f]
  <2>1. level \in [Epochs -> Seq(Levels)] /\ Len(level[e]) = Len(line[e])
    BY DEF IInv, TypeOK
  <2>2. i \in 1..Len(level[e]) /\ "snapshot" \in Levels
    BY <2>1 DEF Indices, Levels
  <2> QED
    BY <1>1, <2>1, <2>2, NestedExcept DEF Indices
<1> HIDE DEF next
<1>6. TypeOK'
  <2>1. manifest' \in [revision : Revision \cup {Nothing}, generation : Nat]
    <3>1. manifest.generation + 1 \in Nat
      BY DEF IInv, TypeOK
    <3> QED
      BY <1>1, <1>3, <3>1
  <2>2. \A f \in Epochs : /\ Len(level'[f]) = Len(line'[f])
                          /\ Len(commit'[f]) = Len(line'[f])
    BY <1>1, <1>4, <1>5 DEF IInv, TypeOK, CommitsAreInOrder
  <2> QED
    BY <1>1, <1>4, <1>5, <2>1, <2>2
       DEF IInv, TypeOK, CommitsAreInOrder, CommitState
<1>7. \A f \in Epochs : Indices(f)' = Indices(f)
  BY <1>1 DEF Indices
<1>8. /\ \A r : AtWal(r)' <=> AtWal(r)
      /\ \A r : AtSnapshot(r)' <=> AtSnapshot(r) \/ r = next
  <2>1. \A f \in Epochs : \A j \in Indices(f) :
          \/ f = e /\ j = i /\ line[f][j] = next
          \/ level'[f][j] = level[f][j]
    BY <1>5 DEF next
  <2>2. line[e][i] = next
    BY DEF next
  <2> QED
    BY <1>1, <1>2, <1>5, <1>7, <2>1, <2>2 DEF AtWal, AtSnapshot
<1>9. LevelsMean /\ LevelsMean'
  BY LevelsOfMembers, PTL
<1>10. /\ \A r : r \in Acknowledged("wal")' <=> r \in Acknowledged("wal")
       /\ \A r : r \in Acknowledged("snapshot")'
                   <=> r \in Acknowledged("snapshot") \/ r = next
  BY <1>6, <1>8, <1>9 DEF LevelsMean, IInv
<1>11. Settled' = Settled
  BY <1>10 DEF Settled
<1>12. /\ manifest'.revision = next
       /\ hasManifest'
       /\ currentBase' = next
  BY <1>1, <1>3 DEF hasManifest, currentBase
<1>13. currentBase.sequence <= next.sequence
  <2>1. Genesis.sequence = 0
    BY DEF Genesis
  <2> QED
    BY <1>1, <1>3, <2>1 DEF currentBase
<1>14. /\ EndsOn(next, decodedRecords(durableWal), Settled)
       /\ recoveredHead(next, durableWal) = restartPoint
  BY <1>3, <1>13, RestartPointFacts, LaterBaseEndsOn DEF restartPoint
<1>15. restartPoint' = restartPoint
  BY <1>1, <1>12, <1>14 DEF restartPoint
<1>16. NamesAreTheirOwn'
  BY <1>1, <1>7 DEF IInv, NamesAreTheirOwn
<1>17. AuthorityShape'
  <2> SUFFICES ASSUME NEW f \in Epochs
      PROVE  /\ f > lease'.epoch => phase'[f] = "absent"
             /\ phase'[f] \in {"absent"} \cup Recovering => line'[f] = <<>>
             /\ phase'[f] = "serving" => line'[f] # <<>>
             /\ phase'[f] # "serving" => /\ walStage'[f] = "idle"
                                         /\ \A j \in Indices(f)' :
                                              commit'[f][j].stage = "idle"
             /\ walStage'[f] # "idle" => level'[f][Len(line'[f])] = "memory"
             /\ \A j \in Indices(f)' :
                  commit'[f][j].stage # "idle" => level'[f][j] # "memory"
    BY DEF AuthorityShape
  <2>1. /\ f > lease'.epoch => phase'[f] = "absent"
        /\ phase'[f] \in {"absent"} \cup Recovering => line'[f] = <<>>
        /\ phase'[f] = "serving" => line'[f] # <<>>
        /\ phase'[f] # "serving" => walStage'[f] = "idle"
    BY <1>1 DEF IInv, AuthorityShape
  <2>2. \A j \in Indices(f)' :
          \/ commit'[f][j].stage = "idle"
          \/ phase'[f] = "serving" /\ level'[f][j] # "memory"
    <3> TAKE j \in Indices(f)'
    <3>1. j \in Indices(f)
      BY <1>7
    <3>2. CASE f = e /\ j = i
      BY <1>1, <1>2, <1>5, <3>2
    <3>3. CASE f # e \/ j # i
      BY <1>1, <1>4, <1>5, <3>1, <3>3 DEF CommitsAreInOrder
    <3> QED
      BY <3>2, <3>3
  <2>3. walStage'[f] # "idle" => level'[f][Len(line'[f])] = "memory"
    <3> SUFFICES ASSUME walStage[f] # "idle"
                 PROVE  level'[f][Len(line[f])] = "memory"
      BY <1>1
    <3>1. level[f][Len(line[f])] = "memory" /\ line[f] # <<>>
      BY DEF IInv, AuthorityShape
    <3>2. Len(line[f]) \in Indices(f)
      BY <3>1, LineTypes DEF IInv
    <3> QED
      BY <1>2, <1>5, <3>1, <3>2
  <2> QED
    BY <2>1, <2>2, <2>3
<1>18. SettledIsALine'
  BY <1>11, <1>15 DEF IInv, SettledIsALine
<1>19. /\ LogEndsSettled' /\ VolatileExtends'
       /\ SettledInOrder(volatileWal)' /\ FramesAreOfThePast'
  <2>1. lease.epoch \in Nat
    BY DEF IInv, TypeOK
  <2> QED
    BY <1>1, <1>11, <1>12, <1>14, <2>1, FilesStay DEF LogEndsSettled
<1>20. LeaseholderIsAtTheTail'
  <2>1. head(e)' = head(e) /\ AtTheTail(e)
    BY <1>1 DEF head, IInv, LeaseholderIsAtTheTail
  <2>2. \A n : OwnFramesSettled(e, n)' <=> OwnFramesSettled(e, n)
    BY <1>1, <1>11 DEF OwnFramesSettled
  <2>3. IsWaiting(e)' <=> IsWaiting(e)
    BY <1>1 DEF IsWaiting
  <2>4. AtTheTail(e)'
    BY <1>1, <1>2, <1>15, <2>1, <2>2, <2>3 DEF AtTheTail
  <2> QED
    BY <1>1, <2>4 DEF LeaseholderIsAtTheTail
<1>21. RecoveryReadsSettled'
  <2>1. \A r \in Settled : hasManifest /\ r.sequence <= manifest.revision.sequence
                             => r.sequence <= next.sequence
    <3> SUFFICES ASSUME NEW r \in Settled, hasManifest,
                        r.sequence <= manifest.revision.sequence
                 PROVE  r.sequence <= next.sequence
      OBVIOUS
    <3>1. r.sequence \in Nat /\ manifest.revision.sequence \in Nat
      BY RestartPointFacts, RevisionFacts DEF currentBase
    <3> QED
      BY <1>1, <1>3, <3>1
  <2> QED
    BY <1>1, <1>11, <1>12, <2>1 DEF IInv, RecoveryReadsSettled, ReadsSettled
<1>22. ManifestIsBacked'
  <2>1. \A r \in Acknowledged("snapshot") \ {Genesis} :
          r.sequence <= next.sequence /\ r.revisionId \in snapshots
    <3> SUFFICES ASSUME NEW r \in Acknowledged("snapshot") \ {Genesis}
                 PROVE  r.sequence <= next.sequence /\ r.revisionId \in snapshots
      OBVIOUS
    <3>1. /\ hasManifest
          /\ r.sequence <= manifest.revision.sequence
          /\ r.revisionId \in snapshots
      BY DEF IInv, ManifestIsBacked
    <3>2. r.sequence \in Nat /\ manifest.revision.sequence \in Nat
      BY <3>1, SnapshotsAreSettled, RestartPointFacts, RevisionFacts
         DEF IInv, currentBase
    <3> QED
      BY <1>1, <1>3, <3>1, <3>2
  <2>2. next.sequence <= next.sequence
    BY <1>3
  <2> QED
    BY <1>1, <1>10, <1>12, <2>1, <2>2 DEF ManifestIsBacked
<1> QED
  BY <1>6, <1>11, <1>12, <1>13, <1>15, <1>16, <1>17, <1>18, <1>19, <1>20,
     <1>21, <1>22 DEF IInv, HistoryIsKept

-----------------------------------------------------------------------------
(* The world outside. *)

(* A crash loses nothing that is settled, and no record of the durable log. *)
LEMMA CrashKeeps ==
  ASSUME IInv, Crash
  PROVE  /\ IInv'
         /\ HistoryIsKept
         /\ decodedRecords(durableWal') = decodedRecords(durableWal)
<1>1. /\ lease' = [lease EXCEPT !.owned = FALSE]
      /\ volatileWal' = durableWal'
      /\ temporaries' = {}
      /\ synced' = {}
      /\ phase' = [e \in Epochs |->
                     IF phase[e] = "absent" THEN "absent" ELSE "stopped"]
      /\ mode' = [e \in Epochs |-> "read-only"]
      /\ walStage' = [e \in Epochs |-> "idle"]
      /\ commit' = [e \in Epochs |-> [i \in Indices(e) |-> IdleCommit]]
      /\ recovery' = [e \in Epochs |-> NothingRead]
      /\ UNCHANGED <<snapshots, manifest, line, level>>
  BY DEF Crash
<1>2. durableWal' \in Frames /\ decodedRecords(durableWal') = decodedRecords(durableWal)
  <2>1. CASE durableWal' = durableWal
    BY <2>1 DEF IInv, TypeOK
  <2>2. CASE Len(volatileWal) > Len(durableWal) /\ durableWal' = Append(durableWal, Torn)
    <3>1. Len(durableWal) \in Nat /\ durableWal \in Frames
      BY LenProperties DEF IInv, TypeOK, Frames
    <3>2. volatileWal # durableWal
      BY <2>2, <3>1
    <3>3. ~ hasTruncatedTail(durableWal)
      BY <3>2, VolatileFacts
    <3> QED
      BY <2>2, <3>1, <3>3, TornTailIsSkipped
  <2> QED
    BY <2>1, <2>2 DEF Crash
<1>3. lease' \in [epoch : 0..MaxEpoch, owned : BOOLEAN] /\ lease'.epoch = lease.epoch
  BY <1>1 DEF IInv, TypeOK
<1>4. \A e \in Epochs : /\ commit'[e] \in Seq(CommitState)
                        /\ Len(commit'[e]) = Len(line[e])
                        /\ \A i \in Indices(e) : commit'[e][i] = IdleCommit
  <2> TAKE e \in Epochs
  <2>1. Len(line[e]) \in Nat /\ IdleCommit \in CommitState
    BY LineTypes DEF IInv, IdleCommit, CommitState, CommitStages
  <2>2. commit'[e] = [i \in 1..Len(line[e]) |-> IdleCommit]
    BY <1>1 DEF Indices
  <2>3. commit'[e] \in [1..Len(line[e]) -> CommitState]
    BY <2>1, <2>2
  <2> QED
    BY <2>1, <2>2, <2>3, SeqDef DEF Indices
<1>5. TypeOK'
  <2>1. commit' \in [Epochs -> Seq([stage : CommitStages, generation : Nat])]
    BY <1>1, <1>4 DEF CommitState
  <2>2. \A f \in Epochs : /\ Len(level'[f]) = Len(line'[f])
                          /\ Len(commit'[f]) = Len(line'[f])
    BY <1>1, <1>4 DEF IInv, TypeOK
  <2>3. recovery' \in [Epochs -> [base : Revision, level : {"wal", "snapshot"},
                                  wal : Frames]]
    BY <1>1, NothingReadIsSettled
  <2>4. /\ phase' \in [Epochs -> {"absent", "reading-base", "reading-wal",
                                  "truncating", "opening", "serving", "stopped"}]
        /\ mode' \in [Epochs -> {"read-write", "read-only"}]
        /\ walStage' \in [Epochs -> {"idle", "append", "fsync"}]
    BY <1>1
  <2> QED
    BY <1>1, <1>2, <1>3, <2>1, <2>2, <2>3, <2>4 DEF IInv, TypeOK
<1>6. /\ Settled' = Settled
      /\ restartPoint' = restartPoint
      /\ NamesAreTheirOwn'
      /\ SettledIsALine'
      /\ LogEndsSettled'
      /\ ManifestIsBacked'
  BY <1>1, <1>2, HistoryStays
<1>7. AuthorityShape'
  <2>1. \A e \in Epochs : Indices(e)' = Indices(e)
    BY <1>1 DEF Indices
  <2>2. \A e \in Epochs :
          /\ phase'[e] \in {"absent", "stopped"}
          /\ phase'[e] = "absent" <=> phase[e] = "absent"
          /\ walStage'[e] = "idle"
          /\ \A i \in Indices(e)' : commit'[e][i].stage = "idle"
    BY <1>1, <1>4, <2>1 DEF IdleCommit
  <2> QED
    BY <1>1, <1>3, <2>2 DEF IInv, AuthorityShape, Recovering
<1>8. VolatileExtends' /\ SettledInOrder(volatileWal)' /\ FramesAreOfThePast'
  <2>1. /\ Len(volatileWal') \in Nat
        /\ \A i \in 1..Len(volatileWal') :
             \/ volatileWal'[i] = Torn
             \/ i + 0 \in 1..Len(volatileWal) /\ volatileWal'[i] = volatileWal[i + 0]
    <3>1. CASE durableWal' = durableWal
      BY <1>1, <3>1, VolatileFacts
    <3>2. CASE durableWal' = Append(durableWal, Torn)
      <4>1. /\ Len(volatileWal') = Len(durableWal) + 1
            /\ volatileWal'[Len(durableWal) + 1] = Torn
            /\ \A i \in 1..Len(durableWal) : volatileWal'[i] = durableWal[i]
        BY <1>1, <3>2, RestartPointFacts, AppendedProperties DEF Frames
      <4> QED
        BY <4>1, VolatileFacts
    <3> QED
      BY <3>1, <3>2 DEF Crash
  <2> QED
    BY <1>1, <1>3, <1>6, <2>1, FilesShrink
<1>9. LeaseholderIsAtTheTail'
  BY <1>1 DEF LeaseholderIsAtTheTail, AtTheTail, Recovering, IsWaiting
<1>10. RecoveryReadsSettled'
  <2>1. hasManifest' = hasManifest
    BY <1>1 DEF hasManifest
  <2> QED
    BY <1>1, <1>6, <2>1, NothingReadIsSettled DEF RecoveryReadsSettled, ReadsSettled
<1> QED
  BY <1>2, <1>5, <1>6, <1>7, <1>8, <1>9, <1>10 DEF IInv, HistoryIsKept

(* Compaction loses only what the manifest covers.                         *)
LEMMA CompactKeeps ==
  ASSUME IInv, Compact
  PROVE  IInv' /\ HistoryIsKept
<1>1. PICK n \in 1..Len(durableWal) :
        /\ durableWal[n] = manifest.revision
        /\ durableWal' = SubSeq(durableWal, n + 1, Len(durableWal))
  BY DEF Compact
<1>2. /\ volatileWal = durableWal
      /\ hasManifest
      /\ volatileWal' = durableWal'
      /\ UNCHANGED <<lease, temporaries, synced, snapshots, manifest, phase,
                     recovery, line, level, mode, walStage, commit>>
  BY DEF Compact, temporaryFiles, opening, authority
<1>3. /\ durableWal[n] = currentBase
      /\ currentBase # Torn
      /\ \A i \in 1..(n - 1) : durableWal[i] \in Settled
                              => durableWal[i].sequence < currentBase.sequence
  <2>1. durableWal[n] = currentBase /\ currentBase \in Settled /\ currentBase # Torn
    BY <1>1, <1>2, RestartPointFacts, RevisionFacts DEF currentBase
  <2>2. \A i \in 1..(n - 1) : i \in 1..Len(durableWal) /\ i < n
    BY <1>1, VolatileFacts
  <2> QED
    BY <1>1, <1>2, <2>1, <2>2 DEF IInv, SettledInOrder
<1>4. /\ durableWal' \in Frames
      /\ EndsOn(currentBase, decodedRecords(durableWal'), Settled)
      /\ recoveredHead(currentBase, durableWal') = restartPoint
      /\ hasTruncatedTail(durableWal') <=> hasTruncatedTail(durableWal)
  <2>1. /\ durableWal' \in Frames
        /\ hasTruncatedTail(durableWal') <=> hasTruncatedTail(durableWal)
    BY <1>1, <1>3, RestartPointFacts, CutProperties
  <2>2. /\ EndsOn(currentBase, decodedRecords(durableWal'), Settled)
        /\ recoveredHead(currentBase, durableWal')
             = recoveredHead(currentBase, durableWal)
    BY <1>1, <1>3, RestartPointFacts, CompactedEndsOn
  <2> QED
    BY <2>1, <2>2 DEF restartPoint
<1>5. TypeOK'
  BY <1>2, <1>4 DEF IInv, TypeOK
<1>6. \A target : Acknowledged(target)' = Acknowledged(target)
  BY <1>2 DEF Acknowledged, AcknowledgedBy, Indices
<1>7. Settled' = Settled
  BY <1>6 DEF Settled
<1>8. hasManifest' = hasManifest /\ currentBase' = currentBase
      /\ restartPoint' = restartPoint
  BY <1>2, <1>4 DEF hasManifest, currentBase, restartPoint
<1>9. NamesAreTheirOwn' /\ AuthorityShape'
  BY <1>2 DEF IInv, NamesAreTheirOwn, AuthorityShape, Indices
<1>10. SettledIsALine' /\ LogEndsSettled'
  BY <1>4, <1>7, <1>8 DEF IInv, SettledIsALine, LogEndsSettled
<1>11. /\ VolatileExtends' /\ SettledInOrder(volatileWal)' /\ FramesAreOfThePast'
       /\ \A f \in Epochs : OwnFramesSettled(f, Len(volatileWal))
                               => OwnFramesSettled(f, Len(volatileWal))'
  <2>1. /\ Len(volatileWal') = Len(volatileWal) - n
        /\ \A i \in 1..Len(volatileWal') : volatileWal'[i] = volatileWal[n + i]
    BY <1>1, <1>2, <1>3, RestartPointFacts, CutProperties
  <2>2. /\ n \in Nat
        /\ Len(volatileWal') \in Nat
        /\ \A i \in 1..Len(volatileWal') :
             i + n \in 1..Len(volatileWal) /\ volatileWal'[i] = volatileWal[i + n]
    BY <1>2, <2>1, VolatileFacts
  <2> QED
    BY <1>2, <1>7, <2>2, FilesShrink
<1>12. LeaseholderIsAtTheTail'
  <2> SUFFICES ASSUME NEW f \in Epochs, f = lease.epoch PROVE AtTheTail(f)'
    BY <1>2 DEF LeaseholderIsAtTheTail
  <2>1. AtTheTail(f)
    BY DEF IInv, LeaseholderIsAtTheTail
  <2>2. head(f)' = head(f) /\ recovers(f)' = recovers(f)
    BY <1>2 DEF head, recovers
  <2>3. walStage[f] # "fsync"
    <3> SUFFICES ASSUME walStage[f] = "fsync" PROVE FALSE
      OBVIOUS
    <3>1. /\ continues(restartPoint, head(f))
          /\ durableWal # <<>>
          /\ durableWal[Len(durableWal)] = head(f)
          /\ phase[f] = "serving"
      BY <1>2, <2>1 DEF AtTheTail, IInv, AuthorityShape
    <3>2. ~ hasTruncatedTail(durableWal) /\ decodedRecords(durableWal) = durableWal
      BY <2>1, <3>1 DEF AtTheTail, decodedRecords
    <3>3. head(f) \in Settled /\ head(f) \in Revision
      BY <3>1, <3>2, RestartPointFacts DEF EndsOn
    <3> QED
      BY <3>1, <3>3, TheNextIsNew
  <2>4. IsWaiting(f)' <=> IsWaiting(f)
    BY <1>2 DEF IsWaiting
  <2> QED
    BY <1>2, <1>4, <1>8, <1>11, <2>1, <2>2, <2>3, <2>4 DEF AtTheTail
<1>13. RecoveryReadsSettled'
  BY <1>2, <1>7, ReadingsStay
<1>14. ManifestIsBacked'
  BY <1>2, <1>6, <1>8 DEF IInv, ManifestIsBacked
<1> QED
  BY <1>5, <1>7, <1>8, <1>9, <1>10, <1>12, <1>13, <1>14, <1>11
     DEF IInv, HistoryIsKept

-----------------------------------------------------------------------------
(* The invariant. *)

(* Both invariants hold of an empty document.                              *)
LEMMA Initially ==
  ASSUME Init
  PROVE  CleanInv
<1> USE DEF Init
<1>1. TypeOK
  <2>1. <<>> \in Frames
    BY DEF Frames
  <2>2. Len(<<>>) = 0
    OBVIOUS
  <2>3. /\ line \in [Epochs -> Seq(Revision)]
        /\ level \in [Epochs -> Seq(Levels)]
        /\ commit \in [Epochs -> Seq([stage : CommitStages, generation : Nat])]
    OBVIOUS
  <2>4. 0 \in 0..MaxEpoch
    BY EpochAssumption
  <2> QED
    BY <2>1, <2>2, <2>3, <2>4, NothingReadIsSettled DEF TypeOK
<1>2. \A e \in Epochs : Indices(e) = {}
  BY DEF Indices
<1>3. /\ hasManifest = FALSE
      /\ currentBase = Genesis
      /\ \A target : Acknowledged(target) = {}
  <2>1. \A target, r : r \notin Acknowledged(target)
    BY <1>2, AcknowledgedMembers DEF AcknowledgedMeans
  <2> QED
    BY <2>1 DEF hasManifest, currentBase
<1>4. Settled = {Genesis}
  BY <1>3 DEF Settled
<1>5. decodedRecords(<<>>) = <<>> /\ Len(<<>>) = 0 /\ ~ hasTruncatedTail(<<>>)
  BY DEF decodedRecords, hasTruncatedTail
<1>6. restartPoint = Genesis /\ Genesis.sequence = 0
  BY <1>3, <1>5 DEF restartPoint, recoveredHead, Genesis
<1>7. NamesAreTheirOwn
  BY <1>2 DEF NamesAreTheirOwn
<1>8. AuthorityShape
  BY <1>2 DEF AuthorityShape
<1>9. SettledIsALine
  BY <1>4, <1>6 DEF SettledIsALine, IsALine
<1>10. LogEndsSettled
  BY <1>3, <1>4, <1>5, <1>6 DEF LogEndsSettled, EndsOn
<1>11. VolatileExtends /\ SettledInOrder(volatileWal) /\ FramesAreOfThePast
  BY <1>5 DEF VolatileExtends, SettledInOrder, FramesAreOfThePast
<1>12. LeaseholderIsAtTheTail
  BY DEF LeaseholderIsAtTheTail, AtTheTail, Recovering, IsWaiting
<1>13. RecoveryReadsSettled
  BY NothingReadIsSettled DEF RecoveryReadsSettled
<1>14. ManifestIsBacked
  BY <1>3 DEF ManifestIsBacked
<1>15. LogIsSettled
  BY <1>3, <1>4, <1>5 DEF LogIsSettled, Fits
<1>16. NoForeignTail
  BY DEF NoForeignTail, IsWaiting, Recovering
<1> QED
  BY <1>1, <1>7, <1>8, <1>9, <1>10, <1>11, <1>12, <1>13, <1>14, <1>15, <1>16
     DEF IInv, CleanInv

(* The steps that neither move the restart point nor settle a Revision.    *)
ReadsOrWaits(e) ==
  \/ Acquire(e)
  \/ Recover(e)
  \/ Apply(e)
  \/ NoticeLostLease(e)
  \/ append(e)
  \/ FailWal(e)
  \/ \E i \in Indices(e) :
       \/ Checkpoint(e, i) \/ writeTemporary(e, i) \/ fsyncTemporary(e, i)
       \/ validateTemporary(e, i) \/ atomicRename(e, i) \/ readManifest(e, i)
       \/ FailSnapshot(e, i)

(* None of them breaks the invariant.                                      *)
LEMMA ReadsOrWaitsKeeps ==
  ASSUME IInv, NEW e \in Epochs, ReadsOrWaits(e)
  PROVE  IInv' /\ HistoryIsKept
<1>1. CASE Acquire(e) \/ Apply(e) \/ append(e)
  BY <1>1, AcquireKeeps, ApplyKeeps, AppendKeeps
<1>2. CASE Recover(e)
  BY <1>2, ReadBaseKeeps, ReadWalKeeps, TruncateTailKeeps, OpenKeeps,
     FailRecoveryKeeps DEF Recover
<1>3. CASE NoticeLostLease(e) \/ FailWal(e)
  BY <1>3, OtherQuietSteps, QuietStepKeeps
<1>4. ASSUME NEW i \in Indices(e),
             \/ Checkpoint(e, i) \/ writeTemporary(e, i) \/ fsyncTemporary(e, i)
             \/ validateTemporary(e, i) \/ atomicRename(e, i)
             \/ readManifest(e, i) \/ FailSnapshot(e, i)
      PROVE  IInv' /\ HistoryIsKept
  BY <1>4, CommitStepsAreQuiet, QuietStepKeeps
<1> QED
  BY <1>1, <1>2, <1>3, <1>4 DEF ReadsOrWaits

(* The other steps, one by one.                                            *)
LEMMA StepsOfTheDocument ==
  ASSUME [Next]_vars
  PROVE  \/ UNCHANGED vars
         \/ Release
         \/ Crash
         \/ Compact
         \/ \E e \in Epochs : \/ ReadsOrWaits(e)
                              \/ fsync(e)
                              \/ \E i \in Indices(e) : switchManifest(e, i)
BY DEF Next, PersistWal, CommitSnapshot, ReadsOrWaits

(* No step goes back: the restart point stays, or moves on by one child.   *)
LEMMA NextKeepsIInv ==
  ASSUME IInv, [Next]_vars
  PROVE  IInv' /\ (restartPoint' # restartPoint
                     => continues(restartPoint, restartPoint'))
<1>1. CASE UNCHANGED vars \/ Release
  BY <1>1, OtherQuietSteps, QuietStepKeeps DEF HistoryIsKept
<1>2. CASE Crash \/ Compact
  BY <1>2, CrashKeeps, CompactKeeps DEF HistoryIsKept
<1>3. ASSUME NEW e \in Epochs, ReadsOrWaits(e)
      PROVE  IInv' /\ restartPoint' = restartPoint
  BY <1>3, ReadsOrWaitsKeeps DEF HistoryIsKept
<1>4. ASSUME NEW e \in Epochs, fsync(e)
      PROVE  IInv' /\ continues(restartPoint, restartPoint')
  BY <1>4, FsyncKeeps
<1>5. ASSUME NEW e \in Epochs, NEW i \in Indices(e), switchManifest(e, i)
      PROVE  IInv' /\ restartPoint' = restartPoint
  BY <1>5, SwitchManifestKeeps DEF HistoryIsKept
<1> QED
  BY <1>1, <1>2, <1>3, <1>4, <1>5, StepsOfTheDocument

(* The first invariant, whoever takes the lease when.                      *)
LEMMA Invariance == Spec => []IInv
<1>1. IInv /\ [Next]_vars => IInv'
  BY NextKeepsIInv
<1>2. Init => IInv
  BY Initially DEF CleanInv
<1> QED
  BY <1>1, <1>2, PTL DEF Spec

-----------------------------------------------------------------------------
(* The theorems, whatever is in the log when an Authority takes the lease. *)

(* Every variable of the document's storage, of its Authorities and of     *)
(* their recoveries keeps its type.                                        *)
THEOREM TypeCorrect == Spec => []TypeOK
<1>1. IInv => TypeOK
  BY DEF IInv
<1> QED
  BY <1>1, Invariance, PTL

(* Whatever crashes, and whoever writes when: every Revision that was ever *)
(* acknowledged as `wal` is in the durable log or covered by the manifest. *)
THEOREM AckedStaysInStorage == Spec => []AckedIsInStorage
<1>1. IInv => AckedIsInStorage
  <2> SUFFICES ASSUME IInv, NEW r \in Acknowledged("wal")
               PROVE  \/ r = currentBase
                      \/ r.sequence < currentBase.sequence
                      \/ \E n \in 1..Len(durableWal) : durableWal[n] = r
    BY DEF AckedIsInStorage
  <2> DEFINE decoded == decodedRecords(durableWal)
  <2>1. r \in Settled
    BY DEF Settled
  <2>2. CASE r.sequence <= currentBase.sequence
    <3>1. r.sequence \in Nat /\ currentBase.sequence \in Nat
      BY <2>1, RestartPointFacts, RevisionFacts
    <3> QED
      BY <2>1, <2>2, <3>1, RestartPointFacts DEF IsALine
  <2>3. CASE \E i \in 1..Len(decoded) : decoded[i] = r
    <3>1. \A i \in 1..Len(decoded) : i \in 1..Len(durableWal)
                                     /\ decoded[i] = durableWal[i]
      <4>1. /\ decoded \in Frames
            /\ Len(decoded) = IF hasTruncatedTail(durableWal)
                                THEN Len(durableWal) - 1 ELSE Len(durableWal)
            /\ \A i \in 1..Len(decoded) : decoded[i] = durableWal[i]
        BY RestartPointFacts, DecodedIsAPrefix
      <4> QED
        BY <4>1, VolatileFacts
    <3> QED
      BY <2>3, <3>1
  <2> QED
    BY <2>1, <2>2, <2>3, RestartPointFacts DEF EndsOn
<1> QED
  BY <1>1, Invariance, PTL

(* No two Authorities, at once or one after the other, acknowledge two     *)
(* Revisions for one place on the mainline.                                *)
THEOREM BrainIsNeverSplit == Spec => []NoSplitBrain
<1>1. IInv => NoSplitBrain
  BY DEF IInv, SettledIsALine, IsALine, Settled, NoSplitBrain
<1> QED
  BY <1>1, Invariance, PTL

(* The manifest names a complete file of an acknowledged Revision and is   *)
(* behind none that was acknowledged as `snapshot`.                        *)
THEOREM ManifestStaysBacked == Spec => []ManifestIsBacked
<1>1. IInv => ManifestIsBacked
  BY DEF IInv
<1> QED
  BY <1>1, Invariance, PTL

(* What a reopening would find only ever moves on to a child of itself:    *)
(* fsync is the only step that moves it.                                   *)
THEOREM RestartPointOnlyAdvances == Spec => RestartPointAdvances
<1>1. IInv /\ [Next]_vars
        => [restartPoint' # restartPoint => continues(restartPoint, restartPoint')]_vars
  BY NextKeepsIInv
<1> QED
  BY <1>1, Invariance, PTL DEF Spec, RestartPointAdvances

-----------------------------------------------------------------------------
(* Where no Authority inherits a tail.  First, logs without gaps.          *)

(* The end of a log that fits. *)
LEMMA FitEnds ==
  ASSUME NEW S, NEW base, NEW decoded \in Frames, Fits(base, decoded, S)
  PROVE  /\ base \in S
         /\ decoded # <<>> => /\ Len(decoded) \in 1..Len(decoded)
                              /\ 1 \in 1..Len(decoded)
                              /\ decoded[Len(decoded)] \in S
                              /\ base.sequence <= decoded[Len(decoded)].sequence
<1>1. decoded # <<>> => Len(decoded) \in 1..Len(decoded) /\ 1 \in 1..Len(decoded)
  BY EmptySeq, LenProperties DEF Frames
<1> QED
  BY <1>1 DEF Fits

(* The places of a log that fits count up by one.                          *)
LEMMA PlacesCountUp ==
  ASSUME NEW S \in SUBSET Revision, NEW base, NEW decoded \in Frames,
         Fits(base, decoded, S)
  PROVE  \A i, j \in 1..Len(decoded) :
           /\ decoded[i].sequence \in Nat
           /\ decoded[i].sequence + j = decoded[j].sequence + i
<1>1. SUFFICES ASSUME NEW i \in 1..Len(decoded), NEW j \in 1..Len(decoded)
      PROVE /\ decoded[i].sequence \in Nat
            /\ decoded[i].sequence + j = decoded[j].sequence + i
  OBVIOUS
<1>2. 1 \in 1..Len(decoded) /\ Len(decoded) \in Nat
  BY <1>1, LenProperties DEF Frames
<1>3. /\ decoded[i].sequence \in Nat
      /\ decoded[j].sequence \in Nat
      /\ decoded[1].sequence \in Nat
  BY <1>2, RevisionFacts DEF Fits
<1>4. /\ decoded[i].sequence + 1 = decoded[1].sequence + i
      /\ decoded[j].sequence + 1 = decoded[1].sequence + j
  BY DEF Fits
<1>5. \A a, b, c \in Nat : a + 1 = c + i /\ b + 1 = c + j => a + j = b + i
  BY <1>2
<1> QED
  BY <1>3, <1>4, <1>5

(* On a line, a Revision of the next place continues the one before.       *)
LEMMA NextContinues ==
  ASSUME NEW S \in SUBSET Revision, IsALine(S), NEW p \in S, NEW r \in S,
         r.sequence = p.sequence + 1
  PROVE  continues(p, r)
<1>1. p.sequence \in Nat /\ r.sequence \in Nat
  BY RevisionFacts
<1>2. PICK q \in S : continues(q, r)
  BY <1>1 DEF IsALine
<1>3. q.sequence \in Nat /\ r.sequence = q.sequence + 1
  BY <1>2, RevisionFacts DEF continues
<1>4. q.sequence = p.sequence
  BY <1>1, <1>3
<1>5. q = p
  BY <1>4 DEF IsALine
<1> QED
  BY <1>2, <1>5

(* Recovery accepts every log that fits.                                   *)
LEMMA FitIsRecoverable ==
  ASSUME NEW S \in SUBSET Revision, IsALine(S), \A r \in S : IsNamed(r),
         NEW base, NEW wal \in Frames, Fits(base, decodedRecords(wal), S)
  PROVE  isRecoverable(base, wal)
<1> DEFINE decoded == decodedRecords(wal)
<1>1. decoded \in Frames /\ Len(decoded) \in Nat
  BY DecodedIsAPrefix, LenProperties DEF Frames
<1>2. base \in S /\ base.sequence \in Nat /\ IsNamed(base)
  BY RevisionFacts DEF Fits
<1>3. \A i \in 1..Len(decoded) :
        decoded[i] \in S /\ decoded[i].sequence \in Nat /\ IsNamed(decoded[i])
  BY RevisionFacts DEF Fits
<1>4. \A i, j \in 1..Len(decoded) :
        decoded[i].sequence + j = decoded[j].sequence + i
  BY <1>1, PlacesCountUp
<1>5. \A r, s \in S : r.sequence = s.sequence => r = s
  BY DEF IsALine
<1>6. ~ isCorrupt(wal)
  <2> SUFFICES ASSUME NEW i \in 1..(Len(wal) - 1), wal[i] = Torn PROVE FALSE
    BY DEF isCorrupt
  <2>1. i \in 1..Len(decoded) /\ decoded[i] = wal[i]
    BY DecodedIsAPrefix, LenProperties DEF Frames
  <2> QED
    BY <1>3, <2>1, RevisionFacts
<1>7. validateWalRevisionIdentity(base, decoded)
  <2> SUFFICES ASSUME NEW i \in 1..Len(decoded), ~ isBaseRecord(base, decoded, i),
                      NEW other \in {base} \cup {decoded[j] : j \in 1..(i - 1)}
               PROVE /\ decoded[i].transactionId # other.transactionId
                     /\ decoded[i].revisionId # other.revisionId
    BY DEF validateWalRevisionIdentity
  <2>1. \A j \in 1..(i - 1) : /\ j \in 1..Len(decoded)
                              /\ decoded[j].sequence # decoded[i].sequence
    BY <1>1, <1>3, <1>4
  <2>2. decoded[i] # base
    BY <1>3, <2>1 DEF isBaseRecord
  <2>3. other.sequence # decoded[i].sequence /\ IsNamed(other)
    <3>1. CASE other = base
      BY <1>2, <1>3, <1>5, <2>2, <3>1
    <3>2. CASE other \in {decoded[j] : j \in 1..(i - 1)}
      BY <1>3, <2>1, <3>2
    <3> QED
      BY <3>1, <3>2
  <2> QED
    BY <1>3, <2>3 DEF IsNamed
<1>8. \A i \in 2..Len(decoded) : continues(decoded[i - 1], decoded[i])
  <2> SUFFICES ASSUME NEW i \in 2..Len(decoded)
               PROVE continues(decoded[i - 1], decoded[i])
    OBVIOUS
  <2>1. i - 1 \in 1..Len(decoded) /\ i \in 1..Len(decoded)
    BY <1>1
  <2>2. decoded[i].sequence + (i - 1) = decoded[i - 1].sequence + i
    BY <1>4, <2>1
  <2>3. decoded[i].sequence = decoded[i - 1].sequence + 1
    BY <1>3, <2>1, <2>2
  <2> QED
    BY <1>3, <2>1, <2>3, NextContinues
<1>9. validateBaseWalBoundary(base, decoded)
  <2> SUFFICES ASSUME NEW i \in 1..Len(decoded)
               PROVE /\ decoded[i].sequence = base.sequence => decoded[i] = base
                     /\ decoded[i].sequence + 1 = base.sequence
                          => decoded[i].revisionId = base.parentRevisionId
    BY DEF validateBaseWalBoundary
  <2> QED
    BY <1>2, <1>3, <1>5, NextContinues DEF continues
<1>10. replayIsContinuous(base, decoded)
  <2> DEFINE before(i) == IF i > 1 /\ isReplayed(base, decoded, i - 1)
                            THEN decoded[i - 1] ELSE base
  <2> SUFFICES ASSUME NEW i \in 1..Len(decoded), isReplayed(base, decoded, i)
               PROVE continues(before(i), decoded[i])
    BY DEF replayIsContinuous
  <2>1. CASE i > 1 /\ isReplayed(base, decoded, i - 1)
    BY <1>8, <2>1
  <2>2. CASE i > 1 /\ ~ isReplayed(base, decoded, i - 1)
    <3>1. i - 1 \in 1..Len(decoded)
      BY <1>1, <2>2
    <3>2. decoded[i].sequence = decoded[i - 1].sequence + 1
      BY <1>3, <1>4, <3>1
    <3>3. decoded[i].sequence = base.sequence + 1
      BY <1>2, <1>3, <2>2, <3>1, <3>2 DEF isReplayed
    <3> QED
      BY <1>2, <1>3, <2>2, <3>3, NextContinues
  <2>3. CASE i = 1
    <3>1. decoded[1].sequence <= base.sequence + 1
      BY <2>3, EmptySeq DEF Fits
    <3>2. decoded[i].sequence = base.sequence + 1
      BY <1>2, <1>3, <2>3, <3>1 DEF isReplayed
    <3> QED
      BY <1>2, <1>3, <2>3, <3>2, NextContinues
  <2> QED
    BY <2>1, <2>2, <2>3
<1> QED
  BY <1>6, <1>7, <1>8, <1>9, <1>10 DEF isRecoverable, validateWalStream

(* A record of the next place behind a log that fits is its new end.       *)
LEMMA AppendingFits ==
  ASSUME NEW S \in SUBSET Revision, IsALine(S),
         NEW base, NEW wal \in Frames, Fits(base, decodedRecords(wal), S),
         ~ hasTruncatedTail(wal),
         NEW r \in Revision, continues(recoveredHead(base, wal), r)
  PROVE  Fits(base, decodedRecords(Append(wal, r)), S \cup {r})
<1> DEFINE longer == Append(wal, r)
           top == recoveredHead(base, wal)
<1>1. /\ longer \in Frames
      /\ Len(wal) \in Nat
      /\ Len(longer) = Len(wal) + 1
      /\ longer[Len(wal) + 1] = r
      /\ \A i \in 1..Len(wal) : longer[i] = wal[i]
  BY AppendedProperties, LenProperties DEF Frames
<1>2. decodedRecords(wal) = wal
  BY DEF decodedRecords
<1>3. longer # <<>> /\ longer[Len(longer)] = r
  BY <1>1
<1>4. decodedRecords(longer) = longer
  BY <1>3, RevisionFacts DEF hasTruncatedTail, decodedRecords
<1>5. /\ base \in S
      /\ base.sequence \in Nat
      /\ top \in S
      /\ top.sequence \in Nat
      /\ base.sequence <= top.sequence
      /\ wal = <<>> => top = base
      /\ wal # <<>> => top = wal[Len(wal)]
  BY <1>2, FitEnds, RecoveryEnds, RevisionFacts
<1>6. r.sequence \in Nat /\ r.sequence = top.sequence + 1
  BY RevisionFacts DEF continues
<1>7. Fits(base, longer, S \cup {r})
  <2>1. CASE wal = <<>>
    <3>1. Len(wal) = 0
      BY <2>1, EmptySeq
    <3>2. Len(longer) = 1 /\ longer[1] = r
      BY <1>1, <3>1
    <3>3. \A i \in 1..Len(longer) : i = 1
      BY <3>2
    <3> QED
      BY <1>3, <1>5, <1>6, <2>1, <3>2, <3>3 DEF Fits
  <2>2. CASE wal # <<>>
    <3>1. Len(wal) \in 1..Len(wal) /\ 1 \in 1..Len(wal)
      BY <1>1, <2>2, EmptySeq DEF Frames
    <3>2. /\ wal[1].sequence \in Nat
          /\ wal[Len(wal)].sequence + 1 = wal[1].sequence + Len(wal)
          /\ wal[1].sequence <= base.sequence + 1
          /\ wal[1] = longer[1]
      <4>1. Fits(base, wal, S)
        BY <1>2
      <4>2. \A i, j \in 1..Len(wal) :
              /\ wal[i].sequence \in Nat
              /\ wal[i].sequence + j = wal[j].sequence + i
        BY <4>1, PlacesCountUp
      <4>3. wal[1].sequence \in Nat
        BY <3>1, <4>2
      <4>4. wal[Len(wal)].sequence + 1 = wal[1].sequence + Len(wal)
        BY <3>1, <4>2
      <4>5. wal[1].sequence <= base.sequence + 1
        BY <2>2, <4>1 DEF Fits
      <4>6. wal[1] = longer[1]
        BY <1>1, <3>1
      <4> QED
        BY <4>3, <4>4, <4>5, <4>6
    <3>3. r.sequence + 1 = longer[1].sequence + (Len(wal) + 1)
      <4>1. \A a, b, c, n \in Nat : a = b + 1 /\ b + 1 = c + n => a + 1 = c + (n + 1)
        OBVIOUS
      <4>2. r.sequence = wal[Len(wal)].sequence + 1 /\ wal[Len(wal)].sequence \in Nat
        BY <1>5, <1>6, <2>2
      <4>3. r.sequence + 1 = wal[1].sequence + (Len(wal) + 1)
        BY <1>1, <1>6, <3>2, <4>1, <4>2
      <4> QED
        BY <3>2, <4>3
    <3>4. ASSUME NEW i \in 1..Len(longer)
          PROVE  /\ longer[i] \in S \cup {r}
                 /\ longer[i].sequence + 1 = longer[1].sequence + i
      <4>1. CASE i \in 1..Len(wal)
        BY <1>1, <1>2, <3>2, <4>1 DEF Fits
      <4>2. CASE i = Len(wal) + 1
        BY <1>1, <3>3, <4>2
      <4> QED
        BY <1>1, <4>1, <4>2
    <3> QED
      BY <1>3, <1>5, <1>6, <3>2, <3>4 DEF Fits
  <2> QED
    BY <2>1, <2>2
<1> QED
  BY <1>4, <1>7

(* The base may move on to any Revision the log reaches.                   *)
LEMMA LaterBaseFits ==
  ASSUME NEW S \in SUBSET Revision, IsALine(S),
         NEW base, NEW wal \in Frames, Fits(base, decodedRecords(wal), S),
         NEW later \in S,
         base.sequence <= later.sequence,
         later.sequence <= recoveredHead(base, wal).sequence
  PROVE  Fits(later, decodedRecords(wal), S)
<1> DEFINE decoded == decodedRecords(wal)
<1>1. decoded \in Frames
  BY DecodedIsAPrefix
<1>2. CASE decoded = <<>>
  <2>1. Len(decoded) = 0
    BY <1>2, EmptySeq
  <2> QED
    BY <1>2, <2>1 DEF Fits
<1>3. CASE decoded # <<>>
  <2>1. /\ base.sequence \in Nat
        /\ later.sequence \in Nat
        /\ recoveredHead(base, wal) = decoded[Len(decoded)]
        /\ decoded[1] \in S
        /\ decoded[1].sequence \in Nat
    BY <1>1, <1>3, FitEnds, RecoveryEnds, RevisionFacts DEF Fits
  <2>2. decoded[1].sequence <= base.sequence + 1
    BY <1>3 DEF Fits
  <2> QED
    BY <1>3, <2>1, <2>2 DEF Fits
<1> QED
  BY <1>2, <1>3

(* A log may lose everything up to and including its base.                 *)
LEMMA CompactedFits ==
  ASSUME NEW S \in SUBSET Revision,
         NEW base, NEW wal \in Frames, Fits(base, decodedRecords(wal), S),
         NEW n \in 1..Len(wal), wal[n] = base
  PROVE  Fits(base, decodedRecords(SubSeq(wal, n + 1, Len(wal))), S)
<1> DEFINE decoded == decodedRecords(wal)
           kept == decodedRecords(SubSeq(wal, n + 1, Len(wal)))
<1>1. base \in S /\ base # Torn /\ base.sequence \in Nat
  BY RevisionFacts DEF Fits
<1>2. /\ kept \in Frames
      /\ n \in 1..Len(decoded)
      /\ decoded[n] = base
      /\ Len(kept) = Len(decoded) - n
      /\ \A i \in 1..Len(kept) : /\ n + i \in 1..Len(decoded)
                                 /\ kept[i] = decoded[n + i]
  BY <1>1, CutProperties
<1>3. decoded \in Frames /\ Fits(base, decoded, S)
  BY DecodedIsAPrefix
<1> HIDE DEF kept, decoded
<1>4. decoded # <<>> /\ Len(decoded) \in Nat /\ Len(kept) \in Nat
  BY <1>2, <1>3, EmptySeq, LenProperties DEF Frames
<1>5. \A i, j \in 1..Len(decoded) :
        /\ decoded[i].sequence \in Nat
        /\ decoded[i].sequence + j = decoded[j].sequence + i
  BY <1>3, PlacesCountUp
<1>6. CASE n = Len(decoded)
  <2>1. Len(kept) = 0
    BY <1>2, <1>4, <1>6
  <2>2. kept = <<>>
    BY <1>2, <2>1, EmptySeq DEF Frames
  <2> QED
    BY <1>1, <2>1, <2>2 DEF Fits, kept
<1>7. CASE n < Len(decoded)
  <2>1. 1 \in 1..Len(kept) /\ Len(kept) \in 1..Len(kept)
    BY <1>2, <1>4, <1>7
  <2>2. kept[1] = decoded[n + 1] /\ kept[Len(kept)] = decoded[Len(decoded)]
    <3>1. n + Len(kept) = Len(decoded)
      BY <1>2, <1>4
    <3> QED
      BY <1>2, <2>1, <3>1
  <2>3. ASSUME NEW i \in 1..Len(kept)
        PROVE  /\ kept[i] \in S
               /\ kept[i].sequence + 1 = kept[1].sequence + i
    <3>1. n + i \in 1..Len(decoded) /\ n + 1 \in 1..Len(decoded)
      BY <1>2, <2>1
    <3>2. decoded[n + i].sequence + (n + 1) = decoded[n + 1].sequence + (n + i)
      BY <1>5, <3>1
    <3>3. kept[i].sequence \in Nat /\ kept[1].sequence \in Nat
      BY <1>2, <1>5, <2>1, <3>1
    <3>4. kept[i].sequence + (n + 1) = kept[1].sequence + (n + i)
      BY <1>2, <2>2, <3>2
    <3>5. \A a, b \in Nat : a + (n + 1) = b + (n + i) => a + 1 = b + i
      BY <1>2, <1>4
    <3> QED
      BY <1>2, <1>3, <3>1, <3>3, <3>4, <3>5 DEF Fits
  <2>4. kept[1].sequence = base.sequence + 1
    <3>1. n + 1 \in 1..Len(decoded)
      BY <1>2, <2>1
    <3>2. decoded[n + 1].sequence + n = decoded[n].sequence + (n + 1)
      BY <1>2, <1>5, <3>1
    <3>3. /\ decoded[n + 1].sequence \in Nat
          /\ decoded[n + 1].sequence + n = base.sequence + (n + 1)
      BY <1>2, <1>5, <3>1, <3>2
    <3>4. \A a, b \in Nat : a + n = b + (n + 1) => a = b + 1
      BY <1>2, <1>4
    <3> QED
      BY <1>1, <2>2, <3>3, <3>4
  <2>5. base.sequence <= kept[Len(kept)].sequence
    BY <1>3, <1>4, <2>2 DEF Fits
  <2>6. Fits(base, kept, S)
    BY <1>1, <2>3, <2>4, <2>5 DEF Fits
  <2> QED
    BY <2>6 DEF kept
<1> QED
  BY <1>2, <1>4, <1>6, <1>7

-----------------------------------------------------------------------------
(* Then the two conjuncts, step by step. *)

(* The log and the manifest say what they said.                            *)
LEMMA LogKept ==
  ASSUME LogIsSettled, Settled' = Settled, UNCHANGED manifest,
         decodedRecords(durableWal') = decodedRecords(durableWal)
  PROVE  LogIsSettled'
<1>1. currentBase' = currentBase
  BY DEF currentBase, hasManifest
<1> QED
  BY <1>1 DEF LogIsSettled

(* No step leaves a gap in the log or a foreign record at its end.         *)
LEMMA LogStaysSettled ==
  ASSUME CleanInv, [Next]_vars
  PROVE  LogIsSettled'
<1> USE DEF CleanInv
<1>1. CASE UNCHANGED vars \/ Release
  <2>1. HistoryIsKept /\ UNCHANGED <<durableWal, manifest>>
    BY <1>1, OtherQuietSteps, QuietStepKeeps DEF QuietStep
  <2> QED
    BY <2>1, LogKept DEF HistoryIsKept
<1>2. CASE Crash
  BY <1>2, CrashKeeps, LogKept DEF Crash, HistoryIsKept
<1>3. CASE Compact
  <2>1. PICK n \in 1..Len(durableWal) :
          /\ durableWal[n] = manifest.revision
          /\ durableWal' = SubSeq(durableWal, n + 1, Len(durableWal))
    BY <1>3 DEF Compact
  <2>2. durableWal[n] = currentBase /\ currentBase' = currentBase
    BY <1>3, <2>1 DEF Compact, currentBase, hasManifest
  <2>3. Fits(currentBase, decodedRecords(durableWal'), Settled)
    BY <2>1, <2>2, RestartPointFacts, CompactedFits DEF LogIsSettled
  <2>4. Settled' = Settled
    BY <1>3, CompactKeeps DEF HistoryIsKept
  <2> QED
    BY <2>2, <2>3, <2>4 DEF LogIsSettled
<1>4. ASSUME NEW e \in Epochs, ReadsOrWaits(e)
      PROVE  LogIsSettled'
  <2>1. CASE TruncateTail(e)
    BY <2>1, TruncateTailKeeps, LogKept DEF TruncateTail, HistoryIsKept
  <2>2. CASE ~ TruncateTail(e)
    <3>1. UNCHANGED <<durableWal, manifest>>
      BY <1>4, <2>2
         DEF ReadsOrWaits, Acquire, Recover, ReadBase, ReadWal, Open, FailRecovery,
             Apply, NoticeLostLease, append, FailWal, Checkpoint, writeTemporary,
             fsyncTemporary, validateTemporary, atomicRename, readManifest,
             FailSnapshot, storage, walFiles
    <3> QED
      BY <1>4, <3>1, ReadsOrWaitsKeeps, LogKept DEF HistoryIsKept
  <2> QED
    BY <2>1, <2>2
<1>5. ASSUME NEW e \in Epochs, fsync(e)
      PROVE  LogIsSettled'
  <2>1. /\ walStage[e] = "fsync"
        /\ e = lease.epoch
        /\ durableWal' = volatileWal
    BY <1>5 DEF fsync, fenceHolds, isFenceCurrent
  <2>2. phase[e] = "serving" /\ line[e] # <<>>
    BY <2>1 DEF IInv, AuthorityShape
  <2>3. /\ ~ hasTruncatedTail(durableWal)
        /\ continues(restartPoint, head(e))
        /\ head(e) \in Revision
    BY <2>1, <2>2, LineTypes DEF IInv, LeaseholderIsAtTheTail, AtTheTail
  <2>4. durableWal' = Append(durableWal, head(e))
    BY <2>1 DEF NoForeignTail
  <2>5. Fits(currentBase, decodedRecords(durableWal'), Settled \cup {head(e)})
    BY <2>3, <2>4, RestartPointFacts, AppendingFits DEF LogIsSettled, restartPoint
  <2> QED
    BY <1>5, <2>5, FsyncKeeps DEF LogIsSettled
<1>6. ASSUME NEW e \in Epochs, NEW i \in Indices(e), switchManifest(e, i)
      PROVE  LogIsSettled'
  <2>1. /\ IInv'
        /\ Settled' = Settled
        /\ restartPoint' = restartPoint
        /\ currentBase.sequence <= currentBase'.sequence
        /\ durableWal' = durableWal
    BY <1>6, SwitchManifestKeeps DEF HistoryIsKept, switchManifest, walFiles
  <2>2. currentBase' \in Settled
    BY <2>1 DEF IInv, LogEndsSettled, EndsOn
  <2>3. currentBase'.sequence <= recoveredHead(currentBase, durableWal).sequence
    BY <2>2, RestartPointFacts DEF restartPoint
  <2>4. Fits(currentBase', decodedRecords(durableWal), Settled)
    BY <2>1, <2>2, <2>3, RestartPointFacts, LaterBaseFits DEF LogIsSettled
  <2> QED
    BY <2>1, <2>4 DEF LogIsSettled
<1> QED
  BY <1>1, <1>2, <1>3, <1>4, <1>5, <1>6, StepsOfTheDocument

(* Neither file moves, and nobody starts to wait or to fsync.              *)
LEMMA TailKept ==
  ASSUME NoForeignTail, UNCHANGED <<volatileWal, durableWal>>,
         lease'.epoch = lease.epoch,
         \A e \in Epochs :
           /\ IsWaiting(e)' => IsWaiting(e)
           /\ walStage'[e] = "fsync" => walStage[e] = "fsync" /\ line'[e] = line[e]
  PROVE  NoForeignTail'
BY DEF NoForeignTail, head

(* A quiet step puts nothing behind the durable log.                       *)
LEMMA QuietStepKeepsTail ==
  ASSUME NoForeignTail, QuietStep
  PROVE  NoForeignTail'
<1>1. \A e \in Epochs :
        /\ phase'[e] = phase[e]
        /\ mode'[e] = mode[e] \/ mode'[e] = "read-only"
        /\ \/ walStage'[e] = walStage[e]
           \/ walStage'[e] = "idle" /\ mode'[e] = "read-only"
  BY DEF QuietStep
<1>2. \A e \in Epochs : IsWaiting(e)' => IsWaiting(e)
  BY <1>1 DEF IsWaiting
<1>3. \A e \in Epochs : walStage'[e] = "fsync" => walStage[e] = "fsync"
  BY <1>1
<1>4. UNCHANGED <<volatileWal, durableWal, line>> /\ lease'.epoch = lease.epoch
  BY DEF QuietStep
<1> QED
  BY <1>2, <1>3, <1>4, TailKept

(* The volatile part of the log stays the leaseholder's own, as long as    *)
(* nobody takes the lease over one of another's.                           *)
LEMMA TailStaysOwn ==
  ASSUME CleanInv, [Next]_vars,
         \A e \in Epochs : Acquire(e) => volatileWal = durableWal
  PROVE  NoForeignTail'
<1> USE DEF CleanInv
<1>1. phase \in [Epochs -> {"absent", "reading-base", "reading-wal",
                            "truncating", "opening", "serving", "stopped"}]
  BY PhaseTypes DEF IInv
<1>2. CASE UNCHANGED vars \/ Release
  BY <1>2, OtherQuietSteps, QuietStepKeepsTail
<1>3. CASE Crash
  BY <1>3 DEF Crash, NoForeignTail
<1>4. CASE Compact
  <2>1. /\ volatileWal = durableWal
        /\ volatileWal' = durableWal'
        /\ UNCHANGED <<lease, walStage>>
    BY <1>4 DEF Compact, authority
  <2>2. \A s : s \in Frames => \A r \in Revision : s # Append(s, r)
    <3> SUFFICES ASSUME NEW s \in Frames, NEW r \in Revision, s = Append(s, r)
                 PROVE  FALSE
      OBVIOUS
    <3>1. Len(Append(s, r)) = Len(s) + 1 /\ Len(s) \in Nat
      BY AppendedProperties, LenProperties DEF Frames
    <3> QED
      BY <3>1
  <2>3. \A e \in Epochs : e = lease.epoch => walStage[e] # "fsync"
    <3> SUFFICES ASSUME NEW e \in Epochs, e = lease.epoch, walStage[e] = "fsync"
                 PROVE  FALSE
      OBVIOUS
    <3>1. head(e) \in Revision
      BY LineTypes DEF IInv, AuthorityShape
    <3>2. durableWal = Append(durableWal, head(e))
      BY <2>1 DEF NoForeignTail
    <3> QED
      BY <2>2, <3>1, <3>2, RestartPointFacts
  <2> QED
    BY <2>1, <2>3 DEF NoForeignTail
<1>5. ASSUME NEW e \in Epochs, Acquire(e)
      PROVE  NoForeignTail'
  <2>1. /\ volatileWal = durableWal
        /\ e = lease.epoch + 1
        /\ lease'.epoch = e
        /\ UNCHANGED <<volatileWal, durableWal, walStage>>
    BY <1>5 DEF Acquire, storage, walFiles, authority
  <2>2. walStage[e] = "idle"
    <3>1. lease.epoch \in Nat
      BY DEF IInv, TypeOK
    <3> QED
      BY <2>1, <3>1 DEF IInv, AuthorityShape
  <2> QED
    BY <2>1, <2>2 DEF NoForeignTail
<1>6. ASSUME NEW e \in Epochs,
             \/ ReadBase(e) \/ ReadWal(e) \/ Open(e) \/ FailRecovery(e)
             \/ TruncateTail(e)
      PROVE  NoForeignTail'
  <2>1. /\ phase[e] \in Recovering
        /\ lease' = lease
        /\ walStage' = walStage
        /\ walStage[e] = "idle"
        /\ \A f \in Epochs \ {e} :
             phase'[f] = phase[f] /\ mode'[f] = mode[f] /\ line'[f] = line[f]
    BY <1>1, <1>6 DEF ReadBase, ReadWal, Open, FailRecovery, TruncateTail, authority,
                      Recovering, IInv, AuthorityShape, TypeOK
  <2>2. CASE UNCHANGED <<volatileWal, durableWal>>
    <3>1. \A f \in Epochs : IsWaiting(f)' => IsWaiting(f)
      BY <2>1 DEF IsWaiting
    <3> QED
      BY <2>1, <2>2, <3>1, TailKept
  <2>3. CASE TruncateTail(e)
    <3>1. e = lease.epoch /\ volatileWal' = durableWal'
      BY <2>3 DEF TruncateTail, fenceHolds, isFenceCurrent
    <3> QED
      BY <2>1, <3>1 DEF NoForeignTail
  <2> QED
    BY <1>6, <2>2, <2>3 DEF ReadBase, ReadWal, Open, FailRecovery, storage, walFiles
<1>7. ASSUME NEW e \in Epochs, Apply(e)
      PROVE  NoForeignTail'
  <2>1. /\ phase[e] = "serving"
        /\ mode[e] = "read-write"
        /\ walStage[e] = "idle"
        /\ walStage' = [walStage EXCEPT ![e] = "append"]
        /\ UNCHANGED <<lease, volatileWal, durableWal, phase, mode>>
        /\ \A f \in Epochs \ {e} : line'[f] = line[f]
    BY <1>7 DEF Apply, storage, walFiles, opening, IInv, TypeOK
  <2>2. walStage'[e] = "append" /\ \A f \in Epochs \ {e} : walStage'[f] = walStage[f]
    BY <2>1 DEF IInv, TypeOK
  <2>3. \A f \in Epochs : IsWaiting(f)' => IsWaiting(f)
    BY <2>1, <2>2 DEF IsWaiting
  <2> QED
    BY <2>1, <2>2, <2>3, TailKept
<1>8. ASSUME NEW e \in Epochs, append(e)
      PROVE  NoForeignTail'
  <2>1. /\ walStage[e] = "append"
        /\ e = lease.epoch
        /\ volatileWal' = Append(volatileWal, head(e))
        /\ walStage' = [walStage EXCEPT ![e] = "fsync"]
        /\ UNCHANGED <<lease, durableWal, phase, mode, line>>
    BY <1>8 DEF append, fenceHolds, isFenceCurrent, opening
  <2>2. volatileWal = durableWal
    BY <2>1 DEF NoForeignTail, IsWaiting
  <2>3. walStage'[e] = "fsync" /\ phase[e] = "serving"
    BY <2>1 DEF IInv, TypeOK, AuthorityShape
  <2>4. ~ IsWaiting(e)' /\ head(e)' = head(e)
    BY <2>1, <2>3 DEF IsWaiting, head, Recovering
  <2> QED
    BY <2>1, <2>2, <2>4 DEF NoForeignTail
<1>9. ASSUME NEW e \in Epochs, fsync(e)
      PROVE  NoForeignTail'
  <2>1. /\ e = lease.epoch
        /\ durableWal' = volatileWal
        /\ walStage' = [walStage EXCEPT ![e] = "idle"]
        /\ UNCHANGED <<lease, volatileWal>>
    BY <1>9 DEF fsync, fenceHolds, isFenceCurrent
  <2>2. walStage'[e] = "idle"
    BY <2>1 DEF IInv, TypeOK
  <2> QED
    BY <2>1, <2>2 DEF NoForeignTail
<1>10. ASSUME NEW e \in Epochs, NoticeLostLease(e) \/ FailWal(e)
       PROVE  NoForeignTail'
  BY <1>10, OtherQuietSteps, QuietStepKeepsTail
<1>11. ASSUME NEW e \in Epochs, NEW i \in Indices(e),
              Checkpoint(e, i) \/ CommitSnapshot(e, i)
       PROVE  NoForeignTail'
  <2>1. CASE switchManifest(e, i)
    <3>1. UNCHANGED <<lease, volatileWal, durableWal, phase, mode, walStage, line>>
      BY <2>1 DEF switchManifest, walFiles, opening
    <3>2. \A f \in Epochs : IsWaiting(f)' => IsWaiting(f)
      BY <3>1 DEF IsWaiting
    <3> QED
      BY <3>1, <3>2, TailKept
  <2>2. CASE ~ switchManifest(e, i)
    BY <1>11, <2>2, CommitStepsAreQuiet, QuietStepKeepsTail DEF CommitSnapshot
  <2> QED
    BY <2>1, <2>2
<1> QED
  BY <1>2, <1>3, <1>4, <1>5, <1>6, <1>7, <1>8, <1>9, <1>10, <1>11
     DEF Next, Recover, PersistWal

-----------------------------------------------------------------------------
(* The theorems that need it. *)

(* Whoever takes the lease finds all of the log durable.                   *)
CleanTakeovers ==
  [][\A e \in Epochs : Acquire(e) => volatileWal = durableWal]_vars

(* As long as no Authority opens the document while frames of another sit  *)
(* un-fsynced in the log, recovery would accept what is on disk, whatever  *)
(* crashes and whoever writes when, and reach all that was acknowledged.   *)
(* SurvivingTail shows that the condition is needed.                       *)
THEOREM AckedStaysRecoverable ==
  Spec /\ CleanTakeovers => []AckedIsRecoverable
<1>1. CleanInv /\ [Next]_vars
        /\ [\A e \in Epochs : Acquire(e) => volatileWal = durableWal]_vars
      => CleanInv'
  <2> SUFFICES ASSUME CleanInv, [Next]_vars,
                      [\A e \in Epochs : Acquire(e) => volatileWal = durableWal]_vars
               PROVE  CleanInv'
    OBVIOUS
  <2>1. IInv' /\ LogIsSettled'
    BY NextKeepsIInv, LogStaysSettled DEF CleanInv
  <2>2. CASE \A e \in Epochs : Acquire(e) => volatileWal = durableWal
    BY <2>1, <2>2, TailStaysOwn DEF CleanInv
  <2>3. CASE UNCHANGED vars
    <3>1. NoForeignTail'
      BY <2>3, OtherQuietSteps, QuietStepKeepsTail DEF CleanInv
    <3> QED
      BY <2>1, <3>1 DEF CleanInv
  <2> QED
    BY <2>2, <2>3
<1>2. CleanInv => isRecoverable(currentBase, durableWal)
  BY RestartPointFacts, SettledNames, FitIsRecoverable
     DEF CleanInv, IInv, LogIsSettled
<1>3. AckedIsInStorage /\ isRecoverable(currentBase, durableWal)
        => AckedIsRecoverable
  BY DEF AckedIsRecoverable
<1> QED
  BY <1>1, <1>2, <1>3, Initially, AckedStaysInStorage, PTL DEF Spec, CleanTakeovers

(* The model without such takeovers satisfies the condition.               *)
THEOREM NoSurvivingTailIsEnough ==
  ASSUME ~ TailSurvivesTakeover
  PROVE  Spec => []AckedIsRecoverable
<1>1. ASSUME NEW e \in Epochs
      PROVE  Acquire(e) => volatileWal = durableWal
  BY DEF Acquire
<1>2. TRUE => [\A e \in Epochs : Acquire(e) => volatileWal = durableWal]_vars
  BY <1>1
<1> QED
  BY <1>2, AckedStaysRecoverable, PTL DEF CleanTakeovers

-----------------------------------------------------------------------------
(***************************************************************************)
(* The codec of the records: decode() returns only what was written, takes *)
(* no damage in the middle of a log for a torn tail, and truncates every   *)
(* torn tail that its budget lets it recognise.                            *)
(***************************************************************************)


(* Cell k of the frame of a record. *)
cellOf(record, k) ==
  IF k = 1 THEN [kind |-> "length", of |-> record, n |-> record.size]
  ELSE IF k = 2 THEN [kind |-> "checksum", of |-> record, n |-> 0]
  ELSE [kind |-> "data", of |-> record, n |-> k - HEADER_LENGTH]

frameLength(record) == HEADER_LENGTH + record.size

(* The frames of the written records follow each other without a gap.      *)
FramesFollow ==
  /\ Len(written) <= MaxRecords
  /\ Len(starts) = Len(written) + 1
  /\ starts[1] = 0
  /\ \A i \in 1..Len(written) :
       /\ starts[i + 1] = starts[i] + frameLength(written[i])
       /\ written[i].size <= MaxPayloadLength
  /\ \A i, j \in 1..Len(starts) : i <= j => starts[i] <= starts[j]
  /\ starts[Len(starts)] <= Len(log)

FramesAreIntact ==
  \A i \in 1..Len(written) : i # damaged =>
    \A k \in 1..frameLength(written[i]) :
      log[starts[i] + k] = cellOf(written[i], k)

(* A damaged frame has another length, or a cell that no frame has.        *)
WrongLength(i) ==
  /\ log[starts[i] + 1].kind = "length"
  /\ log[starts[i] + 1].n # written[i].size
  /\ log[starts[i] + 2] = cellOf(written[i], 2)

Noise(i) ==
  /\ log[starts[i] + 1] = cellOf(written[i], 1)
  /\ \E k \in 2..frameLength(written[i]) : log[starts[i] + k].kind = "noise"

DamageShows ==
  damaged # 0 => damaged \in 1..Len(written) /\ (WrongLength(damaged) \/ Noise(damaged))

(* Behind the complete frames there is nothing, or the first cells of a    *)
(* frame that is not complete.                                             *)
TornPart(record) ==
  LET end == starts[Len(starts)]
  IN  /\ record.size <= MaxPayloadLength
      /\ end < Len(log)
      /\ Len(log) < end + frameLength(record)
      /\ \A k \in 1..(Len(log) - end) : log[end + k] = cellOf(record, k)

TailIsTorn ==
  /\ ~torn => Len(log) = starts[Len(starts)]
  /\ torn => \E record \in Records : TornPart(record)

(* decode() stands before a frame, and has returned the frames before it.  *)
DecodedSoFar ==
  /\ Len(records) <= Len(written)
  /\ RecordsAreWritten
  /\ offset = starts[Len(records) + 1]
  /\ verdict = "idle" => records = <<>>

CodecIInv ==
  /\ CodecTypeOK
  /\ FramesFollow
  /\ FramesAreIntact
  /\ DamageShows
  /\ TailIsTorn
  /\ DecodedSoFar
  /\ DamageIsNotATornTail

-----------------------------------------------------------------------------
(* Frames and their cells. *)

(* What the types say of records and lengths. *)
LEMMA RecordFacts ==
  ASSUME NEW record \in Records
  PROVE  /\ record.size \in Nat
         /\ record.size \in Sizes
         /\ record.id \in 1..MaxRecords
         /\ frameLength(record) \in Nat
         /\ frameLength(record) >= 2
         /\ frameLength(record) = record.size + 2
<1>1. record.size \in Sizes /\ record.id \in 1..MaxRecords
  BY DEF Records
<1>2. record.size \in Nat
  BY <1>1, SizesAssumption
<1>3. frameLength(record) = 2 + record.size
  BY DEF frameLength, HEADER_LENGTH
<1> QED
  BY <1>1, <1>2, <1>3

(* Cells of a frame are cells of a log. *)
LEMMA CellFacts ==
  ASSUME NEW record \in Records, NEW k \in 1..frameLength(record)
  PROVE  cellOf(record, k) \in Cells
BY RecordFacts DEF cellOf, Cells, HEADER_LENGTH

(* encode() writes a header of two cells and the payload behind it.        *)
LEMMA FrameIsItsCells ==
  ASSUME NEW record \in Records
  PROVE  /\ frame(record) \in Seq(Cells)
         /\ Len(frame(record)) = frameLength(record)
         /\ \A k \in 1..frameLength(record) : frame(record)[k] = cellOf(record, k)
<1> DEFINE header == <<[kind |-> "length", of |-> record, n |-> record.size],
                       [kind |-> "checksum", of |-> record, n |-> 0]>>
<1>1. record.size \in Nat /\ frameLength(record) = record.size + 2
  BY RecordFacts
<1>2. /\ header \in Seq(Cells)
      /\ Len(header) = 2
      /\ header[1] = cellOf(record, 1)
      /\ header[2] = cellOf(record, 2)
  BY <1>1 DEF Cells, cellOf
<1>3. /\ Data(record) \in Seq(Cells)
      /\ Len(Data(record)) = record.size
      /\ \A k \in 1..record.size : Data(record)[k] = cellOf(record, k + 2)
  <2>1. \A k \in 1..record.size :
          /\ Data(record)[k] = cellOf(record, k + 2)
          /\ Data(record)[k] \in Cells
    BY <1>1 DEF Data, cellOf, Cells, HEADER_LENGTH
  <2>2. Data(record) \in [1..record.size -> Cells]
    BY <2>1 DEF Data
  <2> QED
    BY <1>1, <2>1, <2>2, IsASeq
<1> HIDE DEF header
<1>4. frame(record) = header \o Data(record)
  BY DEF frame, header
<1>5. /\ header \o Data(record) \in Seq(Cells)
      /\ Len(header \o Data(record)) = 2 + record.size
      /\ \A k \in 1..(2 + record.size) :
           (header \o Data(record))[k]
             = IF k <= 2 THEN header[k] ELSE Data(record)[k - 2]
  <2> DEFINE data == Data(record)
  <2> HIDE DEF data
  <2>1. /\ data \in Seq(Cells)
        /\ Len(data) = record.size
    BY <1>3 DEF data
  <2>2. /\ header \o data \in Seq(Cells)
        /\ Len(header \o data) = Len(header) + Len(data)
        /\ \A k \in 1..(Len(header) + Len(data)) :
             (header \o data)[k]
               = IF k <= Len(header) THEN header[k] ELSE data[k - Len(header)]
    BY <1>2, <2>1, ConcatProperties
  <2> QED
    BY <1>2, <2>1, <2>2 DEF data
<1>6. ASSUME NEW k \in 1..frameLength(record)
      PROVE  frame(record)[k] = cellOf(record, k)
  <2>1. CASE k <= 2
    <3>1. k = 1 \/ k = 2
      BY <1>1, <2>1
    <3> QED
      BY <1>1, <1>2, <1>4, <1>5, <2>1, <3>1
  <2>2. CASE k > 2
    <3>1. k - 2 \in 1..record.size /\ (k - 2) + 2 = k
      BY <1>1, <2>2
    <3> QED
      BY <1>1, <1>3, <1>4, <1>5, <2>2, <3>1
  <2> QED
    BY <1>1, <2>1, <2>2
<1>7. frame(record) \in Seq(Cells)
  BY <1>4, <1>5
<1>8. Len(frame(record)) = frameLength(record)
  BY <1>1, <1>4, <1>5
<1> QED
  BY <1>6, <1>7, <1>8

(* What is written behind a log leaves the log as it is.                   *)
LEMMA LogGrows ==
  ASSUME log \in Seq(Cells), NEW cells \in Seq(Cells)
  PROVE  /\ log \o cells \in Seq(Cells)
         /\ Len(log \o cells) = Len(log) + Len(cells)
         /\ \A i \in 1..Len(log) : (log \o cells)[i] = log[i]
         /\ \A k \in 1..Len(cells) : (log \o cells)[Len(log) + k] = cells[k]
<1>1. Len(log) \in Nat /\ Len(cells) \in Nat
  BY LenProperties
<1>2. \A i \in 1..(Len(log) + Len(cells)) :
        (log \o cells)[i] = IF i <= Len(log) THEN log[i] ELSE cells[i - Len(log)]
  BY ConcatProperties
<1>3. \A i \in 1..Len(log) : i \in 1..(Len(log) + Len(cells)) /\ i <= Len(log)
  BY <1>1
<1>4. \A k \in 1..Len(cells) : /\ Len(log) + k \in 1..(Len(log) + Len(cells))
                               /\ ~(Len(log) + k <= Len(log))
                               /\ Len(log) + k - Len(log) = k
  BY <1>1
<1> QED
  BY <1>2, <1>3, <1>4, ConcatProperties

(* Where the frames are. *)
LEMMA Places ==
  ASSUME CodecTypeOK, FramesFollow, NEW i \in 1..Len(written)
  PROVE  /\ written[i] \in Records
         /\ starts[i] \in Nat
         /\ starts[i + 1] = starts[i] + frameLength(written[i])
         /\ starts[i] + frameLength(written[i]) <= Len(log)
         /\ Len(log) \in Nat
         /\ written[i].size <= MaxPayloadLength
<1>1. /\ Len(written) \in Nat
      /\ Len(log) \in Nat
      /\ Len(starts) = Len(written) + 1
  BY LenProperties DEF CodecTypeOK, FramesFollow
<1>2. i \in 1..Len(starts) /\ i + 1 \in 1..Len(starts) /\ Len(starts) \in 1..Len(starts)
      /\ i + 1 <= Len(starts)
  BY <1>1
<1>3. starts[i] \in Nat /\ starts[i + 1] \in Nat /\ starts[Len(starts)] \in Nat
      /\ written[i] \in Records
  BY <1>2, ElementOfSeq DEF CodecTypeOK
<1>4. starts[i + 1] <= starts[Len(starts)] /\ starts[Len(starts)] <= Len(log)
  BY <1>2 DEF FramesFollow
<1>5. starts[i + 1] = starts[i] + frameLength(written[i])
      /\ written[i].size <= MaxPayloadLength
  BY DEF FramesFollow
<1> QED
  BY <1>1, <1>3, <1>4, <1>5

(* The end of the complete frames. *)
LEMMA EndOfFrames ==
  ASSUME CodecTypeOK, FramesFollow
  PROVE  /\ Len(written) \in Nat
         /\ Len(starts) = Len(written) + 1
         /\ starts[Len(starts)] \in Nat
         /\ starts[Len(starts)] <= Len(log)
         /\ Len(log) \in Nat
         /\ \A i \in 1..Len(starts) : starts[i] \in Nat
         /\ \A i \in 1..Len(starts) : starts[i] <= starts[Len(starts)]
<1>1. /\ Len(written) \in Nat
      /\ Len(log) \in Nat
      /\ Len(starts) = Len(written) + 1
  BY LenProperties DEF CodecTypeOK, FramesFollow
<1>2. Len(starts) \in 1..Len(starts)
  BY <1>1
<1>3. \A i \in 1..Len(starts) : starts[i] \in Nat
  BY ElementOfSeq DEF CodecTypeOK
<1>4. \A i \in 1..Len(starts) : i <= Len(starts)
  BY <1>1
<1> QED
  BY <1>1, <1>2, <1>3, <1>4 DEF FramesFollow

(* No two frames share a cell. *)
LEMMA FramesAreApart ==
  ASSUME CodecTypeOK, FramesFollow,
         NEW i \in 1..Len(written), NEW j \in 1..Len(written), i # j,
         NEW m \in 1..frameLength(written[i]), NEW n \in 1..frameLength(written[j])
  PROVE  starts[i] + m # starts[j] + n
<1>1. /\ starts[i] \in Nat /\ starts[j] \in Nat
      /\ starts[i + 1] = starts[i] + frameLength(written[i])
      /\ starts[j + 1] = starts[j] + frameLength(written[j])
      /\ frameLength(written[i]) \in Nat /\ frameLength(written[j]) \in Nat
  BY Places, RecordFacts
<1>2. /\ i \in 1..Len(starts) /\ i + 1 \in 1..Len(starts)
      /\ j \in 1..Len(starts) /\ j + 1 \in 1..Len(starts)
      /\ i + 1 <= j \/ j + 1 <= i
  BY EndOfFrames
<1>3. starts[i + 1] <= starts[j] \/ starts[j + 1] <= starts[i]
  BY <1>2 DEF FramesFollow
<1> QED
  BY <1>1, <1>3

-----------------------------------------------------------------------------
(* What decode() finds where a frame starts. *)

(* An intact frame is read as it was written. *)
LEMMA IntactIsRead ==
  ASSUME CodecTypeOK, FramesFollow, FramesAreIntact,
         NEW i \in 1..Len(written), i # damaged
  PROVE  /\ readLength(starts[i]) = written[i].size
         /\ frameEnd(starts[i]) = starts[i + 1]
         /\ isCompleteFrame(starts[i])
         /\ log[starts[i] + 2].of = written[i]
<1> DEFINE at == starts[i]
           size == written[i].size
<1>1. /\ written[i] \in Records
      /\ at \in Nat
      /\ size \in Nat
      /\ size <= MaxPayloadLength
      /\ Len(log) \in Nat
      /\ starts[i + 1] = at + (size + 2)
      /\ at + (size + 2) <= Len(log)
      /\ frameLength(written[i]) = size + 2
  BY Places, RecordFacts
<1>2. \A k \in 1..(size + 2) : log[at + k] = cellOf(written[i], k)
  BY <1>1 DEF FramesAreIntact
<1> HIDE DEF at, size
<1>3. /\ log[at + 1] = cellOf(written[i], 1)
      /\ log[at + 2] = cellOf(written[i], 2)
  BY <1>1, <1>2
<1>4. /\ readLength(at) = size
      /\ log[at + 2].kind = "checksum"
      /\ log[at + 2].of = written[i]
  BY <1>3 DEF readLength, cellOf, size
<1>5. frameEnd(at) = at + (size + 2)
  BY <1>1, <1>4 DEF frameEnd, HEADER_LENGTH
<1>6. isChecksummed(at)
  BY <1>1, <1>4, <1>5 DEF isChecksummed
<1>7. SubSeq(log, at + 3, at + (size + 2)) = Data(written[i])
  <2> DEFINE read == SubSeq(log, at + 3, at + (size + 2))
  <2>1. \A a, b \in Nat : a + 3 \in 1..(a + (b + 2) + 1) /\ a + (b + 2) >= 0
          /\ a + (b + 2) - (a + 3) + 1 = b
          /\ \A k \in 1..b : a + 3 + k - 1 = a + (k + 2) /\ k + 2 \in 1..(b + 2)
                             /\ k + 2 # 1 /\ k + 2 # 2 /\ k + 2 - 2 = k
    OBVIOUS
  <2>2. at + 3 \in 1..(at + (size + 2) + 1) /\ at + (size + 2) \in 0..Len(log)
    BY <1>1, <2>1
  <2>3. /\ log \in Seq(Cells)
        /\ at + (size + 2) - (at + 3) + 1 = size
    BY <1>1, <2>1 DEF CodecTypeOK
  <2>4. /\ read = [k \in 1..size |-> log[at + 3 + k - 1]]
    BY <1>1, <2>2, <2>3
  <2>5. \A k \in 1..size : log[at + 3 + k - 1] = [kind |-> "data", of |-> written[i], n |-> k]
    BY <1>1, <1>2, <2>1 DEF cellOf, HEADER_LENGTH
  <2> QED
    BY <2>4, <2>5 DEF Data, size
<1>8. checksumFits(at)
  <2>1. at + HEADER_LENGTH + 1 = at + 3
    BY <1>1 DEF HEADER_LENGTH
  <2> QED
    BY <1>4, <1>5, <1>7, <2>1 DEF checksumFits
<1> QED
  BY <1>1, <1>4, <1>5, <1>6, <1>8 DEF isCompleteFrame, at, size

(* A damaged frame never passes for a frame. *)
LEMMA DamageIsSeen ==
  ASSUME CodecTypeOK, FramesFollow, NEW i \in 1..Len(written),
         WrongLength(i) \/ Noise(i), isChecksummed(starts[i])
  PROVE  ~checksumFits(starts[i])
<1> DEFINE at == starts[i]
           size == written[i].size
           length == readLength(at)
           fit == log[at + 2].of
           first == at + 3
           last == at + (length + 2)
           read == SubSeq(log, first, last)
<1>1. /\ written[i] \in Records
      /\ at \in Nat
      /\ size \in Nat
      /\ at + (size + 2) <= Len(log)
      /\ Len(log) \in Nat
      /\ frameLength(written[i]) = size + 2
  BY Places, RecordFacts
<1>2. length \in Nat
  <2>1. at + 1 \in 1..Len(log)
    BY <1>1
  <2>2. log[at + 1] \in Cells
    BY <2>1, ElementOfSeq DEF CodecTypeOK
  <2> QED
    BY <2>2, BoundsAssumption DEF readLength, Cells
<1> HIDE DEF length, at, size, read, first, last
<1>3. SUFFICES ASSUME checksumFits(at) PROVE FALSE
  BY DEF at
<1>4. /\ log[at + 2].kind = "checksum"
      /\ read = Data(fit)
  <2>1. /\ at + HEADER_LENGTH + 1 = at + 3
        /\ frameEnd(at) = at + (length + 2)
    BY <1>1, <1>2 DEF HEADER_LENGTH, frameEnd, length
  <2> QED
    BY <1>3, <2>1 DEF checksumFits, read, first, last
<1>5. /\ DOMAIN read = 1..length
      /\ \A k \in 1..length : read[k] = log[at + (k + 2)]
  <2>1. at + (length + 2) <= Len(log)
    BY <1>1, <1>2 DEF isChecksummed, frameEnd, length, at, HEADER_LENGTH
  <2>2. \A k \in first..last : k \in 1..Len(log)
    BY <1>1, <1>2, <2>1 DEF first, last
  <2>3. first \in Int /\ last \in Int /\ \A k \in first..last : log[k] \in Cells
    BY <1>1, <1>2, <2>2, ElementOfSeq DEF CodecTypeOK, first, last
  <2>4. /\ read \in Seq(Cells)
        /\ Len(read) = IF first <= last THEN last - first + 1 ELSE 0
        /\ \A k \in 1..(last - first + 1) : read[k] = log[first + k - 1]
    BY <2>3, SubSeqProperties DEF read
  <2>5. /\ last - first + 1 = length
        /\ first <= last \/ length = 0
        /\ \A k \in 1..length : first + k - 1 = at + (k + 2)
    BY <1>1, <1>2 DEF first, last
  <2>6. Len(read) = length
    BY <1>2, <2>3, <2>4, <2>5
  <2> QED
    BY <2>4, <2>5, <2>6, LenProperties
<1>6. \A k \in DOMAIN Data(fit) : Data(fit)[k].kind = "data"
  BY DEF Data
<1>7. CASE WrongLength(i)
  <2>1. fit = written[i] /\ length # size
    BY <1>7 DEF WrongLength, readLength, cellOf, fit, length, at, size
  <2>2. DOMAIN Data(fit) = 1..size
    BY <2>1 DEF Data, size
  <2> QED
    BY <1>1, <1>2, <1>4, <1>5, <2>1, <2>2
<1>8. CASE Noise(i)
  <2>1. length = size
    BY <1>8 DEF Noise, readLength, cellOf, length, at, size
  <2>2. PICK k \in 2..(size + 2) : log[at + k].kind = "noise"
    BY <1>1, <1>8 DEF Noise, at
  <2>3. k # 2
    BY <1>4, <2>2
  <2>4. k - 2 \in 1..size /\ (k - 2) + 2 = k
    BY <1>1, <2>2, <2>3
  <2>5. read[k - 2] = log[at + k]
    BY <1>5, <2>1, <2>4
  <2>6. k - 2 \in DOMAIN Data(fit)
    BY <1>4, <1>5, <2>1, <2>4
  <2> QED
    BY <1>4, <1>6, <2>2, <2>5, <2>6
<1> QED
  BY <1>7, <1>8

(* What is left of a frame that is not complete is read with its length,   *)
(* and none of its later cells is read as one.                             *)
LEMMA TornPartIsRead ==
  ASSUME CodecTypeOK, FramesFollow, NEW record \in Records, TornPart(record)
  PROVE  LET end == starts[Len(starts)]
         IN  /\ HEADER_LENGTH <= Len(log) - end =>
                  /\ readLength(end) = record.size
                  /\ frameEnd(end) > Len(log)
             /\ \A at \in (end + HEADER_LENGTH)..(Len(log) - HEADER_LENGTH) :
                  ~isChecksummed(at)
<1> DEFINE end == starts[Len(starts)]
           size == record.size
<1>1. /\ end \in Nat
      /\ Len(log) \in Nat
      /\ size \in Nat
      /\ frameLength(record) = size + 2
      /\ Len(log) < end + (size + 2)
  BY EndOfFrames, RecordFacts DEF TornPart
<1>2. \A k \in 1..(Len(log) - end) : log[end + k] = cellOf(record, k)
  BY DEF TornPart
<1> HIDE DEF end, size
<1>3. ASSUME HEADER_LENGTH <= Len(log) - end
      PROVE  readLength(end) = size /\ frameEnd(end) > Len(log)
  <2>1. log[end + 1] = cellOf(record, 1)
    BY <1>1, <1>2, <1>3 DEF HEADER_LENGTH
  <2>2. readLength(end) = size
    BY <2>1 DEF readLength, cellOf, size
  <2> QED
    BY <1>1, <2>2 DEF frameEnd, HEADER_LENGTH
<1>4. ASSUME NEW at \in (end + HEADER_LENGTH)..(Len(log) - HEADER_LENGTH)
      PROVE  ~isChecksummed(at)
  <2>1. /\ at \in Int
        /\ at + 1 - end \in 1..(Len(log) - end)
        /\ at + 1 - end # 1
        /\ at + 1 - end # 2
        /\ end + (at + 1 - end) = at + 1
    BY <1>1 DEF HEADER_LENGTH
  <2>2. log[at + 1] = cellOf(record, at + 1 - end)
    BY <1>2, <2>1
  <2>3. log[at + 1].kind = "data"
    BY <2>1, <2>2 DEF cellOf
  <2>4. readLength(at) = MaxPayloadLength + 1
    BY <2>3 DEF readLength
  <2>5. MaxPayloadLength \in Nat
    BY BoundsAssumption
  <2> QED
    BY <2>4, <2>5 DEF isChecksummed
<1> QED
  BY <1>3, <1>4 DEF end, size

-----------------------------------------------------------------------------
(* Writing. *)

(* An empty log. *)
LEMMA CodecInitially == CodecInit => CodecIInv
<1> SUFFICES ASSUME CodecInit PROVE CodecIInv
  OBVIOUS
<1> USE DEF CodecInit
<1>1. CodecTypeOK
  <2>1. log \in Seq(Cells) /\ written \in Seq(Records) /\ records \in Seq(Records)
    BY EmptySeq
  <2>2. starts \in Seq(Nat) /\ offset \in 0..Len(log) /\ damaged \in 0..MaxRecords
    BY BoundsAssumption
  <2>3. torn \in BOOLEAN /\ verdict \in {"idle", "reading", "ok", "tail", "corrupt"}
    OBVIOUS
  <2> QED
    BY <2>1, <2>2, <2>3 DEF CodecTypeOK
<1>2. Len(starts) = 1 /\ Len(written) = 0 /\ Len(log) = 0 /\ Len(records) = 0
      /\ starts[1] = 0 /\ 0 <= MaxRecords
  BY BoundsAssumption
<1>3. FramesFollow /\ FramesAreIntact /\ DamageShows /\ TailIsTorn
  BY <1>2 DEF FramesFollow, FramesAreIntact, DamageShows, TailIsTorn
<1>4. DecodedSoFar /\ DamageIsNotATornTail
  BY <1>2 DEF DecodedSoFar, RecordsAreWritten, DamageIsNotATornTail
<1> QED
  BY <1>1, <1>3, <1>4 DEF CodecIInv

(* Before decode() starts it has returned nothing. *)
LEMMA NothingDecoded ==
  ASSUME CodecIInv, verdict = "idle"
  PROVE  /\ records = <<>>
         /\ offset = 0
<1>1. records = <<>> /\ Len(records) = 0
  BY DEF CodecIInv, DecodedSoFar
<1>2. offset = starts[1] /\ starts[1] = 0
  BY <1>1 DEF CodecIInv, DecodedSoFar, FramesFollow
<1> QED
  BY <1>1, <1>2

(* encode() puts a frame behind the others. *)
LEMMA AppendFrameKeeps ==
  ASSUME CodecIInv, NEW size \in Sizes, AppendFrame(size)
  PROVE  CodecIInv'
<1> DEFINE record == [id |-> Len(written) + 1, size |-> size]
           cells == frame(record)
           n == Len(written)
           end == Len(log)
<1>1. /\ CodecTypeOK /\ FramesFollow /\ FramesAreIntact
      /\ verdict = "idle" /\ damaged = 0 /\ ~torn
      /\ records = <<>> /\ offset = 0
  BY NothingDecoded DEF CodecIInv, AppendFrame
<1>2. /\ n \in Nat
      /\ end \in Nat
      /\ Len(starts) = n + 1
      /\ starts[n + 1] = end
      /\ n < MaxRecords
      /\ size <= MaxPayloadLength
  BY <1>1, EndOfFrames DEF AppendFrame, CodecIInv, TailIsTorn
<1>3. record \in Records
  BY <1>2, BoundsAssumption DEF Records
<1>4. /\ cells \in Seq(Cells)
      /\ Len(cells) = frameLength(record)
      /\ \A k \in 1..frameLength(record) : cells[k] = cellOf(record, k)
      /\ frameLength(record) \in Nat
      /\ frameLength(record) >= 2
  BY <1>3, FrameIsItsCells, RecordFacts
<1> HIDE DEF record, cells, n, end
<1>5. /\ log' = log \o cells
      /\ written' = Append(written, record)
      /\ starts' = Append(starts, Len(log'))
      /\ UNCHANGED <<torn, damaged, verdict, offset, records>>
  BY DEF AppendFrame, decoder, record, cells, n
<1>6. /\ log' \in Seq(Cells)
      /\ Len(log') = end + frameLength(record)
      /\ \A i \in 1..end : log'[i] = log[i]
      /\ \A k \in 1..frameLength(record) : log'[end + k] = cellOf(record, k)
  BY <1>1, <1>4, <1>5, LogGrows DEF CodecTypeOK, end
<1>7. /\ written' \in Seq(Records)
      /\ Len(written') = n + 1
      /\ \A i \in 1..n : written'[i] = written[i]
      /\ written'[n + 1] = record
  BY <1>1, <1>3, <1>5, AppendProperties DEF CodecTypeOK, n
<1>8. /\ starts' \in Seq(Nat)
      /\ Len(starts') = n + 2
      /\ \A i \in 1..(n + 1) : starts'[i] = starts[i]
      /\ starts'[n + 2] = end + frameLength(record)
  <2>1. Len(log') \in Nat
    BY <1>2, <1>4, <1>6
  <2>2. /\ starts' \in Seq(Nat)
        /\ Len(starts') = Len(starts) + 1
        /\ \A i \in 1..Len(starts) : starts'[i] = starts[i]
        /\ starts'[Len(starts) + 1] = Len(log')
    BY <1>1, <1>5, <2>1, AppendProperties DEF CodecTypeOK
  <2>3. (n + 1) + 1 = n + 2
    BY <1>2
  <2> QED
    BY <1>2, <1>6, <2>2, <2>3
<1>9. CodecTypeOK'
  BY <1>1, <1>2, <1>4, <1>5, <1>6, <1>7, <1>8 DEF CodecTypeOK
<1>10. \A i \in 1..(n + 1) : starts[i] \in Nat /\ starts[i] <= end
  BY <1>1, <1>2, EndOfFrames
<1>11. FramesFollow'
  <2>1. /\ Len(written') <= MaxRecords
        /\ Len(starts') = Len(written') + 1
        /\ starts'[1] = 0
    <3>1. MaxRecords \in Nat /\ n + 1 <= MaxRecords /\ n + 2 = (n + 1) + 1
          /\ 1 \in 1..(n + 1)
      BY <1>2, BoundsAssumption
    <3>2. starts[1] = 0
      BY <1>1 DEF FramesFollow
    <3> QED
      BY <1>7, <1>8, <3>1, <3>2
  <2>2. ASSUME NEW i \in 1..(n + 1)
        PROVE  /\ starts'[i + 1] = starts'[i] + frameLength(written'[i])
               /\ written'[i].size <= MaxPayloadLength
    <3>1. CASE i \in 1..n
      <4>1. i + 1 \in 1..(n + 1)
        BY <1>2, <3>1
      <4> QED
        BY <1>1, <1>2, <1>7, <1>8, <3>1, <4>1 DEF FramesFollow, n
    <3>2. CASE i = n + 1
      <4>1. i + 1 = n + 2
        BY <1>2, <3>2
      <4> QED
        BY <1>2, <1>7, <1>8, <3>2, <4>1 DEF record
    <3> QED
      BY <1>2, <3>1, <3>2
  <2>3. ASSUME NEW i \in 1..(n + 2), NEW j \in 1..(n + 2), i <= j
        PROVE  starts'[i] <= starts'[j]
    <3>1. CASE j \in 1..(n + 1)
      <4>1. i \in 1..(n + 1)
        BY <1>2, <2>3, <3>1
      <4> QED
        BY <1>1, <1>2, <1>8, <2>3, <3>1, <4>1 DEF FramesFollow
    <3>2. CASE j = n + 2 /\ i \in 1..(n + 1)
      BY <1>2, <1>4, <1>8, <1>10, <3>2
    <3>3. CASE j = n + 2 /\ i = n + 2
      BY <1>2, <1>4, <1>8, <3>3
    <3> QED
      BY <1>2, <3>1, <3>2, <3>3
  <2>4. starts'[Len(starts')] <= Len(log')
    BY <1>2, <1>4, <1>6, <1>8
  <2> QED
    BY <1>7, <1>8, <2>1, <2>2, <2>3, <2>4 DEF FramesFollow
<1>12. FramesAreIntact'
  <2> SUFFICES ASSUME NEW i \in 1..(n + 1), NEW k \in 1..frameLength(written'[i])
               PROVE  log'[starts'[i] + k] = cellOf(written'[i], k)
    BY <1>7 DEF FramesAreIntact
  <2>1. CASE i \in 1..n
    <3>1. /\ starts[i] \in Nat
          /\ starts[i] + frameLength(written[i]) <= end
          /\ frameLength(written[i]) \in Nat
      BY <1>1, <2>1, Places, RecordFacts DEF n, end
    <3>2. starts'[i] = starts[i] /\ written'[i] = written[i]
      BY <1>2, <1>7, <1>8, <2>1
    <3>3. starts[i] + k \in 1..end
      BY <1>2, <3>1, <3>2
    <3>4. i # damaged
      BY <1>1, <1>2, <2>1
    <3> QED
      BY <1>1, <1>6, <2>1, <3>2, <3>3, <3>4 DEF FramesAreIntact, n
  <2>2. CASE i = n + 1
    BY <1>2, <1>6, <1>7, <1>8, <2>2
  <2> QED
    BY <1>2, <2>1, <2>2
<1>13. DamageShows' /\ TailIsTorn'
  BY <1>1, <1>2, <1>5, <1>6, <1>8 DEF DamageShows, TailIsTorn
<1>14. DecodedSoFar' /\ DamageIsNotATornTail'
  <2>1. /\ Len(records') = 0
        /\ starts'[1] = 0
        /\ verdict' = "idle"
    BY <1>1, <1>2, <1>5, <1>8 DEF FramesFollow
  <2> QED
    BY <1>1, <1>2, <1>5, <1>7, <2>1
       DEF DecodedSoFar, RecordsAreWritten, DamageIsNotATornTail
<1> QED
  BY <1>9, <1>11, <1>12, <1>13, <1>14 DEF CodecIInv

(* A crash leaves part of one. *)
LEMMA TearKeeps ==
  ASSUME CodecIInv, NEW size \in Sizes, NEW n \in 1..(MaxPayloadLength + 1), Tear(size, n)
  PROVE  CodecIInv'
<1> DEFINE record == [id |-> Len(written) + 1, size |-> size]
           cells == SubSeq(frame(record), 1, n)
           end == Len(log)
<1>1. /\ CodecTypeOK /\ FramesFollow /\ FramesAreIntact
      /\ verdict = "idle" /\ damaged = 0 /\ ~torn
      /\ records = <<>> /\ offset = 0
  BY NothingDecoded DEF CodecIInv, Tear
<1>2. /\ Len(written) \in Nat
      /\ end \in Nat
      /\ starts[Len(starts)] = end
      /\ Len(written) < MaxRecords
      /\ size <= MaxPayloadLength
      /\ n < frameLength(record)
  BY <1>1, EndOfFrames DEF Tear, CodecIInv, TailIsTorn, frameLength
<1>3. record \in Records
  BY <1>2, BoundsAssumption DEF Records
<1>4. /\ cells \in Seq(Cells)
      /\ Len(cells) = n
      /\ \A k \in 1..n : cells[k] = cellOf(record, k)
      /\ n \in Nat /\ n >= 1
  <2>1. /\ frame(record) \in Seq(Cells)
        /\ Len(frame(record)) = frameLength(record)
        /\ \A k \in 1..frameLength(record) : frame(record)[k] = cellOf(record, k)
        /\ frameLength(record) \in Nat
    BY <1>3, FrameIsItsCells, RecordFacts
  <2>2. n \in Nat /\ n >= 1 /\ n \in Int /\ 1 \in Int
    BY BoundsAssumption
  <2>3. \A k \in 1..n : k \in 1..frameLength(record)
    BY <1>2, <2>1, <2>2
  <2>4. \A k \in 1..n : frame(record)[k] \in Cells
    BY <2>1, <2>3, ElementOfSeq
  <2>5. /\ cells \in Seq(Cells)
        /\ Len(cells) = IF 1 <= n THEN n - 1 + 1 ELSE 0
        /\ \A k \in 1..(n - 1 + 1) : cells[k] = frame(record)[1 + k - 1]
    <3> HIDE DEF record
    <3> QED
      BY <2>2, <2>4, SubSeqProperties
  <2>6. n - 1 + 1 = n /\ \A k \in 1..n : 1 + k - 1 = k
    BY <2>2
  <2> QED
    BY <2>1, <2>2, <2>3, <2>5, <2>6
<1> HIDE DEF record, cells, end
<1>5. /\ log' = log \o cells
      /\ torn' = TRUE
      /\ UNCHANGED <<written, starts, damaged, verdict, offset, records>>
  BY DEF Tear, decoder, record, cells
<1>6. /\ log' \in Seq(Cells)
      /\ Len(log') = end + n
      /\ \A i \in 1..end : log'[i] = log[i]
      /\ \A k \in 1..n : log'[end + k] = cellOf(record, k)
  BY <1>1, <1>4, <1>5, LogGrows DEF CodecTypeOK, end
<1>7. CodecTypeOK'
  <2>1. offset' \in 0..Len(log')
    BY <1>1, <1>2, <1>4, <1>5, <1>6
  <2> QED
    BY <1>1, <1>5, <1>6, <2>1 DEF CodecTypeOK
<1>8. FramesFollow'
  BY <1>1, <1>2, <1>4, <1>5, <1>6 DEF FramesFollow
<1>9. FramesAreIntact'
  <2> SUFFICES ASSUME NEW i \in 1..Len(written), NEW k \in 1..frameLength(written[i])
               PROVE  log'[starts[i] + k] = cellOf(written[i], k)
    BY <1>5 DEF FramesAreIntact
  <2>1. /\ starts[i] \in Nat
        /\ starts[i] + frameLength(written[i]) <= end
        /\ frameLength(written[i]) \in Nat
    BY <1>1, Places, RecordFacts DEF end
  <2>2. starts[i] + k \in 1..end
    BY <1>2, <2>1
  <2>3. i # damaged
    BY <1>1, <1>2
  <2> QED
    BY <1>1, <1>6, <2>2, <2>3 DEF FramesAreIntact
<1>10. DamageShows' /\ TailIsTorn'
  <2>1. PICK r \in Records : r = record
    BY <1>3
  <2>2. TornPart(r)'
    <3>1. r.size = size
      BY <2>1 DEF record
    <3>2. end + n - end = n /\ end < end + n /\ end + n < end + frameLength(record)
      BY <1>2, <1>3, <1>4, RecordFacts
    <3>3. starts'[Len(starts')] = end /\ Len(log') = end + n
      BY <1>2, <1>5, <1>6
    <3>4. r.size <= MaxPayloadLength
      BY <1>2, <3>1
    <3>5. \A k \in 1..(Len(log') - end) : log'[end + k] = cellOf(record, k)
      <4>1. Len(log') - end = n
        BY <1>2, <1>4, <3>3
      <4> QED
        BY <1>6, <4>1
    <3>6. end < Len(log') /\ Len(log') < end + frameLength(record)
      BY <3>2, <3>3
    <3> QED
      BY <2>1, <3>3, <3>4, <3>5, <3>6 DEF TornPart
  <2> QED
    BY <1>1, <1>5, <2>2 DEF DamageShows, TailIsTorn
<1>11. DecodedSoFar' /\ DamageIsNotATornTail'
  BY <1>1, <1>5 DEF CodecIInv, DecodedSoFar, RecordsAreWritten, DamageIsNotATornTail
<1> QED
  BY <1>7, <1>8, <1>9, <1>10, <1>11 DEF CodecIInv

(* Damage changes one cell of one frame, and nothing else changes.         *)
LEMMA DamageKeeps ==
  ASSUME CodecIInv, NEW d \in 1..Len(written), NEW n \in 0..(MaxPayloadLength + 1),
         NEW k \in 1..(HEADER_LENGTH + written[d].size), Damage(d, k, n)
  PROVE  CodecIInv'
<1> DEFINE at == starts[d] + k
<1>1. /\ CodecTypeOK /\ FramesFollow /\ FramesAreIntact
      /\ verdict = "idle" /\ damaged = 0
      /\ records = <<>> /\ offset = 0
  BY NothingDecoded DEF CodecIInv, Damage
<1>2. /\ written[d] \in Records
      /\ starts[d] \in Nat
      /\ starts[d] + frameLength(written[d]) <= Len(log)
      /\ Len(log) \in Nat
      /\ frameLength(written[d]) \in Nat
      /\ frameLength(written[d]) >= 2
  BY <1>1, Places, RecordFacts
<1>3. k \in 1..frameLength(written[d])
  BY DEF frameLength
<1>4. at \in 1..Len(log)
  BY <1>2, <1>3
<1>5. n \in Nat
  BY BoundsAssumption
<1>6. /\ log' = IF k = 1 THEN [log EXCEPT ![at].n = n]
                         ELSE [log EXCEPT ![at].kind = "noise"]
      /\ log' # log
      /\ damaged' = d
      /\ UNCHANGED <<written, starts, torn, verdict, offset, records>>
  BY DEF Damage, decoder
<1> HIDE DEF at
<1>7. /\ log[at] \in Cells
      /\ log[at] = cellOf(written[d], k)
  <2>1. log[at] \in Cells
    BY <1>1, <1>4, ElementOfSeq DEF CodecTypeOK
  <2>2. log[at] = cellOf(written[d], k)
    BY <1>1, <1>3 DEF FramesAreIntact, at
  <2> QED
    BY <2>1, <2>2
<1> DEFINE cell == IF k = 1 THEN [log[at] EXCEPT !.n = n]
                            ELSE [log[at] EXCEPT !.kind = "noise"]
<1>8. cell \in Cells
  BY <1>5, <1>7 DEF Cells
<1>9. log' = [log EXCEPT ![at] = cell]
  BY <1>6
<1> HIDE DEF cell
<1>10. /\ log' \in Seq(Cells)
       /\ Len(log') = Len(log)
       /\ \A i \in 1..Len(log) : log'[i] = IF i = at THEN cell ELSE log[i]
  BY <1>1, <1>4, <1>8, <1>9, ExceptSeq DEF CodecTypeOK
<1>11. CodecTypeOK'
  <2>1. damaged' \in 0..MaxRecords
    <3>1. Len(written) \in Nat /\ Len(written) <= MaxRecords
      BY <1>1, EndOfFrames DEF FramesFollow
    <3> QED
      BY <1>6, <3>1, BoundsAssumption
  <2> QED
    BY <1>1, <1>6, <1>10, <2>1 DEF CodecTypeOK
<1>12. FramesFollow'
  BY <1>1, <1>6, <1>10 DEF FramesFollow
<1>13. FramesAreIntact'
  <2> SUFFICES ASSUME NEW i \in 1..Len(written), i # d,
                      NEW j \in 1..frameLength(written[i])
               PROVE  log'[starts[i] + j] = cellOf(written[i], j)
    BY <1>6 DEF FramesAreIntact
  <2>1. starts[i] + j # starts[d] + k
    BY <1>1, <1>3, FramesAreApart
  <2>2. /\ starts[i] \in Nat
        /\ starts[i] + frameLength(written[i]) <= Len(log)
        /\ frameLength(written[i]) \in Nat
    BY <1>1, Places, RecordFacts
  <2>3. starts[i] + j \in 1..Len(log)
    BY <1>2, <2>2
  <2>4. log'[starts[i] + j] = log[starts[i] + j]
    BY <1>10, <2>1, <2>3 DEF at
  <2>5. i # damaged
    BY <1>1
  <2> QED
    BY <1>1, <2>4, <2>5 DEF FramesAreIntact
<1>14. DamageShows'
  <2>1. \A j \in 1..frameLength(written[d]) :
          /\ starts[d] + j \in 1..Len(log)
          /\ j # k => starts[d] + j # at
          /\ log[starts[d] + j] = cellOf(written[d], j)
    BY <1>1, <1>2, <1>3 DEF at, FramesAreIntact
  <2>2. 1 \in 1..frameLength(written[d]) /\ 2 \in 1..frameLength(written[d])
    BY <1>2
  <2>3. log'[at] = cell
    BY <1>4, <1>10
  <2>4. CASE k = 1
    <3>1. log[at].kind = "length" /\ log[at].n = written[d].size
      BY <1>7, <2>4 DEF cellOf
    <3>2. cell # log[at]
      BY <1>1, <1>4, <1>6, <1>9 DEF CodecTypeOK
    <3>3. cell.kind = "length" /\ cell.n = n /\ n # written[d].size
      BY <1>7, <2>4, <3>1, <3>2 DEF cell, Cells
    <3>4. log'[starts[d] + 2] = cellOf(written[d], 2)
      BY <1>10, <2>1, <2>2, <2>4
    <3>5. WrongLength(d)'
      BY <1>6, <2>3, <2>4, <3>3, <3>4 DEF WrongLength, at
    <3> QED
      BY <1>6, <3>5 DEF DamageShows
  <2>5. CASE k # 1
    <3>1. cell.kind = "noise"
      BY <1>7, <2>5 DEF cell, Cells
    <3>2. log'[starts[d] + 1] = cellOf(written[d], 1)
      BY <1>10, <2>1, <2>2, <2>5
    <3>3. k \in 2..frameLength(written[d])
      BY <1>2, <1>3, <2>5
    <3>4. log'[starts[d] + k].kind = "noise"
      BY <2>3, <3>1 DEF at
    <3>5. Noise(d)'
      BY <1>6, <3>2, <3>3, <3>4 DEF Noise
    <3> QED
      BY <1>6, <3>5 DEF DamageShows
  <2> QED
    BY <2>4, <2>5
<1>15. TailIsTorn'
  <2>1. /\ starts[Len(starts)] \in Nat
        /\ at <= starts[Len(starts)]
    <3>1. d + 1 \in 1..Len(starts) /\ \A i \in 1..Len(starts) : starts[i] \in Nat
          /\ starts[Len(starts)] \in Nat
          /\ starts[d + 1] <= starts[Len(starts)]
      BY <1>1, EndOfFrames
    <3>2. starts[d + 1] = starts[d] + frameLength(written[d])
      BY <1>1, Places
    <3> QED
      BY <1>2, <1>3, <3>1, <3>2 DEF at
  <2>2. ASSUME NEW record \in Records, TornPart(record)
        PROVE  TornPart(record)'
    <3>1. \A j \in 1..(Len(log) - starts[Len(starts)]) :
            /\ starts[Len(starts)] + j \in 1..Len(log)
            /\ starts[Len(starts)] + j # at
      <4>1. \A a, b, c \in Nat : a <= b =>
              \A j \in 1..(c - b) : b + j \in 1..c /\ b + j # a
        OBVIOUS
      <4>2. at \in Nat
        BY <1>2, <1>4
      <4> QED
        BY <1>2, <2>1, <4>1, <4>2
    <3>2. \A j \in 1..(Len(log) - starts[Len(starts)]) :
            log'[starts[Len(starts)] + j] = log[starts[Len(starts)] + j]
      BY <1>10, <3>1
    <3> QED
      BY <1>6, <1>10, <2>2, <3>2 DEF TornPart
  <2> QED
    BY <1>6, <1>10, <2>2 DEF CodecIInv, TailIsTorn
<1>16. DecodedSoFar' /\ DamageIsNotATornTail'
  <2>1. Len(records) = 0
    BY <1>1
  <2> QED
    BY <1>1, <1>6, <2>1 DEF CodecIInv, DecodedSoFar, RecordsAreWritten, DamageIsNotATornTail
<1> QED
  BY <1>11, <1>12, <1>13, <1>14, <1>15, <1>16 DEF CodecIInv

-----------------------------------------------------------------------------
(* decode() *)

(* Reading leaves the log, and what is known of it, as they are.           *)
LEMMA LogStays ==
  ASSUME CodecIInv, UNCHANGED <<log, written, starts, torn, damaged>>
  PROVE  FramesFollow' /\ FramesAreIntact' /\ DamageShows' /\ TailIsTorn'
<1>1. FramesFollow' /\ FramesAreIntact'
  BY DEF CodecIInv, FramesFollow, FramesAreIntact
<1>2. DamageShows'
  BY DEF CodecIInv, DamageShows, WrongLength, Noise
<1>3. TailIsTorn'
  BY DEF CodecIInv, TailIsTorn, TornPart
<1> QED
  BY <1>1, <1>2, <1>3

(* Where decode() stands: before a frame, or behind the last one, where    *)
(* what it finds is not a frame.                                           *)
LEMMA Standing ==
  ASSUME CodecIInv
  PROVE  /\ offset \in Nat
         /\ Len(records) \in Nat
         /\ Len(records) < Len(written) => Len(records) + 1 \in 1..Len(written)
         /\ Len(records) >= Len(written) =>
              /\ records = written
              /\ offset = starts[Len(starts)]
              /\ torn <=> remaining(offset) > 0
              /\ remaining(offset) >= HEADER_LENGTH =>
                   /\ readLength(offset) <= MaxPayloadLength
                   /\ frameEnd(offset) > Len(log)
<1>1. CodecTypeOK /\ FramesFollow
  BY DEF CodecIInv
<1>2. /\ Len(written) \in Nat
      /\ Len(starts) = Len(written) + 1
      /\ starts[Len(starts)] \in Nat
      /\ starts[Len(starts)] <= Len(log)
      /\ Len(log) \in Nat
  BY <1>1, EndOfFrames
<1>3. /\ Len(records) \in Nat
      /\ Len(records) <= Len(written)
      /\ offset = starts[Len(records) + 1]
      /\ offset \in Nat
      /\ records \in Seq(Records)
      /\ written \in Seq(Records)
  BY <1>1, <1>2, LenProperties DEF CodecIInv, DecodedSoFar, CodecTypeOK
<1>4. ASSUME Len(records) >= Len(written)
      PROVE  /\ records = written
             /\ offset = starts[Len(starts)]
             /\ torn <=> remaining(offset) > 0
             /\ remaining(offset) >= HEADER_LENGTH =>
                  /\ readLength(offset) <= MaxPayloadLength
                  /\ frameEnd(offset) > Len(log)
  <2>1. Len(records) = Len(written)
    BY <1>2, <1>3, <1>4
  <2>2. records = written
    <3>1. \A i \in 1..Len(records) : records[i] = written[i]
      BY DEF CodecIInv, DecodedSoFar, RecordsAreWritten
    <3> QED
      BY <1>3, <2>1, <3>1, SeqEqual
  <2>3. offset = starts[Len(starts)]
    BY <1>2, <1>3, <2>1
  <2>4. CASE ~torn
    <3>1. remaining(offset) = 0
      BY <1>2, <2>3, <2>4 DEF CodecIInv, TailIsTorn, remaining
    <3> QED
      BY <2>2, <2>3, <2>4, <3>1 DEF HEADER_LENGTH
  <2>5. CASE torn
    <3>1. PICK record \in Records : TornPart(record)
      BY <2>5 DEF CodecIInv, TailIsTorn
    <3>2. remaining(offset) > 0 /\ record.size <= MaxPayloadLength
      BY <1>2, <2>3, <3>1 DEF TornPart, remaining
    <3>3. HEADER_LENGTH <= Len(log) - offset =>
            readLength(offset) = record.size /\ frameEnd(offset) > Len(log)
      BY <1>1, <2>3, <3>1, TornPartIsRead
    <3>4. remaining(offset) >= HEADER_LENGTH => HEADER_LENGTH <= Len(log) - offset
      BY <1>2, <1>3 DEF remaining, HEADER_LENGTH
    <3> QED
      BY <2>2, <2>3, <2>5, <3>2, <3>3, <3>4
  <2> QED
    BY <2>4, <2>5
<1>5. Len(records) < Len(written) => Len(records) + 1 \in 1..Len(written)
  BY <1>2, <1>3
<1> QED
  BY <1>3, <1>4, <1>5

(* There is room for a header before every frame that is still to come.    *)
LEMMA FrameAhead ==
  ASSUME CodecIInv, Len(records) < Len(written)
  PROVE  LET i == Len(records) + 1
         IN  /\ i \in 1..Len(written)
             /\ offset = starts[i]
             /\ remaining(offset) >= HEADER_LENGTH
             /\ i # damaged => /\ isCompleteFrame(offset)
                               /\ readLength(offset) <= MaxPayloadLength
                               /\ frameEnd(offset) <= Len(log)
<1> DEFINE i == Len(records) + 1
<1>1. i \in 1..Len(written) /\ offset = starts[i]
  BY Standing DEF CodecIInv, DecodedSoFar
<1> HIDE DEF i
<1>2. /\ starts[i] \in Nat
      /\ starts[i] + frameLength(written[i]) <= Len(log)
      /\ Len(log) \in Nat
      /\ written[i].size <= MaxPayloadLength
      /\ frameLength(written[i]) \in Nat
      /\ frameLength(written[i]) >= 2
  BY <1>1, Places, RecordFacts DEF CodecIInv
<1>3. remaining(offset) >= HEADER_LENGTH
  BY <1>1, <1>2 DEF remaining, HEADER_LENGTH
<1>4. i # damaged => /\ isCompleteFrame(offset)
                     /\ readLength(offset) <= MaxPayloadLength
                     /\ frameEnd(offset) <= Len(log)
  BY <1>1, IntactIsRead DEF CodecIInv, isCompleteFrame, isChecksummed
<1> QED
  BY <1>1, <1>3, <1>4 DEF i

(* The ends of decode(), and its start. *)
LEMMA EndKeeps ==
  ASSUME CodecIInv, NEW result \in {"reading", "ok", "tail", "corrupt"},
         UNCHANGED <<log, written, starts, torn, damaged, offset, records>>,
         verdict' = result,
         result \in {"ok", "tail"} => DamageIsNotATornTail'
  PROVE  CodecIInv'
<1>1. CodecTypeOK'
  BY DEF CodecIInv, CodecTypeOK
<1>2. DecodedSoFar'
  BY DEF CodecIInv, DecodedSoFar, RecordsAreWritten
<1>3. DamageIsNotATornTail'
  BY DEF DamageIsNotATornTail
<1> QED
  BY <1>1, <1>2, <1>3, LogStays DEF CodecIInv

(* decode() ends without an error only where no complete frame is ahead,   *)
(* or one whose own length is damaged and that is the last.                *)
LEMMA EndsAreRight ==
  ASSUME CodecIInv, verdict = "reading",
         \/ remaining(offset) = 0
         \/ remaining(offset) \in 1..(HEADER_LENGTH - 1)
         \/ /\ remaining(offset) >= HEADER_LENGTH
            /\ frameEnd(offset) > Len(log)
            /\ ~resyncs(offset + HEADER_LENGTH)
  PROVE  \/ records = written
         \/ damaged = Len(written) /\ Len(records) = Len(written) - 1
<1> SUFFICES ASSUME Len(records) < Len(written)
             PROVE  damaged = Len(written) /\ Len(records) = Len(written) - 1
  <2>1. Len(written) \in Nat /\ Len(records) \in Nat
    BY LenProperties DEF CodecIInv, CodecTypeOK
  <2> QED
    BY <2>1, Standing
<1> DEFINE i == Len(records) + 1
<1>1. /\ i \in 1..Len(written)
      /\ offset = starts[i]
      /\ remaining(offset) >= HEADER_LENGTH
      /\ i # damaged => frameEnd(offset) <= Len(log)
  BY FrameAhead
<1>2. Len(written) \in Nat /\ Len(log) \in Nat /\ offset \in Nat /\ Len(records) \in Nat
  BY EndOfFrames, Standing DEF CodecIInv
<1>3. frameEnd(offset) > Len(log) /\ ~resyncs(offset + HEADER_LENGTH)
  BY <1>1, <1>2 DEF remaining, HEADER_LENGTH
<1>4. i = damaged
  <2>1. readLength(offset) \in Int
    <3>1. offset + 1 \in 1..Len(log)
      BY <1>1, <1>2 DEF remaining, HEADER_LENGTH
    <3>2. log[offset + 1] \in Cells
      BY <3>1, ElementOfSeq DEF CodecIInv, CodecTypeOK
    <3> QED
      BY <3>2, BoundsAssumption DEF readLength, Cells
  <2>2. frameEnd(offset) \in Int
    BY <1>2, <2>1 DEF frameEnd, HEADER_LENGTH
  <2> QED
    BY <1>1, <1>2, <1>3, <2>2
<1>5. ASSUME i < Len(written) PROVE FALSE
  <2>1. i + 1 \in 1..Len(written) /\ i + 1 # damaged
    BY <1>1, <1>2, <1>4, <1>5
  <2>2. isCompleteFrame(starts[i + 1])
    BY <2>1, IntactIsRead DEF CodecIInv
  <2>3. /\ starts[i + 1] = offset + frameLength(written[i])
        /\ frameLength(written[i]) \in Nat
        /\ frameLength(written[i]) >= 2
    BY <1>1, Places, RecordFacts DEF CodecIInv
  <2>4. /\ starts[i + 1] \in Nat
        /\ starts[i + 1] + frameLength(written[i + 1]) <= Len(log)
        /\ frameLength(written[i + 1]) \in Nat
        /\ frameLength(written[i + 1]) >= 2
    BY <2>1, Places, RecordFacts DEF CodecIInv
  <2>5. starts[i + 1] \in candidates(offset + HEADER_LENGTH)
    BY <1>2, <2>3, <2>4 DEF candidates, HEADER_LENGTH
  <2> QED
    BY <1>3, <2>2, <2>5 DEF resyncs
<1> QED
  BY <1>1, <1>2, <1>4, <1>5

(* Each branch of decode() that returns. *)
LEMMA EndsKeep ==
  ASSUME CodecIInv, AtEnd \/ IncompleteHeader \/ InvalidLength \/ IncompletePayload \/ Start
  PROVE  CodecIInv'
<1>1. ASSUME NEW result \in {"ok", "tail"}, End(result), verdict = "reading",
             \/ remaining(offset) = 0
             \/ remaining(offset) \in 1..(HEADER_LENGTH - 1)
             \/ /\ remaining(offset) >= HEADER_LENGTH
                /\ frameEnd(offset) > Len(log)
                /\ ~resyncs(offset + HEADER_LENGTH)
      PROVE  CodecIInv'
  <2>1. \/ records = written
        \/ damaged = Len(written) /\ Len(records) = Len(written) - 1
    BY <1>1, EndsAreRight
  <2>2. DamageIsNotATornTail'
    BY <1>1, <2>1 DEF DamageIsNotATornTail, End
  <2> QED
    BY <1>1, <2>2, EndKeeps DEF End
<1>2. ASSUME End("corrupt") PROVE CodecIInv'
  BY <1>2, EndKeeps DEF End
<1>3. CASE AtEnd
  BY <1>1, <1>3 DEF AtEnd
<1>4. CASE IncompleteHeader
  BY <1>1, <1>4 DEF IncompleteHeader
<1>5. CASE InvalidLength
  BY <1>2, <1>5 DEF InvalidLength
<1>6. CASE IncompletePayload
  BY <1>1, <1>2, <1>6 DEF IncompletePayload
<1>7. CASE Start
  BY <1>7, EndKeeps DEF Start
<1> QED
  BY <1>3, <1>4, <1>5, <1>6, <1>7

(* The branch that pushes a record and goes on, if the checksum fits.      *)
LEMMA CompletePayloadKeeps ==
  ASSUME CodecIInv, CompletePayload
  PROVE  CodecIInv'
<1>1. CASE ~checksumFits(offset)
  <2>1. verdict' = "corrupt"
        /\ UNCHANGED <<log, written, starts, torn, damaged, offset, records>>
    BY <1>1 DEF CompletePayload
  <2> QED
    BY <2>1, EndKeeps
<1>2. CASE checksumFits(offset)
  <2> DEFINE i == Len(records) + 1
  <2>1. /\ verdict = "reading"
        /\ isChecksummed(offset)
        /\ remaining(offset) >= HEADER_LENGTH
        /\ frameEnd(offset) <= Len(log)
        /\ records' = Append(records, log[offset + 2].of)
        /\ offset' = frameEnd(offset)
        /\ UNCHANGED <<log, written, starts, torn, damaged, verdict>>
    BY <1>2 DEF CompletePayload, isChecksummed
  <2>2. /\ Len(written) \in Nat /\ Len(log) \in Nat /\ offset \in Nat
        /\ Len(records) \in Nat
    BY EndOfFrames, Standing DEF CodecIInv
  <2>3. Len(records) < Len(written)
    <3>1. readLength(offset) \in Int
      <4>1. offset + 1 \in 1..Len(log)
        BY <2>1, <2>2 DEF remaining, HEADER_LENGTH
      <4>2. log[offset + 1] \in Cells
        BY <4>1, ElementOfSeq DEF CodecIInv, CodecTypeOK
      <4> QED
        BY <4>2, BoundsAssumption DEF readLength, Cells
    <3>2. frameEnd(offset) \in Int
      BY <2>2, <3>1 DEF frameEnd, HEADER_LENGTH
    <3> QED
      BY <2>1, <2>2, <3>2, Standing
  <2>4. i \in 1..Len(written) /\ offset = starts[i]
    BY <2>3, FrameAhead
  <2>5. i # damaged
    <3>1. ASSUME i = damaged PROVE WrongLength(i) \/ Noise(i)
      BY <2>2, <3>1 DEF CodecIInv, DamageShows
    <3> QED
      BY <1>2, <2>1, <2>4, <3>1, DamageIsSeen DEF CodecIInv
  <2>6. /\ log[offset + 2].of = written[i]
        /\ frameEnd(offset) = starts[i + 1]
        /\ written[i] \in Records
    BY <2>4, <2>5, IntactIsRead, Places DEF CodecIInv
  <2> HIDE DEF i
  <2>7. /\ records' \in Seq(Records)
        /\ Len(records') = i
        /\ \A j \in 1..Len(records) : records'[j] = records[j]
        /\ records'[i] = written[i]
    <3>1. records \in Seq(Records)
      BY DEF CodecIInv, CodecTypeOK
    <3> QED
      BY <2>1, <2>6, <3>1, AppendProperties DEF i
  <2>8. CodecTypeOK'
    <3>1. offset' \in 0..Len(log')
      <4>1. starts[i + 1] \in Nat
        BY <2>4, Places, RecordFacts DEF CodecIInv
      <4> QED
        BY <2>1, <2>2, <2>6, <4>1
    <3> QED
      BY <2>1, <2>7, <3>1 DEF CodecIInv, CodecTypeOK
  <2>9. DecodedSoFar'
    <3>1. \A j \in 1..i : j \in 1..Len(records) \/ j = i
      BY <2>2 DEF i
    <3>2. \A j \in 1..i : j <= Len(written) /\ records'[j] = written[j] /\ j # damaged
      BY <2>2, <2>4, <2>5, <2>7, <3>1 DEF CodecIInv, DecodedSoFar, RecordsAreWritten
    <3>3. RecordsAreWritten'
      BY <2>1, <2>7, <3>2 DEF RecordsAreWritten
    <3>4. i <= Len(written)
      BY <2>2, <2>4
    <3> QED
      BY <2>1, <2>6, <2>7, <3>3, <3>4 DEF DecodedSoFar
  <2>10. DamageIsNotATornTail'
    BY <2>1 DEF DamageIsNotATornTail
  <2> QED
    BY <2>1, <2>8, <2>9, <2>10, LogStays DEF CodecIInv
<1> QED
  BY <1>1, <1>2

-----------------------------------------------------------------------------
(* The theorems. *)

(* The inductive step. *)
LEMMA CodecNextKeepsIInv == CodecIInv /\ [CodecNext]_codecVars => CodecIInv'
<1> SUFFICES ASSUME CodecIInv, [CodecNext]_codecVars PROVE CodecIInv'
  OBVIOUS
<1>1. CASE \E size \in Sizes : AppendFrame(size)
  BY <1>1, AppendFrameKeeps
<1>2. CASE \E size \in Sizes, n \in 1..(MaxPayloadLength + 1) : Tear(size, n)
  BY <1>2, TearKeeps
<1>3. CASE \E i \in 1..Len(written), n \in 0..(MaxPayloadLength + 1) :
             \E k \in 1..(HEADER_LENGTH + written[i].size) : Damage(i, k, n)
  BY <1>3, DamageKeeps
<1>4. CASE AtEnd \/ IncompleteHeader \/ InvalidLength \/ IncompletePayload \/ Start
  BY <1>4, EndsKeep
<1>5. CASE CompletePayload
  BY <1>5, CompletePayloadKeeps
<1>6. CASE UNCHANGED codecVars
  <2>1. UNCHANGED <<log, written, starts, torn, damaged, verdict, offset, records>>
    BY <1>6 DEF codecVars
  <2>2. CodecTypeOK' /\ DecodedSoFar' /\ DamageIsNotATornTail'
    BY <2>1 DEF CodecIInv, CodecTypeOK, DecodedSoFar, RecordsAreWritten, DamageIsNotATornTail
  <2> QED
    BY <2>1, <2>2, LogStays DEF CodecIInv
<1> QED
  BY <1>1, <1>2, <1>3, <1>4, <1>5, <1>6 DEF CodecNext, decode

(* The invariant holds always. *)
LEMMA CodecInvariance == CodecSpec => []CodecIInv
BY CodecInitially, CodecNextKeepsIInv, PTL DEF CodecSpec

(* Every variable of a log and of its decoder keeps its type. *)
THEOREM CodecTypeCorrect == CodecSpec => []CodecTypeOK
<1>1. CodecIInv => CodecTypeOK
  BY DEF CodecIInv
<1> QED
  BY <1>1, CodecInvariance, PTL

(* What decode() returns was written, at the same place, in a frame that   *)
(* is intact, wherever the log is torn and whichever cell is damaged.      *)
THEOREM RecordsAreAlwaysWritten == CodecSpec => []RecordsAreWritten
<1>1. CodecIInv => RecordsAreWritten
  BY DEF CodecIInv, DecodedSoFar
<1> QED
  BY <1>1, CodecInvariance, PTL

(* decode() lets recovery go on past damage only where it cannot be told   *)
(* from a torn write: in the length of the last complete frame.            *)
THEOREM DamageIsNeverATornTail == CodecSpec => []DamageIsNotATornTail
<1>1. CodecIInv => DamageIsNotATornTail
  BY DEF CodecIInv
<1> QED
  BY <1>1, CodecInvariance, PTL

(* Where the budget of the search is not smaller than a frame, every torn  *)
(* write is truncated to the last complete frame, and nothing but a torn   *)
(* write is.  LongTornFrame shows that the condition is needed.            *)
THEOREM TornTailsAreTruncated ==
  ASSUME \A size \in Sizes : size <= MaxCandidateOffsets + HEADER_LENGTH
  PROVE  CodecSpec => []TornTailIsTruncated
<1>1. CodecInit => TornTailIsTruncated
  BY DEF CodecInit, TornTailIsTruncated, isDecoded
<1>2. CodecIInv /\ TornTailIsTruncated /\ [CodecNext]_codecVars => TornTailIsTruncated'
  <2> SUFFICES ASSUME CodecIInv, TornTailIsTruncated, [CodecNext]_codecVars
               PROVE  TornTailIsTruncated'
    OBVIOUS
  <2> USE DEF TornTailIsTruncated, isDecoded
  <2>1. CASE verdict' = verdict /\ verdict \notin {"ok", "tail", "corrupt"}
    BY <2>1
  <2>2. CASE UNCHANGED codecVars
    BY <2>2 DEF codecVars
  <2>3. CASE Start
    BY <2>3 DEF Start
  <2>4. CASE verdict = "reading" /\ (AtEnd \/ IncompleteHeader \/ InvalidLength
                                      \/ IncompletePayload \/ CompletePayload)
    <3> SUFFICES ASSUME damaged = 0, verdict' \in {"ok", "tail", "corrupt"}
                 PROVE  /\ verdict' = IF torn THEN "tail" ELSE "ok"
                        /\ records' = written
                        /\ offset' = starts[Len(written) + 1]
                        /\ UNCHANGED <<written, starts, torn>>
      BY <2>4 DEF AtEnd, IncompleteHeader, InvalidLength, IncompletePayload,
                  CompletePayload, End
    <3>1. /\ Len(written) \in Nat /\ Len(log) \in Nat /\ offset \in Nat
          /\ Len(records) \in Nat
          /\ Len(starts) = Len(written) + 1
      BY EndOfFrames, Standing DEF CodecIInv
    <3>2. CASE Len(records) < Len(written)
      <4>1. /\ remaining(offset) >= HEADER_LENGTH
            /\ isCompleteFrame(offset)
            /\ readLength(offset) <= MaxPayloadLength
            /\ frameEnd(offset) <= Len(log)
        BY <3>1, <3>2, FrameAhead
      <4>2. remaining(offset) \in Int /\ readLength(offset) \in Int
            /\ frameEnd(offset) \in Int
        <5>1. offset + 1 \in 1..Len(log)
          BY <3>1, <4>1 DEF remaining, HEADER_LENGTH
        <5>2. log[offset + 1] \in Cells
          BY <5>1, ElementOfSeq DEF CodecIInv, CodecTypeOK
        <5>3. readLength(offset) \in Int
          BY <5>2, BoundsAssumption DEF readLength, Cells
        <5> QED
          BY <3>1, <5>3 DEF remaining, frameEnd, HEADER_LENGTH
      <4>3. MaxPayloadLength \in Nat
        BY BoundsAssumption
      <4>4. checksumFits(offset)
        BY <4>1 DEF isCompleteFrame
      <4> QED
        BY <2>4, <3>1, <4>1, <4>2, <4>3, <4>4
           DEF AtEnd, IncompleteHeader, InvalidLength, IncompletePayload,
               CompletePayload, HEADER_LENGTH
    <3>3. CASE Len(records) >= Len(written)
      <4>1. /\ records = written
            /\ offset = starts[Len(starts)]
            /\ torn <=> remaining(offset) > 0
            /\ remaining(offset) >= HEADER_LENGTH =>
                 /\ readLength(offset) <= MaxPayloadLength
                 /\ frameEnd(offset) > Len(log)
        BY <3>3, Standing
      <4>2. /\ torn \in BOOLEAN
            /\ remaining(offset) \in Int
        BY <3>1 DEF CodecIInv, CodecTypeOK, remaining
      <4>3. CASE AtEnd
        BY <3>1, <4>1, <4>2, <4>3 DEF AtEnd, End
      <4>4. CASE IncompleteHeader
        BY <3>1, <4>1, <4>2, <4>4 DEF IncompleteHeader, End, HEADER_LENGTH
      <4>5. CASE InvalidLength \/ CompletePayload
        <5>1. remaining(offset) >= HEADER_LENGTH
          BY <4>5 DEF InvalidLength, CompletePayload
        <5>2. readLength(offset) \in Int /\ frameEnd(offset) \in Int
          <6>1. offset + 1 \in 1..Len(log)
            BY <3>1, <5>1 DEF remaining, HEADER_LENGTH
          <6>2. log[offset + 1] \in Cells
            BY <6>1, ElementOfSeq DEF CodecIInv, CodecTypeOK
          <6>3. readLength(offset) \in Int
            BY <6>2, BoundsAssumption DEF readLength, Cells
          <6> QED
            BY <3>1, <6>3 DEF frameEnd, HEADER_LENGTH
        <5>3. MaxPayloadLength \in Nat
          BY BoundsAssumption
        <5> QED
          BY <3>1, <4>1, <4>5, <5>1, <5>2, <5>3
             DEF InvalidLength, CompletePayload, isChecksummed
      <4>6. CASE IncompletePayload
        <5>1. torn
          BY <4>1, <4>2, <4>6 DEF IncompletePayload, HEADER_LENGTH
        <5>2. PICK record \in Records : TornPart(record)
          BY <5>1 DEF CodecIInv, TailIsTorn
        <5>3. /\ record.size \in Nat
              /\ record.size <= MaxCandidateOffsets + 2
              /\ Len(log) < offset + (record.size + 2)
          BY <4>1, <5>2, RecordFacts DEF TornPart, HEADER_LENGTH
        <5>4. ASSUME NEW at \in candidates(offset + HEADER_LENGTH)
              PROVE  ~exceedsBudget(offset + HEADER_LENGTH, at) /\ ~isCompleteFrame(at)
          <6>1. at \in (offset + HEADER_LENGTH)..(Len(log) - HEADER_LENGTH)
            BY DEF candidates
          <6>2. ~isChecksummed(at)
            BY <4>1, <5>2, <6>1, TornPartIsRead DEF CodecIInv
          <6>3. MaxCandidateOffsets \in Nat
            BY BoundsAssumption
          <6>4. ~(at - (offset + HEADER_LENGTH) + 1 > MaxCandidateOffsets)
            BY <3>1, <5>3, <6>1, <6>3 DEF HEADER_LENGTH
          <6> QED
            BY <6>2, <6>4 DEF exceedsBudget, isCompleteFrame
        <5>5. ~resyncs(offset + HEADER_LENGTH)
          BY <5>4 DEF resyncs
        <5> QED
          BY <3>1, <4>1, <4>6, <5>1, <5>5 DEF IncompletePayload, End
      <4> QED
        BY <2>4, <4>3, <4>4, <4>5, <4>6
    <3> QED
      BY <3>1, <3>2, <3>3
  <2> QED
    BY <2>1, <2>2, <2>3, <2>4
       DEF CodecNext, decode, AppendFrame, Tear, Damage, decoder, AtEnd,
           IncompleteHeader, InvalidLength, IncompletePayload, CompletePayload
<1> QED
  BY <1>1, <1>2, CodecInvariance, PTL DEF CodecSpec

=============================================================================
