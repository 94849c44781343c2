-------------------------- MODULE ProposingProofs ---------------------------
(***************************************************************************)
(* Proofs that identifiers grow, that retries agree, that a proposal is    *)
(* the batches on record for it, that edits stay in what their session     *)
(* asked for, and that a selection of groups is closed and in order, for   *)
(* any documents, requests, limits, identifiers, diffs and clock.          *)
(***************************************************************************)
EXTENDS Proposing, FiniteSetTheorems, SequenceTheorems, WellFoundedInduction, TLAPS

(* Every set of naturals that is not empty has a least element.            *)
LEMMA LeastExists ==
  ASSUME NEW S \in SUBSET Nat, S # {}
  PROVE  \E least \in S : \A other \in S : least <= other
<1>1. PICK least \in S : \A other \in S : ~ (<<other, least>> \in OpToRel(<, Nat))
  BY WFMin, NatLessThanWellFounded
<1>2. \A other \in S : ~ (other < least)
  BY <1>1 DEF OpToRel
<1> QED
  BY <1>2

\* Induction over the natural numbers up to a bound.
LEMMA InductionUpTo ==
  ASSUME NEW N \in Nat, NEW S, 0 \in S, \A n \in 0 .. N - 1 : n \in S => n + 1 \in S
  PROVE  \A n \in 0 .. N : n \in S
<1> DEFINE Rest == {n \in 0 .. N : n \notin S}
<1>1. ASSUME Rest # {}
      PROVE  FALSE
  <2>1. Rest \subseteq Nat
    OBVIOUS
  <2>2. \E n \in Rest : \A m \in Rest : n <= m
    <3> HIDE DEF Rest
    <3> QED
      BY <1>1, <2>1, LeastExists
  <2>3. PICK n \in Rest : \A m \in Rest : n <= m
    BY <2>2
  <2>4. n \in Nat \ {0}
    OBVIOUS
  <2>5. n - 1 \in 0 .. N - 1 /\ n = (n - 1) + 1 /\ ~(n <= n - 1)
    BY <2>4
  <2>6. n - 1 \notin Rest
    BY <2>3, <2>5
  <2>7. n - 1 \in S
    BY <2>5, <2>6
  <2> QED
    BY <2>5, <2>7
<1> QED
  BY <1>1

(* Identifiers: what createUuidV7Bytes() builds is a UUIDv7, and the one     *)
(* incrementRandomField() builds from a UUIDv7 is a later UUIDv7.           *)

\* What a number leaves modulo 256 is a byte.
LEMMA RemainderIsAByte ==
  ASSUME NEW n \in Nat
  PROVE  n % 256 \in Byte /\ n \div 256 \in Nat
BY SMT DEF Byte

(* The recursive function of writeTimestamp() exists: it is given outright.  *)
LEMMA TimestampIsBytes ==
  ASSUME NEW timestamp \in Nat
  PROVE  writeTimestamp(timestamp) \in [0 .. 5 -> Byte]
<1> DEFINE Step(f) == [index \in 0 .. 5 |->
                         IF index = 5 THEN timestamp ELSE f[index + 1] \div 256]
           Chosen == CHOOSE f : f = Step(f)
           r4 == timestamp \div 256
           r3 == r4 \div 256
           r2 == r3 \div 256
           r1 == r2 \div 256
           r0 == r1 \div 256
           Explicit == [index \in 0 .. 5 |->
               CASE index = 0 -> r0 [] index = 1 -> r1 [] index = 2 -> r2
                 [] index = 3 -> r3 [] index = 4 -> r4 [] OTHER -> timestamp]
<1>1. Explicit = Step(Explicit)
  OBVIOUS
<1>2. Chosen = Step(Chosen)
  <2> HIDE DEF Explicit
  <2> QED
  BY <1>1
<1> HIDE DEF Chosen
<1>3. DOMAIN Chosen = 0 .. 5
  BY <1>2
<1>4. /\ Chosen[5] = timestamp
      /\ \A index \in 0 .. 4 : Chosen[index] = Chosen[index + 1] \div 256
  BY <1>2
<1>5. /\ Chosen[5] \in Nat
      /\ Chosen[4] \in Nat
  BY <1>4, RemainderIsAByte
<1>6. Chosen[3] \in Nat
  BY <1>4, <1>5, RemainderIsAByte
<1>7. Chosen[2] \in Nat
  BY <1>4, <1>6, RemainderIsAByte
<1>8. Chosen[1] \in Nat
  BY <1>4, <1>7, RemainderIsAByte
<1>9. Chosen[0] \in Nat
  BY <1>4, <1>8, RemainderIsAByte
<1>10. \A index \in 0 .. 5 : Chosen[index] \in Nat
  BY <1>5, <1>6, <1>7, <1>8, <1>9
<1>11. writeTimestamp(timestamp) = [index \in 0 .. 5 |-> Chosen[index] % 256]
  BY DEF writeTimestamp, Chosen
<1> QED
  BY <1>10, <1>11, RemainderIsAByte

ValidRandom(seed) ==
  seed.unixMilliseconds \in Nat /\ seed.randomBytes \in [0 .. 9 -> Byte]

\* createUuidV7Bytes() builds a UUIDv7, whatever the clock and the entropy are.
LEMMA CreatedIsUuidV7 ==
  ASSUME NEW seed, ValidRandom(seed)
  PROVE  IsUuidV7(createUuidV7Bytes(seed))
<1> DEFINE bytes == createUuidV7Bytes(seed)
           ts == writeTimestamp(seed.unixMilliseconds)
<1>1. ts \in [0 .. 5 -> Byte]
  BY TimestampIsBytes DEF ValidRandom
<1>2. /\ seed.randomBytes[0] % 16 \in 0 .. 15
      /\ seed.randomBytes[2] % 64 \in 0 .. 63
  BY SMT DEF ValidRandom, Byte
<1>3. \A i \in 0 .. 9 : seed.randomBytes[i] \in 0 .. 255
  BY DEF ValidRandom, Byte
<1>4. bytes = [index \in 0 .. 15 |->
        CASE index < 6 -> ts[index]
          [] index = 6 -> 112 + (seed.randomBytes[0] % 16)
          [] index = 7 -> seed.randomBytes[1]
          [] index = 8 -> 128 + (seed.randomBytes[2] % 64)
          [] OTHER -> seed.randomBytes[index - 6]]
  BY DEF createUuidV7Bytes
<1>5. /\ \A i \in 0 .. 5 : bytes[i] = ts[i]
      /\ bytes[6] \in 112 .. 127
      /\ bytes[7] \in 0 .. 255
      /\ bytes[8] \in 128 .. 191
      /\ \A i \in 9 .. 15 : bytes[i] \in 0 .. 255
  BY <1>2, <1>3, <1>4
<1>6. \A i \in 0 .. 5 : bytes[i] \in 0 .. 255
  BY <1>1, <1>5 DEF Byte
<1>7. \A i \in 0 .. 15 : bytes[i] \in 0 .. 255
  BY <1>5, <1>6
<1>8. bytes \in Bytes
  BY <1>4, <1>7 DEF Bytes, Byte
<1>9. \A i \in RandomField : bytes[i] \in Reset(i) .. Maximum(i)
  <2> HIDE DEF bytes
  <2> SUFFICES ASSUME NEW i \in 6 .. 15 PROVE bytes[i] \in Reset(i) .. Maximum(i)
    BY DEF RandomField
  <2>1. CASE i = 6
    <3>1. Reset(i) = 112 /\ Maximum(i) = 127
      BY <2>1 DEF Reset, Maximum
    <3> QED
      BY <1>5, <2>1, <3>1
  <2>2. CASE i = 8
    <3>1. Reset(i) = 128 /\ Maximum(i) = 191
      BY <2>2 DEF Reset, Maximum
    <3> QED
      BY <1>5, <2>2, <3>1
  <2>3. CASE i # 6 /\ i # 8
    <3>1. Reset(i) = 0 /\ Maximum(i) = 255
      BY <2>3 DEF Reset, Maximum
    <3>2. bytes[i] \in 0 .. 255
      BY <1>7
    <3> QED
      BY <3>1, <3>2
  <2> QED
    BY <2>1, <2>2, <2>3
<1> QED
  BY <1>8, <1>9 DEF IsUuidV7

\* The carry goes to the last byte that has room.
LEMMA CarryIsTheLast ==
  ASSUME NEW bytes, Incrementable(bytes) # {}
  PROVE  /\ Carry(bytes) \in Incrementable(bytes)
         /\ \A other \in Incrementable(bytes) : other <= Carry(bytes)
<1> DEFINE room == Incrementable(bytes)
           fromTheEnd == {distance \in Nat : 15 - distance \in room}
<1>1. room \subseteq 6 .. 15
  BY DEF Incrementable, RandomField
<1> HIDE DEF room
<1>2. fromTheEnd \in SUBSET Nat /\ \A index \in room : 15 - index \in fromTheEnd
  BY <1>1
<1>3. PICK least \in fromTheEnd : \A distance \in fromTheEnd : least <= distance
  BY <1>2, LeastExists DEF room
<1>4. \E index \in room : \A other \in room : other <= index
  <2>1. 15 - least \in room
    BY <1>3
  <2>2. \A other \in room : other <= 15 - least
    BY <1>1, <1>2, <1>3
  <2> QED
    BY <2>1, <2>2
<1> QED
  BY <1>4 DEF Carry, room

(* The carry makes its byte greater, within the fixed bits of version and    *)
(* variant, and leaves the bytes before it as they were.                     *)
LEMMA IncrementGrows ==
  ASSUME NEW bytes, IsUuidV7(bytes), incrementRandomField(bytes) # NoIdentifier
  PROVE  /\ IsUuidV7(incrementRandomField(bytes))
         /\ Precedes(bytes, incrementRandomField(bytes))
<1> DEFINE next == incrementRandomField(bytes)
           c == Carry(bytes)
<1>1. Incrementable(bytes) # {}
  BY DEF incrementRandomField
<1>2. c \in RandomField /\ bytes[c] < Maximum(c)
  BY <1>1, CarryIsTheLast DEF Incrementable
<1>3. next = [index \in 0 .. 15 |->
            CASE index < c -> bytes[index]
              [] index = c -> bytes[index] + 1
              [] OTHER -> Reset(index)]
  BY <1>1 DEF incrementRandomField
<1>4. /\ bytes \in [0 .. 15 -> 0 .. 255]
      /\ \A i \in 6 .. 15 : bytes[i] \in Reset(i) .. Maximum(i)
  BY DEF IsUuidV7, Bytes, Byte, RandomField
<1>5. c \in 6 .. 15
  BY <1>2 DEF RandomField
<1>6. /\ \A i \in 0 .. c - 1 : next[i] = bytes[i]
      /\ next[c] = bytes[c] + 1
      /\ \A i \in c + 1 .. 15 : next[i] = Reset(i)
  BY <1>3, <1>5
<1>7. Reset(c) \in Nat /\ Maximum(c) \in 0 .. 255
  BY DEF Reset, Maximum
<1>8. \A i \in 6 .. 15 : Reset(i) \in 0 .. 255 /\ Maximum(i) \in 0 .. 255 /\ Reset(i) <= Maximum(i)
  BY DEF Reset, Maximum
<1> HIDE DEF next, c
<1>9. \A i \in 6 .. 15 : next[i] \in Reset(i) .. Maximum(i)
  <2> SUFFICES ASSUME NEW i \in 6 .. 15 PROVE next[i] \in Reset(i) .. Maximum(i)
    OBVIOUS
  <2>1. CASE i < c  BY <2>1, <1>4, <1>5, <1>6
  <2>2. CASE i = c
    <3>1. bytes[i] \in Reset(i) .. Maximum(i)
      BY <1>4
    <3>2. bytes[i] < Maximum(i) /\ next[i] = bytes[i] + 1
      BY <1>2, <1>6, <2>2
    <3>3. Reset(i) \in Int /\ Maximum(i) \in Int
      BY <1>8
    <3> QED
      BY <3>1, <3>2, <3>3
  <2>3. CASE i > c
    <3>1. i \in c + 1 .. 15
      BY <1>5, <2>3
    <3>2. next[i] = Reset(i)
      BY <1>6, <3>1
    <3>3. Reset(i) \in Int /\ Maximum(i) \in Int /\ Reset(i) <= Maximum(i)
      BY <1>8
    <3> QED
      BY <3>2, <3>3
  <2> QED  BY <2>1, <2>2, <2>3, <1>5
<1>10. \A i \in 0 .. 5 : next[i] = bytes[i]
  BY <1>5, <1>6
<1>11. \A i \in 0 .. 15 : next[i] \in 0 .. 255
  <2> SUFFICES ASSUME NEW i \in 0 .. 15 PROVE next[i] \in 0 .. 255
    OBVIOUS
  <2>1. CASE i < 6  BY <2>1, <1>4, <1>10
  <2>2. CASE i >= 6
    <3>1. i \in 6 .. 15
      BY <2>2
    <3>2. next[i] \in Reset(i) .. Maximum(i)
      BY <1>9, <3>1
    <3>3. Reset(i) \in 0 .. 255 /\ Maximum(i) \in 0 .. 255
      BY <1>8, <3>1
    <3> QED
      BY <3>2, <3>3
  <2> QED  BY <2>1, <2>2
<1>12. next \in [0 .. 15 -> 0 .. 255]
  BY <1>3, <1>11
<1>13. IsUuidV7(next)
  BY <1>9, <1>12 DEF IsUuidV7, Bytes, Byte, RandomField
<1>14. bytes[c] < next[c] /\ \A before \in 0 .. c - 1 : bytes[before] = next[before]
  BY <1>4, <1>5, <1>6
<1> QED
  BY <1>5, <1>13, <1>14 DEF Precedes, next

\* Precedes is a strict order of identifiers.
LEMMA PrecedesIsAnOrder ==
  ASSUME NEW a \in Bytes, NEW b \in Bytes, NEW c \in Bytes
  PROVE  /\ ~ Precedes(a, a)
         /\ Precedes(a, b) /\ Precedes(b, c) => Precedes(a, c)
<1> DEFINE Integral(s) == \A k \in 0 .. 15 : s[k] \in Int
<1>0. ASSUME NEW s \in Bytes PROVE Integral(s)
  BY DEF Bytes, Byte
<1>1. ~ Precedes(a, a)
  <2>1. Integral(a)
    BY <1>0
  <2>2. \A k \in 0 .. 15 : ~ (a[k] < a[k])
    BY <2>1
  <2> QED
    BY <2>2 DEF Precedes
<1>2. ASSUME Precedes(a, b), Precedes(b, c) PROVE Precedes(a, c)
  <2>1. PICK i \in 0 .. 15 : a[i] < b[i] /\ \A k \in 0 .. i - 1 : a[k] = b[k]
    BY <1>2 DEF Precedes
  <2>2. PICK j \in 0 .. 15 : b[j] < c[j] /\ \A k \in 0 .. j - 1 : b[k] = c[k]
    BY <1>2 DEF Precedes
  <2>3. CASE i <= j
    <3>1. a[i] < c[i]
      <4>1. Integral(a) /\ Integral(b) /\ Integral(c)
        BY <1>0
      <4>2. CASE i = j
        BY <2>1, <2>2, <4>1, <4>2
      <4>3. CASE i < j
        BY <2>1, <2>2, <4>1, <4>3
      <4> QED
        BY <2>3, <4>2, <4>3
    <3>2. \A k \in 0 .. i - 1 : a[k] = c[k]
      BY <2>1, <2>2, <2>3
    <3> QED
      BY <3>1, <3>2 DEF Precedes
  <2>4. CASE j < i
    <3>1. a[j] < c[j]
      <4>1. a[j] = b[j]
        BY <2>1, <2>4
      <4> QED
        BY <2>2, <4>1
    <3>2. \A k \in 0 .. j - 1 : a[k] = c[k]
      BY <2>1, <2>2, <2>4
    <3> QED
      BY <3>1, <3>2 DEF Precedes
  <2> QED
    BY <2>3, <2>4
<1> QED
  BY <1>1, <1>2

(* The identifier that allocate() returns comes after the one before it.     *)
LEMMA AllocateGrows ==
  ASSUME NEW seed, NEW previous,
         DOMAIN seed.randomBytes = 0 .. 9 => seed.randomBytes \in [0 .. 9 -> Byte],
         previous = NoIdentifier \/ IsUuidV7(previous),
         allocate(seed, previous) # NoIdentifier
  PROVE  /\ IsUuidV7(allocate(seed, previous))
         /\ previous # NoIdentifier => Precedes(previous, allocate(seed, previous))
<1> DEFINE candidate == createUuidV7Bytes(seed)
<1>1. validateSeed(seed)
  BY DEF allocate
<1>2. ValidRandom(seed)
  BY <1>1, TimestampAssumption DEF ValidRandom, validateSeed
<1>3. IsUuidV7(candidate)
  BY <1>2, CreatedIsUuidV7
<1>4. CASE previous = NoIdentifier
  BY <1>1, <1>3, <1>4 DEF allocate
<1>5. CASE previous # NoIdentifier
  <2>1. allocate(seed, previous) = ensureMonotonicUuidV7(candidate, previous)
    BY <1>1, <1>5 DEF allocate
  <2>2. CASE compareTimestamp(candidate, previous)
    <3>1. allocate(seed, previous) = candidate
      BY <2>1, <2>2 DEF ensureMonotonicUuidV7
    <3>2. Precedes(previous, candidate)
      <4>1. PICK i \in 0 .. 5 : /\ candidate[i] > previous[i]
                               /\ \A k \in 0 .. i - 1 : candidate[k] = previous[k]
        BY <2>2 DEF compareTimestamp
      <4>2. /\ i \in 0 .. 15
            /\ candidate[i] \in 0 .. 255 /\ previous[i] \in 0 .. 255
        BY <1>3, <1>5 DEF IsUuidV7, Bytes, Byte
      <4>3. previous[i] < candidate[i]
        BY <4>1, <4>2
      <4> QED
        BY <4>1, <4>2, <4>3 DEF Precedes
    <3> QED
      BY <1>3, <3>1, <3>2
  <2>3. CASE ~ compareTimestamp(candidate, previous)
    BY <1>5, <2>1, <2>3, IncrementGrows DEF ensureMonotonicUuidV7
  <2> QED
    BY <2>2, <2>3
<1> QED
  BY <1>4, <1>5
-----------------------------------------------------------------------------
(* Of the service, a step either does nothing, opens a session, creates a    *)
(* proposal or advances one; whatever else it does takes at most an          *)
(* identifier for an error.                                                  *)

IsProposal(proposal) ==
    DOMAIN proposal = {"id", "documentUri", "baseRevisionId", "proposalRevision", "status",
                       "semanticEdits", "diff", "validation", "sessionId"}

Issued == DOMAIN sessions \cup DOMAIN proposals

IssuedInOrder ==
    /\ previousBytes = NoIdentifier \/ IsUuidV7(previousBytes)
    /\ \A id \in Issued :
        /\ IsUuidV7(id)
        /\ previousBytes # NoIdentifier
        /\ id = previousBytes \/ Precedes(id, previousBytes)
    /\ \A id \in DOMAIN proposals : proposals[id].id = id /\ IsProposal(proposals[id])

\* What a step may do to what the service holds.
Quiet ==
    /\ UNCHANGED held
    /\ \/ previousBytes' = previousBytes
       \/ previousBytes' \in NextIdentifiers \ {NoIdentifier}

Opened(request, id) ==
    /\ request \in Openings
    /\ openVerdict(request) = "ok"
    /\ id \in NextIdentifiers \ {NoIdentifier}
    /\ previousBytes' = id
    /\ sessions' = Put(sessions, id, [request |-> request, grant |-> Grant(request, id)])
    /\ UNCHANGED <<proposals, idempotency, answered>>

Created(request, id) ==
    /\ request \in CreateRequests
    /\ mutationVerdict(request) = "ok"
    /\ id \in NextIdentifiers \ {NoIdentifier}
    /\ previousBytes' = id
    /\ Commit(request, NewProposal(sessions[request.sessionId].grant, id))

Advanced(request) ==
    /\ request \in StageRequests
    /\ mutationVerdict(request) = "ok"
    /\ Commit(request, Staged(proposals[request.proposal.proposalId], request.semanticEdits))
    /\ UNCHANGED previousBytes

\* An error takes at most an identifier.
LEMMA RefuseIsQuiet ==
  ASSUME NEW code, Refuse(code)
  PROVE  Quiet
BY DEF Refuse, Quiet

\* Every step has one of the four effects.
LEMMA StepEffects ==
  ASSUME [Next]_vars
  PROVE  \/ Quiet
         \/ \E request \in Openings, id \in NextIdentifiers : Opened(request, id)
         \/ \E request \in CreateRequests, id \in NextIdentifiers : Created(request, id)
         \/ \E request \in StageRequests : Advanced(request)
<1>1. CASE UNCHANGED vars
  BY <1>1 DEF vars, serviceVars, Quiet, held
<1>2. CASE Review
  BY <1>2 DEF Review, serviceVars, Quiet, held
<1>3. CASE Service
  <2>1. CASE \E uri \in DOMAIN Documents : CloseModel(uri)
    BY <2>1 DEF CloseModel, Quiet
  <2>2. CASE \E time \in Clocks : SetClock(time)
    BY <2>2 DEF SetClock, Quiet
  <2>3. CASE Call
    <3>1. CASE \E request \in Handshakes : Handshake(request)
      BY <3>1, RefuseIsQuiet DEF Handshake, Read, Quiet
    <3>2. CASE \E request \in SnapshotRequests : ReadSnapshot(request)
      BY <3>2, RefuseIsQuiet DEF ReadSnapshot, Read, Quiet
    <3>3. ASSUME NEW request \in Openings, OpenSession(request)
          PROVE  Quiet \/ \E id \in NextIdentifiers : Opened(request, id)
      BY <3>3, RefuseIsQuiet DEF OpenSession, Opened
    <3>4. ASSUME NEW request \in CreateRequests, CreateProposal(request)
          PROVE  Quiet \/ \E id \in NextIdentifiers : Created(request, id)
      <4>1. CASE mutationVerdict(request) = "replay"
        BY <3>4, <4>1 DEF CreateProposal, Quiet
      <4>2. CASE mutationVerdict(request) = "ok"
        BY <3>4, <4>2 DEF CreateProposal, Created
      <4>3. CASE mutationVerdict(request) \notin {"replay", "ok"}
        BY <3>4, <4>3, RefuseIsQuiet DEF CreateProposal
      <4> QED
        BY <4>1, <4>2, <4>3
    <3>5. ASSUME NEW request \in StageRequests, StageSemanticEdits(request)
          PROVE  Quiet \/ Advanced(request)
      <4>1. CASE mutationVerdict(request) = "replay"
        BY <3>5, <4>1 DEF StageSemanticEdits, Quiet
      <4>2. CASE mutationVerdict(request) = "ok"
        BY <3>5, <4>2 DEF StageSemanticEdits, Advanced
      <4>3. CASE mutationVerdict(request) \notin {"replay", "ok"}
        BY <3>5, <4>3, RefuseIsQuiet DEF StageSemanticEdits
      <4> QED
        BY <4>1, <4>2, <4>3
    <3> QED
      BY <2>3, <3>1, <3>2, <3>3, <3>4, <3>5 DEF Call
  <2> QED
    BY <1>3, <2>1, <2>2, <2>3 DEF Service
<1> QED
  BY <1>1, <1>2, <1>3 DEF Next

\* The next identifier is a UUIDv7 after the previous one.
LEMMA NextIdentifierGrows ==
  ASSUME previousBytes = NoIdentifier \/ IsUuidV7(previousBytes),
         NEW id \in NextIdentifiers, id # NoIdentifier
  PROVE  /\ IsUuidV7(id)
         /\ previousBytes # NoIdentifier => Precedes(previousBytes, id)
<1>1. PICK random \in RandomFields : id = allocate(Seed(random), previousBytes)
  BY DEF NextIdentifiers
<1>2. DOMAIN Seed(random).randomBytes = 0 .. 9 => Seed(random).randomBytes \in [0 .. 9 -> Byte]
  BY RandomFieldsAssumption DEF Seed
<1> QED
  BY <1>1, <1>2, AllocateGrows

\* A new identifier is none of those issued.
LEMMA NextIdentifierIsNew ==
  ASSUME IssuedInOrder, NEW id \in NextIdentifiers, id # NoIdentifier
  PROVE  /\ IsUuidV7(id)
         /\ \A other \in Issued \cup ({previousBytes} \ {NoIdentifier}) : Precedes(other, id)
         /\ id \notin Issued
<1>1. IsUuidV7(id) /\ (previousBytes # NoIdentifier => Precedes(previousBytes, id))
  BY NextIdentifierGrows DEF IssuedInOrder
<1>2. ASSUME NEW other \in Issued \cup ({previousBytes} \ {NoIdentifier})
      PROVE  Precedes(other, id)
  <2>1. previousBytes # NoIdentifier /\ IsUuidV7(other)
    BY DEF IssuedInOrder
  <2>2. previousBytes \in Bytes /\ other \in Bytes /\ id \in Bytes
    BY <1>1, <2>1 DEF IssuedInOrder, IsUuidV7
  <2>3. CASE other = previousBytes
    BY <1>1, <2>1, <2>3
  <2>4. CASE Precedes(other, previousBytes)
    BY <1>1, <2>1, <2>2, <2>4, PrecedesIsAnOrder
  <2> QED
    BY <2>3, <2>4 DEF IssuedInOrder
<1>3. id \notin Issued
  BY <1>1, <1>2, PrecedesIsAnOrder DEF IsUuidV7
<1> QED
  BY <1>1, <1>2, <1>3

\* A stage advances a proposal the service holds.
LEMMA StageNamesAProposal ==
  ASSUME NEW request \in StageRequests, mutationVerdict(request) = "ok"
  PROVE  request.proposal.proposalId \in DOMAIN proposals
<1>1. request.operation = "stage"
  BY DEF StageRequests
<1>2. replayOr(request, andThen(proposalForStagingVerdict(request, sessions[request.sessionId].grant),
                                semanticEditsOf(request))) = "ok"
  BY <1>1 DEF mutationVerdict, stageVerdict, andThen
<1>3. proposalForStagingVerdict(request, sessions[request.sessionId].grant) = "ok"
  BY <1>2 DEF replayOr, andThen
<1> QED
  BY <1>3 DEF proposalForStagingVerdict, andThen, orElse

\* A stage keeps the identity of a proposal and appends its edits.
LEMMA StagedKeepsItsPlace ==
  ASSUME NEW proposal, IsProposal(proposal), NEW edits
  PROVE  /\ IsProposal(Staged(proposal, edits))
         /\ Staged(proposal, edits).id = proposal.id
         /\ Staged(proposal, edits).documentUri = proposal.documentUri
         /\ Staged(proposal, edits).baseRevisionId = proposal.baseRevisionId
         /\ Staged(proposal, edits).sessionId = proposal.sessionId
         /\ Staged(proposal, edits).semanticEdits = proposal.semanticEdits \o edits
BY DEF Staged, IsProposal

\* Every step keeps the identifiers in order.
LEMMA IssuedInOrderStep ==
  ASSUME IssuedInOrder, [Next]_vars
  PROVE  IssuedInOrder'
<1>1. CASE Quiet
  <2>1. CASE previousBytes' = previousBytes
    BY <1>1, <2>1 DEF Quiet, held, IssuedInOrder, Issued
  <2>2. CASE previousBytes' \in NextIdentifiers \ {NoIdentifier}
    BY <1>1, <2>2, NextIdentifierIsNew DEF Quiet, held, IssuedInOrder, Issued
  <2> QED
    BY <1>1, <2>1, <2>2 DEF Quiet
<1>2. ASSUME NEW request \in Openings, NEW id \in NextIdentifiers, Opened(request, id)
      PROVE  IssuedInOrder'
  <2>1. IsUuidV7(id) /\ \A other \in Issued : Precedes(other, id)
    BY <1>2, NextIdentifierIsNew DEF Opened
  <2>2. Issued' = Issued \cup {id}
    BY <1>2 DEF Put, Opened, Issued
  <2> QED
    BY <1>2, <2>1, <2>2 DEF Opened, IssuedInOrder
<1>3. ASSUME NEW request \in CreateRequests, NEW id \in NextIdentifiers, Created(request, id)
      PROVE  IssuedInOrder'
  <2> DEFINE new == NewProposal(sessions[request.sessionId].grant, id)
  <2>1. IsUuidV7(id) /\ \A other \in Issued : Precedes(other, id)
    BY <1>3, NextIdentifierIsNew DEF Created
  <2>2. new.id = id /\ IsProposal(new)
    BY DEF NewProposal, IsProposal
  <2> HIDE DEF new
  <2>3. proposals' = Put(proposals, id, new) /\ sessions' = sessions
    BY <1>3, <2>2 DEF Created, Commit, new
  <2>4. Issued' = Issued \cup {id}
    BY <2>3 DEF Put, Issued
  <2>5. \A other \in DOMAIN proposals' : proposals'[other].id = other /\ IsProposal(proposals'[other])
    BY <2>2, <2>3 DEF Put, IssuedInOrder
  <2> QED
    BY <1>3, <2>1, <2>4, <2>5 DEF Created, IssuedInOrder
<1>4. ASSUME NEW request \in StageRequests, Advanced(request)
      PROVE  IssuedInOrder'
  <2> DEFINE id == request.proposal.proposalId
             new == Staged(proposals[id], request.semanticEdits)
  <2>1. id \in DOMAIN proposals
    BY <1>4, StageNamesAProposal DEF Advanced
  <2>2. new.id = id /\ IsProposal(new)
    BY <2>1, StagedKeepsItsPlace DEF IssuedInOrder
  <2> HIDE DEF id, new
  <2>3. proposals' = Put(proposals, id, new) /\ sessions' = sessions /\ previousBytes' = previousBytes
    BY <1>4, <2>2 DEF Advanced, Commit, id, new
  <2>4. Issued' = Issued
    BY <2>1, <2>3 DEF Put, Issued
  <2>5. \A other \in DOMAIN proposals' : proposals'[other].id = other /\ IsProposal(proposals'[other])
    BY <2>2, <2>3 DEF Put, IssuedInOrder
  <2> QED
    BY <2>3, <2>4, <2>5 DEF IssuedInOrder
<1> QED
  BY <1>1, <1>2, <1>3, <1>4, StepEffects

-----------------------------------------------------------------------------
\* What a recorded answer needs so that asking again finds it.
Answerable(request) ==
    /\ request.sessionId \in DOMAIN sessions
    /\ idempotencyKeyVerdict(request.idempotencyKey) = "ok"
    /\ IF request.operation = "create"
       THEN /\ "proposal.create" \in sessions[request.sessionId].grant.grantedCapabilities
            /\ request.target = sessions[request.sessionId].grant.target
       ELSE request.semanticEdits # <<>> /\ NotCanonical \notin Range(request.semanticEdits)

Recorded(request) ==
    /\ idempotencyScope(request) \in DOMAIN idempotency
    /\ idempotency[idempotencyScope(request)].input = canonicalInput(request)
    /\ idempotency[idempotencyScope(request)].proposal = answered[request]

AnswersOnRecord ==
    /\ \A id \in DOMAIN sessions : sessions[id].grant.expiresAt = SessionExpiresAt
    /\ \A request \in DOMAIN answered : Answerable(request) /\ Recorded(request)

\* The checks of a mutation that is carried out.
LEMMA CarriedOut ==
  ASSUME NEW request, mutationVerdict(request) = "ok"
  PROVE  /\ Answerable(request)
         /\ idempotencyScope(request) \notin DOMAIN idempotency
<1>1. CASE request.operation = "create"
  <2>1. createVerdict(request) = "ok" /\ replayOr(request, "ok") = "ok"
    BY <1>1 DEF mutationVerdict, andThen
  <2>2. idempotencyScope(request) \notin DOMAIN idempotency
    BY <2>1 DEF replayOr
  <2>3. /\ activeSessionVerdict(request.sessionId, {"proposal.create"}) = "ok"
        /\ request.target = sessions[request.sessionId].grant.target
        /\ idempotencyKeyVerdict(request.idempotencyKey) = "ok"
    BY <2>1 DEF createVerdict, andThen, orElse
  <2>4. /\ request.sessionId \in DOMAIN sessions
        /\ "proposal.create" \in sessions[request.sessionId].grant.grantedCapabilities
    BY <2>3 DEF activeSessionVerdict, andThen, orElse
  <2> QED
    BY <1>1, <2>2, <2>3, <2>4 DEF Answerable
<1>2. CASE request.operation # "create"
  <2> DEFINE next == andThen(proposalForStagingVerdict(request, sessions[request.sessionId].grant),
                             semanticEditsOf(request))
  <2>1. stageInputVerdict(request) = "ok" /\ replayOr(request, next) = "ok"
    BY <1>2 DEF mutationVerdict, stageVerdict, andThen
  <2>2. idempotencyScope(request) \notin DOMAIN idempotency
    BY <2>1 DEF replayOr
  <2>3. /\ activeSessionVerdict(request.sessionId, {}) = "ok"
        /\ idempotencyKeyVerdict(request.idempotencyKey) = "ok"
        /\ request.semanticEdits # <<>> /\ NotCanonical \notin Range(request.semanticEdits)
    BY <2>1 DEF stageInputVerdict, andThen, orElse
  <2>4. request.sessionId \in DOMAIN sessions
    BY <2>3 DEF activeSessionVerdict, andThen, orElse
  <2> QED
    BY <1>2, <2>2, <2>3, <2>4 DEF Answerable
<1> QED
  BY <1>1, <1>2

\* A recorded answer is found while the session lasts.
LEMMA RecordedIsReplayed ==
  ASSUME NEW request, Answerable(request), Recorded(request),
         sessions[request.sessionId].grant.expiresAt = SessionExpiresAt,
         clock < SessionExpiresAt
  PROVE  mutationVerdict(request) = "replay"
<1>1. \A next : replayOr(request, next) = "replay"
  BY DEF Recorded, replayOr
<1>2. CASE request.operation = "create"
  <2>1. activeSessionVerdict(request.sessionId, {"proposal.create"}) = "ok"
    BY <1>2 DEF Answerable, activeSessionVerdict, andThen, orElse
  <2>2. createVerdict(request) = "ok"
    BY <1>2, <2>1 DEF Answerable, createVerdict, andThen, orElse
  <2> QED
    BY <1>1, <1>2, <2>2 DEF mutationVerdict, andThen
<1>3. CASE request.operation # "create"
  <2>1. activeSessionVerdict(request.sessionId, {}) = "ok"
    BY <1>3 DEF Answerable, activeSessionVerdict, andThen, orElse
  <2>2. stageInputVerdict(request) = "ok"
    BY <1>3, <2>1 DEF Answerable, stageInputVerdict, andThen, orElse
  <2> QED
    BY <1>1, <1>3, <2>2 DEF mutationVerdict, stageVerdict, andThen
<1> QED
  BY <1>2, <1>3

\* Carrying out one mutation records it and leaves the others' records alone.
LEMMA CommitRecords ==
  ASSUME AnswersOnRecord, NEW request, mutationVerdict(request) = "ok",
         NEW proposal, Commit(request, proposal)
  PROVE  AnswersOnRecord'
<1> USE DEF Commit
<1>1. Answerable(request) /\ idempotencyScope(request) \notin DOMAIN idempotency
  BY CarriedOut
<1>2. Answerable(request)' /\ Recorded(request)'
  <2>1. Answerable(request)'
    BY <1>1 DEF Answerable
  <2>2. Recorded(request)'
    BY DEF Recorded, Put
  <2> QED
    BY <2>1, <2>2
<1>3. ASSUME NEW other \in DOMAIN answered, other # request
      PROVE  Answerable(other)' /\ Recorded(other)'
  <2>1. Answerable(other) /\ Recorded(other)
    BY <1>3 DEF AnswersOnRecord
  <2>2. idempotencyScope(other) # idempotencyScope(request)
    BY <1>1, <2>1 DEF Recorded
  <2>3. Recorded(other)'
    BY <1>3, <2>1, <2>2 DEF Recorded, Put
  <2> QED
    BY <2>1, <2>3 DEF Answerable
<1>4. DOMAIN answered' = DOMAIN answered \cup {request}
  BY DEF Put
<1> QED
  BY <1>2, <1>3, <1>4 DEF AnswersOnRecord

\* Every step keeps the answers on record.
LEMMA AnswersOnRecordStep ==
  ASSUME IssuedInOrder, AnswersOnRecord, [Next]_vars
  PROVE  AnswersOnRecord'
<1>1. CASE Quiet
  BY <1>1 DEF Quiet, held, AnswersOnRecord, Answerable, Recorded
<1>2. ASSUME NEW request \in Openings, NEW id \in NextIdentifiers, Opened(request, id)
      PROVE  AnswersOnRecord'
  <2>1. id \notin DOMAIN sessions
    BY <1>2, NextIdentifierIsNew DEF Opened, Issued
  <2>2. /\ DOMAIN sessions' = DOMAIN sessions \cup {id}
        /\ \A other \in DOMAIN sessions : sessions'[other] = sessions[other]
        /\ sessions'[id].grant.expiresAt = SessionExpiresAt
    BY <1>2, <2>1 DEF Opened, Put, Grant
  <2>3. UNCHANGED <<idempotency, answered>>
    BY <1>2 DEF Opened
  <2>4. ASSUME NEW other \in DOMAIN answered
        PROVE  Answerable(other)' /\ Recorded(other)'
    <3>1. Answerable(other) /\ Recorded(other)
      BY DEF AnswersOnRecord
    <3>2. Answerable(other)'
      BY <2>2, <3>1 DEF Answerable
    <3> QED
      BY <2>3, <3>1, <3>2 DEF Recorded
  <2> QED
    BY <2>2, <2>3, <2>4 DEF AnswersOnRecord
<1>3. ASSUME NEW request \in CreateRequests, NEW id \in NextIdentifiers, Created(request, id)
      PROVE  AnswersOnRecord'
  BY <1>3, CommitRecords DEF Created
<1>4. ASSUME NEW request \in StageRequests, Advanced(request)
      PROVE  AnswersOnRecord'
  BY <1>4, CommitRecords DEF Advanced
<1> QED
  BY <1>1, <1>2, <1>3, <1>4, StepEffects

-----------------------------------------------------------------------------
\* A proposal that is validated, under review or decided has a diff.
ReviewIsPrepared ==
    review # NoReview =>
        /\ DOMAIN review = {"proposal", "draftedAt", "choice"}
        /\ IsProposal(review.proposal)
        /\ review.proposal.status \in ProposalStatus
        /\ review.proposal.status \in {"validated"} \cup ReviewStatuses =>
                review.proposal.diff # NoDiff

\* A change of status touches nothing else of the proposal, and its guard looks at the diff.
LEMMA RequestStatusPrepares ==
  ASSUME ReviewIsPrepared, review # NoReview, NEW status \in ProposalStatus, RequestStatus(status)
  PROVE  /\ ReviewIsPrepared'
         /\ review'.proposal.diff = review.proposal.diff
         /\ review'.choice = review.choice
<1> DEFINE before == review.proposal
<1>1. CASE review' = review
  BY <1>1 DEF ReviewIsPrepared
<1>2. CASE review' # review
  <2> DEFINE after == [before EXCEPT !.status = status, !.proposalRevision = @ + 1]
  <2>1. /\ canEnterProposalStatus(before, status)
        /\ review' = [review EXCEPT
                !.proposal = after,
                !.draftedAt = IF status = "draft" THEN after.proposalRevision ELSE @]
    BY <1>2 DEF RequestStatus, transitionProposalStatus, Rejected
  <2>2. /\ DOMAIN review = {"proposal", "draftedAt", "choice"}
        /\ IsProposal(before)
    BY DEF ReviewIsPrepared
  <2> HIDE DEF after
  <2>3. /\ DOMAIN review' = {"proposal", "draftedAt", "choice"}
        /\ review'.proposal = after
        /\ review'.choice = review.choice
    BY <2>1, <2>2
  <2> HIDE DEF before
  <2>4. /\ IsProposal(after)
        /\ after.status = status
        /\ after.diff = before.diff
    BY <2>2 DEF IsProposal, after
  <2>5. status \in {"validated"} \cup ReviewStatuses => before.diff # NoDiff
    BY <2>1 DEF canEnterProposalStatus
  <2> QED
    BY <2>3, <2>4, <2>5 DEF ReviewIsPrepared, before
<1> QED
  BY <1>1, <1>2

\* Every step keeps a review prepared.
LEMMA ReviewIsPreparedStep ==
  ASSUME ReviewIsPrepared, [Next]_vars
  PROVE  ReviewIsPrepared'
<1>1. CASE UNCHANGED review
  BY <1>1 DEF ReviewIsPrepared
<1>2. ASSUME review # NoReview, NEW status \in ProposalStatus, RequestStatus(status)
      PROVE  ReviewIsPrepared'
  BY <1>2, RequestStatusPrepares
<1>3. ASSUME review # NoReview, NEW groups \in DiffGroups, AttachDiff(groups)
      PROVE  ReviewIsPrepared'
  BY <1>3, DiffGroupsAssumption DEF AttachDiff, ReviewIsPrepared, IsProposal
<1>4. ASSUME review # NoReview, NEW status \in {"valid", "invalid"}, AttachValidation(status)
      PROVE  ReviewIsPrepared'
  BY <1>4 DEF AttachValidation, ReviewIsPrepared, IsProposal
<1>5. ASSUME review # NoReview, NEW requested \in Requested, ChooseGroups(requested)
      PROVE  ReviewIsPrepared'
  BY <1>5 DEF ChooseGroups, ReviewIsPrepared
<1>6. Service => UNCHANGED review
  BY DEF Service
<1> QED
  BY <1>1, <1>2, <1>3, <1>4, <1>5, <1>6 DEF Next, Review, vars

-----------------------------------------------------------------------------
AllEdits == UNION {Range(batch) : batch \in Batches}

\* A batch is a sequence of edits.
LEMMA BatchesAreSequences ==
  ASSUME NEW batch \in Batches
  PROVE  batch \in Seq(AllEdits)
<1>1. batch \in Seq(Range(batch)) /\ Range(batch) \subseteq AllEdits
  BY BatchesAssumption DEF AllEdits
<1> QED
  BY <1>1

\* Two sequences in a row hold what either of them holds.
LEMMA RangeOfConcatenation ==
  ASSUME NEW S, NEW first \in Seq(S), NEW second \in Seq(S)
  PROVE  /\ first \o second \in Seq(S)
         /\ Range(first \o second) \subseteq Range(first) \cup Range(second)
<1> DEFINE both == first \o second
<1>1. /\ both \in Seq(S)
      /\ Len(both) = Len(first) + Len(second)
      /\ \A i \in 1 .. Len(both) :
            both[i] = IF i <= Len(first) THEN first[i] ELSE second[i - Len(first)]
  OBVIOUS
<1> HIDE DEF both
<1>2. ASSUME NEW i \in 1 .. Len(both)
      PROVE  both[i] \in Range(first) \cup Range(second)
  <2>1. CASE i <= Len(first)
    <3>1. i \in DOMAIN first /\ both[i] = first[i]
      BY <1>1, <2>1
    <3> QED
      BY <3>1 DEF Range
  <2>2. CASE i > Len(first)
    <3>1. i - Len(first) \in DOMAIN second /\ both[i] = second[i - Len(first)]
      BY <1>1, <2>2
    <3> QED
      BY <3>1 DEF Range
  <2> QED
    BY <1>1, <2>1, <2>2
<1>3. DOMAIN both = 1 .. Len(both)
  BY <1>1
<1> QED
  BY <1>1, <1>2, <1>3 DEF both, Range

\* What a proposal may hold under the request of its session.
Held(asked, edit) ==
    LET named == UNION (asked.scope.allowedNodeIds \cup asked.scope.allowedSectionIds)
    IN  /\ named = {} \/ NodesNamedBy(edit) \subseteq named
        /\ REQUIRED_CAPABILITY_BY_SEMANTIC_EDIT(edit.kind) \in asked.requestedCapabilities
        /\ "evidenceIds" \in DOMAIN edit /\ asked.constraints.requireVerifiedEvidence =>
                edit.evidenceIds
                    \subseteq VerifiedEvidence(asked.target.uri, asked.target.revisionId)
        /\ edit.kind = "delete-block" => asked.constraints.allowDelete
        /\ edit.kind = "move-block" => asked.constraints.allowStructureMove

ProposalsAreHeld ==
    /\ \A id \in DOMAIN sessions :
            sessions[id].grant = Grant(sessions[id].request, id)
    /\ \A id \in DOMAIN proposals :
        /\ proposals[id].sessionId \in DOMAIN sessions
        /\ proposals[id].documentUri = sessions[proposals[id].sessionId].request.target.uri
        /\ proposals[id].baseRevisionId = sessions[proposals[id].sessionId].request.target.revisionId
        /\ proposals[id].semanticEdits \in Seq(AllEdits)
        /\ \A edit \in Range(proposals[id].semanticEdits) :
                Held(sessions[proposals[id].sessionId].request, edit)

\* The checks of an edit look at every field that names a node.
LEMMA NodesAreChecked ==
  ASSUME NEW edit \in AllEdits \ {NotCanonical}
  PROVE  NodesNamedBy(edit) \subseteq semanticEditNodeIds(edit)
<1>1. /\ "targetNodeId" \in DOMAIN edit =>
            edit.kind \in {"replace-block-content", "delete-block", "move-block"}
      /\ "target" \in DOMAIN edit => edit.kind \in {"insert-block", "move-block"}
      /\ "position" \in DOMAIN edit => edit.kind = "insert-citation"
      /\ "targetCitationNodeId" \in DOMAIN edit => edit.kind = "replace-citation"
      /\ "anchor" \in DOMAIN edit => edit.kind = "create-claim"
  BY BatchesAssumption DEF AllEdits
<1> DEFINE field(name) == IF name \in DOMAIN edit THEN {edit[name]} ELSE {}
<1>2. field("targetNodeId") \subseteq semanticEditNodeIds(edit)
  BY <1>1 DEF semanticEditNodeIds
<1>3. /\ field("targetCitationNodeId") \subseteq semanticEditNodeIds(edit)
      /\ field("position") \subseteq semanticEditNodeIds(edit)
  BY <1>1 DEF semanticEditNodeIds
<1>4. \A place \in field("target") :
            {place.parentNodeId} \cup place.siblingNodeId \subseteq semanticEditNodeIds(edit)
  BY <1>1 DEF semanticEditNodeIds, insertionTargetNodeIds
<1>5. \A anchor \in field("anchor") :
            {anchor.primary} \cup anchor.targetNodeId \cup anchor.pathHint
                \subseteq semanticEditNodeIds(edit)
  BY <1>1 DEF semanticEditNodeIds
<1> DEFINE parents == {place.parentNodeId : place \in field("target")}
           siblings == UNION {place.siblingNodeId : place \in field("target")}
           primaries == {anchor.primary : anchor \in field("anchor")}
           hinted == UNION {anchor.targetNodeId \cup anchor.pathHint : anchor \in field("anchor")}
<1>6. NodesNamedBy(edit) =
        field("targetNodeId") \cup field("targetCitationNodeId") \cup field("position")
          \cup parents \cup siblings \cup primaries \cup hinted
  BY DEF NodesNamedBy
<1> HIDE DEF field
<1>7. parents \cup siblings \subseteq semanticEditNodeIds(edit)
  BY <1>4
<1>8. primaries \cup hinted \subseteq semanticEditNodeIds(edit)
  BY <1>5
<1> HIDE DEF parents, siblings, primaries, hinted
<1> QED
  BY <1>2, <1>3, <1>6, <1>7, <1>8

\* An edit that passes the checks stays in the grant.
LEMMA CheckedEditIsHeld ==
  ASSUME NEW asked, NEW id, NEW edit \in AllEdits \ {NotCanonical},
         semanticEditVerdict(Grant(asked, id), edit) = "ok"
  PROVE  Held(asked, edit)
<1> DEFINE grant == Grant(asked, id)
<1>1. /\ REQUIRED_CAPABILITY_BY_SEMANTIC_EDIT(edit.kind) \in grant.grantedCapabilities
      /\ semanticEditPolicyVerdict(grant, edit) = "ok"
      /\ AllowedNodeIds(grant) = {} \/ semanticEditNodeIds(edit) \subseteq AllowedNodeIds(grant)
  BY DEF semanticEditVerdict, andThen, orElse
<1>2. /\ edit.kind = "delete-block" => grant.constraints.allowDelete
      /\ edit.kind = "move-block" => grant.constraints.allowStructureMove
      /\ citationPolicyVerdict(grant, edit) = "ok"
  BY <1>1 DEF semanticEditPolicyVerdict, andThen, orElse
<1>3. /\ grant.grantedCapabilities = asked.requestedCapabilities
      /\ grant.constraints = asked.constraints
      /\ grant.target = asked.target
      /\ AllowedNodeIds(grant) = UNION (asked.scope.allowedNodeIds \cup asked.scope.allowedSectionIds)
  BY DEF Grant, AllowedNodeIds
<1> HIDE DEF grant
<1>4. ASSUME "evidenceIds" \in DOMAIN edit, asked.constraints.requireVerifiedEvidence
      PROVE  edit.evidenceIds
                \subseteq VerifiedEvidence(asked.target.uri, asked.target.revisionId)
  <2>1. edit.kind \in {"insert-citation", "replace-citation"}
    BY <1>4, BatchesAssumption DEF AllEdits
  <2>2. CASE edit.evidenceIds = {}
    BY <2>2
  <2>3. CASE edit.evidenceIds # {}
    <3>1. allEvidenceVerified(grant, edit.evidenceIds)
      BY <1>2, <1>3, <1>4, <2>1, <2>3 DEF citationPolicyVerdict, orElse
    <3> QED
      BY <1>3, <3>1 DEF allEvidenceVerified
  <2> QED
    BY <2>2, <2>3
<1> QED
  BY <1>1, <1>2, <1>3, <1>4, NodesAreChecked DEF Held

\* So do all edits of a batch that passes them.
LEMMA CheckedEditsAreHeld ==
  ASSUME NEW asked, NEW id, NEW edits \in Batches, NotCanonical \notin Range(edits),
         semanticEditsVerdict(Grant(asked, id), edits) = "ok"
  PROVE  \A edit \in Range(edits) : Held(asked, edit)
<1> DEFINE refused == {i \in DOMAIN edits : semanticEditVerdict(Grant(asked, id), edits[i]) # "ok"}
<1>1. refused \subseteq Nat
  BY BatchesAreSequences
<1>2. refused = {} \/
      semanticEditVerdict(Grant(asked, id),
                          edits[CHOOSE i \in refused : \A j \in refused : i <= j]) = "ok"
  BY DEF semanticEditsVerdict, andThen
<1>3. refused = {}
  <2> SUFFICES ASSUME refused # {} PROVE FALSE
    OBVIOUS
  <2> DEFINE first == CHOOSE i \in refused : \A j \in refused : i <= j
  <2>1. first \in refused
    <3> HIDE DEF refused
    <3>1. \E i \in refused : \A j \in refused : i <= j
      BY <1>1, LeastExists
    <3> QED
      BY <3>1
  <2> QED
    BY <1>2, <2>1
<1>4. ASSUME NEW i \in DOMAIN edits PROVE Held(asked, edits[i])
  <2>1. edits[i] \in AllEdits \ {NotCanonical}
    BY DEF Range, AllEdits
  <2>2. semanticEditVerdict(Grant(asked, id), edits[i]) = "ok"
    BY <1>3
  <2> QED
    BY <2>1, <2>2, CheckedEditIsHeld
<1> QED
  BY <1>4 DEF Range

\* A stage that is carried out names a proposal of its session, and its edits stay in the
\* grant of that session.
LEMMA StageIsHeld ==
  ASSUME ProposalsAreHeld, NEW request \in StageRequests, mutationVerdict(request) = "ok"
  PROVE  /\ request.sessionId \in DOMAIN sessions
         /\ request.semanticEdits \in Batches
         /\ proposals[request.proposal.proposalId].sessionId = request.sessionId
         /\ \A edit \in Range(request.semanticEdits) :
                Held(sessions[request.sessionId].request, edit)
<1> DEFINE grant == sessions[request.sessionId].grant
           next == andThen(proposalForStagingVerdict(request, grant), semanticEditsOf(request))
<1>1. /\ request.operation = "stage"
      /\ request.sessionId \in DOMAIN sessions
      /\ request.semanticEdits \in Batches
  BY DEF StageRequests
<1>2. stageInputVerdict(request) = "ok" /\ replayOr(request, next) = "ok"
  BY <1>1 DEF mutationVerdict, stageVerdict, andThen
<1>3. proposalForStagingVerdict(request, grant) = "ok" /\ semanticEditsOf(request) = "ok"
  BY <1>2 DEF replayOr, andThen
<1>4. NotCanonical \notin Range(request.semanticEdits)
  BY <1>2 DEF stageInputVerdict, andThen, orElse
<1>5. grant = Grant(sessions[request.sessionId].request, request.sessionId)
  BY <1>1 DEF ProposalsAreHeld
<1>6. proposals[request.proposal.proposalId].sessionId = grant.sessionId
  BY <1>3 DEF proposalForStagingVerdict, proposalBelongsToSession, andThen, orElse
<1>7. grant.sessionId = request.sessionId
  BY <1>5 DEF Grant
<1>8. \A edit \in Range(request.semanticEdits) : Held(sessions[request.sessionId].request, edit)
  BY <1>1, <1>3, <1>4, <1>5, CheckedEditsAreHeld DEF semanticEditsOf
<1> QED
  BY <1>1, <1>6, <1>7, <1>8

\* Every step keeps the proposals in their grants.
LEMMA ProposalsAreHeldStep ==
  ASSUME IssuedInOrder, ProposalsAreHeld, [Next]_vars
  PROVE  ProposalsAreHeld'
<1>1. CASE Quiet
  BY <1>1 DEF Quiet, held, ProposalsAreHeld
<1>2. ASSUME NEW request \in Openings, NEW id \in NextIdentifiers, Opened(request, id)
      PROVE  ProposalsAreHeld'
  <2>1. id \notin DOMAIN sessions
    BY <1>2, NextIdentifierIsNew DEF Opened, Issued
  <2>2. /\ DOMAIN sessions' = DOMAIN sessions \cup {id}
        /\ \A other \in DOMAIN sessions : sessions'[other] = sessions[other]
        /\ sessions'[id].grant = Grant(sessions'[id].request, id)
        /\ proposals' = proposals
    BY <1>2, <2>1 DEF Opened, Put
  <2> QED
    BY <2>2 DEF ProposalsAreHeld
<1>3. ASSUME NEW request \in CreateRequests, NEW id \in NextIdentifiers, Created(request, id)
      PROVE  ProposalsAreHeld'
  <2> DEFINE grant == sessions[request.sessionId].grant
             new == NewProposal(grant, id)
  <2>1. request.sessionId \in DOMAIN sessions
    BY <1>3, CarriedOut DEF Created, Answerable
  <2>2. grant = Grant(sessions[request.sessionId].request, request.sessionId)
    BY <2>1 DEF ProposalsAreHeld
  <2>3. /\ grant.sessionId = request.sessionId
        /\ grant.target = sessions[request.sessionId].request.target
    BY <2>2 DEF Grant
  <2>4. /\ new.id = id
        /\ new.sessionId = request.sessionId
        /\ new.documentUri = sessions[request.sessionId].request.target.uri
        /\ new.baseRevisionId = sessions[request.sessionId].request.target.revisionId
        /\ new.semanticEdits = <<>>
    BY <2>3 DEF NewProposal
  <2> HIDE DEF new
  <2>5. /\ proposals' = Put(proposals, id, new)
        /\ sessions' = sessions
    BY <1>3, <2>4 DEF Created, Commit, new
  <2>6. Range(new.semanticEdits) = {} /\ new.semanticEdits \in Seq(AllEdits)
    BY <2>4 DEF Range
  <2> QED
    BY <2>1, <2>4, <2>5, <2>6 DEF ProposalsAreHeld, Put
<1>4. ASSUME NEW request \in StageRequests, Advanced(request)
      PROVE  ProposalsAreHeld'
  <2> DEFINE id == request.proposal.proposalId
             before == proposals[id]
             new == Staged(before, request.semanticEdits)
             asked == sessions[request.sessionId].request
  <2>1. id \in DOMAIN proposals
    BY <1>4, StageNamesAProposal DEF Advanced
  <2>2. IsProposal(before) /\ before.id = id
    BY <2>1 DEF IssuedInOrder
  <2>3. /\ request.sessionId \in DOMAIN sessions
        /\ request.semanticEdits \in Batches
        /\ before.sessionId = request.sessionId
        /\ \A edit \in Range(request.semanticEdits) : Held(asked, edit)
    BY <1>4, StageIsHeld DEF Advanced
  <2>4. /\ before.documentUri = asked.target.uri
        /\ before.baseRevisionId = asked.target.revisionId
        /\ before.semanticEdits \in Seq(AllEdits)
        /\ \A edit \in Range(before.semanticEdits) : Held(asked, edit)
    BY <2>1, <2>3 DEF ProposalsAreHeld
  <2>5. /\ new.id = id
        /\ new.sessionId = request.sessionId
        /\ new.documentUri = asked.target.uri
        /\ new.baseRevisionId = asked.target.revisionId
        /\ new.semanticEdits = before.semanticEdits \o request.semanticEdits
    BY <2>2, <2>3, <2>4, StagedKeepsItsPlace
  <2> HIDE DEF new
  <2>6. request.semanticEdits \in Seq(AllEdits)
    BY <2>3, BatchesAreSequences
  <2>7. /\ new.semanticEdits \in Seq(AllEdits)
        /\ \A edit \in Range(new.semanticEdits) : Held(asked, edit)
    BY <2>3, <2>4, <2>5, <2>6, RangeOfConcatenation
  <2>8. proposals' = Put(proposals, id, new) /\ sessions' = sessions
    BY <1>4, <2>5 DEF Advanced, Commit, new
  <2> HIDE DEF id
  <2> QED
    BY <2>1, <2>3, <2>5, <2>7, <2>8 DEF ProposalsAreHeld, Put
<1> QED
  BY <1>1, <1>2, <1>3, <1>4, StepEffects

-----------------------------------------------------------------------------
\* The sequences, appended one after the other.
FlattensTo(seqs, f) ==
    \A i \in 1 .. Len(seqs) : f[i] = IF i = 1 THEN seqs[i] ELSE f[i - 1] \o seqs[i]

\* FlattenSeq() is well defined.
LEMMA FlattenInOrder ==
  ASSUME NEW S, NEW seqs \in Seq(S)
  PROVE  \E f : /\ FlattensTo(seqs, f)
                /\ FlattenSeq(seqs) = IF Len(seqs) = 0 THEN seqs ELSE f[Len(seqs)]
<1> DEFINE N == Len(seqs)
           Next1(f, i) == IF i = 1 THEN seqs[i] ELSE f[i - 1] \o seqs[i]
           Reached == {n \in 0 .. N : \E f : f = [i \in 1 .. n |-> Next1(f, i)]}
<1>1. N \in Nat
  BY LenProperties
<1>2. 0 \in Reached
  <2> DEFINE f == [i \in 1 .. 0 |-> 0]
  <2>1. f = [i \in 1 .. 0 |-> Next1(f, i)]
    OBVIOUS
  <2>2. 0 \in 0 .. N
    BY <1>1
  <2> HIDE DEF f, Next1, N
  <2> QED
    BY <2>1, <2>2
<1>3. ASSUME NEW n \in 0 .. N - 1, n \in Reached
      PROVE  n + 1 \in Reached
  <2>1. PICK f : f = [i \in 1 .. n |-> Next1(f, i)]
    BY <1>3
  <2> DEFINE g == [i \in 1 .. n + 1 |-> IF i <= n THEN f[i] ELSE Next1(f, i)]
  <2>2. ASSUME NEW i \in 1 .. n + 1
        PROVE  g[i] = Next1(g, i)
    <3>1. g[i] = Next1(f, i)
      <4>1. CASE i <= n
        <5>1. i \in 1 .. n
          BY <4>1
        <5>2. f[i] = Next1(f, i)
          BY <2>1, <5>1
        <5> QED
          BY <4>1, <5>2
      <4>2. CASE ~(i <= n)
        BY <4>2
      <4> QED
        BY <4>1, <4>2
    <3>2. CASE i = 1
      BY <3>1, <3>2
    <3>3. CASE i # 1
      <4>1. i - 1 \in 1 .. n
        BY <1>1, <3>3
      <4>2. g[i - 1] = f[i - 1]
        BY <4>1
      <4> QED
        BY <3>1, <3>3, <4>2
    <3> QED
      BY <3>2, <3>3
  <2>3. g = [i \in 1 .. n + 1 |-> Next1(g, i)]
    <3> HIDE DEF Next1
    <3> QED
      BY <2>2
  <2>4. n + 1 \in 0 .. N
    BY <1>1
  <2> HIDE DEF g
  <2> QED
    BY <2>3, <2>4
<1>4. N \in Reached
  <2> HIDE DEF Reached
  <2>1. \A n \in 0 .. N : n \in Reached
    BY <1>1, <1>2, <1>3, InductionUpTo
  <2> QED
    BY <1>1, <2>1
<1> DEFINE flatten == CHOOSE f : f = [i \in 1 .. N |-> Next1(f, i)]
<1>5. flatten = [i \in 1 .. N |-> Next1(flatten, i)]
  BY <1>4
<1>6. FlattenSeq(seqs) = IF N = 0 THEN seqs ELSE flatten[N]
  BY DEF FlattenSeq
<1> HIDE DEF flatten
<1>7. FlattensTo(seqs, flatten)
  BY <1>5 DEF FlattensTo
<1> QED
  BY <1>6, <1>7

\* A sequence of sequences, flattened, ends with the last of them.
LEMMA FlattenAppend ==
  ASSUME NEW S, NEW seqs \in Seq(Seq(S)), NEW last \in Seq(S)
  PROVE  FlattenSeq(Append(seqs, last)) = FlattenSeq(seqs) \o last
<1> DEFINE all == Append(seqs, last)
           N == Len(seqs)
<1>1. /\ all \in Seq(Seq(S))
      /\ N \in Nat
      /\ Len(all) = N + 1
      /\ \A i \in 1 .. N : all[i] = seqs[i]
      /\ all[N + 1] = last
  OBVIOUS
<1>2. PICK f : /\ FlattensTo(seqs, f)
               /\ FlattenSeq(seqs) = IF N = 0 THEN seqs ELSE f[N]
  BY FlattenInOrder
<1> HIDE DEF all
<1>3. PICK g : /\ FlattensTo(all, g)
               /\ FlattenSeq(all) = IF Len(all) = 0 THEN all ELSE g[Len(all)]
  BY <1>1, FlattenInOrder
<1>4. FlattenSeq(all) = g[N + 1]
  BY <1>1, <1>3
<1>5. CASE N = 0
  <2>1. seqs = <<>> /\ FlattenSeq(seqs) = <<>>
    BY <1>2, <1>5, EmptySeq
  <2>2. g[1] = last
    BY <1>1, <1>3, <1>5 DEF FlattensTo
  <2>3. <<>> \o last = last
    OBVIOUS
  <2> QED
    BY <1>4, <1>5, <2>1, <2>2, <2>3 DEF all
<1>6. CASE N # 0
  <2> DEFINE Same == {n \in 0 .. N : n # 0 => f[n] = g[n]}
  <2>1. 0 \in Same
    BY <1>1
  <2>2. ASSUME NEW n \in 0 .. N - 1, n \in Same
        PROVE  n + 1 \in Same
    <3>1. n + 1 \in 1 .. N /\ n + 1 \in 1 .. N + 1 /\ (n + 1) - 1 = n
      BY <1>1
    <3>2. /\ f[n + 1] = IF n + 1 = 1 THEN seqs[n + 1] ELSE f[n] \o seqs[n + 1]
          /\ g[n + 1] = IF n + 1 = 1 THEN all[n + 1] ELSE g[n] \o all[n + 1]
      BY <1>1, <1>2, <1>3, <3>1 DEF FlattensTo
    <3>3. all[n + 1] = seqs[n + 1]
      BY <1>1, <3>1
    <3>4. n + 1 # 1 => f[n] = g[n]
      BY <2>2
    <3>5. f[n + 1] = g[n + 1]
      BY <3>2, <3>3, <3>4
    <3> QED
      BY <3>1, <3>5
  <2>3. f[N] = g[N]
    <3> HIDE DEF Same
    <3>1. \A n \in 0 .. N : n \in Same
      BY <1>1, <2>1, <2>2, InductionUpTo
    <3> QED
      BY <1>1, <1>6, <3>1 DEF Same
  <2>4. N + 1 \in 1 .. N + 1 /\ N + 1 # 1 /\ (N + 1) - 1 = N
    BY <1>1, <1>6
  <2>5. g[N + 1] = g[N] \o last
    BY <1>1, <1>3, <2>4 DEF FlattensTo
  <2> QED
    BY <1>2, <1>4, <1>6, <2>3, <2>5 DEF all
<1> QED
  BY <1>5, <1>6

\* What a proposal consists of: a record for each revision but the first, of the batch that
\* made it.
IsRecorded(id) ==
    LET last == proposals[id].proposalRevision
    IN  /\ last \in Nat \ {0}
        /\ IsFiniteSet(StageRecords(id)) /\ Cardinality(StageRecords(id)) = last - 1
        /\ {idempotency[scope].proposal.proposalRevision : scope \in StageRecords(id)} = 2 .. last
        /\ \A scope \in StageRecords(id) :
            /\ idempotency[scope].input.proposal.expectedProposalRevision + 1
                    = idempotency[scope].proposal.proposalRevision
            /\ idempotency[scope].input.semanticEdits \in Seq(AllEdits)
            /\ \A other \in StageRecords(id) :
                    idempotency[other].proposal.proposalRevision
                        = idempotency[scope].proposal.proposalRevision => other = scope
        /\ proposals[id].semanticEdits = FlattenSeq([n \in 1 .. last - 1 |-> BatchOf(id, n + 1)])

EditsAreRecorded ==
    /\ \A scope \in DOMAIN idempotency :
            scope[1] = "stage" => idempotency[scope].proposal.id \in DOMAIN proposals
    /\ \A id \in DOMAIN proposals : IsRecorded(id)

\* The batch of a revision is that of its only record.
LEMMA BatchIsOnRecord ==
  ASSUME NEW id, NEW scope \in StageRecords(id),
         \A other \in StageRecords(id) :
            idempotency[other].proposal.proposalRevision
                = idempotency[scope].proposal.proposalRevision => other = scope
  PROVE  BatchOf(id, idempotency[scope].proposal.proposalRevision)
            = idempotency[scope].input.semanticEdits
<1> DEFINE revision == idempotency[scope].proposal.proposalRevision
           chosen == CHOOSE s \in StageRecords(id) :
                        idempotency[s].proposal.proposalRevision = revision
<1>1. chosen \in StageRecords(id) /\ idempotency[chosen].proposal.proposalRevision = revision
  OBVIOUS
<1>2. chosen = scope
  BY <1>1
<1> QED
  BY <1>2 DEF BatchOf

\* Where the records of a proposal stay, so do its batches.
LEMMA BatchStays ==
  ASSUME NEW id, IsRecorded(id), NEW revision \in 2 .. proposals[id].proposalRevision,
         StageRecords(id) \subseteq StageRecords(id)',
         \A scope \in StageRecords(id) : idempotency'[scope] = idempotency[scope],
         \A scope \in StageRecords(id)' \ StageRecords(id) :
            idempotency'[scope].proposal.proposalRevision # revision
  PROVE  /\ BatchOf(id, revision)' = BatchOf(id, revision)
         /\ BatchOf(id, revision) \in Seq(AllEdits)
<1>1. PICK scope \in StageRecords(id) : idempotency[scope].proposal.proposalRevision = revision
  BY DEF IsRecorded
<1>2. /\ BatchOf(id, revision) = idempotency[scope].input.semanticEdits
      /\ idempotency[scope].input.semanticEdits \in Seq(AllEdits)
  BY <1>1, BatchIsOnRecord DEF IsRecorded
<1>3. \A other \in StageRecords(id)' :
        idempotency'[other].proposal.proposalRevision = revision => other = scope
  BY <1>1 DEF IsRecorded
<1> DEFINE chosen == CHOOSE s \in StageRecords(id)' :
                        idempotency'[s].proposal.proposalRevision = revision
<1>4. scope \in StageRecords(id)' /\ idempotency'[scope].proposal.proposalRevision = revision
  BY <1>1
<1>5. chosen \in StageRecords(id)' /\ idempotency'[chosen].proposal.proposalRevision = revision
  BY <1>4
<1>6. chosen = scope
  BY <1>3, <1>5
<1>7. BatchOf(id, revision)' = idempotency'[chosen].input.semanticEdits
  BY DEF BatchOf
<1> QED
  BY <1>1, <1>2, <1>6, <1>7

\* A proposal whose records are the same is made of them as before.
LEMMA OthersStayRecorded ==
  ASSUME NEW id, IsRecorded(id), proposals'[id] = proposals[id],
         StageRecords(id)' = StageRecords(id),
         \A scope \in StageRecords(id) : idempotency'[scope] = idempotency[scope]
  PROVE  IsRecorded(id)'
<1> DEFINE last == proposals[id].proposalRevision
           batches == [n \in 1 .. last - 1 |-> BatchOf(id, n + 1)]
<1>1. last \in Nat \ {0}
  BY DEF IsRecorded
<1>2. \A n \in 1 .. last - 1 : BatchOf(id, n + 1)' = BatchOf(id, n + 1)
  <2>1. \A n \in 1 .. last - 1 : n + 1 \in 2 .. last
    BY <1>1
  <2> QED
    BY <2>1, BatchStays
<1>3. [n \in 1 .. proposals'[id].proposalRevision - 1 |-> BatchOf(id, n + 1)'] = batches
  BY <1>2
<1>4. proposals'[id].semanticEdits =
        FlattenSeq([n \in 1 .. proposals'[id].proposalRevision - 1 |-> BatchOf(id, n + 1)'])
  BY <1>3 DEF IsRecorded
<1>5. {idempotency'[scope].proposal.proposalRevision : scope \in StageRecords(id)'} = 2 .. last
  BY DEF IsRecorded
<1> QED
  BY <1>4, <1>5 DEF IsRecorded

\* A creation changes no record of a stage.
LEMMA CreatedIsRecorded ==
  ASSUME IssuedInOrder, EditsAreRecorded,
         NEW request \in CreateRequests, NEW id \in NextIdentifiers, Created(request, id)
  PROVE  EditsAreRecorded'
<1> DEFINE new == NewProposal(sessions[request.sessionId].grant, id)
           scope == idempotencyScope(request)
           record == [input |-> canonicalInput(request), proposal |-> new]
<1>1. id \notin DOMAIN proposals
  BY NextIdentifierIsNew DEF Created, Issued
<1>2. /\ new.id = id
      /\ new.proposalRevision = 1
      /\ new.semanticEdits = <<>>
  BY DEF NewProposal
<1>3. scope[1] = "create"
  BY DEF CreateRequests, idempotencyScope
<1>4. scope \notin DOMAIN idempotency
  BY CarriedOut DEF Created
<1>5. proposals' = Put(proposals, id, new) /\ idempotency' = Put(idempotency, scope, record)
  BY <1>2 DEF Created, Commit
<1> HIDE DEF new, scope, record
<1>6. /\ DOMAIN proposals' = DOMAIN proposals \cup {id}
      /\ proposals'[id] = new
      /\ \A other \in DOMAIN proposals : proposals'[other] = proposals[other]
      /\ DOMAIN idempotency' = DOMAIN idempotency \cup {scope}
      /\ \A other \in DOMAIN idempotency : idempotency'[other] = idempotency[other]
  BY <1>1, <1>4, <1>5 DEF Put
<1>7. \A other : StageRecords(other)' = StageRecords(other)
  BY <1>3, <1>4, <1>6 DEF StageRecords
<1>8. StageRecords(id) = {}
  BY <1>1 DEF EditsAreRecorded, StageRecords
<1>9. IsRecorded(id)'
  <2>1. Cardinality({}) = 0 /\ IsFiniteSet({})
    BY FS_EmptySet
  <2>2. StageRecords(id)' = {}
    BY <1>7, <1>8
  <2> DEFINE batches == [n \in 1 .. proposals'[id].proposalRevision - 1 |-> BatchOf(id, n + 1)']
  <2>3. batches = <<>>
    BY <1>2, <1>6
  <2>4. FlattenSeq(batches) = <<>>
    BY <2>3, EmptySeq DEF FlattenSeq
  <2> HIDE DEF batches
  <2>5. proposals'[id].semanticEdits = FlattenSeq(batches)
    BY <1>2, <1>6, <2>4
  <2>6. {idempotency'[s].proposal.proposalRevision : s \in StageRecords(id)'} = 2 .. 1
    BY <2>2
  <2> QED
    BY <1>2, <1>6, <2>1, <2>2, <2>5, <2>6 DEF IsRecorded, batches
<1>10. ASSUME NEW other \in DOMAIN proposals
       PROVE  IsRecorded(other)'
  <2>1. \A s \in StageRecords(other) : s \in DOMAIN idempotency
    BY DEF StageRecords
  <2> QED
    BY <1>6, <1>7, <2>1, OthersStayRecorded DEF EditsAreRecorded
<1>11. \A s \in DOMAIN idempotency' :
        s[1] = "stage" => idempotency'[s].proposal.id \in DOMAIN proposals'
  BY <1>3, <1>6 DEF EditsAreRecorded
<1> QED
  BY <1>6, <1>9, <1>10, <1>11 DEF EditsAreRecorded

\* A stage adds the record of its batch, made on the revision before.
LEMMA AdvancedIsRecorded ==
  ASSUME IssuedInOrder, ProposalsAreHeld, EditsAreRecorded,
         NEW request \in StageRequests, Advanced(request)
  PROVE  EditsAreRecorded'
<1> DEFINE id == request.proposal.proposalId
           last == proposals[id].proposalRevision
           edits == request.semanticEdits
           new == Staged(proposals[id], edits)
           scope == idempotencyScope(request)
           record == [input |-> canonicalInput(request), proposal |-> new]
<1>1. id \in DOMAIN proposals /\ mutationVerdict(request) = "ok"
  BY StageNamesAProposal DEF Advanced
<1>2. IsProposal(proposals[id]) /\ proposals[id].id = id /\ IsRecorded(id)
  BY <1>1 DEF IssuedInOrder, EditsAreRecorded
<1>3. /\ new.id = id
      /\ new.proposalRevision = last + 1
      /\ new.semanticEdits = proposals[id].semanticEdits \o edits
  BY <1>2 DEF Staged, IsProposal
<1>4. scope[1] = "stage" /\ request.operation = "stage"
  BY DEF StageRequests, idempotencyScope
<1>5. scope \notin DOMAIN idempotency
  BY <1>1, CarriedOut
<1>6. request.proposal.expectedProposalRevision = last
  <2>1. replayOr(request,
            andThen(proposalForStagingVerdict(request, sessions[request.sessionId].grant),
                    semanticEditsOf(request))) = "ok"
    BY <1>1, <1>4 DEF mutationVerdict, stageVerdict, andThen
  <2>2. proposalForStagingVerdict(request, sessions[request.sessionId].grant) = "ok"
    BY <2>1 DEF replayOr, andThen
  <2> QED
    BY <2>2 DEF proposalForStagingVerdict, andThen, orElse
<1>7. edits \in Seq(AllEdits)
  BY <1>1, StageIsHeld, BatchesAreSequences
<1>8. /\ record.input.proposal.expectedProposalRevision = last
      /\ record.input.semanticEdits = edits
      /\ record.proposal = new
  BY <1>4, <1>6 DEF canonicalInput
<1>9. proposals' = Put(proposals, id, new) /\ idempotency' = Put(idempotency, scope, record)
  BY <1>3 DEF Advanced, Commit
<1>10. last \in Nat \ {0}
  BY <1>2 DEF IsRecorded
<1> HIDE DEF id, last, edits, new, scope, record
<1>11. /\ DOMAIN proposals' = DOMAIN proposals
       /\ proposals'[id] = new
       /\ \A other \in DOMAIN proposals \ {id} : proposals'[other] = proposals[other]
       /\ DOMAIN idempotency' = DOMAIN idempotency \cup {scope}
       /\ idempotency'[scope] = record
       /\ \A other \in DOMAIN idempotency : idempotency'[other] = idempotency[other]
  BY <1>1, <1>5, <1>9 DEF Put
<1>12. \A other : StageRecords(other)' =
            IF other = id THEN StageRecords(other) \cup {scope} ELSE StageRecords(other)
  BY <1>3, <1>4, <1>5, <1>8, <1>11 DEF StageRecords
<1>13. \A other : \A s \in StageRecords(other) :
            s \in DOMAIN idempotency /\ idempotency'[s] = idempotency[s]
  BY <1>11 DEF StageRecords
<1>14. ASSUME NEW other \in DOMAIN proposals, other # id
       PROVE  IsRecorded(other)'
  BY <1>11, <1>12, <1>13, <1>14, OthersStayRecorded DEF EditsAreRecorded
<1>15. ASSUME NEW this, this = id, NEW l, l = last
       PROVE  IsRecorded(this)'
  <2> DEFINE batches == [n \in 1 .. l - 1 |-> BatchOf(this, n + 1)]
             batches1 == [n \in 1 .. l |-> BatchOf(this, n + 1)']
  <2>0. l \in Nat \ {0}
    BY <1>10, <1>15
  <2>1. /\ scope \notin StageRecords(this)
        /\ StageRecords(this)' = StageRecords(this) \cup {scope}
        /\ IsRecorded(this)
        /\ proposals[this].proposalRevision = l
        /\ proposals'[this] = new
    BY <1>2, <1>5, <1>11, <1>12, <1>15 DEF StageRecords, last
  <2>2. /\ idempotency'[scope].proposal.proposalRevision = l + 1
        /\ idempotency'[scope].input.proposal.expectedProposalRevision = l
        /\ idempotency'[scope].input.semanticEdits = edits
    BY <1>3, <1>8, <1>11, <1>15
  <2>3. {idempotency[s].proposal.proposalRevision : s \in StageRecords(this)} = 2 .. l
    BY <2>1 DEF IsRecorded
  <2>4. \A s \in StageRecords(this) :
            idempotency'[s] = idempotency[s] /\ idempotency'[s].proposal.proposalRevision \in 2 .. l
    BY <1>13, <2>3
  <2>5. {idempotency'[s].proposal.proposalRevision : s \in StageRecords(this)'} = 2 .. l + 1
    <3>1. {idempotency'[s].proposal.proposalRevision : s \in StageRecords(this)} = 2 .. l
      BY <2>3, <2>4
    <3>2. {idempotency'[s].proposal.proposalRevision : s \in StageRecords(this) \cup {scope}}
            = (2 .. l) \cup {l + 1}
      BY <2>2, <3>1
    <3>3. (2 .. l) \cup {l + 1} = 2 .. l + 1
      BY <2>0
    <3> QED
      BY <2>1, <3>2, <3>3
  <2>6. \A s \in StageRecords(this)' :
            /\ idempotency'[s].input.proposal.expectedProposalRevision + 1
                    = idempotency'[s].proposal.proposalRevision
            /\ idempotency'[s].input.semanticEdits \in Seq(AllEdits)
            /\ \A other \in StageRecords(this)' :
                    idempotency'[other].proposal.proposalRevision
                        = idempotency'[s].proposal.proposalRevision => other = s
    BY <1>7, <2>0, <2>1, <2>2, <2>4 DEF IsRecorded
  <2>7. IsFiniteSet(StageRecords(this)') /\ Cardinality(StageRecords(this)') = (l + 1) - 1
    <3>1. /\ IsFiniteSet(StageRecords(this) \cup {scope})
          /\ Cardinality(StageRecords(this) \cup {scope}) = Cardinality(StageRecords(this)) + 1
      BY <2>1, FS_AddElement DEF IsRecorded
    <3> QED
      BY <2>0, <2>1, <3>1 DEF IsRecorded
  <2>8. \A n \in 1 .. l - 1 : /\ BatchOf(this, n + 1)' = BatchOf(this, n + 1)
                                 /\ BatchOf(this, n + 1) \in Seq(AllEdits)
    <3>1. ASSUME NEW n \in 1 .. l - 1
          PROVE  /\ BatchOf(this, n + 1)' = BatchOf(this, n + 1)
                 /\ BatchOf(this, n + 1) \in Seq(AllEdits)
      <4>1. n + 1 \in 2 .. l /\ l + 1 # n + 1
        BY <2>0
      <4> QED
        BY <1>13, <2>1, <2>2, <4>1, BatchStays
    <3> QED
      BY <3>1
  <2>9. BatchOf(this, l + 1)' = edits
    <3> DEFINE chosen == CHOOSE s \in StageRecords(this)' :
                            idempotency'[s].proposal.proposalRevision = l + 1
    <3>1. scope \in StageRecords(this)'
      BY <2>1
    <3>2. chosen \in StageRecords(this)' /\ idempotency'[chosen].proposal.proposalRevision = l + 1
      BY <2>2, <3>1
    <3>3. chosen = scope
      BY <2>2, <2>6, <3>1, <3>2
    <3>4. BatchOf(this, l + 1)' = idempotency'[chosen].input.semanticEdits
      BY DEF BatchOf
    <3> QED
      BY <2>2, <3>3, <3>4
  <2>10. batches \in Seq(Seq(AllEdits)) /\ Len(batches) = l - 1
    <3>1. l - 1 \in Nat
      BY <2>0
    <3>2. \A n \in 1 .. l - 1 : BatchOf(this, n + 1) \in Seq(AllEdits)
      BY <2>8
    <3> QED
      BY <3>1, <3>2, IsASeq
  <2>11. batches1 = Append(batches, edits)
    <3>1. /\ Append(batches, edits) = [n \in 1 .. l |-> Append(batches, edits)[n]]
          /\ \A n \in 1 .. l - 1 : Append(batches, edits)[n] = batches[n]
          /\ Append(batches, edits)[l] = edits
      <4> DEFINE all == Append(batches, edits)
      <4> HIDE DEF batches
      <4>1. /\ all \in Seq(Seq(AllEdits))
            /\ Len(all) = Len(batches) + 1
            /\ \A n \in 1 .. Len(batches) : all[n] = batches[n]
            /\ all[Len(batches) + 1] = edits
        BY <1>7, <2>10, AppendProperties
      <4>2. Len(all) = l /\ Len(batches) + 1 = l
        BY <2>0, <2>10, <4>1
      <4> HIDE DEF all
      <4>3. all = [n \in 1 .. l |-> all[n]]
        BY <4>1, <4>2, LenProperties
      <4> QED
        BY <2>10, <4>1, <4>2, <4>3 DEF all
    <3>2. ASSUME NEW n \in 1 .. l
          PROVE  batches1[n] = Append(batches, edits)[n]
      <4>1. CASE n = l
        BY <2>9, <3>1, <4>1
      <4>2. CASE n # l
        <5>1. n \in 1 .. l - 1
          BY <2>0, <4>2
        <5> QED
          BY <2>8, <3>1, <5>1
      <4> QED
        BY <4>1, <4>2
    <3> HIDE DEF batches
    <3> QED
      BY <3>1, <3>2
  <2>12. FlattenSeq(batches1) = FlattenSeq(batches) \o edits
    <3> HIDE DEF batches, batches1
    <3> QED
      BY <1>7, <2>10, <2>11, FlattenAppend
  <2>13. new.semanticEdits = FlattenSeq(batches1)
    <3>1. proposals[this].semanticEdits = FlattenSeq(batches)
      BY <2>1 DEF IsRecorded
    <3> HIDE DEF batches, batches1
    <3> QED
      BY <1>3, <1>15, <2>12, <3>1
  <2>14. l + 1 \in Nat \ {0} /\ (l + 1) - 1 = l
    BY <2>0
  <2>15. new.semanticEdits = FlattenSeq([n \in 1 .. (l + 1) - 1 |-> BatchOf(this, n + 1)'])
    BY <2>13, <2>14
  <2> HIDE DEF batches, batches1
  <2> QED
    BY <1>3, <1>15, <2>1, <2>5, <2>6, <2>7, <2>14, <2>15 DEF IsRecorded
<1>16. \A s \in DOMAIN idempotency' :
        s[1] = "stage" => idempotency'[s].proposal.id \in DOMAIN proposals'
  BY <1>1, <1>3, <1>8, <1>11 DEF EditsAreRecorded
<1> QED
  BY <1>11, <1>14, <1>15, <1>16 DEF EditsAreRecorded

\* Every step keeps the edits on record.
LEMMA EditsAreRecordedStep ==
  ASSUME IssuedInOrder, ProposalsAreHeld, EditsAreRecorded, [Next]_vars
  PROVE  EditsAreRecorded'
<1>1. ASSUME UNCHANGED <<proposals, idempotency>>
      PROVE  EditsAreRecorded'
  <2>1. \A id : StageRecords(id)' = StageRecords(id)
    BY <1>1 DEF StageRecords
  <2>2. ASSUME NEW id \in DOMAIN proposals
        PROVE  IsRecorded(id)'
    BY <1>1, <2>1, OthersStayRecorded DEF EditsAreRecorded
  <2> QED
    BY <1>1, <2>2 DEF EditsAreRecorded
<1>2. CASE Quiet
  BY <1>1, <1>2 DEF Quiet, held
<1>3. ASSUME NEW request \in Openings, NEW id \in NextIdentifiers, Opened(request, id)
      PROVE  EditsAreRecorded'
  BY <1>1, <1>3 DEF Opened
<1> QED
  BY <1>2, <1>3, CreatedIsRecorded, AdvancedIsRecorded, StepEffects


-----------------------------------------------------------------------------
(* The walk over the dependencies of change groups.                          *)

IsDiff(groups) ==
    /\ groups \in Seq(Range(groups))
    /\ \A i \in DOMAIN groups :
        /\ groups[i].dependsOn \in Seq(Range(groups[i].dependsOn))
        /\ \A j \in DOMAIN groups : groups[i].id = groups[j].id => i = j

\* What SelectionIsClosed calls dependsOn, closed and sound.
DependsOn(groups, id) ==
    UNION {Range(groups[i].dependsOn) : i \in {j \in DOMAIN groups : groups[j].id = id}}

Closed(groups, ids) == \A id \in ids : DependsOn(groups, id) \subseteq ids

Sound(groups, ids) ==
    /\ ids \subseteq Known(groups)
    /\ \A some \in (SUBSET ids) \ {{}} : \E id \in some : DependsOn(groups, id) \cap some = {}

\* Sets of groups that are sound and closed are so together.
LEMMA TogetherAreSound ==
  ASSUME NEW groups, NEW sets, \A ids \in sets : Sound(groups, ids) /\ Closed(groups, ids)
  PROVE  Sound(groups, UNION sets) /\ Closed(groups, UNION sets)
<1>1. Closed(groups, UNION sets)
  BY DEF Closed
<1>2. UNION sets \subseteq Known(groups)
  BY DEF Sound
<1>3. ASSUME NEW some \in (SUBSET UNION sets) \ {{}}
      PROVE  \E id \in some : DependsOn(groups, id) \cap some = {}
  <2>1. PICK ids \in sets : ids \cap some # {}
    OBVIOUS
  <2>2. ids \cap some \in (SUBSET ids) \ {{}}
    BY <2>1
  <2>3. PICK id \in ids \cap some : DependsOn(groups, id) \cap (ids \cap some) = {}
    BY <2>1, <2>2 DEF Sound
  <2>4. DependsOn(groups, id) \subseteq ids
    BY <2>1, <2>3 DEF Closed
  <2>5. DependsOn(groups, id) \cap some = {}
    BY <2>3, <2>4
  <2> QED
    BY <2>3, <2>5
<1> QED
  BY <1>1, <1>2, <1>3 DEF Sound

\* So is a group with all that it depends on, when that does not depend on the group.
LEMMA WithItsDependenciesIsSound ==
  ASSUME NEW groups, NEW ids, Sound(groups, ids), Closed(groups, ids),
         NEW id \in Known(groups), id \notin ids, DependsOn(groups, id) \subseteq ids
  PROVE  Sound(groups, ids \cup {id}) /\ Closed(groups, ids \cup {id})
<1>1. Closed(groups, ids \cup {id})
  BY DEF Closed
<1>2. ids \cup {id} \subseteq Known(groups)
  BY DEF Sound
<1>3. ASSUME NEW some \in (SUBSET (ids \cup {id})) \ {{}}
      PROVE  \E other \in some : DependsOn(groups, other) \cap some = {}
  <2>1. CASE ids \cap some = {}
    <3>1. some = {id}
      BY <2>1
    <3>2. DependsOn(groups, id) \cap some = {}
      BY <3>1
    <3> QED
      BY <3>1, <3>2
  <2>2. CASE ids \cap some # {}
    <3>1. PICK other \in ids \cap some : DependsOn(groups, other) \cap (ids \cap some) = {}
      BY <2>2 DEF Sound
    <3>2. DependsOn(groups, other) \subseteq ids
      BY <3>1 DEF Closed
    <3>3. DependsOn(groups, other) \cap some = {}
      BY <3>1, <3>2
    <3> QED
      BY <3>1, <3>3
  <2> QED
    BY <2>1, <2>2
<1> QED
  BY <1>1, <1>2, <1>3 DEF Sound

\* groupById() finds the only group of an id.
LEMMA TheGroupOfAnId ==
  ASSUME NEW groups, IsDiff(groups), NEW id \in Known(groups)
  PROVE  /\ groupById(groups, id).dependsOn \in Seq(DependsOn(groups, id))
         /\ Range(groupById(groups, id).dependsOn) = DependsOn(groups, id)
<1>1. PICK i \in DOMAIN groups : groups[i].id = id
  BY DEF Known
<1>2. DOMAIN groups = 1 .. Len(groups) /\ Len(groups) \in Nat
  BY DEF IsDiff
<1>3. \A j \in DOMAIN groups : groups[j].id = id => j = i
  BY <1>1 DEF IsDiff
<1> DEFINE chosen == CHOOSE k \in DOMAIN groups :
             groups[k].id = id /\ \A j \in DOMAIN groups : groups[j].id = id => j <= k
<1>4. \A j \in DOMAIN groups : groups[j].id = id => j <= i
  BY <1>2, <1>3
<1>5. chosen \in DOMAIN groups /\ groups[chosen].id = id
  BY <1>1, <1>4
<1>6. groupById(groups, id) = groups[i]
  BY <1>3, <1>5 DEF groupById
<1>7. DependsOn(groups, id) = Range(groups[i].dependsOn)
  BY <1>1, <1>3 DEF DependsOn
<1> QED
  BY <1>6, <1>7 DEF IsDiff

\* A function on the numbers up to n that starts at base and goes on by step.
HasRecursion(n, S, base, step) ==
    \E f \in [0 .. n -> S] : f[0] = base /\ \A i \in 1 .. n : f[i] = step[i][f[i - 1]]

\* It exists.
LEMMA RecursionExists ==
  ASSUME NEW n \in Nat, NEW S, NEW base \in S, NEW step \in [1 .. n -> [S -> S]]
  PROVE  HasRecursion(n, S, base, step)
<1> DEFINE IsUpTo(m, f) == f[0] = base /\ \A i \in 1 .. m : f[i] = step[i][f[i - 1]]
           Reached == {m \in 0 .. n : \E f \in [0 .. m -> S] : IsUpTo(m, f)}
<1>1. 0 \in Reached
  <2> DEFINE f == [i \in 0 .. 0 |-> base]
  <2>1. f \in [0 .. 0 -> S] /\ IsUpTo(0, f)
    OBVIOUS
  <2> HIDE DEF IsUpTo, f
  <2> QED
    BY <2>1
<1>2. ASSUME NEW m \in 0 .. n - 1, m \in Reached
      PROVE  m + 1 \in Reached
  <2>1. PICK f \in [0 .. m -> S] : IsUpTo(m, f)
    BY <1>2
  <2> DEFINE g == [i \in 0 .. m + 1 |-> IF i <= m THEN f[i] ELSE step[m + 1][f[m]]]
  <2>2. f[m] \in S /\ m + 1 \in 1 .. n
    OBVIOUS
  <2>3. g \in [0 .. m + 1 -> S]
    BY <2>2
  <2>4. g[0] = base
    BY <2>1
  <2>5. ASSUME NEW i \in 1 .. m + 1
        PROVE  g[i] = step[i][g[i - 1]]
    <3>1. CASE i <= m
      <4>1. i \in 1 .. m /\ g[i] = f[i] /\ g[i - 1] = f[i - 1]
        BY <3>1
      <4> QED
        BY <2>1, <4>1
    <3>2. CASE ~(i <= m)
      <4>1. i = m + 1 /\ g[i - 1] = f[m] /\ g[i] = step[m + 1][f[m]]
        BY <3>2
      <4> QED
        BY <4>1
    <3> QED
      BY <3>1, <3>2
  <2>6. IsUpTo(m + 1, g)
    BY <2>4, <2>5
  <2>7. m + 1 \in 0 .. n
    OBVIOUS
  <2> HIDE DEF IsUpTo, g
  <2> QED
    BY <2>3, <2>6, <2>7
<1>3. n \in Reached
  <2> HIDE DEF Reached
  <2>1. \A m \in 0 .. n : m \in Reached
    BY <1>1, <1>2, InductionUpTo
  <2> QED
    BY <2>1
<1> QED
  BY <1>3 DEF HasRecursion

\* What its steps do not leave, it does not leave.
LEMMA RecursionStays ==
  ASSUME NEW n \in Nat, NEW S, NEW f, f[0] \in S,
         \A i \in 1 .. n : f[i - 1] \in S => f[i] \in S
  PROVE  \A i \in 0 .. n : f[i] \in S
<1> DEFINE Reached == {i \in 0 .. n : f[i] \in S}
<1>1. 0 \in Reached
  OBVIOUS
<1>2. ASSUME NEW m \in 0 .. n - 1, m \in Reached
      PROVE  m + 1 \in Reached
  <2>1. m + 1 \in 1 .. n /\ (m + 1) - 1 = m
    OBVIOUS
  <2> QED
    BY <1>2, <2>1
<1> HIDE DEF Reached
<1>3. \A m \in 0 .. n : m \in Reached
  BY <1>1, <1>2, InductionUpTo
<1> QED
  BY <1>3 DEF Reached

-----------------------------------------------------------------------------
\* What a walk may answer.
Outcomes(groups) ==
    Walks(groups) \cup [type : {"error"}, reason : {"dependency-cycle", "dependency-not-found"},
                        groupId : Named(groups)]

\* One walk from each group and each state of the sets.
WalksFrom(groups) == [Named(groups) -> [Walks(groups) -> Outcomes(groups)]]

\* What a walk answers is a failure or the sets for the next one.
LEMMA OutcomeIsOne ==
  ASSUME NEW groups, NEW outcome \in Outcomes(groups)
  PROVE  /\ outcome.type \in {"ok", "error"}
         /\ outcome.type = "ok" <=> outcome \in Walks(groups)
BY DEF Outcomes, Walks

\* Consecutive walks, one by one.
WalkedInTurn(groups, walk, ids, start, after) ==
    /\ after \in [0 .. Len(ids) -> Outcomes(groups)]
    /\ after[0] = start
    /\ \A i \in 1 .. Len(ids) :
            after[i] = IF after[i - 1].type = "error" THEN after[i - 1] ELSE walk[ids[i]][after[i - 1]]

\* walkEach() is well defined.
LEMMA WalkEachExists ==
  ASSUME NEW groups, NEW walk \in WalksFrom(groups), NEW ids \in Seq(Named(groups)),
         NEW start \in Outcomes(groups)
  PROVE  \E after : /\ WalkedInTurn(groups, walk, ids, start, after)
                    /\ walkEach(walk, ids, start) = after[Len(ids)]
<1> DEFINE n == Len(ids)
           S == Outcomes(groups)
           go(i, before) == IF before.type = "error" THEN before ELSE walk[ids[i]][before]
           step == [i \in 1 .. n |-> [before \in S |-> go(i, before)]]
           body(f) == [m \in 0 .. n |-> IF m = 0 THEN start ELSE go(m, f[m - 1])]
<1>1. n \in Nat /\ \A i \in 1 .. n : ids[i] \in Named(groups)
  OBVIOUS
<1>2. ASSUME NEW i \in 1 .. n, NEW before \in S
      PROVE  go(i, before) \in S
  <2>1. CASE before.type = "error"
    BY <2>1
  <2>2. CASE before.type # "error"
    <3>1. before \in Walks(groups)
      BY <2>2, OutcomeIsOne
    <3>2. walk[ids[i]] \in [Walks(groups) -> S]
      BY <1>1 DEF WalksFrom
    <3> QED
      BY <2>2, <3>1, <3>2
  <2> QED
    BY <2>1, <2>2
<1> HIDE DEF n, S, go
<1>3. step \in [1 .. n -> [S -> S]]
  BY <1>2
<1>4. HasRecursion(n, S, start, step)
  <2>1. start \in S
    BY DEF S
  <2> HIDE DEF step
  <2> QED
    BY <1>1, <1>3, <2>1, RecursionExists
<1>5. PICK f \in [0 .. n -> S] : f[0] = start /\ \A i \in 1 .. n : f[i] = step[i][f[i - 1]]
  <2> HIDE DEF step
  <2> QED
    BY <1>4 DEF HasRecursion
<1>6. ASSUME NEW m \in 0 .. n
      PROVE  f[m] = IF m = 0 THEN start ELSE go(m, f[m - 1])
  <2>1. CASE m = 0
    BY <1>5, <2>1
  <2>2. CASE m # 0
    <3>1. m \in 1 .. n /\ m - 1 \in 0 .. n
      BY <1>1, <2>2
    <3>2. f[m - 1] \in S
      BY <3>1
    <3> QED
      BY <1>5, <2>2, <3>1, <3>2
  <2> QED
    BY <2>1, <2>2
<1>7. f = body(f)
  BY <1>6
<1> DEFINE after == CHOOSE g : g = body(g)
<1>8. after = body(after)
  <2> HIDE DEF body
  <2> QED
    BY <1>7
<1>9. walkEach(walk, ids, start) = after[n]
  BY DEF walkEach, n, go
<1> HIDE DEF after
<1>10. after[0] = start /\ \A i \in 1 .. n : after[i] = go(i, after[i - 1])
  <2>1. 0 \in 0 .. n /\ \A i \in 1 .. n : i \in 0 .. n /\ i # 0
    BY <1>1
  <2> QED
    BY <1>8, <2>1
<1>11. \A i \in 0 .. n : after[i] \in S
  <2>1. after[0] \in S
    BY <1>10 DEF S
  <2>2. \A i \in 1 .. n : after[i - 1] \in S => after[i] \in S
    BY <1>2, <1>10
  <2> QED
    BY <1>1, <2>1, <2>2, RecursionStays
<1>12. after \in [0 .. n -> S]
  BY <1>8, <1>11
<1>13. WalkedInTurn(groups, walk, ids, start, after)
  BY <1>10, <1>12 DEF WalkedInTurn, n, S, go
<1> QED
  BY <1>9, <1>13 DEF n

\* The sets when a group is entered, and when it is left.
Entered(sets, id) == [sets EXCEPT !.visiting = @ \cup {id}]
Left(sets, id) == [sets EXCEPT !.visiting = @ \ {id}, !.included = @ \cup {id}]

\* One level of the walk, above the walks of the level below.
Level(groups, depth, deeper) ==
    [id \in Named(groups) |-> [sets \in Walks(groups) |->
        IF id \in sets.included THEN sets
        ELSE IF id \in sets.visiting THEN Failure("dependency-cycle", id)
        ELSE IF id \notin Known(groups) THEN Failure("dependency-not-found", id)
        ELSE LET entered == Entered(sets, id)
                 below == IF depth = 0 THEN entered
                          ELSE walkEach(deeper, groupById(groups, id).dependsOn, entered)
             IN  IF below.type = "error" THEN below ELSE Left(below, id)]]

\* Both are sets to go on with.
LEMMA EnteredAndLeft ==
  ASSUME NEW groups, NEW sets \in Walks(groups), NEW id \in Known(groups)
  PROVE  /\ Entered(sets, id) \in Walks(groups)
         /\ Entered(sets, id).visiting = sets.visiting \cup {id}
         /\ Entered(sets, id).included = sets.included
         /\ Left(sets, id) \in Walks(groups)
         /\ Left(sets, id).visiting = sets.visiting \ {id}
         /\ Left(sets, id).included = sets.included \cup {id}
BY DEF Walks, Entered, Left

\* The walks of a level are walks, if those of the level below are.
LEMMA LevelIsWalks ==
  ASSUME NEW groups, IsDiff(groups), NEW depth \in Nat, NEW deeper,
         depth = 0 \/ deeper \in WalksFrom(groups)
  PROVE  Level(groups, depth, deeper) \in WalksFrom(groups)
<1> SUFFICES ASSUME NEW id \in Named(groups), NEW sets \in Walks(groups)
             PROVE  Level(groups, depth, deeper)[id][sets] \in Outcomes(groups)
  BY DEF Level, WalksFrom
<1> DEFINE entered == Entered(sets, id)
           below == IF depth = 0 THEN entered
                    ELSE walkEach(deeper, groupById(groups, id).dependsOn, entered)
           left == Left(below, id)
           answer == Level(groups, depth, deeper)[id][sets]
<1>1. answer = IF id \in sets.included THEN sets
               ELSE IF id \in sets.visiting THEN Failure("dependency-cycle", id)
               ELSE IF id \notin Known(groups) THEN Failure("dependency-not-found", id)
               ELSE IF below.type = "error" THEN below ELSE left
  BY DEF Level
<1>2. /\ Failure("dependency-cycle", id) \in Outcomes(groups)
      /\ Failure("dependency-not-found", id) \in Outcomes(groups)
      /\ sets \in Outcomes(groups)
  BY DEF Failure, Outcomes
<1>3. ASSUME id \in Known(groups)
      PROVE  below \in Outcomes(groups)
  <2>1. entered \in Walks(groups) /\ entered \in Outcomes(groups)
    BY <1>3, EnteredAndLeft DEF Outcomes
  <2>2. CASE depth = 0
    BY <2>1, <2>2
  <2>3. CASE depth # 0
    <3> DEFINE ids == groupById(groups, id).dependsOn
    <3>1. ids \in Seq(Named(groups))
      <4>1. ids \in Seq(DependsOn(groups, id))
        BY <1>3, TheGroupOfAnId
      <4>2. DependsOn(groups, id) \subseteq Named(groups)
        BY DEF DependsOn, Named
      <4> HIDE DEF ids
      <4> QED
        BY <4>1, <4>2
    <3> HIDE DEF ids, entered
    <3>2. PICK after : /\ WalkedInTurn(groups, deeper, ids, entered, after)
                       /\ walkEach(deeper, ids, entered) = after[Len(ids)]
      BY <2>1, <2>3, <3>1, WalkEachExists
    <3>3. Len(ids) \in 0 .. Len(ids)
      BY <3>1
    <3>4. after[Len(ids)] \in Outcomes(groups)
      BY <3>2, <3>3 DEF WalkedInTurn
    <3> QED
      BY <2>3, <3>2, <3>4 DEF ids
  <2> QED
    BY <2>2, <2>3
<1> HIDE DEF below
<1>4. ASSUME id \in Known(groups), below.type # "error"
      PROVE  left \in Outcomes(groups)
  <2>1. below \in Walks(groups)
    BY <1>3, <1>4, OutcomeIsOne
  <2> QED
    BY <1>4, <2>1, EnteredAndLeft DEF Outcomes
<1> HIDE DEF left
<1> QED
  BY <1>1, <1>2, <1>3, <1>4

\* includeDependencies() is well defined: the last of as many levels as there are groups.
Levels(groups, walk) ==
    /\ walk[0] = Level(groups, 0, walk)
    /\ \A depth \in 1 .. Cardinality(Known(groups)) :
            walk[depth] = Level(groups, depth, walk[depth - 1])
    /\ \A depth \in 0 .. Cardinality(Known(groups)) : walk[depth] \in WalksFrom(groups)

LEMMA IncludeDependenciesExists ==
  ASSUME NEW groups, IsDiff(groups), Cardinality(Known(groups)) \in Nat
  PROVE  \E walk : /\ Levels(groups, walk)
                   /\ includeDependencies(groups) = walk[Cardinality(Known(groups))]
<1> DEFINE N == Cardinality(Known(groups))
           S == WalksFrom(groups)
           base == Level(groups, 0, {})
           step == [depth \in 1 .. N |-> [deeper \in S |-> Level(groups, depth, deeper)]]
           body(f) == [depth \in 0 .. N |-> Level(groups, depth, f[depth - 1])]
<1>1. \A deeper : Level(groups, 0, deeper) = base
  BY DEF Level
<1>2. base \in S
  BY LevelIsWalks
<1>3. ASSUME NEW depth \in 1 .. N, NEW deeper \in S
      PROVE  Level(groups, depth, deeper) \in S
  BY LevelIsWalks
<1> DEFINE walk == CHOOSE f : f = body(f)
<1>4. includeDependencies(groups) = walk[N]
  BY DEF includeDependencies, Level, Entered, Left
<1> HIDE DEF N, S, base
<1>5. N \in Nat
  BY DEF N
<1>6. step \in [1 .. N -> [S -> S]]
  BY <1>3
<1>7. HasRecursion(N, S, base, step)
  <2> HIDE DEF step
  <2> QED
    BY <1>2, <1>5, <1>6, RecursionExists
<1>8. PICK f \in [0 .. N -> S] : f[0] = base /\ \A i \in 1 .. N : f[i] = step[i][f[i - 1]]
  <2> HIDE DEF step
  <2> QED
    BY <1>7 DEF HasRecursion
<1>9. ASSUME NEW depth \in 0 .. N
      PROVE  f[depth] = Level(groups, depth, f[depth - 1])
  <2>1. CASE depth = 0
    BY <1>1, <1>8, <2>1
  <2>2. CASE depth # 0
    <3>1. depth \in 1 .. N /\ depth - 1 \in 0 .. N
      BY <1>5, <2>2
    <3> QED
      BY <1>8, <3>1
  <2> QED
    BY <2>1, <2>2
<1>10. f = body(f)
  BY <1>9
<1>11. walk = body(walk)
  <2> HIDE DEF body
  <2> QED
    BY <1>10
<1> HIDE DEF walk
<1>12. /\ walk[0] = base
       /\ \A depth \in 1 .. N : walk[depth] = Level(groups, depth, walk[depth - 1])
  <2>1. 0 \in 0 .. N /\ \A depth \in 1 .. N : depth \in 0 .. N
    BY <1>5
  <2> QED
    BY <1>1, <1>11, <2>1
<1>13. \A depth \in 0 .. N : walk[depth] \in S
  <2>1. \A depth \in 1 .. N : walk[depth - 1] \in S => walk[depth] \in S
    BY <1>3, <1>12
  <2>2. walk[0] \in S
    BY <1>2, <1>12
  <2> QED
    BY <1>5, <2>1, <2>2, RecursionStays
<1>14. Levels(groups, walk)
  BY <1>1, <1>12, <1>13 DEF Levels, N, S
<1> QED
  BY <1>4, <1>14 DEF N

-----------------------------------------------------------------------------
\* The sets between two walks: what is included is closed and without a cycle, and nothing
\* of it is still being visited.
InOrder(groups, sets) ==
    /\ sets \in Walks(groups)
    /\ Sound(groups, sets.included) /\ Closed(groups, sets.included)
    /\ sets.included \cap sets.visiting = {}

\* What walks from the groups asked for have done to the sets, if none of them failed: they
\* have included those groups, what these depend on, and nothing else.
Adds(groups, asked, sets, result) ==
    result.type = "ok" =>
        /\ InOrder(groups, result)
        /\ result.visiting = sets.visiting
        /\ sets.included \subseteq result.included
        /\ asked \subseteq result.included
        /\ \A ids : Closed(groups, ids) /\ asked \subseteq ids =>
                result.included \subseteq sets.included \cup ids

\* A closed set without a cycle that has all that is visited, and the group at hand.
LeadsTo(groups, visiting, id, ids) ==
    /\ Sound(groups, ids) /\ Closed(groups, ids)
    /\ visiting \cup {id} \subseteq ids
    /\ \A other \in visiting : DependsOn(groups, other) \cap (visiting \cup {id}) # {}

\* What a walk from a group below the ones in visiting does: it fails only if there is no
\* such set.
Walked(groups, id, sets, result) ==
    /\ Adds(groups, {id}, sets, result)
    /\ \A ids : LeadsTo(groups, sets.visiting, id, ids) => result.type = "ok"

\* All the walks that have depth levels to go.
WalkedFrom(groups, depth, walk) ==
    \A id \in Named(groups), sets \in Walks(groups) :
        InOrder(groups, sets) /\ Cardinality(Known(groups) \ sets.visiting) <= depth
            => Walked(groups, id, sets, walk[id][sets])

\* Nothing leads to a group that is unknown or being visited.
LEMMA WalkedToAnEnd ==
  ASSUME NEW groups, NEW visiting \in SUBSET Known(groups), NEW id,
         id \in visiting \/ id \notin Known(groups), NEW ids
  PROVE  ~ LeadsTo(groups, visiting, id, ids)
<1> SUFFICES ASSUME LeadsTo(groups, visiting, id, ids)
             PROVE  FALSE
  OBVIOUS
<1>1. id \in visiting
  BY DEF LeadsTo, Sound
<1>2. visiting \in (SUBSET ids) \ {{}} /\ visiting \cup {id} = visiting
  BY <1>1 DEF LeadsTo
<1> QED
  BY <1>2 DEF LeadsTo, Sound

\* Walks one after the other add what each of them adds; and if none of them can fail, all
\* are gone through.
LEMMA WalkEachAdds ==
  ASSUME NEW groups, NEW walk \in WalksFrom(groups), NEW ids \in Seq(Named(groups)),
         NEW start, InOrder(groups, start),
         \A id \in Range(ids), sets \in Walks(groups) :
            InOrder(groups, sets) /\ sets.visiting = start.visiting =>
                Adds(groups, {id}, sets, walk[id][sets])
  PROVE  /\ walkEach(walk, ids, start) \in Outcomes(groups)
         /\ Adds(groups, Range(ids), start, walkEach(walk, ids, start))
         /\ (\A id \in Range(ids), sets \in Walks(groups) :
                InOrder(groups, sets) /\ sets.visiting = start.visiting =>
                    walk[id][sets].type = "ok")
            => walkEach(walk, ids, start).type = "ok"
<1> DEFINE n == Len(ids)
           first(i) == {ids[j] : j \in 1 .. i}
           sure == \A id \in Range(ids), sets \in Walks(groups) :
                        InOrder(groups, sets) /\ sets.visiting = start.visiting =>
                            walk[id][sets].type = "ok"
<1>1. start \in Walks(groups) /\ start \in Outcomes(groups) /\ start.type = "ok"
  BY DEF InOrder, Outcomes, Walks
<1>2. PICK after : /\ WalkedInTurn(groups, walk, ids, start, after)
                   /\ walkEach(walk, ids, start) = after[n]
  BY <1>1, WalkEachExists
<1> DEFINE Good(i) == /\ Adds(groups, first(i), start, after[i])
                      /\ sure => after[i].type = "ok"
           Reached == {i \in 0 .. n : Good(i)}
<1>3. /\ n \in Nat
      /\ DOMAIN ids = 1 .. n
      /\ Range(ids) = first(n)
      /\ \A i \in 1 .. n : ids[i] \in Range(ids) /\ ids[i] \in Named(groups)
  BY DEF Range
<1>4. 0 \in Reached
  <2>1. after[0] = start
    BY <1>2 DEF WalkedInTurn
  <2>2. first(0) = {}
    OBVIOUS
  <2>3. Adds(groups, {}, start, start)
    BY DEF Adds
  <2>4. 0 \in 0 .. n
    BY <1>3
  <2> HIDE DEF first, sure
  <2> QED
    BY <1>1, <2>1, <2>2, <2>3, <2>4
<1>5. ASSUME NEW m \in 0 .. n - 1, m \in Reached
      PROVE  m + 1 \in Reached
  <2> DEFINE id == ids[m + 1]
             sets == after[m]
             next == after[m + 1]
  <2>1. m + 1 \in 1 .. n /\ (m + 1) - 1 = m /\ m \in 0 .. n /\ m + 1 \in 0 .. n
    BY <1>3
  <2>2. /\ sets \in Outcomes(groups)
        /\ next = IF sets.type = "error" THEN sets ELSE walk[id][sets]
    BY <1>2, <2>1 DEF WalkedInTurn
  <2>3. id \in Range(ids)
    BY <1>3, <2>1
  <2>4. first(m + 1) = first(m) \cup {id}
    <3>1. \A j : j \in 1 .. m + 1 <=> j \in 1 .. m \/ j = m + 1
      BY <2>1
    <3> QED
      BY <3>1
  <2>5. Adds(groups, first(m), start, sets) /\ (sure => sets.type = "ok")
    BY <1>5
  <2> HIDE DEF first, sets, next, id
  <2>6. ASSUME sets.type = "error"
        PROVE  Adds(groups, first(m + 1), start, next) /\ (sure => next.type = "ok")
    BY <2>2, <2>5, <2>6 DEF Adds
  <2>7. ASSUME sets.type # "error"
        PROVE  Adds(groups, first(m + 1), start, next) /\ (sure => next.type = "ok")
    <3>1. sets.type = "ok" /\ sets \in Walks(groups)
      BY <2>2, <2>7, OutcomeIsOne
    <3>2. /\ InOrder(groups, sets) /\ sets.visiting = start.visiting
          /\ start.included \subseteq sets.included
          /\ first(m) \subseteq sets.included
          /\ \A closed : Closed(groups, closed) /\ first(m) \subseteq closed =>
                    sets.included \subseteq start.included \cup closed
      BY <2>5, <3>1 DEF Adds
    <3>3. next = walk[id][sets]
      BY <2>2, <2>7
    <3>4. Adds(groups, {id}, sets, next)
      BY <2>3, <3>1, <3>2, <3>3
    <3>5. Adds(groups, first(m + 1), start, next)
      BY <2>4, <3>2, <3>4 DEF Adds
    <3>6. sure => next.type = "ok"
      BY <2>3, <3>1, <3>2, <3>3
    <3> QED
      BY <3>5, <3>6
  <2>8. Good(m + 1)
    BY <2>6, <2>7 DEF next
  <2> HIDE DEF Good
  <2> QED
    BY <2>1, <2>8
<1>6. n \in Reached
  <2> HIDE DEF Reached
  <2>1. \A i \in 0 .. n : i \in Reached
    BY <1>3, <1>4, <1>5, InductionUpTo
  <2> QED
    BY <1>3, <2>1
<1>7. after[n] \in Outcomes(groups)
  BY <1>2, <1>3 DEF WalkedInTurn
<1> HIDE DEF first, sure, n
<1>8. Adds(groups, Range(ids), start, after[n]) /\ (sure => after[n].type = "ok")
  BY <1>3, <1>6
<1> QED
  BY <1>2, <1>7, <1>8 DEF sure

\* Each level walks as it should, if the one below does.
LEMMA LevelWalks ==
  ASSUME NEW groups, IsDiff(groups), IsFiniteSet(Known(groups)), NEW depth \in Nat, NEW deeper,
         depth = 0 \/ (deeper \in WalksFrom(groups) /\ WalkedFrom(groups, depth - 1, deeper))
  PROVE  WalkedFrom(groups, depth, Level(groups, depth, deeper))
<1> SUFFICES ASSUME NEW id \in Named(groups), NEW sets \in Walks(groups), InOrder(groups, sets),
                    Cardinality(Known(groups) \ sets.visiting) <= depth
             PROVE  Walked(groups, id, sets, Level(groups, depth, deeper)[id][sets])
  BY DEF WalkedFrom
<1> DEFINE visiting == sets.visiting
           deps == groupById(groups, id).dependsOn
           entered == Entered(sets, id)
           below == IF depth = 0 THEN entered ELSE walkEach(deeper, deps, entered)
           left == Left(below, id)
           answer == Level(groups, depth, deeper)[id][sets]
<1>1. answer = IF id \in sets.included THEN sets
               ELSE IF id \in visiting THEN Failure("dependency-cycle", id)
               ELSE IF id \notin Known(groups) THEN Failure("dependency-not-found", id)
               ELSE IF below.type = "error" THEN below ELSE left
  BY DEF Level
<1>2. visiting \in SUBSET Known(groups) /\ sets.type = "ok"
  BY DEF Walks
<1> HIDE DEF answer
<1> SUFFICES Walked(groups, id, sets, answer)
  BY DEF answer
<1> HIDE DEF entered, below, left
<1>3. CASE id \in sets.included
  BY <1>1, <1>2, <1>3 DEF Walked, Adds
<1>4. CASE id \notin sets.included /\ (id \in visiting \/ id \notin Known(groups))
  <2>1. answer.type = "error"
    BY <1>1, <1>4 DEF Failure
  <2>2. \A ids : ~ LeadsTo(groups, visiting, id, ids)
    BY <1>2, <1>4, WalkedToAnEnd
  <2> QED
    BY <2>1, <2>2 DEF Walked, Adds
<1>5. CASE id \notin sets.included /\ id \in Known(groups) \ visiting
  <2>1. answer = IF below.type = "error" THEN below ELSE left
    BY <1>1, <1>5
  <2>2. depth # 0 /\ Cardinality(Known(groups) \ (visiting \cup {id})) <= depth - 1
    <3>1. IsFiniteSet(Known(groups) \ visiting)
      BY FS_Difference
    <3>2. Known(groups) \ (visiting \cup {id}) = (Known(groups) \ visiting) \ {id}
      OBVIOUS
    <3>3. Cardinality((Known(groups) \ visiting) \ {id}) = Cardinality(Known(groups) \ visiting) - 1
      BY <1>5, <3>1, FS_RemoveElement
    <3>4. /\ Cardinality(Known(groups) \ visiting) \in Nat
          /\ Cardinality((Known(groups) \ visiting) \ {id}) \in Nat
      BY <3>1, FS_Difference, FS_CardinalityType
    <3> DEFINE more == Cardinality(Known(groups) \ visiting)
               fewer == Cardinality(Known(groups) \ (visiting \cup {id}))
    <3>5. more \in Nat /\ fewer \in Nat /\ fewer = more - 1 /\ more <= depth
      BY <3>2, <3>3, <3>4
    <3> HIDE DEF more, fewer
    <3>6. depth # 0 /\ fewer <= depth - 1
      BY <3>5
    <3> QED
      BY <3>6 DEF fewer
  <2>3. /\ entered \in Walks(groups)
        /\ entered.visiting = visiting \cup {id}
        /\ entered.included = sets.included
    BY <1>5, EnteredAndLeft DEF entered
  <2>4. InOrder(groups, entered)
    BY <1>5, <2>3 DEF InOrder
  <2>5. /\ deps \in Seq(Named(groups))
        /\ Range(deps) = DependsOn(groups, id)
    <3>1. DependsOn(groups, id) \subseteq Named(groups)
      BY DEF DependsOn, Named
    <3>2. deps \in Seq(DependsOn(groups, id)) /\ Range(deps) = DependsOn(groups, id)
      BY <1>5, TheGroupOfAnId
    <3> HIDE DEF deps
    <3> QED
      BY <3>1, <3>2
  <2>6. ASSUME NEW other \in Range(deps), NEW between \in Walks(groups),
               InOrder(groups, between), between.visiting = visiting \cup {id}
        PROVE  Walked(groups, other, between, deeper[other][between])
    <3>1. other \in Named(groups)
      BY <2>5 DEF DependsOn, Named
    <3> QED
      BY <2>2, <2>6, <3>1 DEF WalkedFrom
  <2>7. below = walkEach(deeper, deps, entered)
    BY <2>2 DEF below
  <2> HIDE DEF deps
  <2>8. /\ below \in Outcomes(groups)
        /\ Adds(groups, DependsOn(groups, id), entered, below)
        /\ (\A other \in Range(deps), between \in Walks(groups) :
                InOrder(groups, between) /\ between.visiting = entered.visiting =>
                    deeper[other][between].type = "ok")
            => below.type = "ok"
    <3>1. \A other \in Range(deps), between \in Walks(groups) :
                InOrder(groups, between) /\ between.visiting = entered.visiting =>
                    Adds(groups, {other}, between, deeper[other][between])
      BY <2>3, <2>6 DEF Walked
    <3>2. deeper \in WalksFrom(groups)
      BY <2>2
    <3> QED
      BY <2>4, <2>5, <2>7, <3>1, <3>2, WalkEachAdds
  <2>9. ASSUME below.type = "ok"
        PROVE  answer.type = "ok" /\ Adds(groups, {id}, sets, answer)
    <3>1. below \in Walks(groups)
      BY <2>8, <2>9, OutcomeIsOne
    <3>2. /\ Sound(groups, below.included) /\ Closed(groups, below.included)
          /\ below.included \cap below.visiting = {}
          /\ below.visiting = visiting \cup {id}
          /\ sets.included \subseteq below.included
          /\ DependsOn(groups, id) \subseteq below.included
          /\ \A ids : Closed(groups, ids) /\ DependsOn(groups, id) \subseteq ids =>
                    below.included \subseteq sets.included \cup ids
      BY <2>3, <2>8, <2>9 DEF Adds, InOrder
    <3>3. answer = left
      BY <2>1, <2>9
    <3>4. /\ answer \in Walks(groups)
          /\ answer.visiting = below.visiting \ {id}
          /\ answer.included = below.included \cup {id}
      BY <1>5, <3>1, <3>3, EnteredAndLeft DEF left
    <3>5. answer.type = "ok"
      BY <3>4 DEF Walks
    <3>6. answer.visiting = visiting
      BY <1>5, <3>2, <3>4
    <3>7. Sound(groups, answer.included) /\ Closed(groups, answer.included)
      BY <1>5, <3>2, <3>4, WithItsDependenciesIsSound
    <3>8. answer.included \cap answer.visiting = {}
      BY <1>5, <3>2, <3>4
    <3>9. ASSUME NEW ids, Closed(groups, ids), id \in ids
          PROVE  answer.included \subseteq sets.included \cup ids
      <4>1. DependsOn(groups, id) \subseteq ids
        BY <3>9 DEF Closed
      <4> QED
        BY <3>2, <3>4, <3>9, <4>1
    <3> HIDE DEF visiting
    <3>10. InOrder(groups, answer)
      BY <3>4, <3>7, <3>8 DEF InOrder
    <3> QED
      BY <3>2, <3>4, <3>5, <3>6, <3>9, <3>10 DEF Adds, visiting
  <2>10. ASSUME below.type # "ok"
         PROVE  answer.type # "ok"
    <3>1. below.type = "error"
      BY <2>8, <2>10, OutcomeIsOne
    <3> QED
      BY <2>1, <2>10, <3>1
  <2>11. ASSUME NEW ids, LeadsTo(groups, visiting, id, ids)
         PROVE  below.type = "ok"
    <3> SUFFICES ASSUME NEW other \in Range(deps), NEW between \in Walks(groups),
                        InOrder(groups, between), between.visiting = entered.visiting
                 PROVE  deeper[other][between].type = "ok"
      BY <2>8
    <3>1. Walked(groups, other, between, deeper[other][between])
      BY <2>3, <2>6
    <3>2. other \in DependsOn(groups, id)
      BY <2>5
    <3>3. LeadsTo(groups, visiting \cup {id}, other, ids)
      BY <2>11, <3>2 DEF LeadsTo, Closed
    <3> QED
      BY <2>3, <3>1, <3>3 DEF Walked
  <2> HIDE DEF visiting
  <2>12. Adds(groups, {id}, sets, answer)
    BY <2>9, <2>10 DEF Adds
  <2> QED
    BY <2>9, <2>11, <2>12 DEF Walked, visiting
<1> QED
  BY <1>3, <1>4, <1>5

\* includeDependencies() from every group, while none is being visited.
LEMMA IncludeDependenciesWalks ==
  ASSUME NEW groups, IsDiff(groups)
  PROVE  /\ includeDependencies(groups) \in WalksFrom(groups)
         /\ \A id \in Named(groups), sets \in Walks(groups) :
                InOrder(groups, sets) /\ sets.visiting = {} =>
                    Walked(groups, id, sets, includeDependencies(groups)[id][sets])
<1> DEFINE known == Known(groups)
           N == Cardinality(known)
<1>1. IsFiniteSet(known)
  <2>1. IsFiniteSet(DOMAIN groups)
    <3>1. DOMAIN groups = 1 .. Len(groups) /\ Len(groups) \in Nat
      BY DEF IsDiff
    <3> QED
      BY <3>1, FS_Interval
  <2> DEFINE f == [i \in DOMAIN groups |-> groups[i].id]
             D == DOMAIN groups
  <2>2. f \in Surjection(D, known)
    BY DEF Known, Surjection
  <2>3. IsFiniteSet(D)
    BY <2>1
  <2> HIDE DEF f, D, known
  <2> QED
    BY <2>2, <2>3, FS_Surjection
<1>2. N \in Nat
  BY <1>1, FS_CardinalityType
<1>3. PICK walk : Levels(groups, walk) /\ includeDependencies(groups) = walk[N]
  BY <1>2, IncludeDependenciesExists
<1> DEFINE Reached == {depth \in 0 .. N : WalkedFrom(groups, depth, walk[depth])}
<1>4. 0 \in Reached
  <2>1. walk[0] = Level(groups, 0, walk)
    BY <1>3 DEF Levels
  <2>2. WalkedFrom(groups, 0, Level(groups, 0, walk))
    BY <1>1, LevelWalks
  <2>3. 0 \in 0 .. N
    BY <1>2
  <2> QED
    BY <2>1, <2>2, <2>3
<1>5. ASSUME NEW m \in 0 .. N - 1, m \in Reached
      PROVE  m + 1 \in Reached
  <2>1. /\ m + 1 \in 1 .. N /\ m + 1 \in 0 .. N /\ m \in 0 .. N
        /\ (m + 1) - 1 = m /\ m + 1 \in Nat
    BY <1>2
  <2>2. walk[m + 1] = Level(groups, m + 1, walk[m]) /\ walk[m] \in WalksFrom(groups)
    BY <1>3, <2>1 DEF Levels
  <2>3. WalkedFrom(groups, m, walk[m])
    BY <1>5
  <2>4. WalkedFrom(groups, m + 1, Level(groups, m + 1, walk[m]))
    BY <1>1, <2>1, <2>2, <2>3, LevelWalks
  <2> QED
    BY <2>1, <2>2, <2>4
<1>6. N \in Reached
  <2> HIDE DEF Reached, N
  <2>1. \A depth \in 0 .. N : depth \in Reached
    BY <1>2, <1>4, <1>5, InductionUpTo
  <2> QED
    BY <1>2, <2>1
<1>7. walk[N] \in WalksFrom(groups)
  BY <1>2, <1>3 DEF Levels
<1>8. ASSUME NEW id \in Named(groups), NEW sets \in Walks(groups), InOrder(groups, sets),
             sets.visiting = {}
      PROVE  Walked(groups, id, sets, walk[N][id][sets])
  <2>1. known \ sets.visiting = known
    BY <1>8
  <2>2. Cardinality(known \ sets.visiting) <= N
    BY <1>2, <2>1
  <2> QED
    BY <1>6, <1>8, <2>2 DEF WalkedFrom
<1> QED
  BY <1>3, <1>7, <1>8

-----------------------------------------------------------------------------
\* The ids of the first groups of a diff that are included: all of them, in the diff's order.
Lists(groups, included, n, ids) ==
    /\ ids \in Seq(Known(groups))
    /\ Range(ids) = {groups[i].id : i \in 1 .. n} \cap included
    /\ \A k, m \in DOMAIN ids : k < m =>
            \E i, j \in 1 .. n : i < j /\ groups[i].id = ids[k] /\ groups[j].id = ids[m]

\* One more group that is included.
LEMMA ListsOneMore ==
  ASSUME NEW groups, NEW included, NEW n \in Nat, NEW ids, Lists(groups, included, n, ids),
         groups[n + 1].id \in included \cap Known(groups)
  PROVE  Lists(groups, included, n + 1, Append(ids, groups[n + 1].id))
<1> DEFINE id == groups[n + 1].id
           more == Append(ids, id)
           l == Len(ids)
<1>1. ids \in Seq(Known(groups)) /\ id \in Known(groups)
  BY DEF Lists
<1> HIDE DEF id
<1>2. /\ more \in Seq(Known(groups))
      /\ Len(more) = l + 1 /\ l \in Nat
      /\ \A k \in 1 .. l : more[k] = ids[k]
      /\ more[l + 1] = id
  BY <1>1, AppendProperties
<1> HIDE DEF more
<1>3. DOMAIN more = 1 .. l + 1 /\ DOMAIN ids = 1 .. l
  BY <1>1, <1>2
<1> HIDE DEF l
<1>4. \A k \in DOMAIN more : k \in DOMAIN ids \/ k = l + 1
  BY <1>2, <1>3
<1>5. l + 1 \in DOMAIN more /\ \A k \in DOMAIN ids : k \in DOMAIN more /\ more[k] = ids[k]
  BY <1>2, <1>3
<1>6. Range(more) = Range(ids) \cup {id}
  BY <1>2, <1>4, <1>5 DEF Range
<1>7. {groups[i].id : i \in 1 .. n + 1} = {groups[i].id : i \in 1 .. n} \cup {id}
  <2>1. \A i : i \in 1 .. n + 1 <=> i \in 1 .. n \/ i = n + 1
    OBVIOUS
  <2> QED
    BY <2>1 DEF id
<1>8. Range(more) = {groups[i].id : i \in 1 .. n + 1} \cap included
  BY <1>6, <1>7 DEF Lists, id
<1>9. ASSUME NEW k \in DOMAIN more, NEW m \in DOMAIN more, k < m
      PROVE  \E i, j \in 1 .. n + 1 : i < j /\ groups[i].id = more[k] /\ groups[j].id = more[m]
  <2>1. \A i \in 1 .. n : i \in 1 .. n + 1 /\ i < n + 1
    OBVIOUS
  <2>2. n + 1 \in 1 .. n + 1
    OBVIOUS
  <2>3. k \in 1 .. l
    BY <1>2, <1>3, <1>9
  <2>4. CASE m \in 1 .. l
    <3>1. PICK i, j \in 1 .. n : i < j /\ groups[i].id = ids[k] /\ groups[j].id = ids[m]
      BY <1>3, <1>9, <2>3, <2>4 DEF Lists
    <3> QED
      BY <1>2, <2>1, <2>3, <2>4, <3>1
  <2>5. CASE m = l + 1
    <3>1. ids[k] \in Range(ids)
      BY <1>3, <2>3 DEF Range
    <3>2. PICK i \in 1 .. n : groups[i].id = ids[k]
      BY <3>1 DEF Lists
    <3> QED
      BY <1>2, <2>1, <2>2, <2>3, <2>5, <3>2 DEF id
  <2> QED
    BY <1>3, <1>4, <1>9, <2>4, <2>5
<1>10. Lists(groups, included, n + 1, more)
  BY <1>2, <1>8, <1>9 DEF Lists
<1> QED
  BY <1>10 DEF more, id

\* One more group that is not.
LEMMA ListsNoMore ==
  ASSUME NEW groups, NEW included, NEW n \in Nat, NEW ids, Lists(groups, included, n, ids),
         groups[n + 1].id \notin included
  PROVE  Lists(groups, included, n + 1, ids)
<1>1. \A i : i \in 1 .. n + 1 <=> i \in 1 .. n \/ i = n + 1
  OBVIOUS
<1>2. {groups[i].id : i \in 1 .. n + 1} = {groups[i].id : i \in 1 .. n} \cup {groups[n + 1].id}
  BY <1>1
<1> QED
  BY <1>1, <1>2 DEF Lists

\* idsIncluded() lists what is included.
LEMMA IncludedIsListed ==
  ASSUME NEW groups, IsDiff(groups), NEW included
  PROVE  Lists(groups, included, Len(groups), idsIncluded(groups, included))
<1> DEFINE N == Len(groups)
           S == Seq(Known(groups))
           go(i, before) == IF groups[i].id \in included THEN Append(before, groups[i].id)
                            ELSE before
           step == [i \in 1 .. N |-> [before \in S |-> go(i, before)]]
           body(f) == [n \in 0 .. N |-> IF n = 0 THEN <<>>
                                        ELSE IF groups[n].id \in included
                                        THEN Append(f[n - 1], groups[n].id) ELSE f[n - 1]]
           ids == CHOOSE f : f = body(f)
<1>1. N \in Nat /\ \A i \in 1 .. N : groups[i].id \in Known(groups)
  BY DEF IsDiff, Known
<1>2. idsIncluded(groups, included) = ids[N]
  BY DEF idsIncluded
<1>3. step \in [1 .. N -> [S -> S]]
  BY <1>1
<1>4. <<>> \in S
  OBVIOUS
<1>5. HasRecursion(N, S, <<>>, step)
  <2> HIDE DEF step, S, N
  <2> QED
    BY <1>1, <1>3, <1>4, RecursionExists
<1>6. PICK f \in [0 .. N -> S] : f[0] = <<>> /\ \A i \in 1 .. N : f[i] = step[i][f[i - 1]]
  <2> HIDE DEF step, S, N
  <2> QED
    BY <1>5 DEF HasRecursion
<1> HIDE DEF N
<1>7. ASSUME NEW n \in 0 .. N, n # 0
      PROVE  f[n] = go(n, f[n - 1])
  <2>1. n \in 1 .. N /\ n - 1 \in 0 .. N
    BY <1>1, <1>7
  <2> HIDE DEF S, go
  <2> QED
    BY <1>6, <2>1
<1>8. f = body(f)
  BY <1>6, <1>7
<1>9. ids = body(ids)
  <2> HIDE DEF body
  <2> QED
    BY <1>8
<1> HIDE DEF ids
<1> DEFINE Reached == {n \in 0 .. N : Lists(groups, included, n, ids[n])}
<1>10. 0 \in Reached
  <2>1. 0 \in 0 .. N
    BY <1>1
  <2>2. ids[0] = <<>>
    BY <1>9, <2>1
  <2>3. Lists(groups, included, 0, <<>>)
    BY DEF Lists, Range
  <2> QED
    BY <2>1, <2>2, <2>3
<1>11. ASSUME NEW n \in 0 .. N - 1, n \in Reached
       PROVE  n + 1 \in Reached
  <2>1. /\ n + 1 \in 0 .. N /\ n + 1 # 0 /\ (n + 1) - 1 = n /\ n \in Nat /\ n + 1 \in 1 .. N
    BY <1>1
  <2>2. ids[n + 1] = go(n + 1, ids[n])
    BY <1>9, <2>1
  <2>3. Lists(groups, included, n, ids[n])
    BY <1>11
  <2>4. groups[n + 1].id \in Known(groups)
    BY <1>1, <2>1
  <2>5. Lists(groups, included, n + 1, ids[n + 1])
    BY <2>1, <2>2, <2>3, <2>4, ListsOneMore, ListsNoMore
  <2> QED
    BY <2>1, <2>5
<1>12. N \in Reached
  <2> HIDE DEF Reached
  <2>1. \A n \in 0 .. N : n \in Reached
    BY <1>1, <1>10, <1>11, InductionUpTo
  <2> QED
    BY <1>1, <2>1
<1> QED
  BY <1>2, <1>12 DEF N

-----------------------------------------------------------------------------
\* What SelectionIsClosed says of an answer.
IsLeastInOrder(groups, requested, result) ==
    LET all == Named(groups) \cup Range(requested)
        closed == {ids \in SUBSET all : Range(requested) \subseteq ids /\ Closed(groups, ids)}
        least == {id \in all : \A ids \in closed : id \in ids}
    IN  /\ (result.type = "ok") <=> Sound(groups, least)
        /\ Sound(groups, least) =>
            /\ Range(result.groupIds) = least
            /\ \A m, n \in DOMAIN result.groupIds : m < n =>
                \E i, j \in DOMAIN groups :
                    /\ i < j
                    /\ groups[i].id = result.groupIds[m]
                    /\ groups[j].id = result.groupIds[n]

\* computeProposalGroupDependencyClosure(): the least closed set with the groups asked for,
\* in the diff's order, exactly if it is sound.
LEMMA ClosureIsLeast ==
  ASSUME NEW groups, IsDiff(groups), NEW S, NEW requested \in Seq(S)
  PROVE  IsLeastInOrder(groups, requested,
                        computeProposalGroupDependencyClosure(groups, requested))
<1> DEFINE asked == Range(requested)
           all == Named(groups) \cup asked
           closed == {ids \in SUBSET all : asked \subseteq ids /\ Closed(groups, ids)}
           least == {id \in all : \A ids \in closed : id \in ids}
           unknown == {i \in DOMAIN requested : requested[i] \notin Known(groups)}
           none == [type |-> "ok", visiting |-> {}, included |-> {}]
           walked == walkEach(includeDependencies(groups), requested, none)
           result == computeProposalGroupDependencyClosure(groups, requested)
<1> SUFFICES /\ (result.type = "ok") <=> Sound(groups, least)
             /\ Sound(groups, least) =>
                    /\ Range(result.groupIds) = least
                    /\ \A m, n \in DOMAIN result.groupIds : m < n =>
                        \E i, j \in DOMAIN groups :
                            /\ i < j
                            /\ groups[i].id = result.groupIds[m]
                            /\ groups[j].id = result.groupIds[n]
  BY DEF IsLeastInOrder
<1>1. Closed(groups, least) /\ asked \subseteq least
  BY DEF Closed, Named, DependsOn
<1>2. least \subseteq all /\ \A ids \in closed : least \subseteq ids
  OBVIOUS
<1>3. CASE unknown # {}
  <2>1. result.type = "error"
    BY <1>3 DEF computeProposalGroupDependencyClosure, Failure
  <2>2. ~ Sound(groups, least)
    BY <1>1, <1>3 DEF Sound, Range
  <2> QED
    BY <2>1, <2>2
<1>4. CASE unknown = {}
  <2>1. result = IF walked.type = "error" THEN walked
                 ELSE [type |-> "ok", groupIds |-> idsIncluded(groups, walked.included)]
    BY <1>4 DEF computeProposalGroupDependencyClosure
  <2>2. requested \in Seq(Named(groups))
    <3>1. \A i \in 1 .. Len(requested) : requested[i] \in Named(groups)
      BY <1>4 DEF Named
    <3> QED
      BY <3>1
  <2>3. InOrder(groups, none) /\ none.visiting = {} /\ none.included = {}
    BY DEF InOrder, Walks, Sound, Closed
  <2> HIDE DEF none
  <2>4. \A id \in asked : id \in Named(groups)
    BY <2>2 DEF Range
  <2>5. /\ walked \in Outcomes(groups)
        /\ Adds(groups, asked, none, walked)
        /\ (\A id \in asked, sets \in Walks(groups) :
                InOrder(groups, sets) /\ sets.visiting = none.visiting =>
                    includeDependencies(groups)[id][sets].type = "ok")
            => walked.type = "ok"
    <3>1. includeDependencies(groups) \in WalksFrom(groups)
      BY IncludeDependenciesWalks
    <3>2. \A id \in asked, sets \in Walks(groups) :
            InOrder(groups, sets) /\ sets.visiting = none.visiting =>
                Adds(groups, {id}, sets, includeDependencies(groups)[id][sets])
      BY <2>3, <2>4, IncludeDependenciesWalks DEF Walked
    <3> QED
      BY <2>2, <2>3, <3>1, <3>2, WalkEachAdds
  <2> HIDE DEF least, closed, all, walked
  <2>6. ASSUME Sound(groups, least)
        PROVE  walked.type = "ok"
    <3> SUFFICES ASSUME NEW id \in asked, NEW sets \in Walks(groups), InOrder(groups, sets),
                        sets.visiting = none.visiting
                 PROVE  includeDependencies(groups)[id][sets].type = "ok"
      BY <2>5
    <3>1. Walked(groups, id, sets, includeDependencies(groups)[id][sets])
      BY <2>3, <2>4, IncludeDependenciesWalks
    <3>2. LeadsTo(groups, sets.visiting, id, least)
      BY <1>1, <2>3, <2>6 DEF LeadsTo
    <3> QED
      BY <3>1, <3>2 DEF Walked
  <2>7. ASSUME walked.type = "ok"
        PROVE  Sound(groups, least) /\ walked.included = least
    <3>1. /\ Sound(groups, walked.included) /\ Closed(groups, walked.included)
          /\ asked \subseteq walked.included
          /\ walked.included \subseteq {} \cup least
      BY <1>1, <2>3, <2>5, <2>7 DEF Adds, InOrder
    <3>2. walked.included \subseteq Named(groups)
      BY <3>1 DEF Sound, Named
    <3>3. walked.included \in closed
      BY <3>1, <3>2 DEF closed, all
    <3>4. walked.included = least
      BY <1>2, <3>1, <3>3
    <3> QED
      BY <3>1, <3>4
  <2>8. CASE walked.type = "ok"
    <3>1. result = [type |-> "ok", groupIds |-> idsIncluded(groups, least)]
      BY <2>1, <2>7, <2>8
    <3>2. Lists(groups, least, Len(groups), result.groupIds)
      BY <3>1, IncludedIsListed
    <3>3. DOMAIN groups = 1 .. Len(groups)
      BY DEF IsDiff
    <3>4. {groups[i].id : i \in 1 .. Len(groups)} \cap least = least
      BY <2>7, <2>8, <3>3 DEF Sound, Known
    <3>5. result.type = "ok"
      BY <3>1
    <3> DEFINE list == result.groupIds
    <3> HIDE DEF result, list
    <3>6. Range(list) = least
      BY <3>2, <3>4 DEF Lists, list
    <3>7. \A m, n \in DOMAIN list : m < n =>
            \E i, j \in DOMAIN groups : i < j /\ groups[i].id = list[m] /\ groups[j].id = list[n]
      <4>1. Lists(groups, least, Len(groups), list)
        BY <3>2 DEF list
      <4>2. \A k, m \in DOMAIN list : k < m =>
              \E i, j \in 1 .. Len(groups) :
                  i < j /\ groups[i].id = list[k] /\ groups[j].id = list[m]
        BY <4>1 DEF Lists
      <4> QED
        BY <3>3, <4>2
    <3> QED
      BY <2>7, <2>8, <3>5, <3>6, <3>7 DEF list
  <2>9. CASE walked.type # "ok"
    <3>1. walked.type = "error"
      BY <2>5, <2>9, OutcomeIsOne
    <3>2. result.type # "ok"
      BY <2>1, <2>9, <3>1
    <3> QED
      BY <2>6, <2>9, <3>2
  <2> QED
    BY <2>8, <2>9
<1> QED
  BY <1>3, <1>4

-----------------------------------------------------------------------------
\* A choice is the answer for what was asked of the proposal's diff.
ChoiceIsComputed ==
    review # NoReview =>
        /\ review.proposal.diff \in DiffGroups \cup {NoDiff}
        /\ review.choice # NoChoice =>
            /\ review.proposal.diff \in DiffGroups
            /\ review.choice.requested \in Seq(Range(review.choice.requested))
            /\ review.choice.result = computeProposalGroupDependencyClosure(
                                            review.proposal.diff, review.choice.requested)

\* Every step keeps the choice the answer for the proposal's diff.
LEMMA ChoiceIsComputedStep ==
  ASSUME ReviewIsPrepared, ChoiceIsComputed, [Next]_vars
  PROVE  ChoiceIsComputed'
<1>1. CASE UNCHANGED review
  BY <1>1 DEF ChoiceIsComputed
<1>2. ASSUME review # NoReview, NEW status \in ProposalStatus, RequestStatus(status)
      PROVE  ChoiceIsComputed'
  <2>1. review'.proposal.diff = review.proposal.diff /\ review'.choice = review.choice
    BY <1>2, RequestStatusPrepares
  <2> QED
    BY <1>2, <2>1 DEF ChoiceIsComputed
<1>3. ASSUME review # NoReview, NEW groups \in DiffGroups, AttachDiff(groups),
             review.choice = NoChoice
      PROVE  ChoiceIsComputed'
  BY <1>3 DEF AttachDiff, ReviewIsPrepared, ChoiceIsComputed, IsProposal
<1>4. ASSUME review # NoReview, NEW status \in {"valid", "invalid"}, AttachValidation(status)
      PROVE  ChoiceIsComputed'
  <2>1. review'.proposal.diff = review.proposal.diff /\ review'.choice = review.choice
    BY <1>4 DEF AttachValidation, ReviewIsPrepared, IsProposal
  <2> QED
    BY <1>4, <2>1 DEF ChoiceIsComputed
<1>5. ASSUME review # NoReview, NEW requested \in Requested, ChooseGroups(requested)
      PROVE  ChoiceIsComputed'
  <2>1. review.proposal.diff \in DiffGroups
    BY <1>5 DEF ChooseGroups, ReviewIsPrepared, ChoiceIsComputed, ReviewStatuses
  <2>2. requested \in Seq(Range(requested))
    <3> DEFINE names == UNION {Named(groups) : groups \in DiffGroups}
    <3> HIDE DEF names
    <3>0. PICK n \in 1 .. 2 : requested \in [1 .. n -> names]
      BY DEF Requested, names
    <3>1. DOMAIN requested = 1 .. n
      BY <3>0
    <3>2. requested = [i \in 1 .. n |-> requested[i]]
      BY <3>0
    <3>3. [i \in 1 .. n |-> requested[i]] \in Seq(Range(requested))
      <4>1. n \in Nat
        OBVIOUS
      <4>2. \A i \in DOMAIN requested : requested[i] \in Range(requested)
        BY DEF Range
      <4>3. \A i \in 1 .. n : requested[i] \in Range(requested)
        BY <3>1, <4>2
      <4> QED
        BY <4>1, <4>3, IsASeq
    <3> QED
      BY <3>2, <3>3
  <2>3. /\ review'.proposal.diff = review.proposal.diff
        /\ review'.choice.requested = requested
        /\ review'.choice.result =
                computeProposalGroupDependencyClosure(review.proposal.diff, requested)
    BY <1>5 DEF ChooseGroups, ReviewIsPrepared
  <2> QED
    BY <2>1, <2>2, <2>3 DEF ChoiceIsComputed
<1>6. Service => UNCHANGED review
  BY DEF Service
<1> QED
  BY <1>1, <1>2, <1>3, <1>4, <1>5, <1>6 DEF Next, Review, vars


-----------------------------------------------------------------------------
IInv ==
    /\ IssuedInOrder
    /\ AnswersOnRecord
    /\ ProposalsAreHeld
    /\ EditsAreRecorded
    /\ ReviewIsPrepared
    /\ ChoiceIsComputed

\* The invariant holds at first.
LEMMA Initially == Init => IInv
BY DEF Init, IInv, IssuedInOrder, Issued, AnswersOnRecord, ProposalsAreHeld, EditsAreRecorded,
       ReviewIsPrepared, ChoiceIsComputed, Drafted, IsProposal, ProposalStatus, ReviewStatuses

\* The invariant holds always.
LEMMA Invariance == Spec => []IInv
<1>1. IInv /\ [Next]_vars => IInv'
  BY IssuedInOrderStep, AnswersOnRecordStep, ProposalsAreHeldStep, EditsAreRecordedStep,
     ReviewIsPreparedStep, ChoiceIsComputedStep DEF IInv
<1> QED
  BY Initially, <1>1, PTL DEF Spec

(* Every identifier of the service is a UUIDv7 that comes after all the ones *)
(* it has issued (UuidV7IdAllocator.allocate() under any clock and entropy   *)
(* source): a session or proposal never takes the place of another.          *)
THEOREM IdentifiersGrowAlways == Spec => IdentifiersGrow
<1>1. ASSUME IInv, [Next]_vars, previousBytes' # previousBytes
      PROVE  /\ IsUuidV7(previousBytes')
             /\ \A id \in (DOMAIN sessions \cup DOMAIN proposals \cup {previousBytes}) \ {NoIdentifier} :
                    Precedes(id, previousBytes')
  <2>1. previousBytes' \in NextIdentifiers /\ previousBytes' # NoIdentifier
    BY <1>1, StepEffects DEF Quiet, Opened, Created, Advanced
  <2> QED
    BY <1>1, <2>1, NextIdentifierIsNew DEF IInv, Issued
<1> QED
  BY <1>1, Invariance, PTL DEF Spec, IdentifiersGrow

(* While its session lasts, a mutation that was answered with a proposal is  *)
(* answered with it again (#replayStageRequest() and createProposal()): a    *)
(* record is only written for a scope that has none, and a session is never  *)
(* replaced, because identifiers grow.                                       *)
THEOREM RetriesAlwaysAgree == Spec => []RetriesAgree
<1>1. IInv => RetriesAgree
  <2> SUFFICES ASSUME IInv, NEW request \in DOMAIN answered, clock < SessionExpiresAt
               PROVE  /\ mutationVerdict(request) = "replay"
                      /\ idempotency[idempotencyScope(request)].proposal = answered[request]
    BY DEF RetriesAgree
  <2>1. Answerable(request) /\ Recorded(request)
    BY DEF IInv, AnswersOnRecord
  <2>2. sessions[request.sessionId].grant.expiresAt = SessionExpiresAt
    BY <2>1 DEF IInv, AnswersOnRecord, Answerable
  <2> QED
    BY <2>1, <2>2, RecordedIsReplayed DEF Recorded
<1> QED
  BY <1>1, Invariance, PTL

(* A proposal only holds edits inside what its own session asked to be held  *)
(* to (#validateSemanticEdits(), before stageSemanticEdits() stores them).   *)
THEOREM EditsAlwaysStayInTheGrant == Spec => []EditsStayInTheGrant
<1>1. IInv => EditsStayInTheGrant
  BY DEF IInv, ProposalsAreHeld, EditsStayInTheGrant, Held
<1> QED
  BY <1>1, Invariance, PTL

(* A stored proposal is made of the batches on record for it, each once, in  *)
(* the order of the revisions they made, and each made on the revision       *)
(* before (stageSemanticEdits(): the expected revision is compared before    *)
(* the batch is stored, and the record is written with the proposal).        *)
THEOREM EditsAreAlwaysAccountedFor == Spec => []EditsAreAccountedFor
<1>1. IInv => EditsAreAccountedFor
  BY DEF IInv, EditsAreRecorded, IsRecorded, EditsAreAccountedFor
<1> QED
  BY <1>1, Invariance, PTL

(* The groups chosen for a partial acceptance are completed to the least set *)
(* that is closed under their dependencies, listed in the diff's order,      *)
(* exactly if there is a sound one (computeProposalGroupDependencyClosure(), *)
(* whose walks share one set of the groups being visited, which tells a      *)
(* cycle, and one of the groups included, which need no second visit).       *)
THEOREM SelectionIsAlwaysClosed == Spec => []SelectionIsClosed
<1>1. IInv => SelectionIsClosed
  <2> SUFFICES ASSUME ChoiceIsComputed, review # NoReview, review.choice # NoChoice
               PROVE  SelectionIsClosed
    BY DEF IInv, SelectionIsClosed
  <2> DEFINE groups == review.proposal.diff
             asked == review.choice.requested
  <2>1. IsDiff(groups) /\ asked \in Seq(Range(asked))
    BY DiffGroupsAssumption DEF ChoiceIsComputed, IsDiff
  <2>2. review.choice.result = computeProposalGroupDependencyClosure(groups, asked)
    BY DEF ChoiceIsComputed
  <2>3. IsLeastInOrder(groups, asked, review.choice.result)
    BY <2>1, <2>2, ClosureIsLeast
  <2> QED
    BY <2>3 DEF SelectionIsClosed, IsLeastInOrder, Sound, Closed, DependsOn
<1> QED
  BY <1>1, Invariance, PTL
=============================================================================
