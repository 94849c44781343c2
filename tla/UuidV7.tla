------------------------------- MODULE UuidV7 -------------------------------
(***************************************************************************)
(* UuidV7IdAllocator (src/base/ids/uuid-v7-allocator.ts).  An identifier   *)
(* is its sixteen bytes: six of timestamp, then the random field, in which *)
(* byte 6 carries the version and byte 8 the variant.  A seed comes from   *)
(* the ambient clock and entropy source, which are not trusted to advance. *)
(***************************************************************************)
EXTENDS Integers, FiniteSets

CONSTANTS
    MaxTimestamp,   \* the greatest timestamp six bytes can hold
    NoIdentifier    \* no identifier has been allocated, or the allocation threw

ASSUME TimestampAssumption == MaxTimestamp \in Nat /\ NoIdentifier \notin [0 .. 15 -> Int]

Byte == 0 .. 255
Bytes == [0 .. 15 -> Byte]
RandomField == 6 .. 15

\* incrementByte() is called with this maximum and this reset value for each byte.
Maximum(index) == CASE index = 6 -> 127 [] index = 8 -> 191 [] OTHER -> 255
Reset(index) == CASE index = 6 -> 112 [] index = 8 -> 128 [] OTHER -> 0

IsUuidV7(bytes) ==
    /\ bytes \in Bytes
    /\ \A index \in RandomField : bytes[index] \in Reset(index) .. Maximum(index)

-----------------------------------------------------------------------------
(* Seeds: [unixMilliseconds, randomBytes].                                  *)

validateSeed(seed) ==
    /\ seed.unixMilliseconds \in 0 .. MaxTimestamp
    /\ DOMAIN seed.randomBytes = 0 .. 9

\* The most significant byte is at 0: each byte is what the later ones left over.
writeTimestamp(timestamp) ==
    LET remaining[index \in 0 .. 5] ==
            IF index = 5 THEN timestamp ELSE remaining[index + 1] \div 256
    IN  [index \in 0 .. 5 |-> remaining[index] % 256]

createUuidV7Bytes(seed) ==
    [index \in 0 .. 15 |->
        CASE index < 6 -> writeTimestamp(seed.unixMilliseconds)[index]
          [] index = 6 -> 112 + (seed.randomBytes[0] % 16)
          [] index = 7 -> seed.randomBytes[1]
          [] index = 8 -> 128 + (seed.randomBytes[2] % 64)
          [] OTHER -> seed.randomBytes[index - 6]]

-----------------------------------------------------------------------------
\* The order of the identifiers' canonical text.
Precedes(left, right) ==
    \E index \in 0 .. 15 :
        /\ left[index] < right[index]
        /\ \A before \in 0 .. index - 1 : left[before] = right[before]

compareTimestamp(left, right) ==
    \E index \in 0 .. 5 :
        /\ left[index] > right[index]
        /\ \A before \in 0 .. index - 1 : left[before] = right[before]

\* The last byte below its maximum takes the carry; the ones after it start again.
\* When every byte is at its maximum the sequence is exhausted.
Incrementable(bytes) == {index \in RandomField : bytes[index] < Maximum(index)}

Carry(bytes) ==
    CHOOSE index \in Incrementable(bytes) : \A other \in Incrementable(bytes) : other <= index

incrementRandomField(bytes) ==
    IF Incrementable(bytes) = {}
    THEN NoIdentifier
    ELSE [index \in 0 .. 15 |->
            CASE index < Carry(bytes) -> bytes[index]
              [] index = Carry(bytes) -> bytes[index] + 1
              [] OTHER -> Reset(index)]

\* Broken variant: a candidate with the timestamp of the previous one is taken as it is.
ensureMonotonicUuidV7_TakesARepeatedTimestamp(candidate, previous) ==
    IF compareTimestamp(previous, candidate) THEN incrementRandomField(previous) ELSE candidate

\* Only a later timestamp is safe to take as it is: an equal one may come with
\* smaller random bytes.
ensureMonotonicUuidV7(candidate, previous) ==
    IF compareTimestamp(candidate, previous) THEN candidate ELSE incrementRandomField(previous)

\* The identifier allocate() returns for this seed, or NoIdentifier when it throws:
\* for an invalid seed or an exhausted sequence, before it stores anything.
allocate(seed, previous) ==
    IF ~validateSeed(seed)
    THEN NoIdentifier
    ELSE IF previous = NoIdentifier
         THEN createUuidV7Bytes(seed)
         ELSE ensureMonotonicUuidV7(createUuidV7Bytes(seed), previous)
=============================================================================
