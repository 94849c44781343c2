----------------------------- MODULE CanonicalUtf8 -----------------------------
(***************************************************************************)
(* The UTF-8 bytes kept beside a canonical document text, and how they are *)
(* patched instead of encoded again (base/hashing/portable-sha-256.ts).    *)
(*                                                                         *)
(* A handle is the record [text, bytes, trusted, ranges]: trusted holds    *)
(* the ranges, in units and in bytes, at which a patch put a replacement,  *)
(* and ranges, kept by the kernel, says which object each one serializes.  *)
(* SHA-256 is taken to be injective: a hash is the bytes that were hashed. *)
(***************************************************************************)
EXTENDS Integers, Sequences, SequencesExt, TLC, Utf16Text

CONSTANT Unpatched   \* undefined: the caller has to serialize the document again

createTrustedCanonicalUtf8Text(text) ==
    [text |-> text, bytes |-> encodeUtf8(text), trusted |-> {}, ranges |-> <<>>]

hashCanonicalText(text) == encodeUtf8(text)
hashTrustedCanonicalText(utf8) == utf8.bytes

trustedRange(start, end, startUtf8, endUtf8) ==
    [start |-> start, end |-> end, startUtf8 |-> startUtf8, endUtf8 |-> endUtf8]

isUtf16ScalarBoundary(text, offset) ==
    offset <= 0 \/ offset >= Len(text) \/ validateUtf16Boundary(text, offset)

\* A replacement is [start, end, next, known]: known is a range promised for it, or Unpatched.
isValidTrustedReplacement(replacement, minimumStart, text) ==
    /\ replacement.start >= minimumStart
    /\ replacement.end \in replacement.start .. Len(text)
    /\ isUtf16ScalarBoundary(text, replacement.start)
    /\ isUtf16ScalarBoundary(text, replacement.end)
    /\ hasWellFormedUtf16(replacement.next)

bytesEqualAt(bytes, expected, offset) ==
    /\ offset >= 0 /\ offset + Len(expected) <= Len(bytes)
    /\ Slice(bytes, offset, offset + Len(expected)) = expected

\* Where the replaced bytes start; a promised range counts only if this handle trusts it.
resolvedUtf8Start(utf8, replacement, cursor) ==
    IF replacement.known # Unpatched
    THEN replacement.known.startUtf8
    ELSE cursor.utf8 + utf8Length(Slice(utf8.text, cursor.utf16, replacement.start))

resolvesExactly(utf8, replacement, cursor) ==
    LET previous == encodeUtf8(Slice(utf8.text, replacement.start, replacement.end))
        start == resolvedUtf8Start(utf8, replacement, cursor)
    IN  /\ replacement.known # Unpatched =>
                /\ replacement.known \in utf8.trusted
                /\ replacement.known.start = replacement.start
                /\ replacement.known.end = replacement.end
                /\ replacement.known.endUtf8 = start + Len(previous)
        /\ start >= cursor.utf8
        /\ bytesEqualAt(utf8.bytes, previous, start)

\* One replacement: what precedes it is copied, then what replaces it.
patchOne(utf8, patch, replacement) ==
    IF patch = Unpatched
    THEN Unpatched
    ELSE IF \/ ~ isValidTrustedReplacement(replacement, patch.cursor.utf16, utf8.text)
            \/ ~ resolvesExactly(utf8, replacement, patch.cursor)
    THEN Unpatched
    ELSE LET start == resolvedUtf8Start(utf8, replacement, patch.cursor)
             end == start + utf8Length(Slice(utf8.text, replacement.start, replacement.end))
             text == patch.text \o Slice(utf8.text, patch.cursor.utf16, replacement.start)
             bytes == patch.bytes \o Slice(utf8.bytes, patch.cursor.utf8, start)
         IN  [text |-> text \o replacement.next,
              bytes |-> bytes \o encodeUtf8(replacement.next),
              applied |-> Append(patch.applied,
                                 trustedRange(Len(text), Len(text) + Len(replacement.next),
                                              Len(bytes),
                                              Len(bytes) + utf8Length(replacement.next))),
              cursor |-> [utf16 |-> replacement.end, utf8 |-> end]]

\* Sorted replacements, applied to the text and to its bytes; Unpatched if one does not fit.
patchTrustedCanonicalUtf8Text(utf8, replacements) ==
    LET patched[n \in 0 .. Len(replacements)] ==
            IF n = 0
            THEN [text |-> <<>>, bytes |-> <<>>, applied |-> <<>>,
                  cursor |-> [utf16 |-> 0, utf8 |-> 0]]
            ELSE patchOne(utf8, patched[n - 1], replacements[n])
        patch == patched[Len(replacements)]
    IN  IF patch = Unpatched
        THEN Unpatched
        ELSE [applied |-> patch.applied,
              utf8 |-> [text |-> patch.text \o
                            Slice(utf8.text, patch.cursor.utf16, Len(utf8.text)),
                        bytes |-> patch.bytes \o
                            Slice(utf8.bytes, patch.cursor.utf8, Len(utf8.bytes)),
                        trusted |-> Range(patch.applied),
                        ranges |-> <<>>]]
=============================================================================
