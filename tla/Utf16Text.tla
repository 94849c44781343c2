------------------------------ MODULE Utf16Text ------------------------------
(***************************************************************************)
(* Text as JavaScript holds it: a sequence of UTF-16 code units.  "H" and  *)
(* "L" stand for a high and a low surrogate, which only make sense as the  *)
(* pair "H", "L"; every other unit is a character of its own.  The unit    *)
(* "w" stands for a character that takes two bytes of UTF-8, a surrogate   *)
(* pair takes four, and every other unit takes one, so that an offset in   *)
(* code units and an offset in bytes are different things.                 *)
(***************************************************************************)
EXTENDS Integers, Sequences, SequencesExt

\* typeof value === 'string'.
isString(value) == value \in Seq(Range(value))

isHighSurrogate(unit) == unit = "H"
isLowSurrogate(unit) == unit = "L"

\* value.slice(start, end), offsets counting from zero.
Slice(text, start, end) == SubSeq(text, start + 1, end)

\* The text between start and end is replaced.
Splice(text, start, end, replacement) ==
    Slice(text, 0, start) \o replacement \o Slice(text, end, Len(text))

hasWellFormedUtf16(text) ==
    \A i \in DOMAIN text :
        /\ isHighSurrogate(text[i]) => i < Len(text) /\ isLowSurrogate(text[i + 1])
        /\ isLowSurrogate(text[i]) => i > 1 /\ isHighSurrogate(text[i - 1])

\* The offset is in the text and does not fall inside a surrogate pair.
validateUtf16Boundary(text, offset) ==
    /\ offset \in 0 .. Len(text)
    /\ ~ /\ offset \in 1 .. Len(text) - 1
         /\ isHighSurrogate(text[offset])
         /\ isLowSurrogate(text[offset + 1])

-----------------------------------------------------------------------------
(* UTF-8.  The two halves of a pair carry two of its four bytes each, so    *)
(* the bytes of a concatenation are the concatenation of the bytes.         *)

UnitBytes(unit) ==
    CASE unit = "w" -> <<"w1", "w2">>
      [] unit = "H" -> <<"p1", "p2">>
      [] unit = "L" -> <<"p3", "p4">>
      [] OTHER -> <<unit>>

encodeUtf8(text) == FlattenSeq([i \in DOMAIN text |-> UnitBytes(text[i])])

utf8Length(text) == Len(encodeUtf8(text))

\* indexOf: the offsets at which needle occurs in text.
Occurrences(text, needle) ==
    {start \in 0 .. Len(text) - Len(needle) :
        Slice(text, start, start + Len(needle)) = needle}
=============================================================================
