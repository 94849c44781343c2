------------------------ MODULE SnapshotCacheProofs ------------------------
(***************************************************************************)
(* Proofs that the verified Snapshot cache holds of every Revision exactly *)
(* what a fresh calculation yields: the document, its canonical text with  *)
(* the UTF-8 range of every node, its hash and its index, though a commit  *)
(* patches all of them from those of its predecessor.                      *)
(*                                                                         *)
(* The argument, section by section:                                       *)
(*   - strings, the canonical text of a list, and where a part of a text   *)
(*     that is written in order lies in it;                                *)
(*   - what patching a text does when the patches are in order, and that   *)
(*     the ranges move along with it;                                      *)
(*   - the patched text of a document is the text of the next document,    *)
(*     for one Operation and for a whole Transaction;                      *)
(*   - a derived index is the index a fresh traversal builds;              *)
(*   - what the counters of the cache count;                               *)
(*   - CInv, the invariant: every entry, also a provisional one that only  *)
(*     the caller of the kernel holds, is exact, and the counters are      *)
(*     right; each step keeps it.                                          *)
(***************************************************************************)
EXTENDS EditingProofs

-----------------------------------------------------------------------------
(* Strings, one after the other. *)

\* A string that is made of two.
IsConcat(ab, a, b) ==
    /\ isString(ab)
    /\ Len(ab) = Len(a) + Len(b)
    /\ \A i \in 1 .. Len(a) : ab[i] = a[i]
    /\ \A i \in 1 .. Len(b) : ab[Len(a) + i] = b[i]

\* The length and the places of a string.
LEMMA StringFacts ==
  ASSUME NEW a, isString(a)
  PROVE  /\ Len(a) \in Nat
         /\ DOMAIN a = 1 .. Len(a)
         /\ a = [i \in 1 .. Len(a) |-> a[i]]
BY LenProperties DEF isString

\* A sequence of anything is a string.
LEMMA SequenceIsString ==
  ASSUME NEW S, NEW a \in Seq(S)
  PROVE  isString(a)
<1>1. Len(a) \in Nat /\ a = [i \in 1 .. Len(a) |-> a[i]]
  BY LenProperties
<1> QED
  BY <1>1, LenOfFunction DEF isString

\* Strings of one length with the same units are one.
LEMMA SameString ==
  ASSUME NEW a, isString(a), NEW b, isString(b), Len(a) = Len(b),
         \A i \in 1 .. Len(a) : a[i] = b[i]
  PROVE  a = b
<1>1. a = [i \in 1 .. Len(a) |-> a[i]]
  BY StringFacts
<1>2. b = [i \in 1 .. Len(b) |-> b[i]]
  BY StringFacts
<1> QED
  BY <1>1, <1>2

\* Two strings make a string.
LEMMA ConcatString ==
  ASSUME NEW a, isString(a), NEW b, isString(b)
  PROVE  IsConcat(a \o b, a, b)
<1> DEFINE S == Range(a) \cup Range(b)
           ab == a \o b
<1>1. a \in Seq(S) /\ b \in Seq(S)
  BY SeqMonotonic DEF isString
<1> HIDE DEF S
<1>2. /\ ab \in Seq(S)
      /\ Len(ab) = Len(a) + Len(b)
      /\ \A i \in 1 .. Len(a) : ab[i] = a[i]
      /\ \A i \in 1 .. Len(b) : ab[Len(a) + i] = b[i]
  BY <1>1
<1> HIDE DEF ab
<1>3. isString(ab)
  BY <1>2, SequenceIsString
<1> QED
  BY <1>2, <1>3 DEF IsConcat, ab

\* Three strings, put together in either order.
IsAssociative(a, b, c) == (a \o b) \o c = a \o (b \o c)

\* It does not matter which are put together first.
LEMMA ConcatsAssociate ==
  ASSUME NEW a, isString(a), NEW b, isString(b), NEW c, isString(c)
  PROVE  IsAssociative(a, b, c)
<1> DEFINE S == Range(a) \cup Range(b) \cup Range(c)
<1>1. a \in Seq(S) /\ b \in Seq(S) /\ c \in Seq(S)
  BY SeqMonotonic DEF isString
<1> HIDE DEF S
<1> QED
  BY <1>1 DEF IsAssociative

\* The empty string.
LEMMA ConcatEmpty ==
  ASSUME NEW a, isString(a)
  PROVE  isString(<<>>) /\ <<>> \o a = a /\ a \o <<>> = a
<1> DEFINE S == Range(a)
<1>1. a \in Seq(S)
  BY DEF isString
<1> HIDE DEF S
<1>2. <<>> \in Seq(S)
  OBVIOUS
<1>3. isString(<<>>)
  BY <1>2, SequenceIsString
<1> QED
  BY <1>1, <1>3

\* What a slice is.
IsSlice(slice, a, start, end) ==
    /\ isString(slice)
    /\ Len(slice) = end - start
    /\ \A i \in 1 .. end - start : slice[i] = a[start + i]

\* The part of a string between two offsets.
LEMMA SliceFacts ==
  ASSUME NEW a, isString(a), NEW start \in 0 .. Len(a), NEW end \in start .. Len(a)
  PROVE  IsSlice(Slice(a, start, end), a, start, end)
<1> DEFINE S == Range(a)
           slice == Slice(a, start, end)
<1>1. a \in Seq(S) /\ Len(a) \in Nat /\ start \in Nat /\ end \in Nat
  BY StringFacts DEF isString
<1> HIDE DEF S
<1>2. slice = SubSeq(a, start + 1, end)
  BY DEF Slice
<1>3. /\ slice \in Seq(S)
      /\ Len(slice) = end - start
      /\ \A i \in 1 .. end - start : slice[i] = a[start + i]
  BY <1>1, <1>2
<1> HIDE DEF slice
<1>4. isString(slice)
  BY <1>3, SequenceIsString
<1> QED
  BY <1>3, <1>4 DEF IsSlice, slice

\* Two slices that meet.
LEMMA SlicesMeet ==
  ASSUME NEW a, isString(a), NEW start \in 0 .. Len(a), NEW middle \in start .. Len(a),
         NEW end \in middle .. Len(a)
  PROVE  Slice(a, start, middle) \o Slice(a, middle, end) = Slice(a, start, end)
<1> DEFINE l == Slice(a, start, middle)
           r == Slice(a, middle, end)
           w == Slice(a, start, end)
           n == middle - start
           m == end - middle
<1>1. /\ Len(a) \in Nat /\ start \in Nat /\ middle \in Nat /\ end \in Nat
      /\ end \in start .. Len(a) /\ middle \in 0 .. Len(a)
  BY StringFacts
<1>2. /\ IsSlice(l, a, start, middle) /\ IsSlice(r, a, middle, end)
      /\ IsSlice(w, a, start, end)
  BY <1>1, SliceFacts
<1> HIDE DEF l, r, w
<1>3. IsConcat(l \o r, l, r)
  BY <1>2, ConcatString DEF IsSlice
<1>4. Len(l \o r) = end - start
  BY <1>1, <1>2, <1>3 DEF IsSlice, IsConcat
<1>5. ASSUME NEW i \in 1 .. end - start
      PROVE  (l \o r)[i] = w[i]
  <2>1. w[i] = a[start + i]
    BY <1>2 DEF IsSlice
  <2>2. CASE i <= n
    <3>1. i \in 1 .. middle - start
      BY <1>1, <2>2
    <3>2. (l \o r)[i] = l[i] /\ l[i] = a[start + i]
      BY <1>2, <1>3, <3>1 DEF IsSlice, IsConcat
    <3> QED
      BY <2>1, <3>2
  <2>3. CASE ~ (i <= n)
    <3>1. i - n \in 1 .. end - middle /\ n + (i - n) = i /\ middle + (i - n) = start + i
      BY <1>1, <2>3
    <3>2. (l \o r)[Len(l) + (i - n)] = r[i - n]
      BY <1>2, <1>3, <3>1 DEF IsSlice, IsConcat
    <3>3. r[i - n] = a[middle + (i - n)]
      BY <1>2, <3>1 DEF IsSlice
    <3>4. Len(l) = n
      BY <1>2 DEF IsSlice
    <3> QED
      BY <2>1, <3>1, <3>2, <3>3, <3>4
  <2> QED
    BY <2>2, <2>3
<1>6. l \o r = w
  BY <1>2, <1>3, <1>4, <1>5, SameString DEF IsSlice, IsConcat
<1> QED
  BY <1>6 DEF l, r, w

\* A slice of nothing, and of everything.
LEMMA SliceEnds ==
  ASSUME NEW a, isString(a)
  PROVE  /\ Slice(a, 0, Len(a)) = a
         /\ \A at \in 0 .. Len(a) : Slice(a, at, at) = <<>>
<1>1. Len(a) \in Nat
  BY StringFacts
<1>2. Slice(a, 0, Len(a)) = a
  <2>1. IsSlice(Slice(a, 0, Len(a)), a, 0, Len(a))
    BY <1>1, SliceFacts
  <2> DEFINE w == Slice(a, 0, Len(a))
  <2> HIDE DEF w
  <2>2. isString(w) /\ Len(w) = Len(a) /\ \A i \in 1 .. Len(w) : w[i] = a[i]
    BY <1>1, <2>1 DEF IsSlice, w
  <2>3. w = a
    BY <2>2, SameString
  <2> QED
    BY <2>3 DEF w
<1>3. ASSUME NEW at \in 0 .. Len(a)
      PROVE  Slice(a, at, at) = <<>>
  <2>1. at \in at .. Len(a) /\ at - at = 0
    BY <1>1
  <2>2. IsSlice(Slice(a, at, at), a, at, at)
    BY <2>1, SliceFacts
  <2> DEFINE w == Slice(a, at, at)
  <2> HIDE DEF w
  <2>3. isString(w) /\ Len(w) = 0
    BY <2>1, <2>2 DEF IsSlice, w
  <2>4. w = <<>>
    BY <2>3, EmptySeq DEF isString
  <2> QED
    BY <2>4 DEF w
<1> QED
  BY <1>2, <1>3

\* The parts that a string was made of are its slices.
LEMMA SliceOfConcat ==
  ASSUME NEW a, isString(a), NEW b, isString(b), NEW c, isString(c)
  PROVE  LET abc == a \o (b \o c)
         IN  /\ Slice(abc, 0, Len(a)) = a
             /\ Slice(abc, Len(a), Len(a) + Len(b)) = b
             /\ Slice(abc, Len(a) + Len(b), Len(abc)) = c
             /\ Len(abc) = Len(a) + Len(b) + Len(c)
<1> DEFINE bc == b \o c
           abc == a \o bc
<1>0. Len(a) \in Nat /\ Len(b) \in Nat /\ Len(c) \in Nat
  BY StringFacts
<1>1. IsConcat(bc, b, c)
  BY ConcatString
<1> HIDE DEF bc
<1>2. IsConcat(abc, a, bc)
  <2>1. isString(bc)
    BY <1>1 DEF IsConcat
  <2> QED
    BY <2>1, ConcatString
<1> HIDE DEF abc
<1>3. /\ isString(abc) /\ Len(abc) = Len(a) + Len(b) + Len(c)
      /\ \A i \in 1 .. Len(a) : abc[i] = a[i]
  BY <1>0, <1>1, <1>2 DEF IsConcat
<1>4. ASSUME NEW i \in 1 .. Len(b)
      PROVE  abc[Len(a) + i] = b[i]
  <2>1. i \in 1 .. Len(bc)
    BY <1>0, <1>1 DEF IsConcat
  <2> QED
    BY <1>1, <1>2, <2>1 DEF IsConcat
<1>5. ASSUME NEW i \in 1 .. Len(c)
      PROVE  abc[(Len(a) + Len(b)) + i] = c[i]
  <2>1. Len(b) + i \in 1 .. Len(bc) /\ Len(a) + (Len(b) + i) = (Len(a) + Len(b)) + i
    BY <1>0, <1>1 DEF IsConcat
  <2>2. abc[Len(a) + (Len(b) + i)] = bc[Len(b) + i]
    BY <1>2, <2>1 DEF IsConcat
  <2>3. bc[Len(b) + i] = c[i]
    BY <1>1 DEF IsConcat
  <2> QED
    BY <2>1, <2>2, <2>3
<1>6. /\ Len(a) \in 0 .. Len(abc) /\ Len(a) + Len(b) \in Len(a) .. Len(abc)
      /\ 0 \in 0 .. Len(abc) /\ Len(abc) \in (Len(a) + Len(b)) .. Len(abc)
      /\ Len(a) + Len(b) \in 0 .. Len(abc)
      /\ (Len(a) + Len(b)) - Len(a) = Len(b) /\ Len(a) - 0 = Len(a)
      /\ Len(abc) - (Len(a) + Len(b)) = Len(c)
  BY <1>0, <1>3
<1> DEFINE x == Slice(abc, 0, Len(a))
           y == Slice(abc, Len(a), Len(a) + Len(b))
           z == Slice(abc, Len(a) + Len(b), Len(abc))
<1>7. /\ IsSlice(x, abc, 0, Len(a)) /\ IsSlice(y, abc, Len(a), Len(a) + Len(b))
      /\ IsSlice(z, abc, Len(a) + Len(b), Len(abc))
  BY <1>3, <1>6, SliceFacts
<1> HIDE DEF x, y, z
<1>8. x = a
  <2>1. isString(x) /\ Len(x) = Len(a) /\ \A i \in 1 .. Len(x) : x[i] = abc[0 + i]
    BY <1>6, <1>7 DEF IsSlice
  <2>2. \A i \in 1 .. Len(x) : x[i] = a[i]
    BY <1>0, <1>3, <2>1
  <2> QED
    BY <2>1, <2>2, SameString
<1>9. y = b
  <2>1. isString(y) /\ Len(y) = Len(b) /\ \A i \in 1 .. Len(y) : y[i] = abc[Len(a) + i]
    BY <1>6, <1>7 DEF IsSlice
  <2>2. \A i \in 1 .. Len(y) : y[i] = b[i]
    BY <1>4, <2>1
  <2> QED
    BY <2>1, <2>2, SameString
<1>10. z = c
  <2>1. isString(z) /\ Len(z) = Len(c)
        /\ \A i \in 1 .. Len(z) : z[i] = abc[(Len(a) + Len(b)) + i]
    BY <1>6, <1>7 DEF IsSlice
  <2>2. \A i \in 1 .. Len(z) : z[i] = c[i]
    BY <1>5, <2>1
  <2> QED
    BY <2>1, <2>2, SameString
<1> QED
  BY <1>3, <1>8, <1>9, <1>10 DEF x, y, z, abc, bc

\* Strings in a sequence, and the first n of them put together.
AreStrings(seqs) == isString(seqs) /\ \A i \in DOMAIN seqs : isString(seqs[i])

Joined(seqs, n) == FlattenSeq(SubSeq(seqs, 1, n))

\* They are put together one after the other.
LEMMA JoinedInOrder ==
  ASSUME NEW seqs, AreStrings(seqs)
  PROVE  /\ Joined(seqs, 0) = <<>>
         /\ \A n \in 1 .. Len(seqs) : Joined(seqs, n) = Joined(seqs, n - 1) \o seqs[n]
         /\ \A n \in 0 .. Len(seqs) : isString(Joined(seqs, n))
         /\ FlattenSeq(seqs) = Joined(seqs, Len(seqs))
<1> DEFINE S == UNION {Range(seqs[i]) : i \in DOMAIN seqs}
           N == Len(seqs)
           AllGood == {n \in 0 .. N : Joined(seqs, n) \in Seq(S)}
<1>1. N \in Nat /\ DOMAIN seqs = 1 .. N
  BY StringFacts DEF AreStrings
<1>2. seqs \in Seq(Seq(S))
  <2>1. ASSUME NEW i \in 1 .. N
        PROVE  seqs[i] \in Seq(S)
    <3>1. seqs[i] \in Seq(Range(seqs[i])) /\ Range(seqs[i]) \subseteq S
      BY <1>1 DEF AreStrings, isString
    <3> HIDE DEF S
    <3> QED
      BY <3>1, SeqMonotonic
  <2>2. seqs = [i \in 1 .. N |-> seqs[i]]
    BY <1>1, StringFacts DEF AreStrings
  <2> DEFINE T == Seq(S)
  <2>3. \A i \in 1 .. N : seqs[i] \in T
    BY <2>1
  <2> HIDE DEF T
  <2>4. seqs \in Seq(T)
    BY <1>1, <2>2, <2>3, IsASeq
  <2> QED
    BY <2>4 DEF T
<1> HIDE DEF S
<1>3. Joined(seqs, 0) = <<>>
  <2>1. SubSeq(seqs, 1, 0) = <<>>
    BY <1>2
  <2>2. Len(<<>>) = 0
    OBVIOUS
  <2> QED
    BY <2>1, <2>2 DEF Joined, FlattenSeq
<1>4. ASSUME NEW n \in 1 .. N
      PROVE  Joined(seqs, n) = Joined(seqs, n - 1) \o seqs[n]
  <2> DEFINE T == Seq(S)
             fore == SubSeq(seqs, 1, n - 1)
  <2>1. seqs \in Seq(T)
    BY <1>2
  <2> HIDE DEF T, N
  <2>2. n \in Nat /\ n >= 1 /\ n <= Len(seqs) /\ Len(seqs) \in Nat
    BY <1>1 DEF N
  <2>3. fore \in Seq(T) /\ SubSeq(seqs, 1, n) = Append(fore, seqs[n]) /\ seqs[n] \in T
    BY <2>1, <2>2
  <2> HIDE DEF fore
  <2>4. fore \in Seq(Seq(S)) /\ seqs[n] \in Seq(S)
    BY <2>3 DEF T
  <2>5. FlattenSeq(Append(fore, seqs[n])) = FlattenSeq(fore) \o seqs[n]
    BY <2>4, FlattenAppend
  <2> QED
    BY <2>3, <2>5 DEF Joined, fore
<1>5. 0 \in AllGood
  <2>1. \A x : x = <<>> => x \in Seq(S)
    OBVIOUS
  <2>2. Joined(seqs, 0) \in Seq(S)
    BY <1>3, <2>1
  <2>3. 0 \in 0 .. N
    BY <1>1
  <2> HIDE DEF N
  <2> QED
    BY <2>2, <2>3
<1>6. ASSUME NEW n \in 0 .. N - 1, n \in AllGood
      PROVE  n + 1 \in AllGood
  <2>1. n + 1 \in 1 .. N /\ (n + 1) - 1 = n /\ n + 1 \in 0 .. N
    BY <1>1
  <2>2. Joined(seqs, n + 1) = Joined(seqs, n) \o seqs[n + 1]
    BY <1>4, <2>1
  <2>3. Joined(seqs, n) \in Seq(S) /\ seqs[n + 1] \in Seq(S)
    <3>1. Joined(seqs, n) \in Seq(S)
      BY <1>6
    <3> DEFINE T == Seq(S)
    <3>2. seqs \in Seq(T)
      BY <1>2
    <3> HIDE DEF T
    <3>3. seqs[n + 1] \in T
      BY <1>1, <2>1, <3>2
    <3> QED
      BY <3>1, <3>3 DEF T
  <2> DEFINE j == Joined(seqs, n)
             s == seqs[n + 1]
  <2> HIDE DEF j, s
  <2>4. j \in Seq(S) /\ s \in Seq(S)
    BY <2>3 DEF j, s
  <2>5. j \o s \in Seq(S)
    BY <2>4
  <2> QED
    BY <2>1, <2>2, <2>5 DEF j, s
<1>7. \A n \in 0 .. N : n \in AllGood
  <2> HIDE DEF AllGood, N
  <2> QED
    BY <1>1, <1>5, <1>6, InductionUpTo
<1>8. \A n \in 0 .. N : isString(Joined(seqs, n))
  BY <1>7, SequenceIsString
<1>9. FlattenSeq(seqs) = Joined(seqs, N)
  <2> DEFINE T == Seq(S)
  <2>1. seqs \in Seq(T)
    BY <1>2
  <2> HIDE DEF T
  <2>2. SubSeq(seqs, 1, Len(seqs)) = seqs
    BY <2>1
  <2> QED
    BY <2>2 DEF Joined
<1> QED
  BY <1>3, <1>4, <1>8, <1>9

\* The same, one fact at a time.
LEMMA JoinedNone ==
  ASSUME NEW seqs, AreStrings(seqs)
  PROVE  Joined(seqs, 0) = <<>>
BY JoinedInOrder

\* One more string is joined at the end.
LEMMA JoinedNext ==
  ASSUME NEW seqs, AreStrings(seqs), NEW n \in 1 .. Len(seqs)
  PROVE  Joined(seqs, n) = Joined(seqs, n - 1) \o seqs[n]
BY JoinedInOrder

\* Joined strings are a string.
LEMMA JoinedString ==
  ASSUME NEW seqs, AreStrings(seqs), NEW n \in 0 .. Len(seqs)
  PROVE  isString(Joined(seqs, n))
BY JoinedInOrder

\* All strings joined are what FlattenSeq makes of them.
LEMMA JoinedAll ==
  ASSUME NEW seqs, AreStrings(seqs)
  PROVE  FlattenSeq(seqs) = Joined(seqs, Len(seqs))
BY JoinedInOrder

\* What is put together of these strings depends on no more than them.
LEMMA JoinedAlike ==
  ASSUME NEW seqs, AreStrings(seqs), NEW others, AreStrings(others),
         NEW n \in 0 .. Len(seqs), n <= Len(others), \A i \in 1 .. n : seqs[i] = others[i]
  PROVE  Joined(seqs, n) = Joined(others, n)
<1> DEFINE Same == {i \in 0 .. n : Joined(seqs, i) = Joined(others, i)}
<1>1. Len(seqs) \in Nat /\ Len(others) \in Nat /\ n \in Nat
  BY StringFacts DEF AreStrings
<1>2. 0 \in Same
  <2>1. Joined(seqs, 0) = Joined(others, 0)
    BY JoinedNone
  <2> QED
    BY <1>1, <2>1
<1>3. ASSUME NEW i \in 0 .. n - 1, i \in Same
      PROVE  i + 1 \in Same
  <2>1. /\ i + 1 \in 1 .. Len(seqs) /\ i + 1 \in 1 .. Len(others) /\ (i + 1) - 1 = i
        /\ i + 1 \in 1 .. n /\ i + 1 \in 0 .. n
    BY <1>1
  <2>2. Joined(seqs, i + 1) = Joined(seqs, i) \o seqs[i + 1]
    BY <2>1, JoinedNext
  <2>3. Joined(others, i + 1) = Joined(others, i) \o others[i + 1]
    BY <2>1, JoinedNext
  <2> QED
    BY <1>3, <2>1, <2>2, <2>3
<1>4. \A i \in 0 .. n : i \in Same
  <2> HIDE DEF Same
  <2> QED
    BY <1>1, <1>2, <1>3, InductionUpTo
<1> QED
  BY <1>1, <1>4

\* Two sequences of strings are put together as one.
LEMMA FlattenConcat ==
  ASSUME NEW seqs, AreStrings(seqs), NEW others, AreStrings(others)
  PROVE  /\ AreStrings(seqs \o others)
         /\ FlattenSeq(seqs \o others) = FlattenSeq(seqs) \o FlattenSeq(others)
<1> DEFINE all == seqs \o others
           n == Len(seqs)
           m == Len(others)
           fore == Joined(seqs, n)
           Same == {i \in 0 .. m : Joined(all, n + i) = fore \o Joined(others, i)}
<1>1. IsConcat(all, seqs, others)
  BY ConcatString DEF AreStrings
<1> HIDE DEF all
<1>2. n \in Nat /\ m \in Nat /\ DOMAIN seqs = 1 .. n /\ DOMAIN others = 1 .. m
  BY StringFacts DEF AreStrings
<1>3. isString(all) /\ Len(all) = n + m /\ DOMAIN all = 1 .. n + m
  BY <1>1, StringFacts DEF IsConcat
<1>4. AreStrings(all)
  <2>1. ASSUME NEW i \in 1 .. n + m
        PROVE  isString(all[i])
    <3>1. CASE i <= n
      BY <1>1, <1>2, <3>1 DEF IsConcat, AreStrings
    <3>2. CASE ~ (i <= n)
      <4>1. i - n \in 1 .. m /\ n + (i - n) = i
        BY <1>2, <3>2
      <4>2. all[n + (i - n)] = others[i - n]
        BY <1>1, <4>1 DEF IsConcat
      <4> QED
        BY <1>2, <4>1, <4>2 DEF AreStrings
    <3> QED
      BY <3>1, <3>2
  <2> QED
    BY <1>3, <2>1 DEF AreStrings
<1>5. 0 \in Same
  <2>1. Joined(others, 0) = <<>> /\ isString(Joined(seqs, n))
    <3>1. n \in 0 .. Len(seqs)
      BY <1>2
    <3> HIDE DEF n
    <3> QED
      BY <3>1, JoinedNone, JoinedString
  <2>2. Joined(seqs, n) \o <<>> = Joined(seqs, n)
    BY <2>1, ConcatEmpty
  <2>3. Joined(seqs, n) = Joined(all, n)
    <3>1. \A i \in 1 .. n : seqs[i] = all[i]
      BY <1>1 DEF IsConcat
    <3>2. n \in 0 .. Len(seqs) /\ n <= Len(all)
      BY <1>2, <1>3
    <3> HIDE DEF n
    <3> QED
      BY <1>4, <3>1, <3>2, JoinedAlike
  <2>4. n + 0 = n /\ 0 \in 0 .. m
    BY <1>2
  <2> HIDE DEF n, m
  <2> QED
    BY <2>1, <2>2, <2>3, <2>4
<1>6. ASSUME NEW i \in 0 .. m - 1, i \in Same
      PROVE  i + 1 \in Same
  <2>1. /\ i + 1 \in 1 .. m /\ (i + 1) - 1 = i /\ i \in 0 .. m /\ i + 1 \in 0 .. m
        /\ n + (i + 1) \in 1 .. Len(all) /\ (n + (i + 1)) - 1 = n + i
    BY <1>2, <1>3
  <2>2. Joined(all, n + (i + 1)) = Joined(all, n + i) \o all[n + (i + 1)]
    BY <1>4, <2>1, JoinedNext
  <2>3. all[n + (i + 1)] = others[i + 1]
    BY <1>1, <2>1 DEF IsConcat
  <2>4. Joined(others, i + 1) = Joined(others, i) \o others[i + 1]
    BY <2>1, JoinedNext
  <2>5. /\ isString(Joined(seqs, n)) /\ isString(Joined(others, i)) /\ isString(others[i + 1])
    <3>1. n \in 0 .. Len(seqs) /\ i \in 0 .. Len(others)
      BY <1>2
    <3>2. isString(others[i + 1])
      BY <1>2, <2>1 DEF AreStrings
    <3> HIDE DEF n
    <3> QED
      BY <3>1, <3>2, JoinedString
  <2>6. Joined(all, n + i) = Joined(seqs, n) \o Joined(others, i)
    BY <1>6
  <2>7. (Joined(seqs, n) \o Joined(others, i)) \o others[i + 1] =
            Joined(seqs, n) \o (Joined(others, i) \o others[i + 1])
    <3> DEFINE x == Joined(seqs, n)
               y == Joined(others, i)
               z == others[i + 1]
    <3>1. isString(x) /\ isString(y) /\ isString(z)
      BY <2>5
    <3> HIDE DEF x, y, z
    <3>2. (x \o y) \o z = x \o (y \o z)
      <4>1. IsAssociative(x, y, z)
        BY <3>1, ConcatsAssociate
      <4> QED
        BY <4>1 DEF IsAssociative
    <3> QED
      BY <3>2 DEF x, y, z
  <2>8. Joined(all, n + (i + 1)) = Joined(seqs, n) \o Joined(others, i + 1)
    BY <2>2, <2>3, <2>4, <2>6, <2>7
  <2> QED
    BY <2>1, <2>8
<1>7. \A i \in 0 .. m : i \in Same
  <2> HIDE DEF Same, m
  <2> QED
    BY <1>2, <1>5, <1>6, InductionUpTo
<1>8. Joined(all, n + m) = Joined(seqs, n) \o Joined(others, m)
  BY <1>2, <1>7
<1>9. FlattenSeq(all) = Joined(all, n + m)
  BY <1>3, <1>4, JoinedAll
<1>10. FlattenSeq(seqs) = Joined(seqs, n) /\ FlattenSeq(others) = Joined(others, m)
  BY JoinedAll
<1> QED
  BY <1>4, <1>8, <1>9, <1>10 DEF all

-----------------------------------------------------------------------------
(* Bytes. *)

\* The bytes of a text are those of its parts.
LEMMA BytesOfConcat ==
  ASSUME NEW a, isString(a), NEW b, isString(b)
  PROVE  /\ isString(encodeUtf8(a))
         /\ encodeUtf8(a \o b) = encodeUtf8(a) \o encodeUtf8(b)
<1> DEFINE Bytes(text) == [i \in DOMAIN text |-> UnitBytes(text[i])]
<1>1. \A unit : isString(UnitBytes(unit))
  <2> TAKE unit
  <2>1. \E S : UnitBytes(unit) \in Seq(S)
    <3> DEFINE u == UnitBytes(unit)
    <3>1. \A x, y : <<x, y>> \in Seq({x, y})
      OBVIOUS
    <3>2. UnitBytes(unit) \in {<<"w1", "w2">>, <<"p1", "p2">>, <<"p3", "p4">>, <<unit>>}
      <4>1. CASE unit = "w"
        BY <4>1 DEF UnitBytes
      <4>2. CASE unit = "H"
        BY <4>2 DEF UnitBytes
      <4>3. CASE unit = "L"
        BY <4>3 DEF UnitBytes
      <4>4. CASE unit \notin {"w", "H", "L"}
        BY <4>4 DEF UnitBytes
      <4> QED
        BY <4>1, <4>2, <4>3, <4>4
    <3>3. <<unit>> \in Seq({unit})
      OBVIOUS
    <3>4. CASE u = <<unit>>
      BY <3>3, <3>4
    <3>5. ASSUME NEW x, NEW y, u = <<x, y>>
          PROVE  u \in Seq({x, y})
      BY <3>5
    <3> HIDE DEF u
    <3> QED
      BY <3>2, <3>4, <3>5 DEF u
  <2> QED
    BY <2>1, SequenceIsString
<1>2. ASSUME NEW text, isString(text)
      PROVE  /\ AreStrings(Bytes(text)) /\ Len(Bytes(text)) = Len(text)
             /\ \A i \in 1 .. Len(text) : Bytes(text)[i] = UnitBytes(text[i])
             /\ encodeUtf8(text) = FlattenSeq(Bytes(text))
  <2> DEFINE f == Bytes(text)
  <2>1. Len(text) \in Nat /\ DOMAIN text = 1 .. Len(text)
    BY <1>2, StringFacts
  <2>2. /\ f = [i \in 1 .. Len(text) |-> f[i]]
        /\ \A i \in 1 .. Len(text) : f[i] = UnitBytes(text[i])
    BY <2>1
  <2>3. encodeUtf8(text) = FlattenSeq(f)
    BY DEF encodeUtf8
  <2> HIDE DEF f
  <2>4. isString(f) /\ Len(f) = Len(text)
    BY <2>1, <2>2, LenOfFunction DEF isString
  <2>5. AreStrings(f)
    BY <1>1, <2>2, <2>4, StringFacts DEF AreStrings
  <2> QED
    BY <2>2, <2>3, <2>4, <2>5 DEF f
<1>3. IsConcat(a \o b, a, b)
  BY ConcatString
<1> DEFINE ab == a \o b
           x == Bytes(a)
           y == Bytes(b)
           xy == Bytes(ab)
<1> HIDE DEF ab
<1>4. isString(ab) /\ IsConcat(ab, a, b)
  BY <1>3 DEF IsConcat, ab
<1>5. /\ AreStrings(x) /\ Len(x) = Len(a) /\ \A i \in 1 .. Len(a) : x[i] = UnitBytes(a[i])
      /\ encodeUtf8(a) = FlattenSeq(x)
  BY <1>2
<1>6. /\ AreStrings(y) /\ Len(y) = Len(b) /\ \A i \in 1 .. Len(b) : y[i] = UnitBytes(b[i])
      /\ encodeUtf8(b) = FlattenSeq(y)
  BY <1>2
<1>7. /\ AreStrings(xy) /\ Len(xy) = Len(ab)
      /\ \A i \in 1 .. Len(ab) : xy[i] = UnitBytes(ab[i])
      /\ encodeUtf8(ab) = FlattenSeq(xy)
  BY <1>2, <1>4
<1> HIDE DEF x, y, xy, Bytes
<1>8. xy = x \o y
  <2> DEFINE z == x \o y
  <2>1. IsConcat(z, x, y)
    BY <1>5, <1>6, ConcatString DEF AreStrings
  <2> HIDE DEF z
  <2>2. Len(a) \in Nat /\ Len(b) \in Nat /\ Len(z) = Len(ab) /\ Len(ab) = Len(a) + Len(b)
    BY <1>4, <1>5, <1>6, <2>1, StringFacts DEF IsConcat
  <2>3. ASSUME NEW i \in 1 .. Len(xy)
        PROVE  xy[i] = z[i]
    <3>1. CASE i <= Len(a)
      <4>1. i \in 1 .. Len(a) /\ i \in 1 .. Len(ab)
        BY <1>7, <2>2, <3>1
      <4> QED
        BY <1>4, <1>5, <1>7, <2>1, <4>1 DEF IsConcat
    <3>2. CASE ~ (i <= Len(a))
      <4>1. i - Len(a) \in 1 .. Len(b) /\ Len(a) + (i - Len(a)) = i /\ i \in 1 .. Len(ab)
        BY <1>7, <2>2, <3>2
      <4>2. ab[Len(a) + (i - Len(a))] = b[i - Len(a)]
        BY <1>4, <4>1 DEF IsConcat
      <4>3. z[Len(x) + (i - Len(a))] = y[i - Len(a)]
        BY <1>6, <2>1, <4>1 DEF IsConcat
      <4> QED
        BY <1>5, <1>6, <1>7, <4>1, <4>2, <4>3
    <3> QED
      BY <3>1, <3>2
  <2>4. isString(xy) /\ isString(z) /\ Len(xy) = Len(z)
    BY <1>7, <2>1, <2>2 DEF AreStrings, IsConcat
  <2>5. xy = z
    BY <2>3, <2>4, SameString
  <2> QED
    BY <2>5 DEF z
<1>9. FlattenSeq(xy) = FlattenSeq(x) \o FlattenSeq(y)
  BY <1>5, <1>6, <1>8, FlattenConcat
<1>10. isString(encodeUtf8(a))
  <2>1. FlattenSeq(x) = Joined(x, Len(x)) /\ isString(Joined(x, Len(x)))
    <3>1. Len(x) \in 0 .. Len(x)
      BY <1>5, StringFacts
    <3> QED
      BY <1>5, <3>1, JoinedAll, JoinedString
  <2> QED
    BY <1>5, <2>1
<1> QED
  BY <1>5, <1>6, <1>7, <1>9, <1>10 DEF ab

\* The bytes of nothing.
LEMMA NoBytes == encodeUtf8(<<>>) = <<>>
<1>1. DOMAIN <<>> = {}
  OBVIOUS
<1> DEFINE f == [i \in {} |-> UnitBytes(<<>>[i])]
<1>2. f = <<>> /\ Len(<<>>) = 0
  OBVIOUS
<1>3. encodeUtf8(<<>>) = FlattenSeq(f)
  BY <1>1 DEF encodeUtf8
<1> HIDE DEF f
<1> QED
  BY <1>2, <1>3 DEF FlattenSeq

-----------------------------------------------------------------------------
(* The canonical JSON of a tree. *)

\* A tree that is written down parents first, each node in one place.
IsWritten(tree) == IsTree(tree) /\ IsWrittenInOrder(tree)

\* The JSON of the nodes under a place, and of the node at it, given the JSON of those under it.
JsonUnder(tree, json, p) ==
    [i \in DOMAIN childrenOf(tree[p]) |-> json[childrenOf(tree[p])[i]]]

NodeJson(tree, json, p) ==
    IF tree[p].type = "text"
    THEN serializeTextNode(tree[p])
    ELSE (<<"[", tree[p].id>> \o FlattenSeq(JsonUnder(tree, json, p))) \o <<"]">>

IsJson(json, tree) == json = [p \in DOMAIN tree |-> NodeJson(tree, json, p)]

\* The children of a place are later places.
LEMMA LaterChildren ==
  ASSUME NEW tree, IsWritten(tree), NEW p \in DOMAIN tree
  PROVE  /\ Len(tree) \in Nat /\ DOMAIN tree = 1 .. Len(tree)
         /\ childrenOf(tree[p]) \in Seq(p + 1 .. Len(tree))
         /\ Len(childrenOf(tree[p])) \in Nat
         /\ DOMAIN childrenOf(tree[p]) = 1 .. Len(childrenOf(tree[p]))
         /\ \A i \in DOMAIN childrenOf(tree[p]) : childrenOf(tree[p])[i] \in p + 1 .. Len(tree)
<1>1. Len(tree) \in Nat /\ DOMAIN tree = 1 .. Len(tree)
  BY LenProperties DEF IsWritten, IsTree
<1>2. childrenOf(tree[p]) \in Seq(p + 1 .. Len(tree))
  BY DEF IsWritten, IsWrittenInOrder
<1> DEFINE children == childrenOf(tree[p])
           S == p + 1 .. Len(tree)
<1>3. children \in Seq(S)
  BY <1>2
<1> HIDE DEF children, S
<1>4. /\ Len(children) \in Nat /\ DOMAIN children = 1 .. Len(children)
      /\ \A i \in DOMAIN children : children[i] \in S
  BY <1>3, LenProperties, ElementOfSeq
<1> QED
  BY <1>1, <1>2, <1>4 DEF children, S

\* There is a JSON of every place, from the last place up.
LEMMA JsonOfTree ==
  ASSUME NEW tree, IsWritten(tree)
  PROVE  \E json : /\ IsJson(json, tree)
                   /\ \A p \in DOMAIN tree : serializeNode(tree, p) = json[p]
<1> DEFINE N == Len(tree)
           Reached == {n \in 0 .. N : \E f : f = [p \in N - n + 1 .. N |-> NodeJson(tree, f, p)]}
<1>1. N \in Nat /\ DOMAIN tree = 1 .. N
  BY LenProperties DEF IsWritten, IsTree
<1>2. 0 \in Reached
  <2> DEFINE f == [p \in N - 0 + 1 .. N |-> <<>>]
  <2>1. N - 0 + 1 .. N = {}
    BY <1>1
  <2>2. f = [p \in N - 0 + 1 .. N |-> NodeJson(tree, f, p)]
    <3> HIDE DEF N
    <3> QED
      BY <2>1
  <2>3. 0 \in 0 .. N
    BY <1>1
  <2> HIDE DEF f, N
  <2> QED
    BY <2>2, <2>3
<1>3. ASSUME NEW n \in 0 .. N - 1, n \in Reached
      PROVE  n + 1 \in Reached
  <2>1. PICK f : f = [p \in N - n + 1 .. N |-> NodeJson(tree, f, p)]
    BY <1>3
  <2> DEFINE g == [p \in N - (n + 1) + 1 .. N |->
                      IF p >= N - n + 1 THEN f[p] ELSE NodeJson(tree, f, p)]
  <2>2. ASSUME NEW p \in N - (n + 1) + 1 .. N
        PROVE  g[p] = NodeJson(tree, g, p)
    <3>1. p \in DOMAIN tree /\ p + 1 \in N - n + 1 .. N + 1
      BY <1>1
    <3>2. /\ \A i \in DOMAIN childrenOf(tree[p]) : childrenOf(tree[p])[i] \in p + 1 .. N
      BY <3>1, LaterChildren
    <3>3. ASSUME NEW c \in p + 1 .. N
          PROVE  g[c] = f[c]
      <4>1. c \in N - (n + 1) + 1 .. N /\ c >= N - n + 1
        BY <1>1, <3>1
      <4> HIDE DEF N
      <4> QED
        BY <4>1
    <3> HIDE DEF g
    <3>4. JsonUnder(tree, g, p) = JsonUnder(tree, f, p)
      BY <3>2, <3>3 DEF JsonUnder
    <3>5. NodeJson(tree, g, p) = NodeJson(tree, f, p)
      BY <3>4 DEF NodeJson
    <3>6. g[p] = NodeJson(tree, f, p)
      <4>1. CASE p >= N - n + 1
        <5>1. p \in N - n + 1 .. N
          BY <1>1, <4>1
        <5>2. g[p] = f[p]
          BY <4>1 DEF g
        <5> QED
          BY <2>1, <5>1, <5>2
      <4>2. CASE ~ (p >= N - n + 1)
        BY <4>2 DEF g
      <4> QED
        BY <4>1, <4>2
    <3> QED
      BY <3>5, <3>6
  <2>3. g = [p \in N - (n + 1) + 1 .. N |-> NodeJson(tree, g, p)]
    <3> DEFINE D == N - (n + 1) + 1 .. N
    <3>1. \A p \in D : g[p] = NodeJson(tree, g, p)
      BY <2>2
    <3>2. g = [p \in D |-> g[p]]
      OBVIOUS
    <3> HIDE DEF D, g
    <3>3. g = [p \in D |-> NodeJson(tree, g, p)]
      BY <3>1, <3>2
    <3> QED
      BY <3>3 DEF D
  <2>4. n + 1 \in 0 .. N
    BY <1>1
  <2> HIDE DEF g
  <2> QED
    BY <2>3, <2>4
<1>4. N \in Reached
  <2> HIDE DEF Reached
  <2>1. \A n \in 0 .. N : n \in Reached
    BY <1>1, <1>2, <1>3, InductionUpTo
  <2> QED
    BY <1>1, <2>1
<1>5. \E f : f = [p \in DOMAIN tree |-> NodeJson(tree, f, p)]
  <2>1. N - N + 1 .. N = DOMAIN tree
    BY <1>1
  <2>2. \E f : f = [p \in N - N + 1 .. N |-> NodeJson(tree, f, p)]
    BY <1>4
  <2> HIDE DEF N
  <2> QED
    BY <2>1, <2>2
<1> DEFINE json == CHOOSE f : f = [p \in DOMAIN tree |-> NodeJson(tree, f, p)]
<1>6. json = [p \in DOMAIN tree |-> NodeJson(tree, json, p)]
  BY <1>5
<1>7. \A p \in DOMAIN tree : serializeNode(tree, p) = json[p]
  BY DEF serializeNode, NodeJson, JsonUnder
<1> HIDE DEF json
<1> QED
  BY <1>6, <1>7 DEF IsJson

\* The JSON of a text node, and of another one.
LEMMA TextNodeJson ==
  ASSUME NEW node, isString(node.value)
  PROVE  isString(serializeTextNode(node))
<1> DEFINE value == node.value
           open == <<"{", node.id>>
           close == <<"}">>
<1>1. isString(open) /\ isString(close)
  <2>1. open \in Seq({"{", node.id}) /\ close \in Seq({"}"})
    OBVIOUS
  <2> HIDE DEF open, close
  <2> QED
    BY <2>1, SequenceIsString
<1>2. isString(value)
  OBVIOUS
<1>3. serializeTextNode(node) = (open \o value) \o close
  BY DEF serializeTextNode
<1> HIDE DEF open, close, value
<1>4. isString(open \o value)
  BY <1>1, <1>2, ConcatString DEF IsConcat
<1> DEFINE fore == open \o value
<1> HIDE DEF fore
<1>5. isString(fore \o close)
  BY <1>1, <1>4, ConcatString DEF IsConcat, fore
<1> QED
  BY <1>3, <1>5 DEF fore

\* What the JSON of a place is made of.
LEMMA JsonIsString ==
  ASSUME NEW tree, IsWritten(tree), NEW json, IsJson(json, tree)
  PROVE  \A p \in DOMAIN tree :
            isString(json[p]) /\ AreStrings(JsonUnder(tree, json, p))
<1> DEFINE N == Len(tree)
           Good == {n \in 0 .. N : \A p \in N - n + 1 .. N :
                        isString(json[p]) /\ AreStrings(JsonUnder(tree, json, p))}
<1>1. N \in Nat /\ DOMAIN tree = 1 .. N
  BY LenProperties DEF IsWritten, IsTree
<1>2. 0 \in Good
  BY <1>1
<1>3. ASSUME NEW n \in 0 .. N - 1, n \in Good
      PROVE  n + 1 \in Good
  <2>1. ASSUME NEW p \in N - (n + 1) + 1 .. N
        PROVE  isString(json[p]) /\ AreStrings(JsonUnder(tree, json, p))
    <3>1. CASE p \in N - n + 1 .. N
      BY <1>3, <3>1
    <3>2. CASE p \notin N - n + 1 .. N
      <4> DEFINE children == childrenOf(tree[p])
                 under == JsonUnder(tree, json, p)
                 m == Len(children)
      <4>1. p \in DOMAIN tree /\ p + 1 \in N - n + 1 .. N + 1
        BY <1>1
      <4>2. /\ m \in Nat /\ DOMAIN children = 1 .. m
            /\ \A i \in DOMAIN children : children[i] \in p + 1 .. N
        BY <4>1, LaterChildren
      <4>3. under = [i \in 1 .. m |-> json[children[i]]]
        BY <4>2 DEF JsonUnder
      <4> HIDE DEF children, under, m
      <4>4. ASSUME NEW i \in 1 .. m
            PROVE  isString(under[i])
        <5>1. children[i] \in N - n + 1 .. N
          BY <1>1, <4>1, <4>2
        <5>2. isString(json[children[i]])
          BY <1>3, <5>1
        <5> QED
          BY <4>3, <5>2
      <4>5. under = [i \in 1 .. m |-> under[i]]
        BY <4>3
      <4>6. isString(under)
        BY <4>2, <4>5, LenOfFunction DEF isString
      <4>7. AreStrings(under)
        BY <4>3, <4>4, <4>6 DEF AreStrings
      <4>8. json[p] = NodeJson(tree, json, p)
        BY <4>1 DEF IsJson
      <4>9. CASE tree[p].type = "text"
        <5>1. isString(tree[p].value)
          BY <4>1, <4>9 DEF IsWritten, IsTree, IsNode
        <5> QED
          BY <4>7, <4>8, <4>9, <5>1, TextNodeJson DEF NodeJson, under
      <4>10. CASE tree[p].type # "text"
        <5> DEFINE open == <<"[", tree[p].id>>
                   close == <<"]">>
                   flat == FlattenSeq(under)
                   fore == open \o flat
        <5>1. isString(open) /\ isString(close)
          <6>1. open \in Seq({"[", tree[p].id}) /\ close \in Seq({"]"})
            OBVIOUS
          <6> HIDE DEF open, close
          <6> QED
            BY <6>1, SequenceIsString
        <5>2. isString(flat)
          <6>1. Len(under) \in 0 .. Len(under)
            BY <4>6, StringFacts
          <6> QED
            BY <4>7, <6>1, JoinedAll, JoinedString
        <5>3. json[p] = fore \o close
          BY <4>8, <4>10 DEF NodeJson, under
        <5> HIDE DEF open, close, flat
        <5>4. isString(fore)
          BY <5>1, <5>2, ConcatString DEF IsConcat
        <5> HIDE DEF fore
        <5>5. isString(json[p])
          BY <5>1, <5>3, <5>4, ConcatString DEF IsConcat
        <5> QED
          BY <4>7, <5>5 DEF under
      <4> QED
        BY <4>9, <4>10
    <3> QED
      BY <3>1, <3>2
  <2>2. n + 1 \in 0 .. N
    BY <1>1
  <2> QED
    BY <2>1, <2>2
<1>4. N \in Good
  <2> HIDE DEF Good
  <2>1. \A n \in 0 .. N : n \in Good
    BY <1>1, <1>2, <1>3, InductionUpTo
  <2> QED
    BY <1>1, <2>1
<1> QED
  <2>1. N - N + 1 .. N = DOMAIN tree
    BY <1>1
  <2> HIDE DEF N
  <2> QED
    BY <1>4, <2>1

\* Trees that differ in the value of one text, and in the identities of their objects.
DiffersAt(tree, next, t) ==
    /\ IsWritten(next)
    /\ DOMAIN next = DOMAIN tree
    /\ \A p \in DOMAIN tree \ {t} : Alike(next[p], tree[p])
    /\ t \in DOMAIN tree
    /\ tree[t].type = "text" /\ next[t].type = "text" /\ next[t].id = tree[t].id

\* What two nodes have in common that differ in their identities only.
LEMMA AlikeNodes ==
  ASSUME NEW node, IsNode(node), NEW other, IsNode(other), Alike(other, node)
  PROVE  /\ other.id = node.id /\ other.type = node.type
         /\ childrenOf(other) = childrenOf(node)
         /\ node.type = "text" => serializeTextNode(other) = serializeTextNode(node)
<1>1. "id" \in DOMAIN node /\ "type" \in DOMAIN node /\ DOMAIN node = DOMAIN other
  BY DEF IsNode, Alike
<1>2. other.id = node.id /\ other.type = node.type
  BY <1>1 DEF Alike
<1>3. childrenOf(other) = childrenOf(node)
  <2>1. CASE "children" \in DOMAIN node
    <3>1. other.children = node.children
      BY <1>1, <2>1 DEF Alike
    <3> QED
      BY <1>1, <3>1 DEF childrenOf, Has
  <2>2. CASE "children" \notin DOMAIN node
    BY <1>1, <2>2 DEF childrenOf, Has
  <2> QED
    BY <2>1, <2>2
<1>4. ASSUME node.type = "text"
      PROVE  serializeTextNode(other) = serializeTextNode(node)
  <2>1. "value" \in DOMAIN node
    BY <1>4 DEF IsNode
  <2>2. other.value = node.value
    BY <2>1 DEF Alike
  <2> QED
    BY <1>2, <2>2 DEF serializeTextNode
<1> QED
  BY <1>2, <1>3, <1>4

\* All of their places have the same children.
LEMMA SameChildren ==
  ASSUME NEW tree, IsWritten(tree), NEW t, NEW next, DiffersAt(tree, next, t),
         NEW p \in DOMAIN tree
  PROVE  childrenOf(next[p]) = childrenOf(tree[p])
<1>1. IsNode(tree[p]) /\ IsNode(next[p])
  BY DEF DiffersAt, IsWritten, IsTree
<1>2. CASE p = t
  BY <1>1, <1>2 DEF DiffersAt, IsNode
<1>3. CASE p # t
  BY <1>1, <1>3, AlikeNodes DEF DiffersAt
<1> QED
  BY <1>2, <1>3

\* A place and those above it: each of them has one child among them.
IsAbove(tree, A, t) ==
    /\ A \subseteq DOMAIN tree
    /\ t \in A /\ 1 \in A
    /\ \A a \in A : a <= t
    /\ \A a \in A \ {t} :
            \E k \in DOMAIN childrenOf(tree[a]) :
                /\ childrenOf(tree[a])[k] \in A
                /\ \A i \in DOMAIN childrenOf(tree[a]) : childrenOf(tree[a])[i] \in A => i = k
    /\ \A a \in A : \A p \in DOMAIN tree : \A i \in DOMAIN childrenOf(tree[p]) :
            childrenOf(tree[p])[i] = a => p \in A

\* Every place is under the root.
LEMMA PlacesAbove ==
  ASSUME NEW tree, IsWritten(tree), NEW t \in DOMAIN tree
  PROVE  \E A : IsAbove(tree, A, t)
<1> DEFINE N == Len(tree)
           Good == {n \in 0 .. N - 1 : \A c \in 1 .. n + 1 : \E A : IsAbove(tree, A, c)}
<1>1. N \in Nat /\ DOMAIN tree = 1 .. N /\ N >= 1
  <2>1. N \in Nat /\ DOMAIN tree = 1 .. N
    BY LenProperties DEF IsWritten, IsTree
  <2>2. t \in 1 .. N
    BY <2>1
  <2> QED
    BY <2>1, <2>2
<1>2. \A p \in DOMAIN tree : \A i \in DOMAIN childrenOf(tree[p]) :
        childrenOf(tree[p])[i] \in p + 1 .. N
  BY LaterChildren
<1>3. 0 \in Good
  <2> DEFINE A == {1}
  <2>1. IsAbove(tree, A, 1)
    <3>1. 1 \in DOMAIN tree
      BY <1>1
    <3>2. \A p \in DOMAIN tree : \A i \in DOMAIN childrenOf(tree[p]) : childrenOf(tree[p])[i] # 1
      <4> TAKE p \in DOMAIN tree
      <4> TAKE i \in DOMAIN childrenOf(tree[p])
      <4>1. childrenOf(tree[p])[i] \in p + 1 .. N /\ p \in 1 .. N
        BY <1>1, <1>2
      <4> HIDE DEF N
      <4> QED
        BY <4>1
    <3> QED
      BY <3>1, <3>2 DEF IsAbove
  <2>2. \A c \in 1 .. 0 + 1 : c = 1
    OBVIOUS
  <2>3. 0 \in 0 .. N - 1
    BY <1>1
  <2> HIDE DEF A, N
  <2> QED
    BY <2>1, <2>2, <2>3
<1>4. ASSUME NEW n \in 0 .. (N - 1) - 1, n \in Good
      PROVE  n + 1 \in Good
  <2> DEFINE c == n + 2
  <2>1. c \in 2 .. N /\ c \in DOMAIN tree /\ n + 1 \in 0 .. N - 1
    BY <1>1
  <2>2. PICK q \in DOMAIN tree : c \in Range(childrenOf(tree[q]))
    BY <2>1 DEF IsWritten, IsWrittenInOrder
  <2>3. PICK k \in DOMAIN childrenOf(tree[q]) : childrenOf(tree[q])[k] = c
    BY <2>2 DEF Range
  <2>4. c \in q + 1 .. N
    BY <1>2, <2>3
  <2>5. q \in 1 .. n + 1
    BY <1>1, <2>4
  <2>6. PICK B : IsAbove(tree, B, q)
    BY <1>4, <2>5
  <2>7. \A p \in DOMAIN tree : \A i \in DOMAIN childrenOf(tree[p]) :
            childrenOf(tree[p])[i] = c => p = q /\ i = k
    BY <2>3 DEF IsWritten, IsWrittenInOrder
  <2> DEFINE A == B \cup {c}
  <2>8. ASSUME NEW a \in A \ {c}
        PROVE  \E j \in DOMAIN childrenOf(tree[a]) :
                  /\ childrenOf(tree[a])[j] \in A
                  /\ \A i \in DOMAIN childrenOf(tree[a]) : childrenOf(tree[a])[i] \in A => i = j
    <3>1. CASE a = q
      <4>1. ASSUME NEW i \in DOMAIN childrenOf(tree[q]), childrenOf(tree[q])[i] \in B
            PROVE  FALSE
        <5>1. childrenOf(tree[q])[i] \in q + 1 .. N
          BY <1>2
        <5>2. childrenOf(tree[q])[i] <= q
          BY <2>6, <4>1 DEF IsAbove
        <5>3. q \in Nat
          BY <2>5
        <5> HIDE DEF N
        <5> QED
          BY <5>1, <5>2, <5>3
      <4>2. \A i \in DOMAIN childrenOf(tree[q]) : childrenOf(tree[q])[i] \in A => i = k
        BY <2>7, <4>1
      <4> QED
        BY <2>3, <3>1, <4>2
    <3>2. CASE a # q
      <4>1. a \in B \ {q} /\ a \in DOMAIN tree
        BY <2>6, <3>2 DEF IsAbove
      <4>2. PICK j \in DOMAIN childrenOf(tree[a]) :
                /\ childrenOf(tree[a])[j] \in B
                /\ \A i \in DOMAIN childrenOf(tree[a]) : childrenOf(tree[a])[i] \in B => i = j
        BY <2>6, <4>1 DEF IsAbove
      <4> HIDE DEF c
      <4> QED
        BY <2>7, <3>2, <4>1, <4>2
    <3> QED
      BY <3>1, <3>2
  <2>9. \A a \in A : a <= c
    <3>1. \A a \in B : a <= q /\ a \in 1 .. N
      BY <1>1, <2>6 DEF IsAbove
    <3>2. q <= c /\ c \in Nat /\ q \in Nat
      BY <2>1, <2>5
    <3> HIDE DEF c
    <3> QED
      BY <3>1, <3>2
  <2>10. \A a \in A : \A p \in DOMAIN tree : \A i \in DOMAIN childrenOf(tree[p]) :
            childrenOf(tree[p])[i] = a => p \in A
    <3>1. q \in B /\ 1 \in B
      BY <2>6 DEF IsAbove
    <3>2. \A a \in B : \A p \in DOMAIN tree : \A i \in DOMAIN childrenOf(tree[p]) :
            childrenOf(tree[p])[i] = a => p \in B
      BY <2>6 DEF IsAbove
    <3> HIDE DEF c
    <3> QED
      BY <2>7, <3>1, <3>2
  <2>11. A \subseteq DOMAIN tree /\ c \in A /\ 1 \in A
    BY <2>1, <2>6 DEF IsAbove
  <2> HIDE DEF A, c
  <2>12. IsAbove(tree, A, c)
    BY <2>8, <2>9, <2>10, <2>11 DEF IsAbove
  <2>13. \A d \in 1 .. (n + 1) + 1 : d \in 1 .. n + 1 \/ d = c
    BY DEF c
  <2> QED
    BY <1>4, <2>1, <2>12, <2>13
<1>5. t \in 1 .. (N - 1) + 1 /\ N - 1 \in Nat
  BY <1>1
<1>6. \A n \in 0 .. N - 1 : n \in Good
  <2> DEFINE M == N - 1
  <2>1. M \in Nat /\ 0 \in Good /\ \A n \in 0 .. M - 1 : n \in Good => n + 1 \in Good
    BY <1>3, <1>4, <1>5
  <2> HIDE DEF Good, M
  <2>2. \A n \in 0 .. M : n \in Good
    BY <2>1, InductionUpTo
  <2> QED
    BY <2>2 DEF M
<1>7. N - 1 \in Good
  <2>1. N - 1 \in 0 .. N - 1
    BY <1>5
  <2> HIDE DEF Good
  <2> QED
    BY <1>6, <2>1
<1> QED
  BY <1>5, <1>7

\* The JSON of what is not above the text stays.
LEMMA JsonOutside ==
  ASSUME NEW tree, IsWritten(tree), NEW t, NEW A, IsAbove(tree, A, t),
         NEW json, IsJson(json, tree),
         NEW next, DiffersAt(tree, next, t), NEW other, IsJson(other, next)
  PROVE  \A p \in DOMAIN tree \ A : other[p] = json[p]
<1> DEFINE N == Len(tree)
           Good == {n \in 0 .. N : \A p \in N - n + 1 .. N : p \notin A => other[p] = json[p]}
<1>1. N \in Nat /\ DOMAIN tree = 1 .. N
  BY LenProperties DEF IsWritten, IsTree
<1>2. 0 \in Good
  BY <1>1
<1>3. ASSUME NEW n \in 0 .. N - 1, n \in Good
      PROVE  n + 1 \in Good
  <2>1. ASSUME NEW p \in N - (n + 1) + 1 .. N, p \notin A
        PROVE  other[p] = json[p]
    <3>1. /\ p \in DOMAIN tree /\ p \in DOMAIN next /\ p + 1 \in N - n + 1 .. N + 1
          /\ p # t
      BY <1>1, <2>1 DEF DiffersAt, IsAbove
    <3>2. /\ childrenOf(next[p]) = childrenOf(tree[p])
          /\ \A i \in DOMAIN childrenOf(tree[p]) : childrenOf(tree[p])[i] \in p + 1 .. N
      BY <3>1, SameChildren, LaterChildren
    <3>3. ASSUME NEW i \in DOMAIN childrenOf(tree[p])
          PROVE  other[childrenOf(tree[p])[i]] = json[childrenOf(tree[p])[i]]
      <4> DEFINE c == childrenOf(tree[p])[i]
      <4>1. c \in N - n + 1 .. N
        <5>1. c \in p + 1 .. N
          BY <3>2
        <5> HIDE DEF c, N
        <5> QED
          BY <1>1, <3>1, <5>1
      <4>2. c \notin A
        BY <2>1, <3>1 DEF IsAbove
      <4> HIDE DEF c
      <4>3. other[c] = json[c]
        BY <1>3, <4>1, <4>2
      <4> QED
        BY <4>3 DEF c
    <3>4. JsonUnder(next, other, p) = JsonUnder(tree, json, p)
      BY <3>2, <3>3 DEF JsonUnder
    <3>5. IsNode(tree[p]) /\ IsNode(next[p]) /\ Alike(next[p], tree[p])
      BY <3>1 DEF DiffersAt, IsWritten, IsTree
    <3>6. NodeJson(next, other, p) = NodeJson(tree, json, p)
      BY <3>4, <3>5, AlikeNodes DEF NodeJson
    <3> QED
      BY <3>1, <3>6 DEF IsJson
  <2>2. n + 1 \in 0 .. N
    BY <1>1
  <2> QED
    BY <2>1, <2>2
<1>4. N \in Good
  <2> HIDE DEF Good
  <2>1. \A n \in 0 .. N : n \in Good
    BY <1>1, <1>2, <1>3, InductionUpTo
  <2> QED
    BY <1>1, <2>1
<1> QED
  <2>1. N - N + 1 .. N = DOMAIN tree
    BY <1>1
  <2> HIDE DEF N
  <2> QED
    BY <1>4, <2>1

\* The empty string is one.
LEMMA EmptyString == isString(<<>>)
<1>1. <<>> \in Seq({})
  OBVIOUS
<1> QED
  BY <1>1, SequenceIsString

\* Intervals of one length.
LEMMA SameBound ==
  ASSUME NEW n \in Nat, NEW m \in Nat, 1 .. n = 1 .. m
  PROVE  n = m
OBVIOUS

\* Strings around strings.
IsWrapped(a, b, pre, x, post, c, d) ==
    /\ isString(a \o (b \o pre)) /\ isString((post \o c) \o d)
    /\ (a \o (b \o ((pre \o (x \o post)) \o c))) \o d =
            (a \o (b \o pre)) \o (x \o ((post \o c) \o d))

\* Two strings make a string.
LEMMA ConcatIsString ==
  ASSUME NEW a, isString(a), NEW b, isString(b)
  PROVE  isString(a \o b)
BY ConcatString DEF IsConcat

\* A string within two others has its place, also within the next pair.
LEMMA Wrapped ==
  ASSUME NEW a, isString(a), NEW b, isString(b), NEW pre, isString(pre), NEW x, isString(x),
         NEW post, isString(post), NEW c, isString(c), NEW d, isString(d)
  PROVE  IsWrapped(a, b, pre, x, post, c, d)
<1> DEFINE xp == x \o post
           pxp == pre \o xp
           m == pxp \o c
           bm == b \o m
           cd == c \o d
           pc == post \o c
           pcd == pc \o d
           r == x \o pcd
           pr == pre \o r
           bp == b \o pre
<1>1. isString(xp) /\ isString(cd) /\ isString(pc) /\ isString(bp)
  BY ConcatIsString
<1> HIDE DEF xp, cd, pc, bp
<1>2. isString(pxp) /\ isString(pcd) /\ isString(a \o bp)
  BY <1>1, ConcatIsString
<1> HIDE DEF pxp, pcd
<1>3. isString(m) /\ isString(r)
  BY <1>2, ConcatIsString
<1> HIDE DEF m, r
<1>4. isString(bm)
  BY <1>3, ConcatIsString
<1> HIDE DEF bm
<1>5. (a \o bm) \o d = a \o (bm \o d)
  <2>1. IsAssociative(a, bm, d)
    BY <1>4, ConcatsAssociate
  <2> QED
    BY <2>1 DEF IsAssociative
<1>6. bm \o d = b \o (m \o d)
  <2>1. (b \o m) \o d = b \o (m \o d)
    <3>1. IsAssociative(b, m, d)
      BY <1>3, ConcatsAssociate
    <3> QED
      BY <3>1 DEF IsAssociative
  <2> QED
    BY <2>1 DEF bm
<1>7. m \o d = pxp \o cd
  <2>1. (pxp \o c) \o d = pxp \o (c \o d)
    <3>1. IsAssociative(pxp, c, d)
      BY <1>2, ConcatsAssociate
    <3> QED
      BY <3>1 DEF IsAssociative
  <2> QED
    BY <2>1 DEF m, cd
<1>8. pxp \o cd = pre \o (xp \o cd)
  <2>1. (pre \o xp) \o cd = pre \o (xp \o cd)
    <3>1. IsAssociative(pre, xp, cd)
      BY <1>1, ConcatsAssociate
    <3> QED
      BY <3>1 DEF IsAssociative
  <2> QED
    BY <2>1 DEF pxp
<1>9. xp \o cd = x \o (post \o cd)
  <2>1. (x \o post) \o cd = x \o (post \o cd)
    <3>1. IsAssociative(x, post, cd)
      BY <1>1, ConcatsAssociate
    <3> QED
      BY <3>1 DEF IsAssociative
  <2> QED
    BY <2>1 DEF xp
<1>10. post \o cd = pcd
  <2>1. (post \o c) \o d = post \o (c \o d)
    <3>1. IsAssociative(post, c, d)
      BY ConcatsAssociate
    <3> QED
      BY <3>1 DEF IsAssociative
  <2> QED
    BY <2>1 DEF pcd, pc, cd
<1>11. (a \o bm) \o d = a \o (b \o (pre \o r))
  BY <1>5, <1>6, <1>7, <1>8, <1>9, <1>10 DEF r
<1>12. (a \o bp) \o r = a \o (bp \o r)
  <2>1. IsAssociative(a, bp, r)
    BY <1>1, <1>3, ConcatsAssociate
  <2> QED
    BY <2>1 DEF IsAssociative
<1>13. bp \o r = b \o (pre \o r)
  <2>1. (b \o pre) \o r = b \o (pre \o r)
    <3>1. IsAssociative(b, pre, r)
      BY <1>3, ConcatsAssociate
    <3> QED
      BY <3>1 DEF IsAssociative
  <2> QED
    BY <2>1 DEF bp
<1>14. (a \o bm) \o d = (a \o bp) \o r
  BY <1>11, <1>12, <1>13
<1> QED
  BY <1>2, <1>14 DEF IsWrapped, bm, m, pxp, xp, bp, r, pcd, pc

\* What follows the k-th of the first n strings, whatever the k-th is.
IsAround(seqs, k, n, rest) ==
    /\ isString(rest)
    /\ \A others :
          /\ AreStrings(others) /\ Len(others) = Len(seqs)
          /\ \A i \in 1 .. Len(seqs) : i # k => others[i] = seqs[i]
          => Joined(others, n) = Joined(seqs, k - 1) \o (others[k] \o rest)

\* Strings put together around one of them.
LEMMA JoinedAround ==
  ASSUME NEW seqs, AreStrings(seqs), NEW k \in 1 .. Len(seqs)
  PROVE  \E rest : IsAround(seqs, k, Len(seqs), rest)
<1> DEFINE N == Len(seqs)
           Good == {m \in 0 .. N - k : \E rest : IsAround(seqs, k, k + m, rest)}
<1>1. N \in Nat /\ k \in Nat /\ k >= 1 /\ k <= N /\ N - k \in Nat
  <2>1. N \in Nat
    BY StringFacts DEF AreStrings
  <2> QED
    BY <2>1
<1>2. 0 \in Good
  <2> DEFINE rest == <<>>
  <2>1. isString(rest)
    BY EmptyString
  <2> HIDE DEF rest
  <2>2. ASSUME NEW others, AreStrings(others), Len(others) = Len(seqs),
               \A i \in 1 .. Len(seqs) : i # k => others[i] = seqs[i]
        PROVE  Joined(others, k + 0) = Joined(seqs, k - 1) \o (others[k] \o rest)
    <3>1. k \in 1 .. Len(others) /\ k + 0 = k
      BY <1>1, <2>2
    <3>2. Joined(others, k) = Joined(others, k - 1) \o others[k]
      BY <2>2, <3>1, JoinedNext
    <3>3. Joined(others, k - 1) = Joined(seqs, k - 1)
      <4>1. /\ k - 1 \in 0 .. Len(others) /\ k - 1 <= Len(seqs)
            /\ \A i \in 1 .. k - 1 : others[i] = seqs[i]
        BY <1>1, <2>2
      <4> DEFINE j == k - 1
      <4> HIDE DEF j
      <4>2. /\ j \in 0 .. Len(others) /\ j <= Len(seqs)
            /\ \A i \in 1 .. j : others[i] = seqs[i]
        BY <4>1 DEF j
      <4>3. Joined(others, j) = Joined(seqs, j)
        BY <2>2, <4>2, JoinedAlike
      <4> QED
        BY <4>3 DEF j
    <3>4. isString(others[k])
      <4>1. DOMAIN others = 1 .. Len(others)
        BY <2>2, StringFacts DEF AreStrings
      <4> QED
        BY <2>2, <3>1, <4>1 DEF AreStrings
    <3>5. others[k] \o rest = others[k]
      BY <3>4, ConcatEmpty DEF rest
    <3> QED
      BY <3>1, <3>2, <3>3, <3>5
  <2>3. IsAround(seqs, k, k + 0, rest)
    BY <2>1, <2>2 DEF IsAround
  <2>4. 0 \in 0 .. N - k
    BY <1>1
  <2> QED
    BY <2>3, <2>4
<1>3. ASSUME NEW m \in 0 .. (N - k) - 1, m \in Good
      PROVE  m + 1 \in Good
  <2>1. PICK rest : IsAround(seqs, k, k + m, rest)
    BY <1>3
  <2> DEFINE n == k + (m + 1)
             last == seqs[n]
             longer == rest \o last
  <2>2. n \in 1 .. N /\ n # k /\ n - 1 = k + m /\ k - 1 \in 0 .. N
    BY <1>1
  <2>3. isString(last)
    <3>1. DOMAIN seqs = 1 .. N
      BY StringFacts DEF AreStrings
    <3> QED
      BY <2>2, <3>1 DEF AreStrings
  <2>4. isString(rest)
    BY <2>1 DEF IsAround
  <2>5. isString(longer)
    BY <2>3, <2>4, ConcatString DEF IsConcat
  <2>6. isString(Joined(seqs, k - 1))
    BY <2>2, JoinedString
  <2>7. ASSUME NEW others, AreStrings(others), Len(others) = Len(seqs),
               \A i \in 1 .. Len(seqs) : i # k => others[i] = seqs[i]
        PROVE  Joined(others, n) = Joined(seqs, k - 1) \o (others[k] \o longer)
    <3>1. n \in 1 .. Len(others)
      BY <2>2, <2>7
    <3> HIDE DEF n
    <3>2. Joined(others, n) = Joined(others, n - 1) \o others[n]
      BY <2>7, <3>1, JoinedNext
    <3>3. Joined(others, n - 1) = Joined(seqs, k - 1) \o (others[k] \o rest)
      BY <2>1, <2>2, <2>7 DEF IsAround
    <3>4. others[n] = last
      BY <2>2, <2>7
    <3>5. isString(others[k])
      <4>1. DOMAIN others = 1 .. Len(others)
        BY <2>7, StringFacts DEF AreStrings
      <4> QED
        BY <2>7, <4>1 DEF AreStrings
    <3> DEFINE fore == Joined(seqs, k - 1)
               x == others[k]
    <3> HIDE DEF fore, x, last, longer
    <3>6. isString(fore) /\ isString(x) /\ isString(rest) /\ isString(last)
      BY <2>3, <2>4, <2>6, <3>5 DEF fore, x
    <3>7. isString(x \o rest)
      BY <3>6, ConcatString DEF IsConcat
    <3> DEFINE xr == x \o rest
    <3>8. xr \o last = x \o (rest \o last)
      <4>1. IsAssociative(x, rest, last)
        BY <3>6, ConcatsAssociate
      <4> QED
        BY <4>1 DEF IsAssociative
    <3>9. isString(xr)
      BY <3>7
    <3> HIDE DEF xr
    <3>10. (fore \o xr) \o last = fore \o (xr \o last)
      <4>1. IsAssociative(fore, xr, last)
        BY <3>6, <3>9, ConcatsAssociate
      <4> QED
        BY <4>1 DEF IsAssociative
    <3> QED
      BY <3>2, <3>3, <3>4, <3>8, <3>10 DEF fore, x, xr, longer
  <2>8. m + 1 \in 0 .. N - k
    BY <1>1
  <2>9. IsAround(seqs, k, k + (m + 1), longer)
    <3> HIDE DEF longer
    <3> QED
      BY <2>5, <2>7 DEF IsAround
  <2> HIDE DEF longer, n
  <2> QED
    BY <2>8, <2>9
<1>4. \A m \in 0 .. N - k : m \in Good
  <2> DEFINE M == N - k
  <2>1. M \in Nat /\ 0 \in Good /\ \A m \in 0 .. M - 1 : m \in Good => m + 1 \in Good
    BY <1>1, <1>2, <1>3
  <2> HIDE DEF Good, M
  <2>2. \A m \in 0 .. M : m \in Good
    BY <2>1, InductionUpTo
  <2> QED
    BY <2>2 DEF M
<1>5. N - k \in Good
  <2>1. N - k \in 0 .. N - k
    BY <1>1
  <2> HIDE DEF Good
  <2> QED
    BY <1>4, <2>1
<1>6. k + (N - k) = N
  BY <1>1
<1>7. \E rest : IsAround(seqs, k, k + (N - k), rest)
  BY <1>5
<1> HIDE DEF Good
<1> QED
  BY <1>6, <1>7

\* What stands before and behind the JSON of the text in the JSON of a place above it.
IsContextAt(tree, t, p, pre, post) ==
    /\ isString(pre) /\ isString(post)
    /\ \A next, json :
          DiffersAt(tree, next, t) /\ IsJson(json, next)
          => json[p] = pre \o (serializeTextNode(next[t]) \o post)

\* There is a context at every place above the text, from the text up.
LEMMA ContextAbove ==
  ASSUME NEW tree, IsWritten(tree), NEW t \in DOMAIN tree, tree[t].type = "text",
         NEW A, IsAbove(tree, A, t)
  PROVE  \A p \in A : \E pre, post : IsContextAt(tree, t, p, pre, post)
<1> DEFINE N == Len(tree)
           Good == {n \in 0 .. N : \A p \in N - n + 1 .. N :
                        p \in A => \E pre, post : IsContextAt(tree, t, p, pre, post)}
<1>1. N \in Nat /\ DOMAIN tree = 1 .. N
  BY LenProperties DEF IsWritten, IsTree
<1>2. 0 \in Good
  BY <1>1
<1>3. PICK json : IsJson(json, tree)
  BY JsonOfTree
<1>4. DiffersAt(tree, tree, t)
  BY DEF DiffersAt, Alike
<1>5. ASSUME NEW n \in 0 .. N - 1, n \in Good, NEW p \in N - (n + 1) + 1 .. N, p \in A
      PROVE  \E pre, post : IsContextAt(tree, t, p, pre, post)
  <2>1. p \in DOMAIN tree /\ p + 1 \in N - n + 1 .. N + 1
    BY <1>1
  <2>2. CASE p = t
    <3> DEFINE none == <<>>
    <3>1. isString(none)
      BY EmptyString
    <3>2. ASSUME NEW next, NEW other, DiffersAt(tree, next, t), IsJson(other, next)
          PROVE  other[p] = none \o (serializeTextNode(next[t]) \o none)
      <4>1. other[p] = serializeTextNode(next[t])
        BY <2>1, <2>2, <3>2 DEF IsJson, NodeJson, DiffersAt
      <4>2. isString(next[t].value)
        BY <3>2 DEF DiffersAt, IsWritten, IsTree, IsNode
      <4>3. isString(serializeTextNode(next[t]))
        BY <4>2, TextNodeJson
      <4> QED
        BY <4>1, <4>3, ConcatEmpty
    <3> HIDE DEF none
    <3>3. IsContextAt(tree, t, p, none, none)
      BY <3>1, <3>2 DEF IsContextAt
    <3> QED
      BY <3>3
  <2>3. CASE p # t
    <3> DEFINE children == childrenOf(tree[p])
               m == Len(children)
               seqs == JsonUnder(tree, json, p)
    <3>1. PICK k \in DOMAIN children :
            /\ children[k] \in A
            /\ \A i \in DOMAIN children : children[i] \in A => i = k
      BY <1>5, <2>3 DEF IsAbove
    <3>2. /\ m \in Nat /\ DOMAIN children = 1 .. m
          /\ \A i \in DOMAIN children : children[i] \in p + 1 .. N
      BY <2>1, LaterChildren
    <3>3. PICK pre, post : IsContextAt(tree, t, children[k], pre, post)
      <4> DEFINE c == children[k]
      <4>1. c \in N - n + 1 .. N
        <5>1. c \in p + 1 .. N
          BY <3>2
        <5> HIDE DEF c, N
        <5> QED
          BY <1>1, <2>1, <5>1
      <4>2. c \in A
        BY <3>1
      <4> HIDE DEF c
      <4>3. \E pre, post : IsContextAt(tree, t, c, pre, post)
        BY <1>5, <4>1, <4>2
      <4> QED
        BY <4>3 DEF c
    <3>4. AreStrings(seqs) /\ Len(seqs) = m
      <4>1. AreStrings(seqs)
        BY <1>3, <2>1, JsonIsString
      <4>2. DOMAIN seqs = 1 .. m
        BY <3>2 DEF JsonUnder
      <4>3. Len(seqs) = m
        <5> HIDE DEF seqs
        <5>1. Len(seqs) \in Nat /\ DOMAIN seqs = 1 .. Len(seqs)
          BY <4>1, StringFacts DEF AreStrings
        <5>2. 1 .. Len(seqs) = 1 .. m
          BY <4>2, <5>1
        <5> HIDE DEF m
        <5>3. Len(seqs) = m
          BY <3>2, <5>1, <5>2, SameBound
        <5> QED
          BY <5>3
      <4> QED
        BY <4>1, <4>3
    <3>5. k \in 1 .. Len(seqs)
      BY <3>2, <3>4
    <3> HIDE DEF seqs
    <3>6. PICK rest : IsAround(seqs, k, Len(seqs), rest)
      BY <3>4, <3>5, JoinedAround
    <3> DEFINE open == <<"[", tree[p].id>>
               close == <<"]">>
               fore == Joined(seqs, k - 1)
               before == open \o (fore \o pre)
               behind == (post \o rest) \o close
    <3>7. isString(open) /\ isString(close)
      <4>1. open \in Seq({"[", tree[p].id}) /\ close \in Seq({"]"})
        OBVIOUS
      <4> HIDE DEF open, close
      <4> QED
        BY <4>1, SequenceIsString
    <3>8. isString(fore)
      <4>1. k - 1 \in 0 .. Len(seqs)
        BY <3>2, <3>4
      <4> QED
        BY <3>4, <4>1, JoinedString
    <3>9. isString(pre) /\ isString(post) /\ isString(rest)
      BY <3>3, <3>6 DEF IsContextAt, IsAround
    <3> HIDE DEF open, close, fore
    <3>10. ASSUME NEW next, NEW other, DiffersAt(tree, next, t), IsJson(other, next)
           PROVE  other[p] = before \o (serializeTextNode(next[t]) \o behind)
      <4> DEFINE others == JsonUnder(next, other, p)
                 x == serializeTextNode(next[t])
      <4>1. IsWritten(next) /\ p \in DOMAIN next
        BY <2>1, <3>10 DEF DiffersAt
      <4>2. childrenOf(next[p]) = children
        BY <2>1, <3>10, SameChildren
      <4>3. /\ AreStrings(others) /\ DOMAIN others = 1 .. m
            /\ \A i \in 1 .. m : others[i] = other[children[i]]
        <5>1. AreStrings(others)
          BY <3>10, <4>1, JsonIsString
        <5>2. others = [i \in 1 .. m |-> other[children[i]]]
          BY <3>2, <4>2 DEF JsonUnder
        <5> HIDE DEF others
        <5> QED
          BY <5>1, <5>2
      <4>4. \A i \in 1 .. m : seqs[i] = json[children[i]]
        BY <3>2 DEF JsonUnder, seqs
      <4> HIDE DEF others
      <4>5. Len(others) = Len(seqs)
        <5>1. Len(others) \in Nat /\ DOMAIN others = 1 .. Len(others)
          BY <4>3, StringFacts DEF AreStrings
        <5>2. 1 .. Len(others) = 1 .. m
          BY <4>3, <5>1
        <5> HIDE DEF m
        <5>3. Len(others) = m
          BY <3>2, <5>1, <5>2, SameBound
        <5> QED
          BY <3>4, <5>3
      <4>6. ASSUME NEW i \in 1 .. Len(seqs), i # k
            PROVE  others[i] = seqs[i]
        <5> DEFINE c == children[i]
        <5>1. i \in DOMAIN children /\ i \in 1 .. m
          BY <3>2, <3>4
        <5>2. c \notin A
          BY <3>1, <4>6, <5>1
        <5>3. c \in DOMAIN tree
          <6>1. c \in p + 1 .. N
            BY <3>2, <5>1
          <6> HIDE DEF c, N
          <6> QED
            BY <1>1, <2>1, <6>1
        <5> HIDE DEF c
        <5>4. other[c] = json[c]
          BY <1>3, <3>10, <5>2, <5>3, JsonOutside
        <5> QED
          BY <4>3, <4>4, <5>1, <5>4 DEF c
      <4>7. Joined(others, Len(seqs)) = fore \o (others[k] \o rest)
        BY <3>6, <4>3, <4>5, <4>6 DEF IsAround, fore
      <4>8. others[k] = pre \o (x \o post)
        BY <3>2, <3>3, <3>10, <4>3 DEF IsContextAt
      <4>9. FlattenSeq(others) = fore \o ((pre \o (x \o post)) \o rest)
        BY <4>3, <4>5, <4>7, <4>8, JoinedAll
      <4>10. /\ tree[p].type # "text" /\ next[p].type = tree[p].type /\ next[p].id = tree[p].id
        <5>1. IsNode(tree[p]) /\ IsNode(next[p]) /\ Alike(next[p], tree[p])
          BY <2>1, <2>3, <3>10 DEF DiffersAt, IsWritten, IsTree
        <5>2. next[p].type = tree[p].type /\ next[p].id = tree[p].id
          BY <5>1, AlikeNodes
        <5>3. tree[p].type # "text"
          <6>1. children # <<>>
            BY <3>1
          <6> QED
            BY <5>1, <6>1 DEF IsNode
        <5> QED
          BY <5>2, <5>3
      <4>11. other[p] = (open \o FlattenSeq(others)) \o close
        BY <2>1, <3>10, <4>1, <4>10 DEF IsJson, NodeJson, others, open, close
      <4>12. isString(x)
        <5>1. isString(next[t].value)
          BY <3>10 DEF DiffersAt, IsWritten, IsTree, IsNode
        <5> QED
          BY <5>1, TextNodeJson
      <4> HIDE DEF x
      <4>13. (open \o (fore \o ((pre \o (x \o post)) \o rest))) \o close =
                (open \o (fore \o pre)) \o (x \o ((post \o rest) \o close))
        <5>1. IsWrapped(open, fore, pre, x, post, rest, close)
          BY <3>7, <3>8, <3>9, <4>12, Wrapped
        <5> QED
          BY <5>1 DEF IsWrapped
      <4> QED
        BY <4>9, <4>11, <4>13 DEF x
    <3>11. isString(before) /\ isString(behind)
      <4>1. isString(open) /\ isString(<<>>)
        BY <3>7, EmptyString
      <4>2. IsWrapped(open, fore, pre, <<>>, post, rest, close)
        BY <3>7, <3>8, <3>9, <4>1, Wrapped
      <4> QED
        BY <4>2 DEF IsWrapped
    <3> HIDE DEF before, behind
    <3>12. IsContextAt(tree, t, p, before, behind)
      BY <3>10, <3>11 DEF IsContextAt
    <3> QED
      BY <3>12
  <2> QED
    BY <2>2, <2>3
<1>6. ASSUME NEW n \in 0 .. N - 1, n \in Good
      PROVE  n + 1 \in Good
  <2>1. n + 1 \in 0 .. N
    BY <1>1
  <2>2. \A p \in N - (n + 1) + 1 .. N :
            p \in A => \E pre, post : IsContextAt(tree, t, p, pre, post)
    BY <1>5, <1>6
  <2> QED
    BY <2>1, <2>2
<1>7. N \in Good
  <2> HIDE DEF Good
  <2>1. \A n \in 0 .. N : n \in Good
    BY <1>1, <1>2, <1>6, InductionUpTo
  <2> QED
    BY <1>1, <2>1
<1> QED
  <2>1. N - N + 1 .. N = DOMAIN tree
    BY <1>1
  <2>2. A \subseteq DOMAIN tree
    BY DEF IsAbove
  <2> HIDE DEF N
  <2> QED
    BY <1>7, <2>1, <2>2

\* What stands before and behind the JSON of the text in that of the whole tree.
IsContext(tree, t, pre, post) ==
    /\ isString(pre) /\ isString(post)
    /\ \A next : DiffersAt(tree, next, t)
            => serializeNode(next, 1) = pre \o (serializeTextNode(next[t]) \o post)

\* Every text has a context.
LEMMA TextHasContext ==
  ASSUME NEW tree, IsWritten(tree), NEW t \in DOMAIN tree, tree[t].type = "text"
  PROVE  \E pre, post : IsContext(tree, t, pre, post)
<1>1. PICK A : IsAbove(tree, A, t)
  BY PlacesAbove
<1>2. 1 \in A /\ 1 \in DOMAIN tree
  BY <1>1 DEF IsAbove
<1>3. PICK pre, post : IsContextAt(tree, t, 1, pre, post)
  BY <1>1, <1>2, ContextAbove
<1>4. ASSUME NEW next, DiffersAt(tree, next, t)
      PROVE  serializeNode(next, 1) = pre \o (serializeTextNode(next[t]) \o post)
  <2>1. PICK json : /\ IsJson(json, next)
                    /\ \A p \in DOMAIN next : serializeNode(next, p) = json[p]
    BY <1>4, JsonOfTree DEF DiffersAt
  <2>2. 1 \in DOMAIN next
    BY <1>2, <1>4 DEF DiffersAt
  <2> QED
    BY <1>3, <1>4, <2>1, <2>2 DEF IsContextAt
<1>5. IsContext(tree, t, pre, post)
  BY <1>3, <1>4 DEF IsContextAt, IsContext
<1> QED
  BY <1>5

-----------------------------------------------------------------------------
(* The canonical JSON of a document. *)

\* A string begins with its first unit.
LEMMA HeadOfString ==
  ASSUME NEW a, isString(a), Len(a) # 0
  PROVE  Head(a) = a[1]
<1>1. a \in Seq(Range(a))
  BY DEF isString
<1> DEFINE S == Range(a)
<1> HIDE DEF S
<1>2. a \in Seq(S) /\ a # <<>>
  BY <1>1 DEF S
<1> QED
  BY <1>2

\* Three strings make one.
IsTriple(abc, a, b, c) ==
    /\ isString(abc)
    /\ Len(abc) = Len(a) + Len(b) + Len(c)
    /\ \A i \in 1 .. Len(a) : abc[i] = a[i]

\* Three strings in a row and where each begins.
LEMMA ThreeStrings ==
  ASSUME NEW a, isString(a), NEW b, isString(b), NEW c, isString(c)
  PROVE  IsTriple((a \o b) \o c, a, b, c)
<1> DEFINE ab == a \o b
           abc == ab \o c
<1>1. IsConcat(ab, a, b)
  BY ConcatString
<1>2. isString(ab)
  BY <1>1 DEF IsConcat
<1> HIDE DEF ab
<1>3. IsConcat(abc, ab, c)
  BY <1>2, ConcatString
<1> HIDE DEF abc
<1>4. Len(a) \in Nat /\ Len(b) \in Nat /\ Len(c) \in Nat
  BY StringFacts
<1>5. isString(abc) /\ Len(abc) = Len(a) + Len(b) + Len(c)
  BY <1>1, <1>3, <1>4 DEF IsConcat
<1>6. ASSUME NEW i \in 1 .. Len(a)
      PROVE  abc[i] = a[i]
  <2>1. i \in 1 .. Len(ab)
    BY <1>1, <1>4 DEF IsConcat
  <2> QED
    BY <1>1, <1>3, <2>1 DEF IsConcat
<1>7. IsTriple(abc, a, b, c)
  BY <1>5, <1>6 DEF IsTriple
<1> QED
  BY <1>7 DEF abc, ab

\* One, two or three units.
LEMMA ShortStrings ==
  \A x, y, z : /\ isString(<<x>>) /\ Len(<<x>>) = 1 /\ <<x>>[1] = x
               /\ isString(<<x, y>>) /\ Len(<<x, y>>) = 2 /\ <<x, y>>[1] = x
               /\ isString(<<x, y, z>>) /\ Len(<<x, y, z>>) = 3 /\ <<x, y, z>>[1] = x
<1> TAKE x, y, z
<1> DEFINE a == <<x>>
           b == <<x, y>>
           c == <<x, y, z>>
<1>1. /\ a \in Seq({x}) /\ Len(a) = 1 /\ a[1] = x
      /\ b \in Seq({x, y}) /\ Len(b) = 2 /\ b[1] = x
      /\ c \in Seq({x, y, z}) /\ Len(c) = 3 /\ c[1] = x
  OBVIOUS
<1> HIDE DEF a, b, c
<1>2. isString(a) /\ isString(b) /\ isString(c)
  BY <1>1, SequenceIsString
<1> QED
  BY <1>1, <1>2 DEF a, b, c

\* A number is written with its digits.
LEMMA DigitsString == \A number : isString(Digits(number))
<1> TAKE number
<1>1. CASE number < FirstTwoDigitNumber
  BY <1>1, ShortStrings DEF Digits
<1>2. CASE ~ (number < FirstTwoDigitNumber)
  BY <1>2, ShortStrings DEF Digits
<1> QED
  BY <1>1, <1>2

\* The JSON of a claim tells that it is one.
LEMMA ClaimJson ==
  ASSUME NEW claim
  PROVE  /\ isString(serializeClaim(claim))
         /\ Len(serializeClaim(claim)) \in Nat \ {0}
         /\ Head(serializeClaim(claim)) = "<"
<1> DEFINE position == claim.anchor.primary
           at == IF position.kind = "text" THEN Digits(position.offset) ELSE Digits(position.child)
           first == IF position.kind = "text" THEN <<position.node>> ELSE <<position.parent>>
           last == <<position.affinity>>
           open == <<"<", claim.id, claim.anchor.document.revisionId>>
           close == <<">">>
           middle == serializePosition(position)
           json == (open \o middle) \o close
<1>1. isString(at) /\ isString(first) /\ isString(last) /\ isString(close)
  BY DigitsString, ShortStrings
<1>2. middle = (first \o at) \o last
  BY DEF serializePosition
<1>3. isString(open) /\ Len(open) = 3 /\ open[1] = "<" /\ Len(close) = 1
  BY ShortStrings
<1>4. serializeClaim(claim) = json
  BY DEF serializeClaim
<1> HIDE DEF at, first, last, open, close, middle
<1>5. isString(middle)
  <2>1. IsTriple((first \o at) \o last, first, at, last)
    BY <1>1, ThreeStrings
  <2> QED
    BY <1>2, <2>1 DEF IsTriple
<1>6. IsTriple(json, open, middle, close)
  BY <1>1, <1>3, <1>5, ThreeStrings
<1> HIDE DEF json
<1>7. Len(middle) \in Nat /\ 1 \in 1 .. Len(open)
  BY <1>3, <1>5, StringFacts
<1>8. isString(json) /\ Len(json) \in Nat \ {0} /\ json[1] = "<"
  BY <1>3, <1>6, <1>7 DEF IsTriple
<1>9. Head(json) = json[1]
  <2>1. isString(json) /\ Len(json) # 0
    BY <1>8
  <2> QED
    BY <2>1, HeadOfString
<1> QED
  BY <1>4, <1>8, <1>9

\* The JSON of a text node tells that it is one.
LEMMA TextJson ==
  ASSUME NEW node, isString(node.value)
  PROVE  /\ isString(serializeTextNode(node))
         /\ Len(serializeTextNode(node)) \in Nat \ {0}
         /\ Head(serializeTextNode(node)) = "{"
<1> DEFINE units == node.value
           open == <<"{", node.id>>
           close == <<"}">>
           json == (open \o units) \o close
<1>1. isString(open) /\ Len(open) = 2 /\ open[1] = "{" /\ isString(close) /\ Len(close) = 1
  BY ShortStrings
<1>6. 1 \in 1 .. Len(open)
  OBVIOUS
<1>2. serializeTextNode(node) = json
  BY DEF serializeTextNode
<1>3. isString(units)
  OBVIOUS
<1> HIDE DEF open, close, units
<1>4. IsTriple(json, open, units, close)
  BY <1>1, <1>3, ThreeStrings
<1> HIDE DEF json
<1>5. Len(units) \in Nat
  BY <1>3, StringFacts
<1>7. isString(json) /\ Len(json) \in Nat \ {0} /\ json[1] = "{"
  <2>1. /\ isString(json)
        /\ Len(json) = Len(open) + Len(units) + Len(close)
        /\ \A i \in 1 .. Len(open) : json[i] = open[i]
    BY <1>4 DEF IsTriple
  <2>2. json[1] = open[1]
    BY <1>6, <2>1
  <2>3. Len(open) = 2 /\ Len(close) = 1 /\ open[1] = "{"
    BY <1>1
  <2>4. Len(json) \in Nat \ {0}
    <3>1. Len(json) = 2 + Len(units) + 1
      BY <2>1, <2>3
    <3> HIDE DEF json
    <3> QED
      BY <1>5, <3>1
  <2> QED
    BY <2>1, <2>2, <2>3, <2>4
<1>8. Head(json) = json[1]
  <2>1. isString(json) /\ Len(json) # 0
    BY <1>7
  <2> QED
    BY <2>1, HeadOfString
<1> QED
  BY <1>2, <1>7, <1>8

\* The JSON of the claims, and of the references.
ClaimsJson(claims) == [i \in DOMAIN claims |-> serializeClaim(claims[i])]
ReferencesJson(graph) ==
    [i \in DOMAIN graph.referenceSnapshots |-> graph.referenceSnapshots[i].cslJson]

\* A document that can be written as JSON.
HasJson(document) ==
    /\ IsWritten(document.root) /\ 1 \in DOMAIN document.root
    /\ isString(document.academicGraph.claims)
    /\ isString(document.academicGraph.referenceSnapshots)
    /\ \A i \in DOMAIN document.academicGraph.referenceSnapshots :
            isString(document.academicGraph.referenceSnapshots[i].cslJson)

\* The values of a string, one by one.
LEMMA MappedStrings ==
  ASSUME NEW things, isString(things), NEW seqs, DOMAIN seqs = DOMAIN things,
         seqs = [i \in DOMAIN things |-> seqs[i]], \A i \in DOMAIN things : isString(seqs[i])
  PROVE  AreStrings(seqs) /\ Len(seqs) = Len(things)
<1>1. Len(things) \in Nat /\ DOMAIN things = 1 .. Len(things)
  BY StringFacts
<1>2. seqs = [i \in 1 .. Len(things) |-> seqs[i]]
  BY <1>1
<1>3. isString(seqs) /\ Len(seqs) = Len(things)
  BY <1>1, <1>2, LenOfFunction DEF isString
<1> QED
  BY <1>3 DEF AreStrings

\* One text for each claim.
LEMMA ClaimsAreStrings ==
  ASSUME NEW claims, isString(claims)
  PROVE  /\ AreStrings(ClaimsJson(claims)) /\ Len(ClaimsJson(claims)) = Len(claims)
         /\ \A i \in DOMAIN claims : ClaimsJson(claims)[i] = serializeClaim(claims[i])
<1> DEFINE seqs == ClaimsJson(claims)
<1>1. /\ DOMAIN seqs = DOMAIN claims /\ seqs = [i \in DOMAIN claims |-> seqs[i]]
      /\ \A i \in DOMAIN claims : seqs[i] = serializeClaim(claims[i])
  BY DEF ClaimsJson
<1> HIDE DEF seqs
<1>2. \A i \in DOMAIN claims : isString(seqs[i])
  BY <1>1, ClaimJson
<1>3. AreStrings(seqs) /\ Len(seqs) = Len(claims)
  BY <1>1, <1>2, MappedStrings
<1> QED
  BY <1>1, <1>3 DEF seqs

\* The JSON of the parts of a document.
Claims(document) == FlattenSeq(ClaimsJson(document.academicGraph.claims))
References(document) == FlattenSeq(ReferencesJson(document.academicGraph))

\* The payload is the claims, the references and the tree, in this order.
LEMMA PayloadOfParts ==
  ASSUME NEW document, HasJson(document)
  PROVE  /\ isString(Claims(document)) /\ isString(References(document))
         /\ isString(serializeNode(document.root, 1))
         /\ createDocumentHashPayload(document) =
                Claims(document) \o (References(document) \o serializeNode(document.root, 1))
         /\ isString(createDocumentHashPayload(document))
<1> DEFINE claims == document.academicGraph.claims
           references == document.academicGraph.referenceSnapshots
           c == Claims(document)
           r == References(document)
           n == serializeNode(document.root, 1)
           seqs == ReferencesJson(document.academicGraph)
<1>1. isString(c)
  <2>1. AreStrings(ClaimsJson(claims))
    BY ClaimsAreStrings DEF HasJson
  <2> DEFINE all == ClaimsJson(claims)
  <2> HIDE DEF all
  <2>2. Len(all) \in 0 .. Len(all)
    BY <2>1, StringFacts DEF AreStrings, all
  <2>3. isString(FlattenSeq(all))
    BY <2>1, <2>2, JoinedAll, JoinedString DEF all
  <2> QED
    BY <2>3 DEF Claims, all
<1>2. isString(r)
  <2>1. /\ DOMAIN seqs = DOMAIN references /\ seqs = [i \in DOMAIN references |-> seqs[i]]
        /\ \A i \in DOMAIN references : seqs[i] = references[i].cslJson
    BY DEF ReferencesJson
  <2> HIDE DEF seqs
  <2>2. isString(references) /\ \A i \in DOMAIN references : isString(seqs[i])
    BY <2>1 DEF HasJson
  <2> HIDE DEF references
  <2>3. AreStrings(seqs)
    BY <2>1, <2>2, MappedStrings
  <2>4. Len(seqs) \in 0 .. Len(seqs)
    BY <2>3, StringFacts DEF AreStrings
  <2>5. isString(FlattenSeq(seqs))
    BY <2>3, <2>4, JoinedAll, JoinedString
  <2> QED
    BY <2>5 DEF References, seqs
<1>3. isString(n)
  <2> DEFINE tree == document.root
  <2>1. IsWritten(tree) /\ 1 \in DOMAIN tree
    BY DEF HasJson
  <2> HIDE DEF tree
  <2>2. PICK json : /\ IsJson(json, tree)
                    /\ \A p \in DOMAIN tree : serializeNode(tree, p) = json[p]
    BY <2>1, JsonOfTree
  <2>3. isString(json[1])
    BY <2>1, <2>2, JsonIsString
  <2> QED
    BY <2>1, <2>2, <2>3 DEF tree
<1>4. createDocumentHashPayload(document) = (c \o r) \o n
  BY DEF createDocumentHashPayload, Claims, References, ClaimsJson, ReferencesJson
<1> HIDE DEF c, r, n
<1>5. (c \o r) \o n = c \o (r \o n)
  <2>1. IsAssociative(c, r, n)
    BY <1>1, <1>2, <1>3, ConcatsAssociate
  <2> QED
    BY <2>1 DEF IsAssociative
<1>6. isString((c \o r) \o n)
  <2>1. IsTriple((c \o r) \o n, c, r, n)
    BY <1>1, <1>2, <1>3, ThreeStrings
  <2> QED
    BY <2>1 DEF IsTriple
<1> QED
  BY <1>1, <1>2, <1>3, <1>4, <1>5, <1>6 DEF c, r, n

-----------------------------------------------------------------------------
(* A text as pieces that may be replaced and the gaps before them. *)

AreLayout(gaps, olds) ==
    /\ AreStrings(gaps) /\ AreStrings(olds)
    /\ Len(gaps) = Len(olds)

Pieces(gaps, olds) == [i \in DOMAIN olds |-> gaps[i] \o olds[i]]

\* What stands before the i-th piece, and before what follows the first i.
Before(gaps, olds, i) == Joined(Pieces(gaps, olds), i - 1) \o gaps[i]
UpTo(gaps, olds, i) == Joined(Pieces(gaps, olds), i)

\* The pieces with their gaps are strings.
LEMMA PiecesAreStrings ==
  ASSUME NEW gaps, NEW olds, AreLayout(gaps, olds)
  PROVE  /\ AreStrings(Pieces(gaps, olds))
         /\ Len(Pieces(gaps, olds)) = Len(olds)
         /\ Len(olds) \in Nat
         /\ \A i \in 1 .. Len(olds) :
                /\ isString(gaps[i]) /\ isString(olds[i])
                /\ Pieces(gaps, olds)[i] = gaps[i] \o olds[i]
<1> DEFINE seqs == Pieces(gaps, olds)
<1>1. /\ isString(gaps) /\ isString(olds)
      /\ \A i \in DOMAIN gaps : isString(gaps[i])
      /\ \A i \in DOMAIN olds : isString(olds[i])
      /\ Len(gaps) = Len(olds)
  BY DEF AreLayout, AreStrings
<1>2. Len(olds) \in Nat /\ DOMAIN olds = 1 .. Len(olds) /\ DOMAIN gaps = 1 .. Len(olds)
  BY <1>1, StringFacts
<1>3. /\ DOMAIN seqs = DOMAIN olds /\ seqs = [i \in DOMAIN olds |-> seqs[i]]
      /\ \A i \in DOMAIN olds : seqs[i] = gaps[i] \o olds[i]
  BY DEF Pieces
<1> HIDE DEF seqs
<1>4. ASSUME NEW i \in DOMAIN olds
      PROVE  isString(seqs[i])
  <2>1. isString(gaps[i]) /\ isString(olds[i])
    BY <1>1, <1>2
  <2>2. isString(gaps[i] \o olds[i])
    BY <2>1, ConcatIsString
  <2> QED
    BY <1>3, <2>2
<1>5. AreStrings(seqs) /\ Len(seqs) = Len(olds)
  BY <1>1, <1>3, <1>4, MappedStrings
<1> QED
  BY <1>1, <1>2, <1>3, <1>5 DEF seqs

\* What stands before the pieces, and the i-th piece after it.
IsBefore(gaps, olds, i) ==
    /\ isString(gaps[i]) /\ isString(olds[i])
    /\ isString(UpTo(gaps, olds, i - 1)) /\ isString(Before(gaps, olds, i))
    /\ isString(UpTo(gaps, olds, i))
    /\ Before(gaps, olds, i) = UpTo(gaps, olds, i - 1) \o gaps[i]
    /\ UpTo(gaps, olds, i) = Before(gaps, olds, i) \o olds[i]

\* What lies before a piece is the pieces before it and its gap.
LEMMA BeforePieces ==
  ASSUME NEW gaps, NEW olds, AreLayout(gaps, olds), NEW i \in 1 .. Len(olds)
  PROVE  IsBefore(gaps, olds, i)
<1> DEFINE seqs == Pieces(gaps, olds)
           x == Joined(seqs, i - 1)
           gap == gaps[i]
           old == olds[i]
<1>1. /\ AreStrings(seqs) /\ Len(seqs) = Len(olds) /\ Len(olds) \in Nat
      /\ isString(gap) /\ isString(old)
      /\ seqs[i] = gap \o old
  BY PiecesAreStrings
<1> HIDE DEF seqs
<1>2. i \in 1 .. Len(seqs) /\ i - 1 \in 0 .. Len(seqs)
  BY <1>1
<1>3. Joined(seqs, i) = x \o seqs[i]
  BY <1>1, <1>2, JoinedNext
<1>4. isString(x)
  <2> DEFINE n == i - 1
  <2>1. n \in 0 .. Len(seqs)
    BY <1>2
  <2> HIDE DEF n
  <2>2. isString(Joined(seqs, n))
    BY <1>1, <2>1, JoinedString
  <2> QED
    BY <2>2 DEF n
<1> HIDE DEF x, gap, old
<1>5. isString(x \o gap) /\ (x \o gap) \o old = x \o (gap \o old)
  <2>1. isString(x \o gap)
    BY <1>1, <1>4, ConcatIsString
  <2>2. IsAssociative(x, gap, old)
    BY <1>1, <1>4, ConcatsAssociate
  <2> QED
    BY <2>1, <2>2 DEF IsAssociative
<1> DEFINE xg == x \o gap
<1>6. isString(xg)
  BY <1>5
<1> HIDE DEF xg
<1>7. isString(xg \o old)
  BY <1>1, <1>6, ConcatIsString
<1>8. Joined(seqs, i) = xg \o old
  BY <1>1, <1>3, <1>5 DEF xg
<1> QED
  BY <1>1, <1>4, <1>6, <1>7, <1>8 DEF IsBefore, Before, UpTo, seqs, x, gap, old, xg

\* A piece stands in the text behind what is before it.
IsPlaced(text, x, old) == \E y : isString(y) /\ text = x \o (old \o y)

\* Each piece lies in the whole text where its layout says.
LEMMA PieceIsPlaced ==
  ASSUME NEW gaps, NEW olds, AreLayout(gaps, olds), NEW i \in 1 .. Len(olds),
         NEW tail, isString(tail)
  PROVE  IsPlaced(UpTo(gaps, olds, Len(olds)) \o tail, Before(gaps, olds, i), olds[i])
<1> DEFINE seqs == Pieces(gaps, olds)
           N == Len(olds)
           x == Joined(seqs, i - 1)
           gap == gaps[i]
           old == olds[i]
<1>1. /\ AreStrings(seqs) /\ Len(seqs) = N /\ N \in Nat
      /\ isString(gap) /\ isString(old)
      /\ seqs[i] = gap \o old
  BY PiecesAreStrings
<1> HIDE DEF seqs
<1>2. i \in 1 .. Len(seqs)
  BY <1>1
<1>3. PICK rest : IsAround(seqs, i, Len(seqs), rest)
  BY <1>1, <1>2, JoinedAround
<1>4. isString(rest) /\ Joined(seqs, N) = x \o (seqs[i] \o rest)
  BY <1>1, <1>3 DEF IsAround
<1>5. isString(x) /\ isString(Joined(seqs, N))
  <2> DEFINE n == i - 1
  <2>1. n \in 0 .. Len(seqs) /\ N \in 0 .. Len(seqs)
    BY <1>1
  <2> HIDE DEF n, N
  <2>2. isString(Joined(seqs, n)) /\ isString(Joined(seqs, N))
    BY <1>1, <2>1, JoinedString
  <2> QED
    BY <2>2 DEF n
<1> HIDE DEF x, gap, old, N
<1> DEFINE y == rest \o tail
           xg == x \o gap
           ory == old \o y
           go == gap \o old
           gor == go \o rest
<1>6. isString(y) /\ isString(xg) /\ isString(go)
  BY <1>1, <1>4, <1>5, ConcatIsString
<1>7. (gap \o old) \o y = gap \o (old \o y)
  <2> HIDE DEF y
  <2> QED
    <3>1. IsAssociative(gap, old, y)
      BY <1>1, <1>6, ConcatsAssociate
    <3> QED
      BY <3>1 DEF IsAssociative
<1>8. (go \o rest) \o tail = go \o (rest \o tail)
  <2> HIDE DEF go
  <2> QED
    <3>1. IsAssociative(go, rest, tail)
      BY <1>4, <1>6, ConcatsAssociate
    <3> QED
      BY <3>1 DEF IsAssociative
<1>9. isString(ory)
  <2> HIDE DEF y
  <2> QED
    BY <1>1, <1>6, ConcatIsString
<1>10. isString(gor)
  <2> HIDE DEF go
  <2> QED
    BY <1>4, <1>6, ConcatIsString
<1>11. (x \o gap) \o ory = x \o (gap \o ory)
  <2> HIDE DEF ory
  <2> QED
    <3>1. IsAssociative(x, gap, ory)
      BY <1>1, <1>5, <1>9, ConcatsAssociate
    <3> QED
      BY <3>1 DEF IsAssociative
<1>12. (x \o gor) \o tail = x \o (gor \o tail)
  <2> HIDE DEF gor
  <2> QED
    <3>1. IsAssociative(x, gor, tail)
      BY <1>5, <1>10, ConcatsAssociate
    <3> QED
      BY <3>1 DEF IsAssociative
<1>13. Joined(seqs, N) \o tail = xg \o (old \o y)
  <2>1. Joined(seqs, N) = x \o gor
    BY <1>1, <1>4
  <2>2. gor \o tail = gap \o ory
    BY <1>7, <1>8
  <2> HIDE DEF gor, ory
  <2>3. Joined(seqs, N) \o tail = (x \o gap) \o ory
    BY <1>11, <1>12, <2>1, <2>2
  <2> QED
    BY <2>3 DEF ory
<1> HIDE DEF y, xg
<1>14. IsPlaced(Joined(seqs, N) \o tail, xg, old)
  BY <1>6, <1>13 DEF IsPlaced
<1> QED
  BY <1>14 DEF Before, UpTo, seqs, x, gap, old, xg, N

-----------------------------------------------------------------------------
(* Finding and replacing a piece of a text kept with its bytes. *)

\* Where a piece stands in a text, in units and in bytes, given what is before it.
RangeOf(x, json) ==
    trustedRange(Len(x), Len(x) + Len(json),
                 Len(encodeUtf8(x)), Len(encodeUtf8(x)) + utf8Length(json))

\* The bytes of two strings, one after the other.
AreEncoded(a, b) ==
    /\ isString(encodeUtf8(a)) /\ isString(encodeUtf8(b)) /\ isString(encodeUtf8(a \o b))
    /\ encodeUtf8(a \o b) = encodeUtf8(a) \o encodeUtf8(b)
    /\ Len(encodeUtf8(a)) \in Nat /\ Len(encodeUtf8(b)) \in Nat
    /\ Len(encodeUtf8(a \o b)) = Len(encodeUtf8(a)) + Len(encodeUtf8(b))

\* The bytes of two strings are those of the first, then those of the second.
LEMMA EncodedConcat ==
  ASSUME NEW a, isString(a), NEW b, isString(b)
  PROVE  AreEncoded(a, b)
<1> DEFINE ea == encodeUtf8(a)
           eb == encodeUtf8(b)
           eab == encodeUtf8(a \o b)
<1>1. isString(ea) /\ isString(eb) /\ eab = ea \o eb
  BY BytesOfConcat
<1> HIDE DEF ea, eb, eab
<1>2. IsConcat(ea \o eb, ea, eb)
  BY <1>1, ConcatString
<1>3. isString(eab) /\ Len(eab) = Len(ea) + Len(eb)
  BY <1>1, <1>2 DEF IsConcat
<1>4. Len(ea) \in Nat /\ Len(eb) \in Nat
  BY <1>1, StringFacts
<1> QED
  BY <1>1, <1>3, <1>4 DEF AreEncoded, ea, eb, eab

\* Three strings one after the other, and what is between their ends.
AreMeeting(a, b, c) ==
    /\ isString(a \o (b \o c))
    /\ Slice(a \o (b \o c), 0, Len(a)) = a
    /\ Slice(a \o (b \o c), Len(a), Len(a) + Len(b)) = b
    /\ Slice(a \o (b \o c), Len(a) + Len(b), Len(a \o (b \o c))) = c
    /\ Len(a \o (b \o c)) = Len(a) + Len(b) + Len(c)
    /\ Len(a) \in Nat /\ Len(b) \in Nat /\ Len(c) \in Nat
    /\ isString(b \o c) /\ isString(a \o b)
    /\ Len(a \o b) = Len(a) + Len(b)
    /\ (a \o b) \o c = a \o (b \o c)

\* Three strings in a row are the slices between their ends.
LEMMA MeetingStrings ==
  ASSUME NEW a, isString(a), NEW b, isString(b), NEW c, isString(c)
  PROVE  AreMeeting(a, b, c)
<1> DEFINE bc == b \o c
           abc == a \o bc
           ab == a \o b
<1>1. isString(bc) /\ isString(ab)
  BY ConcatIsString
<1>2. isString(abc)
  <2> HIDE DEF bc
  <2> QED
    BY <1>1, ConcatIsString
<1>3. /\ Slice(abc, 0, Len(a)) = a
      /\ Slice(abc, Len(a), Len(a) + Len(b)) = b
      /\ Slice(abc, Len(a) + Len(b), Len(abc)) = c
      /\ Len(abc) = Len(a) + Len(b) + Len(c)
  BY SliceOfConcat
<1>4. Len(a) \in Nat /\ Len(b) \in Nat /\ Len(c) \in Nat
  BY StringFacts
<1>5. Len(ab) = Len(a) + Len(b)
  <2>1. IsConcat(ab, a, b)
    BY ConcatString
  <2> HIDE DEF ab
  <2> QED
    BY <2>1 DEF IsConcat
<1>6. ab \o c = abc
  <2>1. IsAssociative(a, b, c)
    BY ConcatsAssociate
  <2> QED
    BY <2>1 DEF IsAssociative
<1> QED
  BY <1>1, <1>2, <1>3, <1>4, <1>5, <1>6 DEF AreMeeting

\* What was found of a piece that stands behind x.
IsFound(r, x, previous, next) ==
    /\ r.start = Len(x)
    /\ r.end = Len(x) + Len(previous.json)
    /\ r.next = next.json /\ r.nextIdentity = next.identity
    /\ r.known # Unpatched => r.known.startUtf8 = Len(encodeUtf8(x))

\* A promised range is a right one, or a piece that occurs once is found where it stands.
LEMMA FoundRange ==
  ASSUME NEW utf8, NEW previous, NEW next, NEW x, isString(x), isString(previous.json),
         IsPlaced(utf8.text, x, previous.json),
         previous.identity \in DOMAIN utf8.ranges =>
            utf8.ranges[previous.identity] = RangeOf(x, previous.json),
         readCanonicalReplacementRange(utf8, previous, next) # Unpatched
  PROVE  IsFound(readCanonicalReplacementRange(utf8, previous, next), x, previous, next)
<1> DEFINE old == previous.json
           text == utf8.text
           known == IF previous.identity \in DOMAIN utf8.ranges
                    THEN utf8.ranges[previous.identity] ELSE Unpatched
           matches == known # Unpatched /\ Slice(text, known.start, known.end) = old
           places == Occurrences(text, old)
           start == CHOOSE s \in places : TRUE
           Found(s, range) ==
              [start |-> s, end |-> s + Len(old), next |-> next.json,
               known |-> range, nextIdentity |-> next.identity]
           r == readCanonicalReplacementRange(utf8, previous, next)
<1>1. r = IF matches THEN Found(known.start, known)
          ELSE IF Cardinality(places) # 1 THEN Unpatched
          ELSE Found(start, Unpatched)
  BY DEF readCanonicalReplacementRange
<1>2. PICK y : isString(y) /\ text = x \o (old \o y)
  BY DEF IsPlaced
<1>3. AreMeeting(x, old, y)
  BY <1>2, MeetingStrings
<1>0. r # Unpatched
  OBVIOUS
<1> HIDE DEF r
<1>4. ASSUME matches
      PROVE  IsFound(r, x, previous, next)
  <2>1. known = RangeOf(x, old)
    BY <1>4
  <2>2. known.start = Len(x) /\ known.startUtf8 = Len(encodeUtf8(x))
    BY <2>1 DEF RangeOf, trustedRange
  <2>3. r = Found(Len(x), known)
    BY <1>1, <1>4, <2>2
  <2> HIDE DEF known
  <2> QED
    BY <2>2, <2>3 DEF IsFound
<1>5. ASSUME ~ matches
      PROVE  IsFound(r, x, previous, next)
  <2>1. Cardinality(places) = 1 /\ r = Found(start, Unpatched)
    BY <1>0, <1>1, <1>5
  <2>2. Len(x) \in places
    <3> HIDE DEF text, old
    <3>1. Slice(text, Len(x), Len(x) + Len(old)) = old
      BY <1>2, <1>3 DEF AreMeeting
    <3>2. Len(x) \in 0 .. Len(text) - Len(old)
      BY <1>2, <1>3 DEF AreMeeting
    <3> QED
      BY <3>1, <3>2 DEF Occurrences
  <2>3. places = {Len(x)}
    <3> HIDE DEF places
    <3>1. IsFiniteSet(places)
      <4>1. IsFiniteSet(0 .. Len(text) - Len(old))
        <5> HIDE DEF text, old
        <5>1. Len(text) - Len(old) \in Int
          BY <1>2, <1>3 DEF AreMeeting
        <5> QED
          BY <5>1, FS_Interval
      <4>2. places \subseteq 0 .. Len(text) - Len(old)
        BY DEF places, Occurrences
      <4> QED
        BY <4>1, <4>2, FS_Subset
    <3>2. \E s : places = {s}
      BY <2>1, <3>1, FS_Singleton
    <3> QED
      BY <2>2, <3>2
  <2>4. start = Len(x)
    BY <2>3
  <2>5. r = Found(Len(x), Unpatched)
    BY <2>1, <2>4
  <2> QED
    BY <2>5 DEF IsFound
<1>6. IsFound(r, x, previous, next)
  BY <1>4, <1>5
<1> QED
  BY <1>6 DEF r

\* The text t was written for q, with its bytes.
IsPatched(patch, t, q, applied) ==
    /\ patch.text = t /\ patch.bytes = encodeUtf8(t)
    /\ patch.applied = applied
    /\ patch.cursor.utf16 = Len(q) /\ patch.cursor.utf8 = Len(encodeUtf8(q))

\* Where a replacement is to be made: behind q and a gap.
IsReplacement(r, x, old, next) ==
    /\ r.start = Len(x)
    /\ r.end = Len(x) + Len(old)
    /\ r.next = next
    /\ r.known # Unpatched => r.known.startUtf8 = Len(encodeUtf8(x))

\* One replacement writes the gap before it and what replaces the piece.
LEMMA PatchStep ==
  ASSUME NEW utf8, utf8.bytes = encodeUtf8(utf8.text),
         NEW q, isString(q), NEW gap, isString(gap), NEW old, isString(old),
         IsPlaced(utf8.text, q \o gap, old),
         NEW next, isString(next), NEW t, isString(t), NEW applied,
         NEW r, IsReplacement(r, q \o gap, old, next),
         NEW patch, patch # Unpatched => IsPatched(patch, t, q, applied),
         patchOne(utf8, patch, r) # Unpatched
  PROVE  IsPatched(patchOne(utf8, patch, r), (t \o gap) \o next, (q \o gap) \o old,
                   Append(applied, RangeOf(t \o gap, next)))
<1> DEFINE x == q \o gap
           text == utf8.text
           start == resolvedUtf8Start(utf8, r, patch.cursor)
           end == start + utf8Length(Slice(text, r.start, r.end))
           t1 == patch.text \o Slice(text, patch.cursor.utf16, r.start)
           b1 == patch.bytes \o Slice(utf8.bytes, patch.cursor.utf8, start)
           made == [text |-> t1 \o r.next,
                    bytes |-> b1 \o encodeUtf8(r.next),
                    applied |-> Append(patch.applied,
                                       trustedRange(Len(t1), Len(t1) + Len(r.next),
                                                    Len(b1), Len(b1) + utf8Length(r.next))),
                    cursor |-> [utf16 |-> r.end, utf8 |-> end]]
<1>1. patch # Unpatched /\ patchOne(utf8, patch, r) = made
  BY DEF patchOne
<1>2. IsPatched(patch, t, q, applied)
  BY <1>1
<1>3. isString(x) /\ Len(x) = Len(q) + Len(gap) /\ Len(q) \in Nat /\ Len(gap) \in Nat
  <2>1. isString(x)
    BY ConcatIsString
  <2>2. IsConcat(x, q, gap)
    BY ConcatString
  <2>3. Len(q) \in Nat /\ Len(gap) \in Nat
    BY StringFacts
  <2> HIDE DEF x
  <2> QED
    BY <2>1, <2>2, <2>3 DEF IsConcat
<1>4. PICK y : isString(y) /\ text = x \o (old \o y)
  BY DEF IsPlaced
<1>5. AreMeeting(x, old, y)
  BY <1>3, <1>4, MeetingStrings
<1> DEFINE z == old \o y
<1>6. isString(z) /\ text = q \o (gap \o z)
  <2>1. isString(z)
    BY <1>5 DEF AreMeeting
  <2> HIDE DEF z
  <2>2. (q \o gap) \o z = q \o (gap \o z)
    <3>1. IsAssociative(q, gap, z)
      BY <2>1, ConcatsAssociate
    <3> QED
      BY <3>1 DEF IsAssociative
  <2> QED
    BY <1>4, <2>1, <2>2 DEF z
<1>7. Slice(text, Len(q), Len(x)) = gap
  <2> HIDE DEF z
  <2>1. AreMeeting(q, gap, z)
    BY <1>6, MeetingStrings
  <2> HIDE DEF x, text
  <2> QED
    BY <1>3, <1>6, <2>1 DEF AreMeeting
<1>8. Slice(text, r.start, r.end) = old
  <2> HIDE DEF x, text
  <2> QED
    BY <1>4, <1>5 DEF AreMeeting, IsReplacement, x
<1>9. AreEncoded(q, gap) /\ AreEncoded(x, old) /\ AreEncoded(t, gap)
  BY <1>3, EncodedConcat
<1>10. start = Len(encodeUtf8(x))
  <2>1. CASE r.known # Unpatched
    BY <2>1 DEF resolvedUtf8Start, IsReplacement
  <2>2. CASE r.known = Unpatched
    <3>1. start = patch.cursor.utf8 + utf8Length(Slice(text, patch.cursor.utf16, r.start))
      BY <2>2 DEF resolvedUtf8Start
    <3>2. start = Len(encodeUtf8(q)) + Len(encodeUtf8(gap))
      BY <1>2, <1>7, <3>1 DEF IsPatched, IsReplacement, utf8Length
    <3> QED
      BY <1>9, <3>2 DEF AreEncoded
  <2> QED
    BY <2>1, <2>2
<1>11. end = Len(encodeUtf8(x \o old))
  <2>1. end = Len(encodeUtf8(x)) + Len(encodeUtf8(old))
    BY <1>8, <1>10 DEF utf8Length
  <2> HIDE DEF end, x
  <2> QED
    BY <1>9, <2>1 DEF AreEncoded
<1>12. t1 = t \o gap
  BY <1>2, <1>7 DEF IsPatched, IsReplacement
<1>13. Slice(utf8.bytes, patch.cursor.utf8, start) = encodeUtf8(gap)
  <2> DEFINE eq == encodeUtf8(q)
             eg == encodeUtf8(gap)
             ez == encodeUtf8(z)
             egz == encodeUtf8(gap \o z)
  <2>1. isString(gap \o z) /\ isString(z)
    <3> HIDE DEF z
    <3> QED
      BY <1>6, ConcatIsString
  <2>2. isString(eq) /\ isString(eg) /\ isString(ez) /\ egz = eg \o ez
    <3> HIDE DEF z
    <3> QED
      BY <2>1, BytesOfConcat
  <2>3. encodeUtf8(text) = eq \o egz
    <3> DEFINE gz == gap \o z
    <3>1. isString(gz) /\ text = q \o gz
      BY <1>6, <2>1
    <3> HIDE DEF gz, text
    <3>2. encodeUtf8(q \o gz) = encodeUtf8(q) \o encodeUtf8(gz)
      BY <3>1, BytesOfConcat
    <3> QED
      BY <3>1, <3>2 DEF gz
  <2> HIDE DEF eq, eg, ez, egz
  <2>4. AreMeeting(eq, eg, ez)
    BY <2>2, MeetingStrings
  <2>5. Slice(eq \o (eg \o ez), Len(eq), Len(eq) + Len(eg)) = eg
    BY <2>4 DEF AreMeeting
  <2>6. utf8.bytes = eq \o (eg \o ez) /\ patch.cursor.utf8 = Len(eq)
    BY <1>2, <2>2, <2>3 DEF IsPatched, eq
  <2>7. start = Len(eq) + Len(eg)
    BY <1>9, <1>10 DEF AreEncoded, eq, eg
  <2> QED
    BY <2>5, <2>6, <2>7 DEF eg
<1>14. b1 = encodeUtf8(t \o gap)
  BY <1>2, <1>9, <1>13 DEF IsPatched, AreEncoded
<1>15. /\ made.text = (t \o gap) \o next
       /\ made.bytes = encodeUtf8((t \o gap) \o next)
  <2> DEFINE tg == t \o gap
  <2>1. isString(tg)
    BY ConcatIsString
  <2>2. r.next = next
    BY DEF IsReplacement
  <2>3. t1 = tg /\ b1 = encodeUtf8(tg)
    BY <1>12, <1>14
  <2>4. made.text = t1 \o r.next /\ made.bytes = b1 \o encodeUtf8(r.next)
    OBVIOUS
  <2> HIDE DEF tg, t1, b1, made
  <2>5. encodeUtf8(tg \o next) = encodeUtf8(tg) \o encodeUtf8(next)
    BY <2>1, BytesOfConcat
  <2>6. made.text = tg \o next /\ made.bytes = encodeUtf8(tg \o next)
    BY <2>2, <2>3, <2>4, <2>5
  <2> QED
    BY <2>6 DEF tg
<1>16. made.applied = Append(applied, RangeOf(t \o gap, next))
  <2>1. made.applied = Append(patch.applied,
                              trustedRange(Len(t1), Len(t1) + Len(r.next),
                                           Len(b1), Len(b1) + utf8Length(r.next)))
    OBVIOUS
  <2>2. r.next = next /\ patch.applied = applied
    BY <1>2 DEF IsReplacement, IsPatched
  <2> HIDE DEF made, t1, b1
  <2>3. made.applied = Append(applied,
                              trustedRange(Len(t \o gap), Len(t \o gap) + Len(next),
                                           Len(encodeUtf8(t \o gap)),
                                           Len(encodeUtf8(t \o gap)) + utf8Length(next)))
    BY <1>12, <1>14, <2>1, <2>2
  <2> QED
    BY <2>3 DEF RangeOf
<1>17. made.cursor.utf16 = Len(x \o old) /\ made.cursor.utf8 = Len(encodeUtf8(x \o old))
  <2>1. made.cursor.utf16 = r.end /\ made.cursor.utf8 = end
    OBVIOUS
  <2>2. r.end = Len(x) + Len(old)
    BY DEF IsReplacement
  <2> HIDE DEF made, x, end
  <2> QED
    BY <1>5, <1>11, <2>1, <2>2 DEF AreMeeting
<1> HIDE DEF made
<1> QED
  BY <1>1, <1>15, <1>16, <1>17 DEF IsPatched

-----------------------------------------------------------------------------
(* All replacements, one after the other. *)

FirstPatch == [text |-> <<>>, bytes |-> <<>>, applied |-> <<>>,
               cursor |-> [utf16 |-> 0, utf8 |-> 0]]

PatchedHandle(utf8, patch) ==
    [applied |-> patch.applied,
     utf8 |-> [text |-> patch.text \o
                   Slice(utf8.text, patch.cursor.utf16, Len(utf8.text)),
               bytes |-> patch.bytes \o
                   Slice(utf8.bytes, patch.cursor.utf8, Len(utf8.bytes)),
               trusted |-> Range(patch.applied),
               ranges |-> <<>>]]

\* Each replacement is made in what those before it left.
ArePatches(patched, utf8, replacements) ==
    /\ patched[0] = FirstPatch
    /\ \A n \in 1 .. Len(replacements) :
          patched[n] = patchOne(utf8, patched[n - 1], replacements[n])
    /\ patchTrustedCanonicalUtf8Text(utf8, replacements) =
          IF patched[Len(replacements)] = Unpatched
          THEN Unpatched ELSE PatchedHandle(utf8, patched[Len(replacements)])

\* Patches are made one after the other.
LEMMA PatchesInOrder ==
  ASSUME NEW utf8, NEW replacements, Len(replacements) \in Nat
  PROVE  \E patched : ArePatches(patched, utf8, replacements)
<1> DEFINE N == Len(replacements)
           After(p, n) == patchOne(utf8, p, replacements[n])
           Step(f, n) == IF n = 0 THEN FirstPatch ELSE After(f[n - 1], n)
           Reached == {n \in 0 .. N : \E f : f = [i \in 0 .. n |-> Step(f, i)]}
<1>1. N \in Nat
  OBVIOUS
<1> DEFINE patched == CHOOSE f : f = [i \in 0 .. N |-> Step(f, i)]
<1>2. patchTrustedCanonicalUtf8Text(utf8, replacements) =
          IF patched[N] = Unpatched THEN Unpatched ELSE PatchedHandle(utf8, patched[N])
  BY DEF patchTrustedCanonicalUtf8Text, FirstPatch, PatchedHandle
<1>3. \A p, n : After(p, n) = patchOne(utf8, p, replacements[n])
  OBVIOUS
<1> HIDE DEF After
<1>4. 0 \in Reached
  <2> DEFINE f == [i \in 0 .. 0 |-> FirstPatch]
  <2>1. f = [i \in 0 .. 0 |-> Step(f, i)]
    OBVIOUS
  <2>2. 0 \in 0 .. N
    BY <1>1
  <2> HIDE DEF f, Step, N
  <2> QED
    BY <2>1, <2>2
<1>5. ASSUME NEW n \in 0 .. N - 1, n \in Reached
      PROVE  n + 1 \in Reached
  <2>1. PICK f : f = [i \in 0 .. n |-> Step(f, i)]
    BY <1>5
  <2> DEFINE g == [i \in 0 .. n + 1 |-> IF i <= n THEN f[i] ELSE Step(f, i)]
  <2>2. ASSUME NEW i \in 0 .. n + 1
        PROVE  g[i] = Step(g, i)
    <3>1. CASE i = 0
      <4>1. f[0] = Step(f, 0)
        BY <1>1, <2>1
      <4> QED
        BY <1>1, <3>1, <4>1
    <3>2. CASE i # 0
      <4>1. i - 1 \in 0 .. n
        BY <1>1, <3>2
      <4>2. g[i - 1] = f[i - 1]
        BY <4>1
      <4>3. Step(g, i) = Step(f, i)
        <5> HIDE DEF g
        <5> QED
          BY <3>2, <4>2
      <4>4. CASE i <= n
        <5>1. i \in 0 .. n
          BY <4>4
        <5>2. f[i] = Step(f, i)
          BY <2>1, <5>1
        <5> HIDE DEF Step
        <5> QED
          BY <4>3, <4>4, <5>2
      <4>5. CASE ~ (i <= n)
        <5> HIDE DEF Step
        <5> QED
          BY <4>3, <4>5
      <4> QED
        BY <4>4, <4>5
    <3> QED
      BY <3>1, <3>2
  <2>3. g = [i \in 0 .. n + 1 |-> Step(g, i)]
    <3> HIDE DEF Step
    <3> QED
      BY <2>2
  <2>4. n + 1 \in 0 .. N
    BY <1>1
  <2> HIDE DEF g, Step, N
  <2> QED
    BY <2>3, <2>4
<1>6. N \in Reached
  <2> HIDE DEF Reached
  <2>1. \A n \in 0 .. N : n \in Reached
    BY <1>1, <1>4, <1>5, InductionUpTo
  <2> QED
    BY <1>1, <2>1
<1>7. patched = [i \in 0 .. N |-> Step(patched, i)]
  <2> HIDE DEF Step
  <2> QED
    BY <1>6
<1> HIDE DEF patched
<1>8. patched[0] = FirstPatch
  BY <1>1, <1>7
<1>9. \A n \in 1 .. N : patched[n] = patchOne(utf8, patched[n - 1], replacements[n])
  BY <1>1, <1>3, <1>7
<1>10. ArePatches(patched, utf8, replacements)
  BY <1>2, <1>8, <1>9 DEF ArePatches
<1> QED
  BY <1>10

\* One more element.
LEMMA AppendNext ==
  ASSUME NEW f, NEW n \in Nat
  PROVE  Append([i \in 1 .. n |-> f[i]], f[n + 1]) = [i \in 1 .. n + 1 |-> f[i]]
<1> DEFINE S == {f[i] : i \in 1 .. n + 1}
           s == [i \in 1 .. n |-> f[i]]
           t == [i \in 1 .. n + 1 |-> f[i]]
<1>1. s \in Seq(S) /\ f[n + 1] \in S
  OBVIOUS
<1>2. Len(s) = n
  BY LenOfFunction
<1>3. \A i \in 1 .. n : s[i] = f[i]
  OBVIOUS
<1> HIDE DEF s, S
<1>4. /\ Append(s, f[n + 1]) = [i \in 1 .. n + 1 |-> Append(s, f[n + 1])[i]]
      /\ \A i \in 1 .. n : Append(s, f[n + 1])[i] = f[i]
      /\ Append(s, f[n + 1])[n + 1] = f[n + 1]
  BY <1>1, <1>2, <1>3, AppendProperties
<1> DEFINE a == Append(s, f[n + 1])
<1>5. \A i \in 1 .. n + 1 : a[i] = t[i]
  <2> HIDE DEF a
  <2> TAKE i \in 1 .. n + 1
  <2>1. i \in 1 .. n \/ i = n + 1
    OBVIOUS
  <2> QED
    BY <1>4, <2>1 DEF a
<1>6. a = [i \in 1 .. n + 1 |-> a[i]] /\ t = [i \in 1 .. n + 1 |-> t[i]]
  BY <1>4
<1> HIDE DEF a, t
<1>7. a = t
  BY <1>5, <1>6
<1> QED
  BY <1>7 DEF a, t, s

\* Where the new pieces stand.
RangesOf(gaps, news) == [i \in 1 .. Len(news) |-> RangeOf(Before(gaps, news, i), news[i])]

\* A handle in which every piece was replaced.
IsPatchedText(made, gaps, news, tail) ==
    /\ made.applied = RangesOf(gaps, news)
    /\ made.utf8 = [text |-> UpTo(gaps, news, Len(news)) \o tail,
                    bytes |-> encodeUtf8(UpTo(gaps, news, Len(news)) \o tail),
                    trusted |-> Range(RangesOf(gaps, news)), ranges |-> <<>>]

\* What is to be replaced, and by what.
AreReplacedBy(ranges, gaps, olds, news) ==
    /\ Len(ranges) = Len(olds)
    /\ \A i \in 1 .. Len(olds) :
          IsReplacement(ranges[i], Before(gaps, olds, i), olds[i], news[i])

\* Patching the pieces of a text in order puts the new pieces where the old ones were.
LEMMA PatchIsExact ==
  ASSUME NEW utf8, NEW gaps, NEW olds, NEW news, NEW tail, NEW ranges,
         AreLayout(gaps, olds), AreLayout(gaps, news), isString(tail),
         utf8.text = UpTo(gaps, olds, Len(olds)) \o tail,
         utf8.bytes = encodeUtf8(utf8.text),
         AreReplacedBy(ranges, gaps, olds, news),
         patchTrustedCanonicalUtf8Text(utf8, ranges) # Unpatched
  PROVE  IsPatchedText(patchTrustedCanonicalUtf8Text(utf8, ranges), gaps, news, tail)
<1> DEFINE N == Len(olds)
           A == RangesOf(gaps, news)
           applied(n) == [i \in 1 .. n |-> A[i]]
           FitsAt(p, n) == p # Unpatched =>
                            IsPatched(p, UpTo(gaps, news, n), UpTo(gaps, olds, n), applied(n))
<1>1. N \in Nat /\ Len(news) = N /\ Len(ranges) = N
  BY PiecesAreStrings DEF AreLayout, AreReplacedBy
<1>2. PICK patched : ArePatches(patched, utf8, ranges)
  BY <1>1, PatchesInOrder
<1> DEFINE Good == {n \in 0 .. N : FitsAt(patched[n], n)}
<1>3. 0 \in Good
  <2>1. patched[0] = FirstPatch
    BY <1>2 DEF ArePatches
  <2>2. UpTo(gaps, news, 0) = <<>> /\ UpTo(gaps, olds, 0) = <<>>
    BY PiecesAreStrings, JoinedNone DEF UpTo
  <2>3. applied(0) = <<>>
    OBVIOUS
  <2>4. Len(<<>>) = 0 /\ Len(encodeUtf8(<<>>)) = 0
    BY NoBytes
  <2>5. IsPatched(FirstPatch, <<>>, <<>>, <<>>)
    BY <2>4, NoBytes DEF IsPatched, FirstPatch
  <2>6. 0 \in 0 .. N
    BY <1>1
  <2> HIDE DEF applied, N
  <2>7. FitsAt(patched[0], 0)
    BY <2>1, <2>2, <2>3, <2>5
  <2> HIDE DEF FitsAt
  <2> QED
    BY <2>6, <2>7
<1>4. ASSUME NEW n \in 0 .. N - 1, n \in Good
      PROVE  n + 1 \in Good
  <2> DEFINE k == n + 1
             q == UpTo(gaps, olds, n)
             t == UpTo(gaps, news, n)
             gap == gaps[k]
             old == olds[k]
             next == news[k]
             r == ranges[k]
             patch == patched[n]
             more == patched[k]
  <2>1. k \in 1 .. N /\ k - 1 = n /\ k \in 0 .. N /\ n \in Nat
    BY <1>1
  <2>2. IsBefore(gaps, olds, k) /\ IsBefore(gaps, news, k)
    <3>1. k \in 1 .. Len(olds) /\ k \in 1 .. Len(news)
      BY <1>1, <2>1
    <3> HIDE DEF k
    <3> QED
      BY <3>1, BeforePieces
  <2>3. /\ isString(q) /\ isString(t) /\ isString(gap) /\ isString(old) /\ isString(next)
        /\ Before(gaps, olds, k) = q \o gap /\ Before(gaps, news, k) = t \o gap
        /\ UpTo(gaps, olds, k) = (q \o gap) \o old
        /\ UpTo(gaps, news, k) = (t \o gap) \o next
    BY <2>1, <2>2 DEF IsBefore
  <2>4. IsPlaced(utf8.text, q \o gap, old)
    <3>1. k \in 1 .. Len(olds)
      BY <1>1, <2>1
    <3> HIDE DEF k
    <3>2. IsPlaced(UpTo(gaps, olds, Len(olds)) \o tail, Before(gaps, olds, k), olds[k])
      BY <3>1, PieceIsPlaced
    <3> QED
      BY <2>3, <3>2
  <2>5. IsReplacement(r, q \o gap, old, next)
    BY <1>1, <2>1, <2>3 DEF AreReplacedBy
  <2>6. patch # Unpatched => IsPatched(patch, t, q, applied(n))
    BY <1>4
  <2>7. more = patchOne(utf8, patch, r)
    BY <1>1, <1>2, <2>1 DEF ArePatches
  <2>8. Append(applied(n), RangeOf(t \o gap, next)) = applied(k)
    <3>1. A[k] = RangeOf(Before(gaps, news, k), news[k])
      BY <1>1, <2>1 DEF RangesOf
    <3>2. A[n + 1] = RangeOf(t \o gap, next)
      BY <2>3, <3>1
    <3> HIDE DEF A
    <3>3. Append([i \in 1 .. n |-> A[i]], A[n + 1]) = [i \in 1 .. n + 1 |-> A[i]]
      BY <2>1, AppendNext
    <3> QED
      BY <3>2, <3>3
  <2> HIDE DEF q, t, gap, old, next, r, patch, more, applied
  <2>9. ASSUME more # Unpatched
        PROVE  IsPatched(more, (t \o gap) \o next, (q \o gap) \o old,
                         Append(applied(n), RangeOf(t \o gap, next)))
    <3> DEFINE a == applied(n)
    <3>1. patchOne(utf8, patch, r) # Unpatched
      BY <2>7, <2>9
    <3>2. patch # Unpatched => IsPatched(patch, t, q, a)
      BY <2>6
    <3> HIDE DEF a
    <3>3. IsPatched(patchOne(utf8, patch, r), (t \o gap) \o next, (q \o gap) \o old,
                    Append(a, RangeOf(t \o gap, next)))
      BY <2>3, <2>4, <2>5, <3>1, <3>2, PatchStep
    <3> QED
      BY <2>7, <3>3 DEF a
  <2>10. FitsAt(more, k)
    BY <2>3, <2>8, <2>9
  <2> HIDE DEF FitsAt
  <2> QED
    BY <2>1, <2>10 DEF more
<1>5. N \in Good
  <2> HIDE DEF Good
  <2>1. \A n \in 0 .. N : n \in Good
    BY <1>1, <1>3, <1>4, InductionUpTo
  <2> QED
    BY <1>1, <2>1
<1> DEFINE patch == patched[N]
           t == UpTo(gaps, news, N)
           q == UpTo(gaps, olds, N)
           made == patchTrustedCanonicalUtf8Text(utf8, ranges)
<1>6. patch # Unpatched /\ made = PatchedHandle(utf8, patch)
  BY <1>1, <1>2 DEF ArePatches
<1>7. IsPatched(patch, t, q, applied(N))
  BY <1>5, <1>6
<1>8. applied(N) = A
  BY <1>1 DEF RangesOf
<1>9. isString(t) /\ isString(q)
  <2> DEFINE before == Pieces(gaps, olds)
             after == Pieces(gaps, news)
  <2>0. /\ AreStrings(before) /\ Len(before) = Len(olds)
        /\ AreStrings(after) /\ Len(after) = Len(news)
    BY PiecesAreStrings
  <2> HIDE DEF before, after, N
  <2>1. AreStrings(before) /\ AreStrings(after) /\ N \in 0 .. Len(before) /\ N \in 0 .. Len(after)
    BY <1>1, <2>0 DEF N
  <2>2. isString(Joined(before, N)) /\ isString(Joined(after, N))
    BY <2>1, JoinedString
  <2> QED
    BY <2>2 DEF before, after, UpTo
<1> HIDE DEF t, q, A, applied, patch, made
<1>10. utf8.text = q \o tail
  BY DEF q
<1>11. Slice(utf8.text, Len(q), Len(utf8.text)) = tail
  <2>1. AreMeeting(<<>>, q, tail)
    BY <1>9, EmptyString, MeetingStrings
  <2>2. <<>> \o (q \o tail) = q \o tail
    <3>1. isString(q \o tail)
      BY <1>9, ConcatIsString
    <3> QED
      BY <3>1, ConcatEmpty
  <2>3. Len(<<>>) + Len(q) = Len(q)
    BY <1>9, StringFacts
  <2> QED
    BY <1>10, <2>1, <2>2, <2>3 DEF AreMeeting
<1>12. Slice(utf8.bytes, Len(encodeUtf8(q)), Len(utf8.bytes)) = encodeUtf8(tail)
  <2> DEFINE eq == encodeUtf8(q)
             et == encodeUtf8(tail)
  <2>1. isString(eq) /\ isString(et) /\ utf8.bytes = eq \o et
    BY <1>9, <1>10, BytesOfConcat
  <2> HIDE DEF eq, et
  <2>2. AreMeeting(<<>>, eq, et)
    BY <2>1, EmptyString, MeetingStrings
  <2>3. <<>> \o (eq \o et) = eq \o et
    <3>1. isString(eq \o et)
      BY <2>1, ConcatIsString
    <3> QED
      BY <3>1, ConcatEmpty
  <2>4. Len(<<>>) + Len(eq) = Len(eq)
    BY <2>1, StringFacts
  <2>5. Slice(utf8.bytes, Len(eq), Len(utf8.bytes)) = et
    BY <2>1, <2>2, <2>3, <2>4 DEF AreMeeting
  <2> QED
    BY <2>5 DEF eq, et
<1>13. encodeUtf8(t) \o encodeUtf8(tail) = encodeUtf8(t \o tail)
  BY <1>9, BytesOfConcat
<1>14. patch.applied = A
  BY <1>7, <1>8 DEF IsPatched
<1>15. made = [applied |-> A,
               utf8 |-> [text |-> t \o tail, bytes |-> encodeUtf8(t \o tail),
                         trusted |-> Range(A), ranges |-> <<>>]]
  BY <1>6, <1>7, <1>11, <1>12, <1>13, <1>14 DEF IsPatched, PatchedHandle
<1>16. IsPatchedText(made, gaps, news, tail)
  BY <1>1, <1>15 DEF IsPatchedText, t, A
<1> QED
  BY <1>16 DEF made

-----------------------------------------------------------------------------
(* The ranges in the order of their starts. *)

InOrder(ranges, g, N) == [i \in 1 .. N |-> ranges[g[i]]]

\* Increasing starts tell the order.
LEMMA SortedAre ==
  ASSUME NEW N \in Nat, NEW ranges, DOMAIN ranges = 1 .. N,
         NEW g \in Bijection(1 .. N, 1 .. N),
         \A i \in 1 .. N : ranges[i].start \in Int,
         \A i, j \in 1 .. N : i < j => ranges[g[i]].start < ranges[g[j]].start
  PROVE  sortedByStart(ranges) = InOrder(ranges, g, N)
<1> DEFINE places == 1 .. N
           IsOrder(f) == \A i, j \in places : i < j =>
                            \/ ranges[f[i]].start < ranges[f[j]].start
                            \/ ranges[f[i]].start = ranges[f[j]].start /\ f[i] < f[j]
           order == CHOOSE f \in Bijection(places, places) : IsOrder(f)
<1>1. sortedByStart(ranges) = [i \in places |-> ranges[order[i]]]
  BY DEF sortedByStart
<1>2. IsOrder(g)
  OBVIOUS
<1>3. order \in Bijection(places, places) /\ IsOrder(order)
  <2> HIDE DEF IsOrder, places
  <2> QED
    BY <1>2 DEF places
<1> HIDE DEF order
<1>4. /\ \A i \in places : order[i] \in places /\ g[i] \in places
      /\ \A i, j \in places : order[i] = order[j] => i = j
      /\ \A i, j \in places : g[i] = g[j] => i = j
      /\ \A p \in places : \E i \in places : order[i] = p
      /\ \A p \in places : \E i \in places : g[i] = p
  <2> HIDE DEF places, IsOrder
  <2>1. g \in Bijection(places, places)
    BY DEF places
  <2> QED
    BY <1>3, <2>1 DEF Bijection, Injection, Surjection, IsInjective
<1> DEFINE Same == {n \in 0 .. N : \A i \in 1 .. n : order[i] = g[i]}
<1>5. 0 \in Same
  OBVIOUS
<1>6. ASSUME NEW n \in 0 .. N - 1, n \in Same
      PROVE  n + 1 \in Same
  <2> DEFINE k == n + 1
  <2>1. k \in places /\ k \in 0 .. N
    OBVIOUS
  <2>2. order[k] = g[k]
    <3>1. PICK a \in places : g[a] = order[k]
      BY <1>4, <2>1
    <3>2. PICK b \in places : order[b] = g[k]
      BY <1>4, <2>1
    <3>3. a >= k
      <4>1. ASSUME a < k
            PROVE  FALSE
        <5>1. a \in 1 .. n
          BY <4>1
        <5>2. order[a] = g[a]
          BY <1>6, <5>1
        <5>3. a = k
          BY <1>4, <2>1, <3>1, <5>2
        <5> QED
          BY <4>1, <5>3
      <4> QED
        BY <2>1, <4>1
    <3>4. b >= k
      <4>1. ASSUME b < k
            PROVE  FALSE
        <5>1. b \in 1 .. n
          BY <4>1
        <5>2. order[b] = g[b]
          BY <1>6, <5>1
        <5>3. b = k
          BY <1>4, <2>1, <3>2, <5>2
        <5> QED
          BY <4>1, <5>3
      <4> QED
        BY <2>1, <4>1
    <3>5. ASSUME a # k
          PROVE  FALSE
      <4>1. k < a
        BY <2>1, <3>3, <3>5
      <4>2. b # k
        BY <1>4, <2>1, <3>1, <3>2, <3>5
      <4>3. k < b
        BY <2>1, <3>4, <4>2
      <4>4. ranges[g[k]].start < ranges[g[a]].start
        BY <2>1, <4>1
      <4>5. \/ ranges[order[k]].start < ranges[order[b]].start
            \/ ranges[order[k]].start = ranges[order[b]].start
        BY <1>3, <2>1, <4>3
      <4>6. ranges[order[k]].start \in Int /\ ranges[order[b]].start \in Int
        BY <1>4, <2>1
      <4> HIDE DEF k
      <4> QED
        BY <3>1, <3>2, <4>4, <4>5, <4>6
    <3> QED
      BY <3>1, <3>5
  <2>3. \A i \in 1 .. k : i \in 1 .. n \/ i = k
    OBVIOUS
  <2> HIDE DEF k
  <2>4. \A i \in 1 .. k : order[i] = g[i]
    BY <1>6, <2>2, <2>3
  <2> QED
    BY <2>1, <2>4 DEF k
<1>7. N \in Same
  <2> HIDE DEF Same
  <2>1. \A n \in 0 .. N : n \in Same
    BY <1>5, <1>6, InductionUpTo
  <2> QED
    BY <2>1
<1> QED
  BY <1>1, <1>7 DEF InOrder

-----------------------------------------------------------------------------
(* The ranges of the new pieces. *)

\* What the next handle promises: where the pieces stand.
ArePromised(promised, ids, gaps, news) ==
    /\ DOMAIN promised = {ids[i] : i \in 1 .. Len(news)}
    /\ \A i \in 1 .. Len(news) : promised[ids[i]] = RangeOf(Before(gaps, news, i), news[i])

\* The start of a piece follows from that of the one before.
IsNextStart(gaps, olds, news, ranges, k) ==
    Len(Before(gaps, news, k)) =
        IF k = 1
        THEN ranges[1].start
        ELSE Len(Before(gaps, news, k - 1)) + Len(ranges[k - 1].next) +
                ranges[k].start - ranges[k - 1].end

\* Where patchRanges says a new piece begins, it does.
LEMMA NextStart ==
  ASSUME NEW gaps, NEW olds, NEW news, NEW ranges,
         AreLayout(gaps, olds), AreLayout(gaps, news),
         AreReplacedBy(ranges, gaps, olds, news),
         NEW k \in 1 .. Len(olds)
  PROVE  IsNextStart(gaps, olds, news, ranges, k)
<1>0. Len(olds) \in Nat /\ Len(news) = Len(olds)
  BY PiecesAreStrings DEF AreLayout
<1>1. IsBefore(gaps, olds, k) /\ IsBefore(gaps, news, k)
  BY <1>0, BeforePieces
<1> DEFINE qo == UpTo(gaps, olds, k - 1)
           qn == UpTo(gaps, news, k - 1)
           gap == gaps[k]
<1>2. /\ isString(qo) /\ isString(qn) /\ isString(gap)
      /\ Before(gaps, olds, k) = qo \o gap /\ Before(gaps, news, k) = qn \o gap
  BY <1>1 DEF IsBefore
<1>3. ranges[k].start = Len(Before(gaps, olds, k))
  BY DEF AreReplacedBy, IsReplacement
<1> HIDE DEF qo, qn, gap
<1>4. /\ Len(Before(gaps, olds, k)) = Len(qo) + Len(gap)
      /\ Len(Before(gaps, news, k)) = Len(qn) + Len(gap)
      /\ Len(qo) \in Nat /\ Len(qn) \in Nat /\ Len(gap) \in Nat
  <2>1. IsConcat(qo \o gap, qo, gap) /\ IsConcat(qn \o gap, qn, gap)
    BY <1>2, ConcatString
  <2> QED
    BY <1>2, <2>1, StringFacts DEF IsConcat
<1>5. CASE k = 1
  <2>1. qo = <<>> /\ qn = <<>>
    <3>1. UpTo(gaps, olds, 0) = <<>> /\ UpTo(gaps, news, 0) = <<>>
      BY PiecesAreStrings, JoinedNone DEF UpTo
    <3>2. k - 1 = 0
      BY <1>5
    <3> QED
      BY <3>1, <3>2 DEF qo, qn
  <2>2. Len(Before(gaps, news, k)) = ranges[1].start
    BY <1>3, <1>4, <1>5, <2>1
  <2> QED
    BY <1>5, <2>2 DEF IsNextStart
<1>6. CASE k # 1
  <2> DEFINE j == k - 1
             bo == Before(gaps, olds, j)
             bn == Before(gaps, news, j)
             old == olds[j]
             new == news[j]
  <2>1. j \in 1 .. Len(olds) /\ j \in 1 .. Len(news)
    BY <1>0, <1>6
  <2>2. /\ isString(bo) /\ isString(bn) /\ isString(old) /\ isString(new)
        /\ qo = bo \o old /\ qn = bn \o new
    <3> HIDE DEF j
    <3>1. IsBefore(gaps, olds, j) /\ IsBefore(gaps, news, j)
      BY <2>1, BeforePieces
    <3> QED
      BY <3>1 DEF IsBefore, qo, qn, j
  <2>3. ranges[j].end = Len(bo) + Len(old) /\ ranges[j].next = new
    BY <2>1 DEF AreReplacedBy, IsReplacement
  <2> HIDE DEF bo, bn, old, new
  <2>4. /\ Len(qo) = Len(bo) + Len(old) /\ Len(qn) = Len(bn) + Len(new)
        /\ Len(bo) \in Nat /\ Len(old) \in Nat /\ Len(bn) \in Nat /\ Len(new) \in Nat
    <3>1. IsConcat(bo \o old, bo, old) /\ IsConcat(bn \o new, bn, new)
      BY <2>2, ConcatString
    <3> QED
      BY <2>2, <3>1, StringFacts DEF IsConcat
  <2>5. Len(Before(gaps, news, k)) =
            Len(bn) + Len(ranges[j].next) + ranges[k].start - ranges[j].end
    BY <1>3, <1>4, <2>3, <2>4
  <2> QED
    BY <1>6, <2>5 DEF IsNextStart, bn
<1> QED
  BY <1>5, <1>6

\* The ranges kept for the next patch are those of the new pieces.
LEMMA NextPromises ==
  ASSUME NEW gaps, NEW olds, NEW news, NEW ranges, NEW ids,
         AreLayout(gaps, olds), AreLayout(gaps, news),
         AreReplacedBy(ranges, gaps, olds, news), DOMAIN ranges = 1 .. Len(olds),
         \A i \in 1 .. Len(olds) : ranges[i].nextIdentity = ids[i],
         \A i, j \in 1 .. Len(olds) : ids[i] = ids[j] => i = j
  PROVE  ArePromised(cacheNextCanonicalIdentityRanges(ranges, RangesOf(gaps, news)),
                     ids, gaps, news)
<1> DEFINE N == Len(olds)
           S(i) == Len(Before(gaps, news, i))
           Step(f, i) == IF i = 1
                         THEN ranges[1].start
                         ELSE f[i - 1] + Len(ranges[i - 1].next) + ranges[i].start -
                                ranges[i - 1].end
           startOf == CHOOSE f : f = [i \in 1 .. Len(ranges) |-> Step(f, i)]
           applied == RangesOf(gaps, news)
           Moved(i) == trustedRange(startOf[i], startOf[i] + Len(ranges[i].next),
                                    applied[i].startUtf8, applied[i].endUtf8)
           identities == {ranges[i].nextIdentity : i \in DOMAIN ranges}
           At(identity) == CHOOSE i \in DOMAIN ranges : ranges[i].nextIdentity = identity
           promised == cacheNextCanonicalIdentityRanges(ranges, applied)
<1>1. N \in Nat /\ Len(news) = N /\ Len(ranges) = N
  BY PiecesAreStrings DEF AreLayout, AreReplacedBy
<1>2. promised = [identity \in identities |-> Moved(At(identity))]
  BY DEF cacheNextCanonicalIdentityRanges
<1>3. \A k \in 1 .. N : S(k) = IF k = 1
                              THEN ranges[1].start
                              ELSE S(k - 1) + Len(ranges[k - 1].next) + ranges[k].start -
                                     ranges[k - 1].end
  <2> TAKE k \in 1 .. N
  <2>1. IsNextStart(gaps, olds, news, ranges, k)
    BY NextStart
  <2> QED
    BY <2>1 DEF IsNextStart
<1> HIDE DEF S
<1>4. startOf = [i \in 1 .. N |-> Step(startOf, i)]
  <2> DEFINE g == [i \in 1 .. N |-> S(i)]
  <2>1. ASSUME NEW i \in 1 .. N
        PROVE  g[i] = Step(g, i)
    <3>1. CASE i = 1
      BY <1>3, <3>1
    <3>2. CASE i # 1
      <4>1. i - 1 \in 1 .. N
        BY <1>1, <3>2
      <4>2. g[i - 1] = S(i - 1)
        BY <4>1
      <4>3. g[i] = S(i)
        OBVIOUS
      <4> HIDE DEF g
      <4> QED
        BY <1>3, <3>2, <4>2, <4>3
    <3> QED
      BY <3>1, <3>2
  <2>2. g = [i \in 1 .. N |-> Step(g, i)]
    <3> HIDE DEF Step
    <3> QED
      BY <2>1
  <2>3. startOf = CHOOSE f : f = [i \in 1 .. N |-> Step(f, i)]
    BY <1>1
  <2> HIDE DEF Step, g, startOf, N
  <2> QED
    BY <2>2, <2>3
<1> HIDE DEF startOf
<1> DEFINE Same == {n \in 0 .. N : \A i \in 1 .. n : startOf[i] = S(i)}
<1>5. 0 \in Same
  BY <1>1
<1>6. ASSUME NEW n \in 0 .. N - 1, n \in Same
      PROVE  n + 1 \in Same
  <2> DEFINE k == n + 1
  <2>1. k \in 1 .. N /\ k \in 0 .. N /\ k - 1 = n
    BY <1>1
  <2>2. startOf[k] = Step(startOf, k)
    <3> HIDE DEF Step, k
    <3> QED
      BY <1>4, <2>1
  <2>3. startOf[k] = S(k)
    <3>1. CASE k = 1
      BY <1>3, <2>1, <2>2, <3>1
    <3>2. CASE k # 1
      <4>1. n \in 1 .. n
        BY <2>1, <3>2
      <4>2. startOf[n] = S(n)
        BY <1>6, <4>1
      <4> HIDE DEF k
      <4> QED
        BY <1>3, <2>1, <2>2, <3>2, <4>2
    <3> QED
      BY <3>1, <3>2
  <2>4. \A i \in 1 .. k : i \in 1 .. n \/ i = k
    BY <1>1
  <2> HIDE DEF k, N
  <2>5. \A i \in 1 .. k : startOf[i] = S(i)
    BY <1>6, <2>3, <2>4
  <2> QED
    BY <2>1, <2>5 DEF k
<1>7. \A i \in 1 .. N : startOf[i] = S(i)
  <2> HIDE DEF Same
  <2>1. \A n \in 0 .. N : n \in Same
    BY <1>1, <1>5, <1>6, InductionUpTo
  <2>2. N \in Same
    BY <1>1, <2>1
  <2> QED
    BY <2>2 DEF Same
<1>8. \A i \in 1 .. N : Moved(i) = RangeOf(Before(gaps, news, i), news[i])
  <2> TAKE i \in 1 .. N
  <2>1. ranges[i].next = news[i]
    BY DEF AreReplacedBy, IsReplacement
  <2>2. applied[i] = RangeOf(Before(gaps, news, i), news[i])
    BY <1>1 DEF RangesOf
  <2> DEFINE x == Before(gaps, news, i)
  <2>3. /\ RangeOf(x, news[i]).startUtf8 = Len(encodeUtf8(x))
        /\ RangeOf(x, news[i]).endUtf8 = Len(encodeUtf8(x)) + utf8Length(news[i])
    BY DEF RangeOf, trustedRange
  <2>4. startOf[i] = Len(x)
    BY <1>7 DEF S
  <2> HIDE DEF applied, x
  <2> QED
    BY <2>1, <2>2, <2>3, <2>4 DEF RangeOf, x
<1>9. \A i \in 1 .. N : ids[i] \in identities /\ At(ids[i]) = i
  <2> TAKE i \in 1 .. N
  <2>1. i \in DOMAIN ranges /\ ranges[i].nextIdentity = ids[i]
    OBVIOUS
  <2>2. \A j \in DOMAIN ranges : ranges[j].nextIdentity = ids[i] => j = i
    OBVIOUS
  <2>3. At(ids[i]) = i
    BY <2>1, <2>2
  <2> QED
    BY <2>1, <2>3
<1>10. identities = {ids[i] : i \in 1 .. N}
  OBVIOUS
<1> HIDE DEF Moved, At, identities, applied, promised, N
<1>11. DOMAIN promised = {ids[i] : i \in 1 .. N}
  BY <1>2, <1>10
<1>12. \A i \in 1 .. N : promised[ids[i]] = RangeOf(Before(gaps, news, i), news[i])
  BY <1>2, <1>8, <1>9
<1>13. ArePromised(promised, ids, gaps, news)
  BY <1>1, <1>11, <1>12 DEF ArePromised
<1> QED
  BY <1>13 DEF promised, applied

-----------------------------------------------------------------------------
(* The payload with the text first among what is replaced, and last in it. *)

\* Pieces that are not empty stand one behind the other.
LEMMA BeforeGrows ==
  ASSUME NEW gaps, NEW olds, AreLayout(gaps, olds),
         \A i \in 1 .. Len(olds) - 1 : Len(olds[i]) # 0
  PROVE  /\ \A i \in 1 .. Len(olds) : Len(Before(gaps, olds, i)) \in Nat
         /\ \A i, j \in 1 .. Len(olds) :
                i < j => Len(Before(gaps, olds, i)) < Len(Before(gaps, olds, j))
<1> DEFINE N == Len(olds)
           S(i) == Len(Before(gaps, olds, i))
<1>1. N \in Nat
  BY PiecesAreStrings
<1>2. \A i \in 1 .. N : S(i) \in Nat
  BY BeforePieces, StringFacts DEF IsBefore
<1>3. \A i \in 1 .. N - 1 : S(i) < S(i + 1)
  <2> TAKE i \in 1 .. N - 1
  <2> DEFINE b == Before(gaps, olds, i)
             old == olds[i]
             u == UpTo(gaps, olds, i)
             gap == gaps[i + 1]
  <2>1. i \in 1 .. N /\ i + 1 \in 1 .. N /\ (i + 1) - 1 = i
    BY <1>1
  <2>2. isString(b) /\ isString(old) /\ u = b \o old
    <3>1. IsBefore(gaps, olds, i)
      BY <2>1, BeforePieces
    <3> QED
      BY <3>1 DEF IsBefore
  <2>3. isString(u) /\ isString(gap) /\ Before(gaps, olds, i + 1) = u \o gap
    <3> DEFINE k == i + 1
    <3>1. k \in 1 .. N
      BY <2>1
    <3> HIDE DEF k
    <3>2. IsBefore(gaps, olds, k)
      BY <3>1, BeforePieces
    <3> QED
      BY <2>1, <3>2 DEF IsBefore, k
  <2>4. Len(old) # 0
    OBVIOUS
  <2>5. S(i) = Len(b) /\ S(i + 1) = Len(u \o gap)
    BY <2>3
  <2> HIDE DEF b, old, u, gap, S
  <2>6. Len(u) = Len(b) + Len(old)
    <3>1. IsConcat(b \o old, b, old)
      BY <2>2, ConcatString
    <3> QED
      BY <2>2, <3>1 DEF IsConcat
  <2>7. Len(u \o gap) = Len(u) + Len(gap)
    <3>1. IsConcat(u \o gap, u, gap)
      BY <2>3, ConcatString
    <3> QED
      BY <3>1 DEF IsConcat
  <2>8. Len(b) \in Nat /\ Len(old) \in Nat /\ Len(gap) \in Nat
    BY <2>2, <2>3, StringFacts
  <2> QED
    BY <2>4, <2>5, <2>6, <2>7, <2>8
<1> HIDE DEF S
<1> DEFINE Grown == {n \in 0 .. N : \A i, j \in 1 .. N : i < j /\ j <= n => S(i) < S(j)}
<1>4. 0 \in Grown
  BY <1>1
<1>5. ASSUME NEW n \in 0 .. N - 1, n \in Grown
      PROVE  n + 1 \in Grown
  <2>1. n + 1 \in 0 .. N
    BY <1>1
  <2>2. ASSUME NEW i \in 1 .. N, NEW j \in 1 .. N, i < j, j <= n + 1
        PROVE  S(i) < S(j)
    <3>1. CASE j <= n
      BY <1>5, <2>2, <3>1
    <3>2. CASE ~ (j <= n)
      <4>1. j = n + 1 /\ n \in 1 .. N - 1 /\ n \in 1 .. N
        BY <1>1, <2>2, <3>2
      <4>2. S(n) < S(n + 1)
        BY <1>3, <4>1
      <4>3. i = n \/ S(i) < S(n)
        BY <1>5, <2>2, <4>1
      <4>4. S(i) \in Nat /\ S(n) \in Nat /\ S(n + 1) \in Nat
        BY <1>2, <2>1, <4>1
      <4> QED
        BY <4>1, <4>2, <4>3, <4>4
    <3> QED
      BY <3>1, <3>2
  <2> QED
    BY <2>1, <2>2
<1>6. N \in Grown
  <2> HIDE DEF Grown
  <2>1. \A n \in 0 .. N : n \in Grown
    BY <1>1, <1>4, <1>5, InductionUpTo
  <2> QED
    BY <1>1, <2>1
<1>7. \A i, j \in 1 .. N : i < j => S(i) < S(j)
  BY <1>1, <1>6
<1> QED
  BY <1>2, <1>7 DEF S

\* Which replacement is that of the i-th piece: the first is that of the last piece.
Turned(N) == [i \in 1 .. N |-> IF i = N THEN 1 ELSE i + 1]

\* The order of the pieces is a permutation of the order of the replacements.
LEMMA TurnedIsBijection ==
  ASSUME NEW N \in Nat
  PROVE  Turned(N) \in Bijection(1 .. N, 1 .. N)
<1> DEFINE g == Turned(N)
<1>1. g \in [1 .. N -> 1 .. N]
  BY DEF Turned
<1>2. \A i, j \in 1 .. N : g[i] = g[j] => i = j
  BY DEF Turned
<1>3. \A p \in 1 .. N : \E i \in 1 .. N : g[i] = p
  <2> TAKE p \in 1 .. N
  <2>1. CASE p = 1
    BY <2>1 DEF Turned
  <2>2. CASE p # 1
    <3>1. p - 1 \in 1 .. N /\ g[p - 1] = p
      BY <2>2 DEF Turned
    <3> QED
      BY <3>1
  <2> QED
    BY <2>1, <2>2
<1>4. DOMAIN g = 1 .. N
  BY DEF Turned
<1> HIDE DEF g
<1> QED
  BY <1>1, <1>2, <1>3, <1>4 DEF Bijection, Injection, Surjection, IsInjective, g

\* The text is to be replaced, then the claims; the pieces are the claims, then the text.
AreTurned(utf8, replacements, gaps, olds, news, ids) ==
    /\ DOMAIN replacements = 1 .. Len(olds)
    /\ \A i \in 1 .. Len(olds) :
          LET turned == replacements[Turned(Len(olds))[i]]
          IN  /\ turned.previous.json = olds[i] /\ turned.next.json = news[i]
              /\ turned.next.identity = ids[i]
              /\ turned.previous.identity \in DOMAIN utf8.ranges =>
                    utf8.ranges[turned.previous.identity] =
                        RangeOf(Before(gaps, olds, i), olds[i])

\* The handle of the text with the new pieces.
IsHandle(utf8, text, ids, gaps, news) ==
    /\ utf8.text = text
    /\ utf8.bytes = encodeUtf8(text)
    /\ ArePromised(utf8.ranges, ids, gaps, news)

\* Each replacement, if it is found, is found where the piece stands.
LEMMA FoundReplacement ==
  ASSUME NEW utf8, NEW gaps, NEW olds, NEW news, NEW tail, NEW replacements, NEW ids,
         AreLayout(gaps, olds), isString(tail),
         utf8.text = UpTo(gaps, olds, Len(olds)) \o tail,
         AreTurned(utf8, replacements, gaps, olds, news, ids),
         NEW i \in 1 .. Len(olds),
         NEW found, found = readCanonicalReplacementRange(
                                utf8, replacements[Turned(Len(olds))[i]].previous,
                                replacements[Turned(Len(olds))[i]].next),
         found # Unpatched
  PROVE  /\ IsReplacement(found, Before(gaps, olds, i), olds[i], news[i])
         /\ found.nextIdentity = ids[i]
<1> DEFINE turned == replacements[Turned(Len(olds))[i]]
           x == Before(gaps, olds, i)
           previous == turned.previous
           next == turned.next
<1>1. /\ previous.json = olds[i] /\ next.json = news[i] /\ next.identity = ids[i]
      /\ previous.identity \in DOMAIN utf8.ranges =>
            utf8.ranges[previous.identity] = RangeOf(x, previous.json)
  BY DEF AreTurned
<1>2. isString(x) /\ isString(previous.json)
  <2>1. IsBefore(gaps, olds, i)
    BY BeforePieces
  <2> QED
    BY <1>1, <2>1 DEF IsBefore
<1>3. IsPlaced(utf8.text, x, previous.json)
  <2>1. IsPlaced(UpTo(gaps, olds, Len(olds)) \o tail, Before(gaps, olds, i), olds[i])
    BY PieceIsPlaced
  <2> QED
    BY <1>1, <2>1
<1>4. found = readCanonicalReplacementRange(utf8, previous, next)
  OBVIOUS
<1> HIDE DEF previous, next, x
<1>5. IsFound(found, x, previous, next)
  BY <1>1, <1>2, <1>3, <1>4, FoundRange
<1> QED
  BY <1>1, <1>5 DEF IsFound, IsReplacement, x

\* A patched payload is the next text, with the range of every new piece.
LEMMA PayloadIsPatched ==
  ASSUME NEW utf8, NEW gaps, NEW olds, NEW news, NEW tail, NEW replacements, NEW ids,
         AreLayout(gaps, olds), AreLayout(gaps, news), isString(tail),
         \A i \in 1 .. Len(olds) - 1 : Len(olds[i]) # 0,
         \A i, j \in 1 .. Len(olds) : ids[i] = ids[j] => i = j,
         utf8.text = UpTo(gaps, olds, Len(olds)) \o tail,
         utf8.bytes = encodeUtf8(utf8.text),
         AreTurned(utf8, replacements, gaps, olds, news, ids),
         patchCanonicalDocumentPayload(utf8, replacements) # Unpatched
  PROVE  IsHandle(patchCanonicalDocumentPayload(utf8, replacements),
                  UpTo(gaps, news, Len(news)) \o tail, ids, gaps, news)
<1> DEFINE N == Len(olds)
           g == Turned(N)
           found == [i \in DOMAIN replacements |->
                        readCanonicalReplacementRange(utf8, replacements[i].previous,
                                                      replacements[i].next)]
           ranges == [i \in 1 .. N |-> found[g[i]]]
           patched == patchTrustedCanonicalUtf8Text(utf8, ranges)
           made == patchCanonicalDocumentPayload(utf8, replacements)
<1>1. N \in Nat /\ Len(news) = N /\ DOMAIN replacements = 1 .. N
  BY PiecesAreStrings DEF AreLayout, AreTurned
<1>2. made # Unpatched /\ made = patchFound(utf8, found)
  BY DEF patchCanonicalDocumentPayload
<1> HIDE DEF made
<1>3. \A i \in 1 .. N : found[i] # Unpatched
  <2>1. Unpatched \notin Range(found)
    BY <1>2 DEF patchFound
  <2> QED
    BY <1>1, <2>1 DEF Range
<1>4. g \in Bijection(1 .. N, 1 .. N) /\ \A i \in 1 .. N : g[i] \in 1 .. N
  <2>1. g \in Bijection(1 .. N, 1 .. N)
    BY <1>1, TurnedIsBijection
  <2> HIDE DEF g
  <2> QED
    BY <2>1 DEF Bijection, Injection
<1>5. \A i \in 1 .. N : /\ IsReplacement(ranges[i], Before(gaps, olds, i), olds[i], news[i])
                        /\ ranges[i].nextIdentity = ids[i]
  <2> TAKE i \in 1 .. N
  <2> DEFINE r == found[g[i]]
  <2>1. g[i] \in DOMAIN replacements /\ r # Unpatched
    BY <1>1, <1>3, <1>4
  <2>2. r = readCanonicalReplacementRange(utf8, replacements[g[i]].previous,
                                          replacements[g[i]].next)
    BY <2>1
  <2>3. ranges[i] = r
    OBVIOUS
  <2> HIDE DEF r
  <2>4. /\ IsReplacement(r, Before(gaps, olds, i), olds[i], news[i])
        /\ r.nextIdentity = ids[i]
    BY <2>1, <2>2, FoundReplacement
  <2> HIDE DEF ranges
  <2> QED
    BY <2>3, <2>4
<1>6. sortedByStart(found) = ranges
  <2>1. DOMAIN found = 1 .. N
    BY <1>1
  <2>2. /\ \A i \in 1 .. N : Len(Before(gaps, olds, i)) \in Nat
        /\ \A i, j \in 1 .. N :
                i < j => Len(Before(gaps, olds, i)) < Len(Before(gaps, olds, j))
    BY BeforeGrows
  <2>3. \A i \in 1 .. N : found[g[i]].start = Len(Before(gaps, olds, i))
    <3> TAKE i \in 1 .. N
    <3>1. ranges[i] = found[g[i]]
      OBVIOUS
    <3> HIDE DEF ranges, found, g
    <3> QED
      BY <1>5, <3>1 DEF IsReplacement
  <2>4. \A p \in 1 .. N : \E i \in 1 .. N : g[i] = p
    <3> HIDE DEF g
    <3> QED
      BY <1>4 DEF Bijection, Surjection
  <2> HIDE DEF found, g
  <2>5. \A i \in 1 .. N : found[i].start \in Int
    BY <2>2, <2>3, <2>4
  <2>6. \A i, j \in 1 .. N : i < j => found[g[i]].start < found[g[j]].start
    BY <2>2, <2>3
  <2> HIDE DEF N
  <2>7. sortedByStart(found) = InOrder(found, g, N)
    BY <1>1, <1>4, <2>1, <2>5, <2>6, SortedAre
  <2> QED
    BY <2>7 DEF InOrder
<1>7. made = patchRanges(utf8, ranges)
  <2> HIDE DEF found, ranges
  <2> QED
    BY <1>2, <1>6 DEF patchFound
<1>8. made = withIdentityRanges(patched, ranges) /\ patched # Unpatched
  <2> HIDE DEF ranges
  <2>1. made = withIdentityRanges(patched, ranges)
    BY <1>2, <1>7 DEF patchRanges
  <2> HIDE DEF patched
  <2> QED
    BY <1>2, <2>1 DEF withIdentityRanges
<1>9. DOMAIN ranges = 1 .. N /\ Len(ranges) = N
  <2>1. DOMAIN ranges = 1 .. N
    OBVIOUS
  <2> QED
    BY <1>1, <2>1, LenOfFunction
<1> HIDE DEF ranges
<1>10. AreReplacedBy(ranges, gaps, olds, news)
  BY <1>5, <1>9 DEF AreReplacedBy
<1>11. IsPatchedText(patched, gaps, news, tail)
  BY <1>8, <1>10, PatchIsExact
<1> DEFINE promised == cacheNextCanonicalIdentityRanges(ranges, RangesOf(gaps, news))
<1>12. ArePromised(promised, ids, gaps, news)
  BY <1>5, <1>9, <1>10, NextPromises
<1> DEFINE text == UpTo(gaps, news, Len(news)) \o tail
<1>13. made = [patched.utf8 EXCEPT !.ranges = promised]
  <2> HIDE DEF patched
  <2> QED
    BY <1>8, <1>11 DEF withIdentityRanges, IsPatchedText
<1>14. patched.utf8 = [text |-> text, bytes |-> encodeUtf8(text),
                       trusted |-> Range(RangesOf(gaps, news)), ranges |-> <<>>]
  BY <1>11 DEF IsPatchedText
<1> HIDE DEF patched, text, promised
<1>15. made.text = text /\ made.bytes = encodeUtf8(text) /\ made.ranges = promised
  BY <1>13, <1>14
<1>16. IsHandle(made, text, ids, gaps, news)
  BY <1>12, <1>15 DEF IsHandle
<1> QED
  BY <1>16 DEF made, text

-----------------------------------------------------------------------------
(* The payload of a document, and that of the next. *)

\* The pieces that an Operation and its claims may replace: the claims, then a text.
TextGap(document, pre) == References(document) \o pre

Gaps(document, pre) ==
    LET m == Len(document.academicGraph.claims)
    IN  [i \in 1 .. m + 1 |-> IF i = m + 1 THEN TextGap(document, pre) ELSE <<>>]

Olds(document, t) ==
    LET claims == document.academicGraph.claims
    IN  [i \in 1 .. Len(claims) + 1 |->
            IF i = Len(claims) + 1
            THEN serializeTextNode(document.root[t])
            ELSE serializeClaim(claims[i])]

\* What is before a claim, and before a text.
BeforeClaim(document, i) == Joined(ClaimsJson(document.academicGraph.claims), i - 1)
BeforeText(document, pre) == Claims(document) \o TextGap(document, pre)

\* Where the pieces are, and what they make with what follows them.
IsLaidOut(document, t, pre, post) ==
    LET m == Len(document.academicGraph.claims)
        gaps == Gaps(document, pre)
        olds == Olds(document, t)
    IN  /\ AreLayout(gaps, olds) /\ Len(olds) = m + 1 /\ m \in Nat
        /\ \A i \in 1 .. m : Before(gaps, olds, i) = BeforeClaim(document, i)
        /\ Before(gaps, olds, m + 1) = BeforeText(document, pre)
        /\ createDocumentHashPayload(document) = UpTo(gaps, olds, m + 1) \o post

\* The payload of a document is its claims and one of its texts, with what lies between.
LEMMA DocumentIsLaidOut ==
  ASSUME NEW document, HasJson(document), NEW t \in DOMAIN document.root,
         document.root[t].type = "text",
         NEW pre, NEW post, IsContext(document.root, t, pre, post)
  PROVE  IsLaidOut(document, t, pre, post)
<1> DEFINE claims == document.academicGraph.claims
           m == Len(claims)
           gaps == Gaps(document, pre)
           olds == Olds(document, t)
           cj == ClaimsJson(claims)
           seqs == Pieces(gaps, olds)
           gap == TextGap(document, pre)
           text == serializeTextNode(document.root[t])
           c == Claims(document)
           r == References(document)
<1>1. /\ isString(claims) /\ m \in Nat /\ DOMAIN claims = 1 .. m
      /\ isString(pre) /\ isString(post)
  BY StringFacts DEF HasJson, IsContext
<1>2. AreStrings(cj) /\ Len(cj) = m /\ \A i \in 1 .. m : cj[i] = serializeClaim(claims[i])
  <2> HIDE DEF cj, claims
  <2>1. /\ AreStrings(cj) /\ Len(cj) = Len(claims)
        /\ \A i \in DOMAIN claims : cj[i] = serializeClaim(claims[i])
    BY <1>1, ClaimsAreStrings DEF cj
  <2> QED
    BY <1>1, <2>1
<1>3. /\ isString(c) /\ isString(r)
      /\ createDocumentHashPayload(document) = c \o (r \o serializeNode(document.root, 1))
  BY PayloadOfParts
<1>4. isString(gap)
  <2> HIDE DEF r
  <2>1. isString(r \o pre)
    BY <1>1, <1>3, ConcatIsString
  <2> QED
    BY <2>1 DEF TextGap, r
<1>5. isString(text)
  <2>1. isString(document.root[t].value)
    BY DEF HasJson, IsWritten, IsTree, IsNode
  <2> QED
    BY <2>1, TextNodeJson
<1>6. serializeNode(document.root, 1) = pre \o (text \o post)
  <2>1. DiffersAt(document.root, document.root, t)
    BY DEF DiffersAt, Alike, HasJson
  <2> QED
    BY <2>1 DEF IsContext
<1>7. /\ DOMAIN gaps = 1 .. m + 1 /\ gaps = [i \in 1 .. m + 1 |-> gaps[i]]
      /\ \A i \in 1 .. m : gaps[i] = <<>>
      /\ gaps[m + 1] = gap
  BY <1>1 DEF Gaps
<1>8. /\ DOMAIN olds = 1 .. m + 1 /\ olds = [i \in 1 .. m + 1 |-> olds[i]]
      /\ \A i \in 1 .. m : olds[i] = serializeClaim(claims[i])
      /\ olds[m + 1] = text
  BY <1>1 DEF Olds
<1> HIDE DEF gaps, olds, gap, text, c, r, cj, claims
<1>9. \A i \in 1 .. m + 1 : i \in 1 .. m \/ i = m + 1
  BY <1>1
<1>10. AreLayout(gaps, olds) /\ Len(olds) = m + 1
  <2>1. \A i \in 1 .. m + 1 : isString(gaps[i]) /\ isString(olds[i])
    BY <1>4, <1>5, <1>7, <1>8, <1>9, ClaimJson, EmptyString
  <2>2. Len(gaps) = m + 1 /\ isString(gaps) /\ Len(olds) = m + 1 /\ isString(olds)
    <3> DEFINE n == m + 1
    <3>1. n \in Nat /\ gaps = [i \in 1 .. n |-> gaps[i]] /\ olds = [i \in 1 .. n |-> olds[i]]
      BY <1>1, <1>7, <1>8
    <3> HIDE DEF n
    <3>2. Len(gaps) = n /\ isString(gaps) /\ Len(olds) = n /\ isString(olds)
      BY <3>1, LenOfFunction DEF isString
    <3> QED
      BY <3>2 DEF n
  <2> QED
    BY <1>7, <1>8, <2>1, <2>2 DEF AreLayout, AreStrings
<1>11. /\ AreStrings(seqs) /\ Len(seqs) = m + 1
       /\ \A i \in 1 .. m + 1 : seqs[i] = gaps[i] \o olds[i]
  <2>1. /\ AreStrings(seqs) /\ Len(seqs) = Len(olds)
        /\ \A i \in 1 .. Len(olds) : seqs[i] = gaps[i] \o olds[i]
    BY <1>10, PiecesAreStrings
  <2> HIDE DEF m, seqs
  <2> QED
    BY <1>10, <2>1
<1>12. \A i \in 1 .. m : seqs[i] = cj[i]
  <2> TAKE i \in 1 .. m
  <2>0. i \in 1 .. m + 1
    BY <1>1
  <2>1. isString(olds[i]) /\ olds[i] = cj[i] /\ gaps[i] = <<>>
    BY <1>2, <1>7, <1>8, ClaimJson
  <2>2. <<>> \o olds[i] = olds[i]
    BY <2>1, ConcatEmpty
  <2> QED
    BY <1>11, <2>0, <2>1, <2>2
<1>13. \A n \in 0 .. m : Joined(seqs, n) = Joined(cj, n)
  <2> TAKE n \in 0 .. m
  <2> HIDE DEF seqs
  <2>1. n \in 0 .. Len(seqs) /\ n <= Len(cj) /\ \A i \in 1 .. n : seqs[i] = cj[i]
    BY <1>1, <1>2, <1>11, <1>12
  <2> QED
    BY <1>2, <1>11, <2>1, JoinedAlike
<1>14. Joined(cj, m) = c
  <2>1. FlattenSeq(cj) = Joined(cj, Len(cj))
    BY <1>2, JoinedAll
  <2> QED
    BY <1>2, <2>1 DEF Claims, c, cj, claims
<1>15. \A i \in 1 .. m : Before(gaps, olds, i) = BeforeClaim(document, i)
  <2> TAKE i \in 1 .. m
  <2> DEFINE n == i - 1
             x == Joined(cj, n)
  <2>1. n \in 0 .. m
    BY <1>1
  <2> HIDE DEF n
  <2>2. Joined(seqs, n) = x
    BY <1>13, <2>1
  <2>3. isString(x)
    <3>1. n \in 0 .. Len(cj)
      BY <1>2, <2>1
    <3> QED
      BY <1>2, <3>1, JoinedString
  <2>4. gaps[i] = <<>>
    BY <1>7
  <2>5. x \o <<>> = x
    <3> HIDE DEF x
    <3> QED
      BY <2>3, ConcatEmpty
  <2> QED
    BY <2>2, <2>4, <2>5 DEF Before, BeforeClaim, n, cj, claims
<1>16. Before(gaps, olds, m + 1) = BeforeText(document, pre)
  <2>1. Joined(seqs, m) = c
    BY <1>1, <1>13, <1>14
  <2>2. (m + 1) - 1 = m
    BY <1>1
  <2>3. Joined(seqs, (m + 1) - 1) = c
    BY <2>1, <2>2
  <2> QED
    BY <1>7, <2>3 DEF Before, BeforeText, c, gap
<1>17. createDocumentHashPayload(document) = UpTo(gaps, olds, m + 1) \o post
  <2>1. UpTo(gaps, olds, m + 1) = (c \o gap) \o text
    <3> DEFINE k == m + 1
    <3>1. k \in 1 .. Len(olds) /\ olds[k] = text
      BY <1>1, <1>8, <1>10
    <3>2. Before(gaps, olds, k) = c \o gap
      BY <1>16 DEF BeforeText, c, gap
    <3> HIDE DEF k
    <3>3. IsBefore(gaps, olds, k)
      BY <1>10, <3>1, BeforePieces
    <3>4. UpTo(gaps, olds, k) = (c \o gap) \o text
      BY <3>1, <3>2, <3>3 DEF IsBefore
    <3> QED
      BY <3>4 DEF k
  <2> DEFINE tp == text \o post
             cg == c \o gap
             ptp == pre \o tp
  <2>2. gap = r \o pre
    BY DEF TextGap, gap, r
  <2>3. isString(tp) /\ isString(cg)
    BY <1>1, <1>3, <1>4, <1>5, ConcatIsString
  <2>4. (cg \o text) \o post = cg \o (text \o post)
    <3> HIDE DEF cg
    <3> QED
      <4>1. IsAssociative(cg, text, post)
        BY <1>1, <1>5, <2>3, ConcatsAssociate
      <4> QED
        BY <4>1 DEF IsAssociative
  <2>5. (c \o gap) \o tp = c \o (gap \o tp)
    <3> HIDE DEF tp
    <3> QED
      <4>1. IsAssociative(c, gap, tp)
        BY <1>3, <1>4, <2>3, ConcatsAssociate
      <4> QED
        BY <4>1 DEF IsAssociative
  <2>6. (r \o pre) \o tp = r \o (pre \o tp)
    <3> HIDE DEF tp
    <3> QED
      <4>1. IsAssociative(r, pre, tp)
        BY <1>1, <1>3, <2>3, ConcatsAssociate
      <4> QED
        BY <4>1 DEF IsAssociative
  <2>7. createDocumentHashPayload(document) = c \o (r \o ptp)
    BY <1>3, <1>6
  <2>8. c \o (r \o ptp) = c \o (gap \o tp)
    BY <2>2, <2>6
  <2> QED
    BY <2>1, <2>4, <2>5, <2>7, <2>8
<1>18. m \in Nat
  BY <1>1
<1> HIDE DEF m
<1> QED
  BY <1>10, <1>15, <1>16, <1>17, <1>18 DEF IsLaidOut, gaps, olds, m, claims

\* A context of a text is one of whatever replaces it.
LEMMA ContextStays ==
  ASSUME NEW tree, IsWritten(tree), NEW t, NEW next, DiffersAt(tree, next, t),
         NEW pre, NEW post, IsContext(tree, t, pre, post)
  PROVE  IsContext(next, t, pre, post)
<1>1. ASSUME NEW other, DiffersAt(next, other, t)
      PROVE  DiffersAt(tree, other, t)
  <2>1. ASSUME NEW p \in DOMAIN tree \ {t}
        PROVE  Alike(other[p], tree[p])
    <3>1. Alike(next[p], tree[p]) /\ Alike(other[p], next[p])
      BY <1>1, <2>1 DEF DiffersAt
    <3> QED
      BY <3>1 DEF Alike
  <2> QED
    BY <1>1, <2>1 DEF DiffersAt
<1> QED
  BY <1>1 DEF IsContext

-----------------------------------------------------------------------------
(* The handle of the next document. *)

ClaimIdentity(claim) == Fragment(claim, serializeClaim(claim)).identity
TextIdentity(node) == Fragment(node, serializeTextNode(node)).identity

\* An identity tells a claim from a text, and names it.
LEMMA ClaimIdentityIs ==
  ASSUME NEW claim
  PROVE  ClaimIdentity(claim) = <<"<", claim.id, claim.stamp>>
BY ClaimJson DEF ClaimIdentity, Fragment

\* A Text Node is identified by itself, as its object is in the code.
LEMMA TextIdentityIs ==
  ASSUME NEW node, isString(node.value)
  PROVE  TextIdentity(node) = <<"{", node.id, node.stamp>>
BY TextJson DEF TextIdentity, Fragment

\* Each promised range holds the object it is promised for.
RangesFit(ranges, document) ==
    LET claims == document.academicGraph.claims
        tree == document.root
    IN  /\ \A i \in 1 .. Len(claims) :
              ClaimIdentity(claims[i]) \in DOMAIN ranges =>
                  ranges[ClaimIdentity(claims[i])] =
                      RangeOf(BeforeClaim(document, i), serializeClaim(claims[i]))
        /\ \A t \in DOMAIN tree :
              tree[t].type = "text" /\ TextIdentity(tree[t]) \in DOMAIN ranges =>
                  \E pre, post :
                      /\ IsContext(tree, t, pre, post)
                      /\ ranges[TextIdentity(tree[t])] =
                            RangeOf(BeforeText(document, pre), serializeTextNode(tree[t]))

\* The handle holds the payload of the document, its bytes, and promises that are kept.
IsHandleOf(utf8, document) ==
    /\ utf8.text = createDocumentHashPayload(document)
    /\ utf8.bytes = encodeUtf8(utf8.text)
    /\ RangesFit(utf8.ranges, document)

\* The claims have IDs of their own.
ClaimsHaveIds(document) ==
    LET claims == document.academicGraph.claims
    IN  \A i, j \in 1 .. Len(claims) : claims[i].id = claims[j].id => i = j

\* A document that differs from another in one text and in its claims.
IsNextDocument(document, next, t) ==
    /\ HasJson(document) /\ HasJson(next)
    /\ DiffersAt(document.root, next.root, t)
    /\ next.academicGraph.referenceSnapshots = document.academicGraph.referenceSnapshots
    /\ Len(next.academicGraph.claims) = Len(document.academicGraph.claims)
    /\ ClaimsHaveIds(next)

\* A fresh handle promises nothing.
LEMMA FreshHandle ==
  ASSUME NEW document
  PROVE  IsHandleOf(createTrustedCanonicalUtf8Text(createDocumentHashPayload(document)), document)
<1> DEFINE utf8 == createTrustedCanonicalUtf8Text(createDocumentHashPayload(document))
<1>1. /\ utf8.text = createDocumentHashPayload(document)
      /\ utf8.bytes = encodeUtf8(utf8.text) /\ utf8.ranges = <<>>
  BY DEF createTrustedCanonicalUtf8Text
<1>2. DOMAIN utf8.ranges = {}
  BY <1>1
<1> HIDE DEF utf8
<1>3. RangesFit(utf8.ranges, document)
  BY <1>2 DEF RangesFit
<1> QED
  BY <1>1, <1>3 DEF IsHandleOf, utf8

\* The identities of what replaces the pieces.
NextIds(next, t) ==
    LET claims == next.academicGraph.claims
    IN  [i \in 1 .. Len(claims) + 1 |->
            IF i = Len(claims) + 1 THEN TextIdentity(next.root[t]) ELSE ClaimIdentity(claims[i])]

\* They name one piece each.
LEMMA NextIdsDiffer ==
  ASSUME NEW next, HasJson(next), ClaimsHaveIds(next), NEW t \in DOMAIN next.root,
         next.root[t].type = "text"
  PROVE  \A i, j \in 1 .. Len(next.academicGraph.claims) + 1 :
            NextIds(next, t)[i] = NextIds(next, t)[j] => i = j
<1> DEFINE claims == next.academicGraph.claims
           m == Len(claims)
           ids == NextIds(next, t)
           node == next.root[t]
<1>1. m \in Nat
  BY StringFacts DEF HasJson
<1>2. ids[m + 1] = <<"{", node.id, node.stamp>>
  <2>1. isString(node.value)
    BY DEF HasJson, IsWritten, IsTree, IsNode
  <2>2. ids[m + 1] = TextIdentity(node)
    BY <1>1 DEF NextIds
  <2> HIDE DEF ids, node
  <2> QED
    BY <2>1, <2>2, TextIdentityIs
<1>3. \A i \in 1 .. m : ids[i] = <<"<", claims[i].id, claims[i].stamp>>
  <2> TAKE i \in 1 .. m
  <2>1. ids[i] = ClaimIdentity(claims[i])
    BY <1>1 DEF NextIds
  <2> QED
    BY <2>1, ClaimIdentityIs
<1>4. \A i, j \in 1 .. m : claims[i].id = claims[j].id => i = j
  BY DEF ClaimsHaveIds
<1> HIDE DEF ids, node, claims
<1>5. \A i \in 1 .. m + 1 : i \in 1 .. m \/ i = m + 1
  BY <1>1
<1> HIDE DEF m
<1>6. ASSUME NEW i \in 1 .. m, NEW j \in 1 .. m, ids[i] = ids[j]
      PROVE  i = j
  BY <1>3, <1>4, <1>6
<1>7. ASSUME NEW i \in 1 .. m
      PROVE  ids[i] # ids[m + 1]
  <2> DEFINE brace == "{"
  <2>1. ids[i][1] = "<"
    BY <1>3
  <2>2. ids[m + 1] = <<brace, node.id, node.stamp>>
    BY <1>2
  <2>3. brace # "<"
    BY Zenon
  <2> HIDE DEF brace
  <2>4. ids[m + 1][1] = brace
    BY <2>2
  <2> QED
    BY <2>1, <2>3, <2>4
<1>8. \A i, j \in 1 .. m + 1 : ids[i] = ids[j] => i = j
  BY <1>5, <1>6, <1>7
<1> QED
  BY <1>8 DEF ids, m, claims

\* What is replaced is the text and each claim, in this order.
AreAll(all, before, after, claims, nextClaims) ==
    /\ DOMAIN all = 1 .. Len(claims) + 1
    /\ all[1] = [previous |-> Fragment(before, serializeTextNode(before)),
                 next |-> Fragment(after, serializeTextNode(after))]
    /\ \A i \in 1 .. Len(claims) :
          all[i + 1] = [previous |-> Fragment(claims[i], serializeClaim(claims[i])),
                        next |-> Fragment(nextClaims[i], serializeClaim(nextClaims[i]))]

\* The replacements are the changed Text Node and the claims that moved.
LEMMA ReplacementsAre ==
  ASSUME NEW next, NEW application, NEW claims, isString(claims)
  PROVE  AreAll(replacementsOf(next, application, claims), application.previousTextNode,
                Head(application.updatedNodes), claims, next.academicGraph.claims)
<1> DEFINE all == replacementsOf(next, application, claims)
           before == application.previousTextNode
           after == Head(application.updatedNodes)
           nextClaims == next.academicGraph.claims
           first == [previous |-> Fragment(before, serializeTextNode(before)),
                     next |-> Fragment(after, serializeTextNode(after))]
           Each(i) == [previous |-> Fragment(claims[i], serializeClaim(claims[i])),
                       next |-> Fragment(nextClaims[i], serializeClaim(nextClaims[i]))]
           rest == [i \in DOMAIN claims |-> Each(i)]
           one == <<first>>
           m == Len(claims)
<1>1. all = one \o rest
  BY DEF replacementsOf
<1>2. m \in Nat /\ DOMAIN claims = 1 .. m
  BY StringFacts
<1> HIDE DEF all, first, Each
<1>3. \A i \in 1 .. m : rest[i] = Each(i)
  BY <1>2
<1>4. isString(rest) /\ Len(rest) = m
  <2>1. rest = [i \in 1 .. m |-> rest[i]]
    BY <1>2
  <2> HIDE DEF rest, m
  <2> QED
    BY <1>2, <2>1, LenOfFunction DEF isString
<1>5. isString(one) /\ Len(one) = 1 /\ one[1] = first
  BY ShortStrings
<1> HIDE DEF rest, one
<1>6. IsConcat(one \o rest, one, rest)
  BY <1>4, <1>5, ConcatString
<1>7. isString(all) /\ Len(all) = 1 + m
  BY <1>1, <1>4, <1>5, <1>6 DEF IsConcat
<1>8. DOMAIN all = 1 .. m + 1
  <2>1. DOMAIN all = 1 .. Len(all)
    BY <1>7, StringFacts
  <2>2. 1 + m = m + 1
    BY <1>2
  <2> QED
    BY <1>7, <2>1, <2>2
<1>9. all[1] = first
  <2>1. 1 \in 1 .. Len(one)
    BY <1>5
  <2> QED
    BY <1>1, <1>5, <1>6, <2>1 DEF IsConcat
<1>10. \A i \in 1 .. m : all[i + 1] = Each(i)
  <2> TAKE i \in 1 .. m
  <2>1. all[1 + i] = rest[i]
    BY <1>1, <1>4, <1>5, <1>6 DEF IsConcat
  <2>2. 1 + i = i + 1
    BY <1>2
  <2> QED
    BY <1>3, <2>1, <2>2
<1>11. AreAll(all, before, after, claims, nextClaims)
  BY <1>8, <1>9, <1>10 DEF AreAll, first, Each
<1> QED
  BY <1>11 DEF all

\* The pieces are found where the promises or the layout have them.
LEMMA PiecesAreTurned ==
  ASSUME NEW document, NEW next, NEW t, IsNextDocument(document, next, t),
         NEW ranges, RangesFit(ranges, document),
         NEW utf8, utf8.ranges = ranges, NEW application,
         application.previousTextNode = document.root[t],
         Head(application.updatedNodes) = next.root[t],
         NEW pre, NEW post, IsLaidOut(document, t, pre, post),
         TextIdentity(document.root[t]) \in DOMAIN ranges =>
            ranges[TextIdentity(document.root[t])] =
                RangeOf(BeforeText(document, pre), serializeTextNode(document.root[t]))
  PROVE  AreTurned(utf8, replacementsOf(next, application, document.academicGraph.claims),
                   Gaps(document, pre), Olds(document, t), Olds(next, t), NextIds(next, t))
<1> DEFINE claims == document.academicGraph.claims
           nextClaims == next.academicGraph.claims
           m == Len(claims)
           gaps == Gaps(document, pre)
           olds == Olds(document, t)
           news == Olds(next, t)
           ids == NextIds(next, t)
           all == replacementsOf(next, application, claims)
           before == document.root[t]
           after == next.root[t]
<1>1. m \in Nat /\ isString(claims) /\ Len(nextClaims) = m
  BY StringFacts DEF IsNextDocument, HasJson
<1>2. /\ DOMAIN all = 1 .. m + 1
      /\ all[1] = [previous |-> Fragment(before, serializeTextNode(before)),
                   next |-> Fragment(after, serializeTextNode(after))]
      /\ \A i \in 1 .. m :
            all[i + 1] = [previous |-> Fragment(claims[i], serializeClaim(claims[i])),
                          next |-> Fragment(nextClaims[i], serializeClaim(nextClaims[i]))]
  <2>1. AreAll(replacementsOf(next, application, claims), application.previousTextNode,
               Head(application.updatedNodes), claims, next.academicGraph.claims)
    BY <1>1, ReplacementsAre
  <2>2. AreAll(all, before, after, claims, nextClaims)
    BY <2>1
  <2> HIDE DEF all, before, after, claims, nextClaims
  <2> QED
    BY <2>2 DEF AreAll
<1>3. /\ \A i \in 1 .. m : olds[i] = serializeClaim(claims[i])
      /\ olds[m + 1] = serializeTextNode(before)
      /\ \A i \in 1 .. m : news[i] = serializeClaim(nextClaims[i])
      /\ news[m + 1] = serializeTextNode(after)
      /\ \A i \in 1 .. m : ids[i] = ClaimIdentity(nextClaims[i])
      /\ ids[m + 1] = TextIdentity(after)
  BY <1>1 DEF Olds, NextIds
<1>4. /\ Len(olds) = m + 1
      /\ \A i \in 1 .. m : Before(gaps, olds, i) = BeforeClaim(document, i)
      /\ Before(gaps, olds, m + 1) = BeforeText(document, pre)
  BY DEF IsLaidOut
<1>5. \A i \in 1 .. m : ClaimIdentity(claims[i]) \in DOMAIN ranges =>
            ranges[ClaimIdentity(claims[i])] =
                RangeOf(BeforeClaim(document, i), serializeClaim(claims[i]))
  BY DEF RangesFit
<1> HIDE DEF all, olds, news, ids, gaps
<1>6. ASSUME NEW i \in 1 .. m + 1
      PROVE  LET turned == all[Turned(m + 1)[i]]
             IN  /\ turned.previous.json = olds[i] /\ turned.next.json = news[i]
                 /\ turned.next.identity = ids[i]
                 /\ turned.previous.identity \in DOMAIN ranges =>
                       ranges[turned.previous.identity] = RangeOf(Before(gaps, olds, i), olds[i])
  <2>1. CASE i = m + 1
    <3>1. Turned(m + 1)[i] = 1
      BY <2>1 DEF Turned
    <3>2. /\ all[1].previous.json = olds[i] /\ all[1].next.json = news[i]
          /\ all[1].next.identity = ids[i] /\ all[1].previous.identity = TextIdentity(before)
      BY <1>2, <1>3, <2>1 DEF Fragment, TextIdentity
    <3>3. Before(gaps, olds, i) = BeforeText(document, pre) /\ olds[i] = serializeTextNode(before)
      BY <1>3, <1>4, <2>1
    <3> QED
      BY <3>1, <3>2, <3>3
  <2>2. CASE i # m + 1
    <3>1. i \in 1 .. m /\ Turned(m + 1)[i] = i + 1
      BY <1>1, <2>2 DEF Turned
    <3>2. /\ all[i + 1].previous.json = olds[i] /\ all[i + 1].next.json = news[i]
          /\ all[i + 1].next.identity = ids[i]
          /\ all[i + 1].previous.identity = ClaimIdentity(claims[i])
      <4> DEFINE old == Fragment(claims[i], serializeClaim(claims[i]))
                 new == Fragment(nextClaims[i], serializeClaim(nextClaims[i]))
      <4>1. all[i + 1] = [previous |-> old, next |-> new]
        BY <1>2, <3>1
      <4>2. /\ old.json = serializeClaim(claims[i]) /\ new.json = serializeClaim(nextClaims[i])
            /\ new.identity = ClaimIdentity(nextClaims[i])
            /\ old.identity = ClaimIdentity(claims[i])
        BY DEF Fragment, ClaimIdentity
      <4> HIDE DEF old, new
      <4>3. all[i + 1].previous = old /\ all[i + 1].next = new
        BY <4>1
      <4>4. /\ olds[i] = serializeClaim(claims[i]) /\ news[i] = serializeClaim(nextClaims[i])
            /\ ids[i] = ClaimIdentity(nextClaims[i])
        BY <1>3, <3>1
      <4> QED
        BY <4>2, <4>3, <4>4
    <3>3. Before(gaps, olds, i) = BeforeClaim(document, i) /\ olds[i] = serializeClaim(claims[i])
      BY <1>3, <1>4, <3>1
    <3> QED
      BY <1>5, <3>1, <3>2, <3>3
  <2> QED
    BY <2>1, <2>2
<1> HIDE DEF m
<1>7. AreTurned(utf8, all, gaps, olds, news, ids)
  BY <1>2, <1>4, <1>6 DEF AreTurned
<1> QED
  BY <1>7 DEF all, gaps, olds, news, ids

\* The promised ranges of the next handle hold what they are promised for.
LEMMA PromisesFit ==
  ASSUME NEW next, HasJson(next), ClaimsHaveIds(next), NEW t \in DOMAIN next.root,
         next.root[t].type = "text",
         NEW pre, NEW post, IsContext(next.root, t, pre, post), IsLaidOut(next, t, pre, post),
         NEW ranges, ArePromised(ranges, NextIds(next, t), Gaps(next, pre), Olds(next, t))
  PROVE  RangesFit(ranges, next)
<1> DEFINE claims == next.academicGraph.claims
           tree == next.root
           m == Len(claims)
           ids == NextIds(next, t)
           gaps == Gaps(next, pre)
           news == Olds(next, t)
<1>1. m \in Nat
  BY StringFacts DEF HasJson
<1>2. /\ \A i \in 1 .. m : news[i] = serializeClaim(claims[i])
      /\ news[m + 1] = serializeTextNode(tree[t])
      /\ \A i \in 1 .. m : ids[i] = ClaimIdentity(claims[i])
      /\ ids[m + 1] = TextIdentity(tree[t])
  BY <1>1 DEF Olds, NextIds
<1>3. /\ Len(news) = m + 1
      /\ \A i \in 1 .. m : Before(gaps, news, i) = BeforeClaim(next, i)
      /\ Before(gaps, news, m + 1) = BeforeText(next, pre)
  BY DEF IsLaidOut
<1>4. /\ DOMAIN ranges = {ids[i] : i \in 1 .. m + 1}
      /\ \A i \in 1 .. m + 1 : ranges[ids[i]] = RangeOf(Before(gaps, news, i), news[i])
  BY <1>3 DEF ArePromised
<1>5. \A i, j \in 1 .. m + 1 : ids[i] = ids[j] => i = j
  BY NextIdsDiffer
<1>6. \A p, q \in DOMAIN tree : tree[p].id = tree[q].id => p = q
  BY DEF HasJson, IsWritten, IsTree
<1>7. \A p \in DOMAIN tree : tree[p].type = "text" =>
            TextIdentity(tree[p]) = <<"{", tree[p].id, tree[p].stamp>>
  BY TextIdentityIs DEF HasJson, IsWritten, IsTree, IsNode
<1>8. \A i \in 1 .. m : ClaimIdentity(claims[i]) = <<"<", claims[i].id, claims[i].stamp>>
  BY ClaimIdentityIs
<1> HIDE DEF ids, gaps, news
<1>9. \A i \in 1 .. m : ranges[ClaimIdentity(claims[i])] =
                            RangeOf(BeforeClaim(next, i), serializeClaim(claims[i]))
  <2> TAKE i \in 1 .. m
  <2>1. i \in 1 .. m + 1
    BY <1>1
  <2> QED
    BY <1>2, <1>3, <1>4, <2>1
<1>10. ranges[TextIdentity(tree[t])] =
            RangeOf(BeforeText(next, pre), serializeTextNode(tree[t]))
  <2>1. m + 1 \in 1 .. m + 1
    BY <1>1
  <2> QED
    BY <1>2, <1>3, <1>4, <2>1
<1>11. ASSUME NEW u \in DOMAIN tree, tree[u].type = "text",
              TextIdentity(tree[u]) \in DOMAIN ranges
       PROVE  u = t
  <2> DEFINE brace == "{"
  <2>1. PICK i \in 1 .. m + 1 : TextIdentity(tree[u]) = ids[i]
    BY <1>4, <1>11
  <2>2. TextIdentity(tree[u]) = <<brace, tree[u].id, tree[u].stamp>>
    BY <1>7, <1>11
  <2>3. TextIdentity(tree[t]) = <<brace, tree[t].id, tree[t].stamp>>
    BY <1>7
  <2>4. brace # "<"
    BY Zenon
  <2> HIDE DEF brace, tree
  <2>5. i = m + 1
    <3>1. ASSUME i \in 1 .. m
          PROVE  FALSE
      <4>1. TextIdentity(tree[u]) = <<"<", claims[i].id, claims[i].stamp>>
        BY <1>2, <1>8, <2>1, <3>1
      <4>2. TextIdentity(tree[u])[1] = "<" /\ TextIdentity(tree[u])[1] = brace
        BY <2>2, <4>1
      <4> QED
        BY <2>4, <4>2
    <3> QED
      BY <1>1, <3>1
  <2>6. TextIdentity(tree[u]) = TextIdentity(tree[t])
    BY <1>2, <2>1, <2>5
  <2>7. TextIdentity(tree[u])[2] = tree[u].id /\ TextIdentity(tree[t])[2] = tree[t].id
    BY <2>2, <2>3
  <2>8. tree[u].id = tree[t].id
    BY <2>6, <2>7
  <2> QED
    BY <1>6, <2>8 DEF tree
<1>12. ASSUME NEW u \in DOMAIN tree, tree[u].type = "text",
              TextIdentity(tree[u]) \in DOMAIN ranges
       PROVE  \E p, q : /\ IsContext(tree, u, p, q)
                        /\ ranges[TextIdentity(tree[u])] =
                              RangeOf(BeforeText(next, p), serializeTextNode(tree[u]))
  <2>1. u = t
    BY <1>11, <1>12
  <2>2. IsContext(tree, u, pre, post)
    BY <2>1
  <2>3. ranges[TextIdentity(tree[u])] =
            RangeOf(BeforeText(next, pre), serializeTextNode(tree[u]))
    BY <1>10, <2>1
  <2> QED
    BY <2>2, <2>3
<1> QED
  BY <1>9, <1>12 DEF RangesFit

\* The patched handle is that of the next document.
LEMMA HandleOfNext ==
  ASSUME NEW document, NEW next, NEW t, IsNextDocument(document, next, t),
         NEW utf8, IsHandleOf(utf8, document), NEW application,
         application.previousTextNode = document.root[t],
         Head(application.updatedNodes) = next.root[t],
         NEW patched,
         patched = patchCanonicalDocumentPayload(
                        utf8, replacementsOf(next, application, document.academicGraph.claims)),
         patched # Unpatched
  PROVE  IsHandleOf(patched, next)
<1> DEFINE tree == document.root
           ranges == utf8.ranges
           all == replacementsOf(next, application, document.academicGraph.claims)
<1>1. /\ IsWritten(tree) /\ t \in DOMAIN tree /\ tree[t].type = "text"
      /\ t \in DOMAIN next.root /\ next.root[t].type = "text"
      /\ DiffersAt(tree, next.root, t) /\ HasJson(document) /\ HasJson(next)
      /\ ClaimsHaveIds(next)
      /\ next.academicGraph.referenceSnapshots = document.academicGraph.referenceSnapshots
      /\ Len(next.academicGraph.claims) = Len(document.academicGraph.claims)
  BY DEF IsNextDocument, DiffersAt, HasJson
<1>2. RangesFit(ranges, document)
  BY DEF IsHandleOf
<1> HIDE DEF tree, ranges
<1>3. PICK pre, post :
        /\ IsContext(tree, t, pre, post)
        /\ TextIdentity(tree[t]) \in DOMAIN ranges =>
              ranges[TextIdentity(tree[t])] =
                  RangeOf(BeforeText(document, pre), serializeTextNode(tree[t]))
  <2>1. CASE TextIdentity(tree[t]) \in DOMAIN ranges
    BY <1>1, <1>2, <2>1 DEF RangesFit, tree
  <2>2. CASE TextIdentity(tree[t]) \notin DOMAIN ranges
    <3>1. \E pre, post : IsContext(tree, t, pre, post)
      BY <1>1, TextHasContext
    <3> QED
      BY <2>2, <3>1
  <2> QED
    BY <2>1, <2>2
<1>4. IsContext(next.root, t, pre, post)
  BY <1>1, <1>3, ContextStays
<1>5. IsLaidOut(document, t, pre, post)
  BY <1>1, <1>3, DocumentIsLaidOut DEF tree
<1>6. IsLaidOut(next, t, pre, post)
  BY <1>1, <1>4, DocumentIsLaidOut
<1> DEFINE gaps == Gaps(document, pre)
           olds == Olds(document, t)
           news == Olds(next, t)
           ids == NextIds(next, t)
           m == Len(document.academicGraph.claims)
<1>7. Gaps(next, pre) = gaps
  BY <1>1 DEF Gaps, TextGap, References, ReferencesJson
<1>8. /\ AreLayout(gaps, olds) /\ AreLayout(gaps, news)
      /\ Len(olds) = m + 1 /\ Len(news) = m + 1 /\ m \in Nat
      /\ createDocumentHashPayload(document) = UpTo(gaps, olds, m + 1) \o post
      /\ createDocumentHashPayload(next) = UpTo(gaps, news, m + 1) \o post
  BY <1>1, <1>5, <1>6, <1>7 DEF IsLaidOut
<1>9. AreTurned(utf8, all, gaps, olds, news, ids)
  <2>1. application.previousTextNode = tree[t] /\ utf8.ranges = ranges
    BY DEF tree, ranges
  <2> QED
    BY <1>2, <1>3, <1>5, <2>1, PiecesAreTurned DEF tree
<1>10. \A i \in 1 .. Len(olds) - 1 : Len(olds[i]) # 0
  <2> TAKE i \in 1 .. Len(olds) - 1
  <2>1. i \in 1 .. m
    BY <1>8
  <2>2. olds[i] = serializeClaim(document.academicGraph.claims[i])
    BY <1>8, <2>1 DEF Olds
  <2> QED
    BY <2>2, ClaimJson
<1>11. \A i, j \in 1 .. Len(olds) : ids[i] = ids[j] => i = j
  <2>1. \A i, j \in 1 .. Len(next.academicGraph.claims) + 1 : ids[i] = ids[j] => i = j
    BY <1>1, NextIdsDiffer
  <2> QED
    BY <1>1, <1>8, <2>1
<1>12. isString(post)
  BY <1>3 DEF IsContext
<1>13. /\ utf8.text = UpTo(gaps, olds, Len(olds)) \o post
       /\ utf8.bytes = encodeUtf8(utf8.text)
  BY <1>8 DEF IsHandleOf
<1>14. patchCanonicalDocumentPayload(utf8, all) # Unpatched
  OBVIOUS
<1>15. patched = patchCanonicalDocumentPayload(utf8, all)
  OBVIOUS
<1> HIDE DEF gaps, olds, news, ids, all
<1>16. IsHandle(patchCanonicalDocumentPayload(utf8, all),
                UpTo(gaps, news, Len(news)) \o post, ids, gaps, news)
  BY <1>8, <1>9, <1>10, <1>11, <1>12, <1>13, <1>14, PayloadIsPatched
<1>17. /\ patched.text = createDocumentHashPayload(next)
       /\ patched.bytes = encodeUtf8(patched.text)
       /\ ArePromised(patched.ranges, ids, gaps, news)
  BY <1>8, <1>15, <1>16 DEF IsHandle
<1>18. RangesFit(patched.ranges, next)
  <2>1. ArePromised(patched.ranges, NextIds(next, t), Gaps(next, pre), Olds(next, t))
    BY <1>7, <1>17 DEF ids, news
  <2> DEFINE r == patched.ranges
  <2>2. ArePromised(r, NextIds(next, t), Gaps(next, pre), Olds(next, t))
    BY <2>1
  <2> HIDE DEF r
  <2>3. RangesFit(r, next)
    BY <1>1, <1>4, <1>6, <2>2, PromisesFit
  <2> QED
    BY <2>3 DEF r
<1> QED
  BY <1>17, <1>18 DEF IsHandleOf

-----------------------------------------------------------------------------
(* What is carried from a tree to the next one. *)

\* A node that is carried on has the same children.
LEMMA CarriedChildren ==
  ASSUME NEW node, IsNode(node), NEW new, IsNode(new), IsCarried(node, new)
  PROVE  childrenOf(new) = childrenOf(node)
<1>1. CASE node.type = "text"
  BY <1>1 DEF IsCarried, IsNode
<1>2. CASE node.type # "text"
  <2>1. DOMAIN new = DOMAIN node
        /\ ("children" \in DOMAIN node => new.children = node.children)
    BY <1>2 DEF IsCarried
  <2> QED
    BY <2>1 DEF childrenOf, Has
<1> QED
  BY <1>1, <1>2

\* A tree whose Text Nodes alone change keeps its shape.
LEMMA CarriedTree ==
  ASSUME NEW tree, IsTree(tree), NEW next, TreeIsCarried(tree, next), NEW p \in DOMAIN tree
  PROVE  /\ childrenOf(next[p]) = childrenOf(tree[p])
         /\ next[p].id = tree[p].id /\ next[p].type = tree[p].type
<1>1. /\ IsNode(tree[p]) /\ IsNode(next[p])
      /\ IsCarried(tree[p], next[p])
  BY DEF IsTree, TreeIsCarried
<1> QED
  BY <1>1, CarriedChildren DEF IsCarried

\* A tree that is carried on is written down in the same order.
LEMMA CarriedIsWritten ==
  ASSUME NEW tree, IsWritten(tree), NEW next, TreeIsCarried(tree, next)
  PROVE  IsWritten(next)
<1> DEFINE C(p) == childrenOf(tree[p])
           D(p) == childrenOf(next[p])
<1>1. IsTree(tree) /\ IsTree(next) /\ DOMAIN next = DOMAIN tree
  BY DEF IsWritten, TreeIsCarried
<1>2. \A p \in DOMAIN tree : D(p) = C(p)
  BY <1>1, CarriedTree
<1>3. Len(next) = Len(tree)
  <2>1. DOMAIN tree = 1 .. Len(tree) /\ DOMAIN next = 1 .. Len(next)
        /\ Len(tree) \in Nat /\ Len(next) \in Nat
    BY <1>1, LenProperties DEF IsTree
  <2> QED
    BY <1>1, <2>1, SameBound
<1>4. /\ \A p \in DOMAIN tree : C(p) \in Seq(p + 1 .. Len(tree))
      /\ \A c \in 2 .. Len(tree) : \E p \in DOMAIN tree : c \in Range(C(p))
      /\ \A p, q \in DOMAIN tree :
            \A i \in DOMAIN C(p), j \in DOMAIN C(q) : C(p)[i] = C(q)[j] => p = q /\ i = j
  BY DEF IsWritten, IsWrittenInOrder
<1> HIDE DEF C, D
<1>5. /\ \A p \in DOMAIN next : D(p) \in Seq(p + 1 .. Len(next))
      /\ \A c \in 2 .. Len(next) : \E p \in DOMAIN next : c \in Range(D(p))
      /\ \A p, q \in DOMAIN next :
            \A i \in DOMAIN D(p), j \in DOMAIN D(q) : D(p)[i] = D(q)[j] => p = q /\ i = j
  <2>1. \A p \in DOMAIN next : D(p) \in Seq(p + 1 .. Len(next))
    BY <1>1, <1>2, <1>3, <1>4
  <2>2. ASSUME NEW c \in 2 .. Len(next)
        PROVE  \E p \in DOMAIN next : c \in Range(D(p))
    <3>1. PICK p \in DOMAIN tree : c \in Range(C(p))
      BY <1>3, <1>4
    <3> QED
      BY <1>1, <1>2, <3>1
  <2>3. ASSUME NEW p \in DOMAIN next, NEW q \in DOMAIN next,
               NEW i \in DOMAIN D(p), NEW j \in DOMAIN D(q), D(p)[i] = D(q)[j]
        PROVE  p = q /\ i = j
    BY <1>1, <1>2, <1>4, <2>3
  <2> QED
    BY <2>1, <2>2, <2>3
<1> QED
  BY <1>1, <1>5 DEF IsWritten, IsWrittenInOrder, D

\* Where a place but the root hangs.
HangsAt(tree, c, p, i) ==
    /\ p \in DOMAIN tree /\ i \in DOMAIN childrenOf(tree[p])
    /\ childrenOf(tree[p])[i] = c

\* Every node but the root is a child of some node.
LEMMA EachHangs ==
  ASSUME NEW tree, IsWritten(tree), NEW c \in DOMAIN tree, c # 1
  PROVE  \E p, i : HangsAt(tree, c, p, i)
<1>1. c \in 2 .. Len(tree)
  <2>1. DOMAIN tree = 1 .. Len(tree) /\ Len(tree) \in Nat
    BY LenProperties DEF IsWritten, IsTree
  <2> QED
    BY <2>1
<1>2. PICK p \in DOMAIN tree : c \in Range(childrenOf(tree[p]))
  BY <1>1 DEF IsWritten, IsWrittenInOrder
<1>3. PICK i \in DOMAIN childrenOf(tree[p]) : childrenOf(tree[p])[i] = c
  BY <1>2 DEF Range
<1> QED
  BY <1>3 DEF HangsAt

\* The index finds it there.
LEMMA ParentLinkIs ==
  ASSUME NEW tree, IsWritten(tree), NEW c, NEW p, NEW i, HangsAt(tree, c, p, i)
  PROVE  parentLink(tree, c) = [parent |-> tree[p].id, child |-> i]
<1> DEFINE C(q) == childrenOf(tree[q])
<1>1. \A q \in DOMAIN tree : \A j \in DOMAIN C(q) : C(q)[j] = c => q = p /\ j = i
  BY DEF IsWritten, IsWrittenInOrder, HangsAt
<1>2. p \in DOMAIN tree /\ i \in DOMAIN C(p) /\ C(p)[i] = c
  BY DEF HangsAt
<1>3. C(p) = tree[p].children
  <2>1. C(p) # <<>>
    <3>1. DOMAIN <<>> = {}
      OBVIOUS
    <3> QED
      BY <1>2, <3>1
  <2> QED
    BY <2>1 DEF childrenOf
<1> HIDE DEF C
<1>4. /\ c \in Range(C(p))
      /\ \A q \in DOMAIN tree : c \in Range(C(q)) => q = p
  BY <1>1, <1>2 DEF Range
<1>5. parentPlace(tree, c) = p
  BY <1>2, <1>4 DEF parentPlace, C
<1> DEFINE children == tree[p].children
<1>6. i \in DOMAIN children /\ children[i] = c
      /\ \A j \in DOMAIN children : children[j] = c => j = i
  BY <1>1, <1>2, <1>3
<1>7. (CHOOSE j \in DOMAIN children : children[j] = c) = i
  BY <1>6
<1> QED
  BY <1>5, <1>7 DEF parentLink

\* A document whose tree is carried on has the same parents in its index.
LEMMA CarriedParents ==
  ASSUME NEW document, IsWritten(document.root), 1 \in DOMAIN document.root,
         NEW next, TreeIsCarried(document.root, next.root)
  PROVE  createDocumentIndexFromValidatedSnapshot(next).parents =
            createDocumentIndexFromValidatedSnapshot(document).parents
<1> DEFINE tree == document.root
           other == next.root
           Ids(t) == {t[p].id : p \in DOMAIN t}
           Parents(t) == [id \in Ids(t) \ {t[1].id} |-> parentLink(t, placeOf(t, id))]
<1>1. /\ createDocumentIndexFromValidatedSnapshot(document).parents = Parents(tree)
      /\ createDocumentIndexFromValidatedSnapshot(next).parents = Parents(other)
  BY DEF createDocumentIndexFromValidatedSnapshot
<1>2. IsWritten(other)
  BY CarriedIsWritten
<1>3. IsTree(tree) /\ IsTree(other) /\ DOMAIN other = DOMAIN tree
  BY <1>2 DEF IsWritten, TreeIsCarried
<1> HIDE DEF tree, other
<1>4. \A p \in DOMAIN tree : /\ childrenOf(other[p]) = childrenOf(tree[p])
                             /\ other[p].id = tree[p].id
  BY <1>3, CarriedTree DEF tree, other
<1>5. Ids(other) = Ids(tree) /\ other[1].id = tree[1].id
  BY <1>3, <1>4 DEF tree
<1>6. ASSUME NEW id \in Ids(tree) \ {tree[1].id}
      PROVE  parentLink(other, placeOf(other, id)) = parentLink(tree, placeOf(tree, id))
  <2>1. PICK c \in DOMAIN tree : tree[c].id = id
    OBVIOUS
  <2>2. placeOf(tree, id) = c
    BY <1>3, <2>1 DEF placeOf, IsTree
  <2>3. placeOf(other, id) = c
    <3>1. \A q \in DOMAIN other : other[q].id = id => q = c
      BY <1>3, <1>4, <2>1 DEF IsTree
    <3>2. c \in DOMAIN other /\ other[c].id = id
      BY <1>3, <1>4, <2>1
    <3> QED
      BY <3>1, <3>2 DEF placeOf
  <2>4. c # 1
    BY <2>1
  <2>5. PICK p, i : HangsAt(tree, c, p, i)
    BY <2>4, EachHangs DEF tree
  <2>6. HangsAt(other, c, p, i) /\ other[p].id = tree[p].id
    BY <1>3, <1>4, <2>5 DEF HangsAt
  <2>7. parentLink(tree, c) = [parent |-> tree[p].id, child |-> i]
    BY <2>5, ParentLinkIs DEF tree
  <2>8. parentLink(other, c) = [parent |-> other[p].id, child |-> i]
    BY <1>2, <2>6, ParentLinkIs
  <2> QED
    BY <2>2, <2>3, <2>6, <2>7, <2>8
<1>7. Parents(other) = Parents(tree)
  BY <1>5, <1>6
<1> QED
  BY <1>1, <1>7

-----------------------------------------------------------------------------
(* Documents that can be read, and what is carried to the next one. *)

\* A document whose tree, claims and entities can be read, written as JSON and indexed.
IsReadable(document) ==
    LET tree == document.root
        graph == document.academicGraph
    IN  /\ IsDocument(document) /\ "metadata" \in DOMAIN document
        /\ HasJson(document)
        /\ TextsAreWellFormed(tree)
        /\ NodesAreSound(tree, idsOf(graph.referenceSnapshots))
        /\ GraphIsSound(graph, treeEntityIds(tree))
        /\ \A i \in DOMAIN graph.claims : IsClaim(graph.claims[i])

\* A canonical Snapshot can be read.
LEMMA CheckedIsReadable ==
  ASSUME NEW document, IsDocument(document), isCanonicalSnapshot(document),
         IsWrittenDown(document), IsChecked(document)
  PROVE  IsReadable(document)
<1> DEFINE tree == document.root
           graph == document.academicGraph
           references == graph.referenceSnapshots
<1>1. IsSound(document)
  BY CheckedIsSound
<1>2. /\ TextsAreWellFormed(tree)
      /\ NodesAreSound(tree, idsOf(references))
      /\ GraphIsSound(graph, treeEntityIds(tree))
      /\ \A i \in DOMAIN graph.claims : IsClaim(graph.claims[i])
  BY <1>1 DEF IsSound, IsAnchored
<1>3. /\ "metadata" \in DOMAIN document
      /\ IsWrittenInOrder(tree) /\ tree \in Seq(Range(tree)) \ {<<>>}
      /\ \A reference \in Range(references) : isString(reference.cslJson)
      /\ references \in Seq(Range(references))
      /\ graph.claims \in Seq(Range(graph.claims))
  BY DEF IsWrittenDown
<1>4. IsTree(tree)
  BY DEF IsDocument
<1> HIDE DEF tree, graph, references
<1>5. 1 \in DOMAIN tree
  <2>1. Len(tree) \in Nat /\ DOMAIN tree = 1 .. Len(tree)
    BY <1>4, LenProperties DEF IsTree
  <2>2. Len(tree) # 0
    BY <1>3, EmptySeq
  <2> QED
    BY <2>1, <2>2
<1>6. \A i \in DOMAIN references : isString(references[i].cslJson)
  BY <1>3 DEF Range
<1>7. HasJson(document)
  BY <1>3, <1>4, <1>5, <1>6 DEF HasJson, IsWritten, isString, tree, graph, references
<1> QED
  BY <1>2, <1>3, <1>7 DEF IsReadable, tree, graph, references

\* A document that carries the nodes, the rest and the IDs of the claims of another one.
Carries(document, next) ==
    LET claims == document.academicGraph.claims
        nextClaims == next.academicGraph.claims
    IN  /\ IsDocument(next)
        /\ HasTheRestOf(document, next)
        /\ TreeIsCarried(document.root, next.root)
        /\ nextClaims = [i \in DOMAIN claims |-> nextClaims[i]]
        /\ \A i \in DOMAIN claims : nextClaims[i].id = claims[i].id /\ IsClaim(nextClaims[i])

\* What an index says beside its nodes.
SameLinks(index, other) ==
    /\ "entities" \in DOMAIN index
    /\ index.parents = other.parents /\ index.entities = other.entities

freshIndex(document) == createDocumentIndexFromValidatedSnapshot(document)

\* Claims with the same IDs.
LEMMA SameClaims ==
  ASSUME NEW claims, isString(claims), NEW next, next = [i \in DOMAIN claims |-> next[i]],
         \A i \in DOMAIN claims : next[i].id = claims[i].id
  PROVE  /\ isString(next) /\ Len(next) = Len(claims) /\ DOMAIN next = DOMAIN claims
         /\ idsOf(next) = idsOf(claims)
<1>1. Len(claims) \in Nat /\ DOMAIN claims = 1 .. Len(claims)
  BY StringFacts
<1>2. next = [i \in 1 .. Len(claims) |-> next[i]]
  BY <1>1
<1>3. next \in Seq(Range(next)) /\ Len(next) = Len(claims)
  BY <1>1, <1>2, LenOfFunction
<1>4. DOMAIN next = DOMAIN claims
  OBVIOUS
<1>5. idsOf(next) = idsOf(claims)
  BY <1>4 DEF idsOf
<1> QED
  BY <1>3, <1>4, <1>5 DEF isString

\* What carries a document that can be read can be read, and its index has the same links.
LEMMA NextIsReadable ==
  ASSUME NEW document, IsReadable(document), NEW next, Carries(document, next)
  PROVE  IsReadable(next) /\ SameLinks(freshIndex(next), freshIndex(document))
<1> DEFINE tree == document.root
           graph == document.academicGraph
           nextGraph == next.academicGraph
           claims == graph.claims
           nextClaims == nextGraph.claims
           references == graph.referenceSnapshots
<1>1. /\ IsDocument(document) /\ "metadata" \in DOMAIN document
      /\ IsWritten(tree) /\ 1 \in DOMAIN tree
      /\ isString(claims) /\ isString(references)
      /\ \A i \in DOMAIN references : isString(references[i].cslJson)
      /\ NodesAreSound(tree, idsOf(references))
      /\ GraphIsSound(graph, treeEntityIds(tree))
  BY DEF IsReadable, HasJson
<1>2. /\ IsDocument(next)
      /\ HasTheRestOf(document, next)
      /\ TreeIsCarried(tree, next.root)
      /\ nextClaims = [i \in DOMAIN claims |-> nextClaims[i]]
      /\ \A i \in DOMAIN claims : nextClaims[i].id = claims[i].id /\ IsClaim(nextClaims[i])
  BY DEF Carries
<1>3. {"referenceSnapshots", "evidenceLinks", "claims"} \subseteq DOMAIN graph
  BY <1>1 DEF GraphIsSound
<1>4. /\ DOMAIN nextGraph = DOMAIN graph
      /\ nextGraph.referenceSnapshots = references
      /\ nextGraph.evidenceLinks = graph.evidenceLinks
      /\ next.metadata = document.metadata /\ "metadata" \in DOMAIN next
  BY <1>1, <1>2, <1>3 DEF HasTheRestOf
<1> HIDE DEF tree, graph, nextGraph
<1>5. /\ isString(nextClaims) /\ DOMAIN nextClaims = DOMAIN claims
      /\ idsOf(nextClaims) = idsOf(claims)
  <2> HIDE DEF claims, nextClaims
  <2> QED
    BY <1>1, <1>2, SameClaims
<1>6. GraphIsSound(nextGraph, treeEntityIds(tree))
  BY <1>1, <1>2, <1>4, CarriedEntities
<1>7. /\ NodesAreSound(next.root, idsOf(references))
      /\ treeEntityIds(next.root) = treeEntityIds(tree)
  BY <1>1, <1>2, CarriedNodes
<1>8. IsWritten(next.root) /\ 1 \in DOMAIN next.root /\ TextsAreWellFormed(next.root)
  <2>1. IsWritten(next.root)
    BY <1>1, <1>2, CarriedIsWritten
  <2> QED
    BY <1>1, <1>2, <2>1 DEF TreeIsCarried
<1>9. HasJson(next)
  BY <1>1, <1>4, <1>5, <1>8 DEF HasJson, nextGraph
<1>10. \A i \in DOMAIN nextClaims : IsClaim(nextClaims[i])
  BY <1>2, <1>5
<1>11. IsReadable(next)
  <2> HIDE DEF claims
  <2> QED
    BY <1>2, <1>4, <1>6, <1>7, <1>8, <1>9, <1>10 DEF IsReadable, nextGraph
<1>12. freshIndex(next).parents = freshIndex(document).parents
  BY <1>1, <1>2, CarriedParents DEF freshIndex, tree
<1>13. freshIndex(next).entities = freshIndex(document).entities
  <2>1. /\ freshIndex(next).entities =
              authorEntityIds(next.metadata) \cup academicEntityIds(nextGraph)
                \cup treeEntityIds(next.root)
        /\ freshIndex(document).entities =
              authorEntityIds(document.metadata) \cup academicEntityIds(graph)
                \cup treeEntityIds(tree)
    BY DEF freshIndex, createDocumentIndexFromValidatedSnapshot, indexEntityIds, tree, graph,
           nextGraph
  <2>2. academicEntityIds(nextGraph) = academicEntityIds(graph)
    BY <1>4, <1>5 DEF academicEntityIds
  <2> QED
    BY <1>4, <1>7, <2>1, <2>2
<1>14. "entities" \in DOMAIN freshIndex(next)
  BY DEF freshIndex, createDocumentIndexFromValidatedSnapshot
<1> QED
  BY <1>11, <1>12, <1>13, <1>14 DEF SameLinks

\* The claims of a document that can be read have IDs of their own.
LEMMA ReadableClaims ==
  ASSUME NEW document, IsReadable(document)
  PROVE  ClaimsHaveIds(document)
<1> DEFINE graph == document.academicGraph
           refs == graph.referenceSnapshots
           links == graph.evidenceLinks
           claims == graph.claims
           front == refs \o links
           all == front \o claims
<1>1. GraphIsSound(graph, treeEntityIds(document.root))
  BY DEF IsReadable
<1>2. /\ isString(refs) /\ isString(links) /\ isString(claims)
      /\ \A i, j \in DOMAIN all : all[i].id = all[j].id => i = j
  BY <1>1 DEF GraphIsSound, EntitiesOf, isString
<1> HIDE DEF refs, links, claims
<1>3. isString(front)
  BY <1>2, ConcatIsString
<1> HIDE DEF front
<1>4. IsConcat(all, front, claims)
  BY <1>2, <1>3, ConcatString
<1>5. Len(front) \in Nat /\ Len(claims) \in Nat
  BY <1>2, <1>3, StringFacts
<1> HIDE DEF all
<1>6. /\ DOMAIN all = 1 .. Len(front) + Len(claims)
      /\ \A i \in 1 .. Len(claims) : all[Len(front) + i] = claims[i]
  <2>1. isString(all) /\ Len(all) = Len(front) + Len(claims)
    BY <1>4 DEF IsConcat
  <2>2. DOMAIN all = 1 .. Len(all)
    BY <2>1, StringFacts
  <2> QED
    BY <1>4, <2>1, <2>2 DEF IsConcat
<1>7. ASSUME NEW i \in 1 .. Len(claims), NEW j \in 1 .. Len(claims), claims[i].id = claims[j].id
      PROVE  i = j
  <2>1. Len(front) + i \in DOMAIN all /\ Len(front) + j \in DOMAIN all
    BY <1>5, <1>6
  <2>2. all[Len(front) + i].id = all[Len(front) + j].id
    BY <1>6, <1>7
  <2>3. Len(front) + i = Len(front) + j
    BY <1>2, <2>1, <2>2
  <2> QED
    BY <1>5, <2>3
<1> QED
  BY <1>7 DEF ClaimsHaveIds, claims

-----------------------------------------------------------------------------
(* Where a promised range leads. *)

\* The range holds this JSON, in units and in bytes.
IsHeld(utf8, json, range) ==
    /\ Slice(utf8.text, range.start, range.end) = json
    /\ Slice(utf8.bytes, range.startUtf8, range.endUtf8) = encodeUtf8(json)

\* The UTF-8 range of a placed text holds its bytes.
LEMMA PlacedIsHeld ==
  ASSUME NEW utf8, utf8.bytes = encodeUtf8(utf8.text), NEW x, isString(x),
         NEW json, isString(json), IsPlaced(utf8.text, x, json)
  PROVE  IsHeld(utf8, json, RangeOf(x, json))
<1>1. PICK y : isString(y) /\ utf8.text = x \o (json \o y)
  BY DEF IsPlaced
<1>2. AreMeeting(x, json, y)
  BY <1>1, MeetingStrings
<1>3. Slice(utf8.text, Len(x), Len(x) + Len(json)) = json
  BY <1>1, <1>2 DEF AreMeeting
<1>4. isString(json \o y)
  BY <1>2 DEF AreMeeting
<1>5. AreEncoded(x, json \o y) /\ AreEncoded(json, y)
  BY <1>1, <1>4, EncodedConcat
<1> DEFINE a == encodeUtf8(x)
           b == encodeUtf8(json)
           c == encodeUtf8(y)
<1>6. /\ isString(a) /\ isString(b) /\ isString(c)
      /\ utf8.bytes = a \o (b \o c)
  BY <1>1, <1>5 DEF AreEncoded
<1>7. RangeOf(x, json) = trustedRange(Len(x), Len(x) + Len(json), Len(a), Len(a) + Len(b))
  BY DEF RangeOf, utf8Length
<1> HIDE DEF a, b, c
<1>8. AreMeeting(a, b, c)
  BY <1>6, MeetingStrings
<1>9. Slice(utf8.bytes, Len(a), Len(a) + Len(b)) = b
  BY <1>6, <1>8 DEF AreMeeting
<1> QED
  BY <1>3, <1>7, <1>9 DEF IsHeld, trustedRange, b

\* A claim stands behind those before it.
LEMMA ClaimIsPlaced ==
  ASSUME NEW document, HasJson(document), NEW i \in 1 .. Len(document.academicGraph.claims)
  PROVE  /\ isString(BeforeClaim(document, i))
         /\ IsPlaced(createDocumentHashPayload(document), BeforeClaim(document, i),
                     serializeClaim(document.academicGraph.claims[i]))
<1> DEFINE claims == document.academicGraph.claims
           seqs == ClaimsJson(claims)
           x == Joined(seqs, i - 1)
           json == serializeClaim(claims[i])
           node == serializeNode(document.root, 1)
           behind == References(document) \o node
           n == Len(claims)
<1>1. isString(claims)
  BY DEF HasJson
<1>2. n \in Nat /\ DOMAIN claims = 1 .. n /\ i \in 1 .. n
  <2> HIDE DEF claims
  <2> QED
    BY <1>1, StringFacts DEF claims
<1>3. AreStrings(seqs) /\ Len(seqs) = n /\ seqs[i] = json
  BY <1>1, <1>2, ClaimsAreStrings
<1>4. isString(References(document)) /\ isString(node)
  BY PayloadOfParts
<1>5. createDocumentHashPayload(document) = Claims(document) \o behind
  BY PayloadOfParts
<1>6. Claims(document) = FlattenSeq(seqs)
  BY DEF Claims
<1>7. isString(json)
  BY ClaimJson
<1>8. BeforeClaim(document, i) = x
  BY DEF BeforeClaim
<1> HIDE DEF claims, seqs, json, node
<1>9. isString(behind)
  BY <1>4, ConcatIsString
<1> HIDE DEF behind, n
<1>10. Claims(document) = Joined(seqs, n)
  BY <1>3, <1>6, JoinedAll
<1>11. i \in 1 .. Len(seqs)
  BY <1>2, <1>3
<1>12. PICK rest : IsAround(seqs, i, Len(seqs), rest)
  BY <1>3, <1>11, JoinedAround
<1>13. isString(rest) /\ Joined(seqs, n) = x \o (json \o rest)
  <2>1. Joined(seqs, Len(seqs)) = Joined(seqs, i - 1) \o (seqs[i] \o rest) /\ isString(rest)
    BY <1>3, <1>12 DEF IsAround
  <2> QED
    BY <1>3, <2>1
<1>14. isString(x)
  <2>1. i - 1 \in 0 .. Len(seqs)
    BY <1>2, <1>3
  <2> QED
    BY <1>3, <2>1, JoinedString
<1> HIDE DEF x
<1>15. isString(json \o rest)
  BY <1>7, <1>13, ConcatIsString
<1>16. (x \o (json \o rest)) \o behind = x \o ((json \o rest) \o behind)
  <2>1. IsAssociative(x, json \o rest, behind)
    BY <1>9, <1>14, <1>15, ConcatsAssociate
  <2> QED
    BY <2>1 DEF IsAssociative
<1>17. (json \o rest) \o behind = json \o (rest \o behind)
  <2>1. IsAssociative(json, rest, behind)
    BY <1>7, <1>9, <1>13, ConcatsAssociate
  <2> QED
    BY <2>1 DEF IsAssociative
<1>18. isString(rest \o behind)
  BY <1>9, <1>13, ConcatIsString
<1>19. createDocumentHashPayload(document) = x \o (json \o (rest \o behind))
  BY <1>5, <1>10, <1>13, <1>16, <1>17
<1>20. IsPlaced(createDocumentHashPayload(document), x, json)
  BY <1>18, <1>19 DEF IsPlaced
<1> QED
  BY <1>8, <1>14, <1>20 DEF json, claims

\* A text stands behind what is before it.
LEMMA TextIsPlaced ==
  ASSUME NEW document, HasJson(document), NEW t \in DOMAIN document.root,
         document.root[t].type = "text",
         NEW pre, NEW post, IsContext(document.root, t, pre, post)
  PROVE  /\ isString(BeforeText(document, pre))
         /\ IsPlaced(createDocumentHashPayload(document), BeforeText(document, pre),
                     serializeTextNode(document.root[t]))
<1> DEFINE m == Len(document.academicGraph.claims)
           gaps == Gaps(document, pre)
           olds == Olds(document, t)
<1>1. IsLaidOut(document, t, pre, post)
  BY DocumentIsLaidOut
<1>2. /\ AreLayout(gaps, olds) /\ Len(olds) = m + 1 /\ m \in Nat
      /\ Before(gaps, olds, m + 1) = BeforeText(document, pre)
      /\ createDocumentHashPayload(document) = UpTo(gaps, olds, m + 1) \o post
  BY <1>1 DEF IsLaidOut
<1>3. isString(post)
  BY DEF IsContext
<1>4. olds[m + 1] = serializeTextNode(document.root[t])
  BY <1>2 DEF Olds
<1> HIDE DEF gaps, olds, m
<1>5. m + 1 \in 1 .. Len(olds)
  BY <1>2
<1>6. IsPlaced(UpTo(gaps, olds, Len(olds)) \o post, Before(gaps, olds, m + 1), olds[m + 1])
  BY <1>2, <1>3, <1>5, PieceIsPlaced
<1>7. IsBefore(gaps, olds, m + 1)
  BY <1>2, <1>5, BeforePieces
<1> QED
  BY <1>2, <1>4, <1>6, <1>7 DEF IsBefore

\* Every promised range holds the object it is promised for.
PromisesHold(utf8, document) ==
    LET claims == document.academicGraph.claims
        tree == document.root
    IN  /\ \A i \in DOMAIN claims :
              ClaimIdentity(claims[i]) \in DOMAIN utf8.ranges =>
                  IsHeld(utf8, serializeClaim(claims[i]), utf8.ranges[ClaimIdentity(claims[i])])
        /\ \A t \in DOMAIN tree :
              tree[t].type = "text" /\ TextIdentity(tree[t]) \in DOMAIN utf8.ranges =>
                  IsHeld(utf8, serializeTextNode(tree[t]), utf8.ranges[TextIdentity(tree[t])])

\* A handle of a document promises only what holds.
LEMMA HandleHolds ==
  ASSUME NEW document, HasJson(document), NEW utf8, IsHandleOf(utf8, document)
  PROVE  PromisesHold(utf8, document)
<1> DEFINE claims == document.academicGraph.claims
           tree == document.root
<1>1. /\ utf8.text = createDocumentHashPayload(document)
      /\ utf8.bytes = encodeUtf8(utf8.text)
      /\ RangesFit(utf8.ranges, document)
  BY DEF IsHandleOf
<1>2. isString(claims) /\ IsTree(tree)
  BY DEF HasJson, IsWritten
<1>3. DOMAIN claims = 1 .. Len(claims)
  <2> HIDE DEF claims
  <2> QED
    BY <1>2, StringFacts
<1>4. ASSUME NEW i \in DOMAIN claims, ClaimIdentity(claims[i]) \in DOMAIN utf8.ranges
      PROVE  IsHeld(utf8, serializeClaim(claims[i]), utf8.ranges[ClaimIdentity(claims[i])])
  <2> DEFINE json == serializeClaim(claims[i])
             x == BeforeClaim(document, i)
  <2>1. i \in 1 .. Len(claims)
    BY <1>3
  <2>2. isString(x) /\ IsPlaced(utf8.text, x, json)
    BY <1>1, <2>1, ClaimIsPlaced
  <2>3. utf8.ranges[ClaimIdentity(claims[i])] = RangeOf(x, json)
    BY <1>1, <1>4, <2>1 DEF RangesFit
  <2>4. isString(json)
    BY ClaimJson
  <2> HIDE DEF json, x
  <2>5. IsHeld(utf8, json, RangeOf(x, json))
    BY <1>1, <2>2, <2>4, PlacedIsHeld
  <2> QED
    BY <2>3, <2>5 DEF json
<1>5. ASSUME NEW t \in DOMAIN tree, tree[t].type = "text",
             TextIdentity(tree[t]) \in DOMAIN utf8.ranges
      PROVE  IsHeld(utf8, serializeTextNode(tree[t]), utf8.ranges[TextIdentity(tree[t])])
  <2> DEFINE json == serializeTextNode(tree[t])
  <2>1. PICK pre, post : /\ IsContext(tree, t, pre, post)
                         /\ utf8.ranges[TextIdentity(tree[t])] =
                                RangeOf(BeforeText(document, pre), json)
    BY <1>1, <1>5 DEF RangesFit
  <2> DEFINE x == BeforeText(document, pre)
  <2>2. isString(x) /\ IsPlaced(utf8.text, x, json)
    BY <1>1, <1>5, <2>1, TextIsPlaced
  <2>3. isString(tree[t].value)
    BY <1>2, <1>5 DEF IsTree, IsNode
  <2>4. isString(json)
    BY <2>3, TextJson
  <2> HIDE DEF json, x
  <2>5. IsHeld(utf8, json, RangeOf(x, json))
    BY <1>1, <2>2, <2>4, PlacedIsHeld
  <2> QED
    BY <2>1, <2>5 DEF json, x
<1> QED
  BY <1>4, <1>5 DEF PromisesHold

-----------------------------------------------------------------------------
(* Entries that may be trusted. *)

\* The entry says of its document what reading it again would say.
IsExactEntry(entry) ==
    /\ IsReadable(entry.document)
    /\ entry.payload = createDocumentHashPayload(entry.document)
    /\ entry.length = Len(entry.payload)
    /\ IsHandleOf(entry.utf8, entry.document)
    /\ IndexFits(entry.index, entry.document.root)
    /\ SameLinks(entry.index, freshIndex(entry.document))

\* The same, as the property has it.
SaysTheSame(entry) ==
    LET document == entry.document
        fresh == createDocumentIndexFromValidatedSnapshot(document)
        payload == createDocumentHashPayload(document)
        claims == document.academicGraph.claims
        fragments ==
            {Fragment(node, serializeTextNode(node)) :
                node \in {n \in Range(document.root) : n.type = "text"}} \cup
            {Fragment(claims[i], serializeClaim(claims[i])) : i \in DOMAIN claims}
    IN  /\ entry.payload = payload
        /\ entry.utf8.text = payload
        /\ entry.utf8.bytes = encodeUtf8(payload)
        /\ \A id \in DOMAIN fresh.base : getNode(entry.index, id) = fresh.base[id]
        /\ entry.index.parents = fresh.parents
        /\ entry.index.entities = fresh.entities
        /\ \A fragment \in fragments :
                fragment.identity \in DOMAIN entry.utf8.ranges =>
                    LET range == entry.utf8.ranges[fragment.identity]
                    IN  /\ Slice(payload, range.start, range.end) = fragment.json
                        /\ Slice(entry.utf8.bytes, range.startUtf8, range.endUtf8) =
                                encodeUtf8(fragment.json)

\* An exact entry says of its Snapshot what a fresh calculation says.
LEMMA ExactEntrySays ==
  ASSUME NEW entry, IsExactEntry(entry)
  PROVE  SaysTheSame(entry)
<1> DEFINE document == entry.document
           tree == document.root
           fresh == createDocumentIndexFromValidatedSnapshot(document)
           payload == createDocumentHashPayload(document)
           claims == document.academicGraph.claims
           utf8 == entry.utf8
           texts == {n \in Range(tree) : n.type = "text"}
           ofTexts == {Fragment(node, serializeTextNode(node)) : node \in texts}
           ofClaims == {Fragment(claims[i], serializeClaim(claims[i])) : i \in DOMAIN claims}
<1>1. /\ IsReadable(document)
      /\ entry.payload = payload
      /\ IsHandleOf(utf8, document)
      /\ IndexFits(entry.index, tree)
      /\ entry.index.parents = fresh.parents
      /\ entry.index.entities = fresh.entities
  BY DEF IsExactEntry, SameLinks, freshIndex
<1>2. utf8.text = payload /\ utf8.bytes = encodeUtf8(payload)
  BY <1>1 DEF IsHandleOf
<1>3. HasJson(document) /\ IsTree(tree)
  BY <1>1 DEF IsReadable, IsDocument
<1>4. PromisesHold(utf8, document)
  BY <1>1, <1>3, HandleHolds
<1>5. ASSUME NEW id \in DOMAIN fresh.base
      PROVE  getNode(entry.index, id) = fresh.base[id]
  <2>1. fresh.base = [x \in {tree[p].id : p \in DOMAIN tree} |-> tree[placeOf(tree, x)]]
    BY DEF createDocumentIndexFromValidatedSnapshot
  <2>2. PICK p \in DOMAIN tree : id = tree[p].id
    BY <2>1
  <2>3. placeOf(tree, id) = p
    BY <1>3, <2>2 DEF placeOf, IsTree
  <2>4. fresh.base[id] = tree[p]
    <3> HIDE DEF fresh, tree
    <3> QED
      BY <2>1, <2>2, <2>3
  <2>5. getNode(entry.index, tree[p].id) = tree[p]
    BY <1>1 DEF IndexFits
  <2> QED
    BY <2>2, <2>4, <2>5
<1>6. ASSUME NEW fragment \in ofTexts \cup ofClaims, fragment.identity \in DOMAIN utf8.ranges
      PROVE  IsHeld(utf8, fragment.json, utf8.ranges[fragment.identity])
  <2>1. CASE fragment \in ofTexts
    <3>1. PICK node \in texts : fragment = Fragment(node, serializeTextNode(node))
      BY <2>1
    <3>2. PICK t \in DOMAIN tree : node = tree[t] /\ tree[t].type = "text"
      BY <3>1 DEF Range
    <3>3. fragment.identity = TextIdentity(tree[t]) /\ fragment.json = serializeTextNode(tree[t])
      BY <3>1, <3>2 DEF Fragment, TextIdentity
    <3> QED
      BY <1>4, <1>6, <3>2, <3>3 DEF PromisesHold
  <2>2. CASE fragment \in ofClaims
    <3>1. PICK i \in DOMAIN claims : fragment = Fragment(claims[i], serializeClaim(claims[i]))
      BY <2>2
    <3>2. fragment.identity = ClaimIdentity(claims[i])
          /\ fragment.json = serializeClaim(claims[i])
      BY <3>1 DEF Fragment, ClaimIdentity
    <3> QED
      BY <1>4, <1>6, <3>1, <3>2 DEF PromisesHold
  <2> QED
    BY <1>6, <2>1, <2>2
<1>7. ASSUME NEW fragment \in ofTexts \cup ofClaims, fragment.identity \in DOMAIN utf8.ranges
      PROVE  LET range == utf8.ranges[fragment.identity]
             IN  /\ Slice(payload, range.start, range.end) = fragment.json
                 /\ Slice(utf8.bytes, range.startUtf8, range.endUtf8) = encodeUtf8(fragment.json)
  BY <1>2, <1>6, <1>7 DEF IsHeld
<1> QED
  BY <1>1, <1>2, <1>5, <1>7 DEF SaysTheSame

\* The entry of a document that was read.
LEMMA CheckedEntryIsExact ==
  ASSUME NEW snapshot, IsReadable(snapshot.document)
  PROVE  /\ IsExactEntry(checkedEntry(snapshot))
         /\ checkedEntry(snapshot).document = snapshot.document
<1> DEFINE document == snapshot.document
           entry == checkedEntry(snapshot)
           payload == createDocumentHashPayload(document)
<1>1. /\ entry.document = document /\ entry.payload = payload /\ entry.length = Len(payload)
      /\ entry.index = freshIndex(document)
      /\ entry.utf8 = createTrustedCanonicalUtf8Text(payload)
  BY DEF checkedEntry, freshIndex
<1>2. IsHandleOf(createTrustedCanonicalUtf8Text(payload), document)
  BY FreshHandle
<1>3. IsTree(document.root)
  BY DEF IsReadable, IsDocument
<1>4. IndexFits(freshIndex(document), document.root)
  BY <1>3, FreshIndexFits DEF freshIndex
<1>5. "entities" \in DOMAIN freshIndex(document)
  BY DEF freshIndex, createDocumentIndexFromValidatedSnapshot
<1> HIDE DEF entry
<1>6. IsExactEntry(entry)
  BY <1>1, <1>2, <1>4, <1>5 DEF IsExactEntry, SameLinks
<1> QED
  BY <1>1, <1>6 DEF entry

\* The entry of a document that was derived.
LEMMA DerivedEntryIsExact ==
  ASSUME NEW snapshot, IsReadable(snapshot.document),
         NEW index, IndexFits(index, snapshot.document.root),
         SameLinks(index, freshIndex(snapshot.document)),
         NEW payload, payload = createDocumentHashPayload(snapshot.document),
         NEW utf8, utf8 # Unpatched => IsHandleOf(utf8, snapshot.document)
  PROVE  /\ IsExactEntry(derivedEntry(snapshot, index, payload, utf8))
         /\ derivedEntry(snapshot, index, payload, utf8).document = snapshot.document
<1> DEFINE document == snapshot.document
           entry == derivedEntry(snapshot, index, payload, utf8)
           handle == IF utf8 = Unpatched THEN createTrustedCanonicalUtf8Text(payload) ELSE utf8
<1>1. /\ entry.document = document /\ entry.payload = payload /\ entry.length = Len(payload)
      /\ entry.index = index
      /\ entry.utf8 = handle
  BY DEF derivedEntry
<1>2. IsHandleOf(handle, document)
  <2>1. IsHandleOf(createTrustedCanonicalUtf8Text(createDocumentHashPayload(document)), document)
    BY FreshHandle
  <2> QED
    BY <2>1
<1> HIDE DEF entry, handle
<1>3. IsExactEntry(entry)
  BY <1>1, <1>2 DEF IsExactEntry
<1> QED
  BY <1>1, <1>3 DEF entry

-----------------------------------------------------------------------------
(* What one Operation hands on to the next payload. *)

\* The next tree has the new text at its place.
LEMMA HeadIsPlaced ==
  ASSUME NEW tree, IsTree(tree), NEW t \in DOMAIN tree, NEW nodes, NEW value, NEW stamp,
         AreReplacements(nodes, tree, t, value, stamp)
  PROVE  Head(nodes) = replaceNodes(tree, nodes)[t]
<1> DEFINE next == replaceNodes(tree, nodes)
           layer == replacementLayer(nodes)
           id == tree[t].id
           places == {i \in DOMAIN nodes : nodes[i].id = id}
<1>1. /\ \E n \in Nat \ {0} : DOMAIN nodes = 1 .. n
      /\ nodes[1] = Rewritten(tree[t], value, stamp)
      /\ \A i \in DOMAIN nodes :
            \/ nodes[i] = nodes[1]
            \/ \E p \in DOMAIN tree \ {t} : nodes[i] = Stamped(tree[p], stamp)
  BY DEF AreReplacements
<1>2. \A p \in DOMAIN tree : "id" \in DOMAIN tree[p]
  BY DEF IsTree, IsNode
<1>3. nodes[1].id = id
  BY <1>1, <1>2 DEF Rewritten
<1>4. \A p \in DOMAIN tree : Stamped(tree[p], stamp).id = tree[p].id
  BY <1>2 DEF Stamped
<1>5. 1 \in places
  BY <1>1, <1>3
<1>6. \A i \in places : nodes[i] = nodes[1]
  <2> TAKE i \in places
  <2>1. nodes[i].id = id
    OBVIOUS
  <2>2. ASSUME NEW p \in DOMAIN tree \ {t}, nodes[i] = Stamped(tree[p], stamp)
        PROVE  FALSE
    BY <1>4, <2>1, <2>2 DEF IsTree
  <2> QED
    BY <1>1, <2>2
<1>7. id \in DOMAIN layer /\ layer[id] = nodes[Max(places)]
  BY <1>5 DEF replacementLayer
<1>8. Max(places) \in places
  <2>1. PICK n \in Nat \ {0} : DOMAIN nodes = 1 .. n
    BY <1>1
  <2>2. places \in SUBSET (1 .. n) /\ n \in Nat /\ places # {}
    BY <1>5, <2>1
  <2> HIDE DEF places
  <2> QED
    BY <2>2, LastOfPlaces
<1>9. next[t] = layer[id]
  BY <1>7 DEF replaceNodes
<1>10. next[t] = nodes[1]
  BY <1>6, <1>7, <1>8, <1>9
<1>11. Head(nodes) = nodes[1]
  OBVIOUS
<1> QED
  BY <1>10, <1>11

\* What is known of the text that an Operation was applied to.
IsAppliedAt(tree, applied, t) ==
    /\ t \in DOMAIN tree
    /\ tree[t].type = "text" /\ applied.root[t].type = "text"
    /\ applied.root[t].id = tree[t].id
    /\ applied.previousTextNode = tree[t]
    /\ Head(applied.updatedNodes) = applied.root[t]
    /\ \A p \in DOMAIN tree \ {t} : Alike(applied.root[p], tree[p])

\* An applied Operation changes one Text Node.
LEMMA AppliedText ==
  ASSUME NEW tree, IsTree(tree), NEW index, IndexFits(index, tree),
         NEW operation, isString(operation.replacement), NEW stamp,
         applyReplaceText(tree, index, operation, stamp).type = "ok"
  PROVE  \E t : IsAppliedAt(tree, applyReplaceText(tree, index, operation, stamp).value, t)
<1> DEFINE result == applyReplaceText(tree, index, operation, stamp)
           id == operation.textNodeId
           start == operation.startUtf16Offset
           end == operation.endUtf16Offset
           target == getNode(index, id)
           path == getNodePath(index, id)
           value == Splice(target.value, start, end, operation.replacement)
           nodes == updatedNodesOf(path, value, stamp)
           next == replaceNodes(tree, nodes)
<1>1. /\ target # NoNode
      /\ target.type = "text"
      /\ isPathOf(tree, path, target)
      /\ result.value.root = next
      /\ result.value.updatedNodes = nodes
      /\ result.value.previousTextNode = target
  <2>0. result = replaceTextOn(tree, path, target, operation, stamp)
    BY DEF applyReplaceText
  <2> HIDE DEF path, target, result, value, nodes
  <2>1. result.type = "ok"
    BY DEF result
  <2>2. /\ target # NoNode
        /\ target.type = "text"
        /\ result = replaceTextNode(tree, path, target, operation, nodes)
    BY <2>0, <2>1 DEF replaceTextOn, errorResult, nodes, value
  <2>3. isPathOf(tree, path, target)
    BY <2>1, <2>2 DEF replaceTextNode, errorResult
  <2> QED
    BY <2>2, <2>3 DEF replaceTextNode, Ok
<1>2. PICK t \in DOMAIN tree : tree[t].id = id /\ target = tree[t]
  BY <1>1, FoundNode
<1>3. Replaces(tree, result.value.root, operation)
  <2> HIDE DEF result, id, start, end, path, value, next, nodes
  <2>1. result.type = "ok"
    BY DEF result
  <2> QED
    BY <2>1, ApplyIsExact DEF result
<1>4. AreReplacements(nodes, tree, t, value, stamp)
  <2>1. /\ isPathOf(tree, getNodePath(index, tree[t].id), tree[t]) /\ tree[t].type = "text"
        /\ nodes = updatedNodesOf(getNodePath(index, tree[t].id), value, stamp)
    BY <1>1, <1>2
  <2> HIDE DEF value, id, target, path, nodes, next
  <2> QED
    BY <2>1, UpdatedNodes
<1> HIDE DEF result, nodes, value, path
<1>5. Head(nodes) = next[t]
  BY <1>4, HeadIsPlaced
<1> HIDE DEF next
<1>6. \A p \in DOMAIN tree \ {t} : Alike(result.value.root[p], tree[p])
  <2>1. \A p \in DOMAIN tree \ {t} : tree[p].id # operation.textNodeId
    BY <1>2 DEF IsTree
  <2> QED
    BY <1>3, <2>1 DEF Replaces
<1>7. IsCarried(tree[t], result.value.root[t])
  BY <1>3, ReplacedNode
<1>8. IsAppliedAt(tree, result.value, t)
  BY <1>1, <1>2, <1>5, <1>6, <1>7 DEF IsAppliedAt, IsCarried
<1> QED
  BY <1>8 DEF result

\* The next index has the links of the one before it.
LEMMA LinksStay ==
  ASSUME NEW index, IsIndex(index), NEW nodes, NEW other, SameLinks(index, other)
  PROVE  SameLinks(withNodeReplacements(index, nodes), other)
<1> DEFINE next == withNodeReplacements(index, nodes)
<1>1. {"base", "layers", "parents", "entities"} \subseteq DOMAIN index
  BY DEF IsIndex, SameLinks
<1>2. DOMAIN next = DOMAIN index
      /\ next.parents = index.parents /\ next.entities = index.entities
  BY <1>1 DEF withNodeReplacements
<1> HIDE DEF next
<1>3. SameLinks(next, other)
  BY <1>1, <1>2 DEF SameLinks
<1> QED
  BY <1>3 DEF next

-----------------------------------------------------------------------------
(* The hash and the payload of the next document. *)

\* The map of a Transaction has its steps.
LEMMA LeavesOfTransaction ==
  ASSUME NEW options, NEW operations, IsOperations(operations)
  PROVE  Len(FlattenSeq(positionMapOf(options, operations).leaves)) \in Nat
<1> DEFINE steps == StepsOf(operations)
           S == Range(steps)
<1>1. steps \in Seq(S) /\ Len(steps) \in Nat
  BY StepsOfOperations
<1>2. positionMapOf(options, operations).leaves = <<steps>>
  BY DEF positionMapOf, createReplaceTextTransactionPositionMap, StepsOf
<1> HIDE DEF steps, S
<1>3. FlattenSeq(<<steps>>) = <<>> \o steps
  BY <1>1, FlattenedLeaves
<1>4. <<>> \o steps = steps
  BY <1>1
<1> QED
  BY <1>1, <1>2, <1>3, <1>4

\* What the kernel makes of a document that can be read carries it.
LEMMA KernelCarries ==
  ASSUME NEW options, IsReadable(options.headSnapshot.document), NEW c,
         VerifiedFits(c, options.headSnapshot.object, options.headSnapshot.document.root),
         prepareKernelTransaction(options, c).type = "ok"
  PROVE  Carries(options.headSnapshot.document,
                 prepareKernelTransaction(options, c).value.snapshot.document)
<1> DEFINE document == options.headSnapshot.document
           r == prepareKernelTransaction(options, c)
           next == r.value.snapshot.document
           operations == options.request.json.operations
           map == positionMapOf(options, operations)
           claims == document.academicGraph.claims
           nextClaims == next.academicGraph.claims
<1>1. /\ IsDocument(document) /\ IsTree(document.root) /\ TextsAreWellFormed(document.root)
      /\ \A i \in DOMAIN claims : IsClaim(claims[i])
  BY DEF IsReadable, IsDocument
<1>2. KernelExact(options, c, r) /\ IsOperations(operations)
  BY <1>1, KernelIsExact
<1>3. KernelRebases(options, map, r)
  BY <1>1, KernelIsRebased
<1>4. r.type = "ok"
  OBVIOUS
<1> HIDE DEF r
<1>5. /\ IsDocument(next) /\ HasTheRestOf(document, next)
      /\ Chain(document.root, next.root, operations)
  BY <1>2, <1>4 DEF KernelExact, Derives
<1>6. IsRebased(claims, nextClaims, map, options.nextRevisionId)
  BY <1>3, <1>4 DEF KernelRebases
<1>7. Len(FlattenSeq(map.leaves)) \in Nat
  BY <1>2, LeavesOfTransaction
<1> DEFINE id == options.nextRevisionId
<1> HIDE DEF document, next, operations, map, claims, nextClaims, id
<1>8. TreeIsCarried(document.root, next.root)
  BY <1>1, <1>2, <1>5, TransactionCarries
<1>9. PICK stamp : nextClaims = [i \in DOMAIN claims |-> rebaseClaim(claims[i], map, id, stamp)]
  BY <1>6 DEF IsRebased, id
<1>10. nextClaims = [i \in DOMAIN claims |-> nextClaims[i]]
  BY <1>9
<1>11. ASSUME NEW i \in DOMAIN claims
       PROVE  nextClaims[i].id = claims[i].id /\ IsClaim(nextClaims[i])
  <2>1. IsClaim(claims[i]) /\ mapPosition(map, claims[i].anchor.primary).status = "mapped"
    BY <1>1, <1>6 DEF IsRebased
  <2>2. ClaimMoves(claims[i], rebaseClaim(claims[i], map, id, stamp), map, id)
    BY <1>7, <2>1, RebasedClaim
  <2> QED
    BY <1>9, <2>2 DEF ClaimMoves
<1>12. Carries(document, next)
  BY <1>5, <1>8, <1>10, <1>11 DEF Carries, claims, nextClaims
<1> QED
  BY <1>12 DEF document, next, r

\* Documents that differ in their hash, or in what else is not written.
SameContent(document, other) ==
    /\ document.root = other.root
    /\ document.academicGraph = other.academicGraph

\* Documents that differ in their stamps and hash only have one payload and one hash.
LEMMA SameContentSame ==
  ASSUME NEW document, NEW other, SameContent(document, other)
  PROVE  /\ createDocumentHashPayload(document) = createDocumentHashPayload(other)
         /\ computeDocumentHash(document) = computeDocumentHash(other)
         /\ \A application, claims :
                replacementsOf(document, application, claims) =
                    replacementsOf(other, application, claims)
<1>1. createDocumentHashPayload(document) = createDocumentHashPayload(other)
  BY DEF SameContent, createDocumentHashPayload
<1>2. \A application, claims :
        replacementsOf(document, application, claims) = replacementsOf(other, application, claims)
  BY DEF SameContent, replacementsOf
<1> QED
  BY <1>1, <1>2 DEF computeDocumentHash

\* The hash, the payload and the bytes are those of the document.
IsHashedFor(hashed, document) ==
    /\ hashed.hash = computeDocumentHash(document)
    /\ hashed.payload = createDocumentHashPayload(document)
    /\ hashed.utf8 # Unpatched => IsHandleOf(hashed.utf8, document)

\* A document that is written again.
LEMMA HashedAgain ==
  ASSUME NEW document, NEW next, SameContent(document, next)
  PROVE  IsHashedFor(hashPatched(document, Unpatched), next)
<1>1. hashPatched(document, Unpatched) =
        [hash |-> computeDocumentHash(document),
         payload |-> createDocumentHashPayload(document), utf8 |-> Unpatched]
  BY DEF hashPatched
<1>2. /\ createDocumentHashPayload(document) = createDocumentHashPayload(next)
      /\ computeDocumentHash(document) = computeDocumentHash(next)
  BY SameContentSame
<1> QED
  BY <1>1, <1>2 DEF IsHashedFor

\* What one Operation makes of a document differs in one text.
LEMMA OneTextDiffers ==
  ASSUME NEW document, IsReadable(document), NEW next, IsReadable(next),
         Carries(document, next), NEW applied, next.root = applied.root,
         NEW t, IsAppliedAt(document.root, applied, t)
  PROVE  IsNextDocument(document, next, t)
<1> DEFINE tree == document.root
           other == next.root
           claims == document.academicGraph.claims
           nextClaims == next.academicGraph.claims
<1>1. /\ HasJson(document) /\ HasJson(next)
      /\ GraphIsSound(document.academicGraph, treeEntityIds(tree))
  BY DEF IsReadable
<1>2. ClaimsHaveIds(next)
  BY ReadableClaims
<1>3. DOMAIN other = DOMAIN tree
  BY DEF Carries, TreeIsCarried
<1>4. IsWritten(other) /\ isString(claims)
  BY <1>1 DEF HasJson
<1>5. DiffersAt(tree, other, t)
  BY <1>3, <1>4 DEF IsAppliedAt, DiffersAt
<1>6. next.academicGraph.referenceSnapshots = document.academicGraph.referenceSnapshots
  BY <1>1 DEF Carries, HasTheRestOf, GraphIsSound
<1>7. /\ nextClaims = [i \in DOMAIN claims |-> nextClaims[i]]
      /\ \A i \in DOMAIN claims : nextClaims[i].id = claims[i].id
  BY DEF Carries
<1> HIDE DEF claims, nextClaims
<1>8. Len(nextClaims) = Len(claims)
  BY <1>4, <1>7, SameClaims
<1> QED
  BY <1>1, <1>2, <1>5, <1>6, <1>8 DEF IsNextDocument, claims, nextClaims

\* The payload of a document with an exact entry, patched or written again.
LEMMA HashedByPatch ==
  ASSUME NEW before, IsReadable(before), NEW next, IsReadable(next), Carries(before, next),
         NEW document, SameContent(document, next),
         NEW entry, entry # NoEntry => IsExactEntry(entry) /\ entry.document = before,
         NEW applied, next.root = applied.root, NEW t, IsAppliedAt(before.root, applied, t)
  PROVE  IsHashedFor(computeNextDocumentHash(document, entry, applied,
                                             before.academicGraph.claims), next)
<1> DEFINE claims == before.academicGraph.claims
           replacements == replacementsOf(document, applied, claims)
           patched == IF entry = NoEntry \/ ~ hasVerifiedSources(entry, applied, claims)
                      THEN Unpatched
                      ELSE patchCanonicalDocumentPayload(entry.utf8, replacements)
<1>1. computeNextDocumentHash(document, entry, applied, claims) = hashPatched(document, patched)
  BY DEF computeNextDocumentHash
<1>2. CASE patched = Unpatched
  <2> HIDE DEF patched, claims
  <2>1. IsHashedFor(hashPatched(document, Unpatched), next)
    BY HashedAgain
  <2> QED
    BY <1>1, <1>2, <2>1 DEF claims
<1>3. CASE patched # Unpatched
  <2>1. /\ entry # NoEntry
        /\ patched = patchCanonicalDocumentPayload(entry.utf8, replacements)
    BY <1>3
  <2>2. IsHandleOf(entry.utf8, before)
    BY <2>1 DEF IsExactEntry
  <2>3. replacements = replacementsOf(next, applied, claims)
    BY SameContentSame
  <2>4. IsNextDocument(before, next, t)
    BY OneTextDiffers
  <2>5. applied.previousTextNode = before.root[t] /\ Head(applied.updatedNodes) = next.root[t]
    BY DEF IsAppliedAt
  <2> DEFINE utf8 == entry.utf8
  <2> HIDE DEF patched, replacements, utf8
  <2>6. IsHandleOf(utf8, before) /\ patched = patchCanonicalDocumentPayload(utf8, replacements)
    BY <2>1, <2>2 DEF utf8
  <2>7. IsHandleOf(patched, next)
    BY <1>3, <2>3, <2>4, <2>5, <2>6, HandleOfNext
  <2>8. patched.text = createDocumentHashPayload(next) /\ patched.bytes = encodeUtf8(patched.text)
    BY <2>7 DEF IsHandleOf
  <2>9. hashPatched(document, patched) =
            [hash |-> patched.bytes, payload |-> patched.text, utf8 |-> patched]
    BY <1>3 DEF hashPatched, hashTrustedCanonicalText
  <2>10. computeDocumentHash(next) = encodeUtf8(createDocumentHashPayload(next))
    BY DEF computeDocumentHash, hashCanonicalText
  <2>11. IsHashedFor(hashPatched(document, patched), next)
    BY <2>7, <2>8, <2>9, <2>10 DEF IsHashedFor
  <2> QED
    BY <1>1, <2>11
<1> QED
  BY <1>2, <1>3

-----------------------------------------------------------------------------
(* What the kernel writes, and what it stages. *)

\* An entry of the new Snapshot that says of its document what reading it would say.
StagesExactly(options, c, d, document) ==
    \/ d = c
    \/ \E entry :
          /\ IsEntryOf(entry, options.object)
          /\ IsExactEntry(entry) /\ entry.document = document
          /\ d = cacheKernelDerived(c, options.headSnapshot.object, entry)

IsHashed(document) == document.documentHash = computeDocumentHash(document)

KernelWrites(options, c, r) ==
    r.type = "ok" =>
        /\ IsReadable(r.value.snapshot.document) /\ IsHashed(r.value.snapshot.document)
        /\ StagesExactly(options, c, r.value.cache, r.value.snapshot.document)

\* What a new Snapshot holds of the document it is made of.
IsMadeOf(snapshot, document, options, hashed) ==
    /\ snapshot.object = options.object
    /\ SameContent(document, snapshot.document)
    /\ snapshot.document.documentHash = hashed.hash

\* The next Snapshot is made of the next document.
LEMMA SnapshotIsMade ==
  ASSUME NEW options, IsDocument(options.headSnapshot.document), NEW root, NEW claims, NEW hashed
  PROVE  LET document == NextDocument(options, root, claims)
         IN  /\ IsMadeOf(NextSnapshot(options, document, hashed), document, options, hashed)
             /\ document.root = root
             /\ "metadata" \in DOMAIN options.headSnapshot.document =>
                    NextSnapshot(options, document, hashed).document.metadata = document.metadata
<1> DEFINE before == options.headSnapshot.document
           document == NextDocument(options, root, claims)
           snapshot == NextSnapshot(options, document, hashed)
<1>1. document = [before EXCEPT !.revisionId = options.nextRevisionId, !.root = root,
                                !.academicGraph.claims = claims]
  BY DEF NextDocument
<1>2. IsDocument(before)
  OBVIOUS
<1> HIDE DEF document, before
<1>3. /\ DOMAIN document = DOMAIN before
      /\ document.root = root
  BY <1>1, <1>2 DEF IsDocument
<1>4. {"revisionId", "documentHash", "root", "academicGraph"} \subseteq DOMAIN document
  BY <1>2, <1>3 DEF IsDocument
<1>5. snapshot = [object |-> options.object,
                  document |-> [document EXCEPT !.documentHash = hashed.hash]]
  BY DEF NextSnapshot
<1> HIDE DEF snapshot
<1>6. /\ snapshot.object = options.object
      /\ snapshot.document.root = document.root
      /\ snapshot.document.academicGraph = document.academicGraph
      /\ snapshot.document.documentHash = hashed.hash
      /\ "metadata" \in DOMAIN before => snapshot.document.metadata = document.metadata
  BY <1>3, <1>4, <1>5
<1> QED
  BY <1>3, <1>6 DEF IsMadeOf, SameContent, snapshot, document, before

\* A result with what was written is one.
LEMMA PreparedWrites ==
  ASSUME NEW options, NEW c, NEW snapshot, NEW document, NEW hashed,
         IsMadeOf(snapshot, document, options, hashed),
         IsReadable(snapshot.document), IsHashedFor(hashed, snapshot.document),
         NEW index, IndexFits(index, snapshot.document.root),
         SameLinks(index, freshIndex(snapshot.document)),
         NEW operations, NEW applications, NEW map,
         NEW d, d \in {c, stageDerived(c, options.headSnapshot, snapshot, index, hashed)}
  PROVE  KernelWrites(options, c,
                      Prepared(options, snapshot, operations, applications, map, d))
<1> DEFINE r == Prepared(options, snapshot, operations, applications, map, d)
           payload == hashed.payload
           utf8 == hashed.utf8
           entry == derivedEntry(snapshot, index, payload, utf8)
<1>1. /\ r.value.snapshot = snapshot
      /\ r.value.cache = d
  BY DEF Prepared, Ok
<1>2. IsHashed(snapshot.document)
  BY DEF IsHashed, IsHashedFor, IsMadeOf
<1>3. /\ payload = createDocumentHashPayload(snapshot.document)
      /\ utf8 # Unpatched => IsHandleOf(utf8, snapshot.document)
  BY DEF IsHashedFor
<1>4. d = c \/ d = cacheKernelDerived(c, options.headSnapshot.object, entry)
  <2> HIDE DEF entry, payload, utf8
  <2> QED
    BY DEF stageDerived, entry, payload, utf8
<1>5. IsEntryOf(entry, options.object)
  BY DEF derivedEntry, IsEntryOf, IsMadeOf
<1> HIDE DEF payload, utf8
<1>6. IsExactEntry(entry) /\ entry.document = snapshot.document
  BY <1>3, DerivedEntryIsExact
<1> HIDE DEF entry, r
<1>7. StagesExactly(options, c, d, snapshot.document)
  BY <1>4, <1>5, <1>6 DEF StagesExactly
<1>8. KernelWrites(options, c, r)
  BY <1>1, <1>2, <1>7 DEF KernelWrites
<1> QED
  BY <1>8 DEF r

\* The links of an index that has those of another one.
LEMMA SameLinksTwice ==
  ASSUME NEW index, NEW middle, NEW other, SameLinks(index, middle), SameLinks(middle, other)
  PROVE  SameLinks(index, other)
BY DEF SameLinks

\* Links that agree with the same index agree.
LEMMA SameLinksBack ==
  ASSUME NEW index, NEW middle, NEW other, SameLinks(index, middle), SameLinks(other, middle)
  PROVE  SameLinks(index, other)
BY DEF SameLinks

\* One Operation: its payload may be patched.
LEMMA SingleWrites ==
  ASSUME NEW options, IsReadable(options.headSnapshot.document), NEW c,
         NEW index, IndexFits(index, options.headSnapshot.document.root),
         SameLinks(index, freshIndex(options.headSnapshot.document)),
         NEW entry,
         entry # NoEntry =>
            IsExactEntry(entry) /\ entry.document = options.headSnapshot.document,
         NEW operation, isString(operation.replacement), NEW map,
         NEW r, r = prepareReplaceTextTransaction(options, c, index, entry, operation, map),
         r.type = "ok",
         Carries(options.headSnapshot.document, r.value.snapshot.document)
  PROVE  KernelWrites(options, c, r)
<1> DEFINE before == options.headSnapshot.document
           tree == before.root
           result == applyReplaceText(tree, index, operation, <<options.object, 1>>)
           rebased == rebase(options, map)
           Done(applied, claims) ==
              hashSingle(options, c, index, entry, operation, applied, map,
                         NextDocument(options, applied.root, claims))
<1>1. /\ result.type = "ok" /\ rebased.type = "ok"
      /\ r = Done(result.value, rebased.value)
  <2> HIDE DEF Done, result, rebased
  <2>1. r = IF ~ validateReplaceTextOptions(positionMapStep(operation))
            THEN Thrown
            ELSE IF result.type = "ok"
            THEN IF rebased.type = "ok" THEN Done(result.value, rebased.value) ELSE rebased
            ELSE result
    BY DEF prepareReplaceTextTransaction, onOk, Done, result, rebased
  <2> QED
    BY <2>1 DEF Thrown
<1>2. IsDocument(before) /\ "metadata" \in DOMAIN before
  BY DEF IsReadable
<1>3. IsTree(tree)
  BY <1>2 DEF IsDocument
<1> DEFINE applied == result.value
           claims == rebased.value
           document == NextDocument(options, applied.root, claims)
           hashed == computeNextDocumentHash(document, entry, applied,
                                             before.academicGraph.claims)
           snapshot == NextSnapshot(options, document, hashed)
           next == snapshot.document
           nextIndex == withNodeReplacements(index, applied.updatedNodes)
           d == IF CanReplace(index, applied.updatedNodes)
                THEN stageDerived(c, options.headSnapshot, snapshot, nextIndex, hashed)
                ELSE c
<1>4. Replaces(tree, applied.root, operation) /\ IndexFits(nextIndex, applied.root)
  <2> HIDE DEF tree
  <2> QED
    BY <1>1, <1>3, ApplyIsExact DEF tree
<1>5. PICK t : IsAppliedAt(tree, applied, t)
  <2> HIDE DEF tree
  <2> QED
    BY <1>1, <1>3, AppliedText DEF tree
<1>6. r = Prepared(options, snapshot, <<operation>>, <<applied>>, map, d)
  BY <1>1 DEF hashSingle, finishSingle, stageVerifiedDerivedSnapshot
<1>7. d \in {c, stageDerived(c, options.headSnapshot, snapshot, nextIndex, hashed)}
  OBVIOUS
<1>8. r.value.snapshot = snapshot
  <2> HIDE DEF snapshot, d, applied
  <2> QED
    BY <1>6 DEF Prepared, Ok
<1>9. /\ IsMadeOf(snapshot, document, options, hashed)
      /\ document.root = applied.root
  <2> DEFINE root == applied.root
  <2>1. IsDocument(options.headSnapshot.document)
    BY <1>2
  <2> HIDE DEF hashed, claims, root
  <2>2. /\ IsMadeOf(NextSnapshot(options, NextDocument(options, root, claims), hashed),
                    NextDocument(options, root, claims), options, hashed)
        /\ NextDocument(options, root, claims).root = root
    BY <2>1, SnapshotIsMade
  <2> QED
    BY <2>2 DEF root
<1> HIDE DEF d, hashed, nextIndex, result, snapshot, document, claims, applied
<1>10. Carries(before, next)
  BY <1>8
<1>11. IsReadable(next) /\ SameLinks(freshIndex(next), freshIndex(before))
  BY <1>10, NextIsReadable
<1>12. SameContent(document, next) /\ next.root = applied.root
  BY <1>9 DEF IsMadeOf, SameContent
<1>13. IsHashedFor(hashed, next)
  <2> DEFINE made == computeNextDocumentHash(document, entry, applied,
                                             before.academicGraph.claims)
  <2>1. hashed = made
    BY DEF hashed
  <2> HIDE DEF made, next, before, tree
  <2>2. IsAppliedAt(before.root, applied, t)
    BY <1>5 DEF tree
  <2>3. IsReadable(before) /\ (entry # NoEntry => IsExactEntry(entry) /\ entry.document = before)
    BY DEF before
  <2>4. IsHashedFor(computeNextDocumentHash(document, entry, applied,
                                            before.academicGraph.claims), next)
    BY <1>10, <1>11, <1>12, <2>2, <2>3, HashedByPatch
  <2> QED
    BY <2>1, <2>4 DEF made
<1>14. SameLinks(nextIndex, freshIndex(next))
  <2>1. IsIndex(index)
    BY DEF IndexFits
  <2>2. SameLinks(nextIndex, freshIndex(before))
    BY <2>1, LinksStay DEF nextIndex
  <2> QED
    BY <1>11, <2>2, SameLinksBack
<1>15. IndexFits(nextIndex, next.root)
  BY <1>4, <1>12
<1> HIDE DEF before, tree
<1>16. KernelWrites(options, c, Prepared(options, snapshot, <<operation>>, <<applied>>, map, d))
  BY <1>7, <1>9, <1>11, <1>13, <1>14, <1>15, PreparedWrites
<1> QED
  BY <1>6, <1>16

-----------------------------------------------------------------------------
(* Transactions of several Operations, and the kernel. *)

\* The index is read from the tree, the claims and the entities, and the metadata.
LEMMA SameContentIndex ==
  ASSUME NEW document, NEW other, SameContent(document, other),
         document.metadata = other.metadata
  PROVE  freshIndex(document) = freshIndex(other)
<1> DEFINE Of(tree, entities) ==
              LET ids == {tree[p].id : p \in DOMAIN tree}
              IN  [base |-> [id \in ids |-> tree[placeOf(tree, id)]],
                   parents |-> [id \in ids \ {tree[1].id} |->
                                   parentLink(tree, placeOf(tree, id))],
                   entities |-> entities,
                   layers |-> <<>>]
           Entities(metadata, graph, tree) ==
              authorEntityIds(metadata) \cup academicEntityIds(graph) \cup treeEntityIds(tree)
<1>1. \A x : freshIndex(x) = Of(x.root, Entities(x.metadata, x.academicGraph, x.root))
  BY DEF freshIndex, createDocumentIndexFromValidatedSnapshot, indexEntityIds
<1> HIDE DEF Of, Entities
<1> QED
  BY <1>1 DEF SameContent

\* A fresh index has its own links.
LEMMA FreshLinks ==
  ASSUME NEW document
  PROVE  SameLinks(freshIndex(document), freshIndex(document))
<1> DEFINE index == freshIndex(document)
<1>1. "entities" \in DOMAIN index
  BY DEF freshIndex, createDocumentIndexFromValidatedSnapshot
<1> HIDE DEF index
<1>2. SameLinks(index, index)
  BY <1>1 DEF SameLinks
<1> QED
  BY <1>2 DEF index

\* Several Operations: the document is written again.
LEMMA MultipleWrites ==
  ASSUME NEW options, IsReadable(options.headSnapshot.document), NEW c,
         NEW index, IndexFits(index, options.headSnapshot.document.root),
         NEW operations, NEW map,
         NEW r, r = prepareMultipleReplaceTextTransaction(options, c, index, operations, map),
         r.type = "ok",
         Carries(options.headSnapshot.document, r.value.snapshot.document)
  PROVE  KernelWrites(options, c, r)
<1> DEFINE before == options.headSnapshot.document
           tree == before.root
           result == applyInOrder(tree, index, operations, options.object)
           rebased == rebase(options, map)
           Done(draft, claims) ==
              hashMultiple(options, c, operations, draft, map,
                           NextDocument(options, draft.root, claims))
<1>1. r = Done(result.value, rebased.value)
  <2> HIDE DEF Done, result, rebased
  <2>1. r = IF result.type = "ok"
            THEN IF rebased.type = "ok" THEN Done(result.value, rebased.value) ELSE rebased
            ELSE result
    BY DEF prepareMultipleReplaceTextTransaction, onOk, Done, result, rebased
  <2> QED
    BY <2>1
<1> DEFINE draft == result.value
           claims == rebased.value
           root == draft.root
           applications == draft.applications
           document == NextDocument(options, root, claims)
           hashed == hashPatched(document, Unpatched)
           snapshot == NextSnapshot(options, document, hashed)
           next == snapshot.document
           fresh == freshIndex(document)
           d == stageDerived(c, options.headSnapshot, snapshot, fresh, hashed)
           prepared == Prepared(options, snapshot, operations, applications, map, d)
<1>2. r = prepared
  <2>1. Done(draft, claims) = IF validateDocumentSnapshot(document) # "ok"
                              THEN errorResult("snapshot-invalid") ELSE prepared
    BY DEF hashMultiple, finishMultiple, freshIndex
  <2> HIDE DEF Done, prepared, document, draft, claims
  <2>2. r = Done(draft, claims)
    BY <1>1 DEF draft, claims
  <2> QED
    BY <2>1, <2>2 DEF errorResult
<1>3. IsDocument(before) /\ "metadata" \in DOMAIN before
  BY DEF IsReadable
<1>4. d \in {c, stageDerived(c, options.headSnapshot, snapshot, fresh, hashed)}
  OBVIOUS
<1>5. /\ IsMadeOf(snapshot, document, options, hashed)
      /\ snapshot.document.metadata = document.metadata
  <2>1. IsDocument(options.headSnapshot.document)
        /\ "metadata" \in DOMAIN options.headSnapshot.document
    BY <1>3
  <2> HIDE DEF hashed, claims, root
  <2>2. LET made == NextDocument(options, root, claims)
        IN  /\ IsMadeOf(NextSnapshot(options, made, hashed), made, options, hashed)
            /\ NextSnapshot(options, made, hashed).document.metadata = made.metadata
    BY <2>1, SnapshotIsMade
  <2> QED
    BY <2>2
<1>6. r.value.snapshot = snapshot
  <2> HIDE DEF snapshot, d, applications
  <2> QED
    BY <1>2 DEF Prepared, Ok
<1> HIDE DEF d, fresh, snapshot, hashed, document, applications
<1>7. Carries(before, next)
  BY <1>6
<1>8. IsReadable(next)
  BY <1>7, NextIsReadable
<1>9. SameContent(document, next)
  BY <1>5 DEF IsMadeOf
<1>10. IsHashedFor(hashed, next)
  BY <1>9, HashedAgain DEF hashed
<1>11. fresh = freshIndex(next)
  BY <1>5, <1>9, SameContentIndex DEF fresh
<1>12. IndexFits(fresh, next.root)
  <2> HIDE DEF next
  <2>1. IsTree(next.root)
    BY <1>8 DEF IsReadable, IsDocument
  <2> QED
    BY <1>11, <2>1, FreshIndexFits DEF freshIndex
<1>13. SameLinks(fresh, freshIndex(next))
  <2> HIDE DEF next
  <2>1. SameLinks(freshIndex(next), freshIndex(next))
    BY FreshLinks
  <2> QED
    BY <1>11, <2>1
<1>14. KernelWrites(options, c, Prepared(options, snapshot, operations, applications, map, d))
  <2> HIDE DEF before
  <2> QED
    BY <1>4, <1>5, <1>8, <1>10, <1>12, <1>13, PreparedWrites
<1> QED
  BY <1>2, <1>14

\* The entry of the head, if there is one, says of the head what reading it would say.
VerifiedIsExact(c, snapshot) ==
    snapshot.object \in DOMAIN c.verified =>
        /\ IsExactEntry(c.verified[snapshot.object])
        /\ c.verified[snapshot.object].document = snapshot.document

\* What the kernel accepts can be read, is hashed, and is staged as what it is.
LEMMA KernelIsWritten ==
  ASSUME NEW options, IsReadable(options.headSnapshot.document), NEW c,
         VerifiedIsExact(c, options.headSnapshot)
  PROVE  KernelWrites(options, c, prepareKernelTransaction(options, c))
<1> DEFINE document == options.headSnapshot.document
           object == options.headSnapshot.object
           entry == getVerified(c, object)
           index == readDocumentIndex(document, entry)
           operations == options.request.json.operations
           map == positionMapOf(options, operations)
           r == prepareKernelTransaction(options, c)
<1> SUFFICES ASSUME r.type = "ok" PROVE KernelWrites(options, c, r)
  BY DEF KernelWrites
<1>1. VerifiedFits(c, object, document.root)
  BY DEF VerifiedIsExact, VerifiedFits, IsExactEntry
<1>2. /\ KernelExact(options, c, r)
      /\ IsOperations(operations)
      /\ Len(operations) \in Nat \ {0}
  <2>1. IsDocument(document)
    BY DEF IsReadable
  <2> QED
    BY <1>1, <2>1, KernelIsExact
<1>3. Carries(document, r.value.snapshot.document)
  BY <1>1, KernelCarries
<1>4. r = prepareOperations(options, c, index, entry, operations)
  <2> DEFINE request == options.request
             decoded == decodeStrictTransactionV1(request)
             consistent == validateHeadConsistency(options)
             headed == IF entry # NoEntry THEN "ok" ELSE validateUncachedHead(document)
             preconditions == validatePreconditions(request.json.preconditions, document, index)
             supported == readSupportedOperations(operations)
             made == prepareOperations(options, c, index, entry, operations)
  <2>1. r = onVerdict(andThen(decoded, andThen(consistent, headed)),
                      onVerdict(andThen(preconditions, supported), made))
    BY DEF prepareKernelTransaction, prepareOnHead, prepareOnIndex
  <2>2. r.type = "ok"
    OBVIOUS
  <2> HIDE DEF r, decoded, consistent, headed, preconditions, supported, made
  <2>3. r = made
    BY <2>1, <2>2 DEF onVerdict, andThen, errorResult
  <2> QED
    BY <2>3 DEF made
<1>5. entry # NoEntry => entry = c.verified[object] /\ object \in DOMAIN c.verified
  BY DEF getVerified, isVerified
<1>6. entry # NoEntry => IsExactEntry(entry) /\ entry.document = document
  <2> HIDE DEF entry
  <2> QED
    BY <1>5 DEF VerifiedIsExact
<1>7. IndexFits(index, document.root) /\ SameLinks(index, freshIndex(document))
  <2>1. CASE entry = NoEntry
    <3>1. index = freshIndex(document)
      BY <2>1 DEF readDocumentIndex, freshIndex
    <3>2. IsTree(document.root)
      BY DEF IsReadable, IsDocument
    <3> HIDE DEF document, index
    <3>3. IndexFits(index, document.root)
      BY <3>1, <3>2, FreshIndexFits DEF freshIndex
    <3>4. SameLinks(freshIndex(document), freshIndex(document))
      BY FreshLinks
    <3> QED
      BY <3>1, <3>3, <3>4
  <2>2. CASE entry # NoEntry
    <3>1. index = entry.index
      BY <2>2 DEF readDocumentIndex
    <3> HIDE DEF entry, index
    <3> QED
      BY <1>6, <2>2, <3>1 DEF IsExactEntry
  <2> QED
    BY <2>1, <2>2
<1> HIDE DEF r, entry, index, map
<1>8. CASE Len(operations) > 1
  <2>1. r = prepareMultipleReplaceTextTransaction(options, c, index, operations, map)
    BY <1>4, <1>8 DEF prepareOperations, map
  <2> QED
    BY <1>3, <1>7, <2>1, MultipleWrites
<1>9. CASE ~ (Len(operations) > 1)
  <2>1. r = prepareReplaceTextTransaction(options, c, index, entry, operations[1], map)
    BY <1>4, <1>9 DEF prepareOperations, map
  <2>2. Len(operations) = 1
    <3>1. \A n \in Nat \ {0} : ~ (n > 1) => n = 1
      OBVIOUS
    <3> HIDE DEF operations
    <3> QED
      BY <1>2, <1>9, <3>1
  <2>3. isString(operations[1].replacement)
    <3> HIDE DEF operations
    <3> QED
      BY <1>2, <2>2 DEF IsOperations
  <2> QED
    BY <1>3, <1>6, <1>7, <2>1, <2>3, SingleWrites
<1> QED
  BY <1>8, <1>9

-----------------------------------------------------------------------------
(* What the cache counts. *)

\* The entries are a function, as those of a Map are.
IsMap(c) == c.verified = [s \in DOMAIN c.verified |-> c.verified[s]]

\* What a Snapshot adds to the count.
Costs(c, snapshot) ==
    IF snapshot \in DOMAIN c.verified THEN c.verified[snapshot].length ELSE 0

\* A cache that holds nothing but the entry of the object counts what it has of it.
CountsOnly(c, object) ==
    /\ IsMap(c)
    /\ DOMAIN c.verified \subseteq {object}
    /\ \A s \in DOMAIN c.verified : c.verified[s].length \in Nat
    /\ c.retainedCodeUnits = Costs(c, object)

\* What is staged is not counted.
LEMMA RetireProvisionalCount ==
  ASSUME NEW c, IsCache(c), NEW snapshot
  PROVE  LET d == retireProvisional(c, snapshot)
         IN  d.retainedCodeUnits = c.retainedCodeUnits /\ d.verified = c.verified
<1>1. c = [verified |-> c.verified, provisional |-> c.provisional, bySource |-> c.bySource,
           identities |-> c.identities, activeEntryCount |-> c.activeEntryCount,
           retainedCodeUnits |-> c.retainedCodeUnits]
  BY DEF IsCache
<1>2. {"verified", "provisional", "bySource", "identities", "retainedCodeUnits"}
         \subseteq DOMAIN c
  BY <1>1
<1>3. \A provisional, bySource, identities :
        LET d == [c EXCEPT !.provisional = provisional, !.bySource = bySource,
                           !.identities = identities]
        IN  d.retainedCodeUnits = c.retainedCodeUnits /\ d.verified = c.verified
  BY <1>2
<1> QED
  BY <1>3 DEF retireProvisional

\* An entry that goes is not counted any more.
LEMMA DropVerifiedCount ==
  ASSUME NEW c, IsCache(c), IsMap(c), NEW snapshot
  PROVE  LET d == dropVerified(c, snapshot)
         IN  /\ IsMap(d)
             /\ IF snapshot \in DOMAIN c.verified
                THEN d.retainedCodeUnits = c.retainedCodeUnits - c.verified[snapshot].length
                ELSE d.retainedCodeUnits = c.retainedCodeUnits
<1> DEFINE d == dropVerified(c, snapshot)
           entry == c.verified[snapshot]
<1>1. isVerified(c, snapshot) <=> snapshot \in DOMAIN c.verified
  BY DEF isVerified, IsCache, Consistent
<1>2. CASE snapshot \notin DOMAIN c.verified
  BY <1>1, <1>2 DEF dropVerified
<1>3. CASE snapshot \in DOMAIN c.verified
  <2>1. d = [c EXCEPT !.verified = Without(@, snapshot),
                      !.identities = @ \ {entry.identity},
                      !.activeEntryCount = @ - 1,
                      !.retainedCodeUnits = @ - entry.length]
    BY <1>1, <1>3 DEF dropVerified
  <2>2. d = [verified |-> Without(c.verified, snapshot), provisional |-> c.provisional,
             bySource |-> c.bySource,
             identities |-> c.identities \ {entry.identity},
             activeEntryCount |-> c.activeEntryCount - 1,
             retainedCodeUnits |-> c.retainedCodeUnits - entry.length]
    BY <2>1 DEF IsCache
  <2> HIDE DEF d
  <2>3. /\ d.verified = Without(c.verified, snapshot)
        /\ d.retainedCodeUnits = c.retainedCodeUnits - entry.length
    BY <2>2
  <2>4. IsMap(d)
    BY <2>3 DEF IsMap, Without
  <2> QED
    BY <1>3, <2>3, <2>4 DEF d
<1> QED
  BY <1>2, <1>3

\* Retiring a Snapshot.
LEMMA RetireVerifiedCount ==
  ASSUME NEW c, IsCache(c), IsMap(c), NEW snapshot
  PROVE  LET d == retireVerified(c, snapshot)
         IN  /\ IsMap(d)
             /\ IF snapshot \in DOMAIN c.verified
                THEN d.retainedCodeUnits = c.retainedCodeUnits - c.verified[snapshot].length
                ELSE d.retainedCodeUnits = c.retainedCodeUnits
<1> DEFINE d1 == dropVerified(c, snapshot)
           d2 == retireProvisional(d1, snapshot)
           d3 == retireDerivedOf(d2, snapshot)
<1>1. Retires(c, d1, {})
  BY DropVerified
<1>2. /\ IsMap(d1)
      /\ IF snapshot \in DOMAIN c.verified
         THEN d1.retainedCodeUnits = c.retainedCodeUnits - c.verified[snapshot].length
         ELSE d1.retainedCodeUnits = c.retainedCodeUnits
  BY DropVerifiedCount
<1> HIDE DEF d1
<1>3. IsCache(d1)
  BY <1>1 DEF Retires
<1>4. /\ d2.retainedCodeUnits = d1.retainedCodeUnits /\ d2.verified = d1.verified
      /\ IsCache(d2)
  BY <1>3, RetireProvisional, RetireProvisionalCount DEF Retires
<1> HIDE DEF d2
<1>5. d3.retainedCodeUnits = d2.retainedCodeUnits /\ d3.verified = d2.verified
  BY <1>4, RetireProvisionalCount DEF retireDerivedOf
<1> HIDE DEF d3
<1>6. retireVerified(c, snapshot) = d3
  BY DEF retireVerified, d1, d2, d3
<1> QED
  BY <1>2, <1>4, <1>5, <1>6 DEF IsMap

\* Installing an entry of a Snapshot without one.
LEMMA InstallCount ==
  ASSUME NEW c, IsCache(c), IsMap(c), NEW snapshot, snapshot \notin DOMAIN c.verified,
         NEW entry, entry.snapshot = snapshot
  PROVE  LET d == installCache(c, entry)
         IN  IsMap(d) /\ d.retainedCodeUnits = c.retainedCodeUnits + entry.length
<1> DEFINE e == retireVerified(c, snapshot)
           d == installCache(c, entry)
<1>1. IsCache(e) /\ e.retainedCodeUnits = c.retainedCodeUnits
  BY RetireVerified, RetireVerifiedCount DEF Retires
<1>2. d = [e EXCEPT !.identities = @ \cup {entry.identity},
                    !.verified = With(@, snapshot, entry),
                    !.activeEntryCount = @ + 1,
                    !.retainedCodeUnits = @ + entry.length]
  BY DEF installCache
<1> HIDE DEF e
<1>3. d = [verified |-> With(e.verified, snapshot, entry), provisional |-> e.provisional,
           bySource |-> e.bySource, identities |-> e.identities \cup {entry.identity},
           activeEntryCount |-> e.activeEntryCount + 1,
           retainedCodeUnits |-> e.retainedCodeUnits + entry.length]
  BY <1>1, <1>2 DEF IsCache
<1> HIDE DEF d
<1>4. /\ d.verified = With(e.verified, snapshot, entry)
      /\ d.retainedCodeUnits = e.retainedCodeUnits + entry.length
  BY <1>3
<1>5. IsMap(d)
  BY <1>4 DEF IsMap, With
<1> QED
  BY <1>1, <1>4, <1>5 DEF d

\* Staging an entry.
LEMMA StagingCount ==
  ASSUME NEW c, IsCache(c), NEW source, NEW entry
  PROVE  cacheKernelDerived(c, source, entry).retainedCodeUnits = c.retainedCodeUnits
<1> DEFINE snapshot == entry.snapshot
           e == makeRoomFor(c, source, snapshot)
           d == cacheKernelDerived(c, source, entry)
<1>1. CASE ~ CanStage(c, source, snapshot)
  BY <1>1 DEF cacheKernelDerived
<1>2. CASE CanStage(c, source, snapshot)
  <2> DEFINE f == retireProvisional(c, c.bySource[source])
  <2>1. IsCache(f) /\ f.retainedCodeUnits = c.retainedCodeUnits
    BY RetireProvisional, RetireProvisionalCount DEF Retires
  <2> HIDE DEF f
  <2>2. /\ IsCache(retireProvisional(f, snapshot))
        /\ retireProvisional(f, snapshot).retainedCodeUnits = f.retainedCodeUnits
        /\ IsCache(retireProvisional(c, snapshot))
        /\ retireProvisional(c, snapshot).retainedCodeUnits = c.retainedCodeUnits
    BY <2>1, RetireProvisional, RetireProvisionalCount DEF Retires
  <2>3. e \in {retireProvisional(f, snapshot), retireProvisional(c, snapshot)}
    BY DEF makeRoomFor, f
  <2>4. d = [e EXCEPT !.identities = @ \cup {entry.identity},
                      !.provisional = With(@, snapshot, [source |-> source, entry |-> entry]),
                      !.bySource = With(@, source, snapshot)]
    BY <1>2 DEF cacheKernelDerived
  <2> HIDE DEF e, d
  <2>5. IsCache(e) /\ e.retainedCodeUnits = c.retainedCodeUnits
    BY <2>1, <2>2, <2>3
  <2>6. e = [verified |-> e.verified, provisional |-> e.provisional, bySource |-> e.bySource,
             identities |-> e.identities, activeEntryCount |-> e.activeEntryCount,
             retainedCodeUnits |-> e.retainedCodeUnits]
    BY <2>5 DEF IsCache
  <2>7. "retainedCodeUnits" \in DOMAIN e
    BY <2>6
  <2>8. d.retainedCodeUnits = e.retainedCodeUnits
    BY <2>4, <2>7
  <2> QED
    BY <2>5, <2>8 DEF d
<1> QED
  BY <1>1, <1>2

\* Retiring any Snapshot leaves a cache that counts what it has of the object.
LEMMA RetiringCounts ==
  ASSUME NEW c, IsCache(c), NEW object, CountsOnly(c, object), NEW snapshot
  PROVE  CountsOnly(retireVerified(c, snapshot), object)
<1> DEFINE d == retireVerified(c, snapshot)
<1>1. /\ DOMAIN d.verified = DOMAIN c.verified \ {snapshot}
      /\ \A s \in DOMAIN d.verified : d.verified[s] = c.verified[s]
  BY RetireVerified
<1>2. /\ IsMap(d)
      /\ IF snapshot \in DOMAIN c.verified
         THEN d.retainedCodeUnits = c.retainedCodeUnits - c.verified[snapshot].length
         ELSE d.retainedCodeUnits = c.retainedCodeUnits
  BY RetireVerifiedCount DEF CountsOnly
<1> HIDE DEF d
<1>3. \A s \in DOMAIN d.verified : d.verified[s].length \in Nat
  BY <1>1 DEF CountsOnly
<1>4. CASE snapshot \in DOMAIN c.verified
  <2>1. /\ snapshot = object /\ DOMAIN d.verified = {}
        /\ c.verified[snapshot].length \in Nat
        /\ c.retainedCodeUnits = c.verified[snapshot].length
    BY <1>1, <1>4 DEF CountsOnly, Costs
  <2>2. \A n \in Nat : n - n = 0
    OBVIOUS
  <2>3. d.retainedCodeUnits = 0
    BY <1>2, <1>4, <2>1, <2>2
  <2> QED
    BY <1>2, <1>3, <2>1, <2>3 DEF CountsOnly, Costs, d
<1>5. CASE snapshot \notin DOMAIN c.verified
  <2>1. Costs(d, object) = Costs(c, object)
    BY <1>1, <1>5 DEF Costs
  <2>2. d.retainedCodeUnits = Costs(d, object) /\ DOMAIN d.verified \subseteq {object}
    BY <1>1, <1>2, <1>5, <2>1 DEF CountsOnly
  <2> QED
    BY <1>2, <1>3, <2>2 DEF CountsOnly, d
<1> QED
  BY <1>4, <1>5

\* The entry of a new head takes the place of the one before it.
LEMMA ReplacingCounts ==
  ASSUME NEW c, IsCache(c), NEW source, CountsOnly(c, source),
         NEW snapshot, snapshot # source, NEW entry, IsEntryOf(entry, snapshot),
         entry.length \in Nat
  PROVE  CountsOnly(retireVerified(installCache(c, entry), source), snapshot)
<1> DEFINE e == installCache(c, entry)
           d == retireVerified(e, source)
<1>1. IsMap(c) /\ snapshot \notin DOMAIN c.verified /\ DOMAIN c.verified \subseteq {source}
  BY DEF CountsOnly
<1>2. /\ IsCache(e)
      /\ DOMAIN e.verified = DOMAIN c.verified \cup {snapshot}
      /\ e.verified[snapshot] = entry
      /\ \A s \in DOMAIN c.verified : e.verified[s] = c.verified[s]
  BY <1>1, InstallCache DEF Retires
<1>3. IsMap(e) /\ e.retainedCodeUnits = c.retainedCodeUnits + entry.length
  BY <1>1, InstallCount DEF IsEntryOf
<1> HIDE DEF e
<1>4. /\ DOMAIN d.verified = DOMAIN e.verified \ {source}
      /\ \A s \in DOMAIN d.verified : d.verified[s] = e.verified[s]
      /\ IsMap(d)
      /\ IF source \in DOMAIN e.verified
         THEN d.retainedCodeUnits = e.retainedCodeUnits - e.verified[source].length
         ELSE d.retainedCodeUnits = e.retainedCodeUnits
  BY <1>2, <1>3, RetireVerified, RetireVerifiedCount
<1> HIDE DEF d
<1>5. DOMAIN d.verified = {snapshot} /\ d.verified[snapshot] = entry
  BY <1>1, <1>2, <1>4
<1>6. d.retainedCodeUnits = entry.length
  <2>1. CASE source \in DOMAIN c.verified
    <3>1. /\ c.verified[source].length \in Nat
          /\ c.retainedCodeUnits = c.verified[source].length
          /\ e.verified[source] = c.verified[source] /\ source \in DOMAIN e.verified
      BY <1>2, <2>1 DEF CountsOnly, Costs
    <3>2. \A m, n \in Nat : (m + n) - m = n
      OBVIOUS
    <3> QED
      BY <1>3, <1>4, <3>1, <3>2
  <2>2. CASE source \notin DOMAIN c.verified
    <3>1. c.retainedCodeUnits = 0 /\ source \notin DOMAIN e.verified
      BY <1>2, <2>2 DEF CountsOnly, Costs
    <3>2. \A n \in Nat : 0 + n = n
      OBVIOUS
    <3> QED
      BY <1>3, <1>4, <3>1, <3>2
  <2> QED
    BY <2>1, <2>2
<1>7. CountsOnly(d, snapshot)
  BY <1>4, <1>5, <1>6 DEF CountsOnly, Costs
<1> QED
  BY <1>7 DEF d, e

-----------------------------------------------------------------------------
(* The cache after a commit, and after all was retired. *)

\* An exact entry is as long as a text.
LEMMA ExactEntryLength ==
  ASSUME NEW entry, IsExactEntry(entry)
  PROVE  entry.length \in Nat
<1> DEFINE document == entry.document
           payload == createDocumentHashPayload(document)
<1>1. IsReadable(document) /\ entry.length = Len(payload)
  BY DEF IsExactEntry
<1>2. isString(payload)
  <2>1. HasJson(document)
    BY <1>1 DEF IsReadable
  <2> HIDE DEF document
  <2> QED
    BY <2>1, PayloadOfParts
<1> HIDE DEF payload
<1>3. Len(payload) \in Nat
  BY <1>2, LenProperties DEF isString
<1> QED
  BY <1>1, <1>3

\* Where there is no entry, whose entry there could be does not matter.
LEMMA NoEntryCounts ==
  ASSUME NEW c, NEW object, CountsOnly(c, object), DOMAIN c.verified = {}, NEW other
  PROVE  CountsOnly(c, other)
BY DEF CountsOnly, Costs

\* What is verified is the entry of the Snapshot, and is counted; what is staged stays as it was.
TakesOver(c, d, snapshot) ==
    /\ CountsOnly(d, snapshot.object)
    /\ VerifiedIsExact(d, snapshot)
    /\ DOMAIN d.provisional \subseteq DOMAIN c.provisional
    /\ \A s \in DOMAIN d.provisional : d.provisional[s] = c.provisional[s]

\* An entry of the new head is installed and the one before it retired.
LEMMA EntryTakesOver ==
  ASSUME NEW c, IsCache(c), NEW previous, NEW snapshot, previous # snapshot.object,
         CountsOnly(c, previous), NEW entry, IsEntryOf(entry, snapshot.object),
         IsExactEntry(entry), entry.document = snapshot.document
  PROVE  TakesOver(c, retireVerified(installCache(c, entry), previous), snapshot)
<1> DEFINE object == snapshot.object
           e == installCache(c, entry)
           d == retireVerified(e, previous)
<1>1. CountsOnly(d, object)
  BY ExactEntryLength, ReplacingCounts
<1>2. /\ Retires(c, e, GoesWith(c, object))
      /\ e.verified[object] = entry
  BY InstallCache
<1> HIDE DEF e
<1>3. /\ Retires(e, d, GoesWith(e, previous))
      /\ \A s \in DOMAIN d.verified : d.verified[s] = e.verified[s]
  BY <1>2, RetireVerified DEF Retires
<1> HIDE DEF d
<1>4. VerifiedIsExact(d, snapshot)
  BY <1>2, <1>3 DEF VerifiedIsExact
<1>5. /\ DOMAIN d.provisional \subseteq DOMAIN c.provisional
      /\ \A s \in DOMAIN d.provisional : d.provisional[s] = c.provisional[s]
  BY <1>2, <1>3 DEF Retires
<1> QED
  BY <1>1, <1>4, <1>5 DEF TakesOver, d, e

\* A commit: the staged entry, one of the document read again, or none.
LEMMA CommittedTakesOver ==
  ASSUME NEW c, IsCache(c), NEW previous, NEW snapshot, previous.object # snapshot.object,
         CountsOnly(c, previous.object), IsReadable(snapshot.document),
         snapshot.object \in DOMAIN c.provisional =>
            /\ IsExactEntry(c.provisional[snapshot.object].entry)
            /\ c.provisional[snapshot.object].entry.document = snapshot.document
  PROVE  TakesOver(c, activateCommittedSnapshotCache(c, previous, snapshot), snapshot)
<1> DEFINE d == activateCommittedSnapshotCache(c, previous, snapshot)
           object == snapshot.object
<1>1. object \notin DOMAIN c.verified
  BY DEF CountsOnly
<1>2. CASE CanActivate(c, previous.object, object)
  <2> DEFINE entry == c.provisional[object].entry
             c1 == retireProvisional(c, object)
  <2>1. object \in DOMAIN c.provisional /\ IsEntryOf(entry, object)
    BY <1>2 DEF CanActivate, IsCache
  <2>2. d = retireVerified(installCache(c1, entry), previous.object)
    BY <1>2 DEF activateCommittedSnapshotCache, activateKernelDerived
  <2>3. IsExactEntry(entry) /\ entry.document = snapshot.document
    BY <2>1
  <2> HIDE DEF entry
  <2>4. /\ Retires(c, c1, {object}) /\ c1.verified = c.verified
        /\ c1.retainedCodeUnits = c.retainedCodeUnits
    BY RetireProvisional, RetireProvisionalCount
  <2> HIDE DEF c1, d
  <2>5. IsCache(c1) /\ CountsOnly(c1, previous.object)
    BY <2>4 DEF Retires, CountsOnly, IsMap, Costs
  <2>6. TakesOver(c1, d, snapshot)
    BY <2>1, <2>2, <2>3, <2>5, EntryTakesOver
  <2>7. TakesOver(c, d, snapshot)
    BY <2>4, <2>6 DEF TakesOver, Retires
  <2> QED
    BY <2>7 DEF d
<1>3. CASE ~ CanActivate(c, previous.object, object)
  <2>1. CASE isCanonicalSnapshot(snapshot.document)
    <3> DEFINE entry == checkedEntry(snapshot)
    <3>1. IsEntryOf(entry, object)
      BY CheckedEntryIsItsOwn
    <3>2. IsExactEntry(entry) /\ entry.document = snapshot.document
      BY CheckedEntryIsExact
    <3>3. d = retireVerified(installCache(c, entry), previous.object)
      <4>1. cacheVerifiedFrozen(c, entry) = installCache(c, entry)
        BY <1>1, <3>1 DEF cacheVerifiedFrozen, IsEntryOf
      <4> QED
        BY <1>3, <2>1, <4>1 DEF activateCommittedSnapshotCache, verifyCommittedSnapshot
    <3> HIDE DEF entry, d
    <3>4. TakesOver(c, d, snapshot)
      BY <3>1, <3>2, <3>3, EntryTakesOver
    <3> QED
      BY <3>4 DEF d
  <2>2. CASE ~ isCanonicalSnapshot(snapshot.document)
    <3> DEFINE e == retireVerified(c, previous.object)
    <3>1. /\ Retires(c, e, GoesWith(c, previous.object))
          /\ DOMAIN e.verified = DOMAIN c.verified \ {previous.object}
      BY RetireVerified
    <3>2. CountsOnly(e, previous.object)
      BY RetiringCounts
    <3>3. d = retireVerified(e, object)
      BY <1>3, <2>2 DEF activateCommittedSnapshotCache, verifyCommittedSnapshot
    <3> HIDE DEF e, d
    <3>4. IsCache(e)
      BY <3>1 DEF Retires
    <3>5. /\ Retires(e, d, GoesWith(e, object))
          /\ DOMAIN d.verified = DOMAIN e.verified \ {object}
      BY <3>3, <3>4, RetireVerified
    <3>6. CountsOnly(d, previous.object)
      BY <3>2, <3>3, <3>4, RetiringCounts
    <3>7. DOMAIN d.verified = {}
      BY <3>1, <3>5 DEF CountsOnly
    <3>8. CountsOnly(d, object)
      BY <3>6, <3>7, NoEntryCounts
    <3>9. TakesOver(c, d, snapshot)
      BY <3>1, <3>5, <3>7, <3>8 DEF TakesOver, VerifiedIsExact, Retires
    <3> QED
      BY <3>9 DEF d
  <2> QED
    BY <2>1, <2>2
<1> QED
  BY <1>2, <1>3

\* Retiring one Snapshot after the other.
LEMMA RetiringAllCounts ==
  ASSUME NEW c, IsCache(c), NEW object, CountsOnly(c, object), NEW S, NEW objectsOf \in Seq(S)
  PROVE  CountsOnly(retireAll(c, objectsOf), object)
<1> DEFINE N == Len(objectsOf)
<1>1. N \in Nat
  BY LenProperties
<1>2. PICK retired :
        /\ retired[0] = c
        /\ \A i \in 1 .. N : retired[i] = retireVerified(retired[i - 1], objectsOf[i])
        /\ retireAll(c, objectsOf) = retired[N]
  BY RetireAllInOrder
<1> DEFINE Done == {n \in 0 .. N : IsCache(retired[n]) /\ CountsOnly(retired[n], object)}
<1>3. 0 \in Done
  BY <1>1, <1>2
<1>4. ASSUME NEW n \in 0 .. N - 1, n \in Done
      PROVE  n + 1 \in Done
  <2> DEFINE d == retired[n]
             e == retired[n + 1]
  <2>1. n + 1 \in 1 .. N /\ (n + 1) - 1 = n /\ n + 1 \in 0 .. N
    BY <1>1
  <2>2. e = retireVerified(d, objectsOf[n + 1])
    BY <1>2, <2>1
  <2>3. IsCache(d) /\ CountsOnly(d, object)
    BY <1>4
  <2> HIDE DEF d, e
  <2>4. CountsOnly(e, object)
    BY <2>2, <2>3, RetiringCounts
  <2>5. IsCache(e)
    BY <2>2, <2>3, RetireVerified DEF Retires
  <2> QED
    BY <2>1, <2>4, <2>5 DEF e
<1>5. N \in Done
  <2> HIDE DEF Done
  <2>1. \A n \in 0 .. N : n \in Done
    BY <1>1, <1>3, <1>4, InductionUpTo
  <2> QED
    BY <1>1, <2>1
<1> QED
  BY <1>2, <1>5

-----------------------------------------------------------------------------
(* The cache of an Authority says what its Snapshots say. *)

\* Every entry that is staged may be trusted.
StagedIsExact(c) == \A s \in DOMAIN c.provisional : IsExactEntry(c.provisional[s].entry)

\* Every Revision can be read, and its hash is the hash of what can be read.
HistoryIsWritten ==
    \A i \in DOMAIN history :
        IsReadable(history[i].snapshot.document) /\ IsHashed(history[i].snapshot.document)

\* Any object will do for a cache without entries.
CInv ==
    /\ HistoryIsWritten
    /\ StagedIsExact(cache)
    /\ phase # "open" => CountsOnly(cache, 0)
    /\ phase = "open" =>
          /\ CountsOnly(cache, headSnapshot.object)
          /\ VerifiedIsExact(cache, headSnapshot)

\* A commit whose document is written, and the cache that was staged with it.
CommitIsWritten(commit, c) ==
    /\ IsReadable(commit.snapshot.document) /\ IsHashed(commit.snapshot.document)
    /\ StagedIsExact(c)
    /\ c.retainedCodeUnits = cache.retainedCodeUnits
    /\ commit.snapshot.object \in DOMAIN c.provisional =>
          c.provisional[commit.snapshot.object].entry.document = commit.snapshot.document

\* What the kernel stages may be trusted.
LEMMA StagedWrites ==
  ASSUME NEW options, NEW c, IsCache(c), StagedIsExact(c),
         options.object \notin DOMAIN c.provisional,
         NEW d, NEW document, StagesExactly(options, c, d, document)
  PROVE  /\ StagedIsExact(d)
         /\ d.retainedCodeUnits = c.retainedCodeUnits
         /\ options.object \in DOMAIN d.provisional =>
                d.provisional[options.object].entry.document = document
<1> DEFINE source == options.headSnapshot.object
           object == options.object
<1>1. CASE d = c
  BY <1>1
<1>2. ASSUME NEW entry, IsEntryOf(entry, object), IsExactEntry(entry),
             entry.document = document, d = cacheKernelDerived(c, source, entry)
      PROVE  /\ StagedIsExact(d)
             /\ d.retainedCodeUnits = c.retainedCodeUnits
             /\ object \in DOMAIN d.provisional =>
                    d.provisional[object].entry.document = document
  <2>1. d.retainedCodeUnits = c.retainedCodeUnits
    BY <1>2, StagingCount
  <2>2. CASE ~ CanStage(c, source, object)
    <3>1. d = c
      BY <1>2, <2>2 DEF cacheKernelDerived, IsEntryOf
    <3> QED
      BY <3>1
  <2>3. CASE CanStage(c, source, object)
    <3>1. /\ DOMAIN d.provisional =
                {s \in DOMAIN c.provisional : c.provisional[s].source # source} \cup {object}
          /\ d.provisional[object] = [source |-> source, entry |-> entry]
          /\ \A s \in DOMAIN d.provisional \ {object} : d.provisional[s] = c.provisional[s]
      BY <1>2, <2>3, CacheKernelDerived
    <3>2. d.provisional[object].entry = entry
      BY <3>1
    <3>3. StagedIsExact(d)
      BY <1>2, <3>1, <3>2 DEF StagedIsExact
    <3> QED
      BY <1>2, <2>1, <3>2, <3>3
  <2> QED
    BY <2>2, <2>3
<1> QED
  BY <1>1, <1>2 DEF StagesExactly

\* The head can be read.
LEMMA HeadIsWritten ==
  ASSUME EInv, CInv, phase = "open"
  PROVE  IsReadable(headSnapshot.document) /\ IsHashed(headSnapshot.document)
<1>1. Len(history) \in DOMAIN history /\ head = history[Len(history)]
  BY HeadIsMade DEF EInv, IInv
<1> QED
  BY <1>1 DEF CInv, HistoryIsWritten, headSnapshot

\* What the kernel prepared on the head is written.
LEMMA PreparedIsWritten ==
  ASSUME EInv, CInv, phase = "open", NEW request, NEW id,
         prepareKernelTransaction(kernelOptions(request, id), cache).type = "ok"
  PROVE  LET prepared == prepareKernelTransaction(kernelOptions(request, id), cache).value
         IN  CommitIsWritten(createKernelCommitPreparer(request, id, prepared), prepared.cache)
<1> DEFINE options == kernelOptions(request, id)
           r == prepareKernelTransaction(options, cache)
           commit == createKernelCommitPreparer(request, id, r.value)
<1>1. options.headSnapshot = headSnapshot /\ options.object = objects + 1
  BY DEF kernelOptions
<1>2. IsCache(cache) /\ objects + 1 \notin DOMAIN cache.provisional
  <2>1. DOMAIN cache.provisional \subseteq 1 .. objects /\ objects \in Nat /\ IsCache(cache)
    BY DEF EInv, IInv, CacheFits, HistoryIsMade
  <2>2. objects + 1 \notin 1 .. objects
    BY <2>1
  <2> QED
    BY <2>1, <2>2
<1>3. commit.snapshot.object = objects + 1
  BY PreparedOnHead DEF EInv
<1>4. commit.snapshot = r.value.snapshot
  BY DEF createKernelCommitPreparer
<1>5. r.type = "ok"
  OBVIOUS
<1> HIDE DEF options
<1>6. IsReadable(options.headSnapshot.document) /\ VerifiedIsExact(cache, options.headSnapshot)
  BY <1>1, HeadIsWritten DEF CInv
<1>7. KernelWrites(options, cache, r)
  BY <1>6, KernelIsWritten
<1> HIDE DEF r, commit
<1>8. /\ IsReadable(r.value.snapshot.document) /\ IsHashed(r.value.snapshot.document)
      /\ StagesExactly(options, cache, r.value.cache, r.value.snapshot.document)
  BY <1>5, <1>7 DEF KernelWrites
<1>9. /\ StagedIsExact(r.value.cache)
      /\ r.value.cache.retainedCodeUnits = cache.retainedCodeUnits
      /\ options.object \in DOMAIN r.value.cache.provisional =>
            r.value.cache.provisional[options.object].entry.document = r.value.snapshot.document
  BY <1>1, <1>2, <1>8, StagedWrites DEF CInv
<1>10. CommitIsWritten(commit, r.value.cache)
  BY <1>1, <1>3, <1>4, <1>8, <1>9 DEF CommitIsWritten
<1> QED
  BY <1>10 DEF commit, r, options

\* Nothing was committed: the head is the head, and the cache still counts what it has of it.
LEMMA NothingCommittedCInv ==
  ASSUME CInv, phase = "open", UNCHANGED <<phase, history>>,
         StagedIsExact(cache'), CountsOnly(cache', headSnapshot.object),
         \A s \in DOMAIN cache'.verified :
            s \in DOMAIN cache.verified /\ cache'.verified[s] = cache.verified[s]
  PROVE  CInv'
<1>1. headSnapshot' = headSnapshot
  BY DEF headSnapshot, head
<1>2. HistoryIsWritten'
  BY DEF CInv, HistoryIsWritten
<1>3. VerifiedIsExact(cache', headSnapshot)
  BY DEF CInv, VerifiedIsExact
<1> QED
  BY <1>1, <1>2, <1>3 DEF CInv

\* A prepared commit, installed or too long.
LEMMA InstallCInv ==
  ASSUME EInv, CInv, phase = "open", phase' = phase, NEW commit, NEW staged,
         CommitFits(commit, staged), CommitIsWritten(commit, staged), IsCache(staged),
         installPreparedCommit(commit, staged)
  PROVE  CInv'
<1> DEFINE object == commit.snapshot.object
<1>1. object = objects + 1
  BY DEF CommitFits
<1>2. headSnapshot.object \in 1 .. objects /\ objects \in Nat
  BY HeadIsMade DEF EInv, IInv, HistoryIsMade
<1>3. staged.verified = cache.verified
  BY DEF CommitFits
<1>4. CountsOnly(staged, headSnapshot.object)
  BY <1>3 DEF CInv, CommitIsWritten, CountsOnly, IsMap, Costs
<1>5. CASE encodes(commit)
  <2>1. /\ history' = Append(history, commit)
        /\ cache' = activateCommittedSnapshotCache(staged, headSnapshot, commit.snapshot)
    BY <1>5 DEF installPreparedCommit
  <2>2. headSnapshot.object # object
    BY <1>1, <1>2
  <2>3. TakesOver(staged, cache', commit.snapshot)
    BY <1>4, <2>1, <2>2, CommittedTakesOver DEF CommitIsWritten, StagedIsExact
  <2>4. StagedIsExact(cache')
    BY <2>3 DEF TakesOver, StagedIsExact, CommitIsWritten
  <2> DEFINE n == Len(history)
  <2>5. /\ n \in Nat \ {0}
        /\ DOMAIN history = 1 .. n
    BY HeadIsMade DEF EInv, IInv
  <2> DEFINE S == {history[i] : i \in DOMAIN history} \cup {commit}
  <2>6. history \in Seq(S) /\ commit \in S
    <3>1. history \in Seq({history[i] : i \in DOMAIN history})
      BY DEF EInv, HistoryIsDerived
    <3> QED
      BY <3>1
  <2> HIDE DEF S
  <2>7. /\ Len(history') = n + 1
        /\ DOMAIN history' = 1 .. n + 1
        /\ \A i \in 1 .. n : history'[i] = history[i]
        /\ history'[n + 1] = commit
    BY <2>1, <2>5, <2>6
  <2> HIDE DEF n
  <2>8. HistoryIsWritten'
    <3>1. ASSUME NEW i \in DOMAIN history'
          PROVE  /\ IsReadable(history'[i].snapshot.document)
                 /\ IsHashed(history'[i].snapshot.document)
      <4>1. CASE i \in 1 .. n
        BY <2>5, <2>7, <4>1 DEF CInv, HistoryIsWritten
      <4>2. CASE i = n + 1
        BY <2>7, <4>2 DEF CommitIsWritten
      <4> QED
        BY <2>5, <2>7, <4>1, <4>2
    <3> QED
      BY <3>1 DEF HistoryIsWritten
  <2>9. headSnapshot' = commit.snapshot
    <3>1. head' = history'[Len(history')]
      BY DEF head, Last
    <3> QED
      BY <2>7, <3>1 DEF headSnapshot
  <2> QED
    BY <2>3, <2>4, <2>8, <2>9 DEF CInv, TakesOver
<1>6. CASE ~ encodes(commit)
  <2>1. /\ cache' = retireVerified(staged, object)
        /\ history' = history
    BY <1>6 DEF installPreparedCommit
  <2>2. /\ Retires(staged, cache', GoesWith(staged, object))
        /\ DOMAIN cache'.verified = DOMAIN staged.verified \ {object}
        /\ \A s \in DOMAIN cache'.verified : cache'.verified[s] = staged.verified[s]
    BY <2>1, RetireVerified
  <2>3. CountsOnly(cache', headSnapshot.object)
    BY <1>4, <2>1, RetiringCounts
  <2>4. StagedIsExact(cache')
    BY <2>2 DEF CommitIsWritten, StagedIsExact, Retires
  <2> QED
    BY <1>3, <2>1, <2>2, <2>3, <2>4, NothingCommittedCInv
<1> QED
  BY <1>5, <1>6

-----------------------------------------------------------------------------
(* Every step keeps the cache exact. *)

\* Nothing is cached before a Document is opened.
LEMMA InitCInv == Init => CInv
<1> SUFFICES ASSUME Init PROVE CInv
  OBVIOUS
<1>1. phase = "closed" /\ history = <<>> /\ cache = EmptyCache
  BY DEF Init
<1>2. DOMAIN history = {}
  BY <1>1
<1>3. /\ cache.verified = Empty /\ cache.provisional = Empty
      /\ cache.retainedCodeUnits = 0
  BY <1>1 DEF EmptyCache
<1>4. DOMAIN Empty = {} /\ Empty = [x \in DOMAIN Empty |-> Empty[x]]
  BY DEF Empty
<1>5. CountsOnly(cache, 0)
  BY <1>3, <1>4 DEF CountsOnly, IsMap, Costs
<1> QED
  BY <1>1, <1>2, <1>3, <1>4, <1>5 DEF CInv, HistoryIsWritten, StagedIsExact

\* A Snapshot that an Authority may be opened on can be read, and its entry is exact.
LEMMA OpenCInv ==
  ASSUME EInv, CInv, NEW document \in Documents, Open(document)
  PROVE  CInv'
<1> DEFINE snapshot == [object |-> 1, document |-> document]
           entry == checkedEntry(snapshot)
           d == cacheVerifiedFrozen(cache, entry)
           commit == [revision |-> [id |-> document.revisionId, uri |-> Uri, sequence |-> 0,
                                    transactionId |-> "initial",
                                    documentHash |-> document.documentHash],
                      snapshot |-> snapshot]
<1>1. /\ phase = "closed"
      /\ phase' = "open"
      /\ cache' = d
      /\ history' = <<commit>>
      /\ isCanonicalSnapshot(document)
  BY DEF Open
<1>2. IsReadable(document)
  <2>1. IsWrittenDown(document)
    BY <1>1, DocumentsAssumption
  <2>2. IsDocument(document) /\ IsChecked(document)
    BY <1>1, <2>1, CanonicalIsDocument, CanonicalIsSound
  <2> QED
    BY <1>1, <2>1, <2>2, CheckedIsReadable
<1>3. IsHashed(document)
  BY <1>1 DEF isCanonicalSnapshot, IsHashed
<1>4. /\ commit.snapshot = snapshot
      /\ snapshot.object = 1 /\ snapshot.document = document
  OBVIOUS
<1>5. IsEntryOf(entry, 1)
  BY CheckedEntryIsItsOwn
<1> HIDE DEF snapshot
<1>6. IsExactEntry(entry) /\ entry.document = document
  BY <1>2, <1>4, CheckedEntryIsExact
<1>7. IsCache(cache) /\ DOMAIN cache.verified = {} /\ DOMAIN cache.provisional = {}
  BY <1>1 DEF EInv, IInv
<1>8. d = installCache(cache, entry)
  <2> HIDE DEF entry
  <2> QED
    BY <1>5, <1>7 DEF cacheVerifiedFrozen, IsEntryOf
<1> HIDE DEF entry, d, commit
<1>9. /\ Retires(cache, d, GoesWith(cache, 1))
      /\ DOMAIN d.verified = DOMAIN cache.verified \cup {1}
      /\ d.verified[1] = entry
  BY <1>5, <1>7, <1>8, InstallCache
<1>10. CountsOnly(d, 1)
  <2>1. IsMap(cache) /\ cache.retainedCodeUnits = 0
    BY <1>1, <1>7 DEF CInv, CountsOnly, Costs
  <2>2. IsMap(d) /\ d.retainedCodeUnits = cache.retainedCodeUnits + entry.length
    BY <1>5, <1>7, <1>8, <2>1, InstallCount DEF IsEntryOf
  <2>3. entry.length \in Nat
    BY <1>6, ExactEntryLength
  <2>4. \A n \in Nat : 0 + n = n
    OBVIOUS
  <2>5. d.retainedCodeUnits = entry.length
    BY <2>1, <2>2, <2>3, <2>4
  <2> QED
    BY <1>7, <1>9, <2>2, <2>3, <2>5 DEF CountsOnly, Costs
<1>11. /\ Len(history') = 1
       /\ DOMAIN history' = 1 .. 1
       /\ history'[1] = commit
  BY <1>1
<1>12. headSnapshot' = snapshot
  <2>1. head' = commit
    BY <1>11 DEF head, Last
  <2> QED
    BY <1>4, <2>1 DEF headSnapshot
<1>13. VerifiedIsExact(d, snapshot)
  BY <1>4, <1>6, <1>9 DEF VerifiedIsExact
<1>14. StagedIsExact(d)
  BY <1>7, <1>9 DEF StagedIsExact, Retires
<1>15. HistoryIsWritten'
  <2>1. \A i \in DOMAIN history' : i = 1
    BY <1>11
  <2> QED
    BY <1>2, <1>3, <1>4, <1>11, <2>1 DEF HistoryIsWritten
<1> QED
  BY <1>1, <1>4, <1>10, <1>12, <1>13, <1>14, <1>15 DEF CInv

\* apply() keeps the cache exact.
LEMMA ApplyCInv ==
  ASSUME EInv, CInv, NEW request, Apply(request)
  PROVE  CInv'
<1> DEFINE id == RevisionIds[objects]
           result == prepareKernelTransaction(kernelOptions(request, id), cache)
           commit == createKernelCommitPreparer(request, id, result.value)
<1>1. /\ phase = "open"
      /\ phase' = phase
      /\ result.type = "ok"
      /\ installPreparedCommit(commit, result.value.cache)
  BY DEF Apply, installDerived
<1>2. IsCache(result.value.cache)
  BY <1>1, PreparedOnHead DEF EInv
<1>3. /\ CommitFits(commit, result.value.cache)
      /\ CommitIsWritten(commit, result.value.cache)
  BY <1>1, PreparedFits, PreparedIsWritten
<1> HIDE DEF result, commit
<1> QED
  BY <1>1, <1>2, <1>3, InstallCInv

\* A commit that is only prepared leaves an exact provisional entry.
LEMMA OfferCInv ==
  ASSUME EInv, CInv, NEW request, Offer(request)
  PROVE  CInv'
<1> DEFINE id == RevisionIds[objects]
           result == prepareKernelTransaction(kernelOptions(request, id), cache)
           commit == createKernelCommitPreparer(request, id, result.value)
<1>1. /\ phase = "open"
      /\ UNCHANGED <<phase, history>>
      /\ result.type = "ok"
      /\ cache' = result.value.cache
  BY DEF Offer, keepPrepared
<1>2. /\ CommitFits(commit, result.value.cache)
      /\ CommitIsWritten(commit, result.value.cache)
  BY <1>1, PreparedFits, PreparedIsWritten
<1> HIDE DEF result, commit
<1>3. cache'.verified = cache.verified /\ StagedIsExact(cache')
  BY <1>1, <1>2 DEF CommitFits, CommitIsWritten
<1>4. CountsOnly(cache', headSnapshot.object)
  BY <1>1, <1>2, <1>3 DEF CInv, CommitIsWritten, CountsOnly, IsMap, Costs
<1> QED
  BY <1>1, <1>3, <1>4, NothingCommittedCInv

\* A prepared commit, altered or not, that is applied or refused keeps the cache exact.
LEMMA ApplyPreparedCInv ==
  ASSUME EInv, CInv, NEW request, NEW commit, ApplyPrepared(request, commit)
  PROVE  CInv'
<1> DEFINE id == commit.revision.id
           result == prepareKernelTransaction(kernelOptions(request, id), cache)
           expected == createKernelCommitPreparer(request, id, result.value)
           staged == result.value.cache
           object == expected.snapshot.object
<1>1. /\ phase = "open"
      /\ phase' = phase
      /\ result.type = "ok"
      /\ installExpected(commit, expected, staged)
  BY DEF ApplyPrepared, installRederived
<1>2. IsCache(staged)
  BY <1>1, PreparedOnHead DEF EInv
<1>3. CommitFits(expected, staged) /\ CommitIsWritten(expected, staged)
  BY <1>1, PreparedFits, PreparedIsWritten
<1> HIDE DEF result, expected, staged
<1>4. CASE validatePreparedCommit(commit, expected)
  <2>1. installPreparedCommit(expected, staged)
    BY <1>1, <1>4 DEF installExpected
  <2> QED
    BY <1>1, <1>2, <1>3, <2>1, InstallCInv
<1>5. CASE ~ validatePreparedCommit(commit, expected)
  <2>1. cache' = retireVerified(staged, object) /\ history' = history
    BY <1>1, <1>5 DEF installExpected
  <2>2. /\ Retires(staged, cache', GoesWith(staged, object))
        /\ DOMAIN cache'.verified = DOMAIN staged.verified \ {object}
        /\ \A s \in DOMAIN cache'.verified : cache'.verified[s] = staged.verified[s]
    BY <1>2, <2>1, RetireVerified
  <2>3. staged.verified = cache.verified
    BY <1>3 DEF CommitFits
  <2>4. CountsOnly(staged, headSnapshot.object)
    BY <1>1, <1>3, <2>3 DEF CInv, CommitIsWritten, CountsOnly, IsMap, Costs
  <2>5. CountsOnly(cache', headSnapshot.object)
    BY <1>2, <2>1, <2>4, RetiringCounts
  <2>6. StagedIsExact(cache')
    BY <1>3, <2>2 DEF CommitIsWritten, StagedIsExact, Retires
  <2> QED
    BY <1>1, <2>1, <2>2, <2>3, <2>5, <2>6, NothingCommittedCInv
<1> QED
  BY <1>4, <1>5

\* The disposal of another Authority on the first Snapshot takes its entry, and no more.
LEMMA OtherFinishDisposeCInv ==
  ASSUME EInv, CInv, OtherFinishDispose
  PROVE  CInv'
<1> DEFINE object == history[1].snapshot.object
           objectsOf == <<object>>
<1>1. /\ phase = "open"
      /\ cache' = retireAll(cache, objectsOf)
      /\ UNCHANGED <<phase, history>>
  BY DEF OtherFinishDispose
<1>2. IsCache(cache)
  BY DEF EInv, IInv
<1>3. cache' = retireVerified(cache, object)
  <2>1. objectsOf \in Seq({object}) /\ Len(objectsOf) = 1 /\ objectsOf[1] = object
    OBVIOUS
  <2> HIDE DEF objectsOf
  <2>2. PICK retired :
          /\ retired[0] = cache
          /\ \A i \in 1 .. Len(objectsOf) :
                retired[i] = retireVerified(retired[i - 1], objectsOf[i])
          /\ retireAll(cache, objectsOf) = retired[Len(objectsOf)]
    BY <2>1, RetireAllInOrder
  <2>3. 1 \in 1 .. 1 /\ 1 - 1 = 0
    OBVIOUS
  <2> QED
    BY <1>1, <2>1, <2>2, <2>3
<1>4. /\ Retires(cache, cache', GoesWith(cache, object))
      /\ DOMAIN cache'.verified = DOMAIN cache.verified \ {object}
      /\ \A s \in DOMAIN cache'.verified : cache'.verified[s] = cache.verified[s]
  BY <1>2, <1>3, RetireVerified
<1>5. CountsOnly(cache', headSnapshot.object)
  BY <1>1, <1>2, <1>3, RetiringCounts DEF CInv
<1>6. StagedIsExact(cache')
  BY <1>4 DEF CInv, StagedIsExact, Retires
<1> QED
  BY <1>1, <1>4, <1>5, <1>6, NothingCommittedCInv

\* Disposal clears the cache.
LEMMA FinishDisposeCInv ==
  ASSUME EInv, CInv, FinishDispose
  PROVE  CInv'
<1> DEFINE objectsOf == [i \in DOMAIN history |-> history[i].snapshot.object]
<1>1. /\ phase = "open" /\ phase' = "disposed"
      /\ cache' = retireAll(cache, objectsOf)
      /\ history' = history
  BY DEF FinishDispose
<1>2. IsCache(cache) /\ HistoryIsMade
  BY <1>1 DEF EInv, IInv
<1>3. objectsOf \in Seq(1 .. objects)
  <2> DEFINE n == Len(history)
             S == 1 .. objects
  <2>1. n \in Nat /\ DOMAIN history = 1 .. n
    BY <1>2, HeadIsMade
  <2>2. \A i \in 1 .. n : history[i].snapshot.object \in S
    BY <1>2, <2>1 DEF HistoryIsMade
  <2> HIDE DEF n, S
  <2>3. [i \in 1 .. n |-> history[i].snapshot.object] \in Seq(S)
    BY <2>1, <2>2, IsASeq
  <2> QED
    BY <2>1, <2>3 DEF S
<1> HIDE DEF objectsOf
<1>4. CountsOnly(cache', headSnapshot.object)
  BY <1>1, <1>2, <1>3, RetiringAllCounts DEF CInv
<1>5. DOMAIN cache'.verified = {} /\ DOMAIN cache'.provisional = {}
  <2>1. IInv'
    BY FinishDisposeIInv DEF EInv
  <2> QED
    BY <1>1, <2>1 DEF IInv
<1>6. CountsOnly(cache', 0)
  BY <1>4, <1>5, NoEntryCounts
<1>7. HistoryIsWritten'
  BY <1>1 DEF CInv, HistoryIsWritten
<1> QED
  BY <1>1, <1>5, <1>6, <1>7 DEF CInv, StagedIsExact

\* The invariant holds in every state of the specification.
LEMMA CacheInvariance == Spec => [](EInv /\ CInv)
<1>1. EInv /\ CInv /\ [Next]_vars => CInv'
  <2> SUFFICES ASSUME EInv, CInv, [Next]_vars
               PROVE  CInv'
    OBVIOUS
  <2>1. CASE UNCHANGED vars
    BY <2>1 DEF vars, CInv, HistoryIsWritten, headSnapshot, head
  <2> QED
    BY <2>1, OpenCInv, ApplyCInv, OfferCInv, ApplyPreparedCInv, FinishDisposeCInv,
       OtherFinishDisposeCInv DEF Next
<1> QED
  BY <1>1, InitCInv, EditingInvariance, PTL DEF Spec

\* What the cache counts is the length of what it retains.
LEMMA CountIsExact ==
  ASSUME EInv, CInv
  PROVE  cache.retainedCodeUnits =
            (IF cache.verified = Empty
             THEN 0 ELSE Len(createDocumentHashPayload(headSnapshot.document)))
<1>1. \E object : CountsOnly(cache, object)
  BY DEF CInv
<1>2. PICK object : CountsOnly(cache, object)
  BY <1>1
<1>3. CASE DOMAIN cache.verified = {}
  <2>1. cache.verified = Empty
    BY <1>2, <1>3 DEF CountsOnly, IsMap, Empty
  <2>2. cache.retainedCodeUnits = 0
    BY <1>2, <1>3 DEF CountsOnly, Costs
  <2> QED
    BY <2>1, <2>2
<1>4. CASE DOMAIN cache.verified # {}
  <2>1. phase = "open"
    BY <1>4 DEF EInv, IInv
  <2>2. /\ headSnapshot.object \in DOMAIN cache.verified
        /\ cache.retainedCodeUnits = cache.verified[headSnapshot.object].length
    BY <1>4, <2>1 DEF CInv, CountsOnly, Costs
  <2>3. cache.verified[headSnapshot.object].length =
            Len(createDocumentHashPayload(headSnapshot.document))
    BY <2>1, <2>2 DEF CInv, VerifiedIsExact, IsExactEntry
  <2>4. DOMAIN Empty = {}
    BY DEF Empty
  <2>5. cache.verified # Empty
    BY <1>4, <2>4
  <2> QED
    BY <2>2, <2>3, <2>5
<1> QED
  BY <1>3, <1>4

\* An entry of the cache says of its Snapshot what reading it again would say.
THEOREM CacheIsAlwaysExact == Spec => []CacheIsExact
<1>1. EInv /\ CInv => CacheIsExact
  <2> SUFFICES ASSUME EInv, CInv PROVE CacheIsExact
    OBVIOUS
  <2> DEFINE entries == {cache.verified[s] : s \in DOMAIN cache.verified} \cup
                        {cache.provisional[s].entry : s \in DOMAIN cache.provisional}
  <2>1. \A s \in DOMAIN cache.verified : IsExactEntry(cache.verified[s])
    BY DEF EInv, IInv, CInv, CountsOnly, VerifiedIsExact
  <2>2. \A entry \in entries : IsExactEntry(entry)
    BY <2>1 DEF CInv, StagedIsExact
  <2> HIDE DEF entries
  <2>3. \A entry \in entries : SaysTheSame(entry)
    BY <2>2, ExactEntrySays
  <2>4. cache.retainedCodeUnits =
            (IF cache.verified = Empty
             THEN 0 ELSE Len(createDocumentHashPayload(headSnapshot.document)))
    BY CountIsExact
  <2> QED
    BY <2>3, <2>4 DEF CacheIsExact, SaysTheSame, entries
<1> QED
  BY <1>1, CacheInvariance, PTL

\* Every Revision has the hash of its document.
THEOREM HashesAreRecomputed ==
  Spec => [](\A i \in DOMAIN history :
                LET document == history[i].snapshot.document
                IN  document.documentHash = computeDocumentHash(document))
<1>1. CInv => \A i \in DOMAIN history :
                LET document == history[i].snapshot.document
                IN  document.documentHash = computeDocumentHash(document)
  BY DEF CInv, HistoryIsWritten, IsHashed
<1> QED
  BY <1>1, CacheInvariance, PTL
=============================================================================
