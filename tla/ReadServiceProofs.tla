------------------------- MODULE ReadServiceProofs -------------------------
(***************************************************************************)
(* Proofs that pages make up the result they were cut from, and that an    *)
(* ended session stays ended with its cursors, for any documents, queries, *)
(* page sizes, sessions and clock.                                         *)
(***************************************************************************)
EXTENDS ReadService, SequenceTheorems, TLAPS

(* What a reader has read when he holds a cursor is the beginning of a     *)
(* result that no later step changes.                                      *)
CursorIsAhead ==
  cursor # Nothing =>
    /\ cursor.position =< Len(found(cursor.binding))
    /\ cursor.read = SubSeq(found(cursor.binding), 1, cursor.position)
    /\ isHistory(cursor.binding.query) =>
         exists(cursor.binding.query.since) /\ exists(cursor.binding.revision)

ToldAreOver == told \cap DOMAIN sessions = {}

IInv ==
  /\ TypeOK
  /\ CursorIsAhead
  /\ ToldAreOver
  /\ PagesMakeUpTheResult
  /\ EndedSessionStaysEnded
  /\ CursorsEndWithTheirSession

(* The constants are what they are assumed to be.                          *)
LEMMA Constants ==
  /\ First \in Revisions
  /\ DocumentWide \in Scopes
  /\ Times \subseteq Nat /\ Unavailable \notin Times /\ CursorTtl \in Nat
  /\ Offers \subseteq Grants
  /\ \A q \in Queries : q.maxResults \in Nat \ {0} /\ q.since \in Revisions
  /\ \A q \in Queries, scope \in Scopes, r \in Revisions :
       Findings[q][scope][r] \in Seq(Nat)
  /\ Nothing \notin Sessions /\ Nothing \notin Revisions
  BY FirstAssumption, DocumentWideAssumption, TimesAssumption,
     OffersAssumption, QueriesAssumption, FindingsAssumption, NothingAssumption

-----------------------------------------------------------------------------
(* Results and pages as sequences.                                         *)

(* What a query finds is a sequence of items.                              *)
LEMMA FoundIsSequence ==
  ASSUME TypeOK, NEW b \in Bindings
  PROVE  found(b) \in Seq(Items)
<1>1. b.query \in Queries /\ b.revision \in Revisions /\ b.scope \in Scopes
  BY DEF Bindings
<1>2. CASE isHistory(b.query)
  <2> DEFINE since == b.query.since
  <2>1. since \in Revisions /\ line[since] \in Seq(Revisions)
        /\ line[b.revision] \in Seq(Revisions)
    BY <1>1, Constants DEF TypeOK
  <2>2. Len(line[since]) + 1 \in Int /\ Len(line[b.revision]) \in Int
        /\ \A i \in (Len(line[since]) + 1)..Len(line[b.revision]) :
             line[b.revision][i] \in Items
    BY <2>1 DEF Items
  <2> HIDE DEF since
  <2>3. SubSeq(line[b.revision], Len(line[since]) + 1, Len(line[b.revision]))
          \in Seq(Items)
    BY <2>2, SubSeqProperties
  <2>4. QED
    BY <1>2, <2>3 DEF found, history, since
<1>3. CASE ~isHistory(b.query)
  <2>1. Findings[b.query][b.scope][b.revision] \in Seq(Nat)
    BY <1>1, Constants
  <2> DEFINE finding == Findings[b.query][b.scope][b.revision]
  <2>2. finding \in Seq(Nat)
    BY <2>1
  <2> HIDE DEF finding
  <2>3. finding \in Seq(Items)
    BY <2>2 DEF Items
  <2>4. found(b) = finding
    BY <1>3 DEF found, finding
  <2>5. QED
    BY <2>3, <2>4
<1>4. QED
  BY <1>2, <1>3

(* A result is not changed by commits after the Revisions it is made of.   *)
LEMMA FoundIsStable ==
  ASSUME TypeOK, NEW b \in Bindings,
         isHistory(b.query) => exists(b.query.since) /\ exists(b.revision),
         line' = line \/ \E r \in Revisions : Commit(r)
  PROVE  /\ found(b)' = found(b)
         /\ isHistory(b.query) => (exists(b.query.since) /\ exists(b.revision))'
<1>1. \A r \in Revisions : exists(r) => line'[r] = line[r]
  BY DEF TypeOK, Commit, exists
<1>2. b.query \in Queries /\ b.revision \in Revisions /\ b.query.since \in Revisions
  BY Constants DEF Bindings
<1>3. QED
  BY <1>1, <1>2 DEF found, history, isHistory, exists

(* Reading on from place p, n items of the next page make up the result    *)
(* up to place p + n.                                                      *)
LEMMA PageExtends ==
  ASSUME NEW f \in Seq(Items), NEW p \in Nat, p =< Len(f),
         NEW size \in Nat \ {0}, NEW n \in Nat,
         NEW end, end = IF p + size < Len(f) THEN p + size ELSE Len(f),
         n =< Len(SubSeq(f, p + 1, end))
  PROVE  /\ p + n =< Len(f)
         /\ SubSeq(f, 1, p) \o SubSeq(SubSeq(f, p + 1, end), 1, n)
              = SubSeq(f, 1, p + n)
<1>1. /\ Len(f) \in Nat /\ end \in Nat /\ p =< end /\ end =< Len(f)
      /\ \A i \in 1..Len(f) : f[i] \in Items
  OBVIOUS
<1>2. Len(SubSeq(f, p + 1, end)) = end - p
  <2>1. Len(SubSeq(f, p + 1, end)) = IF p + 1 <= end THEN end - (p + 1) + 1 ELSE 0
    BY <1>1, SubSeqProperties
  <2>2. QED
    BY <1>1, <2>1
<1>3. p + n =< end /\ p + n \in Nat
  BY <1>1, <1>2
<1>4. SubSeq(f, 1, p) \in Seq(Items)
  BY <1>1, SubSeqProperties
<1>5. CASE n = 0
  <2>1. SubSeq(SubSeq(f, p + 1, end), 1, n) = <<>>
    BY <1>5, SubSeqEmpty
  <2>2. QED
    BY <1>1, <1>4, <1>5, <2>1, ConcatEmptySeq
<1>6. CASE n # 0
  <2>1. /\ p + 1 \in 1..Len(f) /\ end \in 1..Len(f)
        /\ 1 \in 1..(end - (p + 1) + 1) /\ n \in 1..(end - (p + 1) + 1)
    BY <1>1, <1>3, <1>6
  <2>2. SubSeq(SubSeq(f, p + 1, end), 1, n) = SubSeq(f, (p + 1) + 1 - 1, (p + 1) + n - 1)
    BY <2>1, SubSeqOfSubSeq
  <2>3. (p + 1) + 1 - 1 = p + 1 /\ (p + 1) + n - 1 = p + n
    BY <1>1
  <2>4. 1 \in 1..(Len(f) + 1) /\ p \in (1 - 1)..Len(f) /\ p + n \in p..Len(f)
    BY <1>1, <1>3
  <2>5. SubSeq(f, 1, p) \o SubSeq(f, p + 1, p + n) = SubSeq(f, 1, p + n)
    BY <2>4, ConcatAdjacentSubSeq
  <2>6. QED
    BY <1>1, <1>3, <2>2, <2>3, <2>5
<1>7. QED
  BY <1>5, <1>6

-----------------------------------------------------------------------------
(* The invariant holds at the start.                                       *)
LEMMA InitIInv == Init => IInv
<1> SUFFICES ASSUME Init PROVE IInv
  OBVIOUS
<1> USE Constants DEF Init
<1>1. TypeOK
  <2>1. <<First>> \in Seq(Revisions) /\ <<>> \in Seq(Revisions) /\ <<First>> # <<>>
    OBVIOUS
  <2>2. QED
    BY <2>1 DEF TypeOK
<1>2. QED
  BY <1>1 DEF IInv, CursorIsAhead, ToldAreOver, PagesMakeUpTheResult,
              EndedSessionStaysEnded, CursorsEndWithTheirSession

(* A step that answers nobody, or with an error, has only the types, the   *)
(* cursor and the sessions to keep.                                        *)
LEMMA QuietStep ==
  ASSUME IInv, TypeOK', ToldAreOver',
         UNCHANGED cursor,
         line' = line \/ \E r \in Revisions : Commit(r),
         reply' = Nothing \/ \E s \in Sessions : reply' = Error(s)
  PROVE  IInv'
<1>1. CursorIsAhead'
  <2>1. CASE cursor = Nothing
    BY <2>1 DEF CursorIsAhead
  <2>2. CASE cursor # Nothing
    <3>1. cursor.binding \in Bindings /\ TypeOK /\ CursorIsAhead
      BY <2>2 DEF IInv, TypeOK, Cursors
    <3>2. /\ found(cursor.binding)' = found(cursor.binding)
          /\ isHistory(cursor.binding.query) =>
               (exists(cursor.binding.query.since) /\ exists(cursor.binding.revision))'
      BY <2>2, <3>1, FoundIsStable DEF CursorIsAhead
    <3>3. QED
      BY <2>2, <3>1, <3>2 DEF CursorIsAhead
  <2>3. QED
    BY <2>1, <2>2
<1>2. reply' # Nothing => reply'.type = "error"
  BY DEF Error
<1>3. QED
  BY <1>1, <1>2 DEF IInv, PagesMakeUpTheResult, EndedSessionStaysEnded,
                    CursorsEndWithTheirSession

-----------------------------------------------------------------------------
(* Commits, recovery and the Model.                                        *)
LEMMA DocumentStep == IInv /\ document => IInv'
<1> SUFFICES ASSUME IInv, document PROVE IInv'
  OBVIOUS
<1>1. TypeOK /\ ToldAreOver
  BY DEF IInv
<1>2. UNCHANGED <<storeVars, cursor, told>> /\ reply' = Nothing
  BY DEF document, Commit, Recover, Refresh, DisposeModel, UnregisterModel,
         RegisterModel
<1>3. ToldAreOver'
  BY <1>1, <1>2 DEF ToldAreOver, storeVars
<1>4. ASSUME TypeOK', line' = line \/ \E r \in Revisions : Commit(r)
      PROVE  IInv'
  BY <1>2, <1>3, <1>4, QuietStep
<1>5. ASSUME NEW r \in Revisions, Commit(r) PROVE IInv'
  <2>1. line[authorityHead] \in Seq(Revisions)
    BY <1>1 DEF TypeOK
  <2> DEFINE longer == Append(line[authorityHead], r)
  <2>2. longer \in Seq(Revisions) /\ longer # <<>>
    BY <2>1
  <2>3. line' = [line EXCEPT ![r] = longer] /\ ~exists(r)
        /\ authorityHead' = r /\ retained' = retained \cup {r}
        /\ UNCHANGED <<modelVars, storeVars, cursor, told>>
    BY <1>5 DEF Commit
  <2> HIDE DEF longer
  <2>4. TypeOK'
    BY <1>1, <1>2, <2>2, <2>3 DEF TypeOK, exists, modelVars, storeVars
  <2>5. QED
    BY <1>4, <1>5, <2>4
<1>6. ASSUME NEW r \in Revisions, Recover(r) PROVE IInv'
  <2>1. TypeOK' /\ line' = line
    BY <1>1, <1>2, <1>6 DEF TypeOK, Recover, exists, modelVars, storeVars
  <2>2. QED
    BY <1>4, <2>1
<1>7. CASE Refresh
  <2>1. TypeOK' /\ line' = line
    BY <1>1, <1>2, <1>7 DEF TypeOK, Refresh, documentVars, storeVars
  <2>2. QED
    BY <1>4, <2>1
<1>8. CASE DisposeModel \/ UnregisterModel
  <2>1. TypeOK' /\ line' = line
    BY <1>1, <1>2, <1>8
    DEF TypeOK, DisposeModel, UnregisterModel, documentVars, storeVars
  <2>2. QED
    BY <1>4, <2>1
<1>9. CASE RegisterModel
  <2>1. TypeOK' /\ line' = line
    BY <1>1, <1>2, <1>9 DEF TypeOK, RegisterModel, documentVars, storeVars
  <2>2. QED
    BY <1>4, <2>1
<1>10. QED
  BY <1>5, <1>6, <1>7, <1>8, <1>9 DEF document

(* Sessions are opened and ended.                                          *)
LEMMA StoreStep == IInv /\ store => IInv'
<1> SUFFICES ASSUME IInv, store PROVE IInv'
  OBVIOUS
<1>1. TypeOK /\ ToldAreOver
  BY DEF IInv
<1>2. UNCHANGED <<documentVars, modelVars, cursor>> /\ reply' = Nothing
  BY DEF store, Open, Revoke, DisposeStore
<1>3. ASSUME TypeOK', ToldAreOver' PROVE IInv'
  BY <1>2, <1>3, QuietStep DEF documentVars
<1>4. ASSUME NEW s \in Sessions, NEW grant \in Offers, NEW now \in Times,
             Open(s, grant, now)
      PROVE  IInv'
  <2>1. DOMAIN sessions' = DOMAIN sessions \cup {s}
    BY <1>4 DEF Open
  <2>2. TypeOK'
    BY <1>1, <1>2, <1>4, <2>1 DEF TypeOK, Open, documentVars, modelVars
  <2>3. ToldAreOver'
    BY <1>1, <1>4, <2>1 DEF ToldAreOver, TypeOK, Open
  <2>4. QED
    BY <1>3, <2>2, <2>3
<1>5. ASSUME NEW s \in Sessions, Revoke(s) PROVE IInv'
  <2>1. DOMAIN sessions' = DOMAIN sessions \ {s}
    BY <1>5 DEF Revoke, without
  <2>2. TypeOK'
    BY <1>1, <1>2, <1>5, <2>1 DEF TypeOK, Revoke, without, documentVars, modelVars
  <2>3. ToldAreOver'
    BY <1>1, <1>5, <2>1 DEF ToldAreOver, Revoke
  <2>4. QED
    BY <1>3, <2>2, <2>3
<1>6. CASE DisposeStore
  <2>1. DOMAIN sessions' = {}
    BY <1>6 DEF DisposeStore
  <2>2. TypeOK'
    BY <1>1, <1>2, <1>6, <2>1 DEF TypeOK, DisposeStore, documentVars, modelVars
  <2>3. ToldAreOver'
    BY <2>1 DEF ToldAreOver
  <2>4. QED
    BY <1>3, <2>2, <2>3
<1>7. QED
  BY <1>4, <1>5, <1>6 DEF store

-----------------------------------------------------------------------------
(* Requests that are refused.                                              *)
LEMMA RefusalStep == IInv /\ refusal => IInv'
<1> SUFFICES ASSUME IInv, refusal PROVE IInv'
  OBVIOUS
<1>1. TypeOK /\ ToldAreOver
  BY DEF IInv
<1>2. PICK s \in Sessions, now \in Clock :
        \/ RefuseExpired(s, now)
        \/ RefuseUnknown(s, now)
        \/ Cancel(s)
        \/ \E query \in Queries, c \in {Nothing, cursor}, decoding \in Clock :
             RefuseRequest(s, query, c, now, decoding)
               \/ RefusePage(s, query, c, now, decoding)
  BY DEF refusal
<1>3. UNCHANGED <<documentVars, modelVars, seen, disposed, cursor>>
      /\ reply' = Error(s) /\ Error(s) \in Replies
  BY <1>2 DEF RefuseExpired, RefuseUnknown, Cancel, RefuseRequest, RefusePage,
              storeVars, Error, Replies
<1>4. ASSUME TypeOK', ToldAreOver' PROVE IInv'
  BY <1>3, <1>4, QuietStep DEF documentVars
<1>5. CASE RefuseExpired(s, now)
  <2>1. DOMAIN sessions' = DOMAIN sessions \ {s} /\ s \in DOMAIN sessions
    BY <1>5 DEF RefuseExpired, without, isPastExpiry
  <2>2. TypeOK'
    BY <1>1, <1>3, <1>5, <2>1
    DEF TypeOK, RefuseExpired, without, documentVars, modelVars
  <2>3. ToldAreOver'
    BY <1>1, <1>5, <2>1 DEF ToldAreOver, RefuseExpired
  <2>4. QED
    BY <1>4, <2>2, <2>3
<1>6. CASE ~RefuseExpired(s, now)
  <2>1. UNCHANGED storeVars /\ told' \subseteq told \cup (seen \ DOMAIN sessions)
    BY <1>2, <1>6 DEF RefuseUnknown, Cancel, RefuseRequest, RefusePage
  <2>2. TypeOK'
    BY <1>1, <1>3, <2>1 DEF TypeOK, storeVars, documentVars, modelVars
  <2>3. ToldAreOver'
    BY <1>1, <2>1 DEF ToldAreOver, storeVars
  <2>4. QED
    BY <1>4, <2>2, <2>3
<1>7. QED
  BY <1>5, <1>6

-----------------------------------------------------------------------------
(* A page: what it adds to what its cursor stands for.                     *)
LEMMA PageStep ==
  ASSUME IInv, NEW s \in Sessions, NEW query \in Queries,
         NEW c \in {Nothing, cursor}, NEW now \in Times, NEW decoding \in Clock,
         NEW issuing \in Clock, NEW n \in 0..query.maxResults,
         Page(s, query, c, now, decoding, issuing, n)
  PROVE  IInv'
<1>1. TypeOK /\ ToldAreOver /\ CursorIsAhead
  BY DEF IInv
<1>2. s \in DOMAIN sessions /\ isServed(cursorBinding(s, query), c, decoding)
  BY DEF Page, isGranted
<1>3. PICK b \in Bindings :
        b = cursorBinding(s, query) /\ b.query = query /\ b.session = s
  <2>1. sessions[s] \in Grants
    BY <1>1, <1>2, Constants DEF TypeOK
  <2>2. head \in Revisions
    BY <1>1 DEF TypeOK
  <2>3. cursorBinding(s, query) \in Bindings
    BY <2>1, <2>2 DEF Bindings, Grants, cursorBinding
  <2>4. QED
    BY <2>3 DEF cursorBinding
<1> DEFINE f == found(b)
           p == startOf(c)
           size == query.maxResults
           end == IF p + size < Len(f) THEN p + size ELSE Len(f)
           before == IF c = Nothing THEN <<>> ELSE c.read
           read == before \o SubSeq(page(b, p), 1, n)
           from == IF c = Nothing THEN Nothing ELSE c.binding.session
<1>4. isHistory(query) => exists(query.since) /\ exists(b.revision)
  BY <1>1, <1>2, <1>3 DEF isServed, hasHistory, exists, TypeOK
<1>5. c # Nothing => c = cursor /\ c \in Cursors /\ c.binding = b
  BY <1>1, <1>2, <1>3 DEF TypeOK, isServed, decodes, sameBinding
<1>6. f \in Seq(Items) /\ Len(f) \in Nat /\ size \in Nat \ {0} /\ n \in Nat
  BY <1>1, <1>3, FoundIsSequence, Constants
<1>7. p \in Nat /\ p =< Len(f)
  <2>1. CASE c = Nothing
    BY <1>6, <2>1 DEF startOf
  <2>2. CASE c # Nothing
    <3>1. p = cursor.position /\ cursor \in Cursors /\ found(cursor.binding) = f
      BY <1>5, <2>2 DEF startOf
    <3>2. QED
      BY <1>1, <1>5, <2>2, <3>1 DEF CursorIsAhead, Cursors
  <2>3. QED
    BY <2>1, <2>2
<1>8. before = SubSeq(f, 1, p)
  <2>1. CASE c = Nothing
    <3>1. SubSeq(f, 1, 0) = <<>>
      BY SubSeqEmpty
    <3>2. QED
      BY <2>1, <3>1 DEF startOf
  <2>2. CASE c # Nothing
    BY <1>1, <1>5, <2>2 DEF startOf, CursorIsAhead
  <2>3. QED
    BY <2>1, <2>2
<1>9. page(b, p) = SubSeq(f, p + 1, end) /\ n =< Len(page(b, p))
  BY <1>3 DEF page, Page
<1>10. p + n =< Len(f) /\ p + n \in Nat /\ read = SubSeq(f, 1, p + n)
  <2> HIDE DEF f, p, size, before
  <2>1. p + n =< Len(f)
        /\ SubSeq(f, 1, p) \o SubSeq(SubSeq(f, p + 1, end), 1, n)
             = SubSeq(f, 1, p + n)
    BY <1>6, <1>7, <1>9, PageExtends
  <2>2. read = SubSeq(f, 1, p) \o SubSeq(SubSeq(f, p + 1, end), 1, n)
    BY <1>8, <1>9
  <2>3. p + n \in Nat
    BY <1>6, <1>7
  <2> HIDE DEF read, end
  <2>4. QED
    BY <2>1, <2>2, <2>3
<1>11. read \in Seq(Items) /\ Len(read) = p + n
  <2> HIDE DEF f, p, read
  <2>1. \A i \in 1..(p + n) : f[i] \in Items
    BY <1>6, <1>7, <1>10
  <2>2. SubSeq(f, 1, p + n) \in Seq(Items)
        /\ Len(SubSeq(f, 1, p + n)) = IF 1 <= p + n THEN (p + n) - 1 + 1 ELSE 0
    BY <1>10, <2>1, SubSeqProperties
  <2>3. QED
    BY <1>10, <2>2
<1>12. isLast(b, p, n) \in BOOLEAN /\ (isLast(b, p, n) => p + n = Len(f))
  BY <1>6, <1>10 DEF isLast
<1>13. /\ reply' = [type |-> "page", session |-> s, binding |-> b,
                    continues |-> from, read |-> read, last |-> isLast(b, p, n)]
       /\ UNCHANGED <<documentVars, modelVars, storeVars, told>>
       /\ \/ cursor' = cursor
          \/ /\ ~isLast(b, p, n)
             /\ issuing # Unavailable
             /\ cursor' = [binding |-> b, position |-> p + n,
                           expiresAt |-> issuing + CursorTtl, read |-> read]
  BY <1>3 DEF Page, nextPosition
<1>14. from \in Sessions \cup {Nothing} /\ (from # Nothing => from = s)
  BY <1>3, <1>5
<1>15. found(b)' = found(b) /\ line' = line
  BY <1>13 DEF documentVars, found, history
<1> HIDE DEF f, p, before, read, from
<1>16. cursor' \in Cursors \cup {Nothing}
  <2>1. CASE cursor' = cursor
    BY <1>1, <2>1 DEF TypeOK
  <2>2. CASE cursor' # cursor
    <3>1. issuing + CursorTtl \in Nat
      BY <1>13, <2>2, Constants DEF Clock
    <3>2. cursor' = [binding |-> b, position |-> p + n,
                     expiresAt |-> issuing + CursorTtl, read |-> read]
      BY <1>13, <2>2
    <3>3. p + n \in Nat /\ read \in Seq(Items)
      BY <1>10, <1>11
    <3>4. QED
      BY <1>3, <3>1, <3>2, <3>3 DEF Cursors
  <2>3. QED
    BY <2>1, <2>2
<1>17. reply' \in Replies
  BY <1>3, <1>11, <1>12, <1>13, <1>14 DEF Replies
<1>18. TypeOK'
  BY <1>1, <1>13, <1>16, <1>17 DEF TypeOK, documentVars, modelVars, storeVars
<1>19. CursorIsAhead'
  <2>1. CASE cursor' = cursor
    <3>1. CASE cursor = Nothing
      BY <2>1, <3>1 DEF CursorIsAhead
    <3>2. CASE cursor # Nothing
      <4>1. cursor.binding \in Bindings
        BY <1>1, <3>2 DEF TypeOK, Cursors
      <4>2. /\ found(cursor.binding)' = found(cursor.binding)
            /\ isHistory(cursor.binding.query) =>
                 (exists(cursor.binding.query.since) /\ exists(cursor.binding.revision))'
        BY <1>1, <1>15, <2>1, <3>2, <4>1, FoundIsStable DEF CursorIsAhead
      <4>3. QED
        BY <1>1, <2>1, <3>2, <4>2 DEF CursorIsAhead
    <3>3. QED
      BY <3>1, <3>2
  <2>2. CASE cursor' # cursor
    <3>1. /\ cursor'.binding = b /\ cursor'.position = p + n /\ cursor'.read = read
      BY <1>13, <2>2
    <3>2. isHistory(b.query) => (exists(b.query.since) /\ exists(b.revision))'
      BY <1>3, <1>4, <1>15 DEF exists
    <3>3. found(cursor.binding)' = f
      BY <1>15, <3>1 DEF f, found, history
    <3>4. QED
      BY <1>10, <3>1, <3>2, <3>3 DEF CursorIsAhead
  <2>3. QED
    BY <2>1, <2>2
<1>20. ToldAreOver'
  BY <1>1, <1>13 DEF ToldAreOver, storeVars
<1>21. s \notin told'
  BY <1>1, <1>2, <1>13 DEF ToldAreOver
<1>22. PagesMakeUpTheResult'
  <2>1. /\ reply'.binding = b /\ reply'.read = read
        /\ reply'.last => p + n = Len(f)
    BY <1>12, <1>13
  <2>2. found(reply.binding)' = f
    BY <1>15, <2>1 DEF f, found, history
  <2>3. SubSeq(f, 1, Len(f)) = f
    BY <1>6, SubSeqFull
  <2>4. QED
    BY <1>10, <1>11, <2>1, <2>2, <2>3 DEF PagesMakeUpTheResult
<1>23. EndedSessionStaysEnded' /\ CursorsEndWithTheirSession'
  <2>1. Nothing \notin told'
    BY <1>18, Constants DEF TypeOK
  <2>2. reply'.session = s /\ reply'.continues = from
    BY <1>13
  <2>3. QED
    BY <1>14, <1>21, <2>1, <2>2 DEF EndedSessionStaysEnded, CursorsEndWithTheirSession
<1>24. QED
  BY <1>18, <1>19, <1>20, <1>22, <1>23 DEF IInv

(* An answer that is no page.                                              *)
LEMMA WholeStep ==
  ASSUME IInv, NEW s \in Sessions, NEW now \in Times,
         GetHead(s, now) \/ GetSnapshot(s, now)
  PROVE  IInv'
<1>1. TypeOK /\ ToldAreOver
  BY DEF IInv
<1>2. UNCHANGED <<documentVars, modelVars, storeVars, cursor, told>>
      /\ s \in DOMAIN sessions
  BY DEF GetHead, GetSnapshot, isGranted
<1>3. \/ reply' = Error(s)
      \/ \E r \in Revisions :
           reply' = [type |-> "whole", session |-> s, revision |-> r]
  BY <1>1 DEF GetHead, GetSnapshot, TypeOK
<1>4. TypeOK'
  <2>1. reply' \in Replies
    BY <1>3 DEF Replies, Error
  <2>2. QED
    BY <1>1, <1>2, <2>1 DEF TypeOK, documentVars, modelVars, storeVars
<1>5. ToldAreOver'
  BY <1>1, <1>2 DEF ToldAreOver, storeVars
<1>6. CASE reply' = Error(s)
  BY <1>2, <1>4, <1>5, <1>6, QuietStep DEF documentVars
<1>7. CASE \E r \in Revisions :
             reply' = [type |-> "whole", session |-> s, revision |-> r]
  <2>1. CursorIsAhead'
    <3>1. CASE cursor = Nothing
      BY <1>2, <3>1 DEF CursorIsAhead
    <3>2. CASE cursor # Nothing
      <4>1. cursor.binding \in Bindings /\ CursorIsAhead /\ line' = line
        BY <1>1, <1>2, <3>2 DEF TypeOK, Cursors, IInv, documentVars
      <4>2. /\ found(cursor.binding)' = found(cursor.binding)
            /\ isHistory(cursor.binding.query) =>
                 (exists(cursor.binding.query.since) /\ exists(cursor.binding.revision))'
        BY <1>1, <1>2, <3>2, <4>1, FoundIsStable DEF CursorIsAhead
      <4>3. QED
        BY <1>2, <3>2, <4>1, <4>2 DEF CursorIsAhead
    <3>3. QED
      BY <3>1, <3>2
  <2>2. reply'.type = "whole" /\ reply'.session = s
    BY <1>7
  <2>3. s \notin told'
    BY <1>1, <1>2 DEF ToldAreOver
  <2>4. QED
    BY <1>4, <1>5, <2>1, <2>2, <2>3
    DEF IInv, PagesMakeUpTheResult, EndedSessionStaysEnded,
        CursorsEndWithTheirSession
<1>8. QED
  BY <1>3, <1>6, <1>7

(* The invariant is inductive.                                             *)
LEMMA NextIInv == IInv /\ [Next]_vars => IInv'
<1> SUFFICES ASSUME IInv, [Next]_vars PROVE IInv'
  OBVIOUS
<1>1. CASE document
  BY <1>1, DocumentStep
<1>2. CASE store
  BY <1>2, StoreStep
<1>3. CASE refusal
  BY <1>3, RefusalStep
<1>4. CASE answer
  <2>1. PICK s \in Sessions, now \in Times :
          \/ GetHead(s, now)
          \/ GetSnapshot(s, now)
          \/ \E query \in Queries, c \in {Nothing, cursor},
                decoding, issuing \in Clock :
               \E n \in 0..query.maxResults :
                 Page(s, query, c, now, decoding, issuing, n)
    BY <1>4 DEF answer
  <2>2. CASE GetHead(s, now) \/ GetSnapshot(s, now)
    BY <2>2, WholeStep
  <2>3. ASSUME NEW query \in Queries, NEW c \in {Nothing, cursor},
               NEW decoding \in Clock, NEW issuing \in Clock,
               NEW n \in 0..query.maxResults,
               Page(s, query, c, now, decoding, issuing, n)
        PROVE  IInv'
    BY <2>3, PageStep
  <2>4. QED
    BY <2>1, <2>2, <2>3
<1>5. CASE UNCHANGED vars
  BY <1>5
  DEF vars, documentVars, modelVars, storeVars, IInv, TypeOK, CursorIsAhead,
      ToldAreOver, PagesMakeUpTheResult, EndedSessionStaysEnded,
      CursorsEndWithTheirSession, found, history, exists
<1>6. QED
  BY <1>1, <1>2, <1>3, <1>4, <1>5 DEF Next

(* The inductive invariant holds in every reachable state.                 *)
LEMMA Invariance == Spec => []IInv
  BY InitIInv, NextIInv, PTL DEF Spec

-----------------------------------------------------------------------------
(* Every variable keeps its type.                                          *)
THEOREM TypeCorrect == Spec => []TypeOK
<1>1. IInv => TypeOK
  BY DEF IInv
<1>2. QED
  BY <1>1, Invariance, PTL

(* The pages that a reader was given one after the other make up the       *)
(* result of his query at one Revision.                                    *)
THEOREM ReadsAreExact == Spec => []PagesMakeUpTheResult
<1>1. IInv => PagesMakeUpTheResult
  BY DEF IInv
<1>2. QED
  BY <1>1, Invariance, PTL

(* A session is not answered any more after somebody was told of its end.  *)
THEOREM SessionsEndForGood == Spec => []EndedSessionStaysEnded
<1>1. IInv => EndedSessionStaysEnded
  BY DEF IInv
<1>2. QED
  BY <1>1, Invariance, PTL

(* Nor are its cursors, by any session.                                    *)
THEOREM CursorsEndForGood == Spec => []CursorsEndWithTheirSession
<1>1. IInv => CursorsEndWithTheirSession
  BY DEF IInv
<1>2. QED
  BY <1>1, Invariance, PTL

=============================================================================
