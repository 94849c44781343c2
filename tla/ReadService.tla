---------------------------- MODULE ReadService ----------------------------
(***************************************************************************)
(* InProcessDocumentReadService, with the session store, the cursor codec  *)
(* and the Revision history it reads through.  Every call is synchronous;  *)
(* what a reader sees as one result is several calls, and between them     *)
(* Revisions are committed, Models are disposed and reopened, sessions end *)
(* and the clock, which promises nothing, may fail or go back.             *)
(*                                                                         *)
(* A cursor is authenticated: only an issued one decodes.  The variable    *)
(* cursor is any one of those issued so far, so that a request can bring   *)
(* the last one, an older one or somebody else's.                          *)
(***************************************************************************)
EXTENDS Integers, Sequences, FiniteSets

CONSTANTS
  Sessions,           \* session identities
  Revisions,          \* Revision identities
  First,              \* the Revision of the first Snapshot
  Scopes,             \* what a session may read
  DocumentWide,       \* the scope that names no node and no section
  Offers,             \* the grants that sessions are opened with
  Queries,            \* paged requests: service, since, maxResults
  Findings,           \* what each query but a history finds: scope, Revision
  Times, Unavailable, \* what the clock may answer
  CursorTtl,
  MaxWalk,            \* #maxWalkRevisions
  Nothing

ASSUME FirstAssumption == First \in Revisions

ASSUME DocumentWideAssumption == DocumentWide \in Scopes

ASSUME TimesAssumption ==
  Times \subseteq Nat /\ Unavailable \notin Times /\ CursorTtl \in Nat

Grants == [revision : Revisions, scope : Scopes, expiresAt : Times]

ASSUME OffersAssumption == Offers \subseteq Grants

Services == {"document.get_outline", "document.search", "document.read_nodes",
             "document.read_node_neighborhood", "document.get_diagnostics",
             "document.get_changes_since"}

ASSUME QueriesAssumption ==
  Queries \subseteq
    [service : Services, since : Revisions, maxResults : Nat \ {0}]

ASSUME FindingsAssumption ==
  Findings \in [Queries -> [Scopes -> [Revisions -> Seq(Nat)]]]

ASSUME NothingAssumption == Nothing \notin Sessions \cup Revisions

VARIABLES
  line,           \* the mainline up to a Revision, <<>> before its commit
  authorityHead,
  retained,       \* the Revisions the Authority of this lifetime knows
  model,          \* the registry's entry: "active", "disposed" or "absent"
  head,           \* the Model's head
  snapshots,      \* the Revisions whose Snapshots the Model has
  sessions, expired, seen, disposed,  \* the session store
  cursor,         \* an issued cursor, or Nothing
  reply,          \* what the last step has answered, or Nothing
  told            \* sessions of which a caller was told that they are over

documentVars == <<line, authorityHead, retained>>
modelVars == <<model, head, snapshots>>
storeVars == <<sessions, expired, seen, disposed>>
vars == <<documentVars, modelVars, storeVars, cursor, reply, told>>

Bindings ==
  [session : Sessions, revision : Revisions, scope : Scopes, query : Queries]

Items == Revisions \cup Nat

Cursors ==
  [binding : Bindings, position : Nat, expiresAt : Nat, read : Seq(Items)]

Replies ==
  [type : {"error"}, session : Sessions]
    \cup [type : {"whole"}, session : Sessions, revision : Revisions]
    \cup [type : {"page"}, session : Sessions, binding : Bindings,
          continues : Sessions \cup {Nothing}, read : Seq(Items),
          last : BOOLEAN]

TypeOK ==
  /\ line \in [Revisions -> Seq(Revisions)]
  /\ {authorityHead, head} \subseteq Revisions
  /\ snapshots \cup retained \subseteq Revisions
  /\ \A r \in snapshots \cup retained \cup {authorityHead, head} : line[r] # <<>>
  /\ model \in {"active", "disposed", "absent"}
  /\ DOMAIN sessions \subseteq seen
  /\ \A s \in DOMAIN sessions : sessions[s] \in Offers
  /\ expired \cup told \subseteq seen
  /\ seen \subseteq Sessions
  /\ disposed \in BOOLEAN
  /\ cursor \in Cursors \cup {Nothing}
  /\ reply \in Replies \cup {Nothing}

exists(r) == line[r] # <<>>

without(s) == [t \in DOMAIN sessions \ {s} |-> sessions[t]]

-----------------------------------------------------------------------------
(* The document: commits, and the Model that follows them.                 *)

Commit(r) ==
  /\ ~exists(r)
  /\ line' = [line EXCEPT ![r] = Append(line[authorityHead], r)]
  /\ authorityHead' = r
  /\ retained' = retained \cup {r}
  /\ reply' = Nothing
  /\ UNCHANGED <<modelVars, storeVars, cursor, told>>

Refresh ==
  /\ model = "active"
  /\ head # authorityHead
  /\ head' = authorityHead
  /\ snapshots' = snapshots \cup {authorityHead}
  /\ reply' = Nothing
  /\ UNCHANGED <<documentVars, model, storeVars, cursor, told>>

DisposeModel ==
  /\ model = "active"
  /\ model' = "disposed"
  /\ reply' = Nothing
  /\ UNCHANGED <<documentVars, head, snapshots, storeVars, cursor, told>>

UnregisterModel ==
  /\ model = "disposed"
  /\ model' = "absent"
  /\ reply' = Nothing
  /\ UNCHANGED <<documentVars, head, snapshots, storeVars, cursor, told>>

(* Another Authority: of the Revisions before, it knows its head only, and *)
(* a Revision that was still memory-only is lost.                          *)
Recover(r) ==
  /\ model = "absent"
  /\ line[authorityHead] \in {line[r], Append(line[r], authorityHead)}
  /\ exists(r)
  /\ authorityHead' = r
  /\ retained' = {r}
  /\ reply' = Nothing
  /\ UNCHANGED <<line, modelVars, storeVars, cursor, told>>

RegisterModel ==
  /\ model = "absent"
  /\ model' = "active"
  /\ head' = authorityHead
  /\ snapshots' = {authorityHead}
  /\ reply' = Nothing
  /\ UNCHANGED <<documentVars, storeVars, cursor, told>>

-----------------------------------------------------------------------------
(* The session store.                                                      *)

Open(s, grant, now) ==
  /\ ~disposed
  /\ s \notin seen
  /\ now < grant.expiresAt
  /\ sessions' = [t \in DOMAIN sessions \cup {s} |->
                    IF t = s THEN grant ELSE sessions[t]]
  /\ seen' = seen \cup {s}
  /\ reply' = Nothing
  /\ UNCHANGED <<documentVars, modelVars, expired, disposed, cursor, told>>

Revoke(s) ==
  /\ s \in DOMAIN sessions \cup expired
  /\ sessions' = without(s)
  /\ expired' = expired \ {s}
  /\ told' = told \cup {s}
  /\ reply' = Nothing
  /\ UNCHANGED <<documentVars, modelVars, seen, disposed, cursor>>

DisposeStore ==
  /\ ~disposed
  /\ disposed' = TRUE
  /\ sessions' = [s \in {} |-> Nothing]
  /\ expired' = {}
  /\ told' = seen
  /\ reply' = Nothing
  /\ UNCHANGED <<documentVars, modelVars, seen, cursor>>

(* resolve(), with one reading of the clock.                               *)
isGranted(s, now) ==
  /\ s \in DOMAIN sessions
  /\ now # Unavailable
  /\ now < sessions[s].expiresAt

isPastExpiry(s, now) ==
  /\ s \in DOMAIN sessions
  /\ now # Unavailable
  /\ now >= sessions[s].expiresAt

Error(s) == [type |-> "error", session |-> s]

(* Broken variant: expiry is not recorded.                                 *)
RefuseExpired_Forgets(s, now) ==
  /\ isPastExpiry(s, now)
  /\ told' = told \cup {s}
  /\ reply' = Error(s)
  /\ UNCHANGED <<documentVars, modelVars, storeVars, cursor>>

(* The answer is SESSION_EXPIRED and from now on it stays that.            *)
RefuseExpired(s, now) ==
  /\ isPastExpiry(s, now)
  /\ sessions' = without(s)
  /\ expired' = expired \cup {s}
  /\ told' = told \cup {s}
  /\ reply' = Error(s)
  /\ UNCHANGED <<documentVars, modelVars, seen, disposed, cursor>>

RefuseUnknown(s, now) ==
  /\ s \notin DOMAIN sessions \/ now = Unavailable
  /\ told' = told \cup ({s} \cap (seen \ DOMAIN sessions))
  /\ reply' = Error(s)
  /\ UNCHANGED <<documentVars, modelVars, storeVars, cursor>>

-----------------------------------------------------------------------------
(* Paged requests.                                                         *)

isHistory(query) == query.service = "document.get_changes_since"

needsWholeDocument(query) ==
  query.service \in {"document.get_diagnostics", "document.get_changes_since"}

(* A result is collected from the cursor on, or first and then cut.        *)
isCollectedFromStart(query) ==
  query.service \in {"document.get_outline", "document.search"}

(* Broken variant: a cursor is not bound to its session.                   *)
sameBinding_AnySession(b, c) ==
  b.query = c.query /\ b.revision = c.revision /\ b.scope = c.scope

sameBinding(b, c) == b = c

(* getChangesSince() is bound to the head, everything else to the Revision *)
(* of the session's grant.                                                 *)
cursorBinding(s, query) ==
  [session |-> s,
   revision |-> IF isHistory(query) THEN head ELSE sessions[s].revision,
   scope |-> sessions[s].scope,
   query |-> query]

(* getRevisions(): the Revisions after since, up to through.               *)
history(since, through) ==
  SubSeq(line[through], Len(line[since]) + 1, Len(line[through]))

isAncestor(since, through) ==
  /\ Len(line[since]) =< Len(line[through])
  /\ line[since] = SubSeq(line[through], 1, Len(line[since]))

hasHistory(since, through) ==
  /\ {since, through} \subseteq retained
  /\ isAncestor(since, through)
  /\ Len(line[through]) - Len(line[since]) =< MaxWalk
  /\ \A i \in 1..Len(history(since, through)) :
       history(since, through)[i] \in retained

(* The whole result of a query at the Revision it is bound to.             *)
found(b) ==
  IF isHistory(b.query)
    THEN history(b.query.since, b.revision)
    ELSE Findings[b.query][b.scope][b.revision]

decodes(c, b, now) ==
  sameBinding(c.binding, b) /\ now # Unavailable /\ now < c.expiresAt

startOf(c) == IF c = Nothing THEN 0 ELSE c.position

isServed(b, c, now) ==
  /\ needsWholeDocument(b.query) => b.scope = DocumentWide
  /\ model = "active"
  /\ c # Nothing => decodes(c, b, now)
  /\ IF isHistory(b.query) THEN hasHistory(b.query.since, b.revision)
                           ELSE b.revision \in snapshots
  /\ ~isCollectedFromStart(b.query) => startOf(c) =< Len(found(b))

Cancel(s) ==
  /\ reply' = Error(s)
  /\ UNCHANGED <<documentVars, modelVars, storeVars, cursor, told>>

(* A request of a session in force that comes with a cursor of something   *)
(* else, or asks for what is not there.                                    *)
RefuseRequest(s, query, c, now, decoding) ==
  /\ isGranted(s, now)
  /\ ~isServed(cursorBinding(s, query), c, decoding)
  /\ reply' = Error(s)
  /\ UNCHANGED <<documentVars, modelVars, storeVars, cursor, told>>

page(b, start) ==
  LET end == start + b.query.maxResults
  IN  SubSeq(found(b), start + 1,
             IF end < Len(found(b)) THEN end ELSE Len(found(b)))

(* #pagedResult(): the n first items of a page fit in a response.  If they *)
(* are not all that is left, the answer carries a cursor for the rest.     *)
isLast(b, start, n) == start + n >= Len(found(b))

(* Broken variant: the cursor skips the items that did not fit.            *)
nextPosition_SkipsTrimmed(b, start, n) == start + Len(page(b, start))

nextPosition(b, start, n) == start + n

Page(s, query, c, now, decoding, issuing, n) ==
  LET b == cursorBinding(s, query)
      start == startOf(c)
      read == (IF c = Nothing THEN <<>> ELSE c.read) \o SubSeq(page(b, start), 1, n)
  IN  /\ isGranted(s, now)
      /\ isServed(b, c, decoding)
      /\ n =< Len(page(b, start))
      /\ ~isLast(b, start, n) => n > 0 /\ issuing # Unavailable
      /\ reply' = [type |-> "page", session |-> s, binding |-> b,
                   continues |-> IF c = Nothing THEN Nothing ELSE c.binding.session,
                   read |-> read, last |-> isLast(b, start, n)]
      /\ \/ UNCHANGED cursor
         \/ /\ ~isLast(b, start, n)
            /\ cursor' = [binding |-> b, position |-> nextPosition(b, start, n),
                          expiresAt |-> issuing + CursorTtl, read |-> read]
      /\ UNCHANGED <<documentVars, modelVars, storeVars, told>>

(* The page does not fit at all, the clock fails when its cursor is issued, *)
(* the request is cancelled while items are collected, or one of them is   *)
(* hidden from the session.                                                *)
RefusePage(s, query, c, now, decoding) ==
  /\ isGranted(s, now)
  /\ isServed(cursorBinding(s, query), c, decoding)
  /\ reply' = Error(s)
  /\ UNCHANGED <<documentVars, modelVars, storeVars, cursor, told>>

-----------------------------------------------------------------------------
(* Requests answered as a whole.                                           *)

GetHead(s, now) ==
  /\ isGranted(s, now)
  /\ reply' = IF model = "active"
                THEN [type |-> "whole", session |-> s, revision |-> head]
                ELSE Error(s)
  /\ UNCHANGED <<documentVars, modelVars, storeVars, cursor, told>>

GetSnapshot(s, now) ==
  /\ isGranted(s, now)
  /\ reply' = IF /\ sessions[s].scope = DocumentWide
                 /\ model = "active"
                 /\ sessions[s].revision \in snapshots
                THEN [type |-> "whole", session |-> s,
                      revision |-> sessions[s].revision]
                ELSE Error(s)
  /\ UNCHANGED <<documentVars, modelVars, storeVars, cursor, told>>

-----------------------------------------------------------------------------
Init ==
  /\ line = [r \in Revisions |-> IF r = First THEN <<First>> ELSE <<>>]
  /\ authorityHead = First
  /\ retained = {First}
  /\ model = "active"
  /\ head = First
  /\ snapshots = {First}
  /\ sessions = [s \in {} |-> Nothing]
  /\ expired = {}
  /\ seen = {}
  /\ disposed = FALSE
  /\ cursor = Nothing
  /\ reply = Nothing
  /\ told = {}

Clock == Times \cup {Unavailable}

document ==
  \/ \E r \in Revisions : Commit(r) \/ Recover(r)
  \/ Refresh
  \/ DisposeModel
  \/ UnregisterModel
  \/ RegisterModel

store ==
  \/ \E s \in Sessions, grant \in Offers, now \in Times : Open(s, grant, now)
  \/ \E s \in Sessions : Revoke(s)
  \/ DisposeStore

refusal ==
  \E s \in Sessions, now \in Clock :
    \/ RefuseExpired(s, now)
    \/ RefuseUnknown(s, now)
    \/ Cancel(s)
    \/ \E query \in Queries, c \in {Nothing, cursor}, decoding \in Clock :
         \/ RefuseRequest(s, query, c, now, decoding)
         \/ RefusePage(s, query, c, now, decoding)

answer ==
  \E s \in Sessions, now \in Times :
    \/ GetHead(s, now)
    \/ GetSnapshot(s, now)
    \/ \E query \in Queries, c \in {Nothing, cursor}, decoding, issuing \in Clock :
         \E n \in 0..query.maxResults :
           Page(s, query, c, now, decoding, issuing, n)

Next == document \/ store \/ refusal \/ answer

Spec == Init /\ [][Next]_vars

-----------------------------------------------------------------------------
(* Properties. *)

(* A reader who follows the cursors from page to page has read, so far, a  *)
(* prefix of the result of his query at one Revision, and with the last    *)
(* page all of it: whatever is committed, trimmed, refused and retried in  *)
(* between, no item is skipped, repeated or taken from another Revision.   *)
PagesMakeUpTheResult ==
  reply # Nothing /\ reply.type = "page" =>
    LET result == found(reply.binding)
    IN  /\ Len(reply.read) =< Len(result)
        /\ reply.read = SubSeq(result, 1, Len(reply.read))
        /\ reply.last => reply.read = result

(* Once a caller was told that a session is expired or revoked, it is over *)
(* for everybody: it answers nothing any more, although the clock may go   *)
(* back behind its expiry and its identity may be offered again.           *)
EndedSessionStaysEnded ==
  reply # Nothing /\ reply.type \in {"page", "whole"} =>
    reply.session \notin told

(* With a session its cursors are over: no other session, were its grant   *)
(* the same, is answered where it has stopped.                             *)
CursorsEndWithTheirSession ==
  reply # Nothing /\ reply.type = "page" => reply.continues \notin told

=============================================================================
