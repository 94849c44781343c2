----------------------------- MODULE SnapshotCache -----------------------------
(***************************************************************************)
(* The process-wide cache of verified Snapshots                            *)
(* (model/document-snapshot-cache.ts).                                     *)
(*                                                                         *)
(* A cache is a record of the module's state: the entries of the Snapshots *)
(* that were verified or promoted, the provisional entries the kernel      *)
(* staged for Snapshots it derived, the derived Snapshot of each source,   *)
(* the identities of the entries that may be trusted, and two counters.    *)
(* Snapshots stand for the JavaScript objects: two with the same content   *)
(* are two Snapshots.  An entry says which Snapshot it is of, its identity *)
(* and the length of its payload; what else it holds is no concern here.   *)
(***************************************************************************)
EXTENDS Integers, FiniteSets

CONSTANT NoEntry

Empty == [x \in {} |-> x]

EmptyCache ==
    [verified |-> Empty, provisional |-> Empty, bySource |-> Empty, identities |-> {},
     activeEntryCount |-> 0, retainedCodeUnits |-> 0]

\* Map.delete and Map.set.
Without(map, key) == [x \in DOMAIN map \ {key} |-> map[x]]
With(map, key, value) ==
    [x \in DOMAIN map \cup {key} |-> IF x = key THEN value ELSE map[x]]

isVerified(cache, snapshot) ==
    /\ snapshot \in DOMAIN cache.verified
    /\ cache.verified[snapshot].identity \in cache.identities

getVerified(cache, snapshot) ==
    IF isVerified(cache, snapshot) THEN cache.verified[snapshot] ELSE NoEntry

-----------------------------------------------------------------------------
(* Retiring.                                                               *)

retireProvisional(cache, snapshot) ==
    IF snapshot \notin DOMAIN cache.provisional
    THEN cache
    ELSE LET staged == cache.provisional[snapshot]
             isLatest == /\ staged.source \in DOMAIN cache.bySource
                         /\ cache.bySource[staged.source] = snapshot
         IN  [cache EXCEPT
                !.provisional = Without(@, snapshot),
                !.bySource = IF isLatest THEN Without(@, staged.source) ELSE @,
                !.identities = @ \ {staged.entry.identity}]

dropVerified(cache, snapshot) ==
    IF ~ isVerified(cache, snapshot)
    THEN cache
    ELSE LET entry == cache.verified[snapshot]
         IN  [cache EXCEPT
                !.verified = Without(@, snapshot),
                !.identities = @ \ {entry.identity},
                !.activeEntryCount = @ - 1,
                !.retainedCodeUnits = @ - entry.length]

retireDerivedOf(cache, snapshot) ==
    IF snapshot \in DOMAIN cache.bySource
    THEN retireProvisional(cache, cache.bySource[snapshot])
    ELSE cache

\* The entry of a Snapshot, what was staged for it, and what was derived from it.
retireVerified(cache, snapshot) ==
    retireDerivedOf(retireProvisional(dropVerified(cache, snapshot), snapshot), snapshot)

-----------------------------------------------------------------------------
(* Installing.                                                             *)

installCache(cache, entry) ==
    [retireVerified(cache, entry.snapshot) EXCEPT
        !.identities = @ \cup {entry.identity},
        !.verified = With(@, entry.snapshot, entry),
        !.activeEntryCount = @ + 1,
        !.retainedCodeUnits = @ + entry.length]

\* The entry was computed from a Snapshot found frozen, valid and with its declared hash.
cacheVerifiedFrozen(cache, entry) ==
    IF entry.snapshot \in DOMAIN cache.verified THEN cache ELSE installCache(cache, entry)

\* The kernel may stage an entry for a Snapshot derived from a verified one.
CanStage(cache, source, snapshot) ==
    /\ isVerified(cache, source)
    /\ ~ isVerified(cache, snapshot)
    /\ source # snapshot

\* What was staged for the source before, and for the Snapshot itself, goes.
makeRoomFor(cache, source, snapshot) ==
    IF source \in DOMAIN cache.bySource /\ cache.bySource[source] # snapshot
    THEN retireProvisional(retireProvisional(cache, cache.bySource[source]), snapshot)
    ELSE retireProvisional(cache, snapshot)

cacheKernelDerived(cache, source, entry) ==
    IF ~ CanStage(cache, source, entry.snapshot)
    THEN cache
    ELSE [makeRoomFor(cache, source, entry.snapshot) EXCEPT
            !.identities = @ \cup {entry.identity},
            !.provisional = With(@, entry.snapshot, [source |-> source, entry |-> entry]),
            !.bySource = With(@, source, entry.snapshot)]

CanActivate(cache, source, snapshot) ==
    /\ isVerified(cache, source)
    /\ snapshot \in DOMAIN cache.provisional
    /\ cache.provisional[snapshot].source = source
    /\ cache.provisional[snapshot].entry.identity \in cache.identities
    /\ source # snapshot

\* Broken variant: the entry of the source is not retired.
activateKernelDerived_KeepsTheSource(cache, source, snapshot) ==
    IF ~ CanActivate(cache, source, snapshot)
    THEN cache
    ELSE installCache(retireProvisional(cache, snapshot), cache.provisional[snapshot].entry)

\* The Authority committed the Snapshot: its entry replaces the source's.
activateKernelDerived(cache, source, snapshot) ==
    IF ~ CanActivate(cache, source, snapshot)
    THEN cache
    ELSE LET entry == cache.provisional[snapshot].entry
         IN  retireVerified(installCache(retireProvisional(cache, snapshot), entry), source)

-----------------------------------------------------------------------------
(* The counter counts the entries, an entry may be trusted exactly while a *)
(* map holds it, each source has one staged Snapshot and each staged       *)
(* Snapshot its source, and nothing is both verified and staged.           *)

\* Retained memory is accounted for, and no retired entry can be trusted again.
Consistent(cache) ==
    /\ cache.activeEntryCount = Cardinality(DOMAIN cache.verified)
    /\ cache.identities =
            {cache.verified[s].identity : s \in DOMAIN cache.verified} \cup
            {cache.provisional[s].entry.identity : s \in DOMAIN cache.provisional}
    /\ \A s \in DOMAIN cache.provisional :
            /\ cache.provisional[s].source \in DOMAIN cache.bySource
            /\ cache.bySource[cache.provisional[s].source] = s
    /\ \A s \in DOMAIN cache.bySource :
            /\ cache.bySource[s] \in DOMAIN cache.provisional
            /\ cache.provisional[cache.bySource[s]].source = s
    /\ DOMAIN cache.verified \cap DOMAIN cache.provisional = {}
=============================================================================
