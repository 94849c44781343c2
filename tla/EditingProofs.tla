----------------------------- MODULE EditingProofs -----------------------------
(***************************************************************************)
(* Proofs about Editing.                                                   *)
(*                                                                         *)
(* What the cache keeps (RetentionIsBounded): every operation of the cache *)
(* keeps what a cache is (IsCache) and retires exactly the Snapshots that  *)
(* go with the one it is asked for; the kernel only stages the object it   *)
(* has just made, for the head; so what is held is the head's entry and    *)
(* what was derived from it (Follows).                                     *)
(*                                                                         *)
(* What a commit is (CommitsAreExact): an index that finds the nodes of a  *)
(* tree (IndexFits) leads a ReplaceText to the one node it names           *)
(* (Replaces), and the index that is derived beside it finds the nodes of  *)
(* the new tree; so the Operations make one tree after the other (Chain),  *)
(* the document is the head with that tree (Derives), and its texts are    *)
(* those of the head, edited (TextsAre).  The index that the cache trusts  *)
(* is always the head's (CacheFits).                                       *)
(*                                                                         *)
(* Where a position is (PositionsFollowTheText): a step leads a place the  *)
(* way of the units beside it (StepLeads, PlaceStays), so a Transaction    *)
(* leaves a position where it stands among what is left of an old text     *)
(* (TransactionStands).  Each Revision has the map of its Operations, and  *)
(* its claims are those before it, rebased along that map (FollowsFrom);   *)
(* composed maps make the steps of one Transaction after the other         *)
(* (MapOfSteps).                                                           *)
(*                                                                         *)
(* What a Revision is (EveryRevisionIsSound): the boundaries of a text are *)
(* the places that no pair of surrogates straddles (IsCut).  An Operation  *)
(* replaces between two of them by a well-formed text, so texts stay       *)
(* well-formed and a position that was at a boundary is mapped to one      *)
(* (StepKeepsCut).  Nodes are carried along the chain of trees with their  *)
(* IDs and types (TreeIsCarried), entities with theirs.  The first document*)
(* is sound because the validator found it so (CheckedIsSound), and each is*)
(* sound because the one before it was (NextIsSound).                      *)
(***************************************************************************)
EXTENDS Editing, FiniteSetTheorems, SequenceTheorems, WellFoundedInduction, TLAPS

\* An identity is of one Snapshot only.
IsEntryOf(entry, snapshot) ==
    entry.snapshot = snapshot /\ entry.identity[1] = snapshot

\* What a cache is.
IsCache(c) ==
    /\ c = [verified |-> c.verified, provisional |-> c.provisional, bySource |-> c.bySource,
            identities |-> c.identities, activeEntryCount |-> c.activeEntryCount,
            retainedCodeUnits |-> c.retainedCodeUnits]
    /\ IsFiniteSet(DOMAIN c.verified)
    /\ \A s \in DOMAIN c.verified : IsEntryOf(c.verified[s], s)
    /\ \A s \in DOMAIN c.provisional : IsEntryOf(c.provisional[s].entry, s)
    /\ Consistent(c)

-----------------------------------------------------------------------------
(* The cache. *)

\* Map.delete.
LEMMA WithoutKey ==
    ASSUME NEW map, NEW key
    PROVE  /\ DOMAIN Without(map, key) = DOMAIN map \ {key}
           /\ \A x \in DOMAIN map \ {key} : Without(map, key)[x] = map[x]
BY DEF Without

\* The result of an operation retires the staged Snapshots in gone, and no others.
Retires(c, d, gone) ==
    /\ IsCache(d)
    /\ DOMAIN d.provisional = DOMAIN c.provisional \ gone
    /\ \A s \in DOMAIN d.provisional : d.provisional[s] = c.provisional[s]

\* A staged Snapshot is retired with its identity and its place with its source.
LEMMA RetireProvisional ==
    ASSUME NEW c, IsCache(c), NEW snapshot
    PROVE  LET d == retireProvisional(c, snapshot)
           IN  /\ Retires(c, d, {snapshot})
               /\ d.verified = c.verified
               /\ snapshot \notin DOMAIN c.provisional => d = c
<1> DEFINE d == retireProvisional(c, snapshot)
           staged == c.provisional[snapshot]
<1>1. CASE snapshot \notin DOMAIN c.provisional
  BY <1>1 DEF retireProvisional, Retires
<1>2. CASE snapshot \in DOMAIN c.provisional
  <2>1. staged.source \in DOMAIN c.bySource /\ c.bySource[staged.source] = snapshot
    BY <1>2 DEF IsCache, Consistent
  <2>2. d = [c EXCEPT !.provisional = Without(@, snapshot),
                      !.bySource = Without(@, staged.source),
                      !.identities = @ \ {staged.entry.identity}]
    BY <1>2, <2>1 DEF retireProvisional
  <2>3. /\ d = [verified |-> c.verified, provisional |-> Without(c.provisional, snapshot),
                bySource |-> Without(c.bySource, staged.source),
                identities |-> c.identities \ {staged.entry.identity},
                activeEntryCount |-> c.activeEntryCount,
                retainedCodeUnits |-> c.retainedCodeUnits]
    BY <2>2 DEF IsCache
  <2> HIDE DEF d
  <2>4. /\ d.verified = c.verified
        /\ d.provisional = Without(c.provisional, snapshot)
        /\ d.bySource = Without(c.bySource, staged.source)
        /\ d.identities = c.identities \ {staged.entry.identity}
        /\ d.activeEntryCount = c.activeEntryCount
    BY <2>3
  <2>5. /\ DOMAIN d.provisional = DOMAIN c.provisional \ {snapshot}
        /\ \A s \in DOMAIN d.provisional : d.provisional[s] = c.provisional[s]
        /\ DOMAIN d.bySource = DOMAIN c.bySource \ {staged.source}
        /\ \A s \in DOMAIN d.bySource : d.bySource[s] = c.bySource[s]
    <3>1. \A map, key : /\ DOMAIN Without(map, key) = DOMAIN map \ {key}
                        /\ \A x \in DOMAIN map \ {key} : Without(map, key)[x] = map[x]
      BY WithoutKey
    <3>2. /\ DOMAIN d.provisional = DOMAIN c.provisional \ {snapshot}
          /\ \A s \in DOMAIN d.provisional : d.provisional[s] = c.provisional[s]
      BY <2>4, <3>1
    <3>3. /\ DOMAIN d.bySource = DOMAIN c.bySource \ {staged.source}
          /\ \A s \in DOMAIN d.bySource : d.bySource[s] = c.bySource[s]
      BY <2>4, <3>1
    <3> QED
      BY <3>2, <3>3
  <2>6. Consistent(d)
    <3>1. d.identities =
            {d.verified[s].identity : s \in DOMAIN d.verified} \cup
            {d.provisional[s].entry.identity : s \in DOMAIN d.provisional}
      <4>1. \A s \in DOMAIN c.verified : c.verified[s].identity # staged.entry.identity
        BY <1>2 DEF IsCache, IsEntryOf, Consistent
      <4>2. \A s \in DOMAIN c.provisional \ {snapshot} :
                c.provisional[s].entry.identity # staged.entry.identity
        BY <1>2 DEF IsCache, IsEntryOf
      <4> QED
        BY <2>4, <2>5, <4>1, <4>2 DEF IsCache, Consistent
    <3>2. \A s \in DOMAIN d.provisional :
            /\ d.provisional[s].source \in DOMAIN d.bySource
            /\ d.bySource[d.provisional[s].source] = s
      BY <2>1, <2>5 DEF IsCache, Consistent
    <3>3. \A s \in DOMAIN d.bySource :
            /\ d.bySource[s] \in DOMAIN d.provisional
            /\ d.provisional[d.bySource[s]].source = s
      BY <2>1, <2>5 DEF IsCache, Consistent
    <3>4. /\ d.activeEntryCount = Cardinality(DOMAIN d.verified)
          /\ DOMAIN d.verified \cap DOMAIN d.provisional = {}
      BY <2>4, <2>5 DEF IsCache, Consistent
    <3> QED
      BY <3>1, <3>2, <3>3, <3>4 DEF Consistent
  <2>7. IsCache(d)
    BY <2>3, <2>4, <2>5, <2>6 DEF IsCache
  <2> QED
    BY <1>2, <2>4, <2>5, <2>7 DEF Retires, d
<1> QED
  BY <1>1, <1>2

\* A Snapshot loses its entry.
LEMMA DropVerified ==
    ASSUME NEW c, IsCache(c), NEW snapshot
    PROVE  LET d == dropVerified(c, snapshot)
           IN  /\ Retires(c, d, {})
               /\ DOMAIN d.verified = DOMAIN c.verified \ {snapshot}
               /\ \A s \in DOMAIN d.verified : d.verified[s] = c.verified[s]
<1> DEFINE d == dropVerified(c, snapshot)
           entry == c.verified[snapshot]
<1>1. isVerified(c, snapshot) <=> snapshot \in DOMAIN c.verified
  BY DEF isVerified, IsCache, Consistent
<1>2. CASE snapshot \notin DOMAIN c.verified
  BY <1>1, <1>2 DEF dropVerified, Retires
<1>3. CASE snapshot \in DOMAIN c.verified
  <2>1. d = [c EXCEPT !.verified = Without(@, snapshot),
                      !.identities = @ \ {entry.identity},
                      !.activeEntryCount = @ - 1,
                      !.retainedCodeUnits = @ - entry.length]
    BY <1>1, <1>3 DEF dropVerified
  <2>2. /\ d = [verified |-> Without(c.verified, snapshot), provisional |-> c.provisional,
                bySource |-> c.bySource,
                identities |-> c.identities \ {entry.identity},
                activeEntryCount |-> c.activeEntryCount - 1,
                retainedCodeUnits |-> c.retainedCodeUnits - entry.length]
    BY <2>1 DEF IsCache
  <2> HIDE DEF d
  <2>3. /\ d.verified = Without(c.verified, snapshot)
        /\ d.provisional = c.provisional
        /\ d.bySource = c.bySource
        /\ d.identities = c.identities \ {entry.identity}
        /\ d.activeEntryCount = c.activeEntryCount - 1
    BY <2>2
  <2>4. /\ DOMAIN d.verified = DOMAIN c.verified \ {snapshot}
        /\ \A s \in DOMAIN d.verified : d.verified[s] = c.verified[s]
    <3>1. \A map, key : /\ DOMAIN Without(map, key) = DOMAIN map \ {key}
                        /\ \A x \in DOMAIN map \ {key} : Without(map, key)[x] = map[x]
      BY WithoutKey
    <3> QED
      BY <2>3, <3>1
  <2>5. d.identities =
            {d.verified[s].identity : s \in DOMAIN d.verified} \cup
            {d.provisional[s].entry.identity : s \in DOMAIN d.provisional}
    <3>1. \A s \in DOMAIN c.provisional : c.provisional[s].entry.identity # entry.identity
      BY <1>3 DEF IsCache, IsEntryOf, Consistent
    <3>2. \A s \in DOMAIN c.verified \ {snapshot} : c.verified[s].identity # entry.identity
      BY <1>3 DEF IsCache, IsEntryOf
    <3> QED
      BY <2>3, <2>4, <3>1, <3>2 DEF IsCache, Consistent
  <2>6. /\ IsFiniteSet(DOMAIN d.verified)
        /\ d.activeEntryCount = Cardinality(DOMAIN d.verified)
    BY <1>3, <2>3, <2>4, FS_RemoveElement DEF IsCache, Consistent
  <2>7. Consistent(d)
    <3>1. /\ DOMAIN d.verified \cap DOMAIN d.provisional = {}
          /\ \A s \in DOMAIN d.provisional :
                /\ d.provisional[s].source \in DOMAIN d.bySource
                /\ d.bySource[d.provisional[s].source] = s
          /\ \A s \in DOMAIN d.bySource :
                /\ d.bySource[s] \in DOMAIN d.provisional
                /\ d.provisional[d.bySource[s]].source = s
      BY <2>3, <2>4 DEF IsCache, Consistent
    <3> QED
      BY <2>5, <2>6, <3>1 DEF Consistent
  <2>8. IsCache(d)
    BY <2>2, <2>3, <2>4, <2>6, <2>7 DEF IsCache
  <2> QED
    BY <2>3, <2>4, <2>8 DEF Retires, d
<1> QED
  BY <1>2, <1>3

\* What was derived from a Snapshot is retired.
LEMMA RetireDerivedOf ==
    ASSUME NEW c, IsCache(c), NEW snapshot
    PROVE  LET d == retireDerivedOf(c, snapshot)
           IN  /\ Retires(c, d, {s \in DOMAIN c.provisional : c.provisional[s].source = snapshot})
               /\ d.verified = c.verified
<1> DEFINE gone == {s \in DOMAIN c.provisional : c.provisional[s].source = snapshot}
<1>1. CASE snapshot \in DOMAIN c.bySource
  <2>1. gone = {c.bySource[snapshot]}
    BY <1>1 DEF IsCache, Consistent
  <2> QED
    BY <1>1, <2>1, RetireProvisional DEF retireDerivedOf
<1>2. CASE snapshot \notin DOMAIN c.bySource
  <2>1. gone = {}
    BY <1>2 DEF IsCache, Consistent
  <2> QED
    BY <1>2, <2>1 DEF retireDerivedOf, Retires
<1> QED
  BY <1>1, <1>2

\* What goes with a Snapshot: what was staged for it and what was derived from it.
GoesWith(c, snapshot) ==
    {s \in DOMAIN c.provisional : s = snapshot \/ c.provisional[s].source = snapshot}

\* Retiring a Snapshot retires its entry and what goes with it, and nothing else.
LEMMA RetireVerified ==
    ASSUME NEW c, IsCache(c), NEW snapshot
    PROVE  LET d == retireVerified(c, snapshot)
           IN  /\ Retires(c, d, GoesWith(c, snapshot))
               /\ DOMAIN d.verified = DOMAIN c.verified \ {snapshot}
               /\ \A s \in DOMAIN d.verified : d.verified[s] = c.verified[s]
<1> DEFINE d1 == dropVerified(c, snapshot)
           d2 == retireProvisional(d1, snapshot)
           d3 == retireDerivedOf(d2, snapshot)
<1>1. /\ Retires(c, d1, {})
      /\ DOMAIN d1.verified = DOMAIN c.verified \ {snapshot}
      /\ \A s \in DOMAIN d1.verified : d1.verified[s] = c.verified[s]
  BY DropVerified
<1> HIDE DEF d1
<1>2. Retires(d1, d2, {snapshot}) /\ d2.verified = d1.verified
  BY <1>1, RetireProvisional DEF Retires
<1> HIDE DEF d2
<1>3. /\ Retires(d2, d3, {s \in DOMAIN d2.provisional : d2.provisional[s].source = snapshot})
      /\ d3.verified = d2.verified
  BY <1>2, RetireDerivedOf DEF Retires
<1> HIDE DEF d3
<1>4. /\ Retires(c, d3, GoesWith(c, snapshot))
      /\ DOMAIN d3.verified = DOMAIN c.verified \ {snapshot}
      /\ \A s \in DOMAIN d3.verified : d3.verified[s] = c.verified[s]
  BY <1>1, <1>2, <1>3 DEF Retires, GoesWith
<1>5. retireVerified(c, snapshot) = d3
  BY DEF retireVerified, d1, d2, d3
<1> QED
  BY <1>4, <1>5

\* Installing an entry replaces what the cache has of its Snapshot.
LEMMA InstallCache ==
    ASSUME NEW c, IsCache(c), NEW snapshot, NEW entry, IsEntryOf(entry, snapshot)
    PROVE  LET d == installCache(c, entry)
           IN  /\ Retires(c, d, GoesWith(c, snapshot))
               /\ DOMAIN d.verified = DOMAIN c.verified \cup {snapshot}
               /\ d.verified[snapshot] = entry
               /\ \A s \in DOMAIN c.verified \ {snapshot} : d.verified[s] = c.verified[s]
<1> DEFINE e == retireVerified(c, snapshot)
           d == installCache(c, entry)
<1>1. /\ Retires(c, e, GoesWith(c, snapshot))
      /\ DOMAIN e.verified = DOMAIN c.verified \ {snapshot}
      /\ \A s \in DOMAIN e.verified : e.verified[s] = c.verified[s]
  BY RetireVerified
<1>2. d = [e EXCEPT !.identities = @ \cup {entry.identity},
                    !.verified = With(@, snapshot, entry),
                    !.activeEntryCount = @ + 1,
                    !.retainedCodeUnits = @ + entry.length]
  BY DEF installCache, IsEntryOf
<1> HIDE DEF e
<1>3. IsCache(e)
  BY <1>1 DEF Retires
<1>4. d = [verified |-> With(e.verified, snapshot, entry), provisional |-> e.provisional,
           bySource |-> e.bySource, identities |-> e.identities \cup {entry.identity},
           activeEntryCount |-> e.activeEntryCount + 1,
           retainedCodeUnits |-> e.retainedCodeUnits + entry.length]
  BY <1>2, <1>3 DEF IsCache
<1> HIDE DEF d
<1>5. /\ d.verified = With(e.verified, snapshot, entry)
      /\ d.provisional = e.provisional
      /\ d.bySource = e.bySource
      /\ d.identities = e.identities \cup {entry.identity}
      /\ d.activeEntryCount = e.activeEntryCount + 1
  BY <1>4
<1>6. /\ DOMAIN d.verified = DOMAIN e.verified \cup {snapshot}
      /\ d.verified[snapshot] = entry
      /\ \A s \in DOMAIN e.verified \ {snapshot} : d.verified[s] = e.verified[s]
  BY <1>5 DEF With
<1>7. snapshot \notin DOMAIN e.verified /\ snapshot \notin DOMAIN e.provisional
  BY <1>1 DEF Retires, GoesWith
<1>8. Consistent(d)
  <2>1. d.identities =
            {d.verified[s].identity : s \in DOMAIN d.verified} \cup
            {d.provisional[s].entry.identity : s \in DOMAIN d.provisional}
    <3>1. {d.verified[s].identity : s \in DOMAIN d.verified} =
            {e.verified[s].identity : s \in DOMAIN e.verified} \cup {entry.identity}
      <4>1. /\ \A s \in DOMAIN e.verified : d.verified[s].identity = e.verified[s].identity
            /\ d.verified[snapshot].identity = entry.identity
        BY <1>6, <1>7
      <4> QED
        BY <1>6, <4>1
    <3>2. e.identities =
            {e.verified[s].identity : s \in DOMAIN e.verified} \cup
            {e.provisional[s].entry.identity : s \in DOMAIN e.provisional}
      BY <1>3 DEF IsCache, Consistent
    <3> QED
      BY <1>5, <3>1, <3>2
  <2>2. d.activeEntryCount = Cardinality(DOMAIN d.verified)
    BY <1>3, <1>5, <1>6, <1>7, FS_AddElement DEF IsCache, Consistent
  <2>3. /\ DOMAIN d.verified \cap DOMAIN d.provisional = {}
        /\ \A s \in DOMAIN d.provisional :
              /\ d.provisional[s].source \in DOMAIN d.bySource
              /\ d.bySource[d.provisional[s].source] = s
        /\ \A s \in DOMAIN d.bySource :
              /\ d.bySource[s] \in DOMAIN d.provisional
              /\ d.provisional[d.bySource[s]].source = s
    BY <1>3, <1>5, <1>6, <1>7 DEF IsCache, Consistent
  <2> QED
    BY <2>1, <2>2, <2>3 DEF Consistent
<1>9. IsCache(d)
  <2>1. IsFiniteSet(DOMAIN d.verified)
    BY <1>3, <1>6, FS_AddElement DEF IsCache
  <2>2. /\ \A s \in DOMAIN d.verified : IsEntryOf(d.verified[s], s)
        /\ \A s \in DOMAIN d.provisional : IsEntryOf(d.provisional[s].entry, s)
    BY <1>3, <1>5, <1>6 DEF IsCache
  <2> QED
    BY <1>4, <1>5, <1>8, <2>1, <2>2 DEF IsCache
<1>10. /\ Retires(c, d, GoesWith(c, snapshot))
       /\ DOMAIN d.verified = DOMAIN c.verified \cup {snapshot}
       /\ d.verified[snapshot] = entry
       /\ \A s \in DOMAIN c.verified \ {snapshot} : d.verified[s] = c.verified[s]
  BY <1>1, <1>5, <1>6, <1>9 DEF Retires
<1> QED
  BY <1>10 DEF d

\* Staging retires what was staged for the same source or the same Snapshot before.
LEMMA CacheKernelDerived ==
    ASSUME NEW c, IsCache(c), NEW source, NEW snapshot, NEW entry, IsEntryOf(entry, snapshot),
           CanStage(c, source, snapshot)
    PROVE  LET d == cacheKernelDerived(c, source, entry)
           IN  /\ IsCache(d)
               /\ d.verified = c.verified
               /\ DOMAIN d.provisional =
                     {s \in DOMAIN c.provisional : c.provisional[s].source # source}
                       \cup {snapshot}
               /\ d.provisional[snapshot] = [source |-> source, entry |-> entry]
               /\ \A s \in DOMAIN d.provisional \ {snapshot} :
                     d.provisional[s] = c.provisional[s]
<1> DEFINE e == makeRoomFor(c, source, snapshot)
           d == cacheKernelDerived(c, source, entry)
           staged == [source |-> source, entry |-> entry]
<1>1. /\ Retires(c, e, {s \in DOMAIN c.provisional :
                            s = snapshot \/ c.provisional[s].source = source})
      /\ e.verified = c.verified
  <2>1. CASE source \in DOMAIN c.bySource /\ c.bySource[source] # snapshot
    <3> DEFINE f == retireProvisional(c, c.bySource[source])
    <3>1. Retires(c, f, {c.bySource[source]}) /\ f.verified = c.verified
      BY RetireProvisional
    <3> HIDE DEF f
    <3>2. /\ Retires(f, retireProvisional(f, snapshot), {snapshot})
          /\ retireProvisional(f, snapshot).verified = f.verified
      BY <3>1, RetireProvisional DEF Retires
    <3>3. e = retireProvisional(f, snapshot)
      BY <2>1 DEF makeRoomFor, f
    <3>4. {s \in DOMAIN c.provisional : s = snapshot \/ c.provisional[s].source = source} =
            ({c.bySource[source], snapshot} \cap DOMAIN c.provisional)
      BY <2>1 DEF IsCache, Consistent
    <3> HIDE DEF e
    <3> QED
      BY <3>1, <3>2, <3>3, <3>4 DEF Retires
  <2>2. CASE ~ (source \in DOMAIN c.bySource /\ c.bySource[source] # snapshot)
    <3>1. e = retireProvisional(c, snapshot)
      BY <2>2 DEF makeRoomFor
    <3>2. \A s \in DOMAIN c.provisional : c.provisional[s].source = source => s = snapshot
      BY <2>2 DEF IsCache, Consistent
    <3>3. Retires(c, e, {snapshot}) /\ e.verified = c.verified
      BY <3>1, RetireProvisional
    <3> HIDE DEF e
    <3> QED
      BY <3>2, <3>3 DEF Retires
  <2> QED
    BY <2>1, <2>2
<1>2. d = [e EXCEPT !.identities = @ \cup {entry.identity},
                    !.provisional = With(@, snapshot, staged),
                    !.bySource = With(@, source, snapshot)]
  BY DEF cacheKernelDerived, IsEntryOf
<1> HIDE DEF e, staged
<1>3. IsCache(e)
  BY <1>1 DEF Retires
<1>4. d = [verified |-> e.verified, provisional |-> With(e.provisional, snapshot, staged),
           bySource |-> With(e.bySource, source, snapshot),
           identities |-> e.identities \cup {entry.identity},
           activeEntryCount |-> e.activeEntryCount,
           retainedCodeUnits |-> e.retainedCodeUnits]
  BY <1>2, <1>3 DEF IsCache
<1> HIDE DEF d
<1>5. /\ d.verified = e.verified
      /\ d.provisional = With(e.provisional, snapshot, staged)
      /\ d.bySource = With(e.bySource, source, snapshot)
      /\ d.identities = e.identities \cup {entry.identity}
      /\ d.activeEntryCount = e.activeEntryCount
  BY <1>4
<1>6. /\ DOMAIN d.provisional = DOMAIN e.provisional \cup {snapshot}
      /\ d.provisional[snapshot] = staged
      /\ \A s \in DOMAIN e.provisional \ {snapshot} : d.provisional[s] = e.provisional[s]
  BY <1>5 DEF With
<1>7. /\ DOMAIN d.bySource = DOMAIN e.bySource \cup {source}
      /\ d.bySource[source] = snapshot
      /\ \A s \in DOMAIN e.bySource \ {source} : d.bySource[s] = e.bySource[s]
  BY <1>5 DEF With
<1>8. /\ snapshot \notin DOMAIN e.provisional
      /\ \A s \in DOMAIN e.provisional : e.provisional[s].source # source
      /\ DOMAIN e.provisional =
            {s \in DOMAIN c.provisional : c.provisional[s].source # source} \ {snapshot}
  BY <1>1 DEF Retires
<1>9. snapshot \notin DOMAIN e.verified
  BY <1>1 DEF CanStage, isVerified, IsCache, Consistent
<1>10. staged.source = source /\ staged.entry = entry
  BY DEF staged
<1>11. Consistent(d)
  <2>1. d.identities =
            {d.verified[s].identity : s \in DOMAIN d.verified} \cup
            {d.provisional[s].entry.identity : s \in DOMAIN d.provisional}
    <3>1. {d.provisional[s].entry.identity : s \in DOMAIN d.provisional} =
            {e.provisional[s].entry.identity : s \in DOMAIN e.provisional}
              \cup {entry.identity}
      <4>1. /\ \A s \in DOMAIN e.provisional :
                  d.provisional[s].entry.identity = e.provisional[s].entry.identity
            /\ d.provisional[snapshot].entry.identity = entry.identity
        BY <1>6, <1>8, <1>10
      <4> QED
        BY <1>6, <4>1
    <3>2. e.identities =
            {e.verified[s].identity : s \in DOMAIN e.verified} \cup
            {e.provisional[s].entry.identity : s \in DOMAIN e.provisional}
      BY <1>3 DEF IsCache, Consistent
    <3> QED
      BY <1>5, <3>1, <3>2
  <2>2. /\ d.activeEntryCount = Cardinality(DOMAIN d.verified)
        /\ DOMAIN d.verified \cap DOMAIN d.provisional = {}
    BY <1>3, <1>5, <1>6, <1>9 DEF IsCache, Consistent
  <2>3. \A s \in DOMAIN d.provisional :
              /\ d.provisional[s].source \in DOMAIN d.bySource
              /\ d.bySource[d.provisional[s].source] = s
    BY <1>3, <1>6, <1>7, <1>8, <1>10 DEF IsCache, Consistent
  <2>4. \A s \in DOMAIN d.bySource :
              /\ d.bySource[s] \in DOMAIN d.provisional
              /\ d.provisional[d.bySource[s]].source = s
    BY <1>3, <1>6, <1>7, <1>8, <1>10 DEF IsCache, Consistent
  <2> QED
    BY <2>1, <2>2, <2>3, <2>4 DEF Consistent
<1>12. IsCache(d)
  <2>1. /\ IsFiniteSet(DOMAIN d.verified)
        /\ \A s \in DOMAIN d.verified : IsEntryOf(d.verified[s], s)
        /\ \A s \in DOMAIN d.provisional : IsEntryOf(d.provisional[s].entry, s)
    BY <1>3, <1>5, <1>6, <1>10 DEF IsCache
  <2> QED
    BY <1>4, <1>5, <1>11, <2>1 DEF IsCache
<1>13. \A s \in DOMAIN d.provisional \ {snapshot} : d.provisional[s] = c.provisional[s]
  BY <1>1, <1>6 DEF Retires
<1> QED
  BY <1>1, <1>5, <1>6, <1>8, <1>12, <1>13 DEF d, staged

\* A committed Snapshot takes the place of its source.
LEMMA ActivateKernelDerived ==
    ASSUME NEW c, IsCache(c), NEW source, NEW snapshot, CanActivate(c, source, snapshot)
    PROVE  LET d == activateKernelDerived(c, source, snapshot)
           IN  /\ Retires(c, d, {snapshot} \cup GoesWith(c, snapshot) \cup GoesWith(c, source))
               /\ DOMAIN d.verified = (DOMAIN c.verified \cup {snapshot}) \ {source}
<1> DEFINE entry == c.provisional[snapshot].entry
           c1 == retireProvisional(c, snapshot)
           c2 == installCache(c1, entry)
           d == retireVerified(c2, source)
<1>1. IsEntryOf(entry, snapshot)
  BY DEF CanActivate, IsCache
<1>2. activateKernelDerived(c, source, snapshot) = d
  BY DEF activateKernelDerived
<1>3. Retires(c, c1, {snapshot}) /\ c1.verified = c.verified
  BY RetireProvisional
<1> HIDE DEF c1, entry
<1>4. /\ Retires(c1, c2, GoesWith(c1, snapshot))
      /\ DOMAIN c2.verified = DOMAIN c1.verified \cup {snapshot}
  BY <1>1, <1>3, InstallCache DEF Retires
<1> HIDE DEF c2
<1>5. /\ Retires(c2, d, GoesWith(c2, source))
      /\ DOMAIN d.verified = DOMAIN c2.verified \ {source}
  BY <1>4, RetireVerified DEF Retires
<1> HIDE DEF d
<1>6. Retires(c, d, {snapshot} \cup GoesWith(c, snapshot) \cup GoesWith(c, source))
  BY <1>3, <1>4, <1>5 DEF Retires, GoesWith
<1>7. DOMAIN d.verified = (DOMAIN c.verified \cup {snapshot}) \ {source}
  BY <1>3, <1>4, <1>5
<1> QED
  BY <1>2, <1>6, <1>7

\* The result of retiring the Snapshots in gone, one after the other.
RetiresAll(c, d, gone) ==
    /\ IsCache(d)
    /\ DOMAIN d.verified = DOMAIN c.verified \ gone
    /\ DOMAIN d.provisional =
          {s \in DOMAIN c.provisional : s \notin gone /\ c.provisional[s].source \notin gone}
    /\ \A s \in DOMAIN d.provisional : d.provisional[s] = c.provisional[s]

\* Induction over the natural numbers up to a bound.
LEMMA InductionUpTo ==
    ASSUME NEW N \in Nat, NEW S, 0 \in S, \A n \in 0 .. N - 1 : n \in S => n + 1 \in S
    PROVE  \A n \in 0 .. N : n \in S
<1> DEFINE R == OpToRel(<, Nat)
           Rest == {n \in 0 .. N : n \notin S}
<1>1. IsWellFoundedOn(R, Nat)
  BY NatLessThanWellFounded
<1>2. \A m, n \in Nat : m < n => <<m, n>> \in R
  BY DEF OpToRel
<1> HIDE DEF R
<1>3. ASSUME Rest # {}
      PROVE  FALSE
  <2>1. Rest \subseteq Nat
    OBVIOUS
  <2>2. \E n \in Rest : \A m \in Rest : <<m, n>> \notin R
    <3> HIDE DEF Rest
    <3> QED
      BY <1>1, <1>3, <2>1, WFMin
  <2>3. PICK n \in Rest : \A m \in Rest : <<m, n>> \notin R
    BY <2>2
  <2>4. n \in Nat /\ n # 0
    OBVIOUS
  <2>5. n - 1 \in Nat /\ n - 1 < n
    BY <2>4
  <2>6. n - 1 \notin Rest
    BY <1>2, <2>3, <2>4, <2>5
  <2>7. n - 1 \in 0 .. N - 1 /\ n - 1 \in S
    BY <2>5, <2>6
  <2>8. n = (n - 1) + 1
    BY <2>4
  <2> QED
    BY <2>7, <2>8
<1> QED
  BY <1>3

\* retireAll() is well defined: it retires the objects one after the other.
LEMMA RetireAllInOrder ==
    ASSUME NEW c, NEW S, NEW objectsOf \in Seq(S)
    PROVE  \E retired :
              /\ retired[0] = c
              /\ \A i \in 1 .. Len(objectsOf) :
                    retired[i] = retireVerified(retired[i - 1], objectsOf[i])
              /\ retireAll(c, objectsOf) = retired[Len(objectsOf)]
<1> DEFINE N == Len(objectsOf)
           Next1(f, i) == IF i = 0 THEN c ELSE retireVerified(f[i - 1], objectsOf[i])
           Reached == {n \in 0 .. N : \E f : f = [i \in 0 .. n |-> Next1(f, i)]}
<1>1. N \in Nat
  BY LenProperties
<1>2. 0 \in Reached
  <2> DEFINE f == [i \in 0 .. 0 |-> c]
  <2>1. f = [i \in 0 .. 0 |-> Next1(f, i)]
    OBVIOUS
  <2>2. 0 \in 0 .. N
    BY <1>1
  <2> HIDE DEF f, Next1, N
  <2> QED
    BY <2>1, <2>2
<1>3. ASSUME NEW n \in 0 .. N - 1, n \in Reached
      PROVE  n + 1 \in Reached
  <2>1. PICK f : f = [i \in 0 .. n |-> Next1(f, i)]
    BY <1>3
  <2> DEFINE g == [i \in 0 .. n + 1 |-> IF i <= n THEN f[i] ELSE Next1(f, i)]
  <2>2. ASSUME NEW i \in 0 .. n + 1
        PROVE  g[i] = Next1(g, i)
    <3>1. CASE i = 0
      <4>1. f[0] = Next1(f, 0)
        BY <1>1, <2>1
      <4> QED
        BY <1>1, <3>1, <4>1
    <3>2. CASE i # 0
      <4>1. i - 1 \in 0 .. n
        BY <1>1, <3>2
      <4>2. g[i - 1] = f[i - 1]
        BY <4>1
      <4>3. g[i] = Next1(f, i)
        <5>1. CASE i <= n
          <6>1. i \in 0 .. n
            BY <5>1
          <6>2. f[i] = Next1(f, i)
            BY <2>1, <6>1
          <6> QED
            BY <5>1, <6>2
        <5>2. CASE ~(i <= n)
          BY <5>2
        <5> QED
          BY <5>1, <5>2
      <4> QED
        BY <3>2, <4>2, <4>3
    <3> QED
      BY <3>1, <3>2
  <2>3. g = [i \in 0 .. n + 1 |-> Next1(g, i)]
    <3> HIDE DEF Next1
    <3> QED
      BY <2>2
  <2>4. n + 1 \in 0 .. N
    BY <1>1
  <2> HIDE DEF g
  <2> QED
    BY <2>3, <2>4
<1>4. N \in Reached
  <2> HIDE DEF Reached
  <2>1. \A n \in 0 .. N : n \in Reached
    BY <1>1, <1>2, <1>3, InductionUpTo
  <2> QED
    BY <1>1, <2>1
<1> DEFINE retired == CHOOSE f : f = [i \in 0 .. N |-> Next1(f, i)]
<1>5. retired = [i \in 0 .. N |-> Next1(retired, i)]
  BY <1>4
<1>6. retireAll(c, objectsOf) = retired[N]
  BY DEF retireAll
<1> HIDE DEF retired
<1>7. retired[0] = c
  BY <1>1, <1>5
<1>8. \A i \in 1 .. N : retired[i] = retireVerified(retired[i - 1], objectsOf[i])
  BY <1>1, <1>5
<1> QED
  BY <1>6, <1>7, <1>8

\* Retiring all of a sequence of Snapshots leaves neither their entries nor what goes with them.
LEMMA RetireAll ==
    ASSUME NEW c, IsCache(c), NEW S, NEW objectsOf \in Seq(S)
    PROVE  RetiresAll(c, retireAll(c, objectsOf), {objectsOf[i] : i \in 1 .. Len(objectsOf)})
<1> DEFINE N == Len(objectsOf)
           Gone(n) == {objectsOf[i] : i \in 1 .. n}
<1>1. N \in Nat
  BY LenProperties
<1>2. PICK retired :
        /\ retired[0] = c
        /\ \A i \in 1 .. N : retired[i] = retireVerified(retired[i - 1], objectsOf[i])
        /\ retireAll(c, objectsOf) = retired[N]
  BY RetireAllInOrder
<1> DEFINE Done == {n \in 0 .. N : RetiresAll(c, retired[n], Gone(n))}
<1>3. 0 \in Done
  <2>1. Gone(0) = {}
    OBVIOUS
  <2> QED
    BY <1>1, <1>2, <2>1 DEF RetiresAll
<1>4. ASSUME NEW n \in 0 .. N - 1, n \in Done
      PROVE  n + 1 \in Done
  <2> DEFINE object == objectsOf[n + 1]
             d == retired[n]
             e == retired[n + 1]
  <2>1. n + 1 \in 1 .. N /\ (n + 1) - 1 = n
    BY <1>1
  <2>2. e = retireVerified(d, object)
    BY <1>2, <2>1
  <2>3. RetiresAll(c, d, Gone(n))
    BY <1>4
  <2>4. Gone(n + 1) = Gone(n) \cup {object}
    BY <1>1
  <2> HIDE DEF object, d, e, Gone
  <2>5. /\ Retires(d, e, GoesWith(d, object))
        /\ DOMAIN e.verified = DOMAIN d.verified \ {object}
    BY <2>2, <2>3, RetireVerified DEF RetiresAll
  <2>6. RetiresAll(c, e, Gone(n) \cup {object})
    BY <2>3, <2>5 DEF RetiresAll, Retires, GoesWith
  <2>7. RetiresAll(c, retired[n + 1], Gone(n + 1))
    BY <2>4, <2>6 DEF e
  <2>8. n + 1 \in 0 .. N
    BY <1>1, <2>1
  <2> HIDE DEF N
  <2> QED
    BY <2>7, <2>8
<1>5. N \in Done
  <2> HIDE DEF Done
  <2>1. \A n \in 0 .. N : n \in Done
    BY <1>1, <1>3, <1>4, InductionUpTo
  <2> QED
    BY <1>1, <2>1
<1> QED
  BY <1>2, <1>5

-----------------------------------------------------------------------------
(* What the kernel and the Authority do with the cache. *)

\* What the cache holds is the entry of the object, and what is derived from it.
Follows(c, object) ==
    /\ DOMAIN c.verified \subseteq {object}
    /\ \A s \in DOMAIN c.provisional : c.provisional[s].source = object

\* Only one Snapshot can be staged for a source.
LEMMA OneIsStaged ==
    ASSUME NEW c, IsCache(c), NEW object, Follows(c, object)
    PROVE  Cardinality(DOMAIN c.provisional) <= 1
<1>1. \A s, t \in DOMAIN c.provisional : s = t
  BY DEF Follows, IsCache, Consistent
<1>2. CASE DOMAIN c.provisional = {}
  BY <1>2, FS_EmptySet
<1>3. CASE DOMAIN c.provisional # {}
  <2>1. PICK s : DOMAIN c.provisional = {s}
    BY <1>1, <1>3
  <2>2. Cardinality({s}) = 1
    BY FS_Singleton
  <2> QED
    BY <2>1, <2>2
<1> QED
  BY <1>2, <1>3

\* A Transaction that the kernel accepts makes a new Snapshot object, and does nothing
\* to the cache but to stage an entry for it.
LEMMA KernelStages ==
    ASSUME NEW options, NEW c, prepareKernelTransaction(options, c).type = "ok"
    PROVE  LET prepared == prepareKernelTransaction(options, c).value
               source == options.headSnapshot.object
           IN  /\ prepared.snapshot.object = options.object
               /\ \/ prepared.cache = c
                  \/ \E entry : /\ IsEntryOf(entry, options.object)
                                /\ prepared.cache = cacheKernelDerived(c, source, entry)
<1> DEFINE entry0 == getVerified(c, options.headSnapshot.object)
           index == readDocumentIndex(options.headSnapshot.document, entry0)
           operations == options.request.json.operations
           Stages(r) == r.type = "ok" =>
              /\ r.value.snapshot.object = options.object
              /\ \/ r.value.cache = c
                 \/ \E entry :
                      /\ IsEntryOf(entry, options.object)
                      /\ r.value.cache = cacheKernelDerived(c, options.headSnapshot.object, entry)
<1>1. \A reason : Stages(errorResult(reason))
  BY DEF errorResult
<1>2. ASSUME NEW snapshot, NEW i, NEW hashed, snapshot.object = options.object
      PROVE  \/ stageDerived(c, options.headSnapshot, snapshot, i, hashed) = c
             \/ \E entry :
                  /\ IsEntryOf(entry, options.object)
                  /\ stageDerived(c, options.headSnapshot, snapshot, i, hashed) =
                        cacheKernelDerived(c, options.headSnapshot.object, entry)
  <2> DEFINE entry == derivedEntry(snapshot, i, hashed.payload, hashed.utf8)
  <2>1. IsEntryOf(entry, options.object)
    BY <1>2 DEF derivedEntry, IsEntryOf
  <2> HIDE DEF entry
  <2> QED
    BY <2>1 DEF stageDerived, entry
<1>3. \A document, hashed : NextSnapshot(options, document, hashed).object = options.object
  BY DEF NextSnapshot
<1>4. \A operation, applied, map, document, hashed :
        Stages(finishSingle(options, c, index, operation, applied, map, document, hashed))
  BY <1>2, <1>3 DEF finishSingle, stageVerifiedDerivedSnapshot, Prepared, Ok
<1>5. \A operation, map :
        Stages(prepareReplaceTextTransaction(options, c, index, entry0, operation, map))
  <2> HIDE DEF Stages
  <2>1. \A applied, map, document, operation :
          Stages(hashSingle(options, c, index, entry0, operation, applied, map, document))
    BY <1>4 DEF hashSingle
  <2>2. Stages(Thrown) /\ \A r : r.type # "ok" => Stages(r)
    BY DEF Stages, Thrown
  <2> QED
    BY <2>1, <2>2 DEF prepareReplaceTextTransaction, onOk
<1>6. \A draft, map, document, hashed :
        Stages(finishMultiple(options, c, operations, draft, map, document, hashed))
  BY <1>1, <1>2, <1>3 DEF finishMultiple, Prepared, Ok
<1>7. \A map : Stages(prepareMultipleReplaceTextTransaction(options, c, index, operations, map))
  <2> HIDE DEF Stages
  <2>1. \A draft, map, document :
          Stages(hashMultiple(options, c, operations, draft, map, document))
    BY <1>6 DEF hashMultiple
  <2>2. \A r : r.type # "ok" => Stages(r)
    BY DEF Stages
  <2> QED
    BY <2>1, <2>2 DEF prepareMultipleReplaceTextTransaction, onOk
<1>8. Stages(prepareOperations(options, c, index, entry0, operations))
  <2> HIDE DEF Stages
  <2> QED
    BY <1>5, <1>7 DEF prepareOperations
<1>9. Stages(prepareKernelTransaction(options, c))
  <2> HIDE DEF Stages
  <2> QED
    BY <1>1, <1>8 DEF prepareKernelTransaction, prepareOnHead, prepareOnIndex, onVerdict
<1> QED
  BY <1>9

\* Running the kernel on a head leaves a cache that follows this head, verified as it was.
LEMMA PreparedFollows ==
    ASSUME NEW options, NEW c, IsCache(c), Follows(c, options.headSnapshot.object),
           prepareKernelTransaction(options, c).type = "ok"
    PROVE  LET prepared == prepareKernelTransaction(options, c).value
           IN  /\ prepared.snapshot.object = options.object
               /\ IsCache(prepared.cache)
               /\ Follows(prepared.cache, options.headSnapshot.object)
<1> DEFINE prepared == prepareKernelTransaction(options, c).value
           source == options.headSnapshot.object
<1>1. /\ prepared.snapshot.object = options.object
      /\ \/ prepared.cache = c
         \/ \E entry : /\ IsEntryOf(entry, options.object)
                       /\ prepared.cache = cacheKernelDerived(c, source, entry)
  BY KernelStages
<1> HIDE DEF prepared
<1>2. CASE prepared.cache = c
  BY <1>1, <1>2 DEF prepared
<1>3. ASSUME NEW entry, IsEntryOf(entry, options.object),
             prepared.cache = cacheKernelDerived(c, source, entry)
      PROVE  IsCache(prepared.cache) /\ Follows(prepared.cache, source)
  <2>1. CASE ~ CanStage(c, source, options.object)
    <3>1. prepared.cache = c
      BY <1>3, <2>1 DEF cacheKernelDerived, IsEntryOf
    <3> QED
      BY <3>1
  <2>2. CASE CanStage(c, source, options.object)
    <3> DEFINE d == cacheKernelDerived(c, source, entry)
    <3>1. /\ IsCache(d)
          /\ d.verified = c.verified
          /\ DOMAIN d.provisional =
                {s \in DOMAIN c.provisional : c.provisional[s].source # source}
                  \cup {options.object}
          /\ d.provisional[options.object] = [source |-> source, entry |-> entry]
      BY <1>3, <2>2, CacheKernelDerived
    <3> HIDE DEF d
    <3>2. Follows(d, source)
      BY <3>1 DEF Follows
    <3> QED
      BY <1>3, <3>1, <3>2 DEF d
  <2> QED
    BY <2>1, <2>2
<1> QED
  BY <1>1, <1>2, <1>3 DEF prepared

\* The entry of a Snapshot that was checked from nothing is an entry of its object.
LEMMA CheckedEntryIsItsOwn ==
    ASSUME NEW snapshot
    PROVE  IsEntryOf(checkedEntry(snapshot), snapshot.object)
BY DEF IsEntryOf, checkedEntry

\* Verifying a Snapshot adds its entry, if there is none.
LEMMA CacheVerifiedFrozen ==
    ASSUME NEW c, IsCache(c), NEW snapshot, NEW entry, IsEntryOf(entry, snapshot)
    PROVE  LET d == cacheVerifiedFrozen(c, entry)
           IN  /\ IsCache(d)
               /\ DOMAIN d.verified = DOMAIN c.verified \cup {snapshot}
               /\ DOMAIN d.provisional \subseteq DOMAIN c.provisional
               /\ \A s \in DOMAIN d.provisional : d.provisional[s] = c.provisional[s]
<1>1. entry.snapshot = snapshot
  BY DEF IsEntryOf
<1>2. CASE snapshot \in DOMAIN c.verified
  BY <1>1, <1>2 DEF cacheVerifiedFrozen
<1>3. CASE snapshot \notin DOMAIN c.verified
  <2> DEFINE d == installCache(c, entry)
  <2>1. /\ Retires(c, d, GoesWith(c, snapshot))
        /\ DOMAIN d.verified = DOMAIN c.verified \cup {snapshot}
    BY InstallCache
  <2>2. cacheVerifiedFrozen(c, entry) = d
    BY <1>1, <1>3 DEF cacheVerifiedFrozen
  <2> HIDE DEF d
  <2> QED
    BY <2>1, <2>2 DEF Retires
<1> QED
  BY <1>2, <1>3

\* Whatever became of the staged entry, a commit leaves a cache that follows the new head.
LEMMA CommitFollows ==
    ASSUME NEW c, IsCache(c), NEW previous, NEW snapshot, Follows(c, previous.object),
           previous.object # snapshot.object
    PROVE  LET d == activateCommittedSnapshotCache(c, previous, snapshot)
           IN  IsCache(d) /\ Follows(d, snapshot.object)
<1> DEFINE d == activateCommittedSnapshotCache(c, previous, snapshot)
<1>1. CASE CanActivate(c, previous.object, snapshot.object)
  <2>1. d = activateKernelDerived(c, previous.object, snapshot.object)
    BY <1>1 DEF activateCommittedSnapshotCache
  <2> HIDE DEF d
  <2>2. /\ Retires(c, d, {snapshot.object} \cup GoesWith(c, snapshot.object)
                                        \cup GoesWith(c, previous.object))
        /\ DOMAIN d.verified = (DOMAIN c.verified \cup {snapshot.object}) \ {previous.object}
    BY <1>1, <2>1, ActivateKernelDerived
  <2>3. IsCache(d) /\ Follows(d, snapshot.object)
    BY <2>2 DEF Retires, GoesWith, Follows
  <2> QED
    BY <2>3 DEF d
<1>2. CASE ~ CanActivate(c, previous.object, snapshot.object)
  <2>1. CASE isCanonicalSnapshot(snapshot.document)
    <3> DEFINE entry == checkedEntry(snapshot)
               e == cacheVerifiedFrozen(c, entry)
    <3>0. IsEntryOf(entry, snapshot.object)
      BY CheckedEntryIsItsOwn
    <3> HIDE DEF entry
    <3>1. /\ IsCache(e)
          /\ DOMAIN e.verified = DOMAIN c.verified \cup {snapshot.object}
          /\ DOMAIN e.provisional \subseteq DOMAIN c.provisional
          /\ \A s \in DOMAIN e.provisional : e.provisional[s] = c.provisional[s]
      BY <3>0, CacheVerifiedFrozen
    <3>2. d = retireVerified(e, previous.object)
      BY <1>2, <2>1 DEF activateCommittedSnapshotCache, verifyCommittedSnapshot, entry
    <3> HIDE DEF e, d
    <3>3. /\ Retires(e, d, GoesWith(e, previous.object))
          /\ DOMAIN d.verified = DOMAIN e.verified \ {previous.object}
      BY <3>1, <3>2, RetireVerified
    <3>4. IsCache(d) /\ Follows(d, snapshot.object)
      BY <3>1, <3>3 DEF Retires, GoesWith, Follows
    <3> QED
      BY <3>4 DEF d
  <2>2. CASE ~ isCanonicalSnapshot(snapshot.document)
    <3> DEFINE e == retireVerified(c, previous.object)
    <3>1. /\ Retires(c, e, GoesWith(c, previous.object))
          /\ DOMAIN e.verified = DOMAIN c.verified \ {previous.object}
      BY RetireVerified
    <3>2. d = retireVerified(e, snapshot.object)
      BY <1>2, <2>2 DEF activateCommittedSnapshotCache, verifyCommittedSnapshot
    <3> HIDE DEF e, d
    <3>3. /\ Retires(e, d, GoesWith(e, snapshot.object))
          /\ DOMAIN d.verified = DOMAIN e.verified \ {snapshot.object}
      BY <3>1, <3>2, RetireVerified DEF Retires
    <3>4. IsCache(d) /\ Follows(d, snapshot.object)
      BY <3>1, <3>3 DEF Retires, GoesWith, Follows
    <3> QED
      BY <3>4 DEF d
  <2> QED
    BY <2>1, <2>2
<1> QED
  BY <1>1, <1>2

\* Retiring any Snapshot leaves a cache that follows the head, if it did before.
LEMMA RetiringFollows ==
    ASSUME NEW c, IsCache(c), NEW object, Follows(c, object), NEW snapshot
    PROVE  LET d == retireVerified(c, snapshot)
           IN  IsCache(d) /\ Follows(d, object)
<1> DEFINE d == retireVerified(c, snapshot)
<1>1. /\ Retires(c, d, GoesWith(c, snapshot))
      /\ DOMAIN d.verified = DOMAIN c.verified \ {snapshot}
  BY RetireVerified
<1> HIDE DEF d
<1>2. IsCache(d) /\ Follows(d, object)
  BY <1>1 DEF Retires, Follows
<1> QED
  BY <1>2 DEF d

-----------------------------------------------------------------------------
(* The inductive invariant. *)

\* The history is a sequence, and its Snapshots are objects that were made.
HistoryIsMade ==
    /\ objects \in Nat
    /\ history # <<>>
    /\ history \in Seq({history[i] : i \in DOMAIN history})
    /\ \A i \in DOMAIN history : history[i].snapshot.object \in 1 .. objects

IInv ==
    /\ phase \in {"closed", "open", "disposed"}
    /\ IsCache(cache)
    /\ phase # "open" => DOMAIN cache.verified = {} /\ DOMAIN cache.provisional = {}
    /\ phase = "open" => HistoryIsMade /\ Follows(cache, headSnapshot.object)

\* The head is one of the history.
LEMMA HeadIsMade ==
    ASSUME HistoryIsMade
    PROVE  /\ Len(history) \in Nat \ {0}
           /\ DOMAIN history = 1 .. Len(history)
           /\ head = history[Len(history)]
           /\ headSnapshot.object \in 1 .. objects
<1> DEFINE S == {history[i] : i \in DOMAIN history}
<1>1. history \in Seq(S)
  BY DEF HistoryIsMade
<1> HIDE DEF S
<1>2. Len(history) \in Nat /\ DOMAIN history = 1 .. Len(history)
  BY <1>1, LenProperties
<1>3. Len(history) # 0
  BY <1>1, EmptySeq DEF HistoryIsMade
<1>4. head = history[Len(history)]
  BY DEF head, Last
<1>5. Len(history) \in DOMAIN history
  BY <1>2, <1>3
<1> QED
  BY <1>2, <1>3, <1>4, <1>5 DEF HistoryIsMade, headSnapshot

\* A sequence is one of its own elements.
LEMMA SequenceOfItsElements ==
    ASSUME NEW S, NEW seq \in Seq(S)
    PROVE  seq \in Seq({seq[i] : i \in DOMAIN seq})
<1> DEFINE T == {seq[i] : i \in DOMAIN seq}
<1>1. Len(seq) \in Nat /\ DOMAIN seq = 1 .. Len(seq) /\ seq \in [1 .. Len(seq) -> S]
  BY LenProperties
<1>2. seq \in [1 .. Len(seq) -> T]
  BY <1>1
<1> HIDE DEF T
<1>3. seq \in Seq(T)
  BY <1>1, <1>2, IsASeq
<1> QED
  BY <1>3 DEF T

\* The first state satisfies the invariant.
LEMMA InitIInv == Init => IInv
<1> SUFFICES ASSUME Init PROVE IInv
  OBVIOUS
<1>1. /\ phase = "closed"
      /\ cache = EmptyCache
  BY DEF Init
<1>2. /\ DOMAIN cache.verified = {}
      /\ DOMAIN cache.provisional = {}
      /\ DOMAIN cache.bySource = {}
      /\ cache.identities = {}
      /\ cache.activeEntryCount = 0
  BY <1>1 DEF EmptyCache, Empty
<1>3. IsFiniteSet({}) /\ Cardinality({}) = 0
  BY FS_EmptySet
<1>4. Consistent(cache)
  BY <1>2, <1>3 DEF Consistent
<1>5. IsCache(cache)
  BY <1>1, <1>2, <1>3, <1>4 DEF IsCache, EmptyCache
<1> QED
  BY <1>1, <1>2, <1>5 DEF IInv

\* Opening verifies the first Snapshot, or finds it verified.
LEMMA OpenIInv ==
    ASSUME IInv, NEW document, Open(document)
    PROVE  IInv'
<1> DEFINE snapshot == [object |-> 1, document |-> document]
           entry == checkedEntry(snapshot)
           d == cacheVerifiedFrozen(cache, entry)
           commit == [revision |-> [id |-> document.revisionId, uri |-> Uri, sequence |-> 0,
                                    transactionId |-> "initial",
                                    documentHash |-> document.documentHash],
                      snapshot |-> snapshot]
<1>1. /\ phase = "closed"
      /\ phase' = "open"
      /\ objects' = 1
      /\ cache' = d
      /\ history' = <<commit>>
  BY DEF Open
<1>2. IsEntryOf(entry, 1)
  BY CheckedEntryIsItsOwn
<1>3. commit.snapshot.object = 1
  OBVIOUS
<1>4. IsCache(cache) /\ DOMAIN cache.verified = {} /\ DOMAIN cache.provisional = {}
  BY <1>1 DEF IInv
<1> HIDE DEF entry, commit
<1>5. /\ IsCache(d)
      /\ DOMAIN d.verified = DOMAIN cache.verified \cup {1}
      /\ DOMAIN d.provisional \subseteq DOMAIN cache.provisional
  BY <1>2, <1>4, CacheVerifiedFrozen
<1> HIDE DEF d
<1>6. /\ history' \in Seq({commit})
      /\ Len(history') = 1
      /\ history' # <<>>
      /\ DOMAIN history' = 1 .. 1
      /\ history'[1] = commit
  BY <1>1
<1>7. HistoryIsMade'
  <2>1. history' \in Seq({history'[i] : i \in DOMAIN history'})
    BY <1>6, SequenceOfItsElements
  <2> QED
    BY <1>1, <1>3, <1>6, <2>1 DEF HistoryIsMade
<1>8. headSnapshot'.object = 1
  BY <1>3, <1>6 DEF headSnapshot, head, Last
<1>9. Follows(cache', headSnapshot'.object)
  BY <1>1, <1>4, <1>5, <1>8 DEF Follows
<1> QED
  BY <1>1, <1>5, <1>7, <1>9 DEF IInv

\* What the kernel prepared on the head is a new object, and its cache follows the head.
LEMMA PreparedOnHead ==
    ASSUME IInv, phase = "open", NEW request, NEW id,
           prepareKernelTransaction(kernelOptions(request, id), cache).type = "ok"
    PROVE  LET prepared == prepareKernelTransaction(kernelOptions(request, id), cache).value
           IN  /\ createKernelCommitPreparer(request, id, prepared).snapshot.object = objects + 1
               /\ IsCache(prepared.cache)
               /\ Follows(prepared.cache, headSnapshot.object)
<1> DEFINE options == kernelOptions(request, id)
           prepared == prepareKernelTransaction(options, cache).value
<1>1. options.headSnapshot = headSnapshot /\ options.object = objects + 1
  BY DEF kernelOptions
<1>2. IsCache(cache) /\ Follows(cache, headSnapshot.object)
  BY DEF IInv
<1> HIDE DEF options
<1>3. prepareKernelTransaction(options, cache).type = "ok"
  BY DEF options
<1>4. /\ prepared.snapshot.object = options.object
      /\ IsCache(prepared.cache)
      /\ Follows(prepared.cache, options.headSnapshot.object)
  BY <1>1, <1>2, <1>3, PreparedFollows
<1> HIDE DEF prepared
<1>5. createKernelCommitPreparer(request, id, prepared).snapshot = prepared.snapshot
  BY DEF createKernelCommitPreparer
<1> QED
  BY <1>1, <1>4, <1>5 DEF prepared, options

\* What does not reach the history leaves a cache that follows the head.
LEMMA NothingCommittedIInv ==
    ASSUME IInv, phase = "open", UNCHANGED <<phase, history>>,
           objects' = objects \/ objects' = objects + 1,
           IsCache(cache'), Follows(cache', headSnapshot.object)
    PROVE  IInv'
<1>1. HistoryIsMade
  BY DEF IInv
<1>2. HistoryIsMade'
  BY <1>1 DEF HistoryIsMade
<1>3. headSnapshot' = headSnapshot
  BY DEF headSnapshot, head
<1> QED
  BY <1>2, <1>3 DEF IInv

\* What reaches the history becomes the head, and the cache follows it.
LEMMA CommittedIInv ==
    ASSUME IInv, phase = "open", phase' = phase, objects' = objects + 1,
           NEW commit, commit.snapshot.object = objects + 1,
           history' = Append(history, commit),
           IsCache(cache'), Follows(cache', commit.snapshot.object)
    PROVE  IInv'
<1> DEFINE S == {history[i] : i \in DOMAIN history} \cup {commit}
<1>1. HistoryIsMade
  BY DEF IInv
<1>2. /\ Len(history) \in Nat \ {0}
      /\ DOMAIN history = 1 .. Len(history)
  BY <1>1, HeadIsMade
<1>3. history \in Seq(S) /\ commit \in S
  BY <1>1, SeqMonotonic DEF HistoryIsMade
<1> HIDE DEF S
<1>4. /\ Append(history, commit) \in Seq(S)
      /\ Append(history, commit) # <<>>
      /\ Len(Append(history, commit)) = Len(history) + 1
      /\ \A i \in 1 .. Len(history) : Append(history, commit)[i] = history[i]
      /\ Append(history, commit)[Len(history) + 1] = commit
  BY <1>3, AppendProperties
<1>5. /\ history' \in Seq(S)
      /\ history' # <<>>
      /\ Len(history') = Len(history) + 1
      /\ \A i \in 1 .. Len(history) : history'[i] = history[i]
      /\ history'[Len(history) + 1] = commit
  BY <1>4
<1>6. DOMAIN history' = 1 .. Len(history) + 1
  BY <1>5, LenProperties
<1>7. history' \in Seq({history'[i] : i \in DOMAIN history'})
  BY <1>5, SequenceOfItsElements
<1>8. ASSUME NEW i \in DOMAIN history'
      PROVE  history'[i].snapshot.object \in 1 .. objects'
  <2>1. objects \in Nat
    BY <1>1 DEF HistoryIsMade
  <2>2. CASE i \in 1 .. Len(history)
    <3>1. history[i].snapshot.object \in 1 .. objects
      BY <1>1, <1>2, <2>2 DEF HistoryIsMade
    <3> QED
      BY <1>5, <2>1, <2>2, <3>1
  <2>3. CASE i = Len(history) + 1
    BY <1>5, <2>1, <2>3
  <2> QED
    BY <1>2, <1>6, <2>2, <2>3
<1>9. HistoryIsMade'
  BY <1>1, <1>5, <1>7, <1>8 DEF HistoryIsMade
<1>10. headSnapshot'.object = commit.snapshot.object
  BY <1>5 DEF headSnapshot, head, Last
<1> QED
  BY <1>9, <1>10 DEF IInv

\* Either becomes of a prepared commit, depending on whether it fits in a record.
LEMMA InstallIInv ==
    ASSUME IInv, phase = "open", phase' = phase,
           NEW commit, commit.snapshot.object = objects + 1,
           NEW staged, IsCache(staged), Follows(staged, headSnapshot.object),
           installPreparedCommit(commit, staged)
    PROVE  IInv'
<1>1. objects' = objects + 1
  BY DEF installPreparedCommit
<1>2. headSnapshot.object # commit.snapshot.object
  <2>1. headSnapshot.object \in 1 .. objects /\ objects \in Nat
    BY HeadIsMade DEF IInv, HistoryIsMade
  <2> QED
    BY <2>1
<1>3. CASE encodes(commit)
  <2>1. /\ history' = Append(history, commit)
        /\ cache' = activateCommittedSnapshotCache(staged, headSnapshot, commit.snapshot)
    BY <1>3 DEF installPreparedCommit
  <2>2. IsCache(cache') /\ Follows(cache', commit.snapshot.object)
    BY <1>2, <2>1, CommitFollows
  <2> QED
    BY <1>1, <2>1, <2>2, CommittedIInv
<1>4. CASE ~ encodes(commit)
  <2>1. /\ cache' = retireVerified(staged, commit.snapshot.object)
        /\ history' = history
    BY <1>4 DEF installPreparedCommit
  <2>2. IsCache(cache') /\ Follows(cache', headSnapshot.object)
    BY <2>1, RetiringFollows
  <2> QED
    BY <1>1, <2>1, <2>2, NothingCommittedIInv
<1> QED
  BY <1>3, <1>4

\* A Transaction is committed with the entry that its derivation staged, or refused.
LEMMA ApplyIInv ==
    ASSUME IInv, NEW request, Apply(request)
    PROVE  IInv'
<1> DEFINE id == RevisionIds[objects]
           result == prepareKernelTransaction(kernelOptions(request, id), cache)
           commit == createKernelCommitPreparer(request, id, result.value)
<1>1. /\ phase = "open"
      /\ phase' = phase
      /\ result.type = "ok"
      /\ installPreparedCommit(commit, result.value.cache)
  BY DEF Apply, installDerived
<1>2. /\ commit.snapshot.object = objects + 1
      /\ IsCache(result.value.cache)
      /\ Follows(result.value.cache, headSnapshot.object)
  BY <1>1, PreparedOnHead
<1> HIDE DEF result, commit
<1> QED
  BY <1>1, <1>2, InstallIInv

\* A derivation that is offered elsewhere leaves what it staged, for the same head.
LEMMA OfferIInv ==
    ASSUME IInv, NEW request, Offer(request)
    PROVE  IInv'
<1> DEFINE id == RevisionIds[objects]
           result == prepareKernelTransaction(kernelOptions(request, id), cache)
<1>1. /\ phase = "open"
      /\ UNCHANGED <<phase, history>>
      /\ objects' = objects + 1
      /\ result.type = "ok"
      /\ cache' = result.value.cache
  BY DEF Offer, keepPrepared
<1>2. /\ IsCache(result.value.cache)
      /\ Follows(result.value.cache, headSnapshot.object)
  BY <1>1, PreparedOnHead
<1> HIDE DEF result
<1> QED
  BY <1>1, <1>2, NothingCommittedIInv

\* A prepared commit is installed, or what it staged is retired and the head stays as it is.
LEMMA ApplyPreparedIInv ==
    ASSUME IInv, NEW request, NEW commit, ApplyPrepared(request, commit)
    PROVE  IInv'
<1> DEFINE id == commit.revision.id
           result == prepareKernelTransaction(kernelOptions(request, id), cache)
           expected == createKernelCommitPreparer(request, id, result.value)
<1>1. /\ phase = "open"
      /\ phase' = phase
      /\ result.type = "ok"
      /\ installExpected(commit, expected, result.value.cache)
  BY DEF ApplyPrepared, installRederived
<1>2. /\ expected.snapshot.object = objects + 1
      /\ IsCache(result.value.cache)
      /\ Follows(result.value.cache, headSnapshot.object)
  BY <1>1, PreparedOnHead
<1> HIDE DEF result, expected
<1>3. CASE validatePreparedCommit(commit, expected)
  <2>1. installPreparedCommit(expected, result.value.cache)
    BY <1>1, <1>3 DEF installExpected
  <2> QED
    BY <1>1, <1>2, <2>1, InstallIInv
<1>4. CASE ~ validatePreparedCommit(commit, expected)
  <2>1. /\ cache' = retireVerified(result.value.cache, expected.snapshot.object)
        /\ objects' = objects + 1
        /\ history' = history
    BY <1>1, <1>4 DEF installExpected
  <2>2. IsCache(cache') /\ Follows(cache', headSnapshot.object)
    BY <1>2, <2>1, RetiringFollows
  <2> QED
    BY <1>1, <2>1, <2>2, NothingCommittedIInv
<1> QED
  BY <1>3, <1>4

\* The head is retired with all the others, and what was derived from it with the head.
LEMMA FinishDisposeIInv ==
    ASSUME IInv, FinishDispose
    PROVE  IInv'
<1> DEFINE objectsOf == [i \in DOMAIN history |-> history[i].snapshot.object]
           d == retireAll(cache, objectsOf)
<1>1. /\ phase = "open"
      /\ phase' = "disposed"
      /\ cache' = d
  BY DEF FinishDispose
<1>2. IsCache(cache) /\ HistoryIsMade /\ Follows(cache, headSnapshot.object)
  BY <1>1 DEF IInv
<1>3. /\ Len(history) \in Nat \ {0}
      /\ DOMAIN history = 1 .. Len(history)
      /\ head = history[Len(history)]
  BY <1>2, HeadIsMade
<1>4. objectsOf \in [1 .. Len(history) -> 1 .. objects]
  BY <1>2, <1>3 DEF HistoryIsMade
<1>5. objectsOf \in Seq(1 .. objects) /\ Len(objectsOf) = Len(history)
  <2> DEFINE n == Len(history)
             S == 1 .. objects
  <2> HIDE DEF objectsOf, n, S
  <2>0. n \in Nat /\ objectsOf \in [1 .. n -> S]
    BY <1>3, <1>4 DEF n, S
  <2>a. \A i \in 1 .. n : objectsOf[i] \in S
    BY <2>0
  <2>b. [i \in 1 .. n |-> objectsOf[i]] \in Seq(S)
    BY <2>0, <2>a, IsASeq
  <2>c. objectsOf = [i \in 1 .. n |-> objectsOf[i]]
    BY <2>0
  <2>1. objectsOf \in Seq(1 .. objects)
    BY <2>b, <2>c DEF S
  <2> QED
    BY <1>3, <1>4, <2>1, LenProperties
<1>6. objectsOf[Len(history)] = headSnapshot.object
  BY <1>3 DEF headSnapshot
<1> DEFINE gone == {objectsOf[i] : i \in 1 .. Len(objectsOf)}
<1>7. headSnapshot.object \in gone
  BY <1>3, <1>5, <1>6
<1> HIDE DEF objectsOf
<1>8. RetiresAll(cache, d, gone)
  BY <1>2, <1>5, RetireAll
<1> HIDE DEF d, gone
<1>9. /\ IsCache(d)
      /\ DOMAIN d.verified = {}
      /\ DOMAIN d.provisional = {}
  BY <1>2, <1>7, <1>8 DEF RetiresAll, Follows
<1> QED
  BY <1>1, <1>9 DEF IInv

\* An Authority that shares the cache retires a Snapshot object of its own history, and
\* whatever was derived from it.
LEMMA OtherFinishDisposeIInv ==
    ASSUME IInv, OtherFinishDispose
    PROVE  IInv'
<1> DEFINE objectsOf == <<history[1].snapshot.object>>
           d == retireAll(cache, objectsOf)
<1>1. /\ phase = "open"
      /\ cache' = d
      /\ UNCHANGED <<phase, history, objects>>
  BY DEF OtherFinishDispose
<1>2. IsCache(cache) /\ Follows(cache, headSnapshot.object)
  BY <1>1 DEF IInv
<1>3. objectsOf \in Seq({history[1].snapshot.object})
  OBVIOUS
<1> HIDE DEF objectsOf
<1>4. RetiresAll(cache, d, {objectsOf[i] : i \in 1 .. Len(objectsOf)})
  BY <1>2, <1>3, RetireAll
<1> HIDE DEF d
<1>5. IsCache(d) /\ Follows(d, headSnapshot.object)
  BY <1>2, <1>4 DEF RetiresAll, Follows
<1> QED
  BY <1>1, <1>5, NothingCommittedIInv

\* Every step keeps the strengthening.
LEMMA Invariance == Spec => []IInv
<1>1. IInv /\ [Next]_vars => IInv'
  <2> SUFFICES ASSUME IInv, [Next]_vars
               PROVE  IInv'
    OBVIOUS
  <2>1. CASE UNCHANGED vars
    BY <2>1 DEF vars, IInv, HistoryIsMade, headSnapshot, head
  <2> QED
    BY <2>1, OpenIInv, ApplyIInv, OfferIInv, ApplyPreparedIInv, FinishDisposeIInv,
       OtherFinishDisposeIInv DEF Next
<1> QED
  BY InitIInv, <1>1, PTL DEF Spec

\* Whatever is committed, refused or offered, and whoever else retires the entry of a
\* Snapshot object, the cache accounts for what it holds, holds no more than the head and one
\* derivation while the Authority is open, and nothing once it is disposed.
THEOREM RetentionIsAlwaysBounded == Spec => []RetentionIsBounded
<1>1. IInv => RetentionIsBounded
  BY OneIsStaged DEF IInv, RetentionIsBounded, IsCache, Follows
<1> QED
  BY <1>1, Invariance, PTL

-----------------------------------------------------------------------------
(* The index. *)

\* A set of places of a sequence has a last one.
LEMMA LastOfPlaces ==
    ASSUME NEW n \in Nat, NEW S \in SUBSET (1 .. n), S # {}
    PROVE  Max(S) \in S /\ \A x \in S : x <= Max(S)
<1> DEFINE HaveLast == {m \in 0 .. n : \A T \in SUBSET (1 .. m) :
                            T # {} => \E x \in T : \A y \in T : x >= y}
<1>1. 0 \in HaveLast
  <2>1. 0 \in 0 .. n /\ 1 .. 0 = {}
    OBVIOUS
  <2> QED
    BY <2>1
<1>2. ASSUME NEW m \in 0 .. n - 1, m \in HaveLast
      PROVE  m + 1 \in HaveLast
  <2>1. ASSUME NEW T \in SUBSET (1 .. m + 1), T # {}
        PROVE  \E x \in T : \A y \in T : x >= y
    <3>1. CASE m + 1 \in T
      BY <3>1
    <3>2. CASE m + 1 \notin T
      <4>1. T \in SUBSET (1 .. m)
        BY <3>2
      <4> QED
        BY <1>2, <2>1, <4>1
    <3> QED
      BY <3>1, <3>2
  <2>2. m + 1 \in 0 .. n
    OBVIOUS
  <2> QED
    BY <2>1, <2>2
<1>3. n \in HaveLast
  <2> HIDE DEF HaveLast
  <2>1. \A m \in 0 .. n : m \in HaveLast
    BY <1>1, <1>2, InductionUpTo
  <2> QED
    BY <2>1
<1>4. \E x \in S : \A y \in S : x >= y
  BY <1>3
<1> QED
  BY <1>4 DEF Max

\* An index as createDocumentIndexFromValidatedSnapshot() and its successors make it.
IsIndex(index) ==
    /\ {"base", "layers", "parents"} \subseteq DOMAIN index
    /\ index = [key \in DOMAIN index |-> index[key]]
    /\ index.layers \in Seq(Range(index.layers))
    /\ IsFiniteSet(DOMAIN index.base)
    /\ \A i \in DOMAIN index.layers : DOMAIN index.layers[i] \subseteq DOMAIN index.base

\* The places of an ID in the layers.
Holding(layers, id) == {i \in DOMAIN layers : id \in DOMAIN layers[i]}

\* What an index finds depends on its base and its layers.
LEMMA GetNodeReads ==
    ASSUME NEW index, NEW id
    PROVE  getNode(index, id) =
              IF Holding(index.layers, id) # {}
              THEN index.layers[Max(Holding(index.layers, id))][id]
              ELSE IF id \in DOMAIN index.base THEN index.base[id] ELSE NoNode
BY DEF getNode, Holding

\* A new layer hides what is below it.
LEMMA LayerOnTop ==
    ASSUME NEW index, IsIndex(index), NEW layer, NEW layered,
           layered.layers = Append(index.layers, layer), layered.base = index.base, NEW id
    PROVE  getNode(layered, id) = IF id \in DOMAIN layer THEN layer[id] ELSE getNode(index, id)
<1> DEFINE S == Range(index.layers) \cup {layer}
           layers == index.layers
           n == Len(layers)
           longer == layered.layers
           held == Holding(longer, id)
<1>1. layers \in Seq(S) /\ layer \in S
  BY SeqMonotonic DEF IsIndex
<1> HIDE DEF S
<1>2. /\ n \in Nat /\ DOMAIN layers = 1 .. n
      /\ longer \in Seq(S) /\ Len(longer) = n + 1
      /\ \A i \in 1 .. n : longer[i] = layers[i]
      /\ longer[n + 1] = layer
  BY <1>1, AppendProperties, LenProperties
<1>3. DOMAIN longer = 1 .. n + 1
  BY <1>2, LenProperties
<1> HIDE DEF n, longer, layers
<1>4. CASE id \in DOMAIN layer
  <2>1. n + 1 \in held /\ held \in SUBSET (1 .. n + 1)
    BY <1>2, <1>3, <1>4 DEF Holding
  <2>2. n + 1 \in Nat
    BY <1>2
  <2> HIDE DEF held
  <2>3. Max(held) \in held /\ \A x \in held : x <= Max(held)
    BY <2>1, <2>2, LastOfPlaces
  <2>4. Max(held) = n + 1
    <3>1. Max(held) \in 1 .. n + 1 /\ n + 1 <= Max(held)
      BY <2>1, <2>3
    <3> QED
      BY <1>2, <3>1
  <2> QED
    BY <1>2, <1>4, <2>1, <2>4, GetNodeReads DEF held, longer
<1>5. CASE id \notin DOMAIN layer
  <2>1. held = Holding(layers, id)
    BY <1>2, <1>3, <1>5 DEF Holding
  <2>2. CASE held = {}
    BY <1>5, <2>1, <2>2, GetNodeReads DEF held, longer, layers
  <2>3. CASE held # {}
    <3>1. held \in SUBSET (1 .. n)
      BY <1>2, <2>1 DEF Holding
    <3> HIDE DEF held
    <3>2. Max(held) \in held
      BY <1>2, <2>3, <3>1, LastOfPlaces
    <3>3. longer[Max(held)] = layers[Max(held)]
      BY <1>2, <3>1, <3>2
    <3> QED
      BY <1>5, <2>1, <2>3, <3>3, GetNodeReads DEF held, longer, layers
  <2> QED
    BY <2>2, <2>3
<1> QED
  BY <1>4, <1>5

\* Whether its layers are folded or not, the next index finds the replaced nodes, and what
\* the index found before for all others.
LEMMA WithNodeReplacements ==
    ASSUME NEW index, IsIndex(index), NEW nodes,
           \A i \in DOMAIN nodes : nodes[i].id \in DOMAIN index.base
    PROVE  LET next == withNodeReplacements(index, nodes)
               layer == replacementLayer(nodes)
           IN  /\ IsIndex(next)
               /\ next.parents = index.parents
               /\ DOMAIN next.base = DOMAIN index.base
               /\ \A id : getNode(next, id) =
                    IF id \in DOMAIN layer THEN layer[id] ELSE getNode(index, id)
<1> DEFINE layer == replacementLayer(nodes)
           layered == [index EXCEPT !.layers = Append(@, layer)]
           ids == DOMAIN index.base \cup UNION {DOMAIN l : l \in Range(layered.layers)}
           folded == [index EXCEPT !.base = [id \in ids |-> getNode(layered, id)],
                                   !.layers = <<>>]
           next == withNodeReplacements(index, nodes)
<1> SUFFICES /\ IsIndex(next)
             /\ next.parents = index.parents
             /\ DOMAIN next.base = DOMAIN index.base
             /\ \A id : getNode(next, id) =
                  IF id \in DOMAIN layer THEN layer[id] ELSE getNode(index, id)
  OBVIOUS
<1>1. next = IF Len(layered.layers) >= MAX_NODE_REPLACEMENT_LAYERS THEN folded ELSE layered
  BY DEF withNodeReplacements
<1>a. DOMAIN layer = {nodes[i].id : i \in DOMAIN nodes}
  BY DEF replacementLayer
<1> HIDE DEF layer, next
<1>2. /\ layered.layers = Append(index.layers, layer)
      /\ layered.base = index.base
      /\ layered.parents = index.parents
      /\ DOMAIN layered = DOMAIN index
      /\ layered = [key \in DOMAIN layered |-> layered[key]]
  BY DEF IsIndex
<1>3. layered.layers \in Seq(Range(layered.layers))
  <2> DEFINE S == Range(index.layers) \cup {layer}
  <2>1. index.layers \in Seq(S) /\ layer \in S
    BY SeqMonotonic DEF IsIndex
  <2> HIDE DEF S
  <2>2. layered.layers \in Seq(S)
    BY <1>2, <2>1, AppendProperties
  <2> HIDE DEF layered
  <2>3. layered.layers \in Seq({layered.layers[i] : i \in DOMAIN layered.layers})
    BY <2>2, SequenceOfItsElements
  <2>4. Range(layered.layers) = {layered.layers[i] : i \in DOMAIN layered.layers}
    BY DEF Range
  <2> QED
    BY <2>3, <2>4
<1>b. \A i \in DOMAIN layered.layers : DOMAIN layered.layers[i] \subseteq DOMAIN layered.base
  <2> DEFINE S == Range(index.layers) \cup {layer}
             m == Len(index.layers)
  <2>1. index.layers \in Seq(S) /\ layer \in S
    BY SeqMonotonic DEF IsIndex
  <2> HIDE DEF S
  <2>2. /\ m \in Nat /\ DOMAIN index.layers = 1 .. m
        /\ layered.layers \in Seq(S) /\ Len(layered.layers) = m + 1
        /\ \A i \in 1 .. m : layered.layers[i] = index.layers[i]
        /\ layered.layers[m + 1] = layer
    BY <1>2, <2>1, AppendProperties, LenProperties
  <2>3. DOMAIN layered.layers = 1 .. m + 1
    BY <2>2, LenProperties
  <2>4. DOMAIN layer \subseteq DOMAIN index.base
    BY <1>a
  <2> HIDE DEF layered, m
  <2> QED
    BY <1>2, <2>2, <2>3, <2>4 DEF IsIndex
<1>4. IsIndex(layered)
  BY <1>2, <1>3, <1>b DEF IsIndex
<1>c. ids = DOMAIN index.base
  <2> HIDE DEF layered
  <2>1. \A l \in Range(layered.layers) : DOMAIN l \subseteq DOMAIN index.base
    BY <1>2, <1>b DEF Range
  <2> QED
    BY <2>1
<1> HIDE DEF layered
<1>5. \A id : getNode(layered, id) = IF id \in DOMAIN layer THEN layer[id] ELSE getNode(index, id)
  BY <1>2, LayerOnTop
<1>6. /\ folded.layers = <<>> /\ folded.base = [id \in ids |-> getNode(layered, id)]
      /\ folded.parents = index.parents /\ DOMAIN folded = DOMAIN index
      /\ folded = [key \in DOMAIN folded |-> folded[key]]
  BY DEF IsIndex
<1>7. ASSUME NEW id
      PROVE  getNode(folded, id) = getNode(layered, id)
  <2>1. Holding(folded.layers, id) = {}
    <3> HIDE DEF folded
    <3> QED
      BY <1>6 DEF Holding
  <2>2. getNode(folded, id) = IF id \in ids THEN getNode(layered, id) ELSE NoNode
    <3> HIDE DEF ids, folded
    <3> QED
      BY <1>6, <2>1, GetNodeReads
  <2>3. CASE id \notin ids
    <3>1. Holding(layered.layers, id) = {}
      BY <2>3 DEF Holding, Range
    <3>2. id \notin DOMAIN layered.base
      BY <1>2, <2>3
    <3> QED
      BY <2>2, <2>3, <3>1, <3>2, GetNodeReads
  <2> QED
    BY <2>2, <2>3
<1>8. IsIndex(folded) /\ DOMAIN folded.base = DOMAIN index.base
  <2>1. folded.layers \in Seq(Range(folded.layers)) /\ DOMAIN folded.layers = {}
    <3> HIDE DEF folded
    <3>1. folded.layers = <<>> /\ <<>> \in Seq(Range(folded.layers))
      BY <1>6
    <3> QED
      BY <3>1
  <2>2. DOMAIN folded.base = DOMAIN index.base
    BY <1>6, <1>c
  <2>3. {"base", "layers", "parents"} \subseteq DOMAIN folded
    BY <1>6 DEF IsIndex
  <2> HIDE DEF folded, ids
  <2> QED
    BY <1>6, <2>1, <2>2, <2>3 DEF IsIndex
<1> HIDE DEF folded
<1>9. CASE next = folded
  BY <1>5, <1>6, <1>7, <1>8, <1>9
<1>10. CASE next = layered
  BY <1>2, <1>4, <1>5, <1>10
<1>11. next = folded \/ next = layered
  BY <1>1
<1> QED
  BY <1>9, <1>10, <1>11

\* The path of the index is made of the nodes that the index finds, the node itself last.
LEMMA PathOfNodes ==
    ASSUME NEW index, IsIndex(index), NEW id, getNodePath(index, id) # <<>>
    PROVE  \E S : \E ids \in Seq(S) :
              /\ Len(ids) >= 1
              /\ ids[Len(ids)] = id
              /\ getNodePath(index, id) = [i \in 1 .. Len(ids) |-> getNode(index, ids[i])]
              /\ \A i \in 1 .. Len(ids) : getNode(index, ids[i]) # NoNode
<1> DEFINE N == Cardinality(DOMAIN index.base)
           Up(path) == IF Head(path) \in DOMAIN index.parents
                       THEN <<index.parents[Head(path)].parent>> \o path
                       ELSE path
           Step(f, n) == IF n = 0 THEN <<id>> ELSE Up(f[n - 1])
           S == {id} \cup {index.parents[x].parent : x \in DOMAIN index.parents}
           Reached == {n \in 0 .. N : \E f : f = [i \in 0 .. n |-> Step(f, i)]}
<1>1. N \in Nat
  BY FS_CardinalityType DEF IsIndex
<1>2. 0 \in Reached
  <2> DEFINE f == [i \in 0 .. 0 |-> <<id>>]
  <2>1. f = [i \in 0 .. 0 |-> Step(f, i)]
    OBVIOUS
  <2>2. 0 \in 0 .. N
    BY <1>1
  <2> HIDE DEF f, Step, N
  <2> QED
    BY <2>1, <2>2
<1>3. ASSUME NEW n \in 0 .. N - 1, n \in Reached
      PROVE  n + 1 \in Reached
  <2>1. PICK f : f = [i \in 0 .. n |-> Step(f, i)]
    BY <1>3
  <2> DEFINE g == [i \in 0 .. n + 1 |-> IF i <= n THEN f[i] ELSE Step(f, i)]
  <2>2. ASSUME NEW i \in 0 .. n + 1
        PROVE  g[i] = Step(g, i)
    <3>1. CASE i = 0
      <4>1. f[0] = Step(f, 0)
        BY <1>1, <2>1
      <4> QED
        BY <1>1, <3>1, <4>1
    <3>2. CASE i # 0
      <4>1. i - 1 \in 0 .. n
        BY <1>1, <3>2
      <4>2. g[i - 1] = f[i - 1]
        BY <4>1
      <4>3. Step(g, i) = Step(f, i)
        <5> HIDE DEF g, Up
        <5> QED
          BY <3>2, <4>2
      <4>4. CASE i <= n
        <5>1. i \in 0 .. n
          BY <4>4
        <5>2. f[i] = Step(f, i)
          BY <2>1, <5>1
        <5> HIDE DEF Step
        <5> QED
          BY <4>3, <4>4, <5>2
      <4>5. CASE ~ (i <= n)
        <5> HIDE DEF Step
        <5> QED
          BY <4>3, <4>5
      <4> QED
        BY <4>4, <4>5
    <3> QED
      BY <3>1, <3>2
  <2>3. g = [i \in 0 .. n + 1 |-> Step(g, i)]
    <3> HIDE DEF Step
    <3> QED
      BY <2>2
  <2>4. n + 1 \in 0 .. N
    BY <1>1
  <2> HIDE DEF g, Step, N
  <2> QED
    BY <2>3, <2>4
<1>4. N \in Reached
  <2> HIDE DEF Reached
  <2>1. \A n \in 0 .. N : n \in Reached
    BY <1>1, <1>2, <1>3, InductionUpTo
  <2> QED
    BY <1>1, <2>1
<1> DEFINE climb == CHOOSE f : f = [i \in 0 .. N |-> Step(f, i)]
           ids == climb[N]
           nodes == [i \in DOMAIN ids |-> getNode(index, ids[i])]
<1>5. climb = [i \in 0 .. N |-> Step(climb, i)]
  <2> HIDE DEF Step
  <2> QED
    BY <1>4
<1>6. getNodePath(index, id) = IF NoNode \in Range(nodes) THEN <<>> ELSE nodes
  BY DEF getNodePath
<1> HIDE DEF climb
<1> DEFINE IsPath(path) == path \in Seq(S) /\ Len(path) >= 1 /\ path[Len(path)] = id
           Climbed == {n \in 0 .. N : IsPath(climb[n])}
<1>7. 0 \in Climbed
  <2>1. climb[0] = <<id>>
    BY <1>1, <1>5
  <2>2. IsPath(<<id>>)
    OBVIOUS
  <2>3. IsPath(climb[0])
    <3> HIDE DEF IsPath
    <3> QED
      BY <2>1, <2>2
  <2> HIDE DEF IsPath, N
  <2> QED
    BY <1>1, <2>3
<1>8. ASSUME NEW n \in 0 .. N - 1, n \in Climbed
      PROVE  n + 1 \in Climbed
  <2>1. n + 1 \in 0 .. N /\ n + 1 # 0 /\ (n + 1) - 1 = n
    BY <1>1
  <2>2. climb[n + 1] = Up(climb[n])
    BY <1>5, <2>1
  <2>3. ASSUME NEW path, IsPath(path)
        PROVE  IsPath(Up(path))
    <3>1. CASE Head(path) \in DOMAIN index.parents
      <4> DEFINE above == <<index.parents[Head(path)].parent>>
      <4>1. above \in Seq(S) /\ Len(above) = 1
        BY <3>1
      <4>2. Up(path) = above \o path
        BY <3>1
      <4> HIDE DEF above, S, Up
      <4>3. /\ above \o path \in Seq(S)
            /\ Len(above \o path) = 1 + Len(path)
            /\ (above \o path)[1 + Len(path)] = path[Len(path)]
        BY <2>3, <4>1, ConcatProperties
      <4> QED
        BY <2>3, <4>2, <4>3
    <3>2. CASE Head(path) \notin DOMAIN index.parents
      BY <2>3, <3>2
    <3> QED
      BY <3>1, <3>2
  <2> HIDE DEF IsPath, Up, N
  <2> QED
    BY <1>8, <2>1, <2>2, <2>3
<1>9. IsPath(ids)
  <2> HIDE DEF Climbed, IsPath
  <2>1. \A n \in 0 .. N : n \in Climbed
    BY <1>1, <1>7, <1>8, InductionUpTo
  <2>2. N \in Climbed
    BY <1>1, <2>1
  <2> QED
    BY <2>2 DEF Climbed
<1> HIDE DEF ids, S
<1>10. DOMAIN ids = 1 .. Len(ids) /\ Len(ids) \in Nat
  BY <1>9, LenProperties
<1>11. nodes = [i \in 1 .. Len(ids) |-> getNode(index, ids[i])]
  BY <1>10
<1>12. NoNode \notin Range(nodes) /\ getNodePath(index, id) = nodes
  BY <1>6
<1>13. \A i \in 1 .. Len(ids) : getNode(index, ids[i]) # NoNode
  BY <1>11, <1>12 DEF Range
<1> HIDE DEF nodes
<1> QED
  BY <1>9, <1>11, <1>12, <1>13

-----------------------------------------------------------------------------
(* One ReplaceText, on a tree and its index. *)

\* A node is a record; a text node holds a string, and no children.
IsNode(node) ==
    /\ node = [key \in DOMAIN node |-> node[key]]
    /\ {"id", "type", "stamp"} \subseteq DOMAIN node
    /\ node.type = "text" =>
            "value" \in DOMAIN node /\ isString(node.value) /\ childrenOf(node) = <<>>

\* The nodes of a tree have IDs of their own.
IsTree(tree) ==
    /\ tree \in Seq(Range(tree))
    /\ \A p \in DOMAIN tree : IsNode(tree[p])
    /\ \A p, q \in DOMAIN tree : tree[p].id = tree[q].id => p = q

IdsOf(tree) == {tree[p].id : p \in DOMAIN tree}

\* The index finds exactly the nodes of the tree.
IndexFits(index, tree) ==
    /\ IsIndex(index)
    /\ DOMAIN index.base = IdsOf(tree)
    /\ \A p \in DOMAIN tree : getNode(index, tree[p].id) = tree[p]

\* The identity of the object is the only difference.
Alike(node, other) ==
    /\ DOMAIN node = DOMAIN other
    /\ \A key \in DOMAIN node \ {"stamp"} : node[key] = other[key]

\* What an Operation has to make of a tree.
Replaces(tree, next, operation) ==
    LET start == operation.startUtf16Offset
        end == operation.endUtf16Offset
    IN  /\ IsTree(next)
        /\ DOMAIN next = DOMAIN tree
        /\ operation.textNodeId \in IdsOf(tree)
        /\ \A p \in DOMAIN tree :
              IF tree[p].id = operation.textNodeId
              THEN /\ tree[p].type = "text"
                   /\ start \in 0 .. Len(tree[p].value) /\ end \in start .. Len(tree[p].value)
                   /\ validateUtf16Boundary(tree[p].value, start)
                   /\ validateUtf16Boundary(tree[p].value, end)
                   /\ hasWellFormedUtf16(operation.replacement)
                   /\ Alike(next[p], [tree[p] EXCEPT !.value =
                                        Splice(@, start, end, operation.replacement)])
              ELSE Alike(next[p], tree[p])

\* A function over 1 .. n is a sequence of length n.
LEMMA LenOfFunction ==
    ASSUME NEW n \in Nat, NEW f, f = [i \in 1 .. n |-> f[i]]
    PROVE  f \in Seq(Range(f)) /\ Len(f) = n
<1> DEFINE S == Range(f)
<1>1. \A i \in 1 .. n : f[i] \in S
  BY DEF Range
<1> HIDE DEF S
<1>2. f \in Seq(S)
  BY <1>1, IsASeq
<1>3. DOMAIN f = 1 .. Len(f) /\ Len(f) \in Nat
  BY <1>2, LenProperties
<1>4. 1 .. Len(f) = 1 .. n
  BY <1>3
<1>5. Len(f) = n
  BY <1>3, <1>4
<1> QED
  BY <1>2, <1>5 DEF S

\* An index knows no ID that is not in its base.
LEMMA UnknownId ==
    ASSUME NEW index, IsIndex(index), NEW id, id \notin DOMAIN index.base
    PROVE  getNode(index, id) = NoNode
<1>1. Holding(index.layers, id) = {}
  BY DEF Holding, IsIndex
<1> QED
  BY <1>1, GetNodeReads

\* A new object for a node, and for a text node with a new value.
Stamped(node, stamp) == [node EXCEPT !.stamp = stamp]
Rewritten(node, value, stamp) == [node EXCEPT !.value = value, !.stamp = stamp]

AreReplacements(nodes, tree, t, value, stamp) ==
    /\ \E n \in Nat \ {0} : DOMAIN nodes = 1 .. n
    /\ nodes[1] = Rewritten(tree[t], value, stamp)
    /\ \A i \in DOMAIN nodes :
          \/ nodes[i] = nodes[1]
          \/ \E p \in DOMAIN tree \ {t} : nodes[i] = Stamped(tree[p], stamp)

\* The new objects are those of the nodes of the path, each with a new stamp, and the text
\* node with its new value.
LEMMA UpdatedNodes ==
    ASSUME NEW tree, IsTree(tree), NEW index, IndexFits(index, tree), NEW t \in DOMAIN tree,
           tree[t].type = "text", NEW value, NEW stamp,
           NEW nodes, nodes = updatedNodesOf(getNodePath(index, tree[t].id), value, stamp),
           isPathOf(tree, getNodePath(index, tree[t].id), tree[t])
    PROVE  AreReplacements(nodes, tree, t, value, stamp)
<1> USE DEF Stamped, Rewritten
<1> DEFINE id == tree[t].id
           path == getNodePath(index, id)
<1>1. path # <<>> /\ Last(path) = tree[t]
  BY DEF isPathOf, leadsTo
<1>0. PICK S : \E ids \in Seq(S) :
        /\ Len(ids) >= 1
        /\ ids[Len(ids)] = id
        /\ path = [i \in 1 .. Len(ids) |-> getNode(index, ids[i])]
        /\ \A i \in 1 .. Len(ids) : getNode(index, ids[i]) # NoNode
  BY <1>1, PathOfNodes DEF IndexFits
<1>2. PICK ids \in Seq(S) :
        /\ Len(ids) >= 1
        /\ ids[Len(ids)] = id
        /\ path = [i \in 1 .. Len(ids) |-> getNode(index, ids[i])]
        /\ \A i \in 1 .. Len(ids) : getNode(index, ids[i]) # NoNode
  BY <1>0
<1> DEFINE n == Len(ids)
<1>3. n \in Nat \ {0}
  BY <1>2, LenProperties
<1> HIDE DEF n
<1>a. path = [i \in 1 .. n |-> path[i]]
  BY <1>2 DEF n
<1>b. path \in Seq(Range(path)) /\ Len(path) = n /\ DOMAIN path = 1 .. n
  <2> HIDE DEF path
  <2> QED
    BY <1>3, <1>a, LenOfFunction
<1>4. ASSUME NEW i \in 1 .. n
      PROVE  \E p \in DOMAIN tree : path[i] = tree[p]
  <2>1. ids[i] \in IdsOf(tree)
    BY <1>2, UnknownId DEF IndexFits, n
  <2>2. PICK p \in DOMAIN tree : tree[p].id = ids[i]
    BY <2>1 DEF IdsOf
  <2>3. path[i] = getNode(index, ids[i])
    BY <1>2 DEF n
  <2> QED
    BY <2>2, <2>3 DEF IndexFits
<1>5. ASSUME NEW i \in 1 .. n - 1
      PROVE  \E p \in DOMAIN tree \ {t} : path[i] = tree[p]
  <2>1. PICK p \in DOMAIN tree : path[i] = tree[p]
    BY <1>3, <1>4
  <2>2. i + 1 \in 2 .. Len(path) /\ (i + 1) - 1 = i
    BY <1>3, <1>b
  <2>3. \E place \in Range(childrenOf(path[i])) : tree[place].id = path[i + 1].id
    BY <2>2 DEF isPathOf
  <2>4. childrenOf(tree[t]) = <<>>
    BY DEF IsTree, IsNode
  <2>5. Range(<<>>) = {}
    BY DEF Range
  <2>6. p # t
    BY <2>1, <2>3, <2>4, <2>5
  <2> QED
    BY <2>1, <2>6
<1> DEFINE text == [Last(path) EXCEPT !.value = value, !.stamp = stamp]
           ancestors == [i \in 1 .. Len(path) - 1 |-> [path[i] EXCEPT !.stamp = stamp]]
<1>6. text = [tree[t] EXCEPT !.value = value, !.stamp = stamp]
  BY <1>1
<1>7. nodes = <<text>> \o Reverse(ancestors)
  BY DEF updatedNodesOf, path
<1> HIDE DEF path, text
<1>8. /\ ancestors = [i \in 1 .. n - 1 |-> ancestors[i]]
      /\ \A i \in 1 .. n - 1 : ancestors[i] = [path[i] EXCEPT !.stamp = stamp]
  BY <1>b
<1> HIDE DEF ancestors
<1>9. n - 1 \in Nat
  BY <1>3
<1>10. ancestors \in Seq(Range(ancestors)) /\ Len(ancestors) = n - 1
  BY <1>8, <1>9, LenOfFunction
<1>11. Reverse(ancestors) = [i \in 1 .. n - 1 |-> ancestors[((n - 1) - i) + 1]]
  BY <1>10 DEF Reverse
<1> DEFINE reversed == Reverse(ancestors)
<1>12. /\ reversed \in Seq(Range(reversed)) /\ Len(reversed) = n - 1
       /\ \A i \in 1 .. n - 1 : reversed[i] = ancestors[n - i]
  <2>1. reversed = [i \in 1 .. n - 1 |-> reversed[i]]
    BY <1>11
  <2>2. \A i \in 1 .. n - 1 : reversed[i] = ancestors[n - i]
    <3>1. \A i \in 1 .. n - 1 : ((n - 1) - i) + 1 = n - i
      BY <1>3
    <3> QED
      BY <1>11, <3>1
  <2> HIDE DEF reversed
  <2> QED
    BY <1>9, <2>1, <2>2, LenOfFunction
<1> HIDE DEF reversed
<1>13. /\ DOMAIN nodes = 1 .. n
       /\ nodes[1] = text
       /\ \A i \in 2 .. n : nodes[i] = reversed[i - 1]
  <2> DEFINE T == Range(reversed) \cup {text}
  <2>1. reversed \in Seq(T) /\ <<text>> \in Seq(T) /\ Len(<<text>>) = 1
    BY <1>12, SeqMonotonic
  <2> HIDE DEF T
  <2>2. nodes = <<text>> \o reversed
    BY <1>7 DEF reversed
  <2>3. /\ nodes \in Seq(T)
        /\ Len(nodes) = n
        /\ \A i \in 1 .. n : nodes[i] = IF i <= 1 THEN <<text>>[i] ELSE reversed[i - 1]
    BY <1>3, <1>12, <2>1, <2>2, ConcatProperties
  <2>4. DOMAIN nodes = 1 .. n
    BY <2>3, LenProperties
  <2> QED
    BY <1>3, <2>3, <2>4
<1>14. ASSUME NEW i \in 2 .. n
       PROVE  \E p \in DOMAIN tree \ {t} : nodes[i] = [tree[p] EXCEPT !.stamp = stamp]
  <2>1. i - 1 \in 1 .. n - 1 /\ n - (i - 1) \in 1 .. n - 1
    BY <1>3
  <2>2. nodes[i] = [path[n - (i - 1)] EXCEPT !.stamp = stamp]
    BY <1>8, <1>12, <1>13, <2>1
  <2> QED
    BY <1>5, <2>1, <2>2
<1>15. \A i \in DOMAIN nodes :
          \/ nodes[i] = nodes[1]
          \/ \E p \in DOMAIN tree \ {t} : nodes[i] = [tree[p] EXCEPT !.stamp = stamp]
  <2> SUFFICES ASSUME NEW i \in 1 .. n
               PROVE  \/ nodes[i] = nodes[1]
                      \/ \E p \in DOMAIN tree \ {t} : nodes[i] = [tree[p] EXCEPT !.stamp = stamp]
    BY <1>13
  <2>1. i = 1 \/ i \in 2 .. n
    BY <1>3
  <2> QED
    BY <1>14, <2>1
<1> QED
  BY <1>3, <1>6, <1>13, <1>15 DEF path, AreReplacements

\* What a Splice() consists of: the units before, the replacement, the units behind.
IsSpliced(spliced, S, text, start, end, replacement) ==
    LET n == Len(text)
        r == Len(replacement)
    IN  /\ spliced \in Seq(S)
        /\ Len(spliced) = (n - (end - start)) + r
        /\ \A i \in 1 .. start : spliced[i] = text[i]
        /\ \A i \in 1 .. r : spliced[start + i] = replacement[i]
        /\ \A i \in end + 1 .. n : spliced[(i - (end - start)) + r] = text[i]

\* Splice() consists of these.
LEMMA SpliceProperties ==
    ASSUME NEW S, NEW text \in Seq(S), NEW replacement \in Seq(S),
           NEW start \in 0 .. Len(text), NEW end \in start .. Len(text)
    PROVE  IsSpliced(Splice(text, start, end, replacement), S, text, start, end, replacement)
<1> DEFINE n == Len(text)
           r == Len(replacement)
           before == SubSeq(text, 1, start)
           behind == SubSeq(text, end + 1, n)
           spliced == Splice(text, start, end, replacement)
<1>1. /\ n \in Nat /\ r \in Nat /\ start \in Nat /\ end \in Nat /\ start <= end /\ end <= n
      /\ \A i \in 1 .. n : text[i] \in S
  BY LenProperties
<1>2. spliced = (before \o replacement) \o behind
  BY DEF Splice, Slice
<1> HIDE DEF n, r, spliced
<1>3. /\ before \in Seq(S) /\ Len(before) = start
      /\ \A i \in 1 .. start : before[i] = text[i]
  <2>1. 1 \in Int /\ start \in Int /\ \A i \in 1 .. start : text[i] \in S
    BY <1>1
  <2>2. /\ before \in Seq(S)
        /\ Len(before) = IF 1 <= start THEN (start - 1) + 1 ELSE 0
        /\ \A i \in 1 .. (start - 1) + 1 : before[i] = text[(1 + i) - 1]
    BY <2>1, SubSeqProperties
  <2> QED
    BY <1>1, <2>2
<1>4. /\ behind \in Seq(S) /\ Len(behind) = n - end
      /\ \A i \in 1 .. n - end : behind[i] = text[end + i]
  <2>1. end + 1 \in Int /\ n \in Int /\ \A i \in end + 1 .. n : text[i] \in S
    BY <1>1
  <2>2. /\ behind \in Seq(S)
        /\ Len(behind) = IF end + 1 <= n THEN (n - (end + 1)) + 1 ELSE 0
        /\ \A i \in 1 .. (n - (end + 1)) + 1 : behind[i] = text[((end + 1) + i) - 1]
    BY <2>1, SubSeqProperties
  <2>3. \A i \in 1 .. n - end : ((end + 1) + i) - 1 = end + i
    BY <1>1
  <2>4. (n - (end + 1)) + 1 = n - end
    BY <1>1
  <2> QED
    BY <1>1, <2>2, <2>3, <2>4
<1> HIDE DEF before, behind
<1> DEFINE front == before \o replacement
<1>5. /\ front \in Seq(S) /\ Len(front) = start + r
      /\ \A i \in 1 .. start + r :
            front[i] = IF i <= start THEN before[i] ELSE replacement[i - start]
  BY <1>3, ConcatProperties DEF r
<1> HIDE DEF front
<1>6. /\ spliced \in Seq(S) /\ Len(spliced) = (start + r) + (n - end)
      /\ \A i \in 1 .. (start + r) + (n - end) :
            spliced[i] = IF i <= start + r THEN front[i] ELSE behind[i - (start + r)]
  <2>1. spliced = front \o behind
    BY <1>2 DEF front
  <2>2. /\ front \o behind \in Seq(S) /\ Len(front \o behind) = Len(front) + Len(behind)
        /\ \A i \in 1 .. Len(front) + Len(behind) :
              (front \o behind)[i] = IF i <= Len(front) THEN front[i] ELSE behind[i - Len(front)]
    BY <1>4, <1>5, ConcatProperties
  <2> QED
    BY <1>4, <1>5, <2>1, <2>2
<1>7. Len(spliced) = (n - (end - start)) + r
  BY <1>1, <1>6
<1>8. \A i \in 1 .. start : spliced[i] = text[i]
  <2> TAKE i \in 1 .. start
  <2>1. i \in 1 .. (start + r) + (n - end) /\ i \in 1 .. start + r /\ i <= start /\ i <= start + r
    BY <1>1
  <2> QED
    BY <1>3, <1>5, <1>6, <2>1
<1>9. \A i \in 1 .. r : spliced[start + i] = replacement[i]
  <2> TAKE i \in 1 .. r
  <2>1. /\ start + i \in 1 .. (start + r) + (n - end) /\ start + i \in 1 .. start + r
        /\ ~ (start + i <= start) /\ start + i <= start + r /\ (start + i) - start = i
    BY <1>1
  <2> QED
    BY <1>5, <1>6, <2>1
<1>10. \A i \in end + 1 .. n : spliced[(i - (end - start)) + r] = text[i]
  <2> TAKE i \in end + 1 .. n
  <2> DEFINE k == (i - (end - start)) + r
  <2>1. /\ k \in 1 .. (start + r) + (n - end) /\ ~ (k <= start + r)
        /\ k - (start + r) = i - end /\ i - end \in 1 .. n - end /\ end + (i - end) = i
    BY <1>1
  <2> HIDE DEF k
  <2>2. spliced[k] = behind[i - end]
    BY <1>6, <2>1
  <2>3. behind[i - end] = text[i]
    BY <1>4, <2>1
  <2> QED
    BY <2>2, <2>3 DEF k
<1> QED
  BY <1>6, <1>7, <1>8, <1>9, <1>10 DEF n, r, spliced, IsSpliced

\* One text has a new value, and nothing else is different.
ReplacesAt(tree, next, t, value) ==
    /\ IsTree(next)
    /\ DOMAIN next = DOMAIN tree
    /\ Alike(next[t], [tree[t] EXCEPT !.value = value])
    /\ \A p \in DOMAIN tree \ {t} : Alike(next[p], tree[p])

\* The next tree has the new objects at their places, and the next index finds them.
LEMMA ReplacedNodes ==
    ASSUME NEW tree, IsTree(tree), NEW index, IndexFits(index, tree), NEW t \in DOMAIN tree,
           tree[t].type = "text", NEW value, isString(value), NEW stamp,
           isPathOf(tree, getNodePath(index, tree[t].id), tree[t])
    PROVE  LET nodes == updatedNodesOf(getNodePath(index, tree[t].id), value, stamp)
               next == replaceNodes(tree, nodes)
           IN  /\ ReplacesAt(tree, next, t, value)
               /\ IndexFits(withNodeReplacements(index, nodes), next)
<1> DEFINE nodes == updatedNodesOf(getNodePath(index, tree[t].id), value, stamp)
           next == replaceNodes(tree, nodes)
           layer == replacementLayer(nodes)
           text == Rewritten(tree[t], value, stamp)
<1> HIDE DEF nodes
<1>1. /\ \E n \in Nat \ {0} : DOMAIN nodes = 1 .. n
      /\ nodes[1] = text
      /\ \A i \in DOMAIN nodes :
            \/ nodes[i] = nodes[1]
            \/ \E p \in DOMAIN tree \ {t} : nodes[i] = Stamped(tree[p], stamp)
  <2> HIDE DEF text, next, layer
  <2>1. nodes = updatedNodesOf(getNodePath(index, tree[t].id), value, stamp)
    BY DEF nodes
  <2>2. AreReplacements(nodes, tree, t, value, stamp)
    BY <2>1, UpdatedNodes
  <2> QED
    BY <2>2 DEF text, AreReplacements
<1>2. next = [p \in DOMAIN tree |->
                 IF tree[p].id \in DOMAIN layer THEN layer[tree[p].id] ELSE tree[p]]
  BY DEF replaceNodes
<1>3. layer = [id \in {nodes[i].id : i \in DOMAIN nodes} |->
                  nodes[Max({i \in DOMAIN nodes : nodes[i].id = id})]]
  BY DEF replacementLayer
<1> HIDE DEF next, layer
<1>4. \A p \in DOMAIN tree : IsNode(tree[p])
  BY DEF IsTree
<1>5. /\ IsNode(text) /\ text.id = tree[t].id
      /\ Alike(text, [tree[t] EXCEPT !.value = value])
  BY <1>4 DEF IsNode, Alike, childrenOf, Has, Rewritten
<1>6. ASSUME NEW p \in DOMAIN tree
      PROVE  /\ IsNode(Stamped(tree[p], stamp)) /\ Stamped(tree[p], stamp).id = tree[p].id
             /\ Alike(Stamped(tree[p], stamp), tree[p])
  BY <1>4 DEF IsNode, Alike, childrenOf, Has, Stamped
<1> HIDE DEF text
<1>7. \A i \in DOMAIN nodes : nodes[i].id \in IdsOf(tree)
  BY <1>1, <1>5, <1>6 DEF IdsOf
<1>8. ASSUME NEW p \in DOMAIN tree, tree[p].id \in DOMAIN layer
      PROVE  IF p = t THEN layer[tree[p].id] = text ELSE layer[tree[p].id] = Stamped(tree[p], stamp)
  <2> DEFINE id == tree[p].id
             places == {i \in DOMAIN nodes : nodes[i].id = id}
  <2>1. places # {} /\ layer[id] = nodes[Max(places)]
    BY <1>3, <1>8
  <2>2. PICK n \in Nat \ {0} : DOMAIN nodes = 1 .. n
    BY <1>1
  <2>3. places \in SUBSET (1 .. n) /\ n \in Nat
    BY <2>2
  <2>4. Max(places) \in places
    <3> HIDE DEF places
    <3> QED
      BY <2>1, <2>3, LastOfPlaces
  <2>5. PICK i \in DOMAIN nodes : layer[id] = nodes[i] /\ nodes[i].id = id
    BY <2>1, <2>4
  <2>6. CASE nodes[i] = nodes[1]
    <3>1. tree[p].id = tree[t].id
      BY <1>1, <1>5, <2>5, <2>6
    <3>2. p = t
      BY <3>1 DEF IsTree
    <3> QED
      BY <1>1, <2>5, <2>6, <3>2
  <2>7. ASSUME NEW q \in DOMAIN tree \ {t}, nodes[i] = Stamped(tree[q], stamp)
        PROVE  p # t /\ layer[id] = Stamped(tree[p], stamp)
    <3>1. tree[p].id = tree[q].id
      BY <1>6, <2>5, <2>7
    <3>2. p = q
      BY <3>1 DEF IsTree
    <3> QED
      BY <2>5, <2>7, <3>2
  <2> QED
    BY <1>1, <2>6, <2>7
<1>9. tree[t].id \in DOMAIN layer
  <2>1. 1 \in DOMAIN nodes
    BY <1>1
  <2> QED
    BY <1>1, <1>3, <1>5, <2>1
<1>10. next[t] = text
  BY <1>2, <1>8, <1>9
<1>11. \A p \in DOMAIN tree \ {t} : next[p] = Stamped(tree[p], stamp) \/ next[p] = tree[p]
  BY <1>2, <1>8
<1>12. \A p \in DOMAIN tree : IsNode(next[p]) /\ next[p].id = tree[p].id
  BY <1>4, <1>5, <1>6, <1>10, <1>11
<1>13. IsTree(next) /\ DOMAIN next = DOMAIN tree
  <2>1. DOMAIN tree = 1 .. Len(tree) /\ Len(tree) \in Nat
    BY LenProperties DEF IsTree
  <2>2. next = [p \in 1 .. Len(tree) |-> next[p]]
    BY <1>2, <2>1
  <2>3. next \in Seq(Range(next))
    BY <2>1, <2>2, LenOfFunction
  <2>4. DOMAIN next = DOMAIN tree
    BY <1>2
  <2> QED
    BY <1>12, <2>3, <2>4 DEF IsTree
<1>14. \A p \in DOMAIN tree \ {t} : Alike(next[p], tree[p])
  <2>1. \A p \in DOMAIN tree : Alike(tree[p], tree[p])
    BY DEF Alike
  <2> QED
    BY <1>6, <1>11, <2>1
<1>15. IndexFits(withNodeReplacements(index, nodes), next)
  <2> DEFINE nextIndex == withNodeReplacements(index, nodes)
  <2>1. /\ IsIndex(index) /\ DOMAIN index.base = IdsOf(tree)
        /\ \A i \in DOMAIN nodes : nodes[i].id \in DOMAIN index.base
    BY <1>7 DEF IndexFits
  <2>2. /\ IsIndex(nextIndex)
        /\ DOMAIN nextIndex.base = DOMAIN index.base
        /\ \A id : getNode(nextIndex, id) =
                        IF id \in DOMAIN layer THEN layer[id] ELSE getNode(index, id)
    BY <2>1, WithNodeReplacements DEF layer
  <2> HIDE DEF nextIndex
  <2>3. IdsOf(next) = IdsOf(tree)
    BY <1>12, <1>13 DEF IdsOf
  <2>4. ASSUME NEW p \in DOMAIN tree
        PROVE  getNode(nextIndex, tree[p].id) = next[p]
    <3>1. getNode(index, tree[p].id) = tree[p]
      BY DEF IndexFits
    <3> QED
      BY <1>2, <2>2, <3>1
  <2> QED
    BY <1>12, <1>13, <2>1, <2>2, <2>3, <2>4 DEF IndexFits, nextIndex
<1> QED
  BY <1>5, <1>10, <1>13, <1>14, <1>15 DEF nodes, next, ReplacesAt

\* The ID of a node of the tree finds that node, and no other ID finds a node.
LEMMA FoundNode ==
    ASSUME NEW tree, NEW index, IndexFits(index, tree), NEW id, getNode(index, id) # NoNode
    PROVE  \E t \in DOMAIN tree : tree[t].id = id /\ getNode(index, id) = tree[t]
<1>1. IsIndex(index) /\ DOMAIN index.base = IdsOf(tree)
  BY DEF IndexFits
<1>2. id \in IdsOf(tree)
  BY <1>1, UnknownId
<1>3. PICK t \in DOMAIN tree : tree[t].id = id
  BY <1>2 DEF IdsOf
<1>4. getNode(index, id) = tree[t]
  BY <1>3 DEF IndexFits
<1> QED
  BY <1>3, <1>4

\* A string stays a string when a part of it is replaced by a string.
LEMMA SplicedString ==
    ASSUME NEW text, isString(text), NEW replacement, isString(replacement),
           NEW start \in 0 .. Len(text), NEW end \in start .. Len(text)
    PROVE  isString(Splice(text, start, end, replacement))
<1> DEFINE S == Range(text) \cup Range(replacement)
           spliced == Splice(text, start, end, replacement)
<1>1. text \in Seq(S) /\ replacement \in Seq(S)
  BY SeqMonotonic DEF isString
<1> HIDE DEF S
<1>2. spliced \in Seq(S)
  BY <1>1, SpliceProperties DEF IsSpliced
<1> HIDE DEF spliced
<1>3. spliced = [i \in 1 .. Len(spliced) |-> spliced[i]] /\ Len(spliced) \in Nat
  BY <1>2, LenProperties
<1>4. spliced \in Seq(Range(spliced))
  BY <1>3, LenOfFunction
<1> QED
  BY <1>4 DEF isString, spliced

\* A ReplaceText that is applied replaces what it says, in the tree and in its index.
LEMMA ApplyIsExact ==
    ASSUME NEW tree, IsTree(tree), NEW index, IndexFits(index, tree),
           NEW operation, isString(operation.replacement), NEW stamp,
           applyReplaceText(tree, index, operation, stamp).type = "ok"
    PROVE  LET applied == applyReplaceText(tree, index, operation, stamp).value
           IN  /\ Replaces(tree, applied.root, operation)
               /\ IndexFits(withNodeReplacements(index, applied.updatedNodes), applied.root)
<1> DEFINE result == applyReplaceText(tree, index, operation, stamp)
           id == operation.textNodeId
           start == operation.startUtf16Offset
           end == operation.endUtf16Offset
           target == getNode(index, id)
           path == getNodePath(index, id)
           value == Splice(target.value, start, end, operation.replacement)
           nodes == updatedNodesOf(path, value, stamp)
           next == replaceNodes(tree, nodes)
<1>1. /\ target # NoNode
      /\ target.type = "text"
      /\ validateReplaceTextRange(target, operation)
      /\ isPathOf(tree, path, target)
      /\ result.value.root = next
      /\ result.value.updatedNodes = nodes
  <2>0. result = replaceTextOn(tree, path, target, operation, stamp)
    BY DEF applyReplaceText
  <2> HIDE DEF path, target, result, value, nodes
  <2>1. result.type = "ok"
    BY DEF result
  <2>2. /\ target # NoNode
        /\ target.type = "text"
        /\ validateReplaceTextRange(target, operation)
        /\ result = replaceTextNode(tree, path, target, operation, nodes)
    BY <2>0, <2>1 DEF replaceTextOn, errorResult, nodes, value
  <2>3. isPathOf(tree, path, target)
    BY <2>1, <2>2 DEF replaceTextNode, errorResult
  <2> QED
    BY <2>2, <2>3 DEF replaceTextNode, Ok
<1>2. PICK t \in DOMAIN tree : tree[t].id = id /\ target = tree[t]
  BY <1>1, FoundNode
<1>3. isString(tree[t].value)
  BY <1>1, <1>2 DEF IsTree, IsNode
<1>4. /\ start \in 0 .. Len(tree[t].value) /\ end \in start .. Len(tree[t].value)
      /\ validateUtf16Boundary(tree[t].value, start)
      /\ validateUtf16Boundary(tree[t].value, end)
      /\ hasWellFormedUtf16(operation.replacement)
  <2>1. Len(tree[t].value) \in Nat
    BY <1>3, LenProperties DEF isString
  <2> QED
    BY <1>1, <1>2, <2>1 DEF validateReplaceTextRange, validateUtf16Boundary
<1>5. isString(value)
  BY <1>2, <1>3, <1>4, SplicedString
<1> HIDE DEF result
<1>6. /\ IsTree(next)
      /\ DOMAIN next = DOMAIN tree
      /\ Alike(next[t], [tree[t] EXCEPT !.value = value])
      /\ \A p \in DOMAIN tree \ {t} : Alike(next[p], tree[p])
      /\ IndexFits(withNodeReplacements(index, nodes), next)
  <2>1. isPathOf(tree, getNodePath(index, tree[t].id), tree[t]) /\ tree[t].type = "text"
    BY <1>1, <1>2
  <2>2. nodes = updatedNodesOf(getNodePath(index, tree[t].id), value, stamp)
    BY <1>2
  <2> HIDE DEF value, id, target, path
  <2>3. ReplacesAt(tree, next, t, value) /\ IndexFits(withNodeReplacements(index, nodes), next)
    <3>1. nodes = updatedNodesOf(getNodePath(index, tree[t].id), value, stamp)
      BY <2>2
    <3> HIDE DEF nodes
    <3> QED
      BY <1>5, <2>1, <3>1, ReplacedNodes
  <2> QED
    BY <2>3 DEF ReplacesAt
<1>7. \A p \in DOMAIN tree : tree[p].id = id <=> p = t
  BY <1>2 DEF IsTree
<1>8. id \in IdsOf(tree)
  BY <1>2 DEF IdsOf
<1>9. Alike(next[t], [tree[t] EXCEPT !.value = Splice(@, start, end, operation.replacement)])
  BY <1>2, <1>6
<1>10. tree[t].type = "text"
  BY <1>1, <1>2
<1> HIDE DEF next, nodes
<1>11. Replaces(tree, next, operation)
  BY <1>4, <1>6, <1>7, <1>8, <1>9, <1>10 DEF Replaces
<1> QED
  BY <1>1, <1>6, <1>11 DEF result

-----------------------------------------------------------------------------
(* The Operations of a Transaction, and the document they make. *)

\* The index of a document that was indexed from nothing.
LEMMA FreshIndexFits ==
    ASSUME NEW document, IsTree(document.root)
    PROVE  IndexFits(createDocumentIndexFromValidatedSnapshot(document), document.root)
<1> DEFINE tree == document.root
           ids == IdsOf(tree)
           index == createDocumentIndexFromValidatedSnapshot(document)
<1>1. /\ index = [key \in DOMAIN index |-> index[key]]
      /\ {"base", "layers", "parents"} \subseteq DOMAIN index
      /\ index.base = [id \in ids |-> tree[placeOf(tree, id)]]
      /\ index.layers = <<>>
  BY DEF createDocumentIndexFromValidatedSnapshot, IdsOf
<1> HIDE DEF index
<1>2. IsFiniteSet(ids)
  <2> DEFINE f == [p \in DOMAIN tree |-> tree[p].id]
  <2>1. Len(tree) \in Nat /\ DOMAIN tree = 1 .. Len(tree)
    BY LenProperties DEF IsTree
  <2>2. IsFiniteSet(DOMAIN tree)
    BY <2>1, FS_Interval
  <2>3. f \in Surjection(DOMAIN tree, ids)
    BY DEF Surjection, IdsOf
  <2> HIDE DEF f, ids
  <2> QED
    BY <2>2, <2>3, FS_Surjection
<1>3. IsIndex(index)
  <2>1. <<>> \in Seq(Range(<<>>)) /\ DOMAIN <<>> = {}
    OBVIOUS
  <2>2. DOMAIN index.base = ids
    BY <1>1
  <2> QED
    BY <1>1, <1>2, <2>1, <2>2 DEF IsIndex
<1>4. ASSUME NEW p \in DOMAIN tree
      PROVE  getNode(index, tree[p].id) = tree[p]
  <2>1. Holding(index.layers, tree[p].id) = {}
    BY <1>1 DEF Holding
  <2>2. tree[p].id \in ids
    BY DEF IdsOf
  <2>3. getNode(index, tree[p].id) = tree[placeOf(tree, tree[p].id)]
    BY <1>1, <2>1, <2>2, GetNodeReads
  <2>4. placeOf(tree, tree[p].id) = p
    BY DEF placeOf, IsTree
  <2> QED
    BY <2>3, <2>4
<1> QED
  BY <1>1, <1>3, <1>4 DEF IndexFits, index

\* The Operations make one tree after the other.
Chain(tree, next, operations) ==
    \E trees :
        /\ trees[0] = tree
        /\ trees[Len(operations)] = next
        /\ \A n \in 1 .. Len(operations) : Replaces(trees[n - 1], trees[n], operations[n])

\* The drafts of the Operations, each made from the one before it.
LEMMA DraftsInOrder ==
    ASSUME NEW tree, NEW index, NEW S, NEW operations \in Seq(S), NEW object
    PROVE  \E result :
              /\ result[0] = Ok([root |-> tree, index |-> index, applications |-> <<>>])
              /\ \A n \in 1 .. Len(operations) :
                    result[n] = IF result[n - 1].type = "ok"
                                THEN draftStep(result[n - 1].value, operations[n], <<object, n>>)
                                ELSE result[n - 1]
              /\ applyInOrder(tree, index, operations, object) = result[Len(operations)]
<1> DEFINE N == Len(operations)
           First == Ok([root |-> tree, index |-> index, applications |-> <<>>])
           After(r, n) == onOk(r, LAMBDA draft : draftStep(draft, operations[n], <<object, n>>))
           Step(f, n) == IF n = 0 THEN First ELSE After(f[n - 1], n)
           Reached == {n \in 0 .. N : \E f : f = [i \in 0 .. n |-> Step(f, i)]}
<1>1. N \in Nat
  BY LenProperties
<1>0. \A r, n : After(r, n) = IF r.type = "ok"
                              THEN draftStep(r.value, operations[n], <<object, n>>)
                              ELSE r
  BY DEF onOk
<1> HIDE DEF First, After
<1>2. 0 \in Reached
  <2> DEFINE f == [i \in 0 .. 0 |-> First]
  <2>1. f = [i \in 0 .. 0 |-> Step(f, i)]
    OBVIOUS
  <2>2. 0 \in 0 .. N
    BY <1>1
  <2> HIDE DEF f, Step, N
  <2> QED
    BY <2>1, <2>2
<1>3. ASSUME NEW n \in 0 .. N - 1, n \in Reached
      PROVE  n + 1 \in Reached
  <2>1. PICK f : f = [i \in 0 .. n |-> Step(f, i)]
    BY <1>3
  <2> DEFINE g == [i \in 0 .. n + 1 |-> IF i <= n THEN f[i] ELSE Step(f, i)]
  <2>2. ASSUME NEW i \in 0 .. n + 1
        PROVE  g[i] = Step(g, i)
    <3>1. CASE i = 0
      <4>1. f[0] = Step(f, 0)
        BY <1>1, <2>1
      <4> QED
        BY <1>1, <3>1, <4>1
    <3>2. CASE i # 0
      <4>1. i - 1 \in 0 .. n
        BY <1>1, <3>2
      <4>2. g[i - 1] = f[i - 1]
        BY <4>1
      <4>3. Step(g, i) = Step(f, i)
        <5> HIDE DEF g
        <5> QED
          BY <3>2, <4>2
      <4>4. CASE i <= n
        <5>1. i \in 0 .. n
          BY <4>4
        <5>2. f[i] = Step(f, i)
          BY <2>1, <5>1
        <5> HIDE DEF Step
        <5> QED
          BY <4>3, <4>4, <5>2
      <4>5. CASE ~ (i <= n)
        <5> HIDE DEF Step
        <5> QED
          BY <4>3, <4>5
      <4> QED
        BY <4>4, <4>5
    <3> QED
      BY <3>1, <3>2
  <2>3. g = [i \in 0 .. n + 1 |-> Step(g, i)]
    <3> HIDE DEF Step
    <3> QED
      BY <2>2
  <2>4. n + 1 \in 0 .. N
    BY <1>1
  <2> HIDE DEF g, Step, N
  <2> QED
    BY <2>3, <2>4
<1>4. N \in Reached
  <2> HIDE DEF Reached
  <2>1. \A n \in 0 .. N : n \in Reached
    BY <1>1, <1>2, <1>3, InductionUpTo
  <2> QED
    BY <1>1, <2>1
<1> DEFINE result == CHOOSE f : f = [i \in 0 .. N |-> Step(f, i)]
<1>5. result = [i \in 0 .. N |-> Step(result, i)]
  <2> HIDE DEF Step
  <2> QED
    BY <1>4
<1>6. applyInOrder(tree, index, operations, object) = result[N]
  BY DEF applyInOrder, First, After
<1> HIDE DEF result
<1>7. result[0] = First
  BY <1>1, <1>5
<1>8. \A n \in 1 .. N : result[n] = After(result[n - 1], n)
  BY <1>1, <1>5
<1> QED
  BY <1>0, <1>6, <1>7, <1>8 DEF First

\* The draft that several Operations leave is what they make one after the other.
LEMMA ApplyInOrderIsExact ==
    ASSUME NEW tree, IsTree(tree), NEW index, IndexFits(index, tree),
           NEW S, NEW operations \in Seq(S), NEW object,
           \A n \in 1 .. Len(operations) : isString(operations[n].replacement),
           applyInOrder(tree, index, operations, object).type = "ok"
    PROVE  Chain(tree, applyInOrder(tree, index, operations, object).value.root, operations)
<1> DEFINE N == Len(operations)
<1>1. N \in Nat
  BY LenProperties
<1>2. PICK result :
        /\ result[0] = Ok([root |-> tree, index |-> index, applications |-> <<>>])
        /\ \A n \in 1 .. N :
              result[n] = IF result[n - 1].type = "ok"
                          THEN draftStep(result[n - 1].value, operations[n], <<object, n>>)
                          ELSE result[n - 1]
        /\ applyInOrder(tree, index, operations, object) = result[N]
  BY DraftsInOrder
<1> DEFINE Ready(n) == IsTree(result[n].value.root) /\ IndexFits(result[n].value.index,
                                                                result[n].value.root)
           Made(m) == Replaces(result[m - 1].value.root, result[m].value.root, operations[m])
           Done == {n \in 0 .. N : result[n].type = "ok" =>
                                        Ready(n) /\ \A m \in 1 .. n : Made(m)}
<1>3. 0 \in Done
  <2>1. result[0].type = "ok" /\ Ready(0)
    BY <1>2 DEF Ok
  <2> HIDE DEF Ready, Made, N
  <2> QED
    BY <1>1, <2>1
<1>4. ASSUME NEW n \in 0 .. N - 1, n \in Done
      PROVE  n + 1 \in Done
  <2> DEFINE operation == operations[n + 1]
             stamp == <<object, n + 1>>
  <2>1. n + 1 \in 0 .. N /\ n + 1 \in 1 .. N /\ (n + 1) - 1 = n
    BY <1>1
  <2>2. isString(operation.replacement)
    BY <2>1
  <2>3. result[n + 1] = IF result[n].type = "ok"
                        THEN draftStep(result[n].value, operation, stamp)
                        ELSE result[n]
    BY <1>2, <2>1
  <2>4. ASSUME result[n + 1].type = "ok"
        PROVE  Ready(n + 1) /\ \A m \in 1 .. n + 1 : Made(m)
    <3>1. result[n].type = "ok" /\ result[n + 1] = draftStep(result[n].value, operation, stamp)
      BY <2>3, <2>4
    <3>2. Ready(n) /\ \A m \in 1 .. n : Made(m)
      BY <1>4, <3>1
    <3> DEFINE draft == result[n].value
               applied == applyReplaceText(draft.root, draft.index, operation, stamp)
    <3>3. draftStep(draft, operation, stamp) =
              IF applied.type = "ok" THEN nextDraft(draft, applied.value) ELSE applied
      BY DEF draftStep, onOk
    <3>4. applied.type = "ok" /\ result[n + 1] = nextDraft(draft, applied.value)
      <4> HIDE DEF applied
      <4> QED
        BY <2>4, <3>1, <3>3
    <3>5. /\ Replaces(draft.root, applied.value.root, operation)
          /\ IndexFits(withNodeReplacements(draft.index, applied.value.updatedNodes),
                       applied.value.root)
      <4> HIDE DEF operation, stamp
      <4> QED
        BY <2>2, <3>2, <3>4, ApplyIsExact
    <3> HIDE DEF applied
    <3>6. /\ result[n + 1].value.root = applied.value.root
          /\ result[n + 1].value.index =
                withNodeReplacements(draft.index, applied.value.updatedNodes)
      BY <2>4, <3>4 DEF nextDraft, errorResult, Ok
    <3>7. IsTree(applied.value.root)
      BY <3>5 DEF Replaces
    <3>8. Ready(n + 1) /\ Made(n + 1)
      BY <2>1, <3>5, <3>6, <3>7
    <3>9. \A m \in 1 .. n + 1 : m \in 1 .. n \/ m = n + 1
      BY <1>1
    <3> HIDE DEF Made, Ready
    <3> QED
      BY <3>2, <3>8, <3>9
  <2> HIDE DEF Made, Ready, N
  <2> QED
    BY <2>1, <2>4
<1>5. N \in Done
  <2> HIDE DEF Done
  <2>1. \A n \in 0 .. N : n \in Done
    BY <1>1, <1>3, <1>4, InductionUpTo
  <2> QED
    BY <1>1, <2>1
<1> DEFINE trees == [n \in 0 .. N |-> result[n].value.root]
<1>6. trees[0] = tree
  BY <1>1, <1>2 DEF Ok
<1>7. trees[N] = result[N].value.root
  BY <1>1
<1>8. \A n \in 1 .. N : Replaces(trees[n - 1], trees[n], operations[n])
  <2> TAKE n \in 1 .. N
  <2>1. n - 1 \in 0 .. N /\ n \in 0 .. N
    BY <1>1
  <2>2. trees[n - 1] = result[n - 1].value.root /\ trees[n] = result[n].value.root
    BY <2>1
  <2>3. Made(n)
    <3> HIDE DEF Made, Fits
    <3> QED
      BY <1>2, <1>5
  <2> HIDE DEF trees
  <2> QED
    BY <2>2, <2>3
<1> HIDE DEF trees, Done
<1> QED
  BY <1>2, <1>6, <1>7, <1>8 DEF Chain

\* A document is an object with a tree and an Academic Graph.
IsDocument(document) ==
    /\ document = [key \in DOMAIN document |-> document[key]]
    /\ {"revisionId", "documentHash", "root", "academicGraph"} \subseteq DOMAIN document
    /\ document.academicGraph =
            [key \in DOMAIN document.academicGraph |-> document.academicGraph[key]]
    /\ "claims" \in DOMAIN document.academicGraph
    /\ IsTree(document.root)

\* The rest of a document, beside its tree, its claims and what identifies its Revision.
HasTheRestOf(document, next) ==
    /\ DOMAIN next = DOMAIN document
    /\ \A key \in DOMAIN document \ {"revisionId", "documentHash", "root", "academicGraph"} :
            next[key] = document[key]
    /\ DOMAIN next.academicGraph = DOMAIN document.academicGraph
    /\ \A key \in DOMAIN document.academicGraph \ {"claims"} :
            next.academicGraph[key] = document.academicGraph[key]

\* What a Transaction has to make of a document.
Derives(document, next, operations) ==
    /\ IsDocument(next)
    /\ HasTheRestOf(document, next)
    /\ Chain(document.root, next.root, operations)

IsOperations(operations) ==
    /\ operations \in Seq(Range(operations))
    /\ \A n \in 1 .. Len(operations) : isString(operations[n].replacement)

\* The kernel goes on with strings to insert, and with at least one Operation.
LEMMA OperationsAreDecoded ==
    ASSUME NEW request, decodeStrictTransactionV1(request) = "ok",
           readSupportedOperations(request.json.operations) = "ok"
    PROVE  IsOperations(request.json.operations) /\ Len(request.json.operations) \in Nat \ {0}
<1> DEFINE operations == request.json.operations
<1>1. decodeTransaction(request.json)
  BY DEF decodeStrictTransactionV1
<1>2. decodeOperations(operations)
  BY <1>1 DEF decodeTransaction
<1> HIDE DEF operations
<1>3. /\ operations \in Seq(Range(operations))
      /\ \A i \in DOMAIN operations : decodeOperation(operations[i])
  BY <1>2 DEF decodeOperations, IsArray
<1>4. Len(operations) \in Nat /\ DOMAIN operations = 1 .. Len(operations)
  BY <1>3, LenProperties
<1>5. readSupportedOperations(operations) = "ok"
  BY DEF operations
<1>6. operations # <<>> /\ \A i \in DOMAIN operations : operations[i].type = "replace-text"
  BY <1>5 DEF readSupportedOperations
<1>7. Len(operations) # 0
  BY <1>3, <1>6, EmptySeq
<1>8. \A i \in DOMAIN operations : isPayload(operations[i])
  BY <1>3 DEF decodeOperation
<1>9. \A i \in DOMAIN operations : isString(operations[i].replacement)
  BY <1>6, <1>8 DEF isPayload
<1> QED
  BY <1>3, <1>4, <1>7, <1>9 DEF IsOperations, operations

\* The next document is the head with another tree, other claims, ID and hash.
LEMMA NextDocumentKeepsTheRest ==
    ASSUME NEW options, IsDocument(options.headSnapshot.document), NEW root, IsTree(root),
           NEW claims, NEW hashed
    PROVE  LET next == NextSnapshot(options, NextDocument(options, root, claims), hashed).document
           IN  /\ IsDocument(next)
               /\ HasTheRestOf(options.headSnapshot.document, next)
               /\ next.root = root
<1> DEFINE document == options.headSnapshot.document
           graph == [document.academicGraph EXCEPT !.claims = claims]
           next == NextSnapshot(options, NextDocument(options, root, claims), hashed).document
<1>1. next = [[document EXCEPT !.revisionId = options.nextRevisionId, !.root = root,
                               !.academicGraph.claims = claims]
                EXCEPT !.documentHash = hashed.hash]
  BY DEF NextSnapshot, NextDocument
<1>2. [document EXCEPT !.revisionId = options.nextRevisionId, !.root = root,
                       !.academicGraph.claims = claims] =
      [document EXCEPT !.revisionId = options.nextRevisionId, !.root = root,
                       !.academicGraph = graph]
  BY DEF IsDocument
<1> HIDE DEF next, document
<1>3. IsDocument(document)
  BY DEF document
<1>4. /\ next = [key \in DOMAIN document |->
                    CASE key = "revisionId" -> options.nextRevisionId
                      [] key = "root" -> root
                      [] key = "academicGraph" -> graph
                      [] key = "documentHash" -> hashed.hash
                      [] OTHER -> document[key]]
  BY <1>1, <1>2, <1>3 DEF IsDocument
<1>5. graph = [key \in DOMAIN document.academicGraph |->
                    IF key = "claims" THEN claims ELSE document.academicGraph[key]]
  BY <1>3 DEF IsDocument
<1> HIDE DEF graph
<1>6. /\ DOMAIN next = DOMAIN document
      /\ next = [key \in DOMAIN next |-> next[key]]
      /\ next.root = root
      /\ next.academicGraph = graph
      /\ \A key \in DOMAIN document \ {"revisionId", "documentHash", "root", "academicGraph"} :
            next[key] = document[key]
  BY <1>3, <1>4 DEF IsDocument
<1>7. IsDocument(next)
  BY <1>3, <1>5, <1>6 DEF IsDocument
<1>8. HasTheRestOf(document, next)
  BY <1>5, <1>6 DEF HasTheRestOf
<1> QED
  BY <1>6, <1>7, <1>8 DEF next, document

\* An entry of the new Snapshot whose index finds the nodes of this tree.
Stages(options, c, d, tree) ==
    \/ d = c
    \/ \E entry :
          /\ IsEntryOf(entry, options.object)
          /\ IndexFits(entry.index, tree)
          /\ d = cacheKernelDerived(c, options.headSnapshot.object, entry)

\* What the kernel accepts is what the Operations say, and so is the entry that it stages.
KernelExact(options, c, r) ==
    r.type = "ok" =>
        /\ r.value.replayInput = options.request
        /\ Derives(options.headSnapshot.document, r.value.snapshot.document,
                   options.request.json.operations)
        /\ Stages(options, c, r.value.cache, r.value.snapshot.document.root)

\* A result is exact if its document is what the Operations say, and its index fits it.
LEMMA PreparedIsExact ==
    ASSUME NEW options, IsDocument(options.headSnapshot.document), NEW c,
           NEW root, IsTree(root),
           Chain(options.headSnapshot.document.root, root, options.request.json.operations),
           NEW index, IndexFits(index, root),
           NEW claims, NEW hashed, NEW operations, NEW applications, NEW map, NEW d,
           LET snapshot == NextSnapshot(options, NextDocument(options, root, claims), hashed)
           IN  d \in {c, stageDerived(c, options.headSnapshot, snapshot, index, hashed)}
    PROVE  KernelExact(options, c,
              Prepared(options,
                       NextSnapshot(options, NextDocument(options, root, claims), hashed),
                       operations, applications, map, d))
<1> DEFINE snapshot == NextSnapshot(options, NextDocument(options, root, claims), hashed)
           r == Prepared(options, snapshot, operations, applications, map, d)
           entry == derivedEntry(snapshot, index, hashed.payload, hashed.utf8)
<1>1. snapshot.object = options.object
  BY DEF NextSnapshot
<1>2. /\ IsDocument(snapshot.document)
      /\ HasTheRestOf(options.headSnapshot.document, snapshot.document)
      /\ snapshot.document.root = root
  BY NextDocumentKeepsTheRest
<1>3. d \in {c, stageDerived(c, options.headSnapshot, snapshot, index, hashed)}
  OBVIOUS
<1> HIDE DEF snapshot
<1>4. entry.index = index /\ IsEntryOf(entry, options.object)
  BY <1>1 DEF derivedEntry, IsEntryOf
<1>5. /\ r.value.replayInput = options.request
      /\ r.value.snapshot = snapshot
      /\ r.value.cache = d
  BY DEF Prepared, Ok
<1>6. d = c \/ d = cacheKernelDerived(c, options.headSnapshot.object, entry)
  <2> HIDE DEF entry
  <2> QED
    BY <1>3 DEF stageDerived, entry
<1> HIDE DEF entry
<1>7. Stages(options, c, d, root)
  BY <1>4, <1>6 DEF Stages
<1>8. Derives(options.headSnapshot.document, snapshot.document, options.request.json.operations)
  BY <1>2 DEF Derives
<1> HIDE DEF r
<1>9. KernelExact(options, c, r)
  BY <1>2, <1>5, <1>7, <1>8 DEF KernelExact
<1> QED
  BY <1>9 DEF r, snapshot

\* One Operation makes a chain of one.
LEMMA ChainOfOne ==
    ASSUME NEW tree, NEW next, NEW operations, Len(operations) = 1,
           Replaces(tree, next, operations[1])
    PROVE  Chain(tree, next, operations)
<1> DEFINE trees == [n \in 0 .. 1 |-> IF n = 0 THEN tree ELSE next]
<1>1. trees[0] = tree /\ trees[1] = next
  OBVIOUS
<1> HIDE DEF trees
<1>2. \A n \in 1 .. 1 : Replaces(trees[n - 1], trees[n], operations[n])
  <2> TAKE n \in 1 .. 1
  <2>1. n = 1 /\ n - 1 = 0
    OBVIOUS
  <2> QED
    BY <1>1, <2>1
<1> QED
  BY <1>1, <1>2 DEF Chain

\* A chain of trees ends in a tree.
LEMMA ChainEndsInATree ==
    ASSUME NEW tree, IsTree(tree), NEW next, NEW operations, Len(operations) \in Nat,
           Chain(tree, next, operations)
    PROVE  IsTree(next)
<1>1. PICK trees :
        /\ trees[0] = tree
        /\ trees[Len(operations)] = next
        /\ \A n \in 1 .. Len(operations) : Replaces(trees[n - 1], trees[n], operations[n])
  BY DEF Chain
<1>2. CASE Len(operations) = 0
  BY <1>1, <1>2
<1>3. CASE Len(operations) # 0
  <2>1. Len(operations) \in 1 .. Len(operations)
    BY <1>3
  <2>2. Replaces(trees[Len(operations) - 1], trees[Len(operations)], operations[Len(operations)])
    BY <1>1, <2>1
  <2> QED
    BY <1>1, <2>2 DEF Replaces
<1> QED
  BY <1>2, <1>3

\* Transactions of one Operation: the index is derived from the head's.
LEMMA SingleIsExact ==
    ASSUME NEW options, IsDocument(options.headSnapshot.document), NEW c, NEW entry,
           NEW index, IndexFits(index, options.headSnapshot.document.root),
           IsOperations(options.request.json.operations),
           Len(options.request.json.operations) = 1,
           NEW operation, operation = options.request.json.operations[1], NEW map
    PROVE  KernelExact(options, c,
              prepareReplaceTextTransaction(options, c, index, entry, operation, map))
<1> DEFINE tree == options.headSnapshot.document.root
           operations == options.request.json.operations
           result == applyReplaceText(tree, index, operation, <<options.object, 1>>)
           r == prepareReplaceTextTransaction(options, c, index, entry, operation, map)
           Done(applied, claims) ==
              hashSingle(options, c, index, entry, operation, applied, map,
                         NextDocument(options, applied.root, claims))
<1>1. \/ r.type # "ok"
      \/ /\ result.type = "ok"
         /\ \E claims : r = Done(result.value, claims)
  <2> HIDE DEF Done, r, result
  <2>1. r = IF ~ validateReplaceTextOptions(positionMapStep(operation))
            THEN Thrown
            ELSE IF result.type = "ok"
            THEN IF rebase(options, map).type = "ok"
                 THEN Done(result.value, rebase(options, map).value)
                 ELSE rebase(options, map)
            ELSE result
    BY DEF prepareReplaceTextTransaction, onOk, Done, r, result
  <2> QED
    BY <2>1 DEF Thrown
<1>2. CASE r.type # "ok"
  <2> HIDE DEF r
  <2>1. KernelExact(options, c, r)
    BY <1>2 DEF KernelExact
  <2> QED
    BY <2>1 DEF r
<1>3. ASSUME result.type = "ok", NEW claims
      PROVE  KernelExact(options, c, Done(result.value, claims))
  <2> DEFINE applied == result.value
             document == NextDocument(options, applied.root, claims)
             hashed == computeNextDocumentHash(document, entry, applied,
                                               options.headSnapshot.document.academicGraph.claims)
             snapshot == NextSnapshot(options, document, hashed)
             nextIndex == withNodeReplacements(index, applied.updatedNodes)
             d == IF CanReplace(index, applied.updatedNodes)
                  THEN stageDerived(c, options.headSnapshot, snapshot, nextIndex, hashed)
                  ELSE c
  <2>1. IsTree(tree) /\ isString(operation.replacement)
    BY DEF IsDocument, IsOperations
  <2>2. Replaces(tree, applied.root, operation) /\ IndexFits(nextIndex, applied.root)
    <3> HIDE DEF tree
    <3> QED
      BY <1>3, <2>1, ApplyIsExact DEF tree
  <2>3. Done(applied, claims) = Prepared(options, snapshot, <<operation>>, <<applied>>, map, d)
    BY DEF hashSingle, finishSingle, stageVerifiedDerivedSnapshot
  <2>4. IsTree(applied.root)
    BY <2>2 DEF Replaces
  <2>5. Chain(tree, applied.root, operations)
    <3> HIDE DEF tree, applied
    <3> QED
      BY <2>2, ChainOfOne
  <2>6. d \in {c, stageDerived(c, options.headSnapshot, snapshot, nextIndex, hashed)}
    OBVIOUS
  <2> HIDE DEF d, hashed, nextIndex, result
  <2>7. KernelExact(options, c,
                    Prepared(options, snapshot, <<operation>>, <<applied>>, map, d))
    BY <2>2, <2>4, <2>5, <2>6, PreparedIsExact
  <2> QED
    BY <2>3, <2>7
<1> HIDE DEF Done, result
<1> QED
  BY <1>1, <1>2, <1>3

\* Transactions of several Operations: the draft is indexed from nothing.
LEMMA MultipleIsExact ==
    ASSUME NEW options, IsDocument(options.headSnapshot.document), NEW c,
           NEW index, IndexFits(index, options.headSnapshot.document.root),
           NEW operations, operations = options.request.json.operations,
           IsOperations(operations), NEW map
    PROVE  KernelExact(options, c,
              prepareMultipleReplaceTextTransaction(options, c, index, operations, map))
<1> DEFINE tree == options.headSnapshot.document.root
           result == applyInOrder(tree, index, operations, options.object)
           r == prepareMultipleReplaceTextTransaction(options, c, index, operations, map)
           Done(draft, claims) ==
              hashMultiple(options, c, operations, draft, map,
                           NextDocument(options, draft.root, claims))
<1>1. \/ r.type # "ok"
      \/ /\ result.type = "ok"
         /\ \E claims : r = Done(result.value, claims)
  <2> HIDE DEF Done, r, result
  <2>1. r = IF result.type = "ok"
            THEN IF rebase(options, map).type = "ok"
                 THEN Done(result.value, rebase(options, map).value)
                 ELSE rebase(options, map)
            ELSE result
    BY DEF prepareMultipleReplaceTextTransaction, onOk, Done, r, result
  <2> QED
    BY <2>1
<1>2. CASE r.type # "ok"
  <2> HIDE DEF r
  <2>1. KernelExact(options, c, r)
    BY <1>2 DEF KernelExact
  <2> QED
    BY <2>1 DEF r
<1>3. ASSUME result.type = "ok", NEW claims
      PROVE  KernelExact(options, c, Done(result.value, claims))
  <2> DEFINE draft == result.value
             document == NextDocument(options, draft.root, claims)
             hashed == hashPatched(document, Unpatched)
             snapshot == NextSnapshot(options, document, hashed)
             fresh == createDocumentIndexFromValidatedSnapshot(document)
             d == stageDerived(c, options.headSnapshot, snapshot, fresh, hashed)
             prepared == Prepared(options, snapshot, operations, draft.applications, map, d)
  <2>1. IsTree(tree)
    BY DEF IsDocument
  <2>2. Len(operations) \in Nat
    BY LenProperties DEF IsOperations
  <2>3. Chain(tree, draft.root, operations)
    <3> DEFINE S == Range(operations)
    <3>1. /\ operations \in Seq(S)
          /\ \A n \in 1 .. Len(operations) : isString(operations[n].replacement)
      BY DEF IsOperations
    <3> HIDE DEF tree, S
    <3> QED
      BY <1>3, <2>1, <3>1, ApplyInOrderIsExact DEF tree
  <2>4. IsTree(draft.root)
    <3> HIDE DEF tree, draft
    <3> QED
      BY <2>1, <2>2, <2>3, ChainEndsInATree
  <2>5. document.root = draft.root
    BY DEF NextDocument, IsDocument
  <2>6. IndexFits(fresh, draft.root)
    <3> HIDE DEF document, draft
    <3> QED
      BY <2>4, <2>5, FreshIndexFits
  <2>7. \/ Done(draft, claims).type # "ok"
        \/ Done(draft, claims) = prepared
    <3> HIDE DEF document, draft, prepared
    <3>1. Done(draft, claims) = IF validateDocumentSnapshot(document) # "ok"
                                THEN errorResult("snapshot-invalid") ELSE prepared
      BY DEF hashMultiple, finishMultiple, document, draft, prepared
    <3> HIDE DEF Done
    <3> QED
      BY <3>1 DEF errorResult
  <2>8. d \in {c, stageDerived(c, options.headSnapshot, snapshot, fresh, hashed)}
    OBVIOUS
  <2>9. KernelExact(options, c, prepared)
    <3> HIDE DEF d, hashed, fresh, result
    <3> QED
      BY <2>3, <2>4, <2>6, <2>8, PreparedIsExact
  <2> HIDE DEF Done, prepared, draft
  <2>10. CASE Done(draft, claims).type # "ok"
    BY <2>10 DEF KernelExact, draft
  <2>11. CASE Done(draft, claims) = prepared
    BY <2>9, <2>11 DEF draft
  <2> QED
    BY <2>7, <2>10, <2>11
<1> HIDE DEF Done, result
<1> QED
  BY <1>1, <1>2, <1>3

\* The index of every entry of the object finds the nodes of the tree.
VerifiedFits(c, object, tree) ==
    object \in DOMAIN c.verified => IndexFits(c.verified[object].index, tree)

\* With or without an entry of the head, the kernel makes what the Operations say.
LEMMA KernelIsExact ==
    ASSUME NEW options, IsDocument(options.headSnapshot.document), NEW c,
           VerifiedFits(c, options.headSnapshot.object, options.headSnapshot.document.root),
           prepareKernelTransaction(options, c).type = "ok"
    PROVE  /\ KernelExact(options, c, prepareKernelTransaction(options, c))
           /\ IsOperations(options.request.json.operations)
           /\ Len(options.request.json.operations) \in Nat \ {0}
<1> DEFINE document == options.headSnapshot.document
           entry == getVerified(c, options.headSnapshot.object)
           index == readDocumentIndex(document, entry)
           request == options.request
           operations == request.json.operations
           map == positionMapOf(options, operations)
           r == prepareKernelTransaction(options, c)
<1>1. /\ decodeStrictTransactionV1(request) = "ok"
      /\ readSupportedOperations(operations) = "ok"
      /\ r = prepareOperations(options, c, index, entry, operations)
  <2> DEFINE decoded == decodeStrictTransactionV1(request)
             consistent == validateHeadConsistency(options)
             headed == IF entry # NoEntry THEN "ok" ELSE validateUncachedHead(document)
             preconditions == validatePreconditions(request.json.preconditions, document, index)
             supported == readSupportedOperations(operations)
             made == prepareOperations(options, c, index, entry, operations)
  <2>1. r = onVerdict(andThen(decoded, andThen(consistent, headed)),
                      onVerdict(andThen(preconditions, supported), made))
    BY DEF prepareKernelTransaction, prepareOnHead, prepareOnIndex
  <2>2. r.type = "ok"
    OBVIOUS
  <2> HIDE DEF r, decoded, consistent, headed, preconditions, supported, made
  <2>3. decoded = "ok" /\ supported = "ok" /\ r = made
    BY <2>1, <2>2 DEF onVerdict, andThen, errorResult
  <2> QED
    BY <2>3 DEF decoded, supported, made
<1>2. IsOperations(operations) /\ Len(operations) \in Nat \ {0}
  BY <1>1, OperationsAreDecoded
<1>3. IndexFits(index, document.root)
  <2>1. CASE entry = NoEntry
    <3>1. index = createDocumentIndexFromValidatedSnapshot(document)
      BY <2>1 DEF readDocumentIndex
    <3>2. IsTree(document.root)
      BY DEF IsDocument
    <3> HIDE DEF document, index
    <3> QED
      BY <3>1, <3>2, FreshIndexFits
  <2>2. CASE entry # NoEntry
    <3>1. /\ options.headSnapshot.object \in DOMAIN c.verified
          /\ entry = c.verified[options.headSnapshot.object]
      BY <2>2 DEF getVerified, isVerified
    <3>2. index = entry.index
      BY <2>2 DEF readDocumentIndex
    <3> HIDE DEF entry, index
    <3> QED
      BY <3>1, <3>2 DEF VerifiedFits
  <2> QED
    BY <2>1, <2>2
<1>4. KernelExact(options, c, r)
  <2> HIDE DEF r, entry, index, map
  <2>1. CASE Len(operations) > 1
    <3>1. r = prepareMultipleReplaceTextTransaction(options, c, index, operations, map)
      BY <1>1, <2>1 DEF prepareOperations, map
    <3> QED
      BY <1>2, <1>3, <3>1, MultipleIsExact
  <2>2. CASE ~ (Len(operations) > 1)
    <3>1. r = prepareReplaceTextTransaction(options, c, index, entry, operations[1], map)
      BY <1>1, <2>2 DEF prepareOperations, map
    <3>2. Len(operations) = 1
      <4>1. \A n \in Nat \ {0} : ~ (n > 1) => n = 1
        OBVIOUS
      <4> HIDE DEF operations
      <4> QED
        BY <1>2, <2>2, <4>1
    <3> QED
      BY <1>2, <1>3, <3>1, <3>2, SingleIsExact
  <2> QED
    BY <2>1, <2>2
<1> QED
  BY <1>2, <1>4

-----------------------------------------------------------------------------
(* The index that the cache trusts is the index of the head. *)

\* Nothing is staged, or verified, that was not made yet.
IsFresh(c, object) == object \notin DOMAIN c.verified /\ object \notin DOMAIN c.provisional

\* What is staged for a new object fits its tree, and what is verified stays.
LEMMA StagedFits ==
    ASSUME NEW options, NEW c, IsCache(c), NEW d, NEW tree, Stages(options, c, d, tree),
           IsFresh(c, options.object)
    PROVE  /\ d.verified = c.verified
           /\ DOMAIN d.provisional \subseteq DOMAIN c.provisional \cup {options.object}
           /\ options.object \in DOMAIN d.provisional =>
                 IndexFits(d.provisional[options.object].entry.index, tree)
<1> DEFINE source == options.headSnapshot.object
           object == options.object
<1>1. CASE d = c
  BY <1>1 DEF IsFresh
<1>2. ASSUME NEW entry, IsEntryOf(entry, object), IndexFits(entry.index, tree),
             d = cacheKernelDerived(c, source, entry)
      PROVE  /\ d.verified = c.verified
             /\ DOMAIN d.provisional \subseteq DOMAIN c.provisional \cup {object}
             /\ object \in DOMAIN d.provisional =>
                   IndexFits(d.provisional[object].entry.index, tree)
  <2>1. CASE ~ CanStage(c, source, object)
    <3>1. d = c
      BY <1>2, <2>1 DEF cacheKernelDerived, IsEntryOf
    <3> QED
      BY <3>1 DEF IsFresh
  <2>2. CASE CanStage(c, source, object)
    <3>1. /\ d.verified = c.verified
          /\ DOMAIN d.provisional =
                {s \in DOMAIN c.provisional : c.provisional[s].source # source} \cup {object}
          /\ d.provisional[object] = [source |-> source, entry |-> entry]
      BY <1>2, <2>2, CacheKernelDerived
    <3> QED
      BY <1>2, <3>1
  <2> QED
    BY <2>1, <2>2
<1> QED
  BY <1>1, <1>2 DEF Stages

\* The entry that becomes the head's is the one staged for it, or made of it.
LEMMA CommittedFits ==
    ASSUME NEW c, IsCache(c), NEW previous, NEW snapshot, Follows(c, previous.object),
           previous.object # snapshot.object, IsTree(snapshot.document.root),
           snapshot.object \in DOMAIN c.provisional =>
               IndexFits(c.provisional[snapshot.object].entry.index, snapshot.document.root)
    PROVE  LET d == activateCommittedSnapshotCache(c, previous, snapshot)
           IN  /\ VerifiedFits(d, snapshot.object, snapshot.document.root)
               /\ DOMAIN d.provisional \subseteq DOMAIN c.provisional
<1> DEFINE d == activateCommittedSnapshotCache(c, previous, snapshot)
           object == snapshot.object
           tree == snapshot.document.root
<1>1. CASE CanActivate(c, previous.object, object)
  <2> DEFINE entry == c.provisional[object].entry
             c1 == retireProvisional(c, object)
             c2 == installCache(c1, entry)
  <2>1. object \in DOMAIN c.provisional /\ IsEntryOf(entry, object)
    BY <1>1 DEF CanActivate, IsCache
  <2>2. d = retireVerified(c2, previous.object)
    BY <1>1 DEF activateCommittedSnapshotCache, activateKernelDerived
  <2>3. IndexFits(entry.index, tree)
    BY <2>1
  <2> HIDE DEF entry, d, c1, c2
  <2>4. Retires(c, c1, {object})
    BY RetireProvisional DEF c1
  <2>5. /\ Retires(c1, c2, GoesWith(c1, object))
        /\ c2.verified[object] = entry
    BY <2>1, <2>4, InstallCache DEF c2, Retires
  <2>6. /\ Retires(c2, d, GoesWith(c2, previous.object))
        /\ \A s \in DOMAIN d.verified : d.verified[s] = c2.verified[s]
    BY <2>2, <2>5, RetireVerified DEF Retires
  <2>7. DOMAIN d.provisional \subseteq DOMAIN c.provisional
    BY <2>4, <2>5, <2>6 DEF Retires
  <2>8. VerifiedFits(d, object, tree)
    BY <2>3, <2>5, <2>6 DEF VerifiedFits
  <2> QED
    BY <2>7, <2>8 DEF d
<1>2. CASE ~ CanActivate(c, previous.object, object)
  <2>1. CASE isCanonicalSnapshot(snapshot.document)
    <3> DEFINE entry == checkedEntry(snapshot)
               e == installCache(c, entry)
    <3>1. IsEntryOf(entry, object)
      BY CheckedEntryIsItsOwn
    <3>2. IndexFits(entry.index, tree)
      <4>1. entry.index = createDocumentIndexFromValidatedSnapshot(snapshot.document)
        BY DEF checkedEntry
      <4> QED
        BY <4>1, FreshIndexFits
    <3>3. object \notin DOMAIN c.verified
      BY DEF Follows
    <3>4. d = retireVerified(e, previous.object)
      <4>1. cacheVerifiedFrozen(c, entry) = e
        BY <3>1, <3>3 DEF cacheVerifiedFrozen, IsEntryOf
      <4> QED
        BY <1>2, <2>1, <4>1 DEF activateCommittedSnapshotCache, verifyCommittedSnapshot
    <3> HIDE DEF entry, d, e
    <3>5. /\ Retires(c, e, GoesWith(c, object))
          /\ e.verified[object] = entry
      BY <3>1, InstallCache DEF e
    <3>6. /\ Retires(e, d, GoesWith(e, previous.object))
          /\ \A s \in DOMAIN d.verified : d.verified[s] = e.verified[s]
      BY <3>4, <3>5, RetireVerified DEF Retires
    <3>7. DOMAIN d.provisional \subseteq DOMAIN c.provisional
      BY <3>5, <3>6 DEF Retires
    <3>8. VerifiedFits(d, object, tree)
      BY <3>2, <3>5, <3>6 DEF VerifiedFits
    <3> QED
      BY <3>7, <3>8 DEF d
  <2>2. CASE ~ isCanonicalSnapshot(snapshot.document)
    <3> DEFINE e == retireVerified(c, previous.object)
    <3>1. Retires(c, e, GoesWith(c, previous.object))
      BY RetireVerified
    <3>2. d = retireVerified(e, object)
      BY <1>2, <2>2 DEF activateCommittedSnapshotCache, verifyCommittedSnapshot
    <3> HIDE DEF e, d
    <3>3. /\ Retires(e, d, GoesWith(e, object))
          /\ DOMAIN d.verified = DOMAIN e.verified \ {object}
      BY <3>1, <3>2, RetireVerified DEF Retires
    <3>4. VerifiedFits(d, object, tree) /\ DOMAIN d.provisional \subseteq DOMAIN c.provisional
      BY <3>1, <3>3 DEF Retires, VerifiedFits
    <3> QED
      BY <3>4 DEF d
  <2> QED
    BY <2>1, <2>2
<1> QED
  BY <1>1, <1>2

-----------------------------------------------------------------------------
(* The texts that the Operations make, as the property keeps them. *)

\* The units of a text whose parts are known.
LEMMA UnitsOfSplice ==
    ASSUME NEW text, isString(text), NEW inserted, isString(inserted),
           NEW start \in 0 .. Len(text), NEW end \in start .. Len(text)
    PROVE  /\ isString(Splice(text, start, end, inserted))
           /\ Units(Splice(text, start, end, inserted)) =
                Splice(Units(text), start, end, Units(inserted))
<1> DEFINE n == Len(text)
           r == Len(inserted)
           spliced == Splice(text, start, end, inserted)
           f == Units(text)
           g == Units(inserted)
           units == Splice(f, start, end, g)
           S == Range(text) \cup Range(inserted)
           U == Range(f) \cup Range(g)
           m == (n - (end - start)) + r
<1>1. n \in Nat /\ r \in Nat /\ start \in Nat /\ end \in Nat /\ start <= end /\ end <= n
  BY LenProperties DEF isString
<1>2. text \in Seq(S) /\ inserted \in Seq(S)
  BY SeqMonotonic DEF isString
<1>3. DOMAIN text = 1 .. n /\ DOMAIN inserted = 1 .. r
  BY LenProperties DEF isString
<1>5. f = [i \in 1 .. n |-> text[i].unit] /\ g = [i \in 1 .. r |-> inserted[i].unit]
  BY <1>3 DEF Units
<1>13. isString(spliced)
  BY SplicedString
<1> HIDE DEF S, U, f, g, spliced
<1>4. IsSpliced(spliced, S, text, start, end, inserted)
  BY <1>2, SpliceProperties DEF spliced
<1>6. f \in Seq(Range(f)) /\ Len(f) = n /\ g \in Seq(Range(g)) /\ Len(g) = r
  <2>1. f = [i \in 1 .. n |-> f[i]] /\ g = [i \in 1 .. r |-> g[i]]
    BY <1>5
  <2> HIDE DEF n, r
  <2> QED
    BY <1>1, <2>1, LenOfFunction
<1>7. f \in Seq(U) /\ g \in Seq(U)
  BY <1>6, SeqMonotonic DEF U
<1>8. IsSpliced(units, U, f, start, end, g)
  <2>1. start \in 0 .. Len(f) /\ end \in start .. Len(f)
    BY <1>6
  <2> QED
    BY <1>7, <2>1, SpliceProperties
<1> HIDE DEF units
<1>9. m \in Nat /\ DOMAIN spliced = 1 .. m /\ DOMAIN units = 1 .. m
  <2>1. spliced \in Seq(S) /\ Len(spliced) = m /\ units \in Seq(U) /\ Len(units) = m
    BY <1>4, <1>6, <1>8 DEF IsSpliced
  <2> QED
    BY <2>1, LenProperties
<1>10. ASSUME NEW i \in 1 .. m
       PROVE  spliced[i].unit = units[i]
  <2>1. CASE i <= start
    <3>1. i \in 1 .. start /\ i \in 1 .. n
      BY <1>1, <2>1
    <3>2. spliced[i] = text[i] /\ units[i] = f[i]
      BY <1>4, <1>8, <3>1 DEF IsSpliced
    <3> QED
      BY <1>5, <3>1, <3>2
  <2>2. CASE ~ (i <= start) /\ i <= start + r
    <3> DEFINE k == i - start
    <3>1. k \in 1 .. r /\ start + k = i
      BY <1>1, <2>2
    <3> HIDE DEF k
    <3>2. spliced[i] = inserted[k] /\ units[i] = g[k]
      BY <1>4, <1>6, <1>8, <3>1 DEF IsSpliced
    <3> QED
      BY <1>5, <3>1, <3>2
  <2>3. CASE ~ (i <= start) /\ ~ (i <= start + r)
    <3> DEFINE k == (i - r) + (end - start)
    <3>1. k \in end + 1 .. n /\ (k - (end - start)) + r = i /\ k \in 1 .. n
      BY <1>1, <2>3
    <3> HIDE DEF k
    <3>2. spliced[i] = text[k] /\ units[i] = f[k]
      BY <1>4, <1>6, <1>8, <3>1 DEF IsSpliced
    <3> QED
      BY <1>5, <3>1, <3>2
  <2> QED
    BY <2>1, <2>2, <2>3
<1>11. Units(spliced) = [i \in 1 .. m |-> units[i]]
  BY <1>9, <1>10 DEF Units
<1>12. units = [i \in 1 .. m |-> units[i]]
  <2>1. units \in Seq(U)
    BY <1>8 DEF IsSpliced
  <2>2. units = [i \in DOMAIN units |-> units[i]]
    BY <2>1
  <2> QED
    BY <1>9, <2>2
<1> QED
  BY <1>11, <1>12, <1>13 DEF spliced, units, f, g

\* The texts of a tree, as seen from the tree it was made of.
TextsAre(tree, next, texts) ==
    /\ IsTree(next)
    /\ DOMAIN next = DOMAIN tree
    /\ texts = [id \in DOMAIN texts |-> texts[id]]
    /\ \A p \in DOMAIN tree :
          IF tree[p].type = "text"
          THEN /\ tree[p].id \in DOMAIN texts
               /\ isString(texts[tree[p].id])
               /\ Alike(next[p], [tree[p] EXCEPT !.value = Units(texts[tree[p].id])])
          ELSE Alike(next[p], tree[p])

\* The texts of a tree are its own at first.
LEMMA OriginalTexts ==
    ASSUME NEW document, IsTree(document.root)
    PROVE  TextsAre(document.root, document.root, Original(document))
<1> DEFINE tree == document.root
           texts == Original(document)
           Tagged(value, id) ==
              [i \in DOMAIN value |-> [unit |-> value[i], by |-> <<id, 0, 0>>, i |-> i]]
<1>1. ASSUME NEW p \in DOMAIN tree
      PROVE  placeOf(tree, tree[p].id) = p
  BY DEF placeOf, IsTree
<1>2. texts = [id \in {tree[p].id : p \in {q \in DOMAIN tree : tree[q].type = "text"}} |->
                  Tagged(tree[placeOf(tree, id)].value, id)]
  BY DEF Original
<1> HIDE DEF texts, Tagged
<1>3. ASSUME NEW p \in DOMAIN tree, tree[p].type = "text"
      PROVE  /\ tree[p].id \in DOMAIN texts
             /\ texts[tree[p].id] = Tagged(tree[p].value, tree[p].id)
  BY <1>1, <1>2, <1>3
<1>4. ASSUME NEW p \in DOMAIN tree, tree[p].type = "text"
      PROVE  /\ isString(texts[tree[p].id])
             /\ Units(texts[tree[p].id]) = tree[p].value
  <2> DEFINE value == tree[p].value
             text == texts[tree[p].id]
  <2>1. isString(value)
    BY <1>4 DEF IsTree, IsNode
  <2>2. /\ Len(value) \in Nat /\ DOMAIN value = 1 .. Len(value)
        /\ value = [i \in 1 .. Len(value) |-> value[i]]
    BY <2>1, LenProperties DEF isString
  <2>3. text = Tagged(value, tree[p].id)
    BY <1>3, <1>4
  <2> HIDE DEF value, text
  <2>4. /\ text = [i \in 1 .. Len(value) |-> text[i]]
        /\ \A i \in 1 .. Len(value) : text[i].unit = value[i]
    BY <2>2, <2>3 DEF Tagged
  <2>5. isString(text)
    BY <2>2, <2>4, LenOfFunction DEF isString
  <2>6. DOMAIN text = 1 .. Len(value)
    BY <2>4
  <2>7. Units(text) = [i \in 1 .. Len(value) |-> value[i]]
    BY <2>4, <2>6 DEF Units
  <2> QED
    BY <2>2, <2>5, <2>7 DEF value, text
<1>5. \A p \in DOMAIN tree : Alike(tree[p], tree[p])
  BY DEF Alike
<1>6. ASSUME NEW p \in DOMAIN tree, tree[p].type = "text"
      PROVE  Alike(tree[p], [tree[p] EXCEPT !.value = Units(texts[tree[p].id])])
  <2>1. IsNode(tree[p]) /\ Units(texts[tree[p].id]) = tree[p].value
    BY <1>4, <1>6 DEF IsTree
  <2>2. [tree[p] EXCEPT !.value = tree[p].value] = tree[p]
    BY <1>6, <2>1 DEF IsNode
  <2> QED
    BY <1>5, <2>1, <2>2
<1>7. texts = [id \in DOMAIN texts |-> texts[id]]
  BY <1>2
<1>8. TextsAre(tree, tree, texts)
  BY <1>3, <1>4, <1>5, <1>6, <1>7 DEF TextsAre
<1> QED
  BY <1>8 DEF texts

\* What one Operation does to the tree and to the texts.
LEMMA EditFollowsTheTree ==
    ASSUME NEW tree, IsTree(tree), NEW next, NEW texts, TextsAre(tree, next, texts),
           NEW operation, NEW after, Replaces(next, after, operation),
           NEW inserted, isString(inserted), Units(inserted) = operation.replacement
    PROVE  TextsAre(tree, after,
                    [texts EXCEPT ![operation.textNodeId] =
                        Splice(@, operation.startUtf16Offset, operation.endUtf16Offset, inserted)])
<1> DEFINE id == operation.textNodeId
           start == operation.startUtf16Offset
           end == operation.endUtf16Offset
           edited == [texts EXCEPT ![id] = Splice(texts[id], start, end, inserted)]
<1>1. /\ IsTree(next) /\ DOMAIN next = DOMAIN tree
      /\ IsTree(after) /\ DOMAIN after = DOMAIN tree
  BY DEF TextsAre, Replaces
<1>2. \A p \in DOMAIN tree : IsNode(tree[p]) /\ IsNode(next[p]) /\ IsNode(after[p])
  BY <1>1 DEF IsTree
<1>3. ASSUME NEW p \in DOMAIN tree
      PROVE  next[p].id = tree[p].id /\ next[p].type = tree[p].type
  <2>1. {"id", "type"} \subseteq DOMAIN tree[p]
    BY <1>2 DEF IsNode
  <2>2. CASE tree[p].type = "text"
    <3>1. Alike(next[p], [tree[p] EXCEPT !.value = Units(texts[tree[p].id])])
      BY <2>2 DEF TextsAre
    <3> QED
      BY <2>1, <3>1 DEF Alike
  <2>3. CASE tree[p].type # "text"
    <3>1. Alike(next[p], tree[p])
      BY <2>3 DEF TextsAre
    <3> QED
      BY <2>1, <3>1 DEF Alike
  <2> QED
    BY <2>2, <2>3
<1>4. /\ DOMAIN edited = DOMAIN texts
      /\ edited = [x \in DOMAIN edited |-> edited[x]]
      /\ \A x \in DOMAIN texts : x # id => edited[x] = texts[x]
      /\ id \in DOMAIN texts => edited[id] = Splice(texts[id], start, end, inserted)
  BY DEF TextsAre
<1> HIDE DEF edited
<1>5. ASSUME NEW p \in DOMAIN tree, tree[p].type = "text", tree[p].id # id
      PROVE  /\ tree[p].id \in DOMAIN edited
             /\ isString(edited[tree[p].id])
             /\ Alike(after[p], [tree[p] EXCEPT !.value = Units(edited[tree[p].id])])
  <2>1. /\ tree[p].id \in DOMAIN texts
        /\ isString(texts[tree[p].id])
        /\ Alike(next[p], [tree[p] EXCEPT !.value = Units(texts[tree[p].id])])
    BY <1>5 DEF TextsAre
  <2>2. Alike(after[p], next[p])
    BY <1>1, <1>3, <1>5 DEF Replaces
  <2>3. edited[tree[p].id] = texts[tree[p].id]
    BY <1>4, <1>5, <2>1
  <2> QED
    BY <1>4, <2>1, <2>2, <2>3 DEF Alike
<1>6. ASSUME NEW p \in DOMAIN tree, tree[p].type = "text", tree[p].id = id
      PROVE  /\ tree[p].id \in DOMAIN edited
             /\ isString(edited[tree[p].id])
             /\ Alike(after[p], [tree[p] EXCEPT !.value = Units(edited[tree[p].id])])
  <2> DEFINE text == texts[id]
  <2>1. /\ id \in DOMAIN texts
        /\ isString(text)
        /\ Alike(next[p], [tree[p] EXCEPT !.value = Units(text)])
    BY <1>6 DEF TextsAre
  <2>2. "value" \in DOMAIN tree[p]
    BY <1>2, <1>6 DEF IsNode
  <2>3. next[p].value = Units(text)
    BY <2>1, <2>2 DEF Alike
  <2>4. /\ start \in 0 .. Len(next[p].value) /\ end \in start .. Len(next[p].value)
        /\ Alike(after[p], [next[p] EXCEPT !.value =
                                Splice(next[p].value, start, end, operation.replacement)])
    BY <1>1, <1>3, <1>6 DEF Replaces
  <2>5. Len(Units(text)) = Len(text)
    <3>1. Len(text) \in Nat /\ DOMAIN text = 1 .. Len(text)
      BY <2>1, LenProperties DEF isString
    <3> DEFINE units == Units(text)
    <3>2. units = [i \in 1 .. Len(text) |-> units[i]]
      BY <3>1 DEF Units
    <3> HIDE DEF units, text
    <3>3. Len(units) = Len(text)
      BY <3>1, <3>2, LenOfFunction
    <3> QED
      BY <3>3 DEF units
  <2> HIDE DEF text
  <2>6. start \in 0 .. Len(text) /\ end \in start .. Len(text)
    BY <2>3, <2>4, <2>5
  <2>7. /\ isString(Splice(text, start, end, inserted))
        /\ Units(Splice(text, start, end, inserted)) =
                Splice(Units(text), start, end, Units(inserted))
    BY <2>1, <2>6, UnitsOfSplice
  <2>8. edited[id] = Splice(text, start, end, inserted)
    BY <1>4, <2>1 DEF text
  <2>9. Units(edited[id]) = Splice(next[p].value, start, end, operation.replacement)
    BY <2>3, <2>7, <2>8
  <2> HIDE DEF start, end, id
  <2>10. Alike(after[p], [next[p] EXCEPT !.value = Units(edited[id])])
    BY <2>4, <2>9
  <2>11. Alike(after[p], [tree[p] EXCEPT !.value = Units(edited[id])])
    <3> DEFINE new == Units(edited[id])
    <3>1. Alike(after[p], [next[p] EXCEPT !.value = new])
      BY <2>10
    <3> HIDE DEF new
    <3>2. /\ DOMAIN next[p] = DOMAIN tree[p]
          /\ \A key \in DOMAIN tree[p] \ {"stamp", "value"} : next[p][key] = tree[p][key]
      BY <2>1 DEF Alike
    <3>3. Alike(after[p], [tree[p] EXCEPT !.value = new])
      BY <3>1, <3>2, <2>2 DEF Alike
    <3> QED
      BY <3>3 DEF new
  <2> QED
    BY <1>4, <1>6, <2>1, <2>7, <2>8, <2>11
<1>7. ASSUME NEW p \in DOMAIN tree, tree[p].type # "text"
      PROVE  Alike(after[p], tree[p])
  <2>1. Alike(next[p], tree[p])
    BY <1>7 DEF TextsAre
  <2>2. Alike(after[p], next[p])
    BY <1>1, <1>3, <1>7 DEF Replaces
  <2> QED
    BY <2>1, <2>2 DEF Alike
<1> USE DEF edited
<1>8. edited = [texts EXCEPT ![operation.textNodeId] =
                    Splice(@, operation.startUtf16Offset, operation.endUtf16Offset, inserted)]
  OBVIOUS
<1> HIDE DEF edited
<1>9. TextsAre(tree, after, edited)
  BY <1>1, <1>4, <1>5, <1>6, <1>7 DEF TextsAre
<1> QED
  BY <1>8, <1>9

\* The tagged units that an Operation inserts.
Insertion(operation, c, k) ==
    [i \in DOMAIN operation.replacement |->
        [unit |-> operation.replacement[i], by |-> <<operation.textNodeId, c, k>>, i |-> i]]

\* The texts after one Operation.
EditedBy(texts, operation, c, k) ==
    [texts EXCEPT ![operation.textNodeId] =
        Splice(@, operation.startUtf16Offset, operation.endUtf16Offset, Insertion(operation, c, k))]

\* The texts that the Operations leave, one after the other.
EditsAre(text, texts, c, operations) ==
    /\ text[0] = texts
    /\ \A k \in 1 .. Len(operations) : text[k] = EditedBy(text[k - 1], operations[k], c, k)
    /\ Edited(texts, c, operations) = text[Len(operations)]

\* The texts after the Operations are made one after the other.
LEMMA EditedInOrder ==
    ASSUME NEW texts, NEW c, NEW S, NEW operations \in Seq(S)
    PROVE  \E text : EditsAre(text, texts, c, operations)
<1> DEFINE N == Len(operations)
           First == texts
           Step(f, k) == IF k = 0 THEN First ELSE EditedBy(f[k - 1], operations[k], c, k)
           Reached == {n \in 0 .. N : \E f : f = [i \in 0 .. n |-> Step(f, i)]}
<1>1. N \in Nat
  BY LenProperties
<1>2. 0 \in Reached
  <2> DEFINE f == [i \in 0 .. 0 |-> First]
  <2>1. f = [i \in 0 .. 0 |-> Step(f, i)]
    BY <1>1
  <2>2. 0 \in 0 .. N
    BY <1>1
  <2> HIDE DEF f, Step, N
  <2> QED
    BY <2>1, <2>2
<1>3. ASSUME NEW n \in 0 .. N - 1, n \in Reached
      PROVE  n + 1 \in Reached
  <2>1. PICK f : f = [i \in 0 .. n |-> Step(f, i)]
    BY <1>3
  <2> DEFINE g == [i \in 0 .. n + 1 |-> IF i <= n THEN f[i] ELSE Step(f, i)]
  <2>2. ASSUME NEW i \in 0 .. n + 1
        PROVE  g[i] = Step(g, i)
    <3>1. CASE i = 0
      <4>1. f[0] = Step(f, 0)
        BY <1>1, <2>1
      <4> QED
        BY <1>1, <3>1, <4>1
    <3>2. CASE i # 0
      <4>1. i - 1 \in 0 .. n
        BY <1>1, <3>2
      <4>2. g[i - 1] = f[i - 1]
        BY <1>1, <4>1
      <4>3. Step(g, i) = Step(f, i)
        <5> HIDE DEF g
        <5> QED
          BY <3>2, <4>2
      <4>4. CASE i <= n
        <5>1. i \in 0 .. n
          BY <1>1, <4>4
        <5>2. f[i] = Step(f, i)
          BY <2>1, <5>1
        <5> HIDE DEF Step
        <5> QED
          BY <4>3, <4>4, <5>2
      <4>5. CASE ~ (i <= n)
        <5> HIDE DEF Step
        <5> QED
          BY <4>3, <4>5
      <4> QED
        BY <4>4, <4>5
    <3> QED
      BY <3>1, <3>2
  <2>3. g = [i \in 0 .. n + 1 |-> Step(g, i)]
    <3> HIDE DEF Step
    <3> QED
      BY <2>2
  <2>4. n + 1 \in 0 .. N
    BY <1>1
  <2> HIDE DEF g, Step, N
  <2> QED
    BY <2>3, <2>4
<1>4. N \in Reached
  <2> HIDE DEF Reached
  <2>1. \A n \in 0 .. N : n \in Reached
    BY <1>1, <1>2, <1>3, InductionUpTo
  <2> QED
    BY <1>1, <2>1
<1> DEFINE text == CHOOSE f : f = [k \in 0 .. N |-> Step(f, k)]
<1>5. text = [k \in 0 .. N |-> Step(text, k)]
  <2> HIDE DEF Step
  <2> QED
    BY <1>4
<1>6. Edited(texts, c, operations) = text[N]
  BY DEF Edited, EditedBy, Insertion
<1> HIDE DEF text
<1>7. text[0] = texts
  BY <1>1, <1>5
<1>8. \A k \in 1 .. N : text[k] = EditedBy(text[k - 1], operations[k], c, k)
  BY <1>1, <1>5
<1>9. EditsAre(text, texts, c, operations)
  BY <1>6, <1>7, <1>8 DEF EditsAre
<1> QED
  BY <1>9

\* The texts of a Revision are made one Revision after the other.
LEMMA TextsInOrder ==
    ASSUME NEW from \in Nat, NEW to \in Nat, from <= to
    PROVE  \E text :
              /\ text[from] = Original(history[from].snapshot.document)
              /\ \A c \in from + 1 .. to :
                    text[c] = Edited(text[c - 1], c, history[c].replayInput.json.operations)
              /\ Texts(from, to) = text[to]
<1> DEFINE N == to - from
           L == from
           First == Original(history[from].snapshot.document)
           Step(f, c) == IF c = from
                         THEN First
                         ELSE Edited(f[c - 1], c, history[c].replayInput.json.operations)
           Reached == {n \in 0 .. N : \E f : f = [i \in L .. L + n |-> Step(f, i)]}
<1>1. N \in Nat /\ L \in Nat /\ L + N = to
  OBVIOUS
<1>2. 0 \in Reached
  <2> DEFINE f == [i \in L .. L |-> First]
  <2>1. f = [i \in L .. L + 0 |-> Step(f, i)]
    BY <1>1
  <2>2. 0 \in 0 .. N
    BY <1>1
  <2> HIDE DEF f, Step, N, L
  <2> QED
    BY <2>1, <2>2
<1>3. ASSUME NEW n \in 0 .. N - 1, n \in Reached
      PROVE  n + 1 \in Reached
  <2>1. PICK f : f = [i \in L .. L + n |-> Step(f, i)]
    BY <1>3
  <2> DEFINE g == [i \in L .. L + (n + 1) |-> IF i <= L + n THEN f[i] ELSE Step(f, i)]
  <2>2. ASSUME NEW i \in L .. L + (n + 1)
        PROVE  g[i] = Step(g, i)
    <3>1. CASE i = L
      <4>1. f[L] = Step(f, L)
        BY <1>1, <2>1
      <4> QED
        BY <1>1, <3>1, <4>1
    <3>2. CASE i # L
      <4>1. i - 1 \in L .. L + n
        BY <1>1, <3>2
      <4>2. g[i - 1] = f[i - 1]
        BY <1>1, <4>1
      <4>3. Step(g, i) = Step(f, i)
        <5> HIDE DEF g
        <5> QED
          BY <3>2, <4>2
      <4>4. CASE i <= L + n
        <5>1. i \in L .. L + n
          BY <1>1, <4>4
        <5>2. f[i] = Step(f, i)
          BY <2>1, <5>1
        <5> HIDE DEF Step
        <5> QED
          BY <4>3, <4>4, <5>2
      <4>5. CASE ~ (i <= L + n)
        <5> HIDE DEF Step
        <5> QED
          BY <4>3, <4>5
      <4> QED
        BY <4>4, <4>5
    <3> QED
      BY <3>1, <3>2
  <2>3. g = [i \in L .. L + (n + 1) |-> Step(g, i)]
    <3> HIDE DEF Step
    <3> QED
      BY <2>2
  <2>4. n + 1 \in 0 .. N
    BY <1>1
  <2> HIDE DEF g, Step, N, L
  <2> QED
    BY <2>3, <2>4
<1>4. N \in Reached
  <2> HIDE DEF Reached
  <2>1. \A n \in 0 .. N : n \in Reached
    BY <1>1, <1>2, <1>3, InductionUpTo
  <2> QED
    BY <1>1, <2>1
<1> DEFINE text == CHOOSE f : f = [c \in from .. to |-> Step(f, c)]
<1>5. text = [c \in from .. to |-> Step(text, c)]
  <2>1. PICK f : f = [i \in L .. L + N |-> Step(f, i)]
    BY <1>4
  <2>2. f = [c \in from .. to |-> Step(f, c)]
    <3> HIDE DEF Step
    <3> QED
      BY <1>1, <2>1
  <2> HIDE DEF Step
  <2> QED
    BY <2>2
<1>6. Texts(from, to) = text[to]
  BY DEF Texts
<1> HIDE DEF text
<1>7. text[from] = Original(history[from].snapshot.document)
  BY <1>1, <1>5
<1>8. \A c \in from + 1 .. to :
        text[c] = Edited(text[c - 1], c, history[c].replayInput.json.operations)
  BY <1>1, <1>5
<1> QED
  BY <1>6, <1>7, <1>8

\* What an Operation inserts is a string of the units of its replacement.
LEMMA InsertionIsString ==
    ASSUME NEW operation, isString(operation.replacement), NEW c, NEW k
    PROVE  /\ isString(Insertion(operation, c, k))
           /\ Units(Insertion(operation, c, k)) = operation.replacement
<1> DEFINE value == operation.replacement
           text == Insertion(operation, c, k)
<1>1. /\ Len(value) \in Nat /\ DOMAIN value = 1 .. Len(value)
      /\ value = [i \in 1 .. Len(value) |-> value[i]]
  BY LenProperties DEF isString
<1>2. /\ text = [i \in DOMAIN value |-> text[i]]
      /\ \A i \in DOMAIN value : text[i].unit = value[i]
  BY DEF Insertion
<1> HIDE DEF value, text
<1>3. text = [i \in 1 .. Len(value) |-> text[i]]
  BY <1>1, <1>2
<1>4. isString(text)
  BY <1>1, <1>3, LenOfFunction DEF isString
<1>5. DOMAIN text = DOMAIN value
  BY <1>2
<1>6. Units(text) = [i \in DOMAIN value |-> value[i]]
  BY <1>2, <1>5 DEF Units
<1> QED
  BY <1>1, <1>4, <1>6 DEF value, text

\* The texts of the next Revision are those of this one, edited.
LEMMA TextsFollowTheChain ==
    ASSUME NEW tree, IsTree(tree), NEW next, NEW operations, IsOperations(operations),
           NEW first, NEW texts, TextsAre(tree, first, texts), NEW c,
           Chain(first, next, operations)
    PROVE  TextsAre(tree, next, Edited(texts, c, operations))
<1> DEFINE N == Len(operations)
<1>1. N \in Nat /\ operations \in Seq(Range(operations))
  BY LenProperties DEF IsOperations
<1>2. PICK trees :
        /\ trees[0] = first
        /\ trees[N] = next
        /\ \A n \in 1 .. N : Replaces(trees[n - 1], trees[n], operations[n])
  BY DEF Chain
<1>3. PICK text : EditsAre(text, texts, c, operations)
  <2> DEFINE S == Range(operations)
  <2>1. operations \in Seq(S)
    BY <1>1
  <2> HIDE DEF S
  <2> QED
    BY <2>1, EditedInOrder
<1> DEFINE Done == {n \in 0 .. N : TextsAre(tree, trees[n], text[n])}
<1>4. 0 \in Done
  <2> HIDE DEF N
  <2> QED
    BY <1>1, <1>2, <1>3 DEF EditsAre
<1>5. ASSUME NEW n \in 0 .. N - 1, n \in Done
      PROVE  n + 1 \in Done
  <2> DEFINE operation == operations[n + 1]
             inserted == Insertion(operation, c, n + 1)
  <2>1. n + 1 \in 0 .. N /\ n + 1 \in 1 .. N /\ (n + 1) - 1 = n
    BY <1>1
  <2>2. Replaces(trees[n], trees[n + 1], operation)
    BY <1>2, <2>1
  <2>3. text[n + 1] = EditedBy(text[n], operation, c, n + 1)
    BY <1>3, <2>1 DEF EditsAre
  <2>4. isString(operation.replacement)
    BY <2>1 DEF IsOperations
  <2>5. isString(inserted) /\ Units(inserted) = operation.replacement
    <3> HIDE DEF operation
    <3> QED
      BY <2>4, InsertionIsString
  <2>6. text[n + 1] = [text[n] EXCEPT ![operation.textNodeId] =
                          Splice(@, operation.startUtf16Offset, operation.endUtf16Offset, inserted)]
    BY <2>3 DEF EditedBy
  <2> HIDE DEF operation, inserted, N
  <2>7. TextsAre(tree, trees[n + 1], text[n + 1])
    BY <1>5, <2>2, <2>5, <2>6, EditFollowsTheTree
  <2> QED
    BY <2>1, <2>7
<1>6. N \in Done
  <2> HIDE DEF Done
  <2>1. \A n \in 0 .. N : n \in Done
    BY <1>1, <1>4, <1>5, InductionUpTo
  <2> QED
    BY <1>1, <2>1
<1> QED
  BY <1>2, <1>3, <1>6 DEF EditsAre

\* Such a tree, and the rest of the document, are what the property asks for.
LEMMA DerivedIsExact ==
    ASSUME NEW document, IsDocument(document), NEW next, IsDocument(next),
           HasTheRestOf(document, next), NEW texts, TextsAre(document.root, next.root, texts)
    PROVE  LET before == canonicalValue(document)
               after == canonicalValue(next)
               Expected(node) ==
                   IF node.type = "text" THEN [node EXCEPT !.value = Units(texts[node.id])] ELSE node
           IN  /\ after.root = [p \in DOMAIN before.root |-> Expected(before.root[p])]
               /\ [after EXCEPT !.root = before.root, !.revisionId = before.revisionId,
                                !.documentHash = before.documentHash,
                                !.academicGraph.claims = before.academicGraph.claims] = before
<1> DEFINE before == canonicalValue(document)
           after == canonicalValue(next)
           Expected(node) ==
               IF node.type = "text" THEN [node EXCEPT !.value = Units(texts[node.id])] ELSE node
           Bare(node) == [key \in DOMAIN node \ {"stamp"} |-> node[key]]
<1>1. ASSUME NEW d, IsDocument(d)
      PROVE  /\ canonicalValue(d).root = [p \in DOMAIN d.root |-> Bare(d.root[p])]
             /\ DOMAIN canonicalValue(d) = DOMAIN d
             /\ canonicalValue(d) = [key \in DOMAIN d |-> canonicalValue(d)[key]]
             /\ \A key \in DOMAIN d \ {"root", "academicGraph"} : canonicalValue(d)[key] = d[key]
             /\ DOMAIN canonicalValue(d).academicGraph = DOMAIN d.academicGraph
             /\ canonicalValue(d).academicGraph =
                  [key \in DOMAIN d.academicGraph |-> canonicalValue(d).academicGraph[key]]
             /\ \A key \in DOMAIN d.academicGraph \ {"claims"} :
                  canonicalValue(d).academicGraph[key] = d.academicGraph[key]
  <2> DEFINE root == WithoutStamps(d.root)
             claims == WithoutStamps(d.academicGraph.claims)
             graph == [d.academicGraph EXCEPT !.claims = claims]
  <2>1. canonicalValue(d) = [d EXCEPT !.root = root, !.academicGraph = graph]
    BY <1>1 DEF canonicalValue, IsDocument
  <2>2. root = [p \in DOMAIN d.root |-> Bare(d.root[p])]
    BY DEF WithoutStamps
  <2> HIDE DEF root, claims, Bare
  <2>3. /\ DOMAIN graph = DOMAIN d.academicGraph
        /\ graph = [key \in DOMAIN d.academicGraph |-> graph[key]]
        /\ \A key \in DOMAIN d.academicGraph \ {"claims"} : graph[key] = d.academicGraph[key]
    BY <1>1 DEF IsDocument
  <2> HIDE DEF graph
  <2>4. /\ canonicalValue(d).root = root
        /\ canonicalValue(d).academicGraph = graph
        /\ DOMAIN canonicalValue(d) = DOMAIN d
        /\ canonicalValue(d) = [key \in DOMAIN d |-> canonicalValue(d)[key]]
        /\ \A key \in DOMAIN d \ {"root", "academicGraph"} : canonicalValue(d)[key] = d[key]
    BY <1>1, <2>1 DEF IsDocument
  <2> QED
    BY <2>2, <2>3, <2>4
<1>2. after.root = [p \in DOMAIN before.root |-> Expected(before.root[p])]
  <2>1. /\ before.root = [p \in DOMAIN document.root |-> Bare(document.root[p])]
        /\ after.root = [p \in DOMAIN next.root |-> Bare(next.root[p])]
    BY <1>1
  <2>2. DOMAIN next.root = DOMAIN document.root
    BY DEF TextsAre
  <2>3. ASSUME NEW p \in DOMAIN document.root
        PROVE  Bare(next.root[p]) = Expected(Bare(document.root[p]))
    <3> DEFINE node == document.root[p]
               new == next.root[p]
    <3>1. IsNode(node)
      BY DEF IsDocument, IsTree
    <3>2. /\ DOMAIN Bare(node) = DOMAIN node \ {"stamp"}
          /\ \A key \in DOMAIN node \ {"stamp"} : Bare(node)[key] = node[key]
          /\ Bare(node).type = node.type /\ Bare(node).id = node.id
      BY <3>1 DEF IsNode
    <3>3. CASE node.type = "text"
      <4> DEFINE value == Units(texts[node.id])
      <4>1. Alike(new, [node EXCEPT !.value = value])
        BY <3>3 DEF TextsAre
      <4>2. "value" \in DOMAIN node
        BY <3>1, <3>3 DEF IsNode
      <4>3. Expected(Bare(node)) = [Bare(node) EXCEPT !.value = value]
        BY <3>2, <3>3
      <4> HIDE DEF value, node, new
      <4>4. /\ DOMAIN new = DOMAIN node
            /\ \A key \in DOMAIN node \ {"stamp"} :
                  new[key] = IF key = "value" THEN value ELSE node[key]
        BY <4>1, <4>2 DEF Alike
      <4>5. Bare(new) = [key \in DOMAIN node \ {"stamp"} |->
                            IF key = "value" THEN value ELSE node[key]]
        BY <4>4
      <4>6. [Bare(node) EXCEPT !.value = value] =
            [key \in DOMAIN node \ {"stamp"} |-> IF key = "value" THEN value ELSE node[key]]
        BY <3>2
      <4> HIDE DEF Expected, Bare
      <4> QED
        BY <4>3, <4>5, <4>6 DEF node, new
    <3>4. CASE node.type # "text"
      <4>1. Alike(new, node)
        BY <3>4 DEF TextsAre
      <4>2. Expected(Bare(node)) = Bare(node)
        BY <3>2, <3>4
      <4> HIDE DEF node, new
      <4>3. Bare(new) = Bare(node)
        BY <4>1 DEF Alike
      <4> HIDE DEF Expected, Bare
      <4> QED
        BY <4>2, <4>3 DEF node, new
    <3> QED
      BY <3>3, <3>4
  <2> HIDE DEF Expected, Bare, before, after
  <2> QED
    BY <2>1, <2>2, <2>3
<1>3. [after EXCEPT !.root = before.root, !.revisionId = before.revisionId,
                    !.documentHash = before.documentHash,
                    !.academicGraph.claims = before.academicGraph.claims] = before
  <2> DEFINE graph == [after.academicGraph EXCEPT !.claims = before.academicGraph.claims]
  <2>1. /\ DOMAIN after = DOMAIN before
        /\ before = [key \in DOMAIN before |-> before[key]]
        /\ after = [key \in DOMAIN before |-> after[key]]
        /\ {"revisionId", "documentHash", "root", "academicGraph"} \subseteq DOMAIN before
        /\ \A key \in DOMAIN before \ {"revisionId", "documentHash", "root", "academicGraph"} :
              after[key] = before[key]
    <3> HIDE DEF before, after
    <3>1. /\ DOMAIN before = DOMAIN document /\ DOMAIN after = DOMAIN next
          /\ before = [key \in DOMAIN document |-> before[key]]
          /\ after = [key \in DOMAIN next |-> after[key]]
          /\ \A key \in DOMAIN document \ {"root", "academicGraph"} : before[key] = document[key]
          /\ \A key \in DOMAIN next \ {"root", "academicGraph"} : after[key] = next[key]
      BY <1>1 DEF before, after
    <3> QED
      BY <3>1 DEF HasTheRestOf, IsDocument
  <2>2. /\ DOMAIN after.academicGraph = DOMAIN before.academicGraph
        /\ before.academicGraph =
                [key \in DOMAIN before.academicGraph |-> before.academicGraph[key]]
        /\ after.academicGraph = [key \in DOMAIN before.academicGraph |-> after.academicGraph[key]]
        /\ \A key \in DOMAIN before.academicGraph \ {"claims"} :
              after.academicGraph[key] = before.academicGraph[key]
    <3> HIDE DEF before, after
    <3>1. /\ DOMAIN before.academicGraph = DOMAIN document.academicGraph
          /\ DOMAIN after.academicGraph = DOMAIN next.academicGraph
          /\ before.academicGraph =
                [key \in DOMAIN document.academicGraph |-> before.academicGraph[key]]
          /\ after.academicGraph = [key \in DOMAIN next.academicGraph |-> after.academicGraph[key]]
          /\ \A key \in DOMAIN document.academicGraph \ {"claims"} :
                before.academicGraph[key] = document.academicGraph[key]
          /\ \A key \in DOMAIN next.academicGraph \ {"claims"} :
                after.academicGraph[key] = next.academicGraph[key]
      BY <1>1 DEF before, after
    <3> QED
      BY <3>1 DEF HasTheRestOf
  <2> HIDE DEF before, after
  <2>3. graph = before.academicGraph
    BY <2>2
  <2>4. [after EXCEPT !.root = before.root, !.revisionId = before.revisionId,
                      !.documentHash = before.documentHash,
                      !.academicGraph.claims = before.academicGraph.claims] =
        [after EXCEPT !.root = before.root, !.revisionId = before.revisionId,
                      !.documentHash = before.documentHash, !.academicGraph = graph]
    BY <2>1
  <2> HIDE DEF graph
  <2>5. [after EXCEPT !.root = before.root, !.revisionId = before.revisionId,
                      !.documentHash = before.documentHash, !.academicGraph = graph] = before
    BY <2>1, <2>3
  <2> QED
    BY <2>4, <2>5
<1> QED
  BY <1>2, <1>3

-----------------------------------------------------------------------------
(* What is checked when an Authority opens is a document. *)

\* A set of places of a sequence has a first one.
LEMMA FirstOfPlaces ==
    ASSUME NEW n \in Nat, NEW S \in SUBSET (1 .. n), S # {}
    PROVE  Min(S) \in S
<1> DEFINE T == {x \in 1 .. n : n + 1 - x \in S}
           last == Max(T)
<1>1. \A x \in S : n + 1 - x \in T
  BY SMT
<1>2. T \in SUBSET (1 .. n) /\ T # {}
  <2>1. PICK x \in S : TRUE
    OBVIOUS
  <2> QED
    BY <1>1, <2>1
<1>3. T \subseteq 1 .. n /\ n + 1 - last \in S
  <2>1. last \in T
    <3> HIDE DEF T
    <3> QED
      BY <1>2, LastOfPlaces
  <2> QED
    BY <2>1
<1> HIDE DEF T
<1>4. \A x \in T : x <= last
  BY <1>2, LastOfPlaces
<1>5. last \in 1 .. n
  BY <1>2, LastOfPlaces
<1> HIDE DEF last
<1>6. \A y \in S : n + 1 - last <= y
  <2> TAKE y \in S
  <2>1. n + 1 - y <= last /\ y \in 1 .. n
    BY <1>1, <1>4
  <2> QED
    BY <1>5, <2>1
<1> QED
  BY <1>3, <1>6 DEF Min

\* No verdict failed if the first failure is none.
LEMMA NothingFailed ==
    ASSUME NEW n \in Nat, NEW verdicts, DOMAIN verdicts = 1 .. n, FirstFailure(verdicts) = "ok"
    PROVE  \A i \in 1 .. n : verdicts[i] = "ok"
<1> DEFINE failures == {i \in DOMAIN verdicts : verdicts[i] # "ok"}
<1>1. CASE failures = {}
  BY <1>1
<1>2. CASE failures # {}
  <2>1. failures \in SUBSET (1 .. n)
    OBVIOUS
  <2>2. \A m \in failures : verdicts[m] # "ok"
    OBVIOUS
  <2>3. FirstFailure(verdicts) = verdicts[Min(failures)]
    BY <1>2 DEF FirstFailure
  <2> HIDE DEF failures
  <2>4. Min(failures) \in failures
    BY <1>2, <2>1, FirstOfPlaces
  <2> QED
    BY <2>2, <2>3, <2>4
<1> QED
  BY <1>1, <1>2

\* A visited node has an ID that no node before it has, and the shape of its kind.
LEMMA VisitedNode ==
    ASSUME NEW tree, NEW visits, NEW i, NEW entities, visitNode(tree, visits, i, entities) = "ok"
    PROVE  /\ \A j \in 1 .. i - 1 : tree[visits[j]].id # tree[visits[i]].id
           /\ isValidNodePayloadShape(tree[visits[i]], tree[visits[i]].type)
<1> DEFINE node == tree[visits[i]]
           earlier == {tree[visits[j]] : j \in 1 .. i - 1}
           ids == {other.id : other \in earlier}
<1>1. node.id \notin ids /\ isValidNodePayloadShape(node, node.type)
  BY DEF visitNode
<1>2. \A j \in 1 .. i - 1 : tree[visits[j]].id \in ids
  OBVIOUS
<1> QED
  BY <1>1, <1>2

\* A text node has a string for its value, and no children.
LEMMA TextNodeShape ==
    ASSUME NEW node, node.type = "text", isValidNodePayloadShape(node, node.type)
    PROVE  "value" \in DOMAIN node /\ isString(node.value) /\ childrenOf(node) = <<>>
<1> DEFINE required == [id |-> Valid, type |-> {"text"}, value |-> Valid, marks |-> Valid]
<1>1. Closed(node, required, NoKeys) /\ isString(node.value)
  BY DEF isValidNodePayloadShape, isValidTextNodePayload
<1>2. DOMAIN required = {"id", "type", "value", "marks"}
  OBVIOUS
<1>3. DOMAIN NoKeys = {}
  BY DEF NoKeys
<1> HIDE DEF required
<1>4. /\ {"id", "type", "value", "marks"} \subseteq DOMAIN node
      /\ DOMAIN node \ {"stamp"} \subseteq {"id", "type", "value", "marks"}
  BY <1>1, <1>2, <1>3 DEF Closed, Keys
<1>5. ~ Has(node, "children")
  BY <1>4 DEF Has
<1> QED
  BY <1>1, <1>4, <1>5 DEF childrenOf

\* Both of two verdicts have to be "ok".
LEMMA BothAreOk ==
    ASSUME NEW first, NEW second, andThen(first, second) = "ok"
    PROVE  first = "ok" /\ second = "ok"
BY DEF andThen

\* What a canonical Snapshot passed.
LEMMA CanonicalIsChecked ==
    ASSUME NEW document, isCanonicalSnapshot(document)
    PROVE  /\ {"revisionId", "documentHash"} \subseteq DOMAIN document
           /\ validateTree(document.root, authorEntityIds(document.metadata)) = "ok"
           /\ isAcademicGraphRecord(document.academicGraph)
<1> DEFINE header == validateDocumentHeader(document)
           content == validateDocumentContent(document)
           authors == authorEntityIds(document.metadata)
           body == validateDocumentBody(document)
           relationships == validateDocumentRelationships(document, authors)
           known == authors \cup treeEntityIds(document.root)
           tree == validateTree(document.root, authors)
           rest == validateGraphAndReferences(document, known)
           graph == validateAcademicGraph(document.academicGraph, known)
<1>1. andThen(header, content) = "ok"
  BY DEF isCanonicalSnapshot, validateDocumentSnapshot
<1>2. header = "ok" /\ content = "ok"
  <2> HIDE DEF header, content
  <2> QED
    BY <1>1, BothAreOk
<1>3. body = "ok"
  BY <1>2 DEF validateDocumentContent, andThen
<1>4. relationships = "ok"
  BY <1>3 DEF validateDocumentBody
<1>5. tree = "ok" /\ rest = "ok"
  <2>1. andThen(tree, rest) = "ok"
    BY <1>4 DEF validateDocumentRelationships
  <2> HIDE DEF tree, rest
  <2> QED
    BY <2>1, BothAreOk
<1>6. graph = "ok"
  BY <1>5 DEF validateGraphAndReferences, andThen
<1>7. isAcademicGraphRecord(document.academicGraph)
  BY <1>6 DEF validateAcademicGraph
<1>8. {"revisionId", "documentHash"} \subseteq DOMAIN document
  BY <1>2 DEF validateDocumentHeader, Has
<1> QED
  BY <1>5, <1>7, <1>8

\* The tree of a canonical Snapshot is one, every node of it being visited.
LEMMA CheckedIsTree ==
    ASSUME NEW tree, NEW entities, validateTree(tree, entities) = "ok",
           tree \in Seq(Range(tree)),
           \A p \in DOMAIN tree :
              IsRecord(tree[p]) /\ {"id", "type", "stamp"} \subseteq DOMAIN tree[p],
           Visits(tree) \in Seq(DOMAIN tree), Range(Visits(tree)) = DOMAIN tree
    PROVE  IsTree(tree)
<1> DEFINE visits == Visits(tree)
           n == Len(visits)
           verdicts == [i \in DOMAIN visits |-> visitNode(tree, visits, i, entities)]
<1>1. n \in Nat /\ DOMAIN visits = 1 .. n
  <2> DEFINE S == DOMAIN tree
  <2> HIDE DEF S
  <2>1. visits \in Seq(S)
    BY DEF S
  <2> QED
    BY <2>1
<1>2. FirstFailure(verdicts) = "ok"
  BY DEF validateTree
<1>3. DOMAIN verdicts = 1 .. n
  BY <1>1
<1>4. \A i \in 1 .. n : verdicts[i] = visitNode(tree, visits, i, entities)
  BY <1>1
<1> HIDE DEF verdicts, n
<1>5. \A i \in 1 .. n : visitNode(tree, visits, i, entities) = "ok"
  BY <1>1, <1>2, <1>3, <1>4, NothingFailed
<1> HIDE DEF visits
<1>6. \A i \in 1 .. n :
        /\ \A j \in 1 .. i - 1 : tree[visits[j]].id # tree[visits[i]].id
        /\ isValidNodePayloadShape(tree[visits[i]], tree[visits[i]].type)
  BY <1>5, VisitedNode
<1>7. \A p \in DOMAIN tree : \E i \in 1 .. n : visits[i] = p
  BY <1>1 DEF Range, visits
<1>8. ASSUME NEW p \in DOMAIN tree PROVE IsNode(tree[p])
  <2>1. PICK i \in 1 .. n : visits[i] = p
    BY <1>7
  <2>2. isValidNodePayloadShape(tree[p], tree[p].type)
    BY <1>6, <2>1
  <2>3. tree[p].type = "text" =>
            "value" \in DOMAIN tree[p] /\ isString(tree[p].value) /\ childrenOf(tree[p]) = <<>>
    BY <2>2, TextNodeShape
  <2> QED
    BY <2>3 DEF IsNode, IsRecord
<1>9. ASSUME NEW p \in DOMAIN tree, NEW q \in DOMAIN tree, tree[p].id = tree[q].id
      PROVE  p = q
  <2>1. PICK i \in 1 .. n : visits[i] = p
    BY <1>7
  <2>2. PICK j \in 1 .. n : visits[j] = q
    BY <1>7
  <2>3. ~ (j \in 1 .. i - 1)
    BY <1>6, <1>9, <2>1, <2>2
  <2>4. ~ (i \in 1 .. j - 1)
    BY <1>6, <1>9, <2>1, <2>2
  <2>5. i = j
    BY <1>1, <2>3, <2>4
  <2> QED
    BY <2>1, <2>2, <2>5
<1> QED
  BY <1>8, <1>9 DEF IsTree

\* A canonical Snapshot that is written down as they all are is a document.
LEMMA CanonicalIsDocument ==
    ASSUME NEW document, isCanonicalSnapshot(document), IsWrittenDown(document)
    PROVE  IsDocument(document)
<1>1. /\ {"revisionId", "documentHash"} \subseteq DOMAIN document
      /\ validateTree(document.root, authorEntityIds(document.metadata)) = "ok"
      /\ isAcademicGraphRecord(document.academicGraph)
  BY CanonicalIsChecked
<1>2. "claims" \in DOMAIN document.academicGraph
  BY <1>1 DEF isAcademicGraphRecord, Keys
<1>3. IsTree(document.root)
  <2> DEFINE tree == document.root
             entities == authorEntityIds(document.metadata)
  <2>1. /\ validateTree(tree, entities) = "ok"
        /\ tree \in Seq(Range(tree))
        /\ \A p \in DOMAIN tree :
              IsRecord(tree[p]) /\ {"id", "type", "stamp"} \subseteq DOMAIN tree[p]
        /\ Visits(tree) \in Seq(DOMAIN tree)
        /\ Range(Visits(tree)) = DOMAIN tree
    BY <1>1 DEF IsWrittenDown
  <2> HIDE DEF tree, entities
  <2>2. IsTree(tree)
    BY <2>1, CheckedIsTree
  <2> QED
    BY <2>2 DEF tree
<1> QED
  BY <1>1, <1>2, <1>3 DEF IsWrittenDown, IsRecord, IsDocument

-----------------------------------------------------------------------------
(* The commits, and the cache that the next one is made with. *)

\* Every Revision is what its Operations make of the one before it.
HistoryIsDerived ==
    /\ history \in Seq({history[i] : i \in DOMAIN history})
    /\ \A i \in DOMAIN history : IsDocument(history[i].snapshot.document)
    /\ \A c \in 2 .. Len(history) :
          /\ Derives(history[c - 1].snapshot.document, history[c].snapshot.document,
                     history[c].replayInput.json.operations)
          /\ IsOperations(history[c].replayInput.json.operations)

\* The cache finds the nodes of the head, and has nothing that was not made yet.
CacheFits ==
    /\ VerifiedFits(cache, headSnapshot.object, headSnapshot.document.root)
    /\ DOMAIN cache.provisional \subseteq 1 .. objects

EInv ==
    /\ IInv
    /\ phase = "closed" => history = <<>>
    /\ HistoryIsDerived
    /\ phase = "open" => CacheFits

\* A commit of the new object that the Operations make of the head, with what is staged for it.
CommitFits(commit, c) ==
    /\ commit.snapshot.object = objects + 1
    /\ Derives(headSnapshot.document, commit.snapshot.document,
               commit.replayInput.json.operations)
    /\ IsOperations(commit.replayInput.json.operations)
    /\ c.verified = cache.verified
    /\ DOMAIN c.provisional \subseteq DOMAIN cache.provisional \cup {objects + 1}
    /\ objects + 1 \in DOMAIN c.provisional =>
          IndexFits(c.provisional[objects + 1].entry.index, commit.snapshot.document.root)

\* The first state satisfies the invariant.
LEMMA InitEInv == Init => EInv
<1> SUFFICES ASSUME Init PROVE EInv
  OBVIOUS
<1>1. IInv
  BY InitIInv
<1>2. history = <<>> /\ phase = "closed"
  BY DEF Init
<1>3. Len(history) = 0 /\ DOMAIN history = {}
  BY <1>2
<1>4. HistoryIsDerived
  <2>1. 2 .. Len(history) = {}
    BY <1>3
  <2> QED
    BY <1>2, <1>3, <2>1 DEF HistoryIsDerived
<1> QED
  BY <1>1, <1>2, <1>4 DEF EInv

\* A Snapshot that an Authority may be opened on is a document, and what is verified of it fits.
LEMMA OpenEInv ==
    ASSUME EInv, NEW document \in Documents, Open(document)
    PROVE  EInv'
<1> DEFINE snapshot == [object |-> 1, document |-> document]
           entry == checkedEntry(snapshot)
           d == cacheVerifiedFrozen(cache, entry)
           commit == [revision |-> [id |-> document.revisionId, uri |-> Uri, sequence |-> 0,
                                    transactionId |-> "initial",
                                    documentHash |-> document.documentHash],
                      snapshot |-> snapshot]
<1>1. /\ phase = "closed"
      /\ phase' = "open"
      /\ objects' = 1
      /\ cache' = d
      /\ history' = <<commit>>
      /\ isCanonicalSnapshot(document)
  BY DEF Open
<1>2. IInv'
  BY OpenIInv DEF EInv
<1>3. IsDocument(document)
  BY <1>1, DocumentsAssumption, CanonicalIsDocument
<1>4. commit.snapshot.object = 1 /\ commit.snapshot.document = document
  OBVIOUS
<1>5. /\ Len(history') = 1
      /\ DOMAIN history' = 1 .. 1
      /\ history'[1] = commit
      /\ history' \in Seq({commit})
  <2> HIDE DEF commit
  <2> QED
    BY <1>1
<1>6. HistoryIsDerived'
  <2>1. history' \in Seq({history'[i] : i \in DOMAIN history'})
    <3> HIDE DEF commit
    <3> QED
      BY <1>5, SequenceOfItsElements
  <2>2. \A i \in DOMAIN history' : IsDocument(history'[i].snapshot.document)
    <3> HIDE DEF commit
    <3> QED
      BY <1>3, <1>4, <1>5
  <2>3. 2 .. Len(history') = {}
    BY <1>5
  <2> HIDE DEF commit
  <2> QED
    BY <2>1, <2>2, <2>3 DEF HistoryIsDerived
<1>7. IsEntryOf(entry, 1)
  BY CheckedEntryIsItsOwn
<1>8. IndexFits(entry.index, document.root)
  <2>1. entry.index = createDocumentIndexFromValidatedSnapshot(document)
    BY DEF checkedEntry
  <2> QED
    BY <1>3, <2>1, FreshIndexFits DEF IsDocument
<1>9. IsCache(cache) /\ DOMAIN cache.verified = {} /\ DOMAIN cache.provisional = {}
  BY <1>1 DEF EInv, IInv
<1>10. d = installCache(cache, entry)
  <2> HIDE DEF entry
  <2> QED
    BY <1>7, <1>9 DEF cacheVerifiedFrozen, IsEntryOf
<1> HIDE DEF entry, d, commit
<1>11. /\ Retires(cache, d, GoesWith(cache, 1))
       /\ d.verified[1] = entry
  BY <1>7, <1>9, <1>10, InstallCache
<1>12. headSnapshot' = commit.snapshot
  <2>1. head' = commit
    BY <1>5 DEF head, Last
  <2> QED
    BY <2>1 DEF headSnapshot
<1>13. CacheFits'
  <2>1. VerifiedFits(cache', headSnapshot'.object, headSnapshot'.document.root)
    BY <1>1, <1>4, <1>8, <1>11, <1>12 DEF VerifiedFits
  <2>2. DOMAIN cache'.provisional \subseteq 1 .. objects'
    BY <1>1, <1>9, <1>11 DEF Retires
  <2> QED
    BY <2>1, <2>2 DEF CacheFits
<1> QED
  BY <1>1, <1>2, <1>6, <1>13 DEF EInv

\* What the kernel prepared on the head fits.
LEMMA PreparedFits ==
    ASSUME EInv, phase = "open", NEW request, NEW id,
           prepareKernelTransaction(kernelOptions(request, id), cache).type = "ok"
    PROVE  LET prepared == prepareKernelTransaction(kernelOptions(request, id), cache).value
           IN  CommitFits(createKernelCommitPreparer(request, id, prepared), prepared.cache)
<1> DEFINE options == kernelOptions(request, id)
           r == prepareKernelTransaction(options, cache)
           commit == createKernelCommitPreparer(request, id, r.value)
           operations == request.json.operations
<1>1. /\ options.headSnapshot = headSnapshot
      /\ options.object = objects + 1
      /\ options.request = request
  BY DEF kernelOptions
<1>2. HistoryIsMade /\ IsCache(cache) /\ Follows(cache, headSnapshot.object) /\ CacheFits
  BY DEF EInv, IInv
<1>3. /\ Len(history) \in DOMAIN history
      /\ head = history[Len(history)]
      /\ headSnapshot.object \in 1 .. objects
      /\ objects \in Nat
  BY <1>2, HeadIsMade DEF HistoryIsMade
<1>4. IsDocument(headSnapshot.document)
  BY <1>3 DEF EInv, HistoryIsDerived, headSnapshot
<1>5. /\ VerifiedFits(cache, headSnapshot.object, headSnapshot.document.root)
      /\ IsFresh(cache, objects + 1)
  <2>1. objects + 1 # headSnapshot.object /\ objects + 1 \notin 1 .. objects
    BY <1>3
  <2> QED
    BY <1>2, <2>1 DEF CacheFits, IsFresh, Follows
<1> HIDE DEF options
<1>6. r.type = "ok"
  BY DEF options
<1>7. KernelExact(options, cache, r) /\ IsOperations(options.request.json.operations)
  BY <1>1, <1>4, <1>5, <1>6, KernelIsExact
<1> HIDE DEF r
<1>8. /\ r.value.replayInput = request
      /\ Derives(headSnapshot.document, r.value.snapshot.document, operations)
      /\ Stages(options, cache, r.value.cache, r.value.snapshot.document.root)
  BY <1>1, <1>6, <1>7 DEF KernelExact
<1>9. /\ r.value.cache.verified = cache.verified
      /\ DOMAIN r.value.cache.provisional \subseteq DOMAIN cache.provisional \cup {objects + 1}
      /\ objects + 1 \in DOMAIN r.value.cache.provisional =>
            IndexFits(r.value.cache.provisional[objects + 1].entry.index,
                      r.value.snapshot.document.root)
  BY <1>1, <1>2, <1>5, <1>8, StagedFits
<1>10. commit.snapshot.object = objects + 1
  BY <1>6, PreparedOnHead DEF EInv, r, options
<1>11. commit.snapshot = r.value.snapshot /\ commit.replayInput = request
  BY <1>8 DEF createKernelCommitPreparer
<1> HIDE DEF commit
<1>12. CommitFits(commit, r.value.cache)
  BY <1>1, <1>7, <1>8, <1>9, <1>10, <1>11 DEF CommitFits
<1> QED
  BY <1>12 DEF commit, r, options

\* What does not reach the history leaves less of what fits.
LEMMA NothingCommittedEInv ==
    ASSUME EInv, phase = "open", IInv', UNCHANGED <<phase, history>>,
           DOMAIN cache'.verified \subseteq DOMAIN cache.verified,
           \A s \in DOMAIN cache'.verified : cache'.verified[s] = cache.verified[s],
           DOMAIN cache'.provisional \subseteq 1 .. objects'
    PROVE  EInv'
<1>1. HistoryIsDerived'
  BY DEF EInv, HistoryIsDerived
<1>2. headSnapshot' = headSnapshot
  BY DEF headSnapshot, head
<1>3. CacheFits'
  BY <1>2 DEF EInv, CacheFits, VerifiedFits
<1> QED
  BY <1>1, <1>3 DEF EInv

\* A commit becomes the head, and the cache fits it.
LEMMA CommittedEInv ==
    ASSUME EInv, phase = "open", IInv', phase' = phase, NEW commit,
           history' = Append(history, commit),
           Derives(headSnapshot.document, commit.snapshot.document,
                   commit.replayInput.json.operations),
           IsOperations(commit.replayInput.json.operations),
           VerifiedFits(cache', commit.snapshot.object, commit.snapshot.document.root),
           DOMAIN cache'.provisional \subseteq 1 .. objects'
    PROVE  EInv'
<1> DEFINE S == {history[i] : i \in DOMAIN history} \cup {commit}
           n == Len(history)
<1>1. /\ n \in Nat \ {0}
      /\ DOMAIN history = 1 .. n
      /\ head = history[n]
  BY HeadIsMade DEF EInv, IInv
<1>2. /\ \A i \in 1 .. n : IsDocument(history[i].snapshot.document)
      /\ \A c \in 2 .. n :
            /\ Derives(history[c - 1].snapshot.document, history[c].snapshot.document,
                       history[c].replayInput.json.operations)
            /\ IsOperations(history[c].replayInput.json.operations)
  BY <1>1 DEF EInv, HistoryIsDerived
<1>3. history \in Seq(S) /\ commit \in S
  <2>1. history \in Seq({history[i] : i \in DOMAIN history})
    BY DEF EInv, HistoryIsDerived
  <2> QED
    BY <2>1
<1> HIDE DEF S
<1>4. /\ history' \in Seq(S)
      /\ Len(history') = n + 1
      /\ DOMAIN history' = 1 .. n + 1
      /\ \A i \in 1 .. n : history'[i] = history[i]
      /\ history'[n + 1] = commit
  BY <1>1, <1>3
<1>5. history' \in Seq({history'[i] : i \in DOMAIN history'})
  BY <1>4, SequenceOfItsElements
<1> HIDE DEF n
<1>6. \A i \in DOMAIN history' : IsDocument(history'[i].snapshot.document)
  <2> TAKE i \in DOMAIN history'
  <2>1. CASE i \in 1 .. n
    BY <1>2, <1>4, <2>1
  <2>2. CASE i = n + 1
    BY <1>4, <2>2 DEF Derives
  <2> QED
    BY <1>1, <1>4, <2>1, <2>2
<1>7. ASSUME NEW c \in 2 .. Len(history')
      PROVE  /\ Derives(history'[c - 1].snapshot.document, history'[c].snapshot.document,
                        history'[c].replayInput.json.operations)
             /\ IsOperations(history'[c].replayInput.json.operations)
  <2>1. CASE c \in 2 .. n
    <3>1. c - 1 \in 1 .. n /\ c \in 1 .. n
      BY <1>1, <2>1
    <3> QED
      BY <1>2, <1>4, <2>1, <3>1
  <2>2. CASE c = n + 1
    <3>1. c - 1 = n /\ n \in 1 .. n
      BY <1>1, <2>2
    <3>2. history'[c - 1].snapshot = headSnapshot
      BY <1>1, <1>4, <3>1 DEF headSnapshot
    <3> QED
      BY <1>4, <2>2, <3>2
  <2>3. c \in 2 .. n \/ c = n + 1
    BY <1>1, <1>4
  <2> QED
    BY <2>1, <2>2, <2>3
<1>8. HistoryIsDerived'
  BY <1>5, <1>6, <1>7 DEF HistoryIsDerived
<1>9. headSnapshot' = commit.snapshot
  <2>1. head' = history'[Len(history')]
    BY DEF head, Last
  <2> QED
    BY <1>4, <2>1 DEF headSnapshot
<1>10. CacheFits'
  BY <1>9 DEF CacheFits
<1> QED
  BY <1>8, <1>10 DEF EInv

\* Either becomes of a prepared commit, depending on whether it fits in a record.
LEMMA InstallEInv ==
    ASSUME EInv, phase = "open", phase' = phase, IInv',
           NEW commit, NEW staged, CommitFits(commit, staged),
           IsCache(staged), Follows(staged, headSnapshot.object),
           installPreparedCommit(commit, staged)
    PROVE  EInv'
<1> DEFINE object == commit.snapshot.object
           tree == commit.snapshot.document.root
<1>1. /\ objects' = objects + 1
      /\ object = objects + 1
  BY DEF installPreparedCommit, CommitFits
<1>2. /\ headSnapshot.object \in 1 .. objects
      /\ objects \in Nat
  BY HeadIsMade DEF EInv, IInv, HistoryIsMade
<1>3. DOMAIN staged.provisional \subseteq 1 .. objects + 1
  <2>1. DOMAIN cache.provisional \subseteq 1 .. objects
    BY DEF EInv, CacheFits
  <2>2. 1 .. objects \subseteq 1 .. objects + 1 /\ objects + 1 \in 1 .. objects + 1
    BY <1>2
  <2> HIDE DEF object
  <2> QED
    BY <2>1, <2>2 DEF CommitFits
<1>4. CASE encodes(commit)
  <2>1. /\ history' = Append(history, commit)
        /\ cache' = activateCommittedSnapshotCache(staged, headSnapshot, commit.snapshot)
    BY <1>4 DEF installPreparedCommit
  <2>2. headSnapshot.object # object
    BY <1>1, <1>2
  <2>3. IsTree(tree)
    BY DEF CommitFits, Derives, IsDocument
  <2>4. object \in DOMAIN staged.provisional =>
            IndexFits(staged.provisional[object].entry.index, tree)
    BY <1>1 DEF CommitFits
  <2>5. /\ VerifiedFits(cache', object, tree)
        /\ DOMAIN cache'.provisional \subseteq DOMAIN staged.provisional
    BY <2>1, <2>2, <2>3, <2>4, CommittedFits
  <2>6. DOMAIN cache'.provisional \subseteq 1 .. objects'
    BY <1>1, <1>3, <2>5
  <2> QED
    BY <2>1, <2>5, <2>6, CommittedEInv DEF CommitFits
<1>5. CASE ~ encodes(commit)
  <2>1. /\ cache' = retireVerified(staged, object)
        /\ history' = history
    BY <1>5 DEF installPreparedCommit
  <2>2. /\ Retires(staged, cache', GoesWith(staged, object))
        /\ DOMAIN cache'.verified = DOMAIN staged.verified \ {object}
        /\ \A s \in DOMAIN cache'.verified : cache'.verified[s] = staged.verified[s]
    BY <2>1, RetireVerified
  <2>3. staged.verified = cache.verified
    BY DEF CommitFits
  <2>4. DOMAIN cache'.provisional \subseteq 1 .. objects'
    BY <1>1, <1>3, <2>2 DEF Retires
  <2> QED
    BY <2>1, <2>2, <2>3, <2>4, NothingCommittedEInv
<1> QED
  BY <1>4, <1>5

\* A Transaction is committed as its Operations say, or refused.
LEMMA ApplyEInv ==
    ASSUME EInv, NEW request, Apply(request)
    PROVE  EInv'
<1> DEFINE id == RevisionIds[objects]
           result == prepareKernelTransaction(kernelOptions(request, id), cache)
           commit == createKernelCommitPreparer(request, id, result.value)
<1>1. /\ phase = "open"
      /\ phase' = phase
      /\ result.type = "ok"
      /\ installPreparedCommit(commit, result.value.cache)
  BY DEF Apply, installDerived
<1>2. IInv /\ IInv'
  BY ApplyIInv DEF EInv
<1>3. /\ IsCache(result.value.cache)
      /\ Follows(result.value.cache, headSnapshot.object)
  BY <1>1, <1>2, PreparedOnHead
<1>4. CommitFits(commit, result.value.cache)
  BY <1>1, PreparedFits
<1> HIDE DEF result, commit
<1> QED
  BY <1>1, <1>2, <1>3, <1>4, InstallEInv

\* A derivation that is offered elsewhere leaves what it staged beside what is verified.
LEMMA OfferEInv ==
    ASSUME EInv, NEW request, Offer(request)
    PROVE  EInv'
<1> DEFINE id == RevisionIds[objects]
           result == prepareKernelTransaction(kernelOptions(request, id), cache)
           commit == createKernelCommitPreparer(request, id, result.value)
<1>1. /\ phase = "open"
      /\ UNCHANGED <<phase, history>>
      /\ objects' = objects + 1
      /\ result.type = "ok"
      /\ cache' = result.value.cache
  BY DEF Offer, keepPrepared
<1>2. IInv'
  BY OfferIInv DEF EInv
<1>3. CommitFits(commit, result.value.cache)
  BY <1>1, PreparedFits
<1> HIDE DEF result, commit
<1>4. DOMAIN cache'.provisional \subseteq 1 .. objects'
  <2>1. DOMAIN cache.provisional \subseteq 1 .. objects /\ objects \in Nat
    BY <1>1 DEF EInv, CacheFits, IInv, HistoryIsMade
  <2>2. 1 .. objects \subseteq 1 .. objects + 1 /\ objects + 1 \in 1 .. objects + 1
    BY <2>1
  <2> QED
    BY <1>1, <1>3, <2>1, <2>2 DEF CommitFits
<1>5. cache'.verified = cache.verified
  BY <1>1, <1>3 DEF CommitFits
<1> QED
  BY <1>1, <1>2, <1>4, <1>5, NothingCommittedEInv

\* A prepared commit is derived again before it is installed, or what that staged is retired.
LEMMA ApplyPreparedEInv ==
    ASSUME EInv, NEW request, NEW commit, ApplyPrepared(request, commit)
    PROVE  EInv'
<1> DEFINE id == commit.revision.id
           result == prepareKernelTransaction(kernelOptions(request, id), cache)
           expected == createKernelCommitPreparer(request, id, result.value)
<1>1. /\ phase = "open"
      /\ phase' = phase
      /\ result.type = "ok"
      /\ installExpected(commit, expected, result.value.cache)
  BY DEF ApplyPrepared, installRederived
<1>2. IInv /\ IInv'
  BY ApplyPreparedIInv DEF EInv
<1>3. /\ IsCache(result.value.cache)
      /\ Follows(result.value.cache, headSnapshot.object)
  BY <1>1, <1>2, PreparedOnHead
<1>4. CommitFits(expected, result.value.cache)
  BY <1>1, PreparedFits
<1> DEFINE staged == result.value.cache
           object == expected.snapshot.object
<1> HIDE DEF result, expected
<1>5. CASE validatePreparedCommit(commit, expected)
  <2>1. installPreparedCommit(expected, staged)
    BY <1>1, <1>5 DEF installExpected
  <2> QED
    BY <1>1, <1>2, <1>3, <1>4, <2>1, InstallEInv
<1>6. CASE ~ validatePreparedCommit(commit, expected)
  <2>1. /\ cache' = retireVerified(staged, object)
        /\ objects' = objects + 1
        /\ history' = history
    BY <1>1, <1>6 DEF installExpected
  <2> HIDE DEF staged
  <2>2. /\ Retires(staged, cache', GoesWith(staged, object))
        /\ DOMAIN cache'.verified = DOMAIN staged.verified \ {object}
        /\ \A s \in DOMAIN cache'.verified : cache'.verified[s] = staged.verified[s]
    BY <1>3, <2>1, RetireVerified DEF staged
  <2>3. staged.verified = cache.verified
    BY <1>4 DEF CommitFits, staged
  <2>4. DOMAIN cache'.provisional \subseteq 1 .. objects'
    <3>1. DOMAIN cache.provisional \subseteq 1 .. objects /\ objects \in Nat
      BY <1>1 DEF EInv, CacheFits, IInv, HistoryIsMade
    <3>2. 1 .. objects \subseteq 1 .. objects + 1 /\ objects + 1 \in 1 .. objects + 1
      BY <3>1
    <3>3. DOMAIN staged.provisional \subseteq DOMAIN cache.provisional \cup {objects + 1}
      BY <1>4 DEF CommitFits, staged
    <3> QED
      BY <2>1, <2>2, <3>1, <3>2, <3>3 DEF Retires
  <2> QED
    BY <1>1, <1>2, <2>1, <2>2, <2>3, <2>4, NothingCommittedEInv
<1> QED
  BY <1>5, <1>6

\* Another Authority retires a Snapshot object, and what it leaves fits as before.
LEMMA OtherFinishDisposeEInv ==
    ASSUME EInv, OtherFinishDispose
    PROVE  EInv'
<1> DEFINE object == history[1].snapshot.object
           objectsOf == <<object>>
<1>1. /\ phase = "open"
      /\ cache' = retireAll(cache, objectsOf)
      /\ UNCHANGED <<phase, history, objects>>
  BY DEF OtherFinishDispose
<1>2. IInv'
  BY OtherFinishDisposeIInv DEF EInv
<1>3. cache' = retireVerified(cache, object)
  <2>1. objectsOf \in Seq({object}) /\ Len(objectsOf) = 1 /\ objectsOf[1] = object
    OBVIOUS
  <2> HIDE DEF objectsOf
  <2>2. PICK retired :
          /\ retired[0] = cache
          /\ \A i \in 1 .. Len(objectsOf) :
                retired[i] = retireVerified(retired[i - 1], objectsOf[i])
          /\ retireAll(cache, objectsOf) = retired[Len(objectsOf)]
    BY <2>1, RetireAllInOrder
  <2>3. 1 \in 1 .. 1 /\ 1 - 1 = 0
    OBVIOUS
  <2> QED
    BY <1>1, <2>1, <2>2, <2>3
<1>4. IsCache(cache)
  BY DEF EInv, IInv
<1>5. /\ Retires(cache, cache', GoesWith(cache, object))
      /\ DOMAIN cache'.verified = DOMAIN cache.verified \ {object}
      /\ \A s \in DOMAIN cache'.verified : cache'.verified[s] = cache.verified[s]
  BY <1>3, <1>4, RetireVerified
<1>6. DOMAIN cache'.provisional \subseteq 1 .. objects'
  BY <1>1, <1>5 DEF EInv, CacheFits, Retires
<1> QED
  BY <1>1, <1>2, <1>5, <1>6, NothingCommittedEInv

\* Every step keeps what the commits are.
LEMMA EditingInvariance == Spec => []EInv
<1>1. EInv /\ [Next]_vars => EInv'
  <2> SUFFICES ASSUME EInv, [Next]_vars
               PROVE  EInv'
    OBVIOUS
  <2>1. CASE UNCHANGED vars
    BY <2>1 DEF vars, EInv, IInv, HistoryIsMade, HistoryIsDerived, CacheFits, headSnapshot, head
  <2>2. CASE FinishDispose
    <3>1. IInv' /\ phase' = "disposed" /\ history' = history
      BY <2>2, FinishDisposeIInv DEF EInv, FinishDispose
    <3> QED
      BY <3>1 DEF EInv, HistoryIsDerived
  <2> QED
    BY <2>1, <2>2, OpenEInv, ApplyEInv, OfferEInv, ApplyPreparedEInv, OtherFinishDisposeEInv
       DEF Next
<1> QED
  BY <1>1, InitEInv, PTL DEF Spec

\* A Revision derived from the one before it has the texts that its Operations leave.
LEMMA DerivedTexts ==
    ASSUME EInv, NEW c \in 2 .. Len(history)
    PROVE  TextsAre(history[c - 1].snapshot.document.root, history[c].snapshot.document.root,
                    Texts(c - 1, c))
<1> DEFINE document == history[c - 1].snapshot.document
           next == history[c].snapshot.document
           operations == history[c].replayInput.json.operations
<1>1. Len(history) \in Nat /\ DOMAIN history = 1 .. Len(history)
  <2> DEFINE S == {history[i] : i \in DOMAIN history}
  <2>1. history \in Seq(S)
    BY DEF EInv, HistoryIsDerived
  <2> HIDE DEF S
  <2> QED
    BY <2>1
<1>2. c - 1 \in DOMAIN history /\ c - 1 \in Nat /\ c \in Nat /\ c - 1 <= c /\ c - 1 + 1 = c
  BY <1>1
<1>3. IsDocument(document)
  BY <1>2 DEF EInv, HistoryIsDerived
<1>4. Derives(document, next, operations) /\ IsOperations(operations)
  BY DEF EInv, HistoryIsDerived
<1>5. PICK text :
        /\ text[c - 1] = Original(document)
        /\ \A d \in c - 1 + 1 .. c :
              text[d] = Edited(text[d - 1], d, history[d].replayInput.json.operations)
        /\ Texts(c - 1, c) = text[c]
  BY <1>2, TextsInOrder
<1>6. c \in c - 1 + 1 .. c
  BY <1>2
<1>7. Texts(c - 1, c) = Edited(Original(document), c, operations)
  BY <1>5, <1>6
<1> HIDE DEF document, next, operations
<1>8. TextsAre(document.root, document.root, Original(document))
  BY <1>3, OriginalTexts DEF IsDocument
<1>9. TextsAre(document.root, next.root, Edited(Original(document), c, operations))
  BY <1>3, <1>4, <1>8, TextsFollowTheChain DEF IsDocument, Derives
<1> QED
  BY <1>7, <1>9 DEF document, next

\* Whatever is committed, offered, refused or retired, each Revision is the one before it with
\* the texts its Operations name changed as they say and in their order, and with other claim
\* anchors, though it is made along a trusted index and without a look at the whole document.
THEOREM CommitsAreAlwaysExact == Spec => []CommitsAreExact
<1>1. EInv => CommitsAreExact
  <2> SUFFICES ASSUME EInv, NEW c \in 2 .. Len(history)
               PROVE
        LET before == canonicalValue(history[c - 1].snapshot.document)
            after == canonicalValue(history[c].snapshot.document)
            texts == Texts(c - 1, c)
            Expected(node) ==
                IF node.type = "text" THEN [node EXCEPT !.value = Units(texts[node.id])] ELSE node
        IN  /\ after.root = [p \in DOMAIN before.root |-> Expected(before.root[p])]
            /\ [after EXCEPT !.root = before.root, !.revisionId = before.revisionId,
                             !.documentHash = before.documentHash,
                             !.academicGraph.claims = before.academicGraph.claims] = before
    BY DEF CommitsAreExact
  <2> DEFINE document == history[c - 1].snapshot.document
             next == history[c].snapshot.document
             texts == Texts(c - 1, c)
  <2>1. IsDocument(document)
    <3>1. c - 1 \in DOMAIN history
      <4> DEFINE S == {history[i] : i \in DOMAIN history}
      <4>1. history \in Seq(S)
        BY DEF EInv, HistoryIsDerived
      <4> HIDE DEF S
      <4>2. Len(history) \in Nat /\ DOMAIN history = 1 .. Len(history)
        BY <4>1
      <4> QED
        BY <4>2
    <3> QED
      BY <3>1 DEF EInv, HistoryIsDerived
  <2>2. IsDocument(next) /\ HasTheRestOf(document, next)
    BY DEF EInv, HistoryIsDerived, Derives
  <2>3. TextsAre(document.root, next.root, texts)
    BY DerivedTexts
  <2> HIDE DEF document, next, texts
  <2>4. LET before == canonicalValue(document)
            after == canonicalValue(next)
            Expected(node) ==
                IF node.type = "text" THEN [node EXCEPT !.value = Units(texts[node.id])] ELSE node
        IN  /\ after.root = [p \in DOMAIN before.root |-> Expected(before.root[p])]
            /\ [after EXCEPT !.root = before.root, !.revisionId = before.revisionId,
                             !.documentHash = before.documentHash,
                             !.academicGraph.claims = before.academicGraph.claims] = before
    BY <2>1, <2>2, <2>3, DerivedIsExact
  <2> QED
    BY <2>4 DEF document, next, texts
<1> QED
  BY <1>1, EditingInvariance, PTL

-----------------------------------------------------------------------------
(* A map, step after step. *)

\* The results of a map's steps, from the first one on.
ResultsOf(steps, first, result) ==
    /\ result[0] = first
    /\ \A n \in 1 .. Len(steps) : result[n] = mapPositionResultThrough(result[n - 1], steps[n])

\* The steps of a map are made one after the other.
LEMMA ResultsInOrder ==
    ASSUME NEW steps, Len(steps) \in Nat, NEW position
    PROVE  \E result :
              /\ ResultsOf(steps, Mapped(position), result)
              /\ mapSteps(steps, position) = result[Len(steps)]
<1> DEFINE N == Len(steps)
           First == Mapped(position)
           Step(f, n) == IF n = 0
                         THEN First ELSE mapPositionResultThrough(f[n - 1], steps[n])
           Reached == {n \in 0 .. N : \E f : f = [i \in 0 .. n |-> Step(f, i)]}
<1>1. N \in Nat
  OBVIOUS
<1>2. 0 \in Reached
  <2> DEFINE f == [i \in 0 .. 0 |-> First]
  <2>1. f = [i \in 0 .. 0 |-> Step(f, i)]
    BY <1>1
  <2>2. 0 \in 0 .. N
    BY <1>1
  <2> HIDE DEF f, Step, N
  <2> QED
    BY <2>1, <2>2
<1>3. ASSUME NEW n \in 0 .. N - 1, n \in Reached
      PROVE  n + 1 \in Reached
  <2>1. PICK f : f = [i \in 0 .. n |-> Step(f, i)]
    BY <1>3
  <2> DEFINE g == [i \in 0 .. n + 1 |-> IF i <= n THEN f[i] ELSE Step(f, i)]
  <2>2. ASSUME NEW i \in 0 .. n + 1
        PROVE  g[i] = Step(g, i)
    <3>1. CASE i = 0
      <4>1. f[0] = Step(f, 0)
        BY <1>1, <2>1
      <4> QED
        BY <1>1, <3>1, <4>1
    <3>2. CASE i # 0
      <4>1. i - 1 \in 0 .. n
        BY <1>1, <3>2
      <4>2. g[i - 1] = f[i - 1]
        BY <1>1, <4>1
      <4>3. Step(g, i) = Step(f, i)
        <5> HIDE DEF g
        <5> QED
          BY <3>2, <4>2
      <4>4. CASE i <= n
        <5>1. i \in 0 .. n
          BY <1>1, <4>4
        <5>2. f[i] = Step(f, i)
          BY <2>1, <5>1
        <5> HIDE DEF Step
        <5> QED
          BY <4>3, <4>4, <5>2
      <4>5. CASE ~ (i <= n)
        <5> HIDE DEF Step
        <5> QED
          BY <4>3, <4>5
      <4> QED
        BY <4>4, <4>5
    <3> QED
      BY <3>1, <3>2
  <2>3. g = [i \in 0 .. n + 1 |-> Step(g, i)]
    <3> HIDE DEF Step
    <3> QED
      BY <2>2
  <2>4. n + 1 \in 0 .. N
    BY <1>1
  <2> HIDE DEF g, Step, N
  <2> QED
    BY <2>3, <2>4
<1>4. N \in Reached
  <2> HIDE DEF Reached
  <2>1. \A n \in 0 .. N : n \in Reached
    BY <1>1, <1>2, <1>3, InductionUpTo
  <2> QED
    BY <1>1, <2>1
<1> DEFINE result == CHOOSE f : f = [n \in 0 .. N |-> Step(f, n)]
<1>5. result = [n \in 0 .. N |-> Step(result, n)]
  <2> HIDE DEF Step
  <2> QED
    BY <1>4
<1>6. mapSteps(steps, position) = result[N]
  BY DEF mapSteps
<1> HIDE DEF result
<1>7. result[0] = First
  BY <1>1, <1>5
<1>8. \A n \in 1 .. N : result[n] = mapPositionResultThrough(result[n - 1], steps[n])
  BY <1>1, <1>5
<1> QED
  BY <1>6, <1>7, <1>8 DEF ResultsOf

\* There is one way to make the steps.
LEMMA OneResult ==
    ASSUME NEW steps, Len(steps) \in Nat, NEW first, NEW f, NEW g,
           ResultsOf(steps, first, f), ResultsOf(steps, first, g)
    PROVE  f[Len(steps)] = g[Len(steps)]
<1> DEFINE N == Len(steps)
           Same == {n \in 0 .. N : f[n] = g[n]}
<1>1. 0 \in Same
  BY DEF ResultsOf
<1>2. ASSUME NEW n \in 0 .. N - 1, n \in Same
      PROVE  n + 1 \in Same
  <2>1. n + 1 \in 1 .. N /\ n + 1 \in 0 .. N /\ (n + 1) - 1 = n
    OBVIOUS
  <2>2. /\ f[n + 1] = mapPositionResultThrough(f[n], steps[n + 1])
        /\ g[n + 1] = mapPositionResultThrough(g[n], steps[n + 1])
    BY <2>1 DEF ResultsOf
  <2>3. f[n] = g[n]
    BY <1>2
  <2> QED
    BY <2>1, <2>2, <2>3
<1> HIDE DEF Same
<1>3. \A n \in 0 .. N : n \in Same
  BY <1>1, <1>2, InductionUpTo
<1>4. N \in 0 .. N
  OBVIOUS
<1> QED
  BY <1>3, <1>4 DEF Same

\* Steps that start from a mapped position are a map of that position.
LEMMA ResultsAreMapped ==
    ASSUME NEW steps, Len(steps) \in Nat, NEW position, NEW result,
           ResultsOf(steps, Mapped(position), result)
    PROVE  mapSteps(steps, position) = result[Len(steps)]
<1>1. PICK f : /\ ResultsOf(steps, Mapped(position), f)
               /\ mapSteps(steps, position) = f[Len(steps)]
  BY ResultsInOrder
<1> DEFINE first == Mapped(position)
<1>2. ResultsOf(steps, first, f) /\ ResultsOf(steps, first, result)
  BY <1>1
<1> HIDE DEF first
<1> QED
  BY <1>1, <1>2, OneResult

\* A longer map goes on from where the shorter one leads.
LEMMA MapsOn ==
    ASSUME NEW S, NEW steps \in Seq(S), NEW more \in Seq(S), NEW position
    PROVE  \E result :
              /\ ResultsOf(more, mapSteps(steps, position), result)
              /\ mapSteps(steps \o more, position) = result[Len(more)]
<1> DEFINE all == steps \o more
           M == Len(steps)
           N == Len(more)
           first == Mapped(position)
<1>1. /\ M \in Nat /\ N \in Nat
      /\ Len(all) = M + N
      /\ \A n \in 1 .. M : all[n] = steps[n]
      /\ \A n \in 1 .. N : all[M + n] = more[n]
  OBVIOUS
<1> HIDE DEF all
<1>2. Len(all) \in Nat
  BY <1>1
<1>3. PICK f : /\ ResultsOf(all, first, f)
               /\ mapSteps(all, position) = f[Len(all)]
  BY <1>2, ResultsInOrder
<1>4. ResultsOf(steps, first, f)
  <2>1. ASSUME NEW n \in 1 .. M
        PROVE  f[n] = mapPositionResultThrough(f[n - 1], steps[n])
    <3>1. n \in 1 .. Len(all)
      BY <1>1
    <3> QED
      BY <1>1, <1>3, <3>1 DEF ResultsOf
  <2> QED
    BY <1>3, <2>1 DEF ResultsOf
<1>5. mapSteps(steps, position) = f[M]
  BY <1>1, <1>4, ResultsAreMapped
<1> DEFINE result == [n \in 0 .. N |-> f[M + n]]
<1>6. \A n \in 0 .. N : result[n] = f[M + n]
  OBVIOUS
<1> HIDE DEF result
<1>7. ResultsOf(more, f[M], result)
  <2>1. result[0] = f[M]
    BY <1>1, <1>6
  <2>2. ASSUME NEW n \in 1 .. N
        PROVE  result[n] = mapPositionResultThrough(result[n - 1], more[n])
    <3>1. /\ M + n \in 1 .. Len(all) /\ (M + n) - 1 = M + (n - 1)
          /\ n \in 0 .. N /\ n - 1 \in 0 .. N
      BY <1>1
    <3>2. f[M + n] = mapPositionResultThrough(f[M + (n - 1)], all[M + n])
      BY <1>3, <3>1 DEF ResultsOf
    <3> QED
      BY <1>1, <1>6, <3>1, <3>2
  <2> QED
    BY <2>1, <2>2 DEF ResultsOf
<1>8. N \in 0 .. N
  BY <1>1
<1>9. mapSteps(all, position) = result[N]
  BY <1>1, <1>3, <1>6, <1>8
<1> QED
  BY <1>5, <1>7, <1>9 DEF all

\* A position that is mapped is at its new place.
LEMMA MappedIsAPosition ==
    ASSUME NEW steps, Len(steps) \in Nat, NEW position,
           mapSteps(steps, position).status = "mapped"
    PROVE  mapSteps(steps, position) = Mapped(mapSteps(steps, position).position)
<1> DEFINE N == Len(steps)
<1>1. PICK result : /\ ResultsOf(steps, Mapped(position), result)
                    /\ mapSteps(steps, position) = result[N]
  BY ResultsInOrder
<1> DEFINE Fine == {n \in 0 .. N : result[n].status = "mapped" =>
                                      result[n] = Mapped(result[n].position)}
<1>2. 0 \in Fine
  BY <1>1 DEF ResultsOf, Mapped
<1>3. ASSUME NEW n \in 0 .. N - 1, n \in Fine
      PROVE  n + 1 \in Fine
  <2> DEFINE step == steps[n + 1]
             before == result[n]
             after == result[n + 1]
  <2>1. n + 1 \in 1 .. N /\ n + 1 \in 0 .. N /\ (n + 1) - 1 = n
    OBVIOUS
  <2>2. after = mapPositionResultThrough(before, step)
    BY <1>1, <2>1 DEF ResultsOf
  <2> HIDE DEF step, before, after
  <2>3. ASSUME NEW p
        PROVE  mapStep(step, p).status = "mapped" =>
                  mapStep(step, p) = Mapped(mapStep(step, p).position)
    BY DEF mapStep, mapInsertion, mapNonEmptyReplacement, mapTextPositionToOffset, Mapped,
           Deleted, Orphaned
  <2>4. ASSUME NEW p
        PROVE  mapDeletedPositionThrough(p, step).status # "mapped"
    BY DEF mapDeletedPositionThrough, Deleted
  <2>5. before.status = "mapped" => before = Mapped(before.position)
    BY <1>3 DEF before
  <2>6. after.status = "mapped" => after = Mapped(after.position)
    <3>1. CASE before.status = "mapped"
      <4>1. after = mapStep(step, before.position)
        BY <2>2, <3>1 DEF mapPositionResultThrough
      <4> QED
        BY <2>3, <4>1
    <3>2. CASE before.status = "deleted"
      <4>1. after = mapDeletedPositionThrough(before.nearest, step)
        BY <2>2, <3>2 DEF mapPositionResultThrough
      <4> QED
        BY <2>4, <4>1
    <3>3. CASE before.status \notin {"mapped", "deleted"}
      <4>1. after = before
        BY <2>2, <3>3 DEF mapPositionResultThrough
      <4> QED
        BY <3>3, <4>1
    <3> QED
      BY <3>1, <3>2, <3>3
  <2> QED
    BY <2>1, <2>6 DEF after
<1> HIDE DEF Fine
<1>4. \A n \in 0 .. N : n \in Fine
  BY <1>2, <1>3, InductionUpTo
<1>5. N \in 0 .. N
  OBVIOUS
<1> QED
  BY <1>1, <1>4, <1>5 DEF Fine

-----------------------------------------------------------------------------
(* Where a position stands after one step. *)

\* A mapped position of a text is here, or a deleted one would be.
IsAt(result, id, at, affinity) ==
    result \in {Mapped(TextPosition(id, at, affinity)), Deleted(TextPosition(id, at, affinity))}

\* What is left of an old text is where it was, seen from a position that was at the offset.
StandsAt(result, old, text, offset, at, affinity) ==
    /\ at \in 0 .. Len(text)
    /\ \A i \in 1 .. Len(text), j \in 1 .. Len(old) :
          text[i] = old[j] =>
              /\ j <= offset => i <= at
              /\ j > offset => i > at
              /\ affinity = "before" /\ j = offset => result.status = "mapped" /\ i = at
              /\ affinity # "before" /\ j = offset + 1 => result.status = "mapped" /\ i = at + 1

Stands(result, old, text, id, offset, affinity) ==
    \E at \in Nat :
        /\ IsAt(result, id, at, affinity)
        /\ StandsAt(result, old, text, offset, at, affinity)

\* The place a step gives to an offset, and whether what was there was replaced.
PlaceAfter(start, end, length, at, affinity) ==
    IF at < start THEN at
    ELSE IF at > end THEN at + (length - (end - start))
    ELSE IF start = end THEN IF affinity = "before" THEN start ELSE start + length
    ELSE IF at = start THEN start
    ELSE IF at = end THEN start + length
    ELSE IF affinity = "before" THEN start ELSE start + length

\* What a step does to a position, n being the length of its text.
Leads(step, id, n, at, affinity) ==
    LET place == PlaceAfter(step.start, step.end, step.length, at, affinity)
        moved == mapStep(step, TextPosition(id, at, affinity))
    IN  /\ place \in 0 .. (n - (step.end - step.start)) + step.length
        /\ IF step.start < at /\ at < step.end
           THEN moved = Deleted(TextPosition(id, place, affinity))
           ELSE moved = Mapped(TextPosition(id, place, affinity))

\* A step leads from an offset of the text to one of the text it makes.
LEMMA StepLeads ==
    ASSUME NEW id, NEW affinity, NEW n \in Nat, NEW start \in 0 .. n, NEW end \in start .. n,
           NEW length \in Nat, (n - (end - start)) + length <= MaxUtf16Offset,
           NEW step, step = [node |-> id, start |-> start, end |-> end, length |-> length],
           NEW at \in 0 .. n
    PROVE  Leads(step, id, n, at, affinity)
<1> DEFINE place == PlaceAfter(start, end, length, at, affinity)
           position == TextPosition(id, at, affinity)
           moved == mapStep(step, position)
<1> SUFFICES /\ place \in 0 .. (n - (end - start)) + length
             /\ IF start < at /\ at < end
                THEN moved = Deleted(TextPosition(id, place, affinity))
                ELSE moved = Mapped(TextPosition(id, place, affinity))
  BY DEF Leads
<1>1. MaxUtf16Offset \in Nat
  BY OffsetAssumption
<1>2. place \in 0 .. (n - (end - start)) + length
  BY DEF PlaceAfter
<1>3. IsOffset(place)
  BY <1>1, <1>2 DEF IsOffset
<1>4. \A x : [position EXCEPT !.offset = x] = TextPosition(id, x, affinity)
  BY DEF TextPosition
<1>5. /\ position.kind = "text" /\ position.node = id /\ position.offset = at
      /\ position.affinity = affinity
  BY DEF TextPosition
<1>6. /\ step.node = id /\ step.start = start /\ step.end = end /\ step.length = length
      /\ replacementEnd(step) = start + length
      /\ offsetDelta(step) = length - (end - start)
  BY DEF replacementEnd, offsetDelta
<1>7. LeansTo(position, step) = IF affinity = "before" THEN start ELSE start + length
  BY <1>5, <1>6 DEF LeansTo
<1> HIDE DEF position
<1>8. at < start => place = at /\ TextPosition(id, at, affinity) = position
  BY DEF PlaceAfter, position
<1>9. CASE start = end
  <2>1. moved = mapInsertion(step, position)
    BY <1>5, <1>6, <1>9 DEF mapStep
  <2>2. CASE at < start
    BY <1>5, <1>6, <1>8, <1>9, <2>1, <2>2 DEF mapInsertion
  <2>3. CASE at > start
    <3>1. moved = mapTextPositionToOffset(position, at + (length - (end - start)))
      BY <1>5, <1>6, <2>1, <2>3 DEF mapInsertion
    <3>2. place = at + (length - (end - start))
      BY <1>9, <2>3 DEF PlaceAfter
    <3> HIDE DEF place, moved
    <3>3. moved = Mapped(TextPosition(id, place, affinity))
      BY <1>3, <1>4, <3>1, <3>2 DEF mapTextPositionToOffset
    <3> QED
      BY <1>2, <1>9, <3>3
  <2>4. CASE at = start
    <3>1. moved = mapTextPositionToOffset(position, LeansTo(position, step))
      BY <1>5, <1>6, <2>1, <2>4 DEF mapInsertion
    <3>2. place = LeansTo(position, step)
      BY <1>7, <1>9, <2>4 DEF PlaceAfter
    <3> HIDE DEF place, moved
    <3>3. moved = Mapped(TextPosition(id, place, affinity))
      BY <1>3, <1>4, <3>1, <3>2 DEF mapTextPositionToOffset
    <3> QED
      BY <1>2, <1>9, <3>3
  <2> QED
    BY <2>2, <2>3, <2>4
<1>10. CASE start # end
  <2>1. moved = mapNonEmptyReplacement(step, position)
    BY <1>5, <1>6, <1>10 DEF mapStep
  <2>2. CASE at < start
    BY <1>5, <1>6, <1>8, <2>1, <2>2 DEF mapNonEmptyReplacement
  <2>3. CASE at = start \/ at = end \/ at > end
    <3>1. moved = mapTextPositionToOffset(position, place)
      <4>1. CASE at = start
        BY <1>5, <1>6, <1>10, <2>1, <4>1 DEF mapNonEmptyReplacement, PlaceAfter
      <4>2. CASE at = end
        BY <1>5, <1>6, <1>10, <2>1, <4>2 DEF mapNonEmptyReplacement, PlaceAfter
      <4>3. CASE at > end
        BY <1>5, <1>6, <1>10, <2>1, <4>3 DEF mapNonEmptyReplacement, PlaceAfter
      <4> QED
        BY <2>3, <4>1, <4>2, <4>3
    <3>2. ~ (start < at /\ at < end)
      BY <2>3
    <3> HIDE DEF place, moved
    <3>3. moved = Mapped(TextPosition(id, place, affinity))
      BY <1>3, <1>4, <3>1 DEF mapTextPositionToOffset
    <3> QED
      BY <1>2, <3>2, <3>3
  <2>4. CASE start < at /\ at < end
    <3>1. place = LeansTo(position, step)
      BY <1>7, <1>10, <2>4 DEF PlaceAfter
    <3>2. moved = Deleted(IF IsOffset(LeansTo(position, step))
                          THEN [position EXCEPT !.offset = LeansTo(position, step)]
                          ELSE NoPosition)
      BY <1>5, <1>6, <1>10, <2>1, <2>4 DEF mapNonEmptyReplacement
    <3> HIDE DEF place, moved
    <3>3. moved = Deleted(TextPosition(id, place, affinity))
      BY <1>3, <1>4, <3>1, <3>2
    <3> QED
      BY <1>2, <2>4, <3>3
  <2> QED
    BY <2>2, <2>3, <2>4
<1> QED
  BY <1>9, <1>10

\* A unit moves from place i to place k, and a position beside it goes with it.
GoesAlong(place, lost, at, affinity, i, k) ==
    /\ i <= at => k <= place
    /\ i > at => k > place
    /\ affinity = "before" /\ i = at => ~ lost /\ k = place
    /\ affinity # "before" /\ i = at + 1 => ~ lost /\ k = place + 1

\* A place goes the way of the units beside it.
LEMMA PlaceStays ==
    ASSUME NEW affinity, NEW n \in Nat, NEW start \in 0 .. n, NEW end \in start .. n,
           NEW length \in Nat, NEW at \in 0 .. n, NEW i \in 1 .. n, NEW k \in Nat,
           \/ i <= start /\ k = i
           \/ i > end /\ k = i + (length - (end - start))
    PROVE  GoesAlong(PlaceAfter(start, end, length, at, affinity), start < at /\ at < end,
                     at, affinity, i, k)
BY DEF PlaceAfter, GoesAlong

\* Where the units of a spliced text come from.
ComesFrom(spliced, text, start, end, inserted) ==
    LET length == Len(inserted)
    IN  /\ Len(spliced) = (Len(text) - (end - start)) + length
        /\ \A k \in 1 .. Len(spliced) :
              \/ \E j \in 1 .. length : spliced[k] = inserted[j]
              \/ \E i \in 1 .. Len(text) :
                    /\ spliced[k] = text[i]
                    /\ \/ i <= start /\ k = i
                       \/ i > end /\ k = i + (length - (end - start))

\* A unit of a spliced text was inserted, or stood before or behind what was replaced.
LEMMA UnitOfSplice ==
    ASSUME NEW text, isString(text), NEW inserted, isString(inserted),
           NEW start \in 0 .. Len(text), NEW end \in start .. Len(text)
    PROVE  ComesFrom(Splice(text, start, end, inserted), text, start, end, inserted)
<1> DEFINE S == Range(text) \cup Range(inserted)
           spliced == Splice(text, start, end, inserted)
           n == Len(text)
           length == Len(inserted)
<1>1. text \in Seq(S) /\ inserted \in Seq(S)
  BY SeqMonotonic DEF isString
<1>2. n \in Nat /\ length \in Nat
  BY LenProperties DEF isString
<1> HIDE DEF S, spliced
<1>3. IsSpliced(spliced, S, text, start, end, inserted)
  BY <1>1, SpliceProperties DEF spliced
<1>4. Len(spliced) = (n - (end - start)) + length
  BY <1>3 DEF IsSpliced
<1>5. ASSUME NEW k \in 1 .. Len(spliced)
      PROVE  \/ \E j \in 1 .. length : spliced[k] = inserted[j]
             \/ \E i \in 1 .. n :
                   /\ spliced[k] = text[i]
                   /\ \/ i <= start /\ k = i
                      \/ i > end /\ k = i + (length - (end - start))
  <2>1. CASE k <= start
    <3>1. k \in 1 .. start /\ k \in 1 .. n
      BY <1>2, <2>1
    <3>2. spliced[k] = text[k]
      BY <1>3, <3>1 DEF IsSpliced
    <3> QED
      BY <2>1, <3>1, <3>2
  <2>2. CASE ~ (k <= start) /\ k <= start + length
    <3> DEFINE j == k - start
    <3>1. j \in 1 .. length /\ start + j = k
      BY <1>2, <2>2
    <3> HIDE DEF j
    <3>2. spliced[k] = inserted[j]
      BY <1>3, <3>1 DEF IsSpliced
    <3> QED
      BY <3>1, <3>2
  <2>3. CASE ~ (k <= start) /\ ~ (k <= start + length)
    <3> DEFINE i == (k - length) + (end - start)
    <3>1. /\ i \in end + 1 .. n /\ (i - (end - start)) + length = k /\ i \in 1 .. n
          /\ i > end /\ k = i + (length - (end - start))
      BY <1>2, <1>4, <2>3
    <3> HIDE DEF i
    <3>2. spliced[k] = text[i]
      BY <1>3, <3>1 DEF IsSpliced
    <3> QED
      BY <3>1, <3>2
  <2> QED
    BY <2>1, <2>2, <2>3
<1> QED
  BY <1>4, <1>5 DEF spliced, ComesFrom

\* A step on the text keeps a position where it stood among what is left of the old text.
LEMMA StepStands ==
    ASSUME NEW old, NEW text, isString(text), NEW inserted, isString(inserted),
           \A i \in 1 .. Len(inserted), j \in 1 .. Len(old) : inserted[i] # old[j],
           Len(old) \in Nat,
           NEW start \in 0 .. Len(text), NEW end \in start .. Len(text),
           Len(Splice(text, start, end, inserted)) <= MaxUtf16Offset,
           NEW id, NEW step,
           step = [node |-> id, start |-> start, end |-> end, length |-> Len(inserted)],
           NEW offset \in Nat, NEW affinity, NEW result,
           Stands(result, old, text, id, offset, affinity)
    PROVE  Stands(mapPositionResultThrough(result, step), old,
                  Splice(text, start, end, inserted), id, offset, affinity)
<1> DEFINE n == Len(text)
           length == Len(inserted)
           spliced == Splice(text, start, end, inserted)
           N == (n - (end - start)) + length
           after == mapPositionResultThrough(result, step)
           Behind(i, k) == \/ i <= start /\ k = i
                           \/ i > end /\ k = i + (length - (end - start))
<1>1. /\ n \in Nat /\ length \in Nat /\ start \in 0 .. n /\ end \in start .. n
      /\ step = [node |-> id, start |-> start, end |-> end, length |-> length]
  BY LenProperties DEF isString
<1>2. /\ Len(spliced) = N
      /\ \A k \in 1 .. Len(spliced) :
            \/ \E j \in 1 .. length : spliced[k] = inserted[j]
            \/ \E i \in 1 .. n : spliced[k] = text[i] /\ Behind(i, k)
  <2>1. ComesFrom(spliced, text, start, end, inserted)
    BY UnitOfSplice
  <2> HIDE DEF spliced
  <2> QED
    BY <2>1 DEF ComesFrom
<1> HIDE DEF spliced
<1>3. N <= MaxUtf16Offset
  BY <1>2 DEF spliced
<1>4. PICK at \in Nat :
        /\ IsAt(result, id, at, affinity)
        /\ StandsAt(result, old, text, offset, at, affinity)
  BY DEF Stands
<1> DEFINE position == TextPosition(id, at, affinity)
           place == PlaceAfter(start, end, length, at, affinity)
           there == TextPosition(id, place, affinity)
           moved == mapStep(step, position)
           lost == start < at /\ at < end
<1>5. at \in 0 .. n
  BY <1>4 DEF StandsAt
<1>6. /\ place \in 0 .. N
      /\ moved = IF lost THEN Deleted(there) ELSE Mapped(there)
  <2>1. Leads(step, id, n, at, affinity)
    <3> HIDE DEF n, length
    <3> QED
      BY <1>1, <1>3, <1>5, StepLeads
  <2> HIDE DEF n, length
  <2> QED
    BY <1>1, <2>1 DEF Leads
<1>7. position # NoPosition
  BY DEF TextPosition, NoPosition
<1>8. \A i \in 1 .. n, k \in 1 .. N :
        Behind(i, k) => GoesAlong(place, lost, at, affinity, i, k)
  <2> TAKE i \in 1 .. n, k \in 1 .. N
  <2> HAVE Behind(i, k)
  <2>1. k \in Nat
    BY <1>1
  <2> HIDE DEF n, length
  <2> QED
    BY <1>1, <1>5, <2>1, PlaceStays
<1> HIDE DEF position, place, moved, there
<1>9. after = IF result = Mapped(position) THEN moved
              ELSE Deleted(IF lost THEN moved.nearest ELSE moved.position)
  <2>1. result \in {Mapped(position), Deleted(position)}
    BY <1>4 DEF IsAt, position
  <2>2. Mapped(position) # Deleted(position)
    BY DEF Mapped, Deleted
  <2>3. moved.status = IF lost THEN "deleted" ELSE "mapped"
    BY <1>6 DEF Mapped, Deleted
  <2>4. CASE result = Mapped(position)
    <3>1. result.status = "mapped" /\ result.position = position
      BY <2>4 DEF Mapped
    <3>2. after = mapStep(step, position)
      BY <3>1 DEF mapPositionResultThrough
    <3> QED
      BY <2>4, <3>2 DEF moved
  <2>5. CASE result = Deleted(position)
    <3>1. result.status = "deleted" /\ result.nearest = position
      BY <2>5 DEF Deleted
    <3>2. after = mapDeletedPositionThrough(position, step)
      BY <3>1 DEF mapPositionResultThrough
    <3>3. after = CASE moved.status = "mapped" -> Deleted(moved.position)
                    [] moved.status = "deleted" -> Deleted(moved.nearest)
                    [] OTHER -> Deleted(NoPosition)
      BY <1>7, <3>2 DEF mapDeletedPositionThrough, moved
    <3> QED
      BY <2>2, <2>3, <2>5, <3>3
  <2> QED
    BY <2>1, <2>4, <2>5
<1>10. /\ after \in {Mapped(there), Deleted(there)}
       /\ result.status = "mapped" /\ ~ lost => after.status = "mapped"
  <2>1. CASE lost
    <3>1. moved = Deleted(there) /\ moved.nearest = there
      BY <1>6, <2>1 DEF Deleted
    <3> QED
      BY <1>9, <2>1, <3>1
  <2>2. CASE ~ lost
    <3>1. moved = Mapped(there) /\ moved.position = there /\ moved.status = "mapped"
      BY <1>6, <2>2 DEF Mapped
    <3>2. result.status = "mapped" => result = Mapped(position)
      BY <1>4 DEF IsAt, position, Deleted
    <3> QED
      BY <1>9, <2>2, <3>1, <3>2
  <2> QED
    BY <2>1, <2>2
<1> HIDE DEF after
<1>11. IsAt(after, id, place, affinity)
  BY <1>10 DEF IsAt, there
<1>12. StandsAt(after, old, spliced, offset, place, affinity)
  <2>1. place \in 0 .. Len(spliced)
    BY <1>2, <1>6
  <2>2. ASSUME NEW k \in 1 .. Len(spliced), NEW j \in 1 .. Len(old), spliced[k] = old[j]
        PROVE  /\ j <= offset => k <= place
               /\ j > offset => k > place
               /\ affinity = "before" /\ j = offset => after.status = "mapped" /\ k = place
               /\ affinity # "before" /\ j = offset + 1 =>
                    after.status = "mapped" /\ k = place + 1
    <3>1. PICK i \in 1 .. n : spliced[k] = text[i] /\ Behind(i, k)
      BY <1>2, <2>2
    <3>2. /\ j <= offset => i <= at
          /\ j > offset => i > at
          /\ affinity = "before" /\ j = offset => result.status = "mapped" /\ i = at
          /\ affinity # "before" /\ j = offset + 1 => result.status = "mapped" /\ i = at + 1
      BY <1>4, <2>2, <3>1 DEF StandsAt
    <3>3. GoesAlong(place, lost, at, affinity, i, k)
      BY <1>2, <1>8, <3>1
    <3> HIDE DEF lost
    <3> QED
      BY <1>10, <3>2, <3>3 DEF GoesAlong
  <2> QED
    BY <2>1, <2>2 DEF StandsAt
<1>13. place \in Nat
  BY <1>6
<1>14. Stands(after, old, spliced, id, offset, affinity)
  BY <1>11, <1>12, <1>13 DEF Stands
<1> QED
  BY <1>14 DEF after, spliced

-----------------------------------------------------------------------------
(* Where a position stands after the Operations of a Transaction. *)

\* The texts after so many of the Operations.
EditedUpTo(texts, c, operations, n) == Edited(texts, c, SubSeq(operations, 1, n))

\* The texts after each of the Operations are edited by the next one.
LEMMA EditedStepByStep ==
    ASSUME NEW texts, NEW c, NEW S, NEW operations \in Seq(S)
    PROVE  /\ EditedUpTo(texts, c, operations, 0) = texts
           /\ \A k \in 1 .. Len(operations) :
                 EditedUpTo(texts, c, operations, k) =
                    EditedBy(EditedUpTo(texts, c, operations, k - 1), operations[k], c, k)
           /\ EditedUpTo(texts, c, operations, Len(operations)) = Edited(texts, c, operations)
<1> DEFINE N == Len(operations)
<1>1. N \in Nat
  BY LenProperties
<1>2. PICK text : EditsAre(text, texts, c, operations)
  BY EditedInOrder
<1>3. ASSUME NEW n \in 0 .. N
      PROVE  EditedUpTo(texts, c, operations, n) = text[n]
  <2> DEFINE first == SubSeq(operations, 1, n)
  <2>1. first \in Seq(S) /\ Len(first) = n /\ \A k \in 1 .. n : first[k] = operations[k]
    <3>1. 1 \in 1 .. N + 1 /\ n \in 1 - 1 .. N /\ n \in Nat
      BY <1>1
    <3>2. /\ first \in Seq(S)
          /\ Len(first) = IF 1 <= n THEN n - 1 + 1 ELSE 0
          /\ \A k \in 1 .. n - 1 + 1 : first[k] = operations[1 + k - 1]
      BY <3>1, SubSeqProperties
    <3> QED
      BY <3>1, <3>2
  <2> HIDE DEF first
  <2>2. PICK f : EditsAre(f, texts, c, first)
    BY <2>1, EditedInOrder
  <2> DEFINE Same == {k \in 0 .. n : f[k] = text[k]}
  <2>3. n \in Nat /\ 0 \in Same
    BY <1>1, <1>2, <2>2 DEF EditsAre
  <2>4. ASSUME NEW k \in 0 .. n - 1, k \in Same
        PROVE  k + 1 \in Same
    <3>1. k + 1 \in 1 .. n /\ k + 1 \in 1 .. N /\ k + 1 \in 0 .. n /\ (k + 1) - 1 = k
      BY <1>1
    <3>2. /\ f[k + 1] = EditedBy(f[k], first[k + 1], c, k + 1)
          /\ text[k + 1] = EditedBy(text[k], operations[k + 1], c, k + 1)
      BY <1>2, <2>1, <2>2, <3>1 DEF EditsAre
    <3>3. f[k] = text[k] /\ first[k + 1] = operations[k + 1]
      BY <2>1, <2>4, <3>1
    <3> QED
      BY <3>1, <3>2, <3>3
  <2> HIDE DEF Same
  <2>5. \A k \in 0 .. n : k \in Same
    BY <2>3, <2>4, InductionUpTo
  <2>6. n \in Same
    BY <2>3, <2>5
  <2> QED
    BY <2>1, <2>2, <2>6 DEF Same, EditedUpTo, EditsAre, first
<1>4. EditedUpTo(texts, c, operations, 0) = texts
  BY <1>1, <1>2, <1>3 DEF EditsAre
<1>5. ASSUME NEW k \in 1 .. N
      PROVE  EditedUpTo(texts, c, operations, k) =
                EditedBy(EditedUpTo(texts, c, operations, k - 1), operations[k], c, k)
  <2>1. k \in 0 .. N /\ k - 1 \in 0 .. N
    BY <1>1
  <2> QED
    BY <1>2, <1>3, <2>1 DEF EditsAre
<1>6. SubSeq(operations, 1, N) = operations
  OBVIOUS
<1> QED
  BY <1>4, <1>5, <1>6 DEF EditedUpTo

\* What a text node of the tree has become.
IsValueOf(texts, node, new) ==
    /\ new.id = node.id /\ new.type = "text"
    /\ new.value = Units(texts[node.id])
    /\ isString(texts[node.id])
    /\ Len(new.value) = Len(texts[node.id])

\* A text node of the tree has the units of its text.
LEMMA ValuesOfTexts ==
    ASSUME NEW tree, IsTree(tree), NEW next, NEW texts, TextsAre(tree, next, texts),
           NEW p \in DOMAIN tree, tree[p].type = "text"
    PROVE  IsValueOf(texts, tree[p], next[p])
<1> DEFINE node == tree[p]
           new == next[p]
           text == texts[node.id]
<1>1. IsNode(node) /\ node.type = "text"
  BY DEF IsTree
<1>2. isString(text) /\ Alike(new, [node EXCEPT !.value = Units(text)])
  BY DEF TextsAre
<1> HIDE DEF node, new, text
<1>3. {"id", "type", "value"} \subseteq DOMAIN node
  BY <1>1 DEF IsNode
<1>4. new.id = node.id /\ new.type = "text" /\ new.value = Units(text)
  BY <1>1, <1>2, <1>3 DEF Alike
<1>5. Len(Units(text)) = Len(text)
  <2>1. Len(text) \in Nat /\ DOMAIN text = 1 .. Len(text)
    BY <1>2, LenProperties DEF isString
  <2> DEFINE units == Units(text)
  <2>2. units = [i \in 1 .. Len(text) |-> units[i]]
    BY <2>1 DEF Units
  <2> HIDE DEF units
  <2>3. Len(units) = Len(text)
    BY <2>1, <2>2, LenOfFunction
  <2> QED
    BY <2>3 DEF units
<1> QED
  BY <1>2, <1>4, <1>5 DEF IsValueOf, node, new, text

\* The first Operations of a chain are a chain.
LEMMA ChainOfTheFirst ==
    ASSUME NEW S, NEW operations \in Seq(S), NEW trees, NEW n \in 0 .. Len(operations),
           \A k \in 1 .. Len(operations) : Replaces(trees[k - 1], trees[k], operations[k])
    PROVE  Chain(trees[0], trees[n], SubSeq(operations, 1, n))
<1> DEFINE first == SubSeq(operations, 1, n)
           N == Len(operations)
<1>1. N \in Nat
  BY LenProperties
<1>2. Len(first) = n /\ \A k \in 1 .. n : first[k] = operations[k]
  <2>1. 1 \in 1 .. N + 1 /\ n \in 1 - 1 .. N /\ n \in Nat
    BY <1>1
  <2>2. /\ Len(first) = IF 1 <= n THEN n - 1 + 1 ELSE 0
        /\ \A k \in 1 .. n - 1 + 1 : first[k] = operations[1 + k - 1]
    BY <2>1, SubSeqProperties
  <2> QED
    BY <2>1, <2>2
<1> HIDE DEF first
<1>3. \A k \in 1 .. Len(first) : Replaces(trees[k - 1], trees[k], first[k])
  <2> TAKE k \in 1 .. Len(first)
  <2>1. k \in 1 .. n /\ k \in 1 .. N
    BY <1>1, <1>2
  <2> QED
    BY <1>2, <2>1
<1> QED
  BY <1>2, <1>3 DEF Chain, first

\* The texts after the first Operations are those of the tree they make.
LEMMA TextsUpTo ==
    ASSUME NEW tree, IsTree(tree), NEW operations, IsOperations(operations),
           NEW trees, NEW texts, TextsAre(tree, trees[0], texts), NEW c,
           \A k \in 1 .. Len(operations) : Replaces(trees[k - 1], trees[k], operations[k]),
           NEW n \in 0 .. Len(operations)
    PROVE  TextsAre(tree, trees[n], EditedUpTo(texts, c, operations, n))
<1> DEFINE first == SubSeq(operations, 1, n)
           N == Len(operations)
           S == Range(operations)
<1>1. operations \in Seq(S) /\ \A k \in 1 .. N : isString(operations[k].replacement)
  BY DEF IsOperations
<1> HIDE DEF S
<1>2. N \in Nat
  BY <1>1, LenProperties
<1>3. Chain(trees[0], trees[n], first)
  BY <1>1, ChainOfTheFirst
<1>4. IsOperations(first)
  <2>1. 1 \in 1 .. N + 1 /\ n \in 1 - 1 .. N /\ n \in Nat
    BY <1>2
  <2>2. /\ first \in Seq(S)
        /\ Len(first) = IF 1 <= n THEN n - 1 + 1 ELSE 0
        /\ \A k \in 1 .. n - 1 + 1 : first[k] = operations[1 + k - 1]
    BY <1>1, <2>1, SubSeqProperties
  <2> HIDE DEF first
  <2>3. Len(first) = n /\ \A k \in 1 .. n : first[k] = operations[k]
    BY <2>1, <2>2
  <2>4. first = [k \in 1 .. n |-> first[k]] /\ n \in Nat
    BY <2>1, <2>2, <2>3
  <2>5. first \in Seq(Range(first))
    BY <2>4, LenOfFunction
  <2>6. \A k \in 1 .. Len(first) : isString(first[k].replacement)
    BY <1>1, <1>2, <2>3
  <2> QED
    BY <2>5, <2>6 DEF IsOperations
<1> HIDE DEF first
<1>5. TextsAre(tree, trees[n], Edited(texts, c, first))
  BY <1>3, <1>4, TextsFollowTheChain
<1> QED
  BY <1>5 DEF EditedUpTo, first

\* What is left of an old text can be told from what was inserted since.
IsOriginal(old) == Len(old) \in Nat /\ \A j \in 1 .. Len(old) : old[j].by[2] = 0

\* The text of no node becomes longer than the largest offset while the Operations are made.
StaysShort(texts, c, operations, id) ==
    \A n \in 0 .. Len(operations) :
        Len(EditedUpTo(texts, c, operations, n)[id]) <= MaxUtf16Offset

\* The steps of a Transaction.
StepsOf(operations) == [i \in DOMAIN operations |-> positionMapStep(operations[i])]

\* A step on another node leaves a position where it is.
LEMMA StepElsewhere ==
    ASSUME NEW step, NEW id, step.node # id, NEW result, NEW at, NEW affinity,
           IsAt(result, id, at, affinity)
    PROVE  mapPositionResultThrough(result, step) = result
<1> DEFINE position == TextPosition(id, at, affinity)
<1>1. position.node = id /\ position # NoPosition
  BY DEF TextPosition, NoPosition
<1> HIDE DEF position
<1>2. mapStep(step, position) = Mapped(position)
  BY <1>1 DEF mapStep
<1>3. CASE result = Mapped(position)
  <2>1. result.status = "mapped" /\ result.position = position
    BY <1>3 DEF Mapped
  <2> QED
    BY <1>2, <1>3, <2>1 DEF mapPositionResultThrough
<1>4. CASE result = Deleted(position)
  <2>1. result.status = "deleted" /\ result.nearest = position
    BY <1>4 DEF Deleted
  <2>2. mapPositionResultThrough(result, step) = mapDeletedPositionThrough(position, step)
    BY <2>1 DEF mapPositionResultThrough
  <2>3. Mapped(position).status = "mapped" /\ Mapped(position).position = position
    BY DEF Mapped
  <2> QED
    BY <1>1, <1>2, <1>4, <2>2, <2>3 DEF mapDeletedPositionThrough
<1> QED
  BY <1>3, <1>4 DEF IsAt, position

\* Nothing that an Operation inserts is taken for a part of the old text.
LEMMA InsertionIsNew ==
    ASSUME NEW operation, isString(operation.replacement), NEW c \in Nat \ {0}, NEW k,
           NEW old, IsOriginal(old)
    PROVE  LET inserted == Insertion(operation, c, k)
           IN  /\ Len(inserted) = Len(operation.replacement)
               /\ \A i \in 1 .. Len(inserted), j \in 1 .. Len(old) : inserted[i] # old[j]
<1> DEFINE value == operation.replacement
           inserted == Insertion(operation, c, k)
<1>1. Len(value) \in Nat /\ DOMAIN value = 1 .. Len(value)
  BY LenProperties DEF isString
<1>2. \A i \in DOMAIN value : inserted[i].by = <<operation.textNodeId, c, k>>
  BY DEF Insertion
<1>3. inserted = [i \in DOMAIN value |-> inserted[i]]
  BY DEF Insertion
<1> HIDE DEF value, inserted
<1>4. inserted = [i \in 1 .. Len(value) |-> inserted[i]]
  BY <1>1, <1>3
<1>5. Len(inserted) = Len(value)
  BY <1>1, <1>4, LenOfFunction
<1>6. ASSUME NEW i \in 1 .. Len(inserted), NEW j \in 1 .. Len(old)
      PROVE  inserted[i] # old[j]
  <2>1. inserted[i].by[2] = c
    BY <1>1, <1>2, <1>5
  <2>2. old[j].by[2] = 0
    BY DEF IsOriginal
  <2> QED
    BY <2>1, <2>2
<1> QED
  BY <1>5, <1>6 DEF inserted, value

\* The Operations of a Transaction keep a position where it stood.
LEMMA TransactionStands ==
    ASSUME NEW tree, IsTree(tree), NEW operations, IsOperations(operations),
           NEW first, NEW next, Chain(first, next, operations),
           NEW texts, TextsAre(tree, first, texts), NEW c \in Nat \ {0},
           NEW p \in DOMAIN tree, tree[p].type = "text",
           StaysShort(texts, c, operations, tree[p].id),
           NEW old, IsOriginal(old), NEW offset \in Nat, NEW affinity, NEW start,
           Stands(start, old, texts[tree[p].id], tree[p].id, offset, affinity),
           NEW result, ResultsOf(StepsOf(operations), start, result)
    PROVE  Stands(result[Len(operations)], old, Edited(texts, c, operations)[tree[p].id],
                  tree[p].id, offset, affinity)
<1> DEFINE N == Len(operations)
           id == tree[p].id
           Text(n) == EditedUpTo(texts, c, operations, n)
           S == Range(operations)
           steps == StepsOf(operations)
<1>1. operations \in Seq(S) /\ \A n \in 1 .. N : isString(operations[n].replacement)
  BY DEF IsOperations
<1> HIDE DEF S
<1>2. N \in Nat /\ DOMAIN operations = 1 .. N
  BY <1>1, LenProperties
<1>3. PICK trees :
        /\ trees[0] = first
        /\ trees[N] = next
        /\ \A n \in 1 .. N : Replaces(trees[n - 1], trees[n], operations[n])
  BY DEF Chain
<1>4. \A n \in 0 .. N : TextsAre(tree, trees[n], Text(n))
  <2> HIDE DEF N
  <2> QED
    BY <1>3, TextsUpTo DEF N
<1>5. /\ Text(0) = texts
      /\ \A k \in 1 .. N : Text(k) = EditedBy(Text(k - 1), operations[k], c, k)
      /\ Text(N) = Edited(texts, c, operations)
  BY <1>1, EditedStepByStep
<1>6. Len(steps) = N /\ \A n \in 1 .. N : steps[n] = positionMapStep(operations[n])
  <2>1. /\ steps = [n \in 1 .. N |-> steps[n]]
        /\ \A n \in 1 .. N : steps[n] = positionMapStep(operations[n])
    BY <1>2 DEF StepsOf
  <2> HIDE DEF steps, N
  <2> QED
    BY <1>2, <2>1, LenOfFunction
<1> HIDE DEF steps, Text
<1> DEFINE Fine == {n \in 0 .. N : Stands(result[n], old, Text(n)[id], id, offset, affinity)}
<1>7. 0 \in Fine
  BY <1>2, <1>5 DEF ResultsOf
<1>8. ASSUME NEW n \in 0 .. N - 1, n \in Fine
      PROVE  n + 1 \in Fine
  <2> DEFINE operation == operations[n + 1]
             inserted == Insertion(operation, c, n + 1)
             text == Text(n)[id]
             step == steps[n + 1]
             before == result[n]
             from == operation.startUtf16Offset
             to == operation.endUtf16Offset
  <2>1. n \in 0 .. N /\ n + 1 \in 0 .. N /\ n + 1 \in 1 .. N /\ (n + 1) - 1 = n
    BY <1>2
  <2>2. Stands(before, old, text, id, offset, affinity)
    BY <1>8
  <2>3. /\ result[n + 1] = mapPositionResultThrough(before, step)
        /\ step = positionMapStep(operation)
    BY <1>6, <2>1 DEF ResultsOf, steps
  <2>4. Text(n + 1) = EditedBy(Text(n), operation, c, n + 1)
    BY <1>5, <2>1
  <2>5. isString(operation.replacement)
    BY <1>1, <2>1
  <2>6. TextsAre(tree, trees[n], Text(n)) /\ TextsAre(tree, trees[n + 1], Text(n + 1))
    BY <1>4, <2>1
  <2>7. Replaces(trees[n], trees[n + 1], operation)
    BY <1>3, <2>1
  <2>8. id \in DOMAIN Text(n) /\ DOMAIN trees[n] = DOMAIN tree
    BY <2>6 DEF TextsAre
  <2>9. CASE operation.textNodeId # id
    <3>1. Text(n + 1)[id] = text
      BY <2>4, <2>8, <2>9 DEF EditedBy
    <3>2. PICK at \in Nat : IsAt(before, id, at, affinity)
      BY <2>2 DEF Stands
    <3>3. step.node # id
      BY <2>3, <2>9 DEF positionMapStep
    <3> HIDE DEF step, before
    <3>4. result[n + 1] = before
      BY <2>3, <3>2, <3>3, StepElsewhere
    <3> QED
      BY <2>1, <2>2, <3>1, <3>4
  <2>10. CASE operation.textNodeId = id
    <3>1. IsValueOf(Text(n), tree[p], trees[n][p])
      BY <2>6, ValuesOfTexts
    <3>2. /\ from \in 0 .. Len(trees[n][p].value)
          /\ to \in from .. Len(trees[n][p].value)
      BY <2>7, <2>8, <2>10, <3>1 DEF Replaces, IsValueOf
    <3>3. /\ isString(text) /\ from \in 0 .. Len(text) /\ to \in from .. Len(text)
      BY <3>1, <3>2 DEF IsValueOf
    <3>4. Text(n + 1)[id] = Splice(text, from, to, inserted)
      BY <2>4, <2>8, <2>10 DEF EditedBy
    <3>5. /\ isString(inserted)
          /\ Len(inserted) = Len(operation.replacement)
          /\ \A i \in 1 .. Len(inserted), j \in 1 .. Len(old) : inserted[i] # old[j]
      <4> HIDE DEF operation
      <4>1. isString(inserted)
        BY <2>5, InsertionIsString
      <4> QED
        BY <2>5, <4>1, InsertionIsNew
    <3>6. step = [node |-> id, start |-> from, end |-> to, length |-> Len(inserted)]
      BY <2>3, <2>10, <3>5 DEF positionMapStep
    <3>7. Len(Splice(text, from, to, inserted)) <= MaxUtf16Offset
      <4>1. Len(Text(n + 1)[id]) <= MaxUtf16Offset
        BY <2>1 DEF StaysShort, Text
      <4> QED
        BY <3>4, <4>1
    <3> HIDE DEF text, inserted, step, before, from, to, id
    <3>8. Stands(mapPositionResultThrough(before, step), old, Splice(text, from, to, inserted),
                 id, offset, affinity)
      <4>1. Len(old) \in Nat
        BY DEF IsOriginal
      <4> QED
        BY <2>2, <3>3, <3>5, <3>6, <3>7, <4>1, StepStands
    <3> QED
      BY <2>1, <2>3, <3>4, <3>8
  <2> QED
    BY <2>9, <2>10
<1> HIDE DEF Fine
<1>9. \A n \in 0 .. N : n \in Fine
  BY <1>2, <1>7, <1>8, InductionUpTo
<1>10. N \in Fine
  BY <1>2, <1>9
<1> QED
  BY <1>5, <1>10 DEF Fine

-----------------------------------------------------------------------------
(* The claims of a derived document, and the map it is derived with. *)

\* What a Transaction has to make of the claims: each is rebased along the map.
IsRebased(claims, next, map, id) ==
    /\ \A i \in DOMAIN claims : mapPosition(map, claims[i].anchor.primary).status = "mapped"
    /\ \E stamp : next = [i \in DOMAIN claims |-> rebaseClaim(claims[i], map, id, stamp)]

\* What the kernel accepts has the map of its Operations, and the claims along that map.
KernelRebases(options, map, r) ==
    r.type = "ok" =>
        /\ r.value.positionMap = map
        /\ r.value.replayInput = options.request
        /\ r.value.snapshot.document.revisionId = options.nextRevisionId
        /\ IsRebased(options.headSnapshot.document.academicGraph.claims,
                     r.value.snapshot.document.academicGraph.claims, map, options.nextRevisionId)

\* A result with the rebased claims is one.
LEMMA PreparedIsRebased ==
    ASSUME NEW options, IsDocument(options.headSnapshot.document), NEW map,
           rebase(options, map).type = "ok", NEW root, NEW hashed,
           NEW operations, NEW applications, NEW d
    PROVE  KernelRebases(options, map,
              Prepared(options,
                       NextSnapshot(options,
                                    NextDocument(options, root, rebase(options, map).value),
                                    hashed),
                       operations, applications, map, d))
<1> DEFINE claims == rebase(options, map).value
           before == options.headSnapshot.document.academicGraph.claims
           document == options.headSnapshot.document
           middle == NextDocument(options, root, claims)
           snapshot == NextSnapshot(options, middle, hashed)
           r == Prepared(options, snapshot, operations, applications, map, d)
<1>1. IsRebased(before, claims, map, options.nextRevisionId)
  <2> DEFINE id == options.nextRevisionId
             stamp == <<options.object, 1>>
  <2>1. rebaseClaimAnchors(before, map, id, stamp).type = "ok"
    BY DEF rebase
  <2>2. claims = rebaseClaimAnchors(before, map, id, stamp).value
    BY DEF rebase
  <2> HIDE DEF claims, before, id, stamp
  <2>3. ~ (\E i \in DOMAIN before :
              mapPosition(map, before[i].anchor.primary).status # "mapped")
    BY <2>1 DEF rebaseClaimAnchors, errorResult
  <2>4. claims = [i \in DOMAIN before |-> rebaseClaim(before[i], map, id, stamp)]
    BY <2>2, <2>3 DEF rebaseClaimAnchors, Ok
  <2>5. IsRebased(before, claims, map, id)
    BY <2>3, <2>4 DEF IsRebased
  <2> QED
    BY <2>5 DEF id
<1>2. /\ r.value.positionMap = map
      /\ r.value.replayInput = options.request
      /\ r.value.snapshot = snapshot
  <2> HIDE DEF snapshot
  <2> QED
    BY DEF Prepared, Ok
<1> HIDE DEF claims
<1>3. middle = [document EXCEPT !.revisionId = options.nextRevisionId, !.root = root,
                                !.academicGraph.claims = claims]
  BY DEF NextDocument
<1> HIDE DEF middle
<1>4. IsDocument(document)
  OBVIOUS
<1> HIDE DEF document, r
<1>5. /\ middle.revisionId = options.nextRevisionId
      /\ middle.academicGraph.claims = claims
      /\ {"revisionId", "academicGraph"} \subseteq DOMAIN middle
  BY <1>3, <1>4 DEF IsDocument
<1>6. /\ snapshot.document.revisionId = options.nextRevisionId
      /\ snapshot.document.academicGraph.claims = claims
  BY <1>5 DEF NextSnapshot
<1> HIDE DEF snapshot, before
<1>7. KernelRebases(options, map, r)
  BY <1>1, <1>2, <1>6 DEF KernelRebases, before
<1> QED
  BY <1>7 DEF r, snapshot, middle, claims

\* Transactions of one Operation.
LEMMA SingleIsRebased ==
    ASSUME NEW options, IsDocument(options.headSnapshot.document), NEW c, NEW entry,
           NEW index, NEW operation, NEW map
    PROVE  KernelRebases(options, map,
              prepareReplaceTextTransaction(options, c, index, entry, operation, map))
<1> DEFINE tree == options.headSnapshot.document.root
           result == applyReplaceText(tree, index, operation, <<options.object, 1>>)
           r == prepareReplaceTextTransaction(options, c, index, entry, operation, map)
           rebased == rebase(options, map)
           applied == result.value
           document == NextDocument(options, applied.root, rebased.value)
           hashed == computeNextDocumentHash(document, entry, applied,
                                             options.headSnapshot.document.academicGraph.claims)
           snapshot == NextSnapshot(options, document, hashed)
           nextIndex == withNodeReplacements(index, applied.updatedNodes)
           d == IF CanReplace(index, applied.updatedNodes)
                THEN stageDerived(c, options.headSnapshot, snapshot, nextIndex, hashed)
                ELSE c
           done == hashSingle(options, c, index, entry, operation, applied, map, document)
<1>1. r.type = "ok" => rebased.type = "ok" /\ r = done
  <2> HIDE DEF done, r, result, rebased
  <2>1. r = IF ~ validateReplaceTextOptions(positionMapStep(operation))
            THEN Thrown
            ELSE IF result.type = "ok"
            THEN IF rebased.type = "ok" THEN done ELSE rebased
            ELSE result
    BY DEF prepareReplaceTextTransaction, onOk, done, r, result, rebased
  <2> QED
    BY <2>1 DEF Thrown
<1>2. done = Prepared(options, snapshot, <<operation>>, <<applied>>, map, d)
  BY DEF hashSingle, finishSingle, stageVerifiedDerivedSnapshot
<1> HIDE DEF done, r, d, applied
<1>3. ASSUME rebased.type = "ok"
      PROVE  KernelRebases(options, map, done)
  <2> HIDE DEF hashed
  <2> QED
    BY <1>2, <1>3, PreparedIsRebased
<1> HIDE DEF rebased
<1>4. KernelRebases(options, map, r)
  BY <1>1, <1>3 DEF KernelRebases
<1> QED
  BY <1>4 DEF r

\* Transactions of several Operations.
LEMMA MultipleIsRebased ==
    ASSUME NEW options, IsDocument(options.headSnapshot.document), NEW c, NEW index,
           NEW operations, NEW map
    PROVE  KernelRebases(options, map,
              prepareMultipleReplaceTextTransaction(options, c, index, operations, map))
<1> DEFINE tree == options.headSnapshot.document.root
           result == applyInOrder(tree, index, operations, options.object)
           r == prepareMultipleReplaceTextTransaction(options, c, index, operations, map)
           rebased == rebase(options, map)
           draft == result.value
           document == NextDocument(options, draft.root, rebased.value)
           hashed == hashPatched(document, Unpatched)
           snapshot == NextSnapshot(options, document, hashed)
           d == stageDerived(c, options.headSnapshot, snapshot,
                             createDocumentIndexFromValidatedSnapshot(document), hashed)
           prepared == Prepared(options, snapshot, operations, draft.applications, map, d)
           done == hashMultiple(options, c, operations, draft, map, document)
<1>1. r.type = "ok" => rebased.type = "ok" /\ r = done
  <2> HIDE DEF done, r, result, rebased
  <2>1. r = IF result.type = "ok"
            THEN IF rebased.type = "ok" THEN done ELSE rebased
            ELSE result
    BY DEF prepareMultipleReplaceTextTransaction, onOk, done, r, result, rebased
  <2> QED
    BY <2>1
<1>2. done.type = "ok" => done = prepared
  <2> HIDE DEF document, draft, prepared
  <2>1. done = IF validateDocumentSnapshot(document) # "ok"
               THEN errorResult("snapshot-invalid") ELSE prepared
    BY DEF hashMultiple, finishMultiple, document, draft, prepared
  <2> HIDE DEF done
  <2> QED
    BY <2>1 DEF errorResult
<1> HIDE DEF done, r, d, draft
<1>3. ASSUME rebased.type = "ok"
      PROVE  KernelRebases(options, map, prepared)
  <2> HIDE DEF hashed
  <2> QED
    BY <1>3, PreparedIsRebased
<1> HIDE DEF rebased, prepared
<1>4. KernelRebases(options, map, r)
  BY <1>1, <1>2, <1>3 DEF KernelRebases
<1> QED
  BY <1>4 DEF r

\* Whatever the kernel accepts has the map of its Operations, and the claims along that map.
LEMMA KernelIsRebased ==
    ASSUME NEW options, IsDocument(options.headSnapshot.document), NEW c
    PROVE  KernelRebases(options, positionMapOf(options, options.request.json.operations),
                         prepareKernelTransaction(options, c))
<1> DEFINE document == options.headSnapshot.document
           entry == getVerified(c, options.headSnapshot.object)
           index == readDocumentIndex(document, entry)
           request == options.request
           operations == request.json.operations
           map == positionMapOf(options, operations)
           r == prepareKernelTransaction(options, c)
<1>1. r.type = "ok" => r = prepareOperations(options, c, index, entry, operations)
  <2> DEFINE decoded == decodeStrictTransactionV1(request)
             consistent == validateHeadConsistency(options)
             headed == IF entry # NoEntry THEN "ok" ELSE validateUncachedHead(document)
             preconditions == validatePreconditions(request.json.preconditions, document, index)
             supported == readSupportedOperations(operations)
             made == prepareOperations(options, c, index, entry, operations)
  <2>1. r = onVerdict(andThen(decoded, andThen(consistent, headed)),
                      onVerdict(andThen(preconditions, supported), made))
    BY DEF prepareKernelTransaction, prepareOnHead, prepareOnIndex
  <2> HIDE DEF r, decoded, consistent, headed, preconditions, supported, made
  <2>2. r.type = "ok" => r = made
    BY <2>1 DEF onVerdict, andThen, errorResult
  <2> QED
    BY <2>2 DEF made
<1> HIDE DEF r, entry, index, map
<1>2. CASE r.type # "ok"
  <2>1. KernelRebases(options, map, r)
    BY <1>2 DEF KernelRebases
  <2> QED
    BY <2>1 DEF r, map
<1>3. CASE r.type = "ok"
  <2>1. \/ r = prepareMultipleReplaceTextTransaction(options, c, index, operations, map)
        \/ r = prepareReplaceTextTransaction(options, c, index, entry, operations[1], map)
    BY <1>1, <1>3 DEF prepareOperations, map
  <2>2. KernelRebases(options, map, r)
    BY <2>1, MultipleIsRebased, SingleIsRebased
  <2> QED
    BY <2>2 DEF r, map
<1> QED
  BY <1>2, <1>3

-----------------------------------------------------------------------------
(* Every Revision has the map and the claims of its Transaction. *)

\* The Revision that a document is opened as.
FirstCommit(document) ==
    [revision |-> [id |-> document.revisionId, uri |-> Uri, sequence |-> 0,
                   transactionId |-> "initial", documentHash |-> document.documentHash],
     snapshot |-> [object |-> 1, document |-> document]]

\* A Revision has its ID, the map of its Operations, and its claims along that map.
FollowsFrom(previous, commit) ==
    /\ commit.positionMap =
            [from |-> previous.revision.id, to |-> commit.revision.id,
             leaves |-> <<StepsOf(commit.replayInput.json.operations)>>]
    /\ commit.snapshot.document.revisionId = commit.revision.id
    /\ IsRebased(previous.snapshot.document.academicGraph.claims,
                 commit.snapshot.document.academicGraph.claims,
                 commit.positionMap, commit.revision.id)

\* The history starts from a canonical Snapshot and goes on along the maps.
HistoryIsMapped ==
    /\ history # <<>> =>
          \E document \in Documents :
              isCanonicalSnapshot(document) /\ history[1] = FirstCommit(document)
    /\ \A c \in 2 .. Len(history) : FollowsFrom(history[c - 1], history[c])

\* What a step does to the history.
HistoryGrows ==
    \/ history' = history
    \/ \E document \in Documents :
          isCanonicalSnapshot(document) /\ history' = <<FirstCommit(document)>>
    \/ \E commit :
          /\ phase = "open"
          /\ FollowsFrom(head, commit)
          /\ history' = Append(history, commit)

\* A commit that the kernel prepared on the head follows from it.
LEMMA PreparedFollowsFromHead ==
    ASSUME EInv, phase = "open", NEW request, NEW id,
           prepareKernelTransaction(kernelOptions(request, id), cache).type = "ok"
    PROVE  FollowsFrom(head, createKernelCommitPreparer(request, id,
                prepareKernelTransaction(kernelOptions(request, id), cache).value))
<1> DEFINE options == kernelOptions(request, id)
           r == prepareKernelTransaction(options, cache)
           commit == createKernelCommitPreparer(request, id, r.value)
           operations == request.json.operations
           map == positionMapOf(options, operations)
<1>1. /\ options.headSnapshot = headSnapshot
      /\ options.headRevision = headRevision
      /\ options.request = request
      /\ options.nextRevisionId = id
  BY DEF kernelOptions
<1>2. IsDocument(headSnapshot.document)
  <2>1. /\ Len(history) \in DOMAIN history
        /\ head = history[Len(history)]
    BY HeadIsMade DEF EInv, IInv
  <2> QED
    BY <2>1 DEF EInv, HistoryIsDerived, headSnapshot
<1>3. r.type = "ok"
  OBVIOUS
<1> HIDE DEF options
<1>4. KernelRebases(options, positionMapOf(options, options.request.json.operations), r)
  BY <1>1, <1>2, KernelIsRebased
<1>5. map = [from |-> head.revision.id, to |-> id, leaves |-> <<StepsOf(operations)>>]
  <2> HIDE DEF operations
  <2> QED
    BY <1>1 DEF positionMapOf, createReplaceTextTransactionPositionMap, StepsOf, headRevision
<1> HIDE DEF r
<1>6. /\ r.value.positionMap = map
      /\ r.value.replayInput = request
      /\ r.value.snapshot.document.revisionId = id
      /\ IsRebased(headSnapshot.document.academicGraph.claims,
                   r.value.snapshot.document.academicGraph.claims, map, id)
  BY <1>1, <1>3, <1>4 DEF KernelRebases
<1>7. /\ commit.revision.id = id
      /\ commit.snapshot = r.value.snapshot
      /\ commit.positionMap = map
      /\ commit.replayInput = request
  <2> HIDE DEF map
  <2> QED
    BY <1>6 DEF createKernelCommitPreparer
<1> HIDE DEF commit, map
<1>8. FollowsFrom(head, commit)
  BY <1>5, <1>6, <1>7 DEF FollowsFrom, headSnapshot
<1> QED
  BY <1>8 DEF commit, r, options

\* The history stays, starts, or goes on with a commit that follows from the head.
LEMMA StepOfTheHistory ==
    ASSUME EInv, [Next]_vars
    PROVE  HistoryGrows
<1>1. CASE UNCHANGED history
  BY <1>1 DEF HistoryGrows
<1>2. ASSUME NEW document \in Documents, Open(document)
      PROVE  HistoryGrows
  <2>1. isCanonicalSnapshot(document) /\ history' = <<FirstCommit(document)>>
    BY <1>2 DEF Open, FirstCommit
  <2> QED
    BY <2>1 DEF HistoryGrows
<1>3. ASSUME NEW commit, NEW staged, phase = "open", FollowsFrom(head, commit),
             installPreparedCommit(commit, staged)
      PROVE  HistoryGrows
  BY <1>3 DEF installPreparedCommit, HistoryGrows
<1>4. ASSUME NEW request, Apply(request)
      PROVE  HistoryGrows
  <2> DEFINE id == RevisionIds[objects]
             result == prepareKernelTransaction(kernelOptions(request, id), cache)
             commit == createKernelCommitPreparer(request, id, result.value)
  <2>1. /\ phase = "open"
        /\ result.type = "ok"
        /\ installPreparedCommit(commit, result.value.cache)
    BY <1>4 DEF Apply, installDerived
  <2>2. FollowsFrom(head, commit)
    BY <2>1, PreparedFollowsFromHead
  <2> HIDE DEF result, commit
  <2> QED
    BY <1>3, <2>1, <2>2
<1>5. ASSUME NEW request, NEW commit, ApplyPrepared(request, commit)
      PROVE  HistoryGrows
  <2> DEFINE id == commit.revision.id
             result == prepareKernelTransaction(kernelOptions(request, id), cache)
             expected == createKernelCommitPreparer(request, id, result.value)
  <2>1. /\ phase = "open"
        /\ result.type = "ok"
        /\ installExpected(commit, expected, result.value.cache)
    BY <1>5 DEF ApplyPrepared, installRederived
  <2>2. FollowsFrom(head, expected)
    BY <2>1, PreparedFollowsFromHead
  <2> HIDE DEF result, expected
  <2>3. \/ installPreparedCommit(expected, result.value.cache)
        \/ UNCHANGED history
    BY <2>1 DEF installExpected
  <2> QED
    BY <1>1, <1>3, <2>1, <2>2, <2>3
<1>6. ASSUME NEW request, Offer(request)
      PROVE  HistoryGrows
  BY <1>1, <1>6 DEF Offer
<1>7. CASE FinishDispose
  BY <1>1, <1>7 DEF FinishDispose
<1>8. CASE OtherFinishDispose
  BY <1>1, <1>8 DEF OtherFinishDispose
<1>9. CASE UNCHANGED vars
  BY <1>1, <1>9 DEF vars
<1> QED
  BY <1>2, <1>4, <1>5, <1>6, <1>7, <1>8, <1>9 DEF Next

\* The history is mapped, whatever is committed.
LEMMA HistoryStaysMapped ==
    ASSUME EInv, HistoryIsMapped, HistoryGrows
    PROVE  HistoryIsMapped'
<1>1. CASE history' = history
  BY <1>1 DEF HistoryIsMapped
<1>2. ASSUME NEW document \in Documents, isCanonicalSnapshot(document),
             history' = <<FirstCommit(document)>>
      PROVE  HistoryIsMapped'
  <2> DEFINE commit == FirstCommit(document)
  <2>1. history'[1] = commit /\ Len(history') = 1
    <3>1. history' = <<commit>>
      BY <1>2
    <3> HIDE DEF commit
    <3> QED
      BY <3>1
  <2>2. 2 .. Len(history') = {}
    BY <2>1
  <2> QED
    BY <1>2, <2>1, <2>2 DEF HistoryIsMapped
<1>3. ASSUME NEW commit, phase = "open", FollowsFrom(head, commit),
             history' = Append(history, commit)
      PROVE  HistoryIsMapped'
  <2> DEFINE n == Len(history)
             S == {history[i] : i \in DOMAIN history} \cup {commit}
  <2>1. n \in Nat \ {0} /\ DOMAIN history = 1 .. n /\ head = history[n]
    BY <1>3, HeadIsMade DEF EInv, IInv
  <2>2. history \in Seq(S) /\ commit \in S
    <3>1. history \in Seq({history[i] : i \in DOMAIN history})
      BY DEF EInv, HistoryIsDerived
    <3> QED
      BY <3>1
  <2> HIDE DEF S
  <2>3. /\ Len(history') = n + 1
        /\ \A i \in 1 .. n : history'[i] = history[i]
        /\ history'[n + 1] = commit
    BY <1>3, <2>1, <2>2
  <2>4. history # <<>> /\ history'[1] = history[1]
    <3>1. 1 \in 1 .. n
      BY <2>1
    <3>2. Len(<<>>) = 0
      OBVIOUS
    <3> QED
      BY <2>1, <2>3, <3>1, <3>2
  <2> HIDE DEF n
  <2>5. ASSUME NEW c \in 2 .. Len(history')
        PROVE  FollowsFrom(history'[c - 1], history'[c])
    <3>1. CASE c \in 2 .. n
      <4>1. c - 1 \in 1 .. n /\ c \in 1 .. n
        BY <2>1, <3>1
      <4> QED
        BY <2>3, <3>1, <4>1 DEF HistoryIsMapped, n
    <3>2. CASE c = n + 1
      <4>1. c - 1 = n /\ n \in 1 .. n
        BY <2>1, <3>2
      <4>2. history'[c - 1] = head
        BY <2>1, <2>3, <4>1
      <4> QED
        BY <1>3, <2>3, <3>2, <4>2
    <3>3. c \in 2 .. n \/ c = n + 1
      BY <2>1, <2>3
    <3> QED
      BY <3>1, <3>2, <3>3
  <2> QED
    BY <2>4, <2>5 DEF HistoryIsMapped
<1> QED
  BY <1>1, <1>2, <1>3 DEF HistoryGrows

\* Every step keeps what the commits are, and what they follow from.
LEMMA MappedInvariance == Spec => [](EInv /\ HistoryIsMapped)
<1>1. Init => EInv /\ HistoryIsMapped
  <2> SUFFICES ASSUME Init PROVE EInv /\ HistoryIsMapped
    OBVIOUS
  <2>1. history = <<>> /\ Len(history) = 0 /\ 2 .. Len(history) = {}
    BY DEF Init
  <2> QED
    BY <2>1, InitEInv DEF HistoryIsMapped
<1>2. EInv /\ HistoryIsMapped /\ [Next]_vars => HistoryIsMapped'
  BY StepOfTheHistory, HistoryStaysMapped
<1> QED
  BY <1>1, <1>2, EditingInvariance, PTL DEF Spec

-----------------------------------------------------------------------------
(* Sequences of sequences. *)

\* The sequences, appended one after the other.
FlattensTo(seqs, f) ==
    \A i \in 1 .. Len(seqs) : f[i] = IF i = 1 THEN seqs[i] ELSE f[i - 1] \o seqs[i]

\* FlattenSeq() is well defined.
LEMMA FlattenInOrder ==
  ASSUME NEW S, NEW seqs \in Seq(S)
  PROVE  \E f : /\ FlattensTo(seqs, f)
                /\ FlattenSeq(seqs) = IF Len(seqs) = 0 THEN seqs ELSE f[Len(seqs)]
<1> DEFINE N == Len(seqs)
           Next1(f, i) == IF i = 1 THEN seqs[i] ELSE f[i - 1] \o seqs[i]
           Reached == {n \in 0 .. N : \E f : f = [i \in 1 .. n |-> Next1(f, i)]}
<1>1. N \in Nat
  BY LenProperties
<1>2. 0 \in Reached
  <2> DEFINE f == [i \in 1 .. 0 |-> 0]
  <2>1. f = [i \in 1 .. 0 |-> Next1(f, i)]
    OBVIOUS
  <2>2. 0 \in 0 .. N
    BY <1>1
  <2> HIDE DEF f, Next1, N
  <2> QED
    BY <2>1, <2>2
<1>3. ASSUME NEW n \in 0 .. N - 1, n \in Reached
      PROVE  n + 1 \in Reached
  <2>1. PICK f : f = [i \in 1 .. n |-> Next1(f, i)]
    BY <1>3
  <2> DEFINE g == [i \in 1 .. n + 1 |-> IF i <= n THEN f[i] ELSE Next1(f, i)]
  <2>2. ASSUME NEW i \in 1 .. n + 1
        PROVE  g[i] = Next1(g, i)
    <3>1. g[i] = Next1(f, i)
      <4>1. CASE i <= n
        <5>1. i \in 1 .. n
          BY <4>1
        <5>2. f[i] = Next1(f, i)
          BY <2>1, <5>1
        <5> QED
          BY <4>1, <5>2
      <4>2. CASE ~(i <= n)
        BY <4>2
      <4> QED
        BY <4>1, <4>2
    <3>2. CASE i = 1
      BY <3>1, <3>2
    <3>3. CASE i # 1
      <4>1. i - 1 \in 1 .. n
        BY <1>1, <3>3
      <4>2. g[i - 1] = f[i - 1]
        BY <4>1
      <4> QED
        BY <3>1, <3>3, <4>2
    <3> QED
      BY <3>2, <3>3
  <2>3. g = [i \in 1 .. n + 1 |-> Next1(g, i)]
    <3> HIDE DEF Next1
    <3> QED
      BY <2>2
  <2>4. n + 1 \in 0 .. N
    BY <1>1
  <2> HIDE DEF g
  <2> QED
    BY <2>3, <2>4
<1>4. N \in Reached
  <2> HIDE DEF Reached
  <2>1. \A n \in 0 .. N : n \in Reached
    BY <1>1, <1>2, <1>3, InductionUpTo
  <2> QED
    BY <1>1, <2>1
<1> DEFINE flatten == CHOOSE f : f = [i \in 1 .. N |-> Next1(f, i)]
<1>5. flatten = [i \in 1 .. N |-> Next1(flatten, i)]
  BY <1>4
<1>6. FlattenSeq(seqs) = IF N = 0 THEN seqs ELSE flatten[N]
  BY DEF FlattenSeq
<1> HIDE DEF flatten
<1>7. FlattensTo(seqs, flatten)
  BY <1>5 DEF FlattensTo
<1> QED
  BY <1>6, <1>7

\* A sequence of sequences, flattened, ends with the last of them.
LEMMA FlattenAppend ==
  ASSUME NEW S, NEW seqs \in Seq(Seq(S)), NEW last \in Seq(S)
  PROVE  FlattenSeq(Append(seqs, last)) = FlattenSeq(seqs) \o last
<1> DEFINE all == Append(seqs, last)
           N == Len(seqs)
<1>1. /\ all \in Seq(Seq(S))
      /\ N \in Nat
      /\ Len(all) = N + 1
      /\ \A i \in 1 .. N : all[i] = seqs[i]
      /\ all[N + 1] = last
  OBVIOUS
<1>2. PICK f : /\ FlattensTo(seqs, f)
               /\ FlattenSeq(seqs) = IF N = 0 THEN seqs ELSE f[N]
  BY FlattenInOrder
<1> HIDE DEF all
<1>3. PICK g : /\ FlattensTo(all, g)
               /\ FlattenSeq(all) = IF Len(all) = 0 THEN all ELSE g[Len(all)]
  BY <1>1, FlattenInOrder
<1>4. FlattenSeq(all) = g[N + 1]
  BY <1>1, <1>3
<1>5. CASE N = 0
  <2>1. seqs = <<>> /\ FlattenSeq(seqs) = <<>>
    BY <1>2, <1>5, EmptySeq
  <2>2. g[1] = last
    BY <1>1, <1>3, <1>5 DEF FlattensTo
  <2>3. <<>> \o last = last
    OBVIOUS
  <2> QED
    BY <1>4, <1>5, <2>1, <2>2, <2>3 DEF all
<1>6. CASE N # 0
  <2> DEFINE Same == {n \in 0 .. N : n # 0 => f[n] = g[n]}
  <2>1. 0 \in Same
    BY <1>1
  <2>2. ASSUME NEW n \in 0 .. N - 1, n \in Same
        PROVE  n + 1 \in Same
    <3>1. n + 1 \in 1 .. N /\ n + 1 \in 1 .. N + 1 /\ (n + 1) - 1 = n
      BY <1>1
    <3>2. /\ f[n + 1] = IF n + 1 = 1 THEN seqs[n + 1] ELSE f[n] \o seqs[n + 1]
          /\ g[n + 1] = IF n + 1 = 1 THEN all[n + 1] ELSE g[n] \o all[n + 1]
      BY <1>1, <1>2, <1>3, <3>1 DEF FlattensTo
    <3>3. all[n + 1] = seqs[n + 1]
      BY <1>1, <3>1
    <3>4. n + 1 # 1 => f[n] = g[n]
      BY <2>2
    <3>5. f[n + 1] = g[n + 1]
      BY <3>2, <3>3, <3>4
    <3> QED
      BY <3>1, <3>5
  <2>3. f[N] = g[N]
    <3> HIDE DEF Same
    <3>1. \A n \in 0 .. N : n \in Same
      BY <1>1, <2>1, <2>2, InductionUpTo
    <3> QED
      BY <1>1, <1>6, <3>1 DEF Same
  <2>4. N + 1 \in 1 .. N + 1 /\ N + 1 # 1 /\ (N + 1) - 1 = N
    BY <1>1, <1>6
  <2>5. g[N + 1] = g[N] \o last
    BY <1>1, <1>3, <2>4 DEF FlattensTo
  <2> QED
    BY <1>2, <1>4, <1>6, <2>3, <2>5 DEF all
<1> QED
  BY <1>5, <1>6

-----------------------------------------------------------------------------
(* The map from one Revision to another. *)

\* The maps of the Revisions, composed one after the other.
ComposedBy(f, from, to) ==
    /\ f[from + 1] = history[from + 1].positionMap
    /\ \A c \in from + 2 .. to : f[c] = compose(f[c - 1], history[c].positionMap)
    /\ Composed(from, to) = f[to]

\* The map to a Revision is composed one Revision after the other.
LEMMA ComposedInOrder ==
    ASSUME NEW from \in Nat, NEW to \in Nat, from + 1 <= to
    PROVE  \E f : ComposedBy(f, from, to)
<1> DEFINE L == from + 1
           N == to - L
           First == history[from + 1].positionMap
           Step(f, c) == IF c = from + 1
                         THEN First ELSE compose(f[c - 1], history[c].positionMap)
           Reached == {n \in 0 .. N : \E f : f = [i \in L .. L + n |-> Step(f, i)]}
<1>1. N \in Nat /\ L \in Nat /\ L + N = to
  OBVIOUS
<1>2. 0 \in Reached
  <2> DEFINE f == [i \in L .. L |-> First]
  <2>1. f = [i \in L .. L + 0 |-> Step(f, i)]
    BY <1>1
  <2>2. 0 \in 0 .. N
    BY <1>1
  <2> HIDE DEF f, Step, N, L
  <2> QED
    BY <2>1, <2>2
<1>3. ASSUME NEW n \in 0 .. N - 1, n \in Reached
      PROVE  n + 1 \in Reached
  <2>1. PICK f : f = [i \in L .. L + n |-> Step(f, i)]
    BY <1>3
  <2> DEFINE g == [i \in L .. L + (n + 1) |-> IF i <= L + n THEN f[i] ELSE Step(f, i)]
  <2>2. ASSUME NEW i \in L .. L + (n + 1)
        PROVE  g[i] = Step(g, i)
    <3>1. CASE i = L
      <4>1. f[L] = Step(f, L)
        BY <1>1, <2>1
      <4> QED
        BY <1>1, <3>1, <4>1
    <3>2. CASE i # L
      <4>1. i - 1 \in L .. L + n
        BY <1>1, <3>2
      <4>2. g[i - 1] = f[i - 1]
        BY <1>1, <4>1
      <4>3. Step(g, i) = Step(f, i)
        <5> HIDE DEF g
        <5> QED
          BY <3>2, <4>2
      <4>4. CASE i <= L + n
        <5>1. i \in L .. L + n
          BY <1>1, <4>4
        <5>2. f[i] = Step(f, i)
          BY <2>1, <5>1
        <5> HIDE DEF Step
        <5> QED
          BY <4>3, <4>4, <5>2
      <4>5. CASE ~ (i <= L + n)
        <5> HIDE DEF Step
        <5> QED
          BY <4>3, <4>5
      <4> QED
        BY <4>4, <4>5
    <3> QED
      BY <3>1, <3>2
  <2>3. g = [i \in L .. L + (n + 1) |-> Step(g, i)]
    <3> HIDE DEF Step
    <3> QED
      BY <2>2
  <2>4. n + 1 \in 0 .. N
    BY <1>1
  <2> HIDE DEF g, Step, N, L
  <2> QED
    BY <2>3, <2>4
<1>4. N \in Reached
  <2> HIDE DEF Reached
  <2>1. \A n \in 0 .. N : n \in Reached
    BY <1>1, <1>2, <1>3, InductionUpTo
  <2> QED
    BY <1>1, <2>1
<1> DEFINE composed == CHOOSE f : f = [c \in from + 1 .. to |-> Step(f, c)]
<1>5. composed = [c \in from + 1 .. to |-> Step(composed, c)]
  <2>1. PICK f : f = [i \in L .. L + N |-> Step(f, i)]
    BY <1>4
  <2>2. f = [c \in from + 1 .. to |-> Step(f, c)]
    <3> HIDE DEF Step
    <3> QED
      BY <1>1, <2>1
  <2> HIDE DEF Step
  <2> QED
    BY <2>2
<1>6. Composed(from, to) = composed[to]
  BY DEF Composed
<1> HIDE DEF composed
<1>7. composed[from + 1] = history[from + 1].positionMap
  BY <1>1, <1>5
<1>8. \A c \in from + 2 .. to : composed[c] = compose(composed[c - 1], history[c].positionMap)
  BY <1>1, <1>5
<1> QED
  BY <1>6, <1>7, <1>8 DEF ComposedBy

OperationsOf(c) == history[c].replayInput.json.operations

\* The steps of the map to a Revision, one Transaction after the other.
StepsAre(F, S, from, to) ==
    /\ F[from] = <<>>
    /\ \A c \in from + 1 .. to :
          /\ StepsOf(OperationsOf(c)) \in Seq(S)
          /\ F[c - 1] \in Seq(S)
          /\ F[c] = F[c - 1] \o StepsOf(OperationsOf(c))
    /\ F[to] = FlattenSeq(Composed(from, to).leaves)
    /\ Composed(from, to).to = history[to].revision.id

\* The history is a sequence.
LEMMA HistoryIsASequence ==
    ASSUME EInv
    PROVE  Len(history) \in Nat /\ DOMAIN history = 1 .. Len(history)
<1> DEFINE S == {history[i] : i \in DOMAIN history}
<1>1. history \in Seq(S)
  BY DEF EInv, HistoryIsDerived
<1> HIDE DEF S
<1> QED
  BY <1>1

\* The steps of a Transaction are a sequence as long as its Operations.
LEMMA StepsOfOperations ==
    ASSUME NEW operations, IsOperations(operations)
    PROVE  /\ StepsOf(operations) \in Seq(Range(StepsOf(operations)))
           /\ Len(StepsOf(operations)) = Len(operations)
           /\ Len(operations) \in Nat
<1> DEFINE steps == StepsOf(operations)
           n == Len(operations)
<1>1. n \in Nat /\ DOMAIN operations = 1 .. n
  BY LenProperties DEF IsOperations
<1>2. steps = [i \in 1 .. n |-> steps[i]]
  BY <1>1 DEF StepsOf
<1> HIDE DEF steps, n
<1>3. steps \in Seq(Range(steps)) /\ Len(steps) = n
  BY <1>1, <1>2, LenOfFunction
<1> QED
  BY <1>1, <1>3 DEF steps, n

\* The map of one sequence of steps, and the map that goes on with another one.
LEMMA FlattenedLeaves ==
    ASSUME NEW S, NEW steps \in Seq(S)
    PROVE  /\ <<steps>> \in Seq(Seq(S))
           /\ FlattenSeq(<<steps>>) = <<>> \o steps
           /\ \A leaves \in Seq(Seq(S)) :
                 /\ leaves \o <<steps>> \in Seq(Seq(S))
                 /\ FlattenSeq(leaves \o <<steps>>) = FlattenSeq(leaves) \o steps
<1> DEFINE T == Seq(S)
<1>1. steps \in T
  OBVIOUS
<1>2. /\ <<steps>> \in Seq(T)
      /\ <<>> \in Seq(T)
      /\ <<steps>> = Append(<<>>, steps)
      /\ \A leaves \in Seq(T) :
            /\ leaves \o <<steps>> \in Seq(T)
            /\ leaves \o <<steps>> = Append(leaves, steps)
  <2> HIDE DEF T
  <2>1. <<steps>> \in Seq(T) /\ <<>> \in Seq(T) /\ <<steps>> = Append(<<>>, steps)
    BY <1>1
  <2>2. ASSUME NEW leaves \in Seq(T)
        PROVE  leaves \o <<steps>> \in Seq(T) /\ leaves \o <<steps>> = Append(leaves, steps)
    BY <1>1, <2>1
  <2> QED
    BY <2>1, <2>2
<1>3. FlattenSeq(<<>>) = <<>>
  <2> DEFINE none == <<>>
  <2>1. none \in Seq(T) /\ Len(none) = 0
    OBVIOUS
  <2> HIDE DEF none, T
  <2>2. FlattenSeq(none) = none
    BY <2>1, FlattenInOrder
  <2> QED
    BY <2>2 DEF none
<1>4. ASSUME NEW leaves \in Seq(T)
      PROVE  FlattenSeq(Append(leaves, steps)) = FlattenSeq(leaves) \o steps
  BY <1>4, FlattenAppend
<1> HIDE DEF T
<1>5. FlattenSeq(<<steps>>) = <<>> \o steps
  BY <1>2, <1>3, <1>4
<1>6. ASSUME NEW leaves \in Seq(T)
      PROVE  FlattenSeq(leaves \o <<steps>>) = FlattenSeq(leaves) \o steps
  BY <1>2, <1>4
<1> QED
  BY <1>2, <1>5, <1>6 DEF T

\* The map from one Revision to another makes the steps of the Transactions between them.
LEMMA MapOfSteps ==
    ASSUME EInv, HistoryIsMapped, NEW from \in Nat \ {0}, NEW to \in Nat, from < to,
           to <= Len(history)
    PROVE  \E F, S : StepsAre(F, S, from, to)
<1> DEFINE Steps(c) == StepsOf(OperationsOf(c))
           S == UNION {Range(Steps(c)) : c \in from + 1 .. to}
           N == to - (from + 1)
<1>1. /\ N \in Nat
      /\ from + 1 + N = to
      /\ from + 1 \in Nat
      /\ \A c \in from + 1 .. to : c \in 2 .. Len(history)
  BY HistoryIsASequence
<1>2. ASSUME NEW c \in from + 1 .. to
      PROVE  /\ Steps(c) \in Seq(S)
             /\ history[c].positionMap.to = history[c].revision.id
             /\ history[c].positionMap.leaves = <<Steps(c)>>
  <2>1. c \in 2 .. Len(history)
    BY <1>1
  <2>2. IsOperations(OperationsOf(c))
    BY <2>1 DEF EInv, HistoryIsDerived, OperationsOf
  <2>3. Steps(c) \in Seq(Range(Steps(c)))
    BY <2>2, StepsOfOperations
  <2>4. Range(Steps(c)) \subseteq S
    OBVIOUS
  <2> HIDE DEF S
  <2>5. FollowsFrom(history[c - 1], history[c])
    BY <2>1 DEF HistoryIsMapped
  <2>6. Steps(c) \in Seq(S)
    BY <2>3, <2>4, SeqMonotonic
  <2> QED
    BY <2>5, <2>6 DEF FollowsFrom, OperationsOf
<1> HIDE DEF S, Steps
<1>3. PICK f : ComposedBy(f, from, to)
  BY <1>1, ComposedInOrder
<1> DEFINE Fine(c) == /\ f[c].leaves \in Seq(Seq(S))
                      /\ f[c].to = history[c].revision.id
                      /\ FlattenSeq(f[c].leaves) \in Seq(S)
           AllFine == {n \in 0 .. N : Fine(from + 1 + n)}
<1>4. /\ Fine(from + 1)
      /\ FlattenSeq(f[from + 1].leaves) = <<>> \o Steps(from + 1)
  <2>1. from + 1 \in from + 1 .. to
    BY <1>1
  <2>2. f[from + 1] = history[from + 1].positionMap
    BY <1>3 DEF ComposedBy
  <2>3. Steps(from + 1) \in Seq(S)
    BY <1>2, <2>1
  <2>4. <<>> \o Steps(from + 1) \in Seq(S)
    BY <2>3
  <2>5. /\ f[from + 1].to = history[from + 1].revision.id
        /\ f[from + 1].leaves = <<Steps(from + 1)>>
    BY <1>2, <2>1, <2>2
  <2> DEFINE steps == Steps(from + 1)
  <2> HIDE DEF steps
  <2>6. /\ <<steps>> \in Seq(Seq(S))
        /\ FlattenSeq(<<steps>>) = <<>> \o steps
    BY <2>3, FlattenedLeaves DEF steps
  <2> QED
    BY <2>4, <2>5, <2>6 DEF steps
<1>5. ASSUME NEW c \in from + 2 .. to, Fine(c - 1)
      PROVE  /\ Fine(c)
             /\ FlattenSeq(f[c].leaves) = FlattenSeq(f[c - 1].leaves) \o Steps(c)
  <2> DEFINE steps == Steps(c)
             leaves == f[c - 1].leaves
  <2>1. c \in from + 1 .. to
    BY <1>1
  <2>2. /\ steps \in Seq(S)
        /\ history[c].positionMap.to = history[c].revision.id
        /\ history[c].positionMap.leaves = <<steps>>
    BY <1>2, <2>1
  <2>3. f[c] = compose(f[c - 1], history[c].positionMap)
    BY <1>3 DEF ComposedBy
  <2>4. f[c].to = history[c].revision.id /\ f[c].leaves = leaves \o <<steps>>
    BY <2>2, <2>3 DEF compose
  <2>5. leaves \in Seq(Seq(S)) /\ FlattenSeq(leaves) \in Seq(S)
    BY <1>5
  <2> HIDE DEF steps, leaves
  <2>6. /\ leaves \o <<steps>> \in Seq(Seq(S))
        /\ FlattenSeq(leaves \o <<steps>>) = FlattenSeq(leaves) \o steps
    BY <2>2, <2>5, FlattenedLeaves
  <2>7. FlattenSeq(leaves) \o steps \in Seq(S)
    BY <2>2, <2>5
  <2> QED
    BY <2>4, <2>6, <2>7 DEF steps, leaves
<1>6. \A n \in 0 .. N : n \in AllFine
  <2> HIDE DEF Fine
  <2>1. 0 \in AllFine
    BY <1>1, <1>4
  <2>2. ASSUME NEW n \in 0 .. N - 1, n \in AllFine
        PROVE  n + 1 \in AllFine
    <3> DEFINE c == from + 1 + (n + 1)
    <3>1. c \in from + 2 .. to /\ c - 1 = from + 1 + n /\ n + 1 \in 0 .. N
      BY <1>1
    <3>2. Fine(c - 1)
      BY <2>2, <3>1
    <3>3. Fine(c)
      BY <1>5, <3>1, <3>2
    <3> QED
      BY <3>1, <3>3
  <2> HIDE DEF AllFine
  <2> QED
    BY <1>1, <2>1, <2>2, InductionUpTo
<1>7. \A c \in from + 1 .. to : Fine(c)
  <2> HIDE DEF Fine
  <2> TAKE c \in from + 1 .. to
  <2>1. c - (from + 1) \in 0 .. N /\ from + 1 + (c - (from + 1)) = c
    BY <1>1
  <2> QED
    BY <1>6, <2>1
<1> DEFINE F == [c \in from .. to |-> IF c = from THEN <<>> ELSE FlattenSeq(f[c].leaves)]
<1>8. F[from] = <<>> /\ \A c \in from + 1 .. to : F[c] = FlattenSeq(f[c].leaves)
  BY <1>1
<1> HIDE DEF F
<1>9. ASSUME NEW c \in from + 1 .. to
      PROVE  F[c - 1] \in Seq(S) /\ F[c] = F[c - 1] \o Steps(c)
  <2>1. CASE c = from + 1
    <3>1. F[c - 1] = <<>>
      BY <1>1, <1>8, <2>1
    <3> QED
      BY <1>4, <1>8, <2>1, <3>1
  <2>2. CASE c # from + 1
    <3>1. c \in from + 2 .. to /\ c - 1 \in from + 1 .. to
      BY <1>1, <2>2
    <3> QED
      BY <1>5, <1>7, <1>8, <3>1
  <2> QED
    BY <2>1, <2>2
<1>10. to \in from + 1 .. to
  BY <1>1
<1>11. /\ F[to] = FlattenSeq(Composed(from, to).leaves)
       /\ Composed(from, to).to = history[to].revision.id
  BY <1>3, <1>7, <1>8, <1>10 DEF ComposedBy
<1>12. StepsAre(F, S, from, to)
  BY <1>2, <1>8, <1>9, <1>11 DEF StepsAre, Steps
<1> QED
  BY <1>12

-----------------------------------------------------------------------------
(* What a canonical Snapshot has been checked for. *)

\* The checks of a canonical Snapshot, one by one.
IsChecked(document) ==
    LET authors == authorEntityIds(document.metadata)
        known == authors \cup treeEntityIds(document.root)
        graph == document.academicGraph
    IN  /\ validateTree(document.root, authors) = "ok"
        /\ collectAcademicEntityIds(graph, known) = "ok"
        /\ validateTreeReferences(document.root, graph, known \cup academicEntityIds(graph)) = "ok"
        /\ validateClaimAnchors(document) = "ok"

\* A canonical Snapshot passed every check.
LEMMA CanonicalIsSound ==
    ASSUME NEW document, isCanonicalSnapshot(document)
    PROVE  IsChecked(document)
<1> DEFINE header == validateDocumentHeader(document)
           content == validateDocumentContent(document)
           authors == authorEntityIds(document.metadata)
           known == authors \cup treeEntityIds(document.root)
           academic == document.academicGraph
           tree == validateTree(document.root, authors)
           rest == validateGraphAndReferences(document, known)
           graph == validateAcademicGraph(academic, known)
           entities == collectAcademicEntityIds(academic, known)
           relations == validateAcademicRelations(academic)
           references == validateTreeReferences(document.root, academic,
                                                known \cup academicEntityIds(academic))
           anchors == validateClaimAnchors(document)
<1>1. andThen(header, content) = "ok"
  BY DEF isCanonicalSnapshot, validateDocumentSnapshot
<1>2. content = "ok"
  <2> HIDE DEF header, content
  <2> QED
    BY <1>1, BothAreOk
<1>3. validateDocumentBody(document) = "ok"
  BY <1>2 DEF validateDocumentContent, andThen
<1>4. andThen(tree, rest) = "ok"
  BY <1>3 DEF validateDocumentBody, validateDocumentRelationships
<1>5. tree = "ok" /\ rest = "ok"
  <2> HIDE DEF tree, rest
  <2> QED
    BY <1>4, BothAreOk
<1>6. andThen(graph, andThen(references, anchors)) = "ok"
  BY <1>5 DEF validateGraphAndReferences
<1>7. graph = "ok" /\ references = "ok" /\ anchors = "ok"
  <2> HIDE DEF graph, references, anchors
  <2> QED
    BY <1>6 DEF andThen
<1>8. andThen(entities, relations) = "ok"
  BY <1>7 DEF validateAcademicGraph
<1>9. entities = "ok"
  <2> HIDE DEF entities, relations
  <2> QED
    BY <1>8, BothAreOk
<1> QED
  BY <1>5, <1>7, <1>9 DEF IsChecked

\* The entities of a graph: their IDs are new and their own, and the claims have their shape.
EntitiesAreChecked(graph, nonAcademic) ==
    LET entities == graph.referenceSnapshots \o graph.evidenceLinks \o graph.claims
    IN  /\ entities \in Seq(Range(entities))
        /\ \A i \in 1 .. Len(entities) :
              /\ entities[i].id \notin nonAcademic
              /\ \A j \in 1 .. i - 1 : entities[j].id # entities[i].id
        /\ \A i \in DOMAIN graph.claims : isValidClaimShape(graph.claims[i])

\* A graph whose arrays are sequences, and whose entities passed.
LEMMA CollectedEntities ==
    ASSUME NEW graph, NEW nonAcademic,
           \A key \in {"referenceSnapshots", "evidenceLinks", "claims"} :
               graph[key] \in Seq(Range(graph[key])),
           collectAcademicEntityIds(graph, nonAcademic) = "ok"
    PROVE  EntitiesAreChecked(graph, nonAcademic)
<1> DEFINE refs == graph.referenceSnapshots
           links == graph.evidenceLinks
           claims == graph.claims
           S == Range(refs) \cup Range(links) \cup Range(claims)
           entities == refs \o links \o claims
           Accepts(i) ==
              IF i <= Len(refs) THEN isValidReferenceSnapshotShape(entities[i])
              ELSE IF i <= Len(refs) + Len(links) THEN isValidEvidenceLinkShape(entities[i])
              ELSE isValidClaimShape(entities[i])
           Verdict(i) ==
              IF entities[i] = Junk \/ ~ Accepts(i)
              THEN "academic-graph-invalid"
              ELSE IF entities[i].id \in nonAcademic
              THEN "duplicate-entity-id"
              ELSE IF \E j \in 1 .. i - 1 : entities[j].id = entities[i].id
              THEN "duplicate-academic-entity-id" ELSE "ok"
           verdicts == [i \in DOMAIN entities |-> Verdict(i)]
<1>1. /\ refs \in Seq(Range(refs))
      /\ links \in Seq(Range(links))
      /\ claims \in Seq(Range(claims))
  OBVIOUS
<1>2. refs \in Seq(S) /\ links \in Seq(S) /\ claims \in Seq(S)
  BY <1>1, SeqMonotonic
<1>3. FirstFailure(verdicts) = "ok"
  BY DEF collectAcademicEntityIds
<1> HIDE DEF refs, links, claims, S
<1>4. /\ entities \in Seq(S)
      /\ Len(entities) = Len(refs) + Len(links) + Len(claims)
      /\ Len(refs) \in Nat /\ Len(links) \in Nat /\ Len(claims) \in Nat
      /\ DOMAIN claims = 1 .. Len(claims)
      /\ \A i \in 1 .. Len(claims) : entities[Len(refs) + Len(links) + i] = claims[i]
  <2> DEFINE first == refs \o links
  <2>1. first \in Seq(S) /\ Len(first) = Len(refs) + Len(links)
    BY <1>2
  <2>2. entities = first \o claims
    OBVIOUS
  <2> HIDE DEF first, entities
  <2> DEFINE a == Len(first)
             b == Len(claims)
  <2>a. a \in Nat /\ b \in Nat
    BY <1>2, <2>1
  <2>b. /\ entities \in Seq(S)
        /\ Len(entities) = a + b
        /\ \A i \in 1 .. a + b : entities[i] = IF i <= a THEN first[i] ELSE claims[i - a]
    <3>1. first \in Seq(S) /\ claims \in Seq(S)
      BY <1>2, <2>1
    <3>2. /\ first \o claims \in Seq(S)
          /\ Len(first \o claims) = a + b
          /\ \A i \in 1 .. a + b :
                (first \o claims)[i] = IF i <= a THEN first[i] ELSE claims[i - a]
      BY <3>1, ConcatProperties
    <3> HIDE DEF a, b
    <3> QED
      BY <2>2, <3>2
  <2> HIDE DEF a, b
  <2>3. \A i \in 1 .. b : entities[a + i] = claims[i]
    <3> TAKE i \in 1 .. b
    <3>1. a + i \in 1 .. a + b /\ ~ (a + i <= a) /\ (a + i) - a = i
      BY <2>a
    <3> QED
      BY <2>b, <3>1
  <2>4. /\ Len(refs) \in Nat /\ Len(links) \in Nat /\ Len(claims) \in Nat
        /\ DOMAIN claims = 1 .. Len(claims)
    BY <1>2
  <2> QED
    BY <2>1, <2>b, <2>3, <2>4 DEF a, b
<1> DEFINE n == Len(entities)
<1>5. n \in Nat /\ DOMAIN entities = 1 .. n
  BY <1>4
<1> HIDE DEF entities, n, Verdict
<1>6. DOMAIN verdicts = 1 .. n /\ \A i \in 1 .. n : verdicts[i] = Verdict(i)
  BY <1>5
<1> HIDE DEF verdicts
<1>7. \A i \in 1 .. n : Verdict(i) = "ok"
  BY <1>3, <1>5, <1>6, NothingFailed
<1>8. ASSUME NEW i \in 1 .. n
      PROVE  /\ Accepts(i)
             /\ entities[i].id \notin nonAcademic
             /\ \A j \in 1 .. i - 1 : entities[j].id # entities[i].id
  <2>1. Verdict(i) = "ok"
    BY <1>7
  <2> HIDE DEF Accepts
  <2> QED
    BY <2>1 DEF Verdict
<1>9. ASSUME NEW i \in DOMAIN claims
      PROVE  isValidClaimShape(claims[i])
  <2> DEFINE k == Len(refs) + Len(links) + i
  <2>1. k \in 1 .. n /\ ~ (k <= Len(refs)) /\ ~ (k <= Len(refs) + Len(links))
    BY <1>4, <1>5 DEF n
  <2>2. entities[k] = claims[i]
    BY <1>4
  <2> HIDE DEF k
  <2> QED
    BY <1>8, <2>1, <2>2
<1>10. entities \in Seq(Range(entities))
  <2>1. entities = [i \in 1 .. n |-> entities[i]]
    BY <1>4, <1>5
  <2> QED
    BY <1>5, <2>1, LenOfFunction
<1> QED
  BY <1>8, <1>9, <1>10 DEF EntitiesAreChecked, entities, n, refs, links, claims

\* What is read of a claim, and what of it moves.
IsClaim(claim) ==
    /\ {"id", "anchor"} \subseteq DOMAIN claim
    /\ {"document", "primary"} \subseteq DOMAIN claim.anchor
    /\ "revisionId" \in DOMAIN claim.anchor.document
    /\ claim.anchor.primary.kind \in {"text", "node-boundary"}
    /\ claim.anchor.primary.kind = "text" =>
          {"kind", "node", "offset", "affinity"} \subseteq DOMAIN claim.anchor.primary

\* A closed object has every key it must have.
LEMMA RequiredKeys ==
    ASSUME NEW object, NEW required, NEW optional, Closed(object, required, optional)
    PROVE  DOMAIN required \subseteq DOMAIN object
BY DEF Closed

\* A closed object has, at a key it must have, a value of the class.
LEMMA RequiredValue ==
    ASSUME NEW object, NEW required, Closed(object, required, NoKeys),
           NEW key \in DOMAIN required, key # "stamp"
    PROVE  Fits(object[key], required[key])
<1>1. key \in Keys(object)
  BY DEF Closed, Keys
<1> QED
  BY <1>1 DEF Closed

\* A claim in its shape is one.
LEMMA ShapedClaim ==
    ASSUME NEW claim, isValidClaimShape(claim)
    PROVE  IsClaim(claim)
<1> DEFINE anchor == claim.anchor
           primary == anchor.primary
           ofClaim == [id |-> Valid, anchor |-> Valid, textSnapshot |-> Strings, textHash |-> Valid]
           ofAnchor == [document |-> Valid, primary |-> Valid]
           more == [targetNodeId |-> Valid, textQuote |-> Valid, pathHint |-> Valid]
           ofDocument == [uri |-> Valid, revisionId |-> Valid]
           ofText == [kind |-> {"text"}, node |-> Valid, offset |-> Nat,
                      affinity |-> {"before", "after"}]
           ofBoundary == [kind |-> {"node-boundary"}, parent |-> Valid, child |-> Nat,
                          affinity |-> {"before", "after"}]
<1>1. Closed(claim, ofClaim, NoKeys) /\ isValidPersistentAnchor(anchor)
  BY DEF isValidClaimShape
<1> HIDE DEF anchor
<1>2. /\ Closed(anchor, ofAnchor, more)
      /\ Closed(anchor.document, ofDocument, NoKeys)
      /\ Closed(primary, ofText, NoKeys) \/ Closed(primary, ofBoundary, NoKeys)
  BY <1>1 DEF isValidPersistentAnchor, isValidSemanticPosition
<1>3. /\ DOMAIN ofClaim = {"id", "anchor", "textSnapshot", "textHash"}
      /\ DOMAIN ofAnchor = {"document", "primary"}
      /\ DOMAIN ofDocument = {"uri", "revisionId"}
      /\ DOMAIN ofText = {"kind", "node", "offset", "affinity"}
      /\ DOMAIN ofBoundary = {"kind", "parent", "child", "affinity"}
      /\ ofText["kind"] = {"text"} /\ ofBoundary["kind"] = {"node-boundary"}
  OBVIOUS
<1> HIDE DEF ofClaim, ofAnchor, ofDocument, ofText, ofBoundary, more, primary
<1>4. /\ {"id", "anchor"} \subseteq DOMAIN claim
      /\ {"document", "primary"} \subseteq DOMAIN anchor
      /\ "revisionId" \in DOMAIN anchor.document
  BY <1>1, <1>2, <1>3, RequiredKeys
<1>5. CASE Closed(primary, ofText, NoKeys)
  <2>1. {"kind", "node", "offset", "affinity"} \subseteq DOMAIN primary
    BY <1>3, <1>5, RequiredKeys
  <2>2. Fits(primary["kind"], ofText["kind"])
    BY <1>3, <1>5, RequiredValue
  <2>3. primary.kind = "text"
    BY <1>3, <2>2, ValidAssumption DEF Fits
  <2> QED
    BY <1>4, <2>1, <2>3 DEF IsClaim, anchor, primary
<1>6. CASE Closed(primary, ofBoundary, NoKeys)
  <2>1. Fits(primary["kind"], ofBoundary["kind"])
    BY <1>3, <1>6, RequiredValue
  <2>2. primary.kind = "node-boundary"
    BY <1>3, <2>1, ValidAssumption DEF Fits
  <2> QED
    BY <1>4, <2>2 DEF IsClaim, anchor, primary
<1> QED
  BY <1>2, <1>5, <1>6

-----------------------------------------------------------------------------
(* The claims of every Revision. *)

\* Nothing of a position moves but its offset.
SamePlace(position, moved) ==
    /\ DOMAIN moved = DOMAIN position
    /\ \A key \in DOMAIN position \ {"offset"} : moved[key] = position[key]

\* One step leaves all of a position but its offset.
LEMMA StepKeepsPlace ==
    ASSUME NEW step, NEW position, mapStep(step, position).status = "mapped"
    PROVE  SamePlace(position, mapStep(step, position).position)
<1> DEFINE Moved(offset) == [position EXCEPT !.offset = offset]
           moved == mapStep(step, position)
<1>1. \A offset : SamePlace(position, Moved(offset))
  BY DEF SamePlace
<1>2. SamePlace(position, position)
  BY DEF SamePlace
<1>3. ASSUME NEW offset
      PROVE  mapTextPositionToOffset(position, offset).status = "mapped" =>
                mapTextPositionToOffset(position, offset).position = Moved(offset)
  BY DEF mapTextPositionToOffset, Mapped, Orphaned
<1> HIDE DEF Moved
<1>4. Mapped(position).position = position
  BY DEF Mapped
<1>5. ASSUME NEW nearest
      PROVE  Deleted(nearest).status # "mapped"
  BY DEF Deleted
<1>6. \/ moved = Mapped(position)
      \/ \E offset : moved = mapTextPositionToOffset(position, offset)
      \/ \E nearest : moved = Deleted(nearest)
  BY DEF mapStep, mapInsertion, mapNonEmptyReplacement
<1> HIDE DEF moved
<1>7. moved.status = "mapped"
  BY DEF moved
<1>8. SamePlace(position, moved.position)
  BY <1>1, <1>2, <1>3, <1>4, <1>5, <1>6, <1>7
<1> QED
  BY <1>8 DEF moved

\* A map leaves all of a position but its offset.
LEMMA MapKeepsPlace ==
    ASSUME NEW steps, Len(steps) \in Nat, NEW position,
           mapSteps(steps, position).status = "mapped"
    PROVE  SamePlace(position, mapSteps(steps, position).position)
<1> DEFINE N == Len(steps)
<1>1. PICK result : /\ ResultsOf(steps, Mapped(position), result)
                    /\ mapSteps(steps, position) = result[N]
  BY ResultsInOrder
<1> DEFINE Fine == {n \in 0 .. N : result[n].status = "mapped" =>
                                      SamePlace(position, result[n].position)}
<1>2. 0 \in Fine
  BY <1>1 DEF ResultsOf, Mapped, SamePlace
<1>3. ASSUME NEW n \in 0 .. N - 1, n \in Fine
      PROVE  n + 1 \in Fine
  <2> DEFINE step == steps[n + 1]
             before == result[n]
             after == result[n + 1]
  <2>1. n + 1 \in 1 .. N /\ n + 1 \in 0 .. N /\ (n + 1) - 1 = n
    OBVIOUS
  <2>2. after = mapPositionResultThrough(before, step)
    BY <1>1, <2>1 DEF ResultsOf
  <2>3. before.status = "mapped" => SamePlace(position, before.position)
    BY <1>3
  <2> HIDE DEF step, before, after
  <2>4. ASSUME NEW p
        PROVE  mapDeletedPositionThrough(p, step).status # "mapped"
    BY DEF mapDeletedPositionThrough, Deleted
  <2>5. after.status = "mapped" => SamePlace(position, after.position)
    <3>1. CASE before.status = "mapped"
      <4>1. after = mapStep(step, before.position)
        BY <2>2, <3>1 DEF mapPositionResultThrough
      <4>2. after.status = "mapped" => SamePlace(before.position, after.position)
        BY <4>1, StepKeepsPlace
      <4> QED
        BY <2>3, <3>1, <4>2 DEF SamePlace
    <3>2. CASE before.status = "deleted"
      <4>1. after = mapDeletedPositionThrough(before.nearest, step)
        BY <2>2, <3>2 DEF mapPositionResultThrough
      <4> QED
        BY <2>4, <4>1
    <3>3. CASE before.status \notin {"mapped", "deleted"}
      <4>1. after = before
        BY <2>2, <3>3 DEF mapPositionResultThrough
      <4> QED
        BY <3>3, <4>1
    <3> QED
      BY <3>1, <3>2, <3>3
  <2> QED
    BY <2>1, <2>5 DEF after
<1> HIDE DEF Fine
<1>4. \A n \in 0 .. N : n \in Fine
  BY <1>2, <1>3, InductionUpTo
<1>5. N \in 0 .. N
  OBVIOUS
<1> QED
  BY <1>1, <1>4, <1>5 DEF Fine

\* A position at the boundary of a node stays, whatever becomes of the texts.
LEMMA BoundaryStays ==
    ASSUME NEW steps, Len(steps) \in Nat, NEW position, position.kind # "text"
    PROVE  mapSteps(steps, position) = Mapped(position)
<1> DEFINE N == Len(steps)
<1>1. PICK result : /\ ResultsOf(steps, Mapped(position), result)
                    /\ mapSteps(steps, position) = result[N]
  BY ResultsInOrder
<1> DEFINE Fine == {n \in 0 .. N : result[n] = Mapped(position)}
<1>2. 0 \in Fine
  BY <1>1 DEF ResultsOf
<1>3. ASSUME NEW n \in 0 .. N - 1, n \in Fine
      PROVE  n + 1 \in Fine
  <2>1. n + 1 \in 1 .. N /\ n + 1 \in 0 .. N /\ (n + 1) - 1 = n
    OBVIOUS
  <2>2. result[n + 1] = mapPositionResultThrough(Mapped(position), steps[n + 1])
    BY <1>1, <1>3, <2>1 DEF ResultsOf
  <2>3. result[n + 1] = mapStep(steps[n + 1], position)
    BY <2>2 DEF mapPositionResultThrough, Mapped
  <2> QED
    BY <2>1, <2>3 DEF mapStep
<1> HIDE DEF Fine
<1>4. \A n \in 0 .. N : n \in Fine
  BY <1>2, <1>3, InductionUpTo
<1>5. N \in 0 .. N
  OBVIOUS
<1> QED
  BY <1>1, <1>4, <1>5 DEF Fine

\* A claim and what a map makes of it.
ClaimMoves(claim, new, map, id) ==
    /\ new.id = claim.id
    /\ new.anchor.document.revisionId = id
    /\ new.anchor.primary = mapPosition(map, claim.anchor.primary).position
    /\ IsClaim(new)
    /\ new.anchor.primary.kind = claim.anchor.primary.kind
    /\ IF claim.anchor.primary.kind = "text"
       THEN new.anchor.primary.node = claim.anchor.primary.node
       ELSE new.anchor.primary = claim.anchor.primary

\* A rebased claim is the claim at its new place.
LEMMA RebasedClaim ==
    ASSUME NEW claim, IsClaim(claim), NEW map, Len(FlattenSeq(map.leaves)) \in Nat, NEW id,
           NEW stamp, mapPosition(map, claim.anchor.primary).status = "mapped"
    PROVE  ClaimMoves(claim, rebaseClaim(claim, map, id, stamp), map, id)
<1> DEFINE new == rebaseClaim(claim, map, id, stamp)
           old == claim.anchor.primary
           steps == FlattenSeq(map.leaves)
           position == mapPosition(map, old).position
<1>0. mapPosition(map, old) = mapSteps(steps, old)
  BY DEF mapPosition
<1>1. new = [claim EXCEPT !.anchor.document.revisionId = id, !.anchor.primary = position,
                          !.stamp = stamp]
  BY DEF rebaseClaim
<1> HIDE DEF position, new
<1>2. /\ new.id = claim.id
      /\ new.anchor.document.revisionId = id
      /\ new.anchor.primary = position
      /\ DOMAIN new = DOMAIN claim
      /\ DOMAIN new.anchor = DOMAIN claim.anchor
      /\ DOMAIN new.anchor.document = DOMAIN claim.anchor.document
  BY <1>1 DEF IsClaim
<1> HIDE DEF steps, old
<1>3. /\ position.kind = old.kind
      /\ old.kind = "text" =>
            /\ position.node = old.node
            /\ {"kind", "node", "offset", "affinity"} \subseteq DOMAIN position
      /\ old.kind # "text" => position = old
  <2>1. Len(steps) \in Nat /\ mapSteps(steps, old).status = "mapped"
    BY <1>0 DEF steps, old
  <2>2. position = mapSteps(steps, old).position
    BY <1>0 DEF position
  <2>3. CASE old.kind = "text"
    <3>1. {"kind", "node", "offset", "affinity"} \subseteq DOMAIN old
      BY <2>3 DEF IsClaim, old
    <3>2. SamePlace(old, position)
      BY <2>1, <2>2, MapKeepsPlace
    <3> QED
      BY <2>3, <3>1, <3>2 DEF SamePlace
  <2>4. CASE old.kind # "text"
    <3>1. mapSteps(steps, old) = Mapped(old)
      BY <2>1, <2>4, BoundaryStays
    <3> QED
      BY <2>2, <2>4, <3>1 DEF Mapped
  <2> QED
    BY <2>3, <2>4
<1>4. IsClaim(new)
  BY <1>2, <1>3 DEF IsClaim, old
<1>5. ClaimMoves(claim, new, map, id)
  BY <1>2, <1>3, <1>4 DEF ClaimMoves, old, position
<1> QED
  BY <1>5 DEF new

DocumentOf(c) == history[c].snapshot.document
ClaimsOf(c) == DocumentOf(c).academicGraph.claims

\* The map of a Transaction makes its steps.
LEMMA MapOfOne ==
    ASSUME EInv, HistoryIsMapped, NEW c \in 2 .. Len(history)
    PROVE  /\ FlattenSeq(history[c].positionMap.leaves) = StepsOf(OperationsOf(c))
           /\ StepsOf(OperationsOf(c)) \in Seq(Range(StepsOf(OperationsOf(c))))
           /\ Len(StepsOf(OperationsOf(c))) \in Nat
           /\ history[c].positionMap.from = history[c - 1].revision.id
<1> DEFINE steps == StepsOf(OperationsOf(c))
           S == Range(steps)
<1>1. IsOperations(OperationsOf(c))
  BY DEF EInv, HistoryIsDerived, OperationsOf
<1>2. steps \in Seq(S) /\ Len(steps) \in Nat
  BY <1>1, StepsOfOperations
<1>3. FollowsFrom(history[c - 1], history[c])
  BY DEF HistoryIsMapped
<1>4. /\ history[c].positionMap.leaves = <<steps>>
      /\ history[c].positionMap.from = history[c - 1].revision.id
  BY <1>3 DEF FollowsFrom, OperationsOf
<1> HIDE DEF S, steps
<1>5. FlattenSeq(<<steps>>) = <<>> \o steps
  BY <1>2, FlattenedLeaves
<1>6. <<>> \o steps = steps
  BY <1>2
<1> QED
  BY <1>2, <1>4, <1>5, <1>6 DEF S, steps

\* The history of an open Authority starts with a canonical Snapshot.
FirstIsSound ==
    /\ isCanonicalSnapshot(DocumentOf(1))
    /\ IsWrittenDown(DocumentOf(1))
    /\ IsChecked(DocumentOf(1))
    /\ DocumentOf(1).revisionId = history[1].revision.id

\* What the Authority was opened on was checked.
LEMMA FirstDocument ==
    ASSUME HistoryIsMapped, history # <<>>
    PROVE  FirstIsSound
<1>1. PICK document \in Documents :
        isCanonicalSnapshot(document) /\ history[1] = FirstCommit(document)
  BY DEF HistoryIsMapped
<1>2. DocumentOf(1) = document /\ history[1].revision.id = document.revisionId
  BY <1>1 DEF FirstCommit, DocumentOf
<1>3. IsWrittenDown(document) /\ IsChecked(document)
  BY <1>1, DocumentsAssumption, CanonicalIsSound
<1> QED
  BY <1>1, <1>2, <1>3 DEF FirstIsSound

\* The claims of a sound document have their shape.
LEMMA ClaimsOfTheFirst ==
    ASSUME FirstIsSound
    PROVE  /\ EntitiesAreChecked(DocumentOf(1).academicGraph,
                                 authorEntityIds(DocumentOf(1).metadata)
                                    \cup treeEntityIds(DocumentOf(1).root))
           /\ \A i \in DOMAIN ClaimsOf(1) : IsClaim(ClaimsOf(1)[i])
<1> DEFINE graph == DocumentOf(1).academicGraph
           known == authorEntityIds(DocumentOf(1).metadata) \cup treeEntityIds(DocumentOf(1).root)
<1>1. /\ collectAcademicEntityIds(graph, known) = "ok"
      /\ \A key \in {"referenceSnapshots", "evidenceLinks", "claims"} :
            graph[key] \in Seq(Range(graph[key]))
  BY DEF FirstIsSound, IsChecked, IsWrittenDown
<1> HIDE DEF graph, known
<1>2. EntitiesAreChecked(graph, known)
  BY <1>1, CollectedEntities
<1>3. \A i \in DOMAIN graph.claims : isValidClaimShape(graph.claims[i])
  BY <1>2 DEF EntitiesAreChecked
<1>4. \A i \in DOMAIN graph.claims : IsClaim(graph.claims[i])
  BY <1>3, ShapedClaim
<1> QED
  BY <1>2, <1>4 DEF graph, known, ClaimsOf

\* The claims of a Revision are those before it, each at its new place.
ClaimsMove(c) ==
    /\ DOMAIN ClaimsOf(c) = DOMAIN ClaimsOf(c - 1)
    /\ \A i \in DOMAIN ClaimsOf(c - 1) :
          /\ mapPosition(history[c].positionMap, ClaimsOf(c - 1)[i].anchor.primary).status
                = "mapped"
          /\ ClaimMoves(ClaimsOf(c - 1)[i], ClaimsOf(c)[i], history[c].positionMap,
                        history[c].revision.id)

\* A Transaction moves the claims of the Revision before it.
LEMMA NextClaimsMove ==
    ASSUME EInv, HistoryIsMapped, NEW c \in 2 .. Len(history),
           \A i \in DOMAIN ClaimsOf(c - 1) : IsClaim(ClaimsOf(c - 1)[i])
    PROVE  ClaimsMove(c)
<1> DEFINE claims == ClaimsOf(c - 1)
           next == ClaimsOf(c)
           map == history[c].positionMap
           id == history[c].revision.id
<1>1. FollowsFrom(history[c - 1], history[c])
  BY DEF HistoryIsMapped
<1>2. IsRebased(claims, next, map, id)
  BY <1>1 DEF FollowsFrom, ClaimsOf, DocumentOf
<1>3. Len(FlattenSeq(map.leaves)) \in Nat
  BY MapOfOne
<1>4. \A i \in DOMAIN claims : IsClaim(claims[i])
  OBVIOUS
<1> HIDE DEF claims, next, map, id
<1>5. PICK stamp : next = [i \in DOMAIN claims |-> rebaseClaim(claims[i], map, id, stamp)]
  BY <1>2 DEF IsRebased
<1>6. \A i \in DOMAIN claims :
        /\ mapPosition(map, claims[i].anchor.primary).status = "mapped"
        /\ ClaimMoves(claims[i], next[i], map, id)
  <2> TAKE i \in DOMAIN claims
  <2>1. IsClaim(claims[i]) /\ mapPosition(map, claims[i].anchor.primary).status = "mapped"
    BY <1>2, <1>4 DEF IsRebased
  <2>2. next[i] = rebaseClaim(claims[i], map, id, stamp)
    BY <1>5
  <2> QED
    BY <1>3, <2>1, <2>2, RebasedClaim
<1>7. DOMAIN next = DOMAIN claims
  BY <1>5
<1> QED
  BY <1>6, <1>7 DEF ClaimsMove, claims, next, map, id

\* The claims of every Revision have their shape, and each Revision moves those before it.
LEMMA ClaimsOfHistory ==
    ASSUME EInv, HistoryIsMapped
    PROVE  /\ \A c \in 1 .. Len(history) : \A i \in DOMAIN ClaimsOf(c) : IsClaim(ClaimsOf(c)[i])
           /\ \A c \in 2 .. Len(history) : ClaimsMove(c)
<1> DEFINE N == Len(history) - 1
           Shaped(c) == \A i \in DOMAIN ClaimsOf(c) : IsClaim(ClaimsOf(c)[i])
           AllShaped == {n \in 0 .. N : Shaped(n + 1)}
<1>1. Len(history) \in Nat
  BY HistoryIsASequence
<1>2. CASE Len(history) = 0
  <2>1. 1 .. Len(history) = {} /\ 2 .. Len(history) = {}
    BY <1>2
  <2> QED
    BY <2>1
<1>3. CASE Len(history) # 0
  <2>1. N \in Nat /\ history # <<>>
    BY <1>1, <1>3
  <2>2. Shaped(1)
    BY <2>1, FirstDocument, ClaimsOfTheFirst
  <2>3. ASSUME NEW c \in 2 .. Len(history), Shaped(c - 1)
        PROVE  Shaped(c) /\ ClaimsMove(c)
    <3>1. ClaimsMove(c)
      BY <2>3, NextClaimsMove
    <3> QED
      BY <3>1 DEF ClaimsMove, ClaimMoves
  <2> HIDE DEF Shaped
  <2>4. 0 \in AllShaped
    BY <2>1, <2>2
  <2>5. ASSUME NEW n \in 0 .. N - 1, n \in AllShaped
        PROVE  n + 1 \in AllShaped
    <3>1. (n + 1) + 1 \in 2 .. Len(history) /\ ((n + 1) + 1) - 1 = n + 1 /\ n + 1 \in 0 .. N
      BY <1>1, <2>1
    <3>2. Shaped(n + 1)
      BY <2>5
    <3>3. Shaped((n + 1) + 1)
      BY <2>3, <3>1, <3>2
    <3> QED
      BY <3>1, <3>3
  <2>6. \A n \in 0 .. N : n \in AllShaped
    <3> HIDE DEF AllShaped, N
    <3> QED
      BY <2>1, <2>4, <2>5, InductionUpTo
  <2>7. \A c \in 1 .. Len(history) : Shaped(c)
    <3> TAKE c \in 1 .. Len(history)
    <3>1. c - 1 \in 0 .. N /\ (c - 1) + 1 = c
      BY <1>1
    <3> QED
      BY <2>6, <3>1
  <2>8. \A c \in 2 .. Len(history) : ClaimsMove(c)
    <3> TAKE c \in 2 .. Len(history)
    <3>1. c - 1 \in 1 .. Len(history)
      BY <1>1
    <3> QED
      BY <2>3, <2>7, <3>1
  <2> QED
    BY <2>7, <2>8 DEF Shaped
<1> QED
  BY <1>2, <1>3

\* No text is longer than the largest offset, before, during and after any Transaction.
TextsHaveOffsets ==
    \A c \in 2 .. Len(history) : \A n \in 0 .. Len(OperationsOf(c)) :
        LET texts == EditedUpTo(Original(DocumentOf(c - 1)), c, OperationsOf(c), n)
        IN  \A id \in DOMAIN texts : Len(texts[id]) <= MaxUtf16Offset

\* What tells texts apart by where they come from says nothing of how long they are.
LEMMA AsLongAsSeenFromBefore ==
    ASSUME NEW tree, IsTree(tree), NEW mid, NEW texts, TextsAre(tree, mid, texts),
           NEW other, TextsAre(mid, mid, other),
           NEW operations, IsOperations(operations), NEW next, Chain(mid, next, operations),
           NEW c, NEW p \in DOMAIN tree, tree[p].type = "text",
           \A n \in 0 .. Len(operations) :
              \A id \in DOMAIN EditedUpTo(other, c, operations, n) :
                 Len(EditedUpTo(other, c, operations, n)[id]) <= MaxUtf16Offset
    PROVE  StaysShort(texts, c, operations, tree[p].id)
<1>1. PICK trees :
        /\ trees[0] = mid
        /\ trees[Len(operations)] = next
        /\ \A k \in 1 .. Len(operations) : Replaces(trees[k - 1], trees[k], operations[k])
  BY DEF Chain
<1>2. /\ IsTree(mid) /\ DOMAIN mid = DOMAIN tree
      /\ mid[p].id = tree[p].id /\ mid[p].type = "text"
  <2>1. IsValueOf(texts, tree[p], mid[p])
    BY ValuesOfTexts
  <2> QED
    BY <2>1 DEF TextsAre, IsValueOf
<1>3. ASSUME NEW n \in 0 .. Len(operations)
      PROVE  Len(EditedUpTo(texts, c, operations, n)[tree[p].id]) <= MaxUtf16Offset
  <2> DEFINE seen == EditedUpTo(texts, c, operations, n)
             there == EditedUpTo(other, c, operations, n)
  <2>1. \A id \in DOMAIN there : Len(there[id]) <= MaxUtf16Offset
    OBVIOUS
  <2>2. TextsAre(tree, trees[n], seen)
    BY <1>1, TextsUpTo
  <2>3. TextsAre(mid, trees[n], there)
    BY <1>1, <1>2, TextsUpTo
  <2> HIDE DEF seen, there
  <2>4. IsValueOf(seen, tree[p], trees[n][p])
    BY <2>2, ValuesOfTexts
  <2>5. IsValueOf(there, mid[p], trees[n][p])
    BY <1>2, <2>3, ValuesOfTexts
  <2>6. mid[p].id \in DOMAIN there
    BY <1>2, <2>3 DEF TextsAre
  <2>7. Len(seen[tree[p].id]) = Len(there[tree[p].id])
    BY <1>2, <2>4, <2>5 DEF IsValueOf
  <2> QED
    BY <1>2, <2>1, <2>6, <2>7 DEF seen
<1> QED
  BY <1>3 DEF StaysShort

\* The texts of every Revision, seen from an earlier one.
TextsFrom(text, from, to) ==
    /\ text[from] = Original(DocumentOf(from))
    /\ \A c \in from + 1 .. to : text[c] = Edited(text[c - 1], c, OperationsOf(c))
    /\ Texts(from, to) = text[to]

\* The texts of an earlier Revision, edited, are those of the later one.
LEMMA TextsOfLater ==
    ASSUME EInv, NEW from \in Nat \ {0}, NEW to \in Nat, from <= to, to <= Len(history),
           NEW text, TextsFrom(text, from, to)
    PROVE  \A c \in from .. to :
              TextsAre(DocumentOf(from).root, DocumentOf(c).root, text[c])
<1> DEFINE tree == DocumentOf(from).root
           Fits1(c) == TextsAre(tree, DocumentOf(c).root, text[c])
           N == to - from
           S == {n \in 0 .. N : Fits1(from + n)}
<1>1. N \in Nat /\ from \in DOMAIN history /\ from + N = to
      /\ \A c \in from + 1 .. to : c \in 2 .. Len(history)
  BY HistoryIsASequence
<1>2. IsTree(tree)
  BY <1>1 DEF EInv, HistoryIsDerived, IsDocument, DocumentOf
<1> HIDE DEF tree
<1>3. Fits1(from)
  BY <1>2, OriginalTexts DEF TextsFrom, tree
<1>4. ASSUME NEW c \in from + 1 .. to, Fits1(c - 1)
      PROVE  Fits1(c)
  <2>1. c \in 2 .. Len(history)
    BY <1>1
  <2>2. /\ Chain(DocumentOf(c - 1).root, DocumentOf(c).root, OperationsOf(c))
        /\ IsOperations(OperationsOf(c))
    BY <2>1 DEF EInv, HistoryIsDerived, Derives, DocumentOf, OperationsOf
  <2>3. text[c] = Edited(text[c - 1], c, OperationsOf(c))
    BY DEF TextsFrom
  <2> QED
    BY <1>2, <1>4, <2>2, <2>3, TextsFollowTheChain
<1> HIDE DEF Fits1
<1>5. 0 \in S
  BY <1>1, <1>3
<1>6. ASSUME NEW n \in 0 .. N - 1, n \in S
      PROVE  n + 1 \in S
  <2>1. from + (n + 1) \in from + 1 .. to /\ (from + (n + 1)) - 1 = from + n /\ n + 1 \in 0 .. N
    BY <1>1
  <2>2. Fits1(from + n)
    BY <1>6
  <2>3. Fits1(from + (n + 1))
    BY <1>4, <2>1, <2>2
  <2> QED
    BY <2>1, <2>3
<1>7. \A n \in 0 .. N : n \in S
  <2> HIDE DEF S, N
  <2> QED
    BY <1>1, <1>5, <1>6, InductionUpTo
<1>8. ASSUME NEW c \in from .. to
      PROVE  Fits1(c)
  <2>1. c - from \in 0 .. N /\ from + (c - from) = c
    BY <1>1
  <2> QED
    BY <1>7, <2>1
<1> QED
  BY <1>8 DEF Fits1, tree

\* The units of a text of the first document are told apart by their places.
LEMMA OriginalText ==
    ASSUME NEW document, IsTree(document.root), NEW id \in DOMAIN Original(document)
    PROVE  /\ IsOriginal(Original(document)[id])
           /\ \A i, j \in 1 .. Len(Original(document)[id]) :
                 Original(document)[id][i] = Original(document)[id][j] => i = j
           /\ \E p \in DOMAIN document.root :
                 document.root[p].type = "text" /\ document.root[p].id = id
<1> DEFINE tree == document.root
           old == Original(document)[id]
           value == tree[placeOf(tree, id)].value
<1>1. PICK p \in DOMAIN tree : tree[p].type = "text" /\ tree[p].id = id
  BY DEF Original
<1>2. old = [i \in DOMAIN value |-> [unit |-> value[i], by |-> <<id, 0, 0>>, i |-> i]]
  BY DEF Original
<1>3. TextsAre(tree, tree, Original(document))
  BY OriginalTexts
<1>4. isString(old)
  BY <1>1, <1>3 DEF TextsAre
<1> HIDE DEF value
<1>5. Len(old) \in Nat /\ DOMAIN old = 1 .. Len(old)
  <2> HIDE DEF old
  <2> QED
    BY <1>4, LenProperties DEF isString
<1>6. DOMAIN old = DOMAIN value
  BY <1>2
<1> HIDE DEF old
<1>7. \A j \in 1 .. Len(old) :
        old[j] = [unit |-> value[j], by |-> <<id, 0, 0>>, i |-> j]
  BY <1>2, <1>5, <1>6
<1>8. \A j \in 1 .. Len(old) : old[j].by[2] = 0 /\ old[j].i = j
  <2> TAKE j \in 1 .. Len(old)
  <2>1. old[j] = [unit |-> value[j], by |-> <<id, 0, 0>>, i |-> j]
    BY <1>7
  <2> DEFINE origin == <<id, 0, 0>>
             unit == value[j]
  <2>2. old[j] = [unit |-> unit, by |-> origin, i |-> j] /\ origin[2] = 0
    BY <2>1
  <2> HIDE DEF origin, unit
  <2>3. old[j].by = origin /\ old[j].i = j
    BY <2>2
  <2> QED
    BY <2>2, <2>3
<1>9. \A i, j \in 1 .. Len(old) : old[i] = old[j] => i = j
  BY <1>8
<1> QED
  BY <1>1, <1>5, <1>8, <1>9 DEF IsOriginal, old

\* From any Revision to a later one, positions stand where they stood.
LEMMA PositionStands ==
    ASSUME EInv, HistoryIsMapped, TextsHaveOffsets,
           NEW from \in Nat \ {0}, NEW to \in Nat, from <= to, to <= Len(history),
           NEW F, NEW S, StepsAre(F, S, from, to), F[from] \in Seq(S),
           NEW text, TextsFrom(text, from, to),
           NEW id \in DOMAIN Original(DocumentOf(from)),
           NEW offset \in 0 .. Len(Original(DocumentOf(from))[id]), NEW affinity
    PROVE  Stands(mapSteps(F[to], TextPosition(id, offset, affinity)),
                  Original(DocumentOf(from))[id], text[to][id], id, offset, affinity)
<1> DEFINE document == DocumentOf(from)
           tree == document.root
           old == Original(document)[id]
           position == TextPosition(id, offset, affinity)
           Stands1(c) == Stands(mapSteps(F[c], position), old, text[c][id], id, offset, affinity)
           N == to - from
           Standing == {n \in 0 .. N : Stands1(from + n)}
<1>1. /\ N \in Nat /\ from \in DOMAIN history /\ from + N = to
      /\ \A c \in from + 1 .. to : c \in 2 .. Len(history) /\ c - 1 \in from .. to
  BY HistoryIsASequence
<1>2. IsTree(tree)
  BY <1>1 DEF EInv, HistoryIsDerived, IsDocument, DocumentOf
<1>3. PICK p \in DOMAIN tree : tree[p].type = "text" /\ tree[p].id = id
  BY <1>2, OriginalText
<1>4. /\ IsOriginal(old)
      /\ \A i, j \in 1 .. Len(old) : old[i] = old[j] => i = j
      /\ offset \in 0 .. Len(old)
  BY <1>2, OriginalText
<1>5. \A c \in from .. to : TextsAre(tree, DocumentOf(c).root, text[c])
  BY TextsOfLater
<1> HIDE DEF document, tree, old
<1>6. Stands1(from)
  <2>1. F[from] = <<>> /\ Len(<<>>) = 0
    BY DEF StepsAre
  <2>2. PICK result : /\ ResultsOf(F[from], Mapped(position), result)
                      /\ mapSteps(F[from], position) = result[Len(F[from])]
    BY <2>1, ResultsInOrder
  <2>3. mapSteps(F[from], position) = Mapped(position)
    BY <2>1, <2>2 DEF ResultsOf
  <2>4. text[from][id] = old
    BY DEF TextsFrom, old, document
  <2>5. offset \in Nat /\ Len(old) \in Nat
    BY <1>4 DEF IsOriginal
  <2> HIDE DEF position
  <2>6. IsAt(Mapped(position), id, offset, affinity)
    BY DEF IsAt, position
  <2>7. StandsAt(Mapped(position), old, old, offset, offset, affinity)
    <3>1. Mapped(position).status = "mapped"
      BY DEF Mapped
    <3>2. \A i \in 1 .. Len(old), j \in 1 .. Len(old) : old[i] = old[j] => i = j
      BY <1>4
    <3> QED
      BY <1>4, <2>5, <3>1, <3>2 DEF StandsAt
  <2> QED
    BY <2>3, <2>4, <2>5, <2>6, <2>7 DEF Stands
<1>7. ASSUME NEW c \in from + 1 .. to, Stands1(c - 1)
      PROVE  Stands1(c)
  <2> DEFINE operations == OperationsOf(c)
             steps == StepsOf(operations)
             mid == DocumentOf(c - 1).root
             texts == text[c - 1]
  <2>1. c \in 2 .. Len(history) /\ c - 1 \in from .. to /\ c \in Nat \ {0}
    BY <1>1
  <2>2. Chain(mid, DocumentOf(c).root, operations) /\ IsOperations(operations)
    BY <2>1 DEF EInv, HistoryIsDerived, Derives, DocumentOf, OperationsOf
  <2>3. TextsAre(tree, mid, texts)
    BY <1>5, <2>1
  <2>4. TextsAre(mid, mid, Original(DocumentOf(c - 1)))
    BY <2>3, OriginalTexts DEF TextsAre
  <2>5. \A n \in 0 .. Len(operations) :
          \A q \in DOMAIN EditedUpTo(Original(DocumentOf(c - 1)), c, operations, n) :
             Len(EditedUpTo(Original(DocumentOf(c - 1)), c, operations, n)[q]) <= MaxUtf16Offset
    BY <2>1 DEF TextsHaveOffsets
  <2>6. /\ steps \in Seq(S) /\ F[c - 1] \in Seq(S) /\ F[c] = F[c - 1] \o steps
        /\ text[c] = Edited(texts, c, operations)
    BY DEF StepsAre, TextsFrom
  <2>7. Len(steps) = Len(operations)
    BY <2>2, StepsOfOperations
  <2> HIDE DEF operations, steps, mid, texts, position
  <2>8. StaysShort(texts, c, operations, tree[p].id)
    BY <1>2, <1>3, <2>2, <2>3, <2>4, <2>5, AsLongAsSeenFromBefore
  <2>9. PICK result : /\ ResultsOf(steps, mapSteps(F[c - 1], position), result)
                      /\ mapSteps(F[c - 1] \o steps, position) = result[Len(steps)]
    BY <2>6, MapsOn
  <2>10. offset \in Nat
    BY <1>4
  <2>11. Stands(mapSteps(F[c - 1], position), old, texts[tree[p].id], tree[p].id, offset, affinity)
    BY <1>3, <1>7 DEF texts, position
  <2>12. Stands(result[Len(operations)], old, Edited(texts, c, operations)[tree[p].id],
                tree[p].id, offset, affinity)
    BY <1>2, <1>3, <1>4, <2>1, <2>2, <2>3, <2>8, <2>9, <2>10, <2>11, TransactionStands DEF steps
  <2> QED
    BY <1>3, <2>6, <2>7, <2>9, <2>12 DEF position
<1> HIDE DEF Stands1
<1>8. 0 \in Standing
  BY <1>1, <1>6
<1>9. ASSUME NEW n \in 0 .. N - 1, n \in Standing
      PROVE  n + 1 \in Standing
  <2>1. from + (n + 1) \in from + 1 .. to /\ (from + (n + 1)) - 1 = from + n /\ n + 1 \in 0 .. N
    BY <1>1
  <2>2. Stands1(from + n)
    BY <1>9
  <2>3. Stands1(from + (n + 1))
    BY <1>7, <2>1, <2>2
  <2> QED
    BY <2>1, <2>3
<1>10. Stands1(to)
  <2> HIDE DEF Standing, N
  <2>1. \A n \in 0 .. N : n \in Standing
    BY <1>1, <1>8, <1>9, InductionUpTo
  <2>2. N \in 0 .. N
    BY <1>1
  <2> QED
    BY <1>1, <2>1, <2>2 DEF Standing
<1> QED
  BY <1>10 DEF Stands1, position, old, document

\* A position goes with what is left of the text on each side of it.
GoesWithTheText(mapped, old, new, offset, affinity) ==
    LET Place(tagged) == {i \in DOMAIN new : new[i] = tagged}
        at == IF mapped.status = "mapped" THEN mapped.position ELSE mapped.nearest
        left == UNION {Place(old[i]) : i \in 1 .. offset}
        right == UNION {Place(old[i]) : i \in offset + 1 .. Len(old)}
        beside == IF affinity = "before"
                  THEN IF offset = 0 THEN {} ELSE Place(old[offset])
                  ELSE IF offset = Len(old) THEN {} ELSE Place(old[offset + 1])
    IN  /\ \A i \in left : i <= at.offset
        /\ \A i \in right : i > at.offset
        /\ \A i \in beside :
                /\ mapped.status = "mapped"
                /\ i = IF affinity = "before" THEN at.offset ELSE at.offset + 1

\* A position that stands where it stood goes with the text.
LEMMA StandingGoesWithTheText ==
    ASSUME NEW old, Len(old) \in Nat, NEW new, DOMAIN new = 1 .. Len(new), Len(new) \in Nat,
           NEW mapped, NEW id, NEW offset \in 0 .. Len(old), NEW affinity,
           Stands(mapped, old, new, id, offset, affinity)
    PROVE  GoesWithTheText(mapped, old, new, offset, affinity)
<1> DEFINE Place(tagged) == {i \in DOMAIN new : new[i] = tagged}
           here == IF mapped.status = "mapped" THEN mapped.position ELSE mapped.nearest
           left == UNION {Place(old[i]) : i \in 1 .. offset}
           right == UNION {Place(old[i]) : i \in offset + 1 .. Len(old)}
           beside == IF affinity = "before"
                     THEN IF offset = 0 THEN {} ELSE Place(old[offset])
                     ELSE IF offset = Len(old) THEN {} ELSE Place(old[offset + 1])
<1>1. PICK at \in Nat : /\ IsAt(mapped, id, at, affinity)
                        /\ StandsAt(mapped, old, new, offset, at, affinity)
  BY DEF Stands
<1>2. here.offset = at
  <2>1. CASE mapped = Mapped(TextPosition(id, at, affinity))
    BY <2>1 DEF Mapped, TextPosition
  <2>2. CASE mapped = Deleted(TextPosition(id, at, affinity))
    BY <2>2 DEF Deleted, TextPosition
  <2> QED
    BY <1>1, <2>1, <2>2 DEF IsAt
<1> DEFINE isMapped == mapped.status = "mapped"
<1> HIDE DEF here
<1>3. ASSUME NEW i \in 1 .. Len(new), NEW j \in 1 .. Len(old), new[i] = old[j]
      PROVE  /\ j <= offset => i <= at
             /\ j > offset => i > at
             /\ affinity = "before" /\ j = offset => isMapped /\ i = at
             /\ affinity # "before" /\ j = offset + 1 => isMapped /\ i = at + 1
  BY <1>1, <1>3 DEF StandsAt
<1> HIDE DEF isMapped
<1>4. ASSUME NEW i \in left
      PROVE  i <= at
  <2>1. PICK j \in 1 .. offset : i \in 1 .. Len(new) /\ new[i] = old[j]
    OBVIOUS
  <2>2. j \in 1 .. Len(old) /\ j <= offset
    OBVIOUS
  <2> QED
    BY <1>3, <2>1, <2>2
<1>5. ASSUME NEW i \in right
      PROVE  i > at
  <2>1. PICK j \in offset + 1 .. Len(old) : i \in 1 .. Len(new) /\ new[i] = old[j]
    OBVIOUS
  <2>2. j \in 1 .. Len(old) /\ j > offset
    OBVIOUS
  <2> QED
    BY <1>3, <2>1, <2>2
<1>6. ASSUME NEW i \in beside
      PROVE  isMapped /\ i = IF affinity = "before" THEN at ELSE at + 1
  <2>1. CASE affinity = "before"
    <3>1. offset \in 1 .. Len(old) /\ i \in 1 .. Len(new) /\ new[i] = old[offset]
      BY <2>1
    <3> QED
      BY <1>3, <2>1, <3>1
  <2>2. CASE affinity # "before"
    <3>1. offset + 1 \in 1 .. Len(old) /\ i \in 1 .. Len(new) /\ new[i] = old[offset + 1]
      BY <2>2
    <3> QED
      BY <1>3, <2>2, <3>1
  <2> QED
    BY <2>1, <2>2
<1> HIDE DEF left, right, beside
<1>7. /\ \A i \in left : i <= here.offset
      /\ \A i \in right : i > here.offset
      /\ \A i \in beside :
            isMapped /\ i = IF affinity = "before" THEN here.offset ELSE here.offset + 1
  BY <1>2, <1>4, <1>5, <1>6
<1> QED
  BY <1>7 DEF GoesWithTheText, isMapped, here, left, right, beside

\* The claims of a later Revision stand where the maps lead their anchors.
LEMMA ClaimsGoWithTheMaps ==
    ASSUME EInv, HistoryIsMapped,
           NEW from \in Nat \ {0}, NEW to \in Nat, from <= to, to <= Len(history),
           NEW F, NEW S, StepsAre(F, S, from, to), F[from] \in Seq(S),
           NEW i \in DOMAIN ClaimsOf(to)
    PROVE  mapSteps(F[to], ClaimsOf(from)[i].anchor.primary) =
              Mapped(ClaimsOf(to)[i].anchor.primary)
<1> DEFINE N == to - from
           Primary(c) == ClaimsOf(c)[i].anchor.primary
           Leads1(c) == /\ i \in DOMAIN ClaimsOf(c) <=> i \in DOMAIN ClaimsOf(from)
                        /\ i \in DOMAIN ClaimsOf(c) =>
                              mapSteps(F[c], Primary(from)) = Mapped(Primary(c))
           Led == {n \in 0 .. N : Leads1(from + n)}
<1>1. /\ N \in Nat /\ from + N = to
      /\ \A c \in from + 1 .. to : c \in 2 .. Len(history)
  BY HistoryIsASequence
<1>2. Leads1(from)
  <2>1. F[from] = <<>> /\ Len(<<>>) = 0
    BY DEF StepsAre
  <2>2. PICK result : /\ ResultsOf(F[from], Mapped(Primary(from)), result)
                      /\ mapSteps(F[from], Primary(from)) = result[Len(F[from])]
    BY <2>1, ResultsInOrder
  <2> HIDE DEF Primary
  <2> QED
    BY <2>1, <2>2 DEF ResultsOf
<1>3. ASSUME NEW c \in from + 1 .. to, Leads1(c - 1)
      PROVE  Leads1(c)
  <2> DEFINE steps == StepsOf(OperationsOf(c))
  <2>1. c \in 2 .. Len(history)
    BY <1>1
  <2>2. ClaimsMove(c)
    BY <2>1, ClaimsOfHistory
  <2>3. /\ FlattenSeq(history[c].positionMap.leaves) = steps
        /\ Len(steps) \in Nat
    BY <2>1, MapOfOne
  <2>4. /\ steps \in Seq(S) /\ F[c - 1] \in Seq(S) /\ F[c] = F[c - 1] \o steps
    BY DEF StepsAre
  <2> HIDE DEF steps
  <2>5. DOMAIN ClaimsOf(c) = DOMAIN ClaimsOf(c - 1)
    BY <2>2 DEF ClaimsMove
  <2>6. ASSUME i \in DOMAIN ClaimsOf(c)
        PROVE  mapSteps(F[c], Primary(from)) = Mapped(Primary(c))
    <3>1. /\ mapSteps(F[c - 1], Primary(from)) = Mapped(Primary(c - 1))
          /\ i \in DOMAIN ClaimsOf(c - 1)
      BY <1>3, <2>5, <2>6
    <3>2. /\ mapSteps(steps, Primary(c - 1)).status = "mapped"
          /\ Primary(c) = mapSteps(steps, Primary(c - 1)).position
      BY <2>2, <2>3, <3>1 DEF ClaimsMove, ClaimMoves, mapPosition
    <3> HIDE DEF Primary
    <3>3. mapSteps(steps, Primary(c - 1)) = Mapped(Primary(c))
      BY <2>3, <3>2, MappedIsAPosition
    <3>4. PICK result : /\ ResultsOf(steps, mapSteps(F[c - 1], Primary(from)), result)
                        /\ mapSteps(F[c - 1] \o steps, Primary(from)) = result[Len(steps)]
      BY <2>4, MapsOn
    <3>5. mapSteps(steps, Primary(c - 1)) = result[Len(steps)]
      BY <2>3, <3>1, <3>4, ResultsAreMapped
    <3> QED
      BY <2>4, <3>3, <3>4, <3>5
  <2> QED
    BY <1>3, <2>5, <2>6
<1> HIDE DEF Leads1
<1>4. 0 \in Led
  BY <1>1, <1>2
<1>5. ASSUME NEW n \in 0 .. N - 1, n \in Led
      PROVE  n + 1 \in Led
  <2>1. from + (n + 1) \in from + 1 .. to /\ (from + (n + 1)) - 1 = from + n /\ n + 1 \in 0 .. N
    BY <1>1
  <2>2. Leads1(from + n)
    BY <1>5
  <2>3. Leads1(from + (n + 1))
    BY <1>3, <2>1, <2>2
  <2> QED
    BY <2>1, <2>3
<1>6. Leads1(to)
  <2> HIDE DEF Led, N
  <2>1. \A n \in 0 .. N : n \in Led
    BY <1>1, <1>4, <1>5, InductionUpTo
  <2>2. N \in 0 .. N
    BY <1>1
  <2> QED
    BY <1>1, <2>1, <2>2 DEF Led
<1> QED
  BY <1>6 DEF Leads1

\* The maps between two Revisions compose.
LEMMA MapsCompose ==
    ASSUME EInv, HistoryIsMapped, NEW from \in Nat \ {0}, NEW c \in from + 2 .. Len(history)
    PROVE  CanCompose(Composed(from, c - 1), history[c].positionMap)
<1>1. /\ c \in 2 .. Len(history) /\ c - 1 \in Nat /\ from < c - 1 /\ c - 1 <= Len(history)
  BY HistoryIsASequence
<1>2. PICK F, S : StepsAre(F, S, from, c - 1)
  BY <1>1, MapOfSteps
<1>3. Composed(from, c - 1).to = history[c - 1].revision.id
  BY <1>2 DEF StepsAre
<1>4. history[c].positionMap.from = history[c - 1].revision.id
  BY <1>1, MapOfOne
<1> QED
  BY <1>3, <1>4 DEF CanCompose

\* In a history that is mapped, positions and claims follow the texts.
LEMMA MappedPositionsFollow ==
    ASSUME EInv, HistoryIsMapped, TextsHaveOffsets
    PROVE  PositionsFollowTheText
<1> SUFFICES ASSUME NEW from \in 1 .. Len(history) - 1
             PROVE  LET map == Composed(from, Len(history))
                        old == Original(history[from].snapshot.document)
                        new == Texts(from, Len(history))
                    IN  /\ \A c \in from + 2 .. Len(history) :
                              CanCompose(Composed(from, c - 1), history[c].positionMap)
                        /\ \A id \in DOMAIN old : \A offset \in 0 .. Len(old[id]) :
                              \A affinity \in Affinities :
                                 GoesWithTheText(
                                    mapPosition(map, TextPosition(id, offset, affinity)),
                                    old[id], new[id], offset, affinity)
                        /\ \A i \in DOMAIN headSnapshot.document.academicGraph.claims :
                              mapPosition(map, history[from].snapshot.document
                                                .academicGraph.claims[i].anchor.primary) =
                                Mapped(headSnapshot.document.academicGraph.claims[i].anchor.primary)
  BY DEF PositionsFollowTheText, GoesWithTheText
<1> DEFINE to == Len(history)
           map == Composed(from, to)
           old == Original(DocumentOf(from))
           new == Texts(from, to)
<1>1. /\ from \in Nat \ {0} /\ to \in Nat /\ from < to /\ from <= to /\ to <= Len(history)
      /\ from \in from .. to /\ to \in from .. to
  BY HistoryIsASequence
<1>2. headSnapshot.document = DocumentOf(to)
  <2>1. head = history[Len(history)]
    BY DEF head, Last
  <2> QED
    BY <2>1 DEF headSnapshot, DocumentOf
<1> HIDE DEF to
<1>3. PICK F, S : StepsAre(F, S, from, to)
  BY <1>1, MapOfSteps DEF to
<1>4. F[from] \in Seq(S)
  <2>1. F[from] = <<>>
    BY <1>3 DEF StepsAre
  <2> QED
    BY <2>1
<1>5. PICK text : TextsFrom(text, from, to)
  BY <1>1, TextsInOrder DEF TextsFrom, DocumentOf, OperationsOf
<1>6. ASSUME NEW position
      PROVE  mapPosition(map, position) = mapSteps(F[to], position)
  BY <1>3 DEF StepsAre, mapPosition
<1>7. new = text[to]
  BY <1>5 DEF TextsFrom
<1> HIDE DEF map, new
<1>8. ASSUME NEW c \in from + 2 .. Len(history)
      PROVE  CanCompose(Composed(from, c - 1), history[c].positionMap)
  BY <1>1, MapsCompose
<1>9. IsTree(DocumentOf(from).root)
  <2>1. from \in DOMAIN history
    BY HistoryIsASequence
  <2> QED
    BY <2>1 DEF EInv, HistoryIsDerived, IsDocument, DocumentOf
<1>10. TextsAre(DocumentOf(from).root, DocumentOf(to).root, new)
  BY <1>1, <1>5, <1>7, TextsOfLater DEF to
<1>11. ASSUME NEW id \in DOMAIN old, NEW offset \in 0 .. Len(old[id]), NEW affinity \in Affinities
       PROVE  GoesWithTheText(mapPosition(map, TextPosition(id, offset, affinity)),
                              old[id], new[id], offset, affinity)
  <2> DEFINE mapped == mapPosition(map, TextPosition(id, offset, affinity))
  <2>1. mapped = mapSteps(F[to], TextPosition(id, offset, affinity))
    BY <1>6
  <2>2. Stands(mapped, old[id], new[id], id, offset, affinity)
    BY <1>1, <1>3, <1>4, <1>5, <1>7, <2>1, PositionStands DEF to
  <2>3. Len(old[id]) \in Nat
    BY <1>9, OriginalText DEF IsOriginal
  <2>4. PICK p \in DOMAIN DocumentOf(from).root :
          DocumentOf(from).root[p].type = "text" /\ DocumentOf(from).root[p].id = id
    BY <1>9, OriginalText
  <2>5. isString(new[id])
    BY <1>10, <2>4 DEF TextsAre
  <2> DEFINE value == new[id]
  <2>6. DOMAIN value = 1 .. Len(value) /\ Len(value) \in Nat
    <3> HIDE DEF value
    <3>1. isString(value)
      BY <2>5 DEF value
    <3> QED
      BY <3>1, LenProperties DEF isString
  <2> HIDE DEF mapped, old
  <2> QED
    BY <2>2, <2>3, <2>6, StandingGoesWithTheText DEF mapped
<1>12. ASSUME NEW i \in DOMAIN ClaimsOf(to)
       PROVE  mapPosition(map, ClaimsOf(from)[i].anchor.primary) =
                 Mapped(ClaimsOf(to)[i].anchor.primary)
  BY <1>1, <1>3, <1>4, <1>6, ClaimsGoWithTheMaps DEF to
<1> QED
  BY <1>2, <1>8, <1>11, <1>12 DEF map, old, new, to, DocumentOf, ClaimsOf

\* As long as no text is longer than the largest offset: positions go with the text beside them,
\* and claims stand where their anchors were mapped to, from any Revision to the head.
THEOREM PositionsAlwaysFollowTheText == Spec => [](TextsHaveOffsets => PositionsFollowTheText)
<1>1. EInv /\ HistoryIsMapped => (TextsHaveOffsets => PositionsFollowTheText)
  BY MappedPositionsFollow
<1> QED
  BY <1>1, MappedInvariance, PTL

-----------------------------------------------------------------------------
(* Texts stay well-formed. *)

\* A place of a text with no half of a surrogate pair beside it that belongs to the other side.
IsCut(text, at) ==
    /\ at \in 0 .. Len(text)
    /\ at # 0 => ~ isHighSurrogate(text[at])
    /\ at # Len(text) => ~ isLowSurrogate(text[at + 1])

\* A string has its places.
LEMMA StringPlaces ==
    ASSUME NEW text, isString(text)
    PROVE  Len(text) \in Nat /\ DOMAIN text = 1 .. Len(text)
BY LenProperties DEF isString

\* In a well-formed text the boundaries are the cuts, and both its ends are.
LEMMA BoundaryIsCut ==
    ASSUME NEW text, isString(text), hasWellFormedUtf16(text)
    PROVE  /\ \A at : validateUtf16Boundary(text, at) => IsCut(text, at)
           /\ \A at : IsCut(text, at) => validateUtf16Boundary(text, at)
           /\ IsCut(text, 0)
           /\ IsCut(text, Len(text))
<1> DEFINE n == Len(text)
<1>1. n \in Nat /\ DOMAIN text = 1 .. n
  BY StringPlaces
<1> HIDE DEF n
<1>2. \A i \in 1 .. n :
        /\ isHighSurrogate(text[i]) => i < n /\ isLowSurrogate(text[i + 1])
        /\ isLowSurrogate(text[i]) => i > 1 /\ isHighSurrogate(text[i - 1])
  BY <1>1 DEF hasWellFormedUtf16, n
<1>3. ASSUME NEW at, validateUtf16Boundary(text, at)
      PROVE  IsCut(text, at)
  <2>1. /\ at \in 0 .. n
        /\ ~ (at \in 1 .. n - 1 /\ isHighSurrogate(text[at]) /\ isLowSurrogate(text[at + 1]))
    BY <1>3 DEF validateUtf16Boundary, n
  <2>2. ASSUME at # 0, isHighSurrogate(text[at])
        PROVE  FALSE
    <3>1. at \in 1 .. n
      BY <1>1, <2>1, <2>2
    <3>2. at < n /\ isLowSurrogate(text[at + 1])
      BY <1>2, <2>2, <3>1
    <3>3. at \in 1 .. n - 1
      BY <1>1, <3>1, <3>2
    <3> QED
      BY <2>1, <2>2, <3>2, <3>3
  <2>3. ASSUME at # n, isLowSurrogate(text[at + 1])
        PROVE  FALSE
    <3>1. at + 1 \in 1 .. n /\ (at + 1) - 1 = at
      BY <1>1, <2>1, <2>3
    <3>2. at + 1 > 1 /\ isHighSurrogate(text[at])
      BY <1>2, <2>3, <3>1
    <3>3. at # 0
      BY <1>1, <2>1, <3>2
    <3> QED
      BY <2>2, <3>2, <3>3
  <2> QED
    BY <2>1, <2>2, <2>3 DEF IsCut, n
<1>4. ASSUME NEW at, IsCut(text, at)
      PROVE  validateUtf16Boundary(text, at)
  <2>1. at \in 0 .. n /\ (at # 0 => ~ isHighSurrogate(text[at]))
    BY <1>4 DEF IsCut, n
  <2>2. at \in 1 .. n - 1 => at # 0
    BY <1>1
  <2> QED
    BY <2>1, <2>2 DEF validateUtf16Boundary, n
<1>5. IsCut(text, 0)
  <2>1. 0 \in 0 .. n /\ 0 + 1 = 1
    BY <1>1
  <2>2. 0 # n => 1 \in 1 .. n
    BY <1>1
  <2>3. 0 # n => ~ isLowSurrogate(text[1])
    BY <1>2, <2>2
  <2> QED
    BY <2>1, <2>3 DEF IsCut, n
<1>6. IsCut(text, n)
  <2>1. n \in 0 .. n /\ (n # 0 => n \in 1 .. n)
    BY <1>1
  <2>2. n # 0 => ~ isHighSurrogate(text[n])
    BY <1>1, <1>2, <2>1
  <2> QED
    BY <2>1, <2>2 DEF IsCut, n
<1> QED
  BY <1>3, <1>4, <1>5, <1>6 DEF n

\* What is replaced lies between cuts: the cuts on both sides are those of the new text.
KeepsCuts(text, start, end, replacement, new) ==
    /\ hasWellFormedUtf16(new)
    /\ \A at \in 0 .. Len(text) : IsCut(text, at) =>
          /\ at <= start => IsCut(new, at)
          /\ at >= end => IsCut(new, (at - (end - start)) + Len(replacement))

\* Splicing at cuts: what stays keeps its cuts.
LEMMA SpliceKeepsCuts ==
    ASSUME NEW text, isString(text), hasWellFormedUtf16(text),
           NEW replacement, isString(replacement), hasWellFormedUtf16(replacement),
           NEW start \in 0 .. Len(text), NEW end \in start .. Len(text),
           IsCut(text, start), IsCut(text, end)
    PROVE  KeepsCuts(text, start, end, replacement, Splice(text, start, end, replacement))
<1> DEFINE new == Splice(text, start, end, replacement)
           S == Range(text) \cup Range(replacement)
           n == Len(text)
           r == Len(replacement)
           m == Len(new)
           High(unit) == isHighSurrogate(unit)
           Low(unit) == isLowSurrogate(unit)
           Back(i) == (i - (end - start)) + r
<1>1. /\ text \in Seq(Range(text)) /\ replacement \in Seq(Range(replacement))
      /\ Range(text) \subseteq S /\ Range(replacement) \subseteq S
  BY DEF isString
<1>2. text \in Seq(S) /\ replacement \in Seq(S)
  <2> HIDE DEF S
  <2> QED
    BY <1>1, SeqMonotonic
<1>3. /\ n \in Nat /\ DOMAIN text = 1 .. n
      /\ r \in Nat /\ DOMAIN replacement = 1 .. r
      /\ start \in 0 .. n /\ end \in start .. n
  BY StringPlaces
<1>4. IsSpliced(new, S, text, start, end, replacement)
  <2> HIDE DEF S
  <2> QED
    BY <1>2, SpliceProperties
<1> HIDE DEF new, S
<1>5. /\ new \in Seq(S)
      /\ m = (n - (end - start)) + r
      /\ \A i \in 1 .. start : new[i] = text[i]
      /\ \A i \in 1 .. r : new[start + i] = replacement[i]
      /\ \A i \in end + 1 .. n : new[Back(i)] = text[i]
  BY <1>4 DEF IsSpliced
<1>6. DOMAIN new = 1 .. m
  BY <1>5
<1>7. \A i \in 1 .. n : /\ High(text[i]) => i < n /\ Low(text[i + 1])
                        /\ Low(text[i]) => i > 1 /\ High(text[i - 1])
  BY <1>3 DEF hasWellFormedUtf16
<1>8. \A i \in 1 .. r : /\ High(replacement[i]) => i < r /\ Low(replacement[i + 1])
                        /\ Low(replacement[i]) => i > 1 /\ High(replacement[i - 1])
  BY <1>3 DEF hasWellFormedUtf16
<1>9. /\ start # 0 => ~ High(text[start])
      /\ end # 0 => ~ High(text[end])
      /\ end # n => ~ Low(text[end + 1])
  BY DEF IsCut
<1>10. /\ r # 0 => ~ Low(replacement[1])
       /\ r # 0 => ~ High(replacement[r])
  <2>1. r # 0 => 1 \in 1 .. r /\ r \in 1 .. r /\ ~ (1 > 1) /\ ~ (r < r)
    BY <1>3
  <2> HIDE DEF High, Low, r
  <2> QED
    BY <1>8, <2>1
<1> HIDE DEF n, r, m, High, Low
<1>11. ASSUME NEW at \in 0 .. n, IsCut(text, at), at <= start
       PROVE  IsCut(new, at)
  <2>0. at \in 0 .. m /\ at \in Nat
    BY <1>3, <1>5, <1>11
  <2>1. at # 0 => ~ High(new[at])
    <3>1. at # 0 => at \in 1 .. start /\ ~ High(text[at])
      BY <1>3, <1>11 DEF IsCut, High
    <3> QED
      BY <1>5, <3>1
  <2>2. at # m => ~ Low(new[at + 1])
    <3>1. CASE at < start
      <4>1. at + 1 \in 1 .. start /\ at # n
        BY <1>3, <2>0, <3>1
      <4>2. ~ Low(text[at + 1])
        BY <1>11, <4>1 DEF IsCut, Low, n
      <4> QED
        BY <1>5, <4>1, <4>2
    <3>2. CASE at = start /\ r # 0
      <4>1. 1 \in 1 .. r
        BY <1>3, <3>2
      <4> QED
        BY <1>5, <1>10, <3>2, <4>1
    <3>3. CASE at = start /\ r = 0
      <4>1. at # m => end # n /\ end + 1 \in end + 1 .. n /\ Back(end + 1) = at + 1
        BY <1>3, <1>5, <3>3
      <4> HIDE DEF Back
      <4> QED
        BY <1>5, <1>9, <4>1
    <3> QED
      BY <1>3, <1>11, <2>0, <3>1, <3>2, <3>3
  <2> QED
    BY <2>0, <2>1, <2>2 DEF IsCut, High, Low, m
<1>12. ASSUME NEW at \in 0 .. n, IsCut(text, at), at >= end
       PROVE  IsCut(new, Back(at))
  <2>0. Back(at) \in 0 .. m /\ at \in Nat /\ Back(at + 1) = Back(at) + 1
    BY <1>3, <1>5, <1>12
  <2>1. Back(at) # 0 => ~ High(new[Back(at)])
    <3>1. CASE at > end
      <4>1. at \in end + 1 .. n /\ at # 0
        BY <1>3, <1>12, <3>1
      <4>2. ~ High(text[at])
        BY <1>12, <4>1 DEF IsCut, High
      <4> HIDE DEF Back
      <4> QED
        BY <1>5, <4>1, <4>2
    <3>2. CASE at = end /\ r # 0
      <4>1. r \in 1 .. r /\ Back(at) = start + r
        BY <1>3, <3>2
      <4> HIDE DEF Back
      <4> QED
        BY <1>5, <1>10, <3>2, <4>1
    <3>3. CASE at = end /\ r = 0
      <4>1. Back(at) = start
        BY <1>3, <3>3
      <4>2. start # 0 => start \in 1 .. start
        BY <1>3
      <4> HIDE DEF Back
      <4> QED
        BY <1>5, <1>9, <4>1, <4>2
    <3> QED
      BY <1>3, <1>12, <2>0, <3>1, <3>2, <3>3
  <2>2. Back(at) # m => ~ Low(new[Back(at) + 1])
    <3>1. Back(at) # m => at # n /\ at + 1 \in end + 1 .. n
      BY <1>3, <1>5, <1>12
    <3>2. at # n => ~ Low(text[at + 1])
      BY <1>12 DEF IsCut, Low, n
    <3> HIDE DEF Back
    <3> QED
      BY <1>5, <2>0, <3>1, <3>2
  <2> HIDE DEF Back
  <2> QED
    BY <2>0, <2>1, <2>2 DEF IsCut, High, Low, m
<1>13. ASSUME NEW k \in 1 .. m
       PROVE  /\ High(new[k]) => k < m /\ Low(new[k + 1])
              /\ Low(new[k]) => k > 1 /\ High(new[k - 1])
  <2>1. CASE k <= start
    <3>1. k \in 1 .. start /\ k \in 1 .. n /\ start # 0 /\ new[k] = text[k]
      BY <1>3, <1>5, <2>1
    <3>2. ASSUME High(new[k])
          PROVE  k < m /\ Low(new[k + 1])
      <4>1. k # start /\ Low(text[k + 1])
        BY <1>7, <1>9, <3>1, <3>2
      <4>2. k + 1 \in 1 .. start /\ k < m
        BY <1>3, <1>5, <3>1, <4>1
      <4> QED
        BY <1>5, <4>1, <4>2
    <3>3. ASSUME Low(new[k])
          PROVE  k > 1 /\ High(new[k - 1])
      <4>1. k > 1 /\ High(text[k - 1])
        BY <1>7, <3>1, <3>3
      <4>2. k - 1 \in 1 .. start
        BY <1>3, <3>1, <4>1
      <4> QED
        BY <1>5, <4>1, <4>2
    <3> QED
      BY <3>2, <3>3
  <2>2. CASE k > start /\ k <= start + r
    <3> DEFINE i == k - start
    <3>1. /\ i \in 1 .. r /\ k = start + i /\ k + 1 = start + (i + 1) /\ k - 1 = start + (i - 1)
          /\ k <= m
      BY <1>3, <1>5, <2>2
    <3> HIDE DEF i
    <3>2. new[k] = replacement[i]
      BY <1>5, <3>1
    <3>3. ASSUME High(new[k])
          PROVE  k < m /\ Low(new[k + 1])
      <4>1. i < r /\ Low(replacement[i + 1])
        BY <1>8, <3>1, <3>2, <3>3
      <4>2. i + 1 \in 1 .. r /\ k < m
        BY <1>3, <1>5, <3>1, <4>1
      <4> QED
        BY <1>5, <3>1, <4>1, <4>2
    <3>4. ASSUME Low(new[k])
          PROVE  k > 1 /\ High(new[k - 1])
      <4>1. i > 1 /\ High(replacement[i - 1])
        BY <1>8, <3>1, <3>2, <3>4
      <4>2. i - 1 \in 1 .. r /\ k > 1
        BY <1>3, <3>1, <4>1
      <4> QED
        BY <1>5, <3>1, <4>1, <4>2
    <3> QED
      BY <3>3, <3>4
  <2>3. CASE k > start + r
    <3> DEFINE i == (k - r) + (end - start)
    <3>1. /\ i \in end + 1 .. n /\ i \in 1 .. n /\ Back(i) = k
          /\ Back(i + 1) = k + 1 /\ Back(i - 1) = k - 1
      BY <1>3, <1>5, <2>3
    <3>2. /\ i < n => k < m /\ i + 1 \in end + 1 .. n
          /\ i > 1 /\ i - 1 # end => i - 1 \in end + 1 .. n /\ k > 1
      BY <1>3, <1>5, <2>3
    <3>3. i - 1 = end /\ i > 1 => end # 0
      BY <1>3
    <3> HIDE DEF i, Back
    <3>4. new[k] = text[i]
      BY <1>5, <3>1
    <3>5. ASSUME High(new[k])
          PROVE  k < m /\ Low(new[k + 1])
      <4>1. i < n /\ Low(text[i + 1])
        BY <1>7, <3>1, <3>4, <3>5
      <4> QED
        BY <1>5, <3>1, <3>2, <4>1
    <3>6. ASSUME Low(new[k])
          PROVE  k > 1 /\ High(new[k - 1])
      <4>1. i > 1 /\ High(text[i - 1])
        BY <1>7, <3>1, <3>4, <3>6
      <4>2. i - 1 # end
        BY <1>9, <3>3, <4>1
      <4> QED
        BY <1>5, <3>1, <3>2, <4>1, <4>2
    <3> QED
      BY <3>5, <3>6
  <2> QED
    BY <1>3, <2>1, <2>2, <2>3
<1>14. hasWellFormedUtf16(new)
  BY <1>6, <1>13 DEF hasWellFormedUtf16, High, Low, m
<1> QED
  BY <1>11, <1>12, <1>14 DEF KeepsCuts, new, n, r

\* A position that a step maps is a cut of the text that the step makes.
LEMMA StepKeepsCut ==
    ASSUME NEW text, isString(text), hasWellFormedUtf16(text),
           NEW replacement, isString(replacement), hasWellFormedUtf16(replacement),
           NEW start \in 0 .. Len(text), NEW end \in start .. Len(text),
           IsCut(text, start), IsCut(text, end),
           NEW step, step.start = start, step.end = end, step.length = Len(replacement),
           NEW position, position.kind = "text", position.node = step.node,
           "offset" \in DOMAIN position, IsCut(text, position.offset),
           mapStep(step, position).status = "mapped"
    PROVE  IsCut(Splice(text, start, end, replacement), mapStep(step, position).position.offset)
<1> DEFINE new == Splice(text, start, end, replacement)
           at == position.offset
           r == Len(replacement)
           n == Len(text)
           moved == mapStep(step, position)
           shifted == at + (r - (end - start))
<1>1. KeepsCuts(text, start, end, replacement, new)
  BY SpliceKeepsCuts
<1> HIDE DEF new
<1>2. n \in Nat /\ r \in Nat /\ start \in 0 .. n /\ end \in start .. n /\ at \in 0 .. n
  BY StringPlaces DEF IsCut
<1>3. ASSUME NEW offset, mapTextPositionToOffset(position, offset).status = "mapped"
      PROVE  mapTextPositionToOffset(position, offset).position.offset = offset
  BY <1>3 DEF mapTextPositionToOffset, Mapped, Orphaned
<1>4. Mapped(position).position.offset = at
  BY DEF Mapped
<1>5. \A nearest : Deleted(nearest).status # "mapped"
  BY DEF Deleted
<1>6. /\ replacementEnd(step) = start + r
      /\ offsetDelta(step) = r - (end - start)
  BY DEF replacementEnd, offsetDelta
<1>7. moved = IF start = end THEN mapInsertion(step, position)
              ELSE mapNonEmptyReplacement(step, position)
  BY DEF mapStep
<1> HIDE DEF n, r
<1>8. LeansTo(position, step) \in {start, start + r}
  BY <1>6 DEF LeansTo
<1> HIDE DEF at, moved
<1>9. \/ at <= start /\ moved = Mapped(position)
      \/ at >= end /\ moved = mapTextPositionToOffset(position, shifted)
      \/ moved = mapTextPositionToOffset(position, start)
      \/ moved = mapTextPositionToOffset(position, start + r)
      \/ \E nearest : moved = Deleted(nearest)
  <2>1. CASE start = end
    <3>1. moved = mapInsertion(step, position)
      BY <1>7, <2>1
    <3>2. CASE at < start
      <4>1. mapInsertion(step, position) = Mapped(position)
        BY <1>2, <3>2 DEF mapInsertion, at
      <4> QED
        BY <1>2, <3>1, <3>2, <4>1
    <3>3. CASE at > start
      <4>1. mapInsertion(step, position) = mapTextPositionToOffset(position, at + offsetDelta(step))
        BY <1>2, <3>3 DEF mapInsertion, at
      <4> QED
        BY <1>2, <1>6, <2>1, <3>1, <3>3, <4>1
    <3>4. CASE at = start
      <4>1. mapInsertion(step, position) =
              mapTextPositionToOffset(position, LeansTo(position, step))
        BY <1>2, <3>4 DEF mapInsertion, at
      <4> QED
        BY <1>8, <3>1, <4>1
    <3> QED
      BY <1>2, <3>2, <3>3, <3>4
  <2>2. CASE start # end
    <3>1. moved = mapNonEmptyReplacement(step, position)
      BY <1>7, <2>2
    <3>2. CASE at < start
      <4>1. mapNonEmptyReplacement(step, position) = Mapped(position)
        BY <1>2, <3>2 DEF mapNonEmptyReplacement, at
      <4> QED
        BY <1>2, <3>1, <3>2, <4>1
    <3>3. CASE at > end
      <4>1. mapNonEmptyReplacement(step, position) =
              mapTextPositionToOffset(position, at + offsetDelta(step))
        BY <1>2, <3>3 DEF mapNonEmptyReplacement, at
      <4> QED
        BY <1>2, <1>6, <3>1, <3>3, <4>1
    <3>4. CASE at = start
      <4>1. ~ (at < start) /\ ~ (at > end) /\ at # end
        BY <1>2, <2>2, <3>4
      <4>2. mapNonEmptyReplacement(step, position) = mapTextPositionToOffset(position, start)
        BY <3>4, <4>1 DEF mapNonEmptyReplacement, at
      <4> QED
        BY <3>1, <4>2
    <3>5. CASE at = end
      <4>1. mapNonEmptyReplacement(step, position) =
              mapTextPositionToOffset(position, replacementEnd(step))
        BY <1>2, <2>2, <3>5 DEF mapNonEmptyReplacement, at
      <4> QED
        BY <1>6, <3>1, <4>1
    <3>6. CASE start < at /\ at < end
      <4>1. ~ (at < start) /\ ~ (at > end) /\ at # start /\ at # end
        BY <1>2, <3>6
      <4> DEFINE nearest == IF IsOffset(LeansTo(position, step))
                            THEN [position EXCEPT !.offset = LeansTo(position, step)]
                            ELSE NoPosition
      <4>2. mapNonEmptyReplacement(step, position) = Deleted(nearest)
        BY <4>1 DEF mapNonEmptyReplacement, at
      <4> QED
        BY <3>1, <4>2
    <3> QED
      BY <1>2, <3>2, <3>3, <3>4, <3>5, <3>6
  <2> QED
    BY <2>1, <2>2
<1>10. /\ at <= start => IsCut(new, at)
       /\ at >= end => IsCut(new, shifted)
       /\ IsCut(new, start)
       /\ IsCut(new, start + r)
  <2>1. /\ at <= start => IsCut(new, at)
        /\ at >= end => IsCut(new, (at - (end - start)) + r)
        /\ IsCut(new, start)
        /\ IsCut(new, (end - (end - start)) + r)
    <3>1. start <= start /\ end >= end /\ end \in 0 .. n
      BY <1>2
    <3> QED
      BY <1>1, <1>2, <3>1 DEF KeepsCuts, n, r, at
  <2>2. (at - (end - start)) + r = shifted /\ (end - (end - start)) + r = start + r
    BY <1>2
  <2> QED
    BY <2>1, <2>2
<1> HIDE DEF shifted
<1>11. moved.status = "mapped"
  BY DEF moved
<1>12. IsCut(new, moved.position.offset)
  BY <1>3, <1>4, <1>5, <1>9, <1>10, <1>11
<1> QED
  BY <1>12 DEF new, moved

\* A text that an Operation replaces in.
IsReplacedIn(node, new, operation) ==
    /\ new.type = "text" /\ new.id = node.id
    /\ operation.startUtf16Offset \in 0 .. Len(node.value)
    /\ operation.endUtf16Offset \in operation.startUtf16Offset .. Len(node.value)
    /\ validateUtf16Boundary(node.value, operation.startUtf16Offset)
    /\ validateUtf16Boundary(node.value, operation.endUtf16Offset)
    /\ hasWellFormedUtf16(operation.replacement)
    /\ new.value = Splice(node.value, operation.startUtf16Offset, operation.endUtf16Offset,
                          operation.replacement)

\* Nothing that is read of the node changes.
IsCarried(node, new) ==
    /\ DOMAIN new = DOMAIN node
    /\ new.id = node.id /\ new.type = node.type
    /\ node.type # "text" => \A key \in DOMAIN node \ {"stamp"} : new[key] = node[key]

\* What one Operation does to each node.
LEMMA ReplacedNode ==
    ASSUME NEW tree, IsTree(tree), NEW next, NEW operation, Replaces(tree, next, operation),
           NEW p \in DOMAIN tree
    PROVE  /\ IsCarried(tree[p], next[p])
           /\ tree[p].id = operation.textNodeId => IsReplacedIn(tree[p], next[p], operation)
           /\ tree[p].id # operation.textNodeId /\ tree[p].type = "text" =>
                 next[p].value = tree[p].value
<1> DEFINE node == tree[p]
           new == next[p]
           edited == [node EXCEPT !.value =
                        Splice(@, operation.startUtf16Offset, operation.endUtf16Offset,
                               operation.replacement)]
<1>1. /\ {"id", "type", "stamp"} \subseteq DOMAIN node
      /\ node.type = "text" => "value" \in DOMAIN node
  BY DEF IsTree, IsNode
<1>2. CASE node.id = operation.textNodeId
  <2>1. /\ node.type = "text"
        /\ operation.startUtf16Offset \in 0 .. Len(node.value)
        /\ operation.endUtf16Offset \in operation.startUtf16Offset .. Len(node.value)
        /\ validateUtf16Boundary(node.value, operation.startUtf16Offset)
        /\ validateUtf16Boundary(node.value, operation.endUtf16Offset)
        /\ hasWellFormedUtf16(operation.replacement)
        /\ Alike(new, edited)
    BY <1>2 DEF Replaces
  <2>2. /\ DOMAIN edited = DOMAIN node
        /\ edited.id = node.id /\ edited.type = "text"
        /\ edited.value = Splice(node.value, operation.startUtf16Offset,
                                 operation.endUtf16Offset, operation.replacement)
    BY <1>1, <2>1
  <2> HIDE DEF edited, node, new
  <2>3. /\ DOMAIN new = DOMAIN node
        /\ new.id = node.id /\ new.type = "text" /\ new.value = edited.value
    BY <1>1, <2>1, <2>2 DEF Alike
  <2> QED
    BY <1>2, <2>1, <2>2, <2>3 DEF IsCarried, IsReplacedIn, node, new
<1>3. CASE node.id # operation.textNodeId
  <2>1. Alike(new, node)
    BY <1>3 DEF Replaces
  <2> HIDE DEF node, new
  <2> QED
    BY <1>1, <1>3, <2>1 DEF Alike, IsCarried, node, new
<1> QED
  BY <1>2, <1>3

\* Every text of the tree is well-formed.
TextsAreWellFormed(tree) ==
    \A p \in DOMAIN tree : tree[p].type = "text" => hasWellFormedUtf16(tree[p].value)

\* A position in a text of the tree, at a cut.
IsInText(tree, p, position) ==
    /\ position.kind = "text"
    /\ position.node = tree[p].id
    /\ {"kind", "node", "offset"} \subseteq DOMAIN position
    /\ IsCut(tree[p].value, position.offset)

\* One Operation keeps the texts well-formed, and what it maps stays at a cut.
LEMMA OperationKeepsText ==
    ASSUME NEW tree, IsTree(tree), TextsAreWellFormed(tree), NEW next, NEW operation,
           isString(operation.replacement), Replaces(tree, next, operation)
    PROVE  /\ TextsAreWellFormed(next)
           /\ \A p \in DOMAIN tree : \A position :
                 /\ tree[p].type = "text"
                 /\ IsInText(tree, p, position)
                 /\ mapStep(positionMapStep(operation), position).status = "mapped"
                 => IsInText(next, p, mapStep(positionMapStep(operation), position).position)
<1> DEFINE start == operation.startUtf16Offset
           end == operation.endUtf16Offset
           replacement == operation.replacement
           step == positionMapStep(operation)
<1>1. /\ step.node = operation.textNodeId /\ step.start = start /\ step.end = end
      /\ step.length = Len(replacement)
  BY DEF positionMapStep
<1> HIDE DEF step
<1>2. DOMAIN next = DOMAIN tree
  BY DEF Replaces
<1>3. ASSUME NEW p \in DOMAIN tree, tree[p].type = "text", IsReplacedIn(tree[p], next[p], operation)
      PROVE  /\ isString(tree[p].value) /\ hasWellFormedUtf16(tree[p].value)
             /\ hasWellFormedUtf16(replacement)
             /\ start \in 0 .. Len(tree[p].value) /\ end \in start .. Len(tree[p].value)
             /\ IsCut(tree[p].value, start) /\ IsCut(tree[p].value, end)
             /\ next[p].value = Splice(tree[p].value, start, end, replacement)
  <2>1. isString(tree[p].value) /\ hasWellFormedUtf16(tree[p].value)
    BY <1>3 DEF IsTree, IsNode, TextsAreWellFormed
  <2>2. IsCut(tree[p].value, start) /\ IsCut(tree[p].value, end)
    BY <1>3, <2>1, BoundaryIsCut DEF IsReplacedIn
  <2> QED
    BY <1>3, <2>1, <2>2 DEF IsReplacedIn
<1>4. ASSUME NEW p \in DOMAIN tree, next[p].type = "text"
      PROVE  hasWellFormedUtf16(next[p].value)
  <2>1. tree[p].type = "text"
    BY <1>4, ReplacedNode DEF IsCarried
  <2>2. CASE tree[p].id = operation.textNodeId
    <3>1. IsReplacedIn(tree[p], next[p], operation)
      BY <2>2, ReplacedNode
    <3>2. KeepsCuts(tree[p].value, start, end, replacement,
                    Splice(tree[p].value, start, end, replacement))
      BY <1>3, <2>1, <3>1, SpliceKeepsCuts
    <3> QED
      BY <1>3, <2>1, <3>1, <3>2 DEF KeepsCuts
  <2>3. CASE tree[p].id # operation.textNodeId
    <3>1. next[p].value = tree[p].value
      BY <2>1, <2>3, ReplacedNode
    <3> QED
      BY <2>1, <3>1 DEF TextsAreWellFormed
  <2> QED
    BY <2>2, <2>3
<1>5. ASSUME NEW p \in DOMAIN tree, NEW position, tree[p].type = "text",
             IsInText(tree, p, position), mapStep(step, position).status = "mapped"
      PROVE  IsInText(next, p, mapStep(step, position).position)
  <2> DEFINE moved == mapStep(step, position).position
  <2>1. SamePlace(position, moved)
    BY <1>5, StepKeepsPlace
  <2>2. next[p].id = tree[p].id
    BY ReplacedNode DEF IsCarried
  <2>3. /\ position.kind = "text" /\ position.node = tree[p].id
        /\ {"kind", "node", "offset"} \subseteq DOMAIN position
        /\ IsCut(tree[p].value, position.offset)
    BY <1>5 DEF IsInText
  <2>4. IsCut(next[p].value, moved.offset)
    <3>1. CASE tree[p].id = operation.textNodeId
      <4>1. IsReplacedIn(tree[p], next[p], operation)
        BY <3>1, ReplacedNode
      <4>2. IsCut(Splice(tree[p].value, start, end, replacement), moved.offset)
        BY <1>1, <1>3, <1>5, <2>3, <3>1, <4>1, StepKeepsCut
      <4> QED
        BY <1>3, <1>5, <4>1, <4>2
    <3>2. CASE tree[p].id # operation.textNodeId
      <4>1. mapStep(step, position) = Mapped(position)
        BY <1>1, <2>3, <3>2 DEF mapStep
      <4>2. moved = position
        BY <4>1 DEF Mapped
      <4> QED
        BY <1>5, <2>3, <3>2, <4>2, ReplacedNode
    <3> QED
      BY <3>1, <3>2
  <2>5. /\ moved.kind = "text" /\ moved.node = tree[p].id
        /\ {"kind", "node", "offset"} \subseteq DOMAIN moved
    BY <2>1, <2>3 DEF SamePlace
  <2> QED
    BY <2>2, <2>4, <2>5 DEF IsInText
<1> QED
  BY <1>2, <1>4, <1>5 DEF TextsAreWellFormed, step

\* The nodes of a tree are carried on, and their texts are well-formed.
TreeIsCarried(tree, next) ==
    /\ IsTree(next) /\ TextsAreWellFormed(next)
    /\ DOMAIN next = DOMAIN tree
    /\ \A p \in DOMAIN tree : IsCarried(tree[p], next[p])

\* Every tree along a chain is carried on from the first one.
LEMMA TreesAreCarried ==
    ASSUME NEW tree, IsTree(tree), TextsAreWellFormed(tree), NEW operations,
           IsOperations(operations), NEW trees, trees[0] = tree,
           \A k \in 1 .. Len(operations) : Replaces(trees[k - 1], trees[k], operations[k])
    PROVE  \A n \in 0 .. Len(operations) : TreeIsCarried(tree, trees[n])
<1> DEFINE N == Len(operations)
           Carried == {n \in 0 .. N : TreeIsCarried(tree, trees[n])}
<1>1. N \in Nat /\ \A k \in 1 .. N : isString(operations[k].replacement)
  BY LenProperties DEF IsOperations
<1>2. 0 \in Carried
  <2>1. TreeIsCarried(tree, tree)
    BY DEF TreeIsCarried, IsCarried
  <2> QED
    BY <1>1, <2>1
<1>3. ASSUME NEW n \in 0 .. N - 1, n \in Carried
      PROVE  n + 1 \in Carried
  <2> DEFINE mid == trees[n]
             next == trees[n + 1]
             operation == operations[n + 1]
  <2>1. n + 1 \in 1 .. N /\ n + 1 \in 0 .. N /\ (n + 1) - 1 = n
    BY <1>1
  <2>2. Replaces(mid, next, operation) /\ isString(operation.replacement)
    BY <1>1, <2>1
  <2>3. TreeIsCarried(tree, mid)
    BY <1>3
  <2> HIDE DEF mid, next, operation
  <2>4. /\ IsTree(mid) /\ TextsAreWellFormed(mid) /\ DOMAIN mid = DOMAIN tree
        /\ IsTree(next) /\ DOMAIN next = DOMAIN mid
    BY <2>2, <2>3 DEF TreeIsCarried, Replaces
  <2>5. TextsAreWellFormed(next)
    BY <2>2, <2>4, OperationKeepsText
  <2>6. ASSUME NEW p \in DOMAIN tree
        PROVE  IsCarried(tree[p], next[p])
    <3>1. IsCarried(tree[p], mid[p])
      BY <2>3 DEF TreeIsCarried
    <3>2. IsCarried(mid[p], next[p])
      BY <2>2, <2>4, ReplacedNode
    <3> QED
      BY <3>1, <3>2 DEF IsCarried
  <2>7. TreeIsCarried(tree, next)
    BY <2>4, <2>5, <2>6 DEF TreeIsCarried
  <2> QED
    BY <2>1, <2>7 DEF next
<1> HIDE DEF Carried, N
<1>4. \A n \in 0 .. N : n \in Carried
  BY <1>1, <1>2, <1>3, InductionUpTo
<1> QED
  BY <1>4 DEF Carried, N

\* A Transaction carries the nodes on.
LEMMA TransactionCarries ==
    ASSUME NEW tree, IsTree(tree), TextsAreWellFormed(tree), NEW operations,
           IsOperations(operations), NEW next, Chain(tree, next, operations)
    PROVE  TreeIsCarried(tree, next)
<1>1. PICK trees :
        /\ trees[0] = tree
        /\ trees[Len(operations)] = next
        /\ \A k \in 1 .. Len(operations) : Replaces(trees[k - 1], trees[k], operations[k])
  BY DEF Chain
<1>2. Len(operations) \in 0 .. Len(operations)
  BY LenProperties DEF IsOperations
<1> QED
  BY <1>1, <1>2, TreesAreCarried

\* A position that the map of a Transaction maps stays at a cut of its text.
LEMMA TransactionKeepsPosition ==
    ASSUME NEW tree, IsTree(tree), TextsAreWellFormed(tree), NEW operations,
           IsOperations(operations), NEW next, Chain(tree, next, operations),
           NEW p \in DOMAIN tree, tree[p].type = "text",
           NEW position, IsInText(tree, p, position),
           mapSteps(StepsOf(operations), position).status = "mapped"
    PROVE  IsInText(next, p, mapSteps(StepsOf(operations), position).position)
<1> DEFINE steps == StepsOf(operations)
           N == Len(operations)
<1>1. PICK trees :
        /\ trees[0] = tree
        /\ trees[N] = next
        /\ \A k \in 1 .. N : Replaces(trees[k - 1], trees[k], operations[k])
  BY DEF Chain
<1>2. /\ N \in Nat /\ Len(steps) = N
      /\ \A k \in 1 .. N : isString(operations[k].replacement)
      /\ \A k \in 1 .. N : steps[k] = positionMapStep(operations[k])
  <2>1. N \in Nat /\ Len(steps) = N
    BY StepsOfOperations
  <2>2. DOMAIN operations = 1 .. N
    BY LenProperties DEF IsOperations
  <2> QED
    BY <2>1, <2>2 DEF IsOperations, StepsOf
<1> HIDE DEF steps, N
<1>3. \A n \in 0 .. N : TreeIsCarried(tree, trees[n])
  BY <1>1, TreesAreCarried DEF N
<1>4. PICK result : /\ ResultsOf(steps, Mapped(position), result)
                    /\ mapSteps(steps, position) = result[N]
  BY <1>2, ResultsInOrder
<1> DEFINE There(n) == result[n].status = "mapped" => IsInText(trees[n], p, result[n].position)
           AllThere == {n \in 0 .. N : There(n)}
<1>5. 0 \in AllThere
  <2>1. result[0] = Mapped(position)
    BY <1>4 DEF ResultsOf
  <2>2. result[0].position = position
    BY <2>1 DEF Mapped
  <2> QED
    BY <1>1, <1>2, <2>2
<1>6. ASSUME NEW n \in 0 .. N - 1, n \in AllThere
      PROVE  n + 1 \in AllThere
  <2> DEFINE mid == trees[n]
             after == trees[n + 1]
             operation == operations[n + 1]
             step == steps[n + 1]
             before == result[n]
             moved == result[n + 1]
  <2>1. n + 1 \in 1 .. N /\ n + 1 \in 0 .. N /\ (n + 1) - 1 = n /\ n \in 0 .. N
    BY <1>2
  <2>2. /\ Replaces(mid, after, operation) /\ isString(operation.replacement)
        /\ step = positionMapStep(operation)
        /\ moved = mapPositionResultThrough(before, step)
        /\ TreeIsCarried(tree, mid)
    BY <1>1, <1>2, <1>3, <1>4, <2>1 DEF ResultsOf
  <2>3. before.status = "mapped" => IsInText(mid, p, before.position)
    BY <1>6
  <2> HIDE DEF mid, after, operation, step, before, moved
  <2>4. IsTree(mid) /\ TextsAreWellFormed(mid) /\ p \in DOMAIN mid /\ mid[p].type = "text"
    BY <2>2 DEF TreeIsCarried, IsCarried
  <2>5. ASSUME moved.status = "mapped"
        PROVE  IsInText(after, p, moved.position)
    <3>1. CASE before.status = "mapped"
      <4>1. moved = mapStep(step, before.position)
        BY <2>2, <3>1 DEF mapPositionResultThrough
      <4>2. IsInText(mid, p, before.position)
        BY <2>3, <3>1
      <4> QED
        BY <2>2, <2>4, <2>5, <4>1, <4>2, OperationKeepsText
    <3>2. CASE before.status = "deleted"
      <4>1. moved = mapDeletedPositionThrough(before.nearest, step)
        BY <2>2, <3>2 DEF mapPositionResultThrough
      <4>2. moved.status # "mapped"
        BY <4>1 DEF mapDeletedPositionThrough, Deleted
      <4> QED
        BY <2>5, <4>2
    <3>3. CASE before.status \notin {"mapped", "deleted"}
      <4>1. moved = before
        BY <2>2, <3>3 DEF mapPositionResultThrough
      <4> QED
        BY <2>5, <3>3, <4>1
    <3> QED
      BY <3>1, <3>2, <3>3
  <2> QED
    BY <2>1, <2>5 DEF after, moved
<1> HIDE DEF There
<1>7. There(N)
  <2> HIDE DEF AllThere
  <2>1. \A n \in 0 .. N : n \in AllThere
    BY <1>2, <1>5, <1>6, InductionUpTo
  <2>2. N \in 0 .. N
    BY <1>2
  <2> QED
    BY <2>1, <2>2 DEF AllThere
<1> QED
  BY <1>1, <1>4, <1>7 DEF There, steps

-----------------------------------------------------------------------------
(* Every Revision is a manuscript. *)

\* The nodes that name or declare something else: it is there, and their own.
NodesAreSound(tree, references) ==
    /\ \A p \in DOMAIN tree :
          /\ tree[p].type \in {"citation", "displayEquation", "figure", "table",
                               "footnoteReference"} => "attrs" \in DOMAIN tree[p]
          /\ tree[p].type = "citation" => tree[p].attrs.referenceId \in references
          /\ tree[p].type = "footnoteReference" =>
                \E q \in DOMAIN tree :
                    tree[q].id = tree[p].attrs.footnoteNodeId /\ tree[q].type = "footnote"
    /\ \A p, q \in DOMAIN tree :
          p # q => declaredEntityIds(tree[p]) \cap declaredEntityIds(tree[q]) = {}

EntitiesOf(graph) == graph.referenceSnapshots \o graph.evidenceLinks \o graph.claims

\* The entities of a graph have IDs of their own, which no node declares.
GraphIsSound(graph, declared) ==
    /\ {"referenceSnapshots", "evidenceLinks", "claims"} \subseteq DOMAIN graph
    /\ \A key \in {"referenceSnapshots", "evidenceLinks", "claims"} :
          graph[key] \in Seq(Range(graph[key]))
    /\ \A i, j \in DOMAIN EntitiesOf(graph) :
          EntitiesOf(graph)[i].id = EntitiesOf(graph)[j].id => i = j
    /\ \A i \in DOMAIN EntitiesOf(graph) : EntitiesOf(graph)[i].id \notin declared

\* A claim is anchored in this Revision, at a cut of a text or at a node.
IsAnchored(tree, claim, revisionId) ==
    /\ IsClaim(claim)
    /\ claim.anchor.document.revisionId = revisionId
    /\ IF claim.anchor.primary.kind = "text"
       THEN \E p \in DOMAIN tree :
                tree[p].type = "text" /\ IsInText(tree, p, claim.anchor.primary)
       ELSE \E p \in DOMAIN tree : tree[p].id = claim.anchor.primary.parent

IsSound(document) ==
    LET tree == document.root
        graph == document.academicGraph
    IN  /\ IsTree(tree) /\ TextsAreWellFormed(tree)
        /\ NodesAreSound(tree, idsOf(graph.referenceSnapshots))
        /\ GraphIsSound(graph, treeEntityIds(tree))
        /\ \A i \in DOMAIN graph.claims :
              IsAnchored(tree, graph.claims[i], document.revisionId)

\* A sound document is a manuscript.
LEMMA SoundIsManuscript ==
    ASSUME NEW document, IsSound(document)
    PROVE  IsManuscript(document)
<1> DEFINE tree == document.root
           graph == document.academicGraph
           entities == EntitiesOf(graph)
<1>1. /\ IsTree(tree) /\ TextsAreWellFormed(tree)
      /\ NodesAreSound(tree, idsOf(graph.referenceSnapshots))
      /\ GraphIsSound(graph, treeEntityIds(tree))
      /\ \A i \in DOMAIN graph.claims :
            IsAnchored(tree, graph.claims[i], document.revisionId)
  BY DEF IsSound
<1> HIDE DEF tree, graph, entities
<1>2. IsInjective([p \in DOMAIN tree |-> tree[p].id])
  BY <1>1 DEF IsTree, IsInjective
<1>3. IsInjective([i \in DOMAIN entities |-> entities[i].id])
  BY <1>1 DEF GraphIsSound, IsInjective, entities
<1>4. \A p, q \in {r \in DOMAIN tree : declaredEntityIds(tree[r]) # {}} :
        p # q => declaredEntityIds(tree[p]) \cap declaredEntityIds(tree[q]) = {}
  BY <1>1 DEF NodesAreSound
<1>5. treeEntityIds(tree) \cap idsOf(entities) = {}
  BY <1>1 DEF GraphIsSound, idsOf, entities
<1>6. ASSUME NEW p \in DOMAIN tree
      PROVE  CASE tree[p].type = "text" -> hasWellFormedUtf16(tree[p].value)
               [] tree[p].type = "citation" ->
                     tree[p].attrs.referenceId \in idsOf(graph.referenceSnapshots)
               [] tree[p].type = "footnoteReference" ->
                     \E note \in nodesWithId(tree, tree[p].attrs.footnoteNodeId) :
                         note.type = "footnote"
               [] OTHER -> TRUE
  <2>1. CASE tree[p].type = "text"
    BY <1>1, <2>1 DEF TextsAreWellFormed
  <2>2. CASE tree[p].type = "citation"
    BY <1>1, <2>2 DEF NodesAreSound
  <2>3. CASE tree[p].type = "footnoteReference"
    <3>1. PICK q \in DOMAIN tree :
            tree[q].id = tree[p].attrs.footnoteNodeId /\ tree[q].type = "footnote"
      BY <1>1, <2>3 DEF NodesAreSound
    <3>2. tree[q] \in nodesWithId(tree, tree[p].attrs.footnoteNodeId)
      BY <3>1 DEF nodesWithId
    <3> QED
      BY <2>3, <3>1, <3>2
  <2>4. CASE tree[p].type \notin {"text", "citation", "footnoteReference"}
    BY <2>4
  <2> QED
    BY <2>1, <2>2, <2>3, <2>4
<1>7. ASSUME NEW i \in DOMAIN graph.claims
      PROVE  LET anchor == graph.claims[i].anchor
             IN  /\ anchor.document.revisionId = document.revisionId
                 /\ IF anchor.primary.kind = "text"
                    THEN \E node \in nodesWithId(tree, anchor.primary.node) :
                             /\ node.type = "text"
                             /\ validateUtf16Boundary(node.value, anchor.primary.offset)
                    ELSE nodesWithId(tree, anchor.primary.parent) # {}
  <2> DEFINE anchor == graph.claims[i].anchor
  <2>1. IsAnchored(tree, graph.claims[i], document.revisionId)
    BY <1>1
  <2>2. CASE anchor.primary.kind = "text"
    <3>1. PICK p \in DOMAIN tree : tree[p].type = "text" /\ IsInText(tree, p, anchor.primary)
      BY <2>1, <2>2 DEF IsAnchored
    <3>2. tree[p] \in nodesWithId(tree, anchor.primary.node)
      BY <3>1 DEF nodesWithId, IsInText
    <3>3. validateUtf16Boundary(tree[p].value, anchor.primary.offset)
      BY <1>1, <3>1, BoundaryIsCut DEF IsInText, IsTree, IsNode, TextsAreWellFormed
    <3> QED
      BY <2>1, <2>2, <3>1, <3>2, <3>3 DEF IsAnchored
  <2>3. CASE anchor.primary.kind # "text"
    <3>1. PICK p \in DOMAIN tree : tree[p].id = anchor.primary.parent
      BY <2>1, <2>3 DEF IsAnchored
    <3>2. tree[p] \in nodesWithId(tree, anchor.primary.parent)
      BY <3>1 DEF nodesWithId
    <3> QED
      BY <2>1, <2>3, <3>2 DEF IsAnchored
  <2> QED
    BY <2>2, <2>3
<1> QED
  BY <1>2, <1>3, <1>4, <1>5, <1>6, <1>7 DEF IsManuscript, EntitiesOf, tree, graph, entities

\* The checks of the tree, node by node.
LEMMA CheckedNodes ==
    ASSUME NEW tree, NEW authors, validateTree(tree, authors) = "ok",
           Visits(tree) \in Seq(DOMAIN tree), Range(Visits(tree)) = DOMAIN tree
    PROVE  /\ \A p \in DOMAIN tree : isValidNodePayloadShape(tree[p], tree[p].type)
           /\ \A p, q \in DOMAIN tree :
                 p # q => declaredEntityIds(tree[p]) \cap declaredEntityIds(tree[q]) = {}
<1> DEFINE visits == Visits(tree)
           n == Len(visits)
           verdicts == [i \in DOMAIN visits |-> visitNode(tree, visits, i, authors)]
<1>1. FirstFailure(verdicts) = "ok"
  BY DEF validateTree
<1>2. visits \in Seq(DOMAIN tree) /\ Range(visits) = DOMAIN tree
  OBVIOUS
<1> HIDE DEF visits
<1>3. n \in Nat /\ DOMAIN visits = 1 .. n
  BY <1>2, LenProperties
<1>4. DOMAIN verdicts = 1 .. n /\ \A i \in 1 .. n : verdicts[i] = visitNode(tree, visits, i, authors)
  BY <1>3
<1> HIDE DEF verdicts, n
<1>5. \A i \in 1 .. n : visitNode(tree, visits, i, authors) = "ok"
  BY <1>1, <1>3, <1>4, NothingFailed
<1>6. \A p \in DOMAIN tree : \E i \in 1 .. n : visits[i] = p
  BY <1>2, <1>3 DEF Range
<1>7. ASSUME NEW p \in DOMAIN tree
      PROVE  isValidNodePayloadShape(tree[p], tree[p].type)
  <2>1. PICK i \in 1 .. n : visits[i] = p
    BY <1>6
  <2>2. isValidNodePayloadShape(tree[visits[i]], tree[visits[i]].type)
    BY <1>5, VisitedNode
  <2> QED
    BY <2>1, <2>2
<1>8. ASSUME NEW i \in 1 .. n, NEW j \in 1 .. i - 1
      PROVE  declaredEntityIds(tree[visits[i]]) \cap declaredEntityIds(tree[visits[j]]) = {}
  <2> DEFINE earlier == {tree[visits[k]] : k \in 1 .. i - 1}
             declared == UNION {declaredEntityIds(other) : other \in earlier}
  <2>1. tree[visits[j]] \in earlier
    OBVIOUS
  <2>2. visitNode(tree, visits, i, authors) = "ok"
    BY <1>5
  <2>3. declaredEntityIds(tree[visits[i]]) \cap (authors \cup declared) = {}
    BY <2>2 DEF visitNode
  <2> HIDE DEF earlier
  <2> QED
    BY <2>1, <2>3
<1>9. ASSUME NEW p \in DOMAIN tree, NEW q \in DOMAIN tree, p # q
      PROVE  declaredEntityIds(tree[p]) \cap declaredEntityIds(tree[q]) = {}
  <2>1. PICK i \in 1 .. n : visits[i] = p
    BY <1>6
  <2>2. PICK j \in 1 .. n : visits[j] = q
    BY <1>6
  <2>3. i # j
    BY <1>9, <2>1, <2>2
  <2>4. j \in 1 .. i - 1 \/ i \in 1 .. j - 1
    BY <1>3, <2>3
  <2> QED
    BY <1>8, <2>1, <2>2, <2>4
<1> QED
  BY <1>7, <1>9

\* A canonical Snapshot is sound.
LEMMA CheckedIsSound ==
    ASSUME NEW document, IsDocument(document), isCanonicalSnapshot(document),
           IsWrittenDown(document), IsChecked(document)
    PROVE  IsSound(document)
<1> DEFINE tree == document.root
           graph == document.academicGraph
           authors == authorEntityIds(document.metadata)
           declared == treeEntityIds(tree)
           known == authors \cup declared
           references == idsOf(graph.referenceSnapshots)
<1>1. /\ validateTree(tree, authors) = "ok"
      /\ collectAcademicEntityIds(graph, known) = "ok"
      /\ validateTreeReferences(tree, graph, known \cup academicEntityIds(graph)) = "ok"
      /\ validateClaimAnchors(document) = "ok"
      /\ isAcademicGraphRecord(graph)
  BY CanonicalIsChecked DEF IsChecked
<1>2. /\ IsTree(tree)
      /\ Visits(tree) \in Seq(DOMAIN tree) /\ Range(Visits(tree)) = DOMAIN tree
      /\ \A key \in {"referenceSnapshots", "evidenceLinks", "claims"} :
            graph[key] \in Seq(Range(graph[key]))
  BY DEF IsDocument, IsWrittenDown
<1>3. \A i \in DOMAIN graph.claims :
        validateClaimAnchor(tree, graph.claims[i].anchor, document.revisionId)
  BY <1>1 DEF validateClaimAnchors
<1> HIDE DEF tree, graph, known, authors
<1>4. /\ \A p \in DOMAIN tree : isValidNodePayloadShape(tree[p], tree[p].type)
      /\ \A p, q \in DOMAIN tree :
            p # q => declaredEntityIds(tree[p]) \cap declaredEntityIds(tree[q]) = {}
  BY <1>1, <1>2, CheckedNodes
<1>5. TextsAreWellFormed(tree)
  BY <1>4 DEF TextsAreWellFormed, isValidNodePayloadShape, isValidTextNodePayload
<1>6. NodesAreSound(tree, references)
  <2>1. ASSUME NEW p \in DOMAIN tree, tree[p].type # "text"
        PROVE  "attrs" \in DOMAIN tree[p]
    BY <1>4, <2>1 DEF isValidNodePayloadShape
  <2>2. /\ referencesOf(tree, "citation", "referenceId") \subseteq references
        /\ \A id \in referencesOf(tree, "footnoteReference", "footnoteNodeId") :
              \E node \in nodesWithId(tree, id) : node.type = "footnote"
    BY <1>1 DEF validateTreeReferences
  <2>3. ASSUME NEW p \in DOMAIN tree, tree[p].type = "citation"
        PROVE  tree[p].attrs.referenceId \in references
    BY <2>2, <2>3 DEF referencesOf
  <2>4. ASSUME NEW p \in DOMAIN tree, tree[p].type = "footnoteReference"
        PROVE  \E q \in DOMAIN tree :
                  tree[q].id = tree[p].attrs.footnoteNodeId /\ tree[q].type = "footnote"
    <3>1. tree[p].attrs.footnoteNodeId \in referencesOf(tree, "footnoteReference", "footnoteNodeId")
      BY <2>4 DEF referencesOf
    <3> QED
      BY <2>2, <3>1 DEF nodesWithId
  <2> QED
    BY <1>4, <2>1, <2>3, <2>4 DEF NodesAreSound
<1>7. GraphIsSound(graph, declared)
  <2> DEFINE entities == EntitiesOf(graph)
             n == Len(entities)
  <2>1. EntitiesAreChecked(graph, known)
    BY <1>1, <1>2, CollectedEntities
  <2>2. /\ entities \in Seq(Range(entities))
        /\ \A i \in 1 .. n : /\ entities[i].id \notin known
                             /\ \A j \in 1 .. i - 1 : entities[j].id # entities[i].id
    BY <2>1 DEF EntitiesAreChecked, EntitiesOf
  <2> HIDE DEF entities, n
  <2>3. n \in Nat /\ DOMAIN entities = 1 .. n
    BY <2>2, LenProperties DEF n
  <2>4. ASSUME NEW i \in 1 .. n, NEW j \in 1 .. n, entities[i].id = entities[j].id
        PROVE  i = j
    <3>1. j \notin 1 .. i - 1 /\ i \notin 1 .. j - 1
      BY <2>2, <2>4
    <3> QED
      BY <2>3, <3>1
  <2>5. {"referenceSnapshots", "evidenceLinks", "claims"} \subseteq DOMAIN graph
    BY <1>1 DEF isAcademicGraphRecord, Keys
  <2> QED
    BY <1>2, <2>2, <2>3, <2>4, <2>5 DEF GraphIsSound, known, entities
<1>8. ASSUME NEW i \in DOMAIN graph.claims
      PROVE  IsAnchored(tree, graph.claims[i], document.revisionId)
  <2> DEFINE claim == graph.claims[i]
             primary == claim.anchor.primary
  <2>1. IsClaim(claim)
    BY <1>1, <1>2, CollectedEntities, ShapedClaim DEF EntitiesAreChecked
  <2>2. /\ claim.anchor.document.revisionId = document.revisionId
        /\ validateClaimPrimaryPosition(tree, primary)
    BY <1>3 DEF validateClaimAnchor
  <2>3. CASE primary.kind = "text"
    <3>1. PICK node \in nodesWithId(tree, primary.node) :
            node.type = "text" /\ validateUtf16Boundary(node.value, primary.offset)
      BY <2>2, <2>3 DEF validateClaimPrimaryPosition
    <3>2. PICK p \in DOMAIN tree : tree[p] = node /\ tree[p].id = primary.node
      BY <3>1 DEF nodesWithId
    <3>3. {"kind", "node", "offset"} \subseteq DOMAIN primary
      BY <2>1, <2>3 DEF IsClaim
    <3>4. IsCut(tree[p].value, primary.offset)
      BY <1>2, <1>5, <3>1, <3>2, BoundaryIsCut DEF IsTree, IsNode, TextsAreWellFormed
    <3>5. IsInText(tree, p, primary)
      BY <2>3, <3>2, <3>3, <3>4 DEF IsInText
    <3> QED
      BY <2>1, <2>2, <2>3, <3>1, <3>2, <3>5 DEF IsAnchored
  <2>4. CASE primary.kind # "text"
    <3>1. nodesWithId(tree, primary.parent) # {}
      BY <2>2, <2>4 DEF validateClaimPrimaryPosition
    <3>2. \E p \in DOMAIN tree : tree[p].id = primary.parent
      BY <3>1 DEF nodesWithId
    <3> QED
      BY <2>1, <2>2, <2>4, <3>2 DEF IsAnchored
  <2> QED
    BY <2>3, <2>4
<1> QED
  BY <1>2, <1>5, <1>6, <1>7, <1>8 DEF IsSound, tree, graph

\* What a carried node declares is what it declared.
LEMMA CarriedNodes ==
    ASSUME NEW tree, NEW references, NodesAreSound(tree, references),
           NEW next, TreeIsCarried(tree, next)
    PROVE  NodesAreSound(next, references) /\ treeEntityIds(next) = treeEntityIds(tree)
<1>1. DOMAIN next = DOMAIN tree /\ \A p \in DOMAIN tree : IsCarried(tree[p], next[p])
  BY DEF TreeIsCarried
<1>2. ASSUME NEW p \in DOMAIN tree
      PROVE  /\ next[p].id = tree[p].id /\ next[p].type = tree[p].type
             /\ tree[p].type # "text" => DOMAIN next[p] = DOMAIN tree[p]
             /\ tree[p].type # "text" /\ "attrs" \in DOMAIN tree[p] =>
                   next[p].attrs = tree[p].attrs
  BY <1>1 DEF IsCarried
<1>3. ASSUME NEW p \in DOMAIN tree
      PROVE  declaredEntityIds(next[p]) = declaredEntityIds(tree[p])
  <2>1. CASE tree[p].type \in {"citation", "displayEquation", "figure", "table"}
    <3>1. "attrs" \in DOMAIN tree[p] /\ tree[p].type # "text"
      BY <2>1 DEF NodesAreSound
    <3>2. next[p].type = tree[p].type /\ next[p].attrs = tree[p].attrs
      BY <1>2, <3>1
    <3> QED
      BY <3>2 DEF declaredEntityIds
  <2>2. CASE tree[p].type \notin {"citation", "displayEquation", "figure", "table"}
    <3>1. next[p].type = tree[p].type
      BY <1>2
    <3> QED
      BY <2>2, <3>1 DEF declaredEntityIds
  <2> QED
    BY <2>1, <2>2
<1>4. ASSUME NEW p \in DOMAIN next
      PROVE  /\ next[p].type \in {"citation", "displayEquation", "figure", "table",
                                  "footnoteReference"} => "attrs" \in DOMAIN next[p]
             /\ next[p].type = "citation" => next[p].attrs.referenceId \in references
             /\ next[p].type = "footnoteReference" =>
                   \E q \in DOMAIN next :
                       next[q].id = next[p].attrs.footnoteNodeId /\ next[q].type = "footnote"
  <2>1. p \in DOMAIN tree
    BY <1>1
  <2>2. /\ tree[p].type \in {"citation", "displayEquation", "figure", "table",
                             "footnoteReference"} => "attrs" \in DOMAIN tree[p]
        /\ tree[p].type = "citation" => tree[p].attrs.referenceId \in references
        /\ tree[p].type = "footnoteReference" =>
              \E q \in DOMAIN tree :
                  tree[q].id = tree[p].attrs.footnoteNodeId /\ tree[q].type = "footnote"
    BY <2>1 DEF NodesAreSound
  <2>3. /\ next[p].type = tree[p].type
        /\ tree[p].type # "text" => DOMAIN next[p] = DOMAIN tree[p]
        /\ tree[p].type # "text" /\ "attrs" \in DOMAIN tree[p] => next[p].attrs = tree[p].attrs
    BY <1>2, <2>1
  <2>4. CASE tree[p].type = "footnoteReference"
    <3>1. PICK q \in DOMAIN tree :
            tree[q].id = tree[p].attrs.footnoteNodeId /\ tree[q].type = "footnote"
      BY <2>2, <2>4
    <3>2. q \in DOMAIN next /\ next[q].id = tree[q].id /\ next[q].type = "footnote"
      BY <1>1, <1>2, <3>1
    <3>3. "attrs" \in DOMAIN next[p] /\ next[p].attrs = tree[p].attrs
      BY <2>2, <2>3, <2>4
    <3> QED
      BY <2>3, <2>4, <3>1, <3>2, <3>3
  <2>5. CASE tree[p].type # "footnoteReference"
    BY <2>2, <2>3, <2>5
  <2> QED
    BY <2>4, <2>5
<1>5. \A p, q \in DOMAIN next :
        p # q => declaredEntityIds(next[p]) \cap declaredEntityIds(next[q]) = {}
  BY <1>1, <1>3 DEF NodesAreSound
<1>6. treeEntityIds(next) = treeEntityIds(tree)
  BY <1>1, <1>3 DEF treeEntityIds
<1> QED
  BY <1>4, <1>5, <1>6 DEF NodesAreSound

\* New values of the claims, with the same IDs, leave the IDs of the graph.
LEMMA CarriedEntities ==
    ASSUME NEW graph, NEW declared, GraphIsSound(graph, declared), NEW next,
           DOMAIN next = DOMAIN graph,
           next.referenceSnapshots = graph.referenceSnapshots,
           next.evidenceLinks = graph.evidenceLinks,
           next.claims = [i \in DOMAIN graph.claims |-> next.claims[i]],
           \A i \in DOMAIN graph.claims : next.claims[i].id = graph.claims[i].id
    PROVE  GraphIsSound(next, declared)
<1> DEFINE refs == graph.referenceSnapshots
           links == graph.evidenceLinks
           claims == graph.claims
           others == next.claims
           front == refs \o links
           S == Range(refs) \cup Range(links) \cup Range(claims) \cup Range(others)
           n == Len(front)
           m == Len(claims)
           all == front \o claims
           after == front \o others
<1>1. /\ refs \in Seq(Range(refs)) /\ links \in Seq(Range(links))
      /\ claims \in Seq(Range(claims))
  BY DEF GraphIsSound
<1>2. m \in Nat /\ DOMAIN claims = 1 .. m
  <2> HIDE DEF claims
  <2> QED
    BY <1>1, LenProperties
<1>3. others \in Seq(Range(others)) /\ Len(others) = m
  <2>1. others = [i \in 1 .. m |-> others[i]]
    BY <1>2
  <2> HIDE DEF others, m
  <2> QED
    BY <1>2, <2>1, LenOfFunction
<1> HIDE DEF refs, links, claims, others
<1>4. refs \in Seq(S) /\ links \in Seq(S) /\ claims \in Seq(S) /\ others \in Seq(S)
  <2>1. /\ Range(refs) \subseteq S /\ Range(links) \subseteq S
        /\ Range(claims) \subseteq S /\ Range(others) \subseteq S
    OBVIOUS
  <2> HIDE DEF S
  <2> QED
    BY <1>1, <1>3, <2>1, SeqMonotonic
<1> HIDE DEF S
<1>5. front \in Seq(S) /\ n \in Nat
  BY <1>4
<1> HIDE DEF front, n, m
<1>6. /\ front \o claims \in Seq(S) /\ Len(front \o claims) = n + m
      /\ \A i \in 1 .. n + m : (front \o claims)[i] = IF i <= n THEN front[i] ELSE claims[i - n]
  BY <1>4, <1>5, ConcatProperties DEF n, m
<1>7. /\ front \o others \in Seq(S) /\ Len(front \o others) = n + m
      /\ \A i \in 1 .. n + m : (front \o others)[i] = IF i <= n THEN front[i] ELSE others[i - n]
  <2>1. /\ front \o others \in Seq(S) /\ Len(front \o others) = n + Len(others)
        /\ \A i \in 1 .. n + Len(others) :
              (front \o others)[i] = IF i <= n THEN front[i] ELSE others[i - n]
    BY <1>4, <1>5, ConcatProperties DEF n
  <2> QED
    BY <1>3, <2>1
<1>8. DOMAIN all = 1 .. n + m /\ DOMAIN after = 1 .. n + m
  BY <1>6, <1>7
<1>9. ASSUME NEW i \in 1 .. n + m
      PROVE  after[i].id = all[i].id
  <2>1. CASE i <= n
    BY <1>6, <1>7, <2>1
  <2>2. CASE ~ (i <= n)
    <3>1. i - n \in 1 .. m
      BY <1>2, <1>5, <2>2
    <3>2. others[i - n].id = claims[i - n].id
      BY <1>2, <3>1 DEF others, claims
    <3> QED
      BY <1>6, <1>7, <2>2, <3>2
  <2> QED
    BY <2>1, <2>2
<1>10. all = EntitiesOf(graph) /\ after = EntitiesOf(next)
  BY DEF EntitiesOf, front, refs, links, claims, others
<1> HIDE DEF all, after
<1>11. /\ \A i, j \in 1 .. n + m : all[i].id = all[j].id => i = j
       /\ \A i \in 1 .. n + m : all[i].id \notin declared
       /\ {"referenceSnapshots", "evidenceLinks", "claims"} \subseteq DOMAIN next
  BY <1>8, <1>10 DEF GraphIsSound
<1>12. \A key \in {"referenceSnapshots", "evidenceLinks", "claims"} :
         next[key] \in Seq(Range(next[key]))
  BY <1>1, <1>3 DEF refs, links, others
<1> QED
  BY <1>8, <1>9, <1>10, <1>11, <1>12 DEF GraphIsSound

\* A claim that a Transaction moves is anchored in the Revision it makes.
LEMMA MovedClaim ==
    ASSUME NEW tree, IsTree(tree), TextsAreWellFormed(tree), NEW operations,
           IsOperations(operations), NEW next, Chain(tree, next, operations),
           NEW claim, NEW before, IsAnchored(tree, claim, before), NEW map,
           FlattenSeq(map.leaves) = StepsOf(operations),
           mapPosition(map, claim.anchor.primary).status = "mapped",
           NEW new, NEW id, ClaimMoves(claim, new, map, id)
    PROVE  IsAnchored(next, new, id)
<1> DEFINE old == claim.anchor.primary
           primary == new.anchor.primary
<1>1. /\ IsClaim(new)
      /\ new.anchor.document.revisionId = id
      /\ primary = mapSteps(StepsOf(operations), old).position
      /\ primary.kind = old.kind
      /\ old.kind # "text" => primary = old
      /\ mapSteps(StepsOf(operations), old).status = "mapped"
  BY DEF ClaimMoves, mapPosition
<1>2. TreeIsCarried(tree, next)
  BY TransactionCarries
<1>3. DOMAIN next = DOMAIN tree /\ \A p \in DOMAIN tree : IsCarried(tree[p], next[p])
  BY <1>2 DEF TreeIsCarried
<1>4. CASE old.kind = "text"
  <2>1. PICK p \in DOMAIN tree : tree[p].type = "text" /\ IsInText(tree, p, old)
    BY <1>4 DEF IsAnchored
  <2>2. IsInText(next, p, mapSteps(StepsOf(operations), old).position)
    BY <1>1, <2>1, TransactionKeepsPosition
  <2>3. p \in DOMAIN next /\ next[p].type = "text" /\ IsInText(next, p, primary)
    BY <1>1, <1>3, <2>1, <2>2 DEF IsCarried
  <2> QED
    BY <1>1, <1>4, <2>3 DEF IsAnchored
<1>5. CASE old.kind # "text"
  <2>1. PICK p \in DOMAIN tree : tree[p].id = old.parent
    BY <1>5 DEF IsAnchored
  <2>2. p \in DOMAIN next /\ next[p].id = primary.parent
    BY <1>1, <1>3, <1>5, <2>1 DEF IsCarried
  <2> QED
    BY <1>1, <1>5, <2>2 DEF IsAnchored
<1> QED
  BY <1>4, <1>5

\* The Revision after a sound one is sound.
LEMMA NextIsSound ==
    ASSUME EInv, HistoryIsMapped, NEW c \in 2 .. Len(history), IsSound(DocumentOf(c - 1))
    PROVE  IsSound(DocumentOf(c))
<1> DEFINE document == DocumentOf(c - 1)
           next == DocumentOf(c)
           tree == document.root
           graph == document.academicGraph
           operations == OperationsOf(c)
           map == history[c].positionMap
           id == history[c].revision.id
           references == idsOf(graph.referenceSnapshots)
<1>1. /\ Chain(tree, next.root, operations) /\ IsOperations(operations)
      /\ HasTheRestOf(document, next)
  BY DEF EInv, HistoryIsDerived, Derives, DocumentOf, OperationsOf
<1>2. FollowsFrom(history[c - 1], history[c])
  BY DEF HistoryIsMapped
<1>3. /\ next.revisionId = id
      /\ IsRebased(graph.claims, next.academicGraph.claims, map, id)
  BY <1>2 DEF FollowsFrom, DocumentOf
<1>4. FlattenSeq(map.leaves) = StepsOf(operations)
  BY MapOfOne
<1>5. /\ DOMAIN ClaimsOf(c) = DOMAIN ClaimsOf(c - 1)
      /\ \A i \in DOMAIN ClaimsOf(c - 1) :
            /\ mapPosition(map, ClaimsOf(c - 1)[i].anchor.primary).status = "mapped"
            /\ ClaimMoves(ClaimsOf(c - 1)[i], ClaimsOf(c)[i], map, id)
  BY ClaimsOfHistory DEF ClaimsMove
<1>6. /\ DOMAIN next.academicGraph.claims = DOMAIN graph.claims
      /\ \A i \in DOMAIN graph.claims :
            /\ mapPosition(map, graph.claims[i].anchor.primary).status = "mapped"
            /\ ClaimMoves(graph.claims[i], next.academicGraph.claims[i], map, id)
  BY <1>5 DEF ClaimsOf
<1>7. /\ IsTree(tree) /\ TextsAreWellFormed(tree)
      /\ NodesAreSound(tree, references)
      /\ GraphIsSound(graph, treeEntityIds(tree))
      /\ \A i \in DOMAIN graph.claims : IsAnchored(tree, graph.claims[i], document.revisionId)
  BY DEF IsSound
<1> HIDE DEF document, next, operations, map, id
<1>8. TreeIsCarried(tree, next.root)
  BY <1>1, <1>7, TransactionCarries
<1>9. /\ NodesAreSound(next.root, references)
      /\ treeEntityIds(next.root) = treeEntityIds(tree)
  BY <1>7, <1>8, CarriedNodes
<1>10. PICK stamp : next.academicGraph.claims =
                       [i \in DOMAIN graph.claims |-> rebaseClaim(graph.claims[i], map, id, stamp)]
  BY <1>3 DEF IsRebased
<1>11. /\ DOMAIN next.academicGraph = DOMAIN graph
       /\ next.academicGraph.referenceSnapshots = graph.referenceSnapshots
       /\ next.academicGraph.evidenceLinks = graph.evidenceLinks
       /\ next.academicGraph.claims =
             [i \in DOMAIN graph.claims |-> next.academicGraph.claims[i]]
       /\ \A i \in DOMAIN graph.claims : next.academicGraph.claims[i].id = graph.claims[i].id
  <2>1. /\ DOMAIN next.academicGraph = DOMAIN graph
        /\ next.academicGraph.referenceSnapshots = graph.referenceSnapshots
        /\ next.academicGraph.evidenceLinks = graph.evidenceLinks
    BY <1>1, <1>7 DEF HasTheRestOf, GraphIsSound
  <2>2. \A i \in DOMAIN graph.claims : next.academicGraph.claims[i].id = graph.claims[i].id
    BY <1>6 DEF ClaimMoves
  <2>3. next.academicGraph.claims = [i \in DOMAIN graph.claims |-> next.academicGraph.claims[i]]
    BY <1>10
  <2> QED
    BY <2>1, <2>2, <2>3
<1>12. GraphIsSound(next.academicGraph, treeEntityIds(tree))
  BY <1>7, <1>11, CarriedEntities
<1>13. ASSUME NEW i \in DOMAIN next.academicGraph.claims
       PROVE  IsAnchored(next.root, next.academicGraph.claims[i], next.revisionId)
  <2>1. /\ i \in DOMAIN graph.claims
        /\ mapPosition(map, graph.claims[i].anchor.primary).status = "mapped"
        /\ ClaimMoves(graph.claims[i], next.academicGraph.claims[i], map, id)
    BY <1>6
  <2>2. IsAnchored(tree, graph.claims[i], document.revisionId)
    BY <1>7, <2>1
  <2> QED
    BY <1>1, <1>3, <1>4, <1>7, <2>1, <2>2, MovedClaim
<1>14. IsTree(next.root) /\ TextsAreWellFormed(next.root)
  BY <1>8 DEF TreeIsCarried
<1> HIDE DEF references, tree
<1>15. idsOf(next.academicGraph.referenceSnapshots) = references
  BY <1>11 DEF references
<1> QED
  BY <1>9, <1>12, <1>13, <1>14, <1>15 DEF IsSound, next

\* Every Revision of a history that is mapped is sound.
LEMMA HistoryIsSound ==
    ASSUME EInv, HistoryIsMapped
    PROVE  EveryRevisionIsSound
<1> DEFINE N == Len(history) - 1
           Sound(c) == IsSound(DocumentOf(c))
           AllSound == {n \in 0 .. N : Sound(n + 1)}
<1>1. Len(history) \in Nat /\ DOMAIN history = 1 .. Len(history)
  BY HistoryIsASequence
<1>2. CASE Len(history) = 0
  BY <1>1, <1>2 DEF EveryRevisionIsSound
<1>3. CASE Len(history) # 0
  <2>1. N \in Nat /\ history # <<>> /\ 1 \in DOMAIN history
    BY <1>1, <1>3
  <2>2. FirstIsSound
    BY <2>1, FirstDocument
  <2>3. Sound(1)
    <3>1. IsDocument(DocumentOf(1))
      BY <2>1 DEF EInv, HistoryIsDerived, DocumentOf
    <3> QED
      BY <2>2, <3>1, CheckedIsSound DEF FirstIsSound
  <2>4. ASSUME NEW c \in 2 .. Len(history), Sound(c - 1)
        PROVE  Sound(c)
    BY <2>4, NextIsSound
  <2> HIDE DEF Sound
  <2>5. 0 \in AllSound
    BY <2>1, <2>3
  <2>6. ASSUME NEW n \in 0 .. N - 1, n \in AllSound
        PROVE  n + 1 \in AllSound
    <3>1. (n + 1) + 1 \in 2 .. Len(history) /\ ((n + 1) + 1) - 1 = n + 1 /\ n + 1 \in 0 .. N
      BY <1>1, <2>1
    <3>2. Sound(n + 1)
      BY <2>6
    <3>3. Sound((n + 1) + 1)
      BY <2>4, <3>1, <3>2
    <3> QED
      BY <3>1, <3>3
  <2>7. \A n \in 0 .. N : n \in AllSound
    <3> HIDE DEF AllSound, N
    <3> QED
      BY <2>1, <2>5, <2>6, InductionUpTo
  <2>8. ASSUME NEW i \in DOMAIN history
        PROVE  /\ IsManuscript(DocumentOf(i))
               /\ DocumentOf(i).revisionId = history[i].revision.id
    <3>1. i - 1 \in 0 .. N /\ (i - 1) + 1 = i
      BY <1>1
    <3>2. IsSound(DocumentOf(i))
      BY <2>7, <3>1 DEF Sound
    <3>3. CASE i = 1
      BY <2>2, <3>2, <3>3, SoundIsManuscript DEF FirstIsSound
    <3>4. CASE i # 1
      <4>1. i \in 2 .. Len(history)
        BY <1>1, <3>4
      <4>2. FollowsFrom(history[i - 1], history[i])
        BY <4>1 DEF HistoryIsMapped
      <4> QED
        BY <3>2, <4>2, SoundIsManuscript DEF FollowsFrom, DocumentOf
    <3> QED
      BY <3>3, <3>4
  <2> QED
    BY <2>8 DEF EveryRevisionIsSound, DocumentOf
<1> QED
  BY <1>2, <1>3

\* Every Revision is a manuscript of its own ID, however many Transactions led there and though
\* those of one Operation are not validated as a whole: node and entity IDs name one thing each,
\* references lead somewhere, texts are well-formed and claims are anchored at their boundaries.
THEOREM EveryRevisionIsAlwaysSound == Spec => []EveryRevisionIsSound
<1>1. EInv /\ HistoryIsMapped => EveryRevisionIsSound
  BY HistoryIsSound
<1> QED
  BY <1>1, MappedInvariance, PTL
=============================================================================
