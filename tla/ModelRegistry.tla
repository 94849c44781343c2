---------------------------- MODULE ModelRegistry ----------------------------
(***************************************************************************)
(* InMemoryModelRegistry for one canonical URI: create() and resolve()     *)
(* calls that run side by side, and the Models they construct.  Different  *)
(* URIs share nothing.  A Model is named by the call that constructs it;   *)
(* of its machinery (AuthorityBackedModel) only its life is kept.          *)
(*                                                                         *)
(* An action is the turn between two awaits.  The loader and the Authority *)
(* answer with success or failure, in any order.                           *)
(***************************************************************************)
EXTENDS FiniteSets

CONSTANTS
  Creators,        \* calls of create()
  Resolvers,       \* calls of resolve()
  Nothing          \* `undefined`

ASSUME CallsAssumption == Creators \cap Resolvers = {}
ASSUME OutcomeAssumption ==
  /\ {Nothing, "failed", "exists"} \cap (Creators \cup Resolvers) = {}
  /\ Nothing \notin {"failed", "exists"}

VARIABLES
  hasAuthority,   \* was the registry given a Document Authority?
  registered,     \* the entry of #models
  pending,        \* the entry of #pendingResolutions: the call that owns it
  model,          \* the life of each Model
  call,           \* what each call awaits
  joined,         \* the call whose resolution a resolve() has joined
  outcome         \* the Model or error a call ends with

vars == <<hasAuthority, registered, pending, model, call, joined, outcome>>

Calls == Creators \cup Resolvers

(* A call under way as the owner of a Model to be. *)
Working == {"loading", "aligning", "synchronizing", "discarding", "returning"}

(* An answered call has an answer. *)
TypeOK ==
  /\ hasAuthority \in BOOLEAN
  /\ registered \in Calls \cup {Nothing}
  /\ pending \in Resolvers \cup {Nothing}
  /\ model \in [Calls -> {"none", "live", "draining", "gone"}]
  /\ call \in [Calls -> {"idle", "joined", "done"} \cup Working]
  /\ joined \in [Calls -> Resolvers \cup {Nothing}]
  /\ outcome \in [Calls -> Calls \cup {Nothing, "failed", "exists"}]
  /\ \A c \in Calls : call[c] = "done" => outcome[c] # Nothing

-----------------------------------------------------------------------------
(* A resolve() that owns the resolution still has its `finally` to run     *)
(* when the outcome of #loadAndCreate() is known.                          *)
Settle(c, result) ==
  /\ outcome' = [outcome EXCEPT ![c] = result]
  /\ call' = [call EXCEPT ![c] = IF c \in Resolvers THEN "returning"
                                                   ELSE "done"]

(* Broken variant: whichever Model is disposed, the entry goes. *)
onDispose_AnyModel(m) == registered' = Nothing

onDispose(m) == registered' = IF registered = m THEN Nothing ELSE registered

-----------------------------------------------------------------------------
(* create(), also at the end of #loadAndCreate(). *)

StartCreate(c) ==
  IF registered # Nothing
    THEN Settle(c, "exists")
    ELSE /\ call' = [call EXCEPT ![c] = "aligning"]
         /\ UNCHANGED outcome

Create(c) ==
  /\ c \in Creators
  /\ call[c] = "idle"
  /\ StartCreate(c)
  /\ UNCHANGED <<hasAuthority, registered, pending, model, joined>>

(* #validateAuthorityAlignment() failed. *)
AlignmentFails(c) ==
  /\ call[c] = "aligning"
  /\ hasAuthority
  /\ Settle(c, "failed")
  /\ UNCHANGED <<hasAuthority, registered, pending, model, joined>>

Conflict(c) ==
  /\ call[c] = "aligning"
  /\ registered # Nothing
  /\ Settle(c, "exists")
  /\ UNCHANGED <<hasAuthority, registered, pending, model, joined>>

(* Without an Authority the Model is installed at once; with one, it is    *)
(* first synchronised.                                                     *)
Construct(c) ==
  /\ call[c] = "aligning"
  /\ registered = Nothing
  /\ model' = [model EXCEPT ![c] = "live"]
  /\ IF hasAuthority
       THEN /\ call' = [call EXCEPT ![c] = "synchronizing"]
            /\ UNCHANGED <<hasAuthority, registered, outcome>>
       ELSE /\ registered' = c
            /\ Settle(c, c)
  /\ UNCHANGED <<hasAuthority, pending, joined>>

Install(c) ==
  /\ call[c] = "synchronizing"
  /\ registered = Nothing
  /\ registered' = c
  /\ Settle(c, c)
  /\ UNCHANGED <<hasAuthority, pending, model, joined>>

(* Broken variant: the superfluous Model is dropped without disposal.      *)
Discard_Drops(c) ==
  /\ call[c] = "synchronizing"
  /\ \/ Settle(c, "failed")
     \/ registered # Nothing /\ Settle(c, "exists")
  /\ UNCHANGED <<hasAuthority, registered, pending, model, joined>>

(* Broken variant: a Model that failed to synchronise is only disposed of. *)
Discard_NoAnswer(c) ==
  /\ call[c] = "synchronizing"
  /\ \/ /\ outcome' = [outcome EXCEPT ![c] = "failed"]
        /\ UNCHANGED call
     \/ /\ registered # Nothing
        /\ outcome' = [outcome EXCEPT ![c] = "exists"]
        /\ call' = [call EXCEPT ![c] = "discarding"]
  /\ model' = [model EXCEPT ![c] = "draining"]
  /\ UNCHANGED <<hasAuthority, registered, pending, joined>>

(* Synchronisation failed, or another call was faster: dispose, then fail. *)
Discard(c) ==
  /\ call[c] = "synchronizing"
  /\ \/ outcome' = [outcome EXCEPT ![c] = "failed"]
     \/ registered # Nothing /\ outcome' = [outcome EXCEPT ![c] = "exists"]
  /\ call' = [call EXCEPT ![c] = "discarding"]
  /\ model' = [model EXCEPT ![c] = "draining"]
  /\ UNCHANGED <<hasAuthority, registered, pending, joined>>

FinishDiscard(c) ==
  /\ call[c] = "discarding"
  /\ model[c] = "gone"
  /\ Settle(c, outcome[c])
  /\ UNCHANGED <<hasAuthority, registered, pending, model, joined>>

-----------------------------------------------------------------------------
(* resolve() *)

ResolveActive(c) ==
  /\ c \in Resolvers
  /\ call[c] = "idle"
  /\ registered # Nothing
  /\ call' = [call EXCEPT ![c] = "done"]
  /\ outcome' = [outcome EXCEPT ![c] = registered]
  /\ UNCHANGED <<hasAuthority, registered, pending, model, joined>>

Join(c) ==
  /\ c \in Resolvers
  /\ call[c] = "idle"
  /\ registered = Nothing
  /\ pending # Nothing
  /\ call' = [call EXCEPT ![c] = "joined"]
  /\ joined' = [joined EXCEPT ![c] = pending]
  /\ UNCHANGED <<hasAuthority, registered, pending, model, outcome>>

Load(c) ==
  /\ c \in Resolvers
  /\ call[c] = "idle"
  /\ registered = Nothing
  /\ pending = Nothing
  /\ call' = [call EXCEPT ![c] = "loading"]
  /\ pending' = c
  /\ UNCHANGED <<hasAuthority, registered, model, joined, outcome>>

LoadFails(c) ==
  /\ call[c] = "loading"
  /\ Settle(c, "failed")
  /\ UNCHANGED <<hasAuthority, registered, pending, model, joined>>

(* Broken variant: the resolution counts as over once the loader answers.  *)
Loaded_EndsPending(c) ==
  /\ call[c] = "loading"
  /\ StartCreate(c)
  /\ pending' = Nothing
  /\ UNCHANGED <<hasAuthority, registered, model, joined>>

Loaded(c) ==
  /\ call[c] = "loading"
  /\ StartCreate(c)
  /\ UNCHANGED <<hasAuthority, registered, pending, model, joined>>

ReturnResolution(c) ==
  /\ call[c] = "returning"
  /\ call' = [call EXCEPT ![c] = "done"]
  /\ pending' = IF pending = c THEN Nothing ELSE pending
  /\ UNCHANGED <<hasAuthority, registered, model, joined, outcome>>

ReturnJoined(c) ==
  /\ call[c] = "joined"
  /\ call[joined[c]] \in {"returning", "done"}
  /\ call' = [call EXCEPT ![c] = "done"]
  /\ outcome' = [outcome EXCEPT ![c] = outcome[joined[c]]]
  /\ UNCHANGED <<hasAuthority, registered, pending, model, joined>>

-----------------------------------------------------------------------------
(* unload(), and dispose() by whoever holds the Model.  A Model without an *)
(* Authority is gone in the same turn.                                     *)
Unload ==
  /\ registered # Nothing
  /\ model[registered] = "live"
  /\ IF hasAuthority
       THEN /\ model' = [model EXCEPT ![registered] = "draining"]
            /\ UNCHANGED registered
       ELSE /\ model' = [model EXCEPT ![registered] = "gone"]
            /\ onDispose(registered)
  /\ UNCHANGED <<hasAuthority, pending, call, joined, outcome>>

FinishDispose(m) ==
  /\ model[m] = "draining"
  /\ model' = [model EXCEPT ![m] = "gone"]
  /\ onDispose(m)
  /\ UNCHANGED <<hasAuthority, pending, call, joined, outcome>>

-----------------------------------------------------------------------------
Init ==
  /\ hasAuthority \in BOOLEAN
  /\ registered = Nothing
  /\ pending = Nothing
  /\ model = [c \in Calls |-> "none"]
  /\ call = [c \in Calls |-> "idle"]
  /\ joined = [c \in Calls |-> Nothing]
  /\ outcome = [c \in Calls |-> Nothing]

Continue(c) ==
  \/ AlignmentFails(c)
  \/ Conflict(c)
  \/ Construct(c)
  \/ Install(c)
  \/ Discard(c)
  \/ FinishDiscard(c)
  \/ LoadFails(c)
  \/ Loaded(c)
  \/ ReturnResolution(c)
  \/ ReturnJoined(c)

Next ==
  \/ \E c \in Calls :
       \/ Create(c)
       \/ ResolveActive(c)
       \/ Join(c)
       \/ Load(c)
       \/ Continue(c)
       \/ FinishDispose(c)
  \/ Unload

Spec == Init /\ [][Next]_vars

(* The loader and the Authority answer, and disposals come to an end       *)
(* (PromisesSettle of AuthorityBackedModel).                               *)
FairSpec ==
  /\ Spec
  /\ \A c \in Calls : WF_vars(Continue(c)) /\ WF_vars(FinishDispose(c))

-----------------------------------------------------------------------------
(* Properties. *)

(* ADR-003: one active Model per URI.  A Model that any create() or        *)
(* resolve() has returned is the registered one until its disposal is      *)
(* complete, whatever the other calls do in their awaits.                  *)
OneActiveModel ==
  \A c \in Calls : outcome[c] \in Calls /\ model[outcome[c]] # "gone"
                     => registered = outcome[c]

(* ADR-003: resolves are single-flight.  The pending entry names the one   *)
(* resolve() at work; a finished one is not left there for others to join. *)
SingleFlight ==
  \A r \in Resolvers : call[r] \in Working <=> pending = r

(* No Model that still follows its Authority is forgotten: it becomes the  *)
(* registered one or is disposed.                                          *)
NoOrphans ==
  \A c \in Calls : model[c] = "live" ~> registered = c \/ model[c] = "gone"

(* Every create() and every resolve(), joined ones too, gets an answer.    *)
EveryCallSettles ==
  \A c \in Calls : call[c] # "idle" ~> call[c] = "done"

(* ADR-003: concurrent resolves return the same active instance.  When a   *)
(* resolve() is about to answer and another has been given the Model that  *)
(* is still registered, unless its load failed it gives the same one.      *)
ConcurrentResolvesAgree ==
  \A r, s \in Resolvers :
    /\ call[r] = "returning" /\ outcome[r] # "failed"
    /\ call[s] = "done" /\ outcome[s] = registered
    => outcome[r] = outcome[s]

=============================================================================
