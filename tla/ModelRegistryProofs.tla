------------------------ MODULE ModelRegistryProofs ------------------------
(***************************************************************************)
(* Proofs that InMemoryModelRegistry keeps one active Model and one        *)
(* resolution in flight, for any number of create() and resolve() calls.   *)
(***************************************************************************)
EXTENDS ModelRegistry, TLAPS

(* What a call's Model and outcome are while it awaits something.  A Model *)
(* that a call ends with is one that its own constructing call ended with. *)
CallShape ==
  \A c \in Calls :
    /\ call[c] \in {"idle", "joined", "loading", "aligning"}
         => outcome[c] = Nothing /\ model[c] = "none"
    /\ call[c] = "synchronizing" => outcome[c] = Nothing /\ model[c] = "live"
    /\ call[c] = "discarding" => outcome[c] \in {"failed", "exists"}
    /\ call[c] \in {"returning", "done"} => outcome[c] # Nothing
    /\ call[c] = "joined" => joined[c] \in Resolvers
    /\ call[c] \in {"loading", "joined", "returning"} => c \in Resolvers
    /\ outcome[c] \in Calls => outcome[outcome[c]] = outcome[c]

(* The registered Model is one its call has ended with, and not gone.      *)
RegisteredIsAnswered ==
  registered # Nothing =>
    /\ outcome[registered] = registered
    /\ model[registered] \in {"live", "draining"}

IInv ==
  /\ TypeOK
  /\ CallShape
  /\ RegisteredIsAnswered
  /\ OneActiveModel
  /\ SingleFlight

(* The inductive invariant holds before any call is made.                  *)
LEMMA InitIInv == Init => IInv
  BY OutcomeAssumption
  DEF Init, IInv, TypeOK, CallShape, RegisteredIsAnswered, OneActiveModel,
      SingleFlight, Calls, Working

(* A call that ends in an error, its Model still to be constructed.        *)
LEMMA ErrorKeepsIInv ==
  ASSUME IInv, NEW c \in Calls, NEW result \in {"failed", "exists"},
         call[c] \in {"idle", "loading", "aligning"},
         call[c] = "idle" => c \in Creators,
         Settle(c, result),
         UNCHANGED <<hasAuthority, registered, pending, model, joined>>
  PROVE  IInv'
<1> DEFINE next == IF c \in Resolvers THEN "returning" ELSE "done"
<1>1. /\ outcome' = [outcome EXCEPT ![c] = result]
      /\ call' = [call EXCEPT ![c] = next]
      /\ result \notin Calls /\ result # Nothing
      /\ outcome[c] = Nothing /\ Nothing \notin Calls
  <2>1. /\ outcome' = [outcome EXCEPT ![c] = result]
        /\ call' = [call EXCEPT ![c] = next]
    BY DEF Settle
  <2>2. result \notin Calls /\ Nothing \notin Calls
    BY OutcomeAssumption DEF Calls
  <2>3. result # Nothing
    BY OutcomeAssumption
  <2>4. outcome[c] = Nothing
    BY DEF IInv, CallShape
  <2>5. QED
    BY <2>1, <2>2, <2>3, <2>4
<1>2. TypeOK'
  BY <1>1 DEF IInv, TypeOK, Working
<1>3. \A d \in Calls : d # c => outcome'[d] = outcome[d] /\ call'[d] = call[d]
  BY <1>1 DEF IInv, TypeOK
<1>4. outcome'[c] = result /\ call'[c] = next
  BY <1>1 DEF IInv, TypeOK
<1>5. \A d \in Calls : outcome[d] \in Calls => outcome[d] # c
  BY <1>1 DEF IInv, CallShape
<1>6. CallShape'
  BY <1>1, <1>3, <1>4, <1>5 DEF IInv, CallShape, Calls
<1>7. RegisteredIsAnswered'
  BY <1>1, <1>3, <1>5 DEF IInv, RegisteredIsAnswered, TypeOK
<1>8. OneActiveModel'
  BY <1>1, <1>3, <1>4 DEF IInv, OneActiveModel
<1>9. SingleFlight'
  <2> SUFFICES ASSUME NEW r \in Resolvers
               PROVE  call'[r] \in Working <=> call[r] \in Working
    BY DEF IInv, SingleFlight
  <2>1. CASE r = c
    BY <2>1, <1>4, CallsAssumption DEF Working
  <2>2. CASE r # c
    BY <2>2, <1>3 DEF Calls
  <2>3. QED
    BY <2>1, <2>2
<1>10. QED
  BY <1>2, <1>6, <1>7, <1>8, <1>9 DEF IInv

(* A call that goes on to ask the Authority. *)
LEMMA AligningKeepsIInv ==
  ASSUME IInv, NEW c \in Calls,
         call[c] \in {"idle", "loading"},
         call[c] = "idle" => c \in Creators,
         call' = [call EXCEPT ![c] = "aligning"],
         UNCHANGED <<hasAuthority, registered, pending, model, joined, outcome>>
  PROVE  IInv'
<1>1. TypeOK'
  BY DEF IInv, TypeOK, Working
<1>2. /\ \A d \in Calls : d # c => call'[d] = call[d]
      /\ call'[c] = "aligning"
  BY DEF IInv, TypeOK
<1>3. CallShape'
  BY <1>2 DEF IInv, CallShape
<1>4. RegisteredIsAnswered' /\ OneActiveModel'
  BY DEF IInv, RegisteredIsAnswered, OneActiveModel
<1>5. SingleFlight'
  <2> SUFFICES ASSUME NEW r \in Resolvers
               PROVE  call'[r] \in Working <=> call[r] \in Working
    BY DEF IInv, SingleFlight
  <2>1. CASE r = c
    BY <2>1, <1>2, CallsAssumption DEF Working
  <2>2. CASE r # c
    BY <2>2, <1>2 DEF Calls
  <2>3. QED
    BY <2>1, <2>2
<1>6. QED
  BY <1>1, <1>3, <1>4, <1>5 DEF IInv

(* create(), called or reached from #loadAndCreate(), and its early ends.  *)
LEMMA CreateKeepsIInv ==
  ASSUME IInv, NEW c \in Calls,
         \/ Create(c)
         \/ AlignmentFails(c)
         \/ Conflict(c)
         \/ LoadFails(c)
         \/ Loaded(c)
  PROVE  IInv'
<1>1. CASE Create(c)
  BY <1>1, ErrorKeepsIInv, AligningKeepsIInv DEF Create, StartCreate
<1>2. CASE AlignmentFails(c)
  BY <1>2, ErrorKeepsIInv DEF AlignmentFails
<1>3. CASE Conflict(c)
  BY <1>3, ErrorKeepsIInv DEF Conflict
<1>4. CASE LoadFails(c)
  BY <1>4, ErrorKeepsIInv DEF LoadFails
<1>5. CASE Loaded(c)
  BY <1>5, ErrorKeepsIInv, AligningKeepsIInv DEF Loaded, StartCreate
<1>6. QED
  BY <1>1, <1>2, <1>3, <1>4, <1>5

(* Constructing, installing or discarding a Model. *)
LEMMA ModelKeepsIInv ==
  ASSUME IInv, NEW c \in Calls,
         Construct(c) \/ Install(c) \/ Discard(c) \/ FinishDiscard(c)
  PROVE  IInv'
<1> USE OutcomeAssumption, CallsAssumption
        DEF IInv, TypeOK, CallShape, RegisteredIsAnswered, OneActiveModel,
            SingleFlight, Calls, Working, Settle
<1>1. CASE Construct(c)
  <2>1. CASE hasAuthority
    BY <1>1, <2>1 DEF Construct
  <2>2. CASE ~hasAuthority
    <3>1. /\ registered = Nothing /\ registered' = c
          /\ outcome' = [outcome EXCEPT ![c] = c]
          /\ model' = [model EXCEPT ![c] = "live"]
          /\ call' = [call EXCEPT ![c] = IF c \in Resolvers THEN "returning"
                                                           ELSE "done"]
          /\ call[c] = "aligning" /\ model[c] = "none" /\ outcome[c] = Nothing
          /\ UNCHANGED <<hasAuthority, pending, joined>>
      BY <1>1, <2>2 DEF Construct
    <3>2. \A d \in Calls : outcome[d] \in Calls => outcome[d] # c
      BY <3>1
    <3>3. TypeOK' /\ CallShape'
      BY <3>1, <3>2
    <3>4. RegisteredIsAnswered' /\ OneActiveModel'
      BY <3>1, <3>2
    <3>5. SingleFlight'
      BY <3>1
    <3>6. QED
      BY <3>3, <3>4, <3>5
  <2>3. QED
    BY <2>1, <2>2
<1>2. CASE Install(c)
  BY <1>2 DEF Install
<1>3. CASE Discard(c)
  BY <1>3 DEF Discard
<1>4. CASE FinishDiscard(c)
  <2>1. /\ outcome' = [outcome EXCEPT ![c] = outcome[c]]
        /\ call[c] = "discarding" /\ call'[c] \in {"returning", "done"}
        /\ call'[c] = IF c \in Resolvers THEN "returning" ELSE "done"
        /\ \A d \in Calls : d # c => call'[d] = call[d]
        /\ call' \in [Calls -> {"idle", "joined", "done"} \cup Working]
        /\ UNCHANGED <<hasAuthority, registered, pending, model, joined>>
    BY <1>4 DEF FinishDiscard
  <2>2. outcome' = outcome
    BY <2>1
  <2>3. outcome[c] # Nothing
    BY <2>1
  <2>4. TypeOK' /\ CallShape'
    BY <2>1, <2>2, <2>3
  <2>5. RegisteredIsAnswered' /\ OneActiveModel'
    BY <2>1, <2>2
  <2>6. SingleFlight'
    BY <2>1
  <2>7. QED
    BY <2>4, <2>5, <2>6
<1>5. QED
  BY <1>1, <1>2, <1>3, <1>4

(* The turns of resolve(). *)
LEMMA ResolveKeepsIInv ==
  ASSUME IInv, NEW c \in Calls,
         \/ ResolveActive(c)
         \/ Join(c)
         \/ Load(c)
         \/ ReturnResolution(c)
         \/ ReturnJoined(c)
  PROVE  IInv'
<1> USE OutcomeAssumption, CallsAssumption
        DEF IInv, TypeOK, CallShape, RegisteredIsAnswered, OneActiveModel,
            SingleFlight, Calls, Working
<1>1. CASE ResolveActive(c)
  BY <1>1 DEF ResolveActive
<1>2. CASE Join(c)
  BY <1>2 DEF Join
<1>3. CASE Load(c)
  BY <1>3 DEF Load
<1>4. CASE ReturnResolution(c)
  BY <1>4 DEF ReturnResolution
<1>5. CASE ReturnJoined(c)
  BY <1>5 DEF ReturnJoined
<1>6. QED
  BY <1>1, <1>2, <1>3, <1>4, <1>5

(* Unloading, and the end of a disposal. *)
LEMMA DisposalKeepsIInv ==
  ASSUME IInv, Unload \/ \E c \in Calls : FinishDispose(c)
  PROVE  IInv'
<1> USE OutcomeAssumption, CallsAssumption
        DEF IInv, TypeOK, CallShape, RegisteredIsAnswered, OneActiveModel,
            SingleFlight, Calls, Working, onDispose
<1>1. CASE Unload
  BY <1>1 DEF Unload
<1>2. ASSUME NEW c \in Calls, FinishDispose(c) PROVE IInv'
  BY <1>2 DEF FinishDispose
<1>3. QED
  BY <1>1, <1>2

(* A step of nothing keeps the invariant. *)
LEMMA StutterKeepsIInv == IInv /\ UNCHANGED vars => IInv'
  BY DEF vars, IInv, TypeOK, CallShape, RegisteredIsAnswered, OneActiveModel,
         SingleFlight

(* IInv is an invariant of the registry. *)
LEMMA Invariance == Spec => []IInv
<1>1. IInv /\ [Next]_vars => IInv'
  <2> SUFFICES ASSUME IInv, Next PROVE IInv'
    BY StutterKeepsIInv
  <2>1. CASE Unload
    BY <2>1, DisposalKeepsIInv
  <2>2. ASSUME NEW c \in Calls,
               Create(c) \/ ResolveActive(c) \/ Join(c) \/ Load(c)
                 \/ Continue(c) \/ FinishDispose(c)
        PROVE  IInv'
    BY <2>2, CreateKeepsIInv, ModelKeepsIInv, ResolveKeepsIInv,
       DisposalKeepsIInv DEF Continue
  <2>3. QED
    BY <2>1, <2>2 DEF Next
<1>2. QED
  BY <1>1, InitIInv, PTL DEF Spec

(* Every variable keeps its range, and an answered call has an answer.     *)
THEOREM TypeCorrect == Spec => []TypeOK
  BY Invariance, PTL DEF IInv

(* ADR-003: a Model that a create() or a resolve() has returned is the     *)
(* registered one until it is gone, so no two of them are ever active.     *)
THEOREM KeepsOneActiveModel == Spec => []OneActiveModel
  BY Invariance, PTL DEF IInv

(* ADR-003: the pending entry names the one resolve() at work.             *)
THEOREM ResolvesAreSingleFlight == Spec => []SingleFlight
  BY Invariance, PTL DEF IInv

=============================================================================
