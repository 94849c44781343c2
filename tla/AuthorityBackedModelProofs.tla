--------------------- MODULE AuthorityBackedModelProofs ---------------------
(***************************************************************************)
(* Proofs that an AuthorityBackedNirecoModel follows its Authority, for    *)
(* any number of applyTransaction() calls and any length of the mainline.  *)
(***************************************************************************)
EXTENDS AuthorityBackedModel, TLAPS

(* What a refresh has read is no older than the Model's head.              *)
HeadReadIsNewer ==
  headRead # Nothing =>
    /\ isRunning(Refresh)
    /\ head =< headRead
    /\ headRead =< authorityHead

Committed == {"committed", "installing", "installed", "stale", "done"}

RevisionIsMainline ==
  \A c \in Calls : call[c] \in Committed =>
    revision[c] \in Nat /\ 0 < revision[c] /\ revision[c] =< authorityHead

(* A call has one install task, while it waits for it.                     *)
InstallsAreUnique ==
  \A i \in 1..Len(tasks) : tasks[i] \in Calls =>
    /\ call[tasks[i]] = "installing"
    /\ \A j \in 1..Len(tasks) : tasks[j] = tasks[i] => j = i

(* The Model has reached revision, or a refresh will take it there that    *)
(* runs before place n of the chain.                                       *)
Covered(c, n) ==
  \/ revision[c] =< head
  \/ \E i \in 1..Len(tasks) :
       /\ i < n
       /\ tasks[i] = Refresh
       /\ i = 1 /\ headRead # Nothing => revision[c] =< headRead

(* The notification of a commit is always ahead of its result.             *)
NotificationIsAhead ==
  phase = "active" /\ authorityOpen =>
    \A c \in Calls :
      /\ call[c] = "committed" => Covered(c, Len(tasks) + 1)
      /\ \A i \in 1..Len(tasks) : tasks[i] = c => Covered(c, i)
      /\ call[c] \in {"installed", "stale", "done"}
           => revision[c] \in snapshots /\ revision[c] =< head

(* How far dispose() has come, and what it still awaits.                   *)
DisposalShape ==
  /\ phase \in {"absent", "aligned"}
       => tasks = <<>> /\ headRead = Nothing /\ \A c \in Calls : call[c] = "idle"
  /\ phase = "draining" => Pending \subseteq awaited.calls
  /\ phase \in {"chaining", "gone"} => Pending = {}
  /\ phase = "chaining" => awaited.tasks = Len(tasks)
  /\ phase # "chaining" => awaited.tasks = 0

IInv ==
  /\ TypeOK
  /\ HeadReadIsNewer
  /\ RevisionIsMainline
  /\ InstallsAreUnique
  /\ NotificationIsAhead
  /\ DisposalShape
  /\ HeadIsReadable
  /\ DisposeDrains

-----------------------------------------------------------------------------
(* The chain of tasks as a sequence.                                       *)

(* What enqueueing a task does to the places of the chain.                 *)
LEMMA EnqueueFacts ==
  ASSUME NEW S, NEW q \in Seq(S), NEW x \in S
  PROVE  /\ Append(q, x) \in Seq(S)
         /\ Len(q) \in Nat
         /\ Len(Append(q, x)) = Len(q) + 1
         /\ \A i \in 1..Len(q) : Append(q, x)[i] = q[i]
         /\ Append(q, x)[Len(q) + 1] = x
  OBVIOUS

(* What completing the running task does to the places of the chain.       *)
LEMMA CompleteFacts ==
  ASSUME NEW S, NEW q \in Seq(S), q # <<>>
  PROVE  /\ Tail(q) \in Seq(S)
         /\ Len(q) \in Nat /\ Len(q) > 0
         /\ Len(Tail(q)) = Len(q) - 1
         /\ \A i \in 1..(Len(q) - 1) : Tail(q)[i] = q[i + 1]
         /\ Head(q) = q[1]
  OBVIOUS

-----------------------------------------------------------------------------
(* The inductive invariant holds before the Model is created.              *)
LEMMA InitIInv == Init => IInv
  BY RevisionAssumption
  DEF Init, IInv, TypeOK, HeadReadIsNewer, RevisionIsMainline,
      InstallsAreUnique, NotificationIsAhead, DisposalShape, HeadIsReadable,
      DisposeDrains, Revisions, Pending, Committed

(* A commit of somebody else, after which a Model that is active has one   *)
(* more refresh to run.                                                    *)
LEMMA OtherCommitKeepsIInv == IInv /\ OtherCommit => IInv'
<1> SUFFICES ASSUME IInv, OtherCommit PROVE IInv'
  OBVIOUS
<1> USE RevisionAssumption, NothingAssumption, CallsAssumption
<1> USE DEF Revisions, Tasks
<1>1. /\ authorityHead' = authorityHead + 1 /\ authorityHead < MaxRevision
      /\ tasks' = IF phase = "active" THEN Append(tasks, Refresh) ELSE tasks
      /\ UNCHANGED <<authorityOpen, phase, head, snapshots, headRead, call,
                     revision, awaited>>
  BY DEF OtherCommit, Advance, notify, view
<1>2. TypeOK /\ tasks \in Seq(Tasks) /\ Refresh \in Tasks
  BY DEF IInv, TypeOK
<1>3. /\ Len(tasks) \in Nat
      /\ tasks' \in Seq(Tasks)
      /\ Len(tasks') \in {Len(tasks), Len(tasks) + 1}
      /\ \A i \in 1..Len(tasks) : tasks'[i] = tasks[i]
      /\ \A i \in 1..Len(tasks') : i \in 1..Len(tasks) \/ tasks'[i] = Refresh
      /\ phase # "active" => tasks' = tasks
  BY <1>1, <1>2, EnqueueFacts
<1>4. TypeOK'
  BY <1>1, <1>2, <1>3 DEF TypeOK
<1>5. HeadReadIsNewer'
  BY <1>1, <1>2, <1>3 DEF IInv, TypeOK, HeadReadIsNewer, isRunning
<1>6. RevisionIsMainline'
  BY <1>1, <1>2 DEF IInv, TypeOK, RevisionIsMainline
<1>7. InstallsAreUnique'
  BY <1>1, <1>3 DEF IInv, InstallsAreUnique
<1>8. NotificationIsAhead'
  BY <1>1, <1>2, <1>3 DEF IInv, TypeOK, NotificationIsAhead, Covered
<1>9. DisposalShape' /\ DisposeDrains'
  BY <1>1, <1>3 DEF IInv, DisposalShape, DisposeDrains, Pending
<1>10. HeadIsReadable'
  BY <1>1, <1>2 DEF IInv, TypeOK, HeadIsReadable
<1>11. QED
  BY <1>4, <1>5, <1>6, <1>7, <1>8, <1>9, <1>10 DEF IInv

(* A commit of the Model's own: the notification enqueues the refresh that *)
(* covers it, before the Model has the result.                             *)
LEMMA CommitCallKeepsIInv ==
  ASSUME NEW c \in Calls
  PROVE  IInv /\ CommitCall(c) => IInv'
<1> SUFFICES ASSUME IInv, CommitCall(c) PROVE IInv'
  OBVIOUS
<1> USE RevisionAssumption, NothingAssumption, CallsAssumption
<1> USE DEF Revisions, Tasks
<1>1. /\ authorityHead' = authorityHead + 1 /\ authorityHead < MaxRevision
      /\ tasks' = IF phase = "active" THEN Append(tasks, Refresh) ELSE tasks
      /\ call[c] = "applying"
      /\ call' = [call EXCEPT ![c] = "committed"]
      /\ revision' = [revision EXCEPT ![c] = authorityHead']
      /\ UNCHANGED <<authorityOpen, phase, head, snapshots, headRead, awaited>>
  BY DEF CommitCall, Advance, notify, view
<1>2. TypeOK /\ tasks \in Seq(Tasks) /\ Refresh \in Tasks
  BY DEF IInv, TypeOK
<1>3. /\ Len(tasks) \in Nat
      /\ tasks' \in Seq(Tasks)
      /\ Len(tasks') \in {Len(tasks), Len(tasks) + 1}
      /\ phase = "active" => Len(tasks') = Len(tasks) + 1
      /\ \A i \in 1..Len(tasks) : tasks'[i] = tasks[i]
      /\ \A i \in 1..Len(tasks') : i \in 1..Len(tasks) \/ tasks'[i] = Refresh
      /\ phase # "active" => tasks' = tasks
  BY <1>1, <1>2, EnqueueFacts
<1>4. /\ call'[c] = "committed" /\ revision'[c] = authorityHead + 1
      /\ \A d \in Calls : d # c => call'[d] = call[d] /\ revision'[d] = revision[d]
  BY <1>1, <1>2 DEF TypeOK
<1>5. TypeOK'
  BY <1>1, <1>2, <1>3 DEF TypeOK
<1>6. HeadReadIsNewer'
  BY <1>1, <1>2, <1>3 DEF IInv, TypeOK, HeadReadIsNewer, isRunning
<1>7. RevisionIsMainline'
  BY <1>1, <1>2, <1>4 DEF IInv, TypeOK, RevisionIsMainline, Committed
<1>8. InstallsAreUnique'
  BY <1>1, <1>3, <1>4 DEF IInv, InstallsAreUnique
<1>9. NotificationIsAhead'
  <2> SUFFICES ASSUME phase = "active", authorityOpen, NEW d \in Calls
               PROVE  /\ call'[d] = "committed" => Covered(d, Len(tasks) + 1)'
                      /\ \A i \in 1..Len(tasks') :
                           tasks'[i] = d => Covered(d, i)'
                      /\ call'[d] \in {"installed", "stale", "done"}
                           => revision'[d] \in snapshots /\ revision'[d] =< head
    BY <1>1 DEF NotificationIsAhead
  <2>1. CASE d = c
    <3>1. tasks'[Len(tasks')] = Refresh /\ Len(tasks') \in 1..Len(tasks')
      BY <1>3
    <3>2. Len(tasks') = 1 => headRead = Nothing
      BY <1>3 DEF IInv, HeadReadIsNewer, isRunning
    <3>3. Covered(c, Len(tasks) + 1)'
      BY <1>1, <1>3, <3>1, <3>2 DEF Covered
    <3>4. \A i \in 1..Len(tasks') : tasks'[i] # c
      BY <1>1, <1>3 DEF IInv, InstallsAreUnique
    <3>5. QED
      BY <2>1, <1>4, <3>3, <3>4
  <2>2. CASE d # c
    <3>1. NotificationIsAhead /\ revision'[d] = revision[d] /\ call'[d] = call[d]
      BY <2>2, <1>4 DEF IInv
    <3>2. \A n \in 1..(Len(tasks) + 1) : Covered(d, n) => Covered(d, n)'
      BY <3>1, <1>1, <1>3 DEF Covered
    <3>3. \A i \in 1..Len(tasks') : tasks'[i] = d => Covered(d, i)'
      BY <3>1, <3>2, <1>3 DEF NotificationIsAhead
    <3>4. Covered(d, Len(tasks) + 1) => Covered(d, Len(tasks) + 1)'
      BY <3>1, <1>1, <1>3 DEF Covered
    <3>5. QED
      BY <3>1, <3>3, <3>4, <1>1 DEF NotificationIsAhead
  <2>3. QED
    BY <2>1, <2>2
<1>10. DisposalShape' /\ DisposeDrains'
  BY <1>1, <1>3, <1>4 DEF IInv, DisposalShape, DisposeDrains, Pending
<1>11. HeadIsReadable'
  BY <1>1, <1>2 DEF IInv, TypeOK, HeadIsReadable
<1>12. QED
  BY <1>5, <1>6, <1>7, <1>8, <1>9, <1>10, <1>11 DEF IInv

(* A refusal of the Authority, the end of the Authority, and a new call    *)
(* touch neither the head nor the chain.                                   *)
LEMMA QuietCallsKeepIInv ==
  ASSUME IInv,
         \/ CloseAuthority
         \/ \E c \in Calls : RefuseCall(c) \/ ApplyTransaction(c)
  PROVE  IInv'
<1> USE RevisionAssumption, NothingAssumption, CallsAssumption
<1>1. /\ UNCHANGED <<authorityHead, phase, head, snapshots, tasks, headRead,
                     revision, awaited>>
      /\ authorityOpen' = authorityOpen \/ authorityOpen' = FALSE
  BY DEF CloseAuthority, RefuseCall, ApplyTransaction, authority, view, chain
<1>2. \/ call' = call
      \/ \E c \in Calls : /\ call[c] = "applying"
                          /\ call' = [call EXCEPT ![c] = "failed"]
      \/ \E c \in Calls : /\ phase = "active" /\ call[c] = "idle"
                          /\ call' = [call EXCEPT ![c] = "applying"]
  BY DEF CloseAuthority, RefuseCall, ApplyTransaction
<1>3. TypeOK'
  BY <1>1, <1>2 DEF IInv, TypeOK
<1>4. \A d \in Calls :
        \/ call'[d] = call[d]
        \/ call[d] = "applying" /\ call'[d] = "failed"
        \/ phase = "active" /\ call[d] = "idle" /\ call'[d] = "applying"
  BY <1>2 DEF IInv, TypeOK
<1>5. HeadReadIsNewer' /\ HeadIsReadable'
  BY <1>1 DEF IInv, HeadReadIsNewer, HeadIsReadable, isRunning
<1>6. RevisionIsMainline'
  BY <1>1, <1>4 DEF IInv, RevisionIsMainline, Committed
<1>7. InstallsAreUnique'
  BY <1>1, <1>4 DEF IInv, InstallsAreUnique
<1>8. NotificationIsAhead'
  BY <1>1, <1>4 DEF IInv, NotificationIsAhead, Covered
<1>9. DisposalShape' /\ DisposeDrains'
  BY <1>1, <1>4 DEF IInv, DisposalShape, DisposeDrains, Pending
<1>10. QED
  BY <1>3, <1>5, <1>6, <1>7, <1>8, <1>9 DEF IInv

(* The creation of the Model: its first refresh is enqueued at once.       *)
LEMMA CreationKeepsIInv == IInv /\ (Align \/ Construct) => IInv'
<1> USE RevisionAssumption, NothingAssumption, CallsAssumption
<1> USE DEF Revisions, Tasks
<1>1. ASSUME IInv, Align PROVE IInv'
  <2>1. /\ phase = "absent" /\ phase' = "aligned" /\ head' = authorityHead
        /\ UNCHANGED <<authorityHead, authorityOpen, snapshots, tasks, headRead,
                       call, revision, awaited>>
    BY <1>1 DEF Align, authority, chain
  <2>2. TypeOK' /\ HeadIsReadable'
    BY <1>1, <2>1 DEF IInv, TypeOK, HeadIsReadable
  <2>3. HeadReadIsNewer' /\ RevisionIsMainline' /\ InstallsAreUnique'
    BY <1>1, <2>1 DEF IInv, HeadReadIsNewer, RevisionIsMainline,
                      InstallsAreUnique, DisposalShape
  <2>4. NotificationIsAhead' /\ DisposalShape' /\ DisposeDrains'
    BY <1>1, <2>1 DEF IInv, NotificationIsAhead, DisposalShape, DisposeDrains
  <2>5. QED
    BY <2>2, <2>3, <2>4 DEF IInv
<1>2. ASSUME IInv, Construct PROVE IInv'
  <2>1. /\ phase = "aligned" /\ phase' = "active" /\ snapshots' = {head}
        /\ tasks' = <<Refresh>>
        /\ UNCHANGED <<authorityHead, authorityOpen, head, headRead, call,
                       revision, awaited>>
    BY <1>2 DEF Construct, authority
  <2>2. /\ tasks = <<>> /\ headRead = Nothing
        /\ \A c \in Calls : call[c] = "idle"
        /\ head \in Revisions /\ head =< authorityHead
    BY <1>2, <2>1 DEF IInv, TypeOK, DisposalShape, HeadIsReadable
  <2>3. /\ tasks' \in Seq(Tasks) /\ Len(tasks') = 1
        /\ \A i \in 1..Len(tasks') : tasks'[i] = Refresh
    BY <2>1
  <2>4. TypeOK' /\ HeadIsReadable'
    BY <1>2, <2>1, <2>2, <2>3 DEF IInv, TypeOK, HeadIsReadable
  <2>5. HeadReadIsNewer' /\ RevisionIsMainline' /\ InstallsAreUnique'
    BY <1>2, <2>1, <2>2, <2>3 DEF IInv, HeadReadIsNewer, RevisionIsMainline,
                                  InstallsAreUnique, Committed
  <2>6. NotificationIsAhead' /\ DisposalShape' /\ DisposeDrains'
    BY <1>2, <2>1, <2>2, <2>3 DEF IInv, NotificationIsAhead, DisposalShape,
                                  DisposeDrains
  <2>7. QED
    BY <2>4, <2>5, <2>6 DEF IInv
<1>3. QED
  BY <1>1, <1>2

(* The result of a commit goes on the chain behind its notification.       *)
LEMMA AcceptCommitKeepsIInv ==
  ASSUME NEW c \in Calls
  PROVE  IInv /\ AcceptCommit(c) => IInv'
<1> SUFFICES ASSUME IInv, AcceptCommit(c) PROVE IInv'
  OBVIOUS
<1> USE RevisionAssumption, NothingAssumption, CallsAssumption
<1> USE DEF Revisions, Tasks
<1>1. /\ call[c] = "committed"
      /\ call' = [call EXCEPT ![c] = "installing"]
      /\ tasks' = Append(tasks, c)
      /\ UNCHANGED <<authorityHead, authorityOpen, phase, head, snapshots,
                     headRead, revision, awaited>>
  BY DEF AcceptCommit, authority, view
<1>2. TypeOK /\ tasks \in Seq(Tasks) /\ c \in Tasks
  BY DEF IInv, TypeOK
<1>3. /\ Len(tasks) \in Nat
      /\ tasks' \in Seq(Tasks)
      /\ Len(tasks') = Len(tasks) + 1
      /\ \A i \in 1..Len(tasks) : tasks'[i] = tasks[i]
      /\ tasks'[Len(tasks) + 1] = c
  BY <1>1, <1>2, EnqueueFacts
<1>4. /\ call'[c] = "installing"
      /\ \A d \in Calls : d # c => call'[d] = call[d]
  BY <1>1, <1>2 DEF TypeOK
<1>5. c \in Pending /\ Pending' \subseteq Pending
  BY <1>1, <1>4 DEF Pending
<1>6. TypeOK'
  BY <1>1, <1>2, <1>3 DEF TypeOK
<1>7. HeadReadIsNewer' /\ HeadIsReadable'
  BY <1>1, <1>2, <1>3 DEF IInv, TypeOK, HeadReadIsNewer, HeadIsReadable, isRunning
<1>8. RevisionIsMainline'
  BY <1>1, <1>4 DEF IInv, RevisionIsMainline, Committed
<1>9. InstallsAreUnique'
  <2>1. \A i \in 1..Len(tasks) : tasks[i] # c
    BY <1>1 DEF IInv, InstallsAreUnique
  <2>2. QED
    BY <2>1, <1>3, <1>4 DEF IInv, InstallsAreUnique
<1>10. NotificationIsAhead'
  <2> SUFFICES ASSUME phase = "active", authorityOpen, NEW d \in Calls
               PROVE  /\ call'[d] = "committed" => Covered(d, Len(tasks) + 1)'
                      /\ \A i \in 1..Len(tasks') :
                           tasks'[i] = d => Covered(d, i)'
                      /\ call'[d] \in {"installed", "stale", "done"}
                           => revision'[d] \in snapshots /\ revision'[d] =< head
    BY <1>1 DEF NotificationIsAhead
  <2>1. NotificationIsAhead
    BY DEF IInv
  <2>2. /\ \A i \in 1..(Len(tasks) + 1) : Covered(d, i) => Covered(d, i)'
        /\ Covered(d, Len(tasks) + 1) => Covered(d, Len(tasks) + 1)'
    BY <1>1, <1>3 DEF Covered
  <2>3. CASE d = c
    <3>1. Covered(c, Len(tasks) + 1)
      BY <2>1, <1>1 DEF NotificationIsAhead
    <3>2. \A i \in 1..Len(tasks') : i \in 1..(Len(tasks) + 1)
                                    /\ (i \in 1..Len(tasks) \/ i = Len(tasks) + 1)
      BY <1>3
    <3>3. \A i \in 1..Len(tasks') : tasks'[i] = c => Covered(c, i)
      BY <3>1, <3>2, <2>1, <1>3 DEF NotificationIsAhead
    <3>4. QED
      BY <2>3, <3>2, <3>3, <2>2, <1>4
  <2>4. CASE d # c
    <3>1. \A i \in 1..Len(tasks') :
            tasks'[i] = d => i \in 1..Len(tasks) /\ tasks[i] = d
      BY <2>4, <1>3
    <3>2. \A i \in 1..Len(tasks') :
            tasks'[i] = d => i \in 1..(Len(tasks) + 1) /\ Covered(d, i)
      BY <3>1, <2>1, <1>3 DEF NotificationIsAhead
    <3>3. call'[d] = call[d]
      BY <2>4, <1>4
    <3>4. QED
      BY <3>2, <3>3, <2>1, <2>2, <1>1 DEF NotificationIsAhead
  <2>5. QED
    BY <2>3, <2>4
<1>11. DisposalShape' /\ DisposeDrains'
  BY <1>1, <1>4, <1>5 DEF IInv, DisposalShape, DisposeDrains
<1>12. QED
  BY <1>6, <1>7, <1>8, <1>9, <1>10, <1>11 DEF IInv

(* An answer to the caller may ask for one more refresh.                   *)
LEMMA AnswerCallKeepsIInv ==
  ASSUME NEW c \in Calls
  PROVE  IInv /\ AnswerCall(c) => IInv'
<1> SUFFICES ASSUME IInv, AnswerCall(c) PROVE IInv'
  OBVIOUS
<1> USE RevisionAssumption, NothingAssumption, CallsAssumption
<1> USE DEF Revisions, Tasks
<1>1. /\ call[c] \in {"installed", "stale"}
      /\ call' = [call EXCEPT ![c] = "done"]
      /\ tasks' = tasks \/ (~isDisposed /\ tasks' = Append(tasks, Refresh))
      /\ UNCHANGED <<authorityHead, authorityOpen, phase, head, snapshots,
                     headRead, revision, awaited>>
  BY DEF AnswerCall, authority, view
<1>2. TypeOK /\ tasks \in Seq(Tasks) /\ Refresh \in Tasks
  BY DEF IInv, TypeOK
<1>3. /\ Len(tasks) \in Nat
      /\ tasks' \in Seq(Tasks)
      /\ Len(tasks') \in {Len(tasks), Len(tasks) + 1}
      /\ \A i \in 1..Len(tasks) : tasks'[i] = tasks[i]
      /\ \A i \in 1..Len(tasks') : i \in 1..Len(tasks) \/ tasks'[i] = Refresh
  BY <1>1, <1>2, EnqueueFacts
<1>4. /\ call'[c] = "done"
      /\ \A d \in Calls : d # c => call'[d] = call[d]
  BY <1>1, <1>2 DEF TypeOK
<1>5. c \in Pending /\ Pending' \subseteq Pending
  BY <1>1, <1>4 DEF Pending
<1>6. TypeOK'
  BY <1>1, <1>2, <1>3 DEF TypeOK
<1>7. HeadReadIsNewer' /\ HeadIsReadable'
  BY <1>1, <1>2, <1>3 DEF IInv, TypeOK, HeadReadIsNewer, HeadIsReadable, isRunning
<1>8. RevisionIsMainline'
  BY <1>1, <1>4 DEF IInv, RevisionIsMainline, Committed
<1>9. InstallsAreUnique'
  BY <1>1, <1>3, <1>4 DEF IInv, InstallsAreUnique
<1>10. NotificationIsAhead'
  <2> SUFFICES ASSUME phase = "active", authorityOpen, NEW d \in Calls
               PROVE  /\ call'[d] = "committed" => Covered(d, Len(tasks) + 1)'
                      /\ \A i \in 1..Len(tasks') :
                           tasks'[i] = d => Covered(d, i)'
                      /\ call'[d] \in {"installed", "stale", "done"}
                           => revision'[d] \in snapshots /\ revision'[d] =< head
    BY <1>1 DEF NotificationIsAhead
  <2>1. NotificationIsAhead
    BY DEF IInv
  <2>2. /\ \A i \in 1..Len(tasks) : Covered(d, i) => Covered(d, i)'
        /\ Covered(d, Len(tasks) + 1) => Covered(d, Len(tasks) + 1)'
    BY <1>1, <1>3 DEF Covered
  <2>3. \A i \in 1..Len(tasks') :
          tasks'[i] = d => i \in 1..Len(tasks) /\ tasks[i] = d
    BY <1>3
  <2>4. \A i \in 1..Len(tasks') : tasks'[i] = d => Covered(d, i)'
    BY <2>1, <2>2, <2>3 DEF NotificationIsAhead
  <2>5. call'[d] = "committed" => call[d] = "committed"
    BY <1>4
  <2>6. call'[d] \in {"installed", "stale", "done"}
          => call[d] \in {"installed", "stale", "done"}
    BY <1>1, <1>4
  <2>7. QED
    BY <2>1, <2>2, <2>4, <2>5, <2>6, <1>1 DEF NotificationIsAhead
<1>11. DisposalShape' /\ DisposeDrains'
  BY <1>1, <1>4, <1>5 DEF IInv, DisposalShape, DisposeDrains
<1>12. QED
  BY <1>6, <1>7, <1>8, <1>9, <1>10, <1>11 DEF IInv

(* The running refresh reads the head: a mainline Revision, no older than  *)
(* any other that is known.                                                *)
LEMMA ReadHeadKeepsIInv == IInv /\ ReadHead => IInv'
<1> SUFFICES ASSUME IInv, ReadHead PROVE IInv'
  OBVIOUS
<1> USE RevisionAssumption, NothingAssumption, CallsAssumption
<1> USE DEF Revisions, Tasks
<1>1. /\ isRunning(Refresh) /\ headRead = Nothing /\ ~isDisposed
      /\ headRead' = authorityHead
      /\ UNCHANGED <<authorityHead, authorityOpen, phase, head, snapshots,
                     tasks, call, revision, awaited>>
  BY DEF ReadHead, authority, view
<1>2. TypeOK'
  BY <1>1 DEF IInv, TypeOK
<1>3. HeadReadIsNewer' /\ HeadIsReadable'
  BY <1>1 DEF IInv, TypeOK, HeadReadIsNewer, HeadIsReadable, isRunning
<1>4. RevisionIsMainline' /\ InstallsAreUnique'
  BY <1>1 DEF IInv, RevisionIsMainline, InstallsAreUnique
<1>5. NotificationIsAhead'
  <2> SUFFICES ASSUME phase = "active", authorityOpen, NEW d \in Calls
               PROVE  /\ call[d] = "committed" => Covered(d, Len(tasks) + 1)'
                      /\ \A i \in 1..Len(tasks) : tasks[i] = d => Covered(d, i)'
                      /\ call[d] \in {"installed", "stale", "done"}
                           => revision[d] \in snapshots /\ revision[d] =< head
    BY <1>1 DEF NotificationIsAhead
  <2>1. NotificationIsAhead /\ tasks \in Seq(Tasks)
    BY DEF IInv, TypeOK
  <2>2. CASE call[d] \in {"committed", "installing"}
    <3>1. revision[d] =< authorityHead
      BY <2>2 DEF IInv, RevisionIsMainline, Committed
    <3>2. /\ \A i \in 1..Len(tasks) : Covered(d, i) => Covered(d, i)'
          /\ Covered(d, Len(tasks) + 1) => Covered(d, Len(tasks) + 1)'
      BY <3>1, <1>1 DEF Covered
    <3>3. QED
      BY <2>1, <2>2, <3>2 DEF NotificationIsAhead
  <2>3. CASE call[d] \notin {"committed", "installing"}
    BY <2>1, <2>3 DEF NotificationIsAhead, IInv, InstallsAreUnique
  <2>4. QED
    BY <2>2, <2>3
<1>6. DisposalShape' /\ DisposeDrains'
  <2>1. tasks # <<>>
    BY <1>1 DEF isRunning
  <2>2. QED
    BY <1>1, <2>1 DEF IInv, DisposalShape, DisposeDrains, Pending, isDisposed
<1>7. QED
  BY <1>2, <1>3, <1>4, <1>5, <1>6 DEF IInv

(* An install task: the Snapshot is added, and the head moves only to the  *)
(* next Revision.  Whatever was ahead of a later task is still ahead.      *)
LEMMA InstallKeepsIInv ==
  ASSUME NEW c \in Calls
  PROVE  IInv /\ installCommitResult(c) => IInv'
<1> SUFFICES ASSUME IInv, installCommitResult(c) PROVE IInv'
  OBVIOUS
<1> USE RevisionAssumption, NothingAssumption, CallsAssumption
<1> USE DEF Revisions, Tasks
<1> DEFINE fits == head \in {revision[c] - 1, revision[c]}
           n    == Len(tasks)
<1>1. /\ tasks # <<>> /\ Head(tasks) = c
      /\ tasks' = Tail(tasks)
      /\ awaited' = [awaited EXCEPT !.tasks = IF @ > 0 THEN @ - 1 ELSE 0]
      /\ snapshots' = IF isDisposed THEN snapshots ELSE snapshots \cup {revision[c]}
      /\ head' = IF fits /\ ~isDisposed THEN revision[c] ELSE head
      /\ call' = [call EXCEPT ![c] = IF fits \/ isDisposed
                                       THEN "installed" ELSE "stale"]
      /\ UNCHANGED <<authorityHead, authorityOpen, phase, headRead, revision>>
  BY DEF installCommitResult, CompleteTask, isRunning, authority
<1>2. TypeOK /\ tasks \in Seq(Tasks)
  BY DEF IInv, TypeOK
<1>3. /\ n \in Nat /\ n > 0
      /\ tasks' \in Seq(Tasks)
      /\ Len(tasks') = n - 1
      /\ \A i \in 1..(n - 1) : tasks'[i] = tasks[i + 1]
      /\ tasks[1] = c
  BY <1>1, <1>2, CompleteFacts
<1> HIDE DEF n
<1>4. /\ call[c] = "installing"
      /\ \A i \in 1..n : tasks[i] = c => i = 1
  BY <1>3 DEF IInv, InstallsAreUnique, n
<1>5. /\ revision[c] \in Nat /\ revision[c] =< authorityHead
      /\ revision[c] \in Revisions
      /\ head \in Revisions /\ authorityHead \in Revisions
      /\ head =< authorityHead
  BY <1>2, <1>4 DEF IInv, RevisionIsMainline, Committed, TypeOK, HeadIsReadable
<1>6. /\ call'[c] \in {"installed", "stale"}
      /\ \A d \in Calls : d # c => call'[d] = call[d]
  BY <1>1, <1>2 DEF TypeOK
<1>7. headRead = Nothing
  BY <1>1 DEF IInv, HeadReadIsNewer, isRunning
<1>8. head =< head' /\ head' =< authorityHead /\ head' \in Revisions
  BY <1>1, <1>5
<1>9. c \in Pending /\ Pending' \subseteq Pending
  BY <1>4, <1>6 DEF Pending
<1>10. TypeOK'
  <2>1. awaited' \in [calls : SUBSET Calls, tasks : Nat]
    BY <1>1, <1>2 DEF TypeOK
  <2>2. call' \in [Calls -> {"idle", "applying", "committed", "installing",
                             "installed", "stale", "failed", "done"}]
    BY <1>1, <1>2 DEF TypeOK
  <2>3. snapshots' \subseteq Revisions
    BY <1>1, <1>2, <1>5 DEF TypeOK
  <2>4. QED
    BY <2>1, <2>2, <2>3, <1>1, <1>2, <1>3, <1>8 DEF TypeOK
<1>11. HeadReadIsNewer'
  BY <1>1, <1>7 DEF HeadReadIsNewer
<1>12. RevisionIsMainline'
  BY <1>1, <1>4, <1>6 DEF IInv, RevisionIsMainline, Committed
<1>13. InstallsAreUnique'
  <2> SUFFICES ASSUME NEW i \in 1..(n - 1), tasks'[i] \in Calls
               PROVE  /\ call'[tasks'[i]] = "installing"
                      /\ \A j \in 1..(n - 1) : tasks'[j] = tasks'[i] => j = i
    BY <1>3 DEF InstallsAreUnique
  <2>1. i \in Nat /\ i + 1 \in 1..n /\ tasks'[i] = tasks[i + 1] /\ tasks[i + 1] # c
    BY <1>3, <1>4
  <2>2. call'[tasks'[i]] = "installing"
    BY <2>1, <1>6 DEF IInv, InstallsAreUnique, n
  <2>3. ASSUME NEW j \in 1..(n - 1), tasks'[j] = tasks'[i] PROVE j = i
    <3>1. j + 1 \in 1..n /\ tasks[j + 1] = tasks[i + 1]
      BY <2>1, <2>3, <1>3
    <3>2. j + 1 = i + 1
      BY <3>1, <2>1 DEF IInv, InstallsAreUnique, n
    <3>3. QED
      BY <3>2
  <2>4. QED
    BY <2>2, <2>3
<1>14. NotificationIsAhead'
  <2> SUFFICES ASSUME phase = "active", authorityOpen, NEW d \in Calls
               PROVE  /\ call'[d] = "committed" => Covered(d, Len(tasks) + 1)'
                      /\ \A i \in 1..(n - 1) : tasks'[i] = d => Covered(d, i)'
                      /\ call'[d] \in {"installed", "stale", "done"}
                           => revision[d] \in snapshots' /\ revision[d] =< head'
    BY <1>1, <1>3 DEF NotificationIsAhead
  <2>1. NotificationIsAhead /\ ~isDisposed
    BY DEF IInv, isDisposed
  <2>2. CASE d = c
    <3>1. Covered(c, 1)
      BY <2>1, <1>3 DEF NotificationIsAhead, n
    <3>2. revision[c] =< head
      BY <3>1, <1>3 DEF Covered, n
    <3>3. revision[c] \in snapshots' /\ revision[c] =< head'
      BY <3>2, <2>1, <1>1, <1>5
    <3>4. \A i \in 1..(n - 1) : tasks'[i] # c
      BY <1>3, <1>4
    <3>5. QED
      BY <2>2, <3>3, <3>4, <1>6
  <2>3. CASE d # c
    <3>1. ASSUME NEW k \in 1..(n + 1), k > 1, Covered(d, k), revision[d] \in Nat
          PROVE  Covered(d, k - 1)'
      <4>1. CASE revision[d] =< head
        BY <4>1, <1>1, <1>5, <1>8, <3>1 DEF Covered
      <4>2. CASE \E i \in 1..n : i < k /\ tasks[i] = Refresh
        <5>1. PICK i \in 1..n : i < k /\ tasks[i] = Refresh
          BY <4>2
        <5>2. i > 1
          BY <5>1, <1>3
        <5>3. i - 1 \in 1..(n - 1) /\ i - 1 < k - 1 /\ tasks'[i - 1] = Refresh
          BY <5>1, <5>2, <1>3
        <5>4. QED
          BY <5>3, <1>1, <1>3, <1>7 DEF Covered
      <4>3. QED
        BY <4>1, <4>2, <3>1 DEF Covered, n
    <3>2. call'[d] = call[d]
      BY <2>3, <1>6
    <3>3. call'[d] = "committed" => Covered(d, Len(tasks) + 1)'
      <4> SUFFICES ASSUME call[d] = "committed"
                   PROVE  Covered(d, Len(tasks) + 1)'
        BY <3>2
      <4>1. revision[d] \in Nat
        BY DEF IInv, RevisionIsMainline, Committed
      <4>2. PICK k \in 1..(n + 1) : k = n + 1 /\ k > 1 /\ k - 1 = Len(tasks') + 1
        BY <1>3
      <4>3. Covered(d, k)
        BY <4>2, <2>1 DEF NotificationIsAhead, n
      <4>4. Covered(d, k - 1)'
        BY <4>1, <4>2, <4>3, <3>1
      <4>5. QED
        BY <4>2, <4>4 DEF Covered
    <3>4. ASSUME NEW i \in 1..(n - 1), tasks'[i] = d PROVE Covered(d, i)'
      <4>1. i + 1 \in 1..n /\ tasks[i + 1] = d /\ i + 1 > 1 /\ (i + 1) - 1 = i
        BY <3>4, <1>3
      <4>2. Covered(d, i + 1) /\ revision[d] \in Nat
        BY <4>1, <2>1 DEF NotificationIsAhead, n, IInv, InstallsAreUnique,
                          RevisionIsMainline, Committed
      <4>3. i + 1 \in 1..(n + 1)
        BY <4>1, <1>3
      <4>4. QED
        BY <4>1, <4>2, <4>3, <3>1
    <3>5. call'[d] \in {"installed", "stale", "done"}
            => revision[d] \in snapshots' /\ revision[d] =< head'
      <4> SUFFICES ASSUME call[d] \in {"installed", "stale", "done"}
                   PROVE  revision[d] \in snapshots' /\ revision[d] =< head'
        BY <3>2
      <4>1. revision[d] \in snapshots /\ revision[d] =< head /\ revision[d] \in Nat
        BY <2>1 DEF NotificationIsAhead, IInv, RevisionIsMainline, Committed
      <4>2. QED
        BY <4>1, <1>1, <1>5, <1>8
    <3>6. QED
      BY <3>3, <3>4, <3>5
  <2>4. QED
    BY <2>2, <2>3
<1>15. HeadIsReadable'
  <2>1. HeadIsReadable
    BY DEF IInv
  <2>2. \A r \in snapshots' \cup {head'} : r =< authorityHead
    BY <2>1, <1>1, <1>5, <1>8 DEF HeadIsReadable
  <2>3. phase = "active" => head' \in snapshots'
    BY <2>1, <1>1 DEF HeadIsReadable, isDisposed
  <2>4. QED
    BY <2>2, <2>3, <1>1 DEF HeadIsReadable
<1>16. DisposalShape' /\ DisposeDrains'
  <2>1. phase \notin {"chaining", "gone", "absent", "aligned"}
    BY <1>9, <1>1 DEF IInv, DisposalShape
  <2>2. awaited.tasks = 0 /\ awaited'.tasks = 0 /\ awaited'.calls = awaited.calls
    BY <2>1, <1>1, <1>2 DEF IInv, DisposalShape, TypeOK
  <2>3. QED
    BY <2>1, <2>2, <1>1, <1>9 DEF IInv, DisposalShape, DisposeDrains
<1>17. QED
  BY <1>10, <1>11, <1>12, <1>13, <1>14, <1>15, <1>16 DEF IInv

(* The end of a refresh.  One that succeeds installs what it has read, and *)
(* covers what it was ahead of; one that gives up has nobody to cover for. *)
LEMMA RefreshKeepsIInv == IInv /\ (InstallHead \/ GiveUpRefresh) => IInv'
<1> SUFFICES ASSUME IInv, InstallHead \/ GiveUpRefresh PROVE IInv'
  OBVIOUS
<1> USE RevisionAssumption, NothingAssumption, CallsAssumption
<1> USE DEF Revisions, Tasks
<1> DEFINE n == Len(tasks)
           installs == /\ headRead # Nothing /\ ~isDisposed
                       /\ head' = headRead
                       /\ snapshots' = snapshots \cup {headRead}
           givesUp  == /\ isDisposed \/ ~authorityOpen
                       /\ UNCHANGED <<head, snapshots>>
<1>1. /\ tasks # <<>> /\ Head(tasks) = Refresh
      /\ tasks' = Tail(tasks)
      /\ awaited' = [awaited EXCEPT !.tasks = IF @ > 0 THEN @ - 1 ELSE 0]
      /\ headRead' = Nothing
      /\ UNCHANGED <<authorityHead, authorityOpen, phase, call, revision>>
  BY DEF InstallHead, GiveUpRefresh, CompleteTask, isRunning, authority
<1>2. installs \/ givesUp
  BY DEF InstallHead, GiveUpRefresh, view
<1>3. TypeOK /\ tasks \in Seq(Tasks)
  BY DEF IInv, TypeOK
<1>4. /\ n \in Nat /\ n > 0
      /\ tasks' \in Seq(Tasks)
      /\ Len(tasks') = n - 1
      /\ \A i \in 1..(n - 1) : tasks'[i] = tasks[i + 1]
      /\ tasks[1] = Refresh
  BY <1>1, <1>3, CompleteFacts
<1> HIDE DEF n
<1>5. headRead # Nothing =>
        /\ headRead \in Revisions
        /\ head =< headRead /\ headRead =< authorityHead
  BY <1>3 DEF IInv, HeadReadIsNewer, TypeOK
<1>6. head =< head' /\ head' \in Revisions /\ head' =< authorityHead
  BY <1>2, <1>3, <1>5 DEF TypeOK, IInv, HeadIsReadable
<1>7. TypeOK'
  <2>1. awaited' \in [calls : SUBSET Calls, tasks : Nat]
    BY <1>1, <1>3 DEF TypeOK
  <2>2. snapshots' \subseteq Revisions
    BY <1>2, <1>3, <1>5 DEF TypeOK
  <2>3. QED
    BY <2>1, <2>2, <1>1, <1>3, <1>4, <1>6 DEF TypeOK
<1>8. HeadReadIsNewer'
  BY <1>1 DEF HeadReadIsNewer
<1>9. RevisionIsMainline'
  BY <1>1 DEF IInv, RevisionIsMainline
<1>10. InstallsAreUnique'
  <2> SUFFICES ASSUME NEW i \in 1..(n - 1), tasks'[i] \in Calls
               PROVE  /\ call[tasks'[i]] = "installing"
                      /\ \A j \in 1..(n - 1) : tasks'[j] = tasks'[i] => j = i
    BY <1>1, <1>4 DEF InstallsAreUnique
  <2>1. i \in Nat /\ i + 1 \in 1..n /\ tasks'[i] = tasks[i + 1]
    BY <1>4
  <2>2. call[tasks'[i]] = "installing"
    BY <2>1 DEF IInv, InstallsAreUnique, n
  <2>3. ASSUME NEW j \in 1..(n - 1), tasks'[j] = tasks'[i] PROVE j = i
    <3>1. j + 1 \in 1..n /\ tasks[j + 1] = tasks[i + 1]
      BY <2>1, <2>3, <1>4
    <3>2. j + 1 = i + 1
      BY <3>1, <2>1 DEF IInv, InstallsAreUnique, n
    <3>3. QED
      BY <3>2
  <2>4. QED
    BY <2>2, <2>3
<1>11. NotificationIsAhead'
  <2> SUFFICES ASSUME phase = "active", authorityOpen, NEW d \in Calls
               PROVE  /\ call[d] = "committed" => Covered(d, Len(tasks) + 1)'
                      /\ \A i \in 1..(n - 1) : tasks'[i] = d => Covered(d, i)'
                      /\ call[d] \in {"installed", "stale", "done"}
                           => revision[d] \in snapshots' /\ revision[d] =< head'
    BY <1>1, <1>4 DEF NotificationIsAhead
  <2>1. NotificationIsAhead /\ installs
    BY <1>2 DEF IInv, isDisposed
  <2>2. ASSUME NEW k \in 1..(n + 1), k > 1, Covered(d, k), revision[d] \in Nat
        PROVE  Covered(d, k - 1)'
    <3>1. CASE revision[d] =< head
      BY <3>1, <1>1, <1>3, <1>6, <2>2 DEF Covered, TypeOK
    <3>2. CASE \E i \in 1..n : /\ i < k /\ tasks[i] = Refresh
                               /\ i = 1 /\ headRead # Nothing
                                    => revision[d] =< headRead
      <4>1. PICK i \in 1..n : /\ i < k /\ tasks[i] = Refresh
                              /\ i = 1 /\ headRead # Nothing
                                   => revision[d] =< headRead
        BY <3>2
      <4>2. CASE i = 1
        BY <4>1, <4>2, <2>1, <1>1 DEF Covered
      <4>3. CASE i > 1
        <5>1. i - 1 \in 1..(n - 1) /\ i - 1 < k - 1 /\ tasks'[i - 1] = Refresh
          BY <4>1, <4>3, <1>4
        <5>2. QED
          BY <5>1, <1>1, <1>4 DEF Covered
      <4>4. QED
        BY <4>2, <4>3, <1>4
    <3>3. QED
      BY <3>1, <3>2, <2>2 DEF Covered, n
  <2>3. call[d] = "committed" => Covered(d, Len(tasks) + 1)'
    <3> SUFFICES ASSUME call[d] = "committed"
                 PROVE  Covered(d, Len(tasks) + 1)'
      OBVIOUS
    <3>1. revision[d] \in Nat
      BY DEF IInv, RevisionIsMainline, Committed
    <3>2. PICK k \in 1..(n + 1) : k = n + 1 /\ k > 1 /\ k - 1 = Len(tasks') + 1
      BY <1>4
    <3>3. Covered(d, k)
      BY <3>2, <2>1 DEF NotificationIsAhead, n
    <3>4. Covered(d, k - 1)'
      BY <3>1, <3>2, <3>3, <2>2
    <3>5. QED
      BY <3>2, <3>4 DEF Covered
  <2>4. ASSUME NEW i \in 1..(n - 1), tasks'[i] = d PROVE Covered(d, i)'
    <3>1. i + 1 \in 1..n /\ tasks[i + 1] = d /\ i + 1 > 1 /\ (i + 1) - 1 = i
      BY <2>4, <1>4
    <3>2. Covered(d, i + 1) /\ revision[d] \in Nat
      BY <3>1, <2>1 DEF NotificationIsAhead, n, IInv, InstallsAreUnique,
                        RevisionIsMainline, Committed
    <3>3. i + 1 \in 1..(n + 1)
      BY <3>1, <1>4
    <3>4. QED
      BY <3>1, <3>2, <3>3, <2>2
  <2>5. call[d] \in {"installed", "stale", "done"}
          => revision[d] \in snapshots' /\ revision[d] =< head'
    <3> SUFFICES ASSUME call[d] \in {"installed", "stale", "done"}
                 PROVE  revision[d] \in snapshots' /\ revision[d] =< head'
      OBVIOUS
    <3>1. revision[d] \in snapshots /\ revision[d] =< head /\ revision[d] \in Nat
      BY <2>1 DEF NotificationIsAhead, IInv, RevisionIsMainline, Committed
    <3>2. QED
      BY <3>1, <2>1, <1>3, <1>6 DEF TypeOK
  <2>6. QED
    BY <2>3, <2>4, <2>5
<1>12. HeadIsReadable'
  <2>1. HeadIsReadable
    BY DEF IInv
  <2>2. \A r \in snapshots' \cup {head'} : r =< authorityHead
    BY <2>1, <1>2, <1>5, <1>6 DEF HeadIsReadable
  <2>3. phase = "active" => head' \in snapshots'
    BY <2>1, <1>2 DEF HeadIsReadable
  <2>4. QED
    BY <2>2, <2>3, <1>1 DEF HeadIsReadable
<1>13. DisposalShape' /\ DisposeDrains'
  <2>1. phase \notin {"absent", "aligned", "gone"}
    BY <1>1 DEF IInv, DisposalShape, DisposeDrains
  <2>2. awaited'.calls = awaited.calls /\ Pending' = Pending
    BY <1>1, <1>3 DEF TypeOK, Pending
  <2>3. /\ phase = "chaining" => awaited'.tasks = Len(tasks')
        /\ phase # "chaining" => awaited'.tasks = 0
    BY <1>1, <1>3, <1>4 DEF IInv, DisposalShape, TypeOK, n
  <2>4. QED
    BY <2>1, <2>2, <2>3, <1>1 DEF IInv, DisposalShape, DisposeDrains
<1>14. QED
  BY <1>7, <1>8, <1>9, <1>10, <1>11, <1>12, <1>13 DEF IInv

(* dispose(): when it turns to the chain no call is pending, so that what  *)
(* is on the chain then is all that will ever be.                          *)
LEMMA DisposalKeepsIInv ==
  IInv /\ (Dispose \/ AwaitChain \/ FinishDispose) => IInv'
<1> SUFFICES ASSUME IInv, Dispose \/ AwaitChain \/ FinishDispose PROVE IInv'
  OBVIOUS
<1> USE RevisionAssumption, NothingAssumption, CallsAssumption
<1>1. /\ UNCHANGED <<authorityHead, authorityOpen, head, tasks, headRead, call,
                     revision>>
      /\ phase' \in {"draining", "chaining", "gone"}
      /\ snapshots' \in {snapshots, {}}
  BY DEF Dispose, AwaitChain, FinishDispose, authority, view, chain
<1>2. TypeOK /\ Len(tasks) \in Nat
  BY DEF IInv, TypeOK
<1>3. TypeOK'
  <2>1. awaited' \in [calls : SUBSET Calls, tasks : Nat]
    BY <1>2 DEF Dispose, AwaitChain, FinishDispose, TypeOK, Pending
  <2>2. QED
    BY <2>1, <1>1, <1>2 DEF TypeOK
<1>4. HeadReadIsNewer' /\ HeadIsReadable'
  BY <1>1 DEF IInv, HeadReadIsNewer, HeadIsReadable, isRunning
<1>5. RevisionIsMainline' /\ InstallsAreUnique' /\ NotificationIsAhead'
  BY <1>1 DEF IInv, RevisionIsMainline, InstallsAreUnique, NotificationIsAhead
<1>6. DisposalShape' /\ DisposeDrains'
  <2>1. Pending' = Pending
    BY <1>1 DEF Pending
  <2>2. CASE Dispose
    <3>1. /\ phase = "active" /\ phase' = "draining"
          /\ awaited'.calls = Pending /\ awaited'.tasks = awaited.tasks
      BY <2>2, <1>2 DEF Dispose, TypeOK
    <3>2. QED
      BY <3>1, <2>1 DEF IInv, DisposalShape, DisposeDrains
  <2>3. CASE AwaitChain
    <3>1. /\ phase = "draining" /\ phase' = "chaining" /\ Pending = {}
      BY <2>3 DEF AwaitChain, IInv, DisposalShape
    <3>2. awaited'.tasks = Len(tasks)
      BY <2>3, <1>2 DEF AwaitChain, TypeOK
    <3>3. QED
      BY <3>1, <3>2, <2>1, <1>1 DEF DisposalShape, DisposeDrains
  <2>4. CASE FinishDispose
    <3>1. /\ phase = "chaining" /\ phase' = "gone" /\ awaited.tasks = 0
          /\ awaited' = awaited /\ snapshots' = {}
      BY <2>4 DEF FinishDispose
    <3>2. Pending = {} /\ Len(tasks) = 0
      BY <3>1 DEF IInv, DisposalShape
    <3>3. tasks = <<>>
      BY <3>2, <1>2 DEF TypeOK
    <3>4. QED
      BY <3>1, <3>2, <3>3, <2>1, <1>1 DEF DisposalShape, DisposeDrains
  <2>5. QED
    BY <2>2, <2>3, <2>4
<1>7. QED
  BY <1>3, <1>4, <1>5, <1>6 DEF IInv

(* Every step preserves the inductive invariant.                           *)
LEMMA NextKeepsIInv == IInv /\ [Next]_vars => IInv'
<1> SUFFICES ASSUME IInv, [Next]_vars PROVE IInv'
  OBVIOUS
<1>1. CASE OtherCommit
  BY <1>1, OtherCommitKeepsIInv
<1>2. CASE CloseAuthority
  BY <1>2, QuietCallsKeepIInv
<1>3. CASE Align \/ Construct
  BY <1>3, CreationKeepsIInv
<1>4. ASSUME NEW c \in Calls,
             ApplyTransaction(c) \/ AnswerOfAuthority(c) \/ Continue(c)
      PROVE  IInv'
  <2>1. CASE ApplyTransaction(c) \/ RefuseCall(c)
    BY <2>1, QuietCallsKeepIInv
  <2>2. CASE CommitCall(c)
    BY <2>2, CommitCallKeepsIInv
  <2>3. CASE Continue(c)
    BY <2>3, AcceptCommitKeepsIInv, AnswerCallKeepsIInv DEF Continue
  <2>4. QED
    BY <1>4, <2>1, <2>2, <2>3 DEF AnswerOfAuthority
<1>5. CASE RunTask
  BY <1>5, InstallKeepsIInv, ReadHeadKeepsIInv, RefreshKeepsIInv DEF RunTask
<1>6. CASE Dispose \/ ContinueDispose
  BY <1>6, DisposalKeepsIInv DEF ContinueDispose
<1>7. CASE UNCHANGED vars
  BY <1>7
  DEF vars, authority, view, chain, IInv, TypeOK, HeadReadIsNewer, isRunning,
      RevisionIsMainline, InstallsAreUnique, NotificationIsAhead, Covered,
      DisposalShape, HeadIsReadable, DisposeDrains, Pending
<1>8. QED
  BY <1>1, <1>2, <1>3, <1>4, <1>5, <1>6, <1>7 DEF Next

(* The inductive invariant holds in every behaviour of the Model.          *)
THEOREM Invariance == Spec => []IInv
<1>1. Init => IInv
  BY InitIInv
<1>2. IInv /\ [Next]_vars => IInv'
  BY NextKeepsIInv
<1>3. QED
  BY <1>1, <1>2, PTL DEF Spec

-----------------------------------------------------------------------------
(* Every variable of the Model keeps its type.                             *)
THEOREM TypeCorrect == Spec => []TypeOK
<1>1. IInv => TypeOK
  BY DEF IInv
<1>2. QED
  BY <1>1, Invariance, PTL

(* The Model shows mainline Revisions only, and an active Model can read   *)
(* its own head.                                                           *)
THEOREM ShowsMainline == Spec => []HeadIsReadable
<1>1. IInv => HeadIsReadable
  BY DEF IInv
<1>2. QED
  BY <1>1, Invariance, PTL

(* Read your own commit: a caller that has its answer finds its Revision   *)
(* in the Model, with the head at or past it.                              *)
THEOREM ReadsItsCommits == Spec => []CommitIsVisible
<1>1. IInv => CommitIsVisible
  BY DEF IInv, NotificationIsAhead, CommitIsVisible
<1>2. QED
  BY <1>1, Invariance, PTL

(* Nothing of the Model is left to run when onDispose() is called.         *)
THEOREM DrainsBeforeDisposal == Spec => []DisposeDrains
<1>1. IInv => DisposeDrains
  BY DEF IInv
<1>2. QED
  BY <1>1, Invariance, PTL

(* The steps that move the head, or touch the Snapshots.                   *)
LEMMA HeadSteps ==
  ASSUME IInv, [Next]_vars
  PROVE  \/ UNCHANGED view
         \/ /\ phase \in {"absent", "aligned"}
            /\ phase' \in {"aligned", "active"}
         \/ phase = "chaining" /\ head' = head /\ snapshots' = {}
         \/ \E c \in Calls : installCommitResult(c)
         \/ InstallHead
  BY DEF Next, vars, AnswerOfAuthority, Continue, ContinueDispose, RunTask,
         OtherCommit, CloseAuthority, Align, Construct, ApplyTransaction,
         CommitCall, RefuseCall, AcceptCommit, AnswerCall, ReadHead,
         GiveUpRefresh, Dispose, AwaitChain, FinishDispose, view

(* The head of an active Model only moves forward, whatever order results  *)
(* and refreshes arrive in.                                                *)
THEOREM HeadOnlyAdvances == Spec => HeadNeverRegresses
<1>1. IInv /\ [Next]_vars => (phase = "active" => head =< head')
  <2> SUFFICES ASSUME IInv, [Next]_vars, phase = "active"
               PROVE  head =< head'
    OBVIOUS
  <2>1. head \in Nat
    BY RevisionAssumption DEF IInv, TypeOK, Revisions
  <2>2. ASSUME NEW c \in Calls, installCommitResult(c) PROVE head =< head'
    <3>1. Head(tasks) = c /\ tasks # <<>> /\ tasks \in Seq(Tasks)
      BY <2>2 DEF installCommitResult, isRunning, IInv, TypeOK
    <3>2. tasks[1] = c /\ 1 \in 1..Len(tasks)
      BY <3>1
    <3>3. revision[c] \in Nat
      BY <3>2 DEF IInv, InstallsAreUnique, RevisionIsMainline, Committed
    <3>4. head' = head \/ (head \in {revision[c] - 1, revision[c]} /\ head' = revision[c])
      BY <2>2 DEF installCommitResult
    <3>5. QED
      BY <3>3, <3>4, <2>1
  <2>3. CASE InstallHead
    BY <2>3 DEF InstallHead, IInv, HeadReadIsNewer
  <2>4. QED
    BY <2>1, <2>2, <2>3, HeadSteps DEF view
<1>2. QED
  BY <1>1, Invariance, PTL DEF Spec, HeadNeverRegresses

(* Refreshes and commits that outlive dispose() change nothing any more.   *)
THEOREM StaysFrozen == Spec => DisposedIsFrozen
<1>1. IInv /\ [Next]_vars
        => (isDisposed => head' = head /\ snapshots' \subseteq snapshots)
  <2> SUFFICES ASSUME IInv, [Next]_vars, isDisposed
               PROVE  head' = head /\ snapshots' \subseteq snapshots
    OBVIOUS
  <2>1. ASSUME NEW c \in Calls, installCommitResult(c)
        PROVE  head' = head /\ snapshots' = snapshots
    BY <2>1 DEF installCommitResult
  <2>2. ~InstallHead
    BY DEF InstallHead
  <2>3. QED
    BY <2>1, <2>2, HeadSteps DEF view, isDisposed
<1>2. QED
  BY <1>1, Invariance, PTL DEF Spec, DisposedIsFrozen

=============================================================================
