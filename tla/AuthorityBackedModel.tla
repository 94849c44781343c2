------------------------ MODULE AuthorityBackedModel ------------------------
(***************************************************************************)
(* One AuthorityBackedNirecoModel: a workspace's copy of a document whose  *)
(* mainline an IDocumentAuthority owns.  The Model learns of Revisions in  *)
(* two ways, the results of its own applyTransaction() calls and reads of  *)
(* the head after a notification, and puts both on one chain of tasks.     *)
(*                                                                         *)
(* The Authority is modelled by its interface: it commits, notifies its    *)
(* subscribers in the same turn, answers getHead() and getSnapshot(), and  *)
(* answers apply() at any time after the commit.  A Revision is named by   *)
(* its place on the mainline.                                              *)
(***************************************************************************)
EXTENDS Naturals, Sequences

CONSTANTS
  Calls,         \* calls of applyTransaction()
  MaxRevision,   \* the longest mainline
  Nothing        \* `undefined`

ASSUME RevisionAssumption == MaxRevision \in Nat
ASSUME NothingAssumption == Nothing \notin Nat

VARIABLES
  authorityHead,   \* the Authority's head
  authorityOpen,   \* it has not been disposed
  phase,           \* the Model's life; isDisposed from "draining" on
  head,            \* #headRevisionId
  snapshots,       \* the Revisions in #snapshots
  tasks,           \* #refreshChain: its first task runs
  headRead,        \* what the running refresh got from getHead()
  call,            \* what has become of each applyTransaction()
  revision,        \* the Revision it committed
  awaited          \* what dispose() still awaits

authority == <<authorityHead, authorityOpen>>
view == <<head, snapshots>>
chain == <<tasks, headRead>>
vars == <<authority, phase, view, chain, call, revision, awaited>>

Revisions == 0..MaxRevision

(* A task refreshes the head, or installs the result of a call.            *)
Refresh == "refresh"
Tasks == {Refresh} \cup Calls

ASSUME CallsAssumption == Refresh \notin Calls

isDisposed == phase \in {"draining", "chaining", "gone"}
Pending == {c \in Calls : call[c] \in {"applying", "committed", "installing",
                                       "installed", "stale"}}

TypeOK ==
  /\ authorityHead \in Revisions
  /\ authorityOpen \in BOOLEAN
  /\ phase \in {"absent", "aligned", "active", "draining", "chaining", "gone"}
  /\ head \in Revisions
  /\ snapshots \subseteq Revisions
  /\ tasks \in Seq(Tasks)
  /\ headRead \in Revisions \cup {Nothing}
  /\ call \in [Calls -> {"idle", "applying", "committed", "installing",
                         "installed", "stale", "failed", "done"}]
  /\ revision \in [Calls -> Revisions \cup {Nothing}]
  /\ awaited \in [calls : SUBSET Calls, tasks : Nat]

-----------------------------------------------------------------------------
(* What the Model's subscription does, in the Authority's turn. *)

notify ==
  tasks' = IF phase = "active" THEN Append(tasks, Refresh) ELSE tasks

-----------------------------------------------------------------------------
(* The Authority. *)

Advance ==
  /\ authorityOpen
  /\ authorityHead < MaxRevision
  /\ authorityHead' = authorityHead + 1
  /\ notify

(* Somebody else commits. *)
OtherCommit ==
  /\ Advance
  /\ UNCHANGED <<authorityOpen, phase, view, headRead, call, revision, awaited>>

CommitCall(c) ==
  /\ call[c] = "applying"
  /\ Advance
  /\ call' = [call EXCEPT ![c] = "committed"]
  /\ revision' = [revision EXCEPT ![c] = authorityHead']
  /\ UNCHANGED <<authorityOpen, phase, view, headRead, awaited>>

(* A refusal, or an exception. *)
RefuseCall(c) ==
  /\ call[c] = "applying"
  /\ call' = [call EXCEPT ![c] = "failed"]
  /\ UNCHANGED <<authority, phase, view, chain, revision, awaited>>

CloseAuthority ==
  /\ authorityOpen
  /\ authorityOpen' = FALSE
  /\ UNCHANGED <<authorityHead, phase, view, chain, call, revision, awaited>>

-----------------------------------------------------------------------------
(* Registry creation: the head is read, the Model is constructed from it   *)
(* and subscribes a turn later, and then reads the head again.             *)

Align ==
  /\ phase = "absent"
  /\ authorityOpen
  /\ phase' = "aligned"
  /\ head' = authorityHead
  /\ UNCHANGED <<authority, snapshots, chain, call, revision, awaited>>

(* Broken variant: the Model trusts the Snapshot it was constructed from.  *)
Construct_Unsynchronized ==
  /\ phase = "aligned"
  /\ phase' = "active"
  /\ snapshots' = {head}
  /\ UNCHANGED <<authority, head, chain, call, revision, awaited>>

Construct ==
  /\ phase = "aligned"
  /\ phase' = "active"
  /\ snapshots' = {head}
  /\ tasks' = <<Refresh>>
  /\ UNCHANGED <<authority, head, headRead, call, revision, awaited>>

-----------------------------------------------------------------------------
(* applyTransaction() *)

ApplyTransaction(c) ==
  /\ phase = "active"
  /\ call[c] = "idle"
  /\ call' = [call EXCEPT ![c] = "applying"]
  /\ UNCHANGED <<authority, phase, view, chain, revision, awaited>>

(* Broken variant: the caller is answered before the commit is installed.  *)
AcceptCommit_AnswersFirst(c) ==
  /\ call[c] = "committed"
  /\ call' = [call EXCEPT ![c] = "done"]
  /\ tasks' = Append(tasks, c)
  /\ UNCHANGED <<authority, phase, view, headRead, revision, awaited>>

AcceptCommit(c) ==
  /\ call[c] = "committed"
  /\ call' = [call EXCEPT ![c] = "installing"]
  /\ tasks' = Append(tasks, c)
  /\ UNCHANGED <<authority, phase, view, headRead, revision, awaited>>

(* The caller gets its answer, after asking for a refresh if the commit    *)
(* did not fit the head.                                                   *)
AnswerCall(c) ==
  /\ call[c] \in {"installed", "stale"}
  /\ call' = [call EXCEPT ![c] = "done"]
  /\ tasks' = IF call[c] = "stale" /\ ~isDisposed
                THEN Append(tasks, Refresh) ELSE tasks
  /\ UNCHANGED <<authority, phase, view, headRead, revision, awaited>>

-----------------------------------------------------------------------------
(* The chain of tasks.  dispose() may be waiting for it.                   *)

isRunning(task) == tasks # <<>> /\ Head(tasks) = task

CompleteTask ==
  /\ tasks' = Tail(tasks)
  /\ awaited' = [awaited EXCEPT !.tasks = IF @ > 0 THEN @ - 1 ELSE 0]

(* Broken variant: the newest commit result is taken for the newest head.  *)
installCommitResult_Blindly(c) ==
  /\ isRunning(c)
  /\ CompleteTask
  /\ snapshots' = IF isDisposed THEN snapshots ELSE snapshots \cup {revision[c]}
  /\ head' = IF isDisposed THEN head ELSE revision[c]
  /\ call' = [call EXCEPT ![c] = "installed"]
  /\ UNCHANGED <<authority, phase, headRead, revision>>

(* The commit's base is its predecessor on the mainline. *)
installCommitResult(c) ==
  LET fits == head \in {revision[c] - 1, revision[c]}
  IN  /\ isRunning(c)
      /\ CompleteTask
      /\ snapshots' = IF isDisposed THEN snapshots
                                    ELSE snapshots \cup {revision[c]}
      /\ head' = IF fits /\ ~isDisposed THEN revision[c] ELSE head
      /\ call' = [call EXCEPT ![c] = IF fits \/ isDisposed
                                       THEN "installed" ELSE "stale"]
      /\ UNCHANGED <<authority, phase, headRead, revision>>

(* A refresh reads the head ... *)
ReadHead ==
  /\ isRunning(Refresh)
  /\ headRead = Nothing
  /\ ~isDisposed
  /\ authorityOpen
  /\ headRead' = authorityHead
  /\ UNCHANGED <<authority, phase, view, tasks, call, revision, awaited>>

(* Broken variant: the refresh forgets the Snapshot.                       *)
InstallHead_HeadOnly ==
  /\ isRunning(Refresh)
  /\ headRead # Nothing
  /\ ~isDisposed
  /\ authorityOpen
  /\ head' = headRead
  /\ headRead' = Nothing
  /\ CompleteTask
  /\ UNCHANGED <<authority, phase, snapshots, call, revision>>

(* ... and a turn later its Snapshot. *)
InstallHead ==
  /\ isRunning(Refresh)
  /\ headRead # Nothing
  /\ ~isDisposed
  /\ authorityOpen
  /\ head' = headRead
  /\ snapshots' = snapshots \cup {headRead}
  /\ headRead' = Nothing
  /\ CompleteTask
  /\ UNCHANGED <<authority, phase, call, revision>>

(* Broken variant: a refresh that fails breaks the chain behind it.        *)
GiveUpRefresh_BreaksChain ==
  /\ isRunning(Refresh)
  /\ isDisposed \/ ~authorityOpen
  /\ headRead' = Nothing
  /\ tasks' = <<>>
  /\ awaited' = [awaited EXCEPT !.tasks = 0]
  /\ UNCHANGED <<authority, phase, view, call, revision>>

(* In either turn the Model may be disposed, or the Authority gone.        *)
GiveUpRefresh ==
  /\ isRunning(Refresh)
  /\ isDisposed \/ ~authorityOpen
  /\ headRead' = Nothing
  /\ CompleteTask
  /\ UNCHANGED <<authority, phase, view, call, revision>>

-----------------------------------------------------------------------------
(* dispose() *)

Dispose ==
  /\ phase = "active"
  /\ phase' = "draining"
  /\ awaited' = [awaited EXCEPT !.calls = Pending]
  /\ UNCHANGED <<authority, view, chain, call, revision>>

(* The applies that were pending have settled; now for the chain. *)
AwaitChain ==
  /\ phase = "draining"
  /\ awaited.calls \cap Pending = {}
  /\ phase' = "chaining"
  /\ awaited' = [awaited EXCEPT !.tasks = Len(tasks)]
  /\ UNCHANGED <<authority, view, chain, call, revision>>

FinishDispose ==
  /\ phase = "chaining"
  /\ awaited.tasks = 0
  /\ phase' = "gone"
  /\ snapshots' = {}
  /\ UNCHANGED <<authority, head, chain, call, revision, awaited>>

-----------------------------------------------------------------------------
Init ==
  /\ authorityHead = 0
  /\ authorityOpen = TRUE
  /\ phase = "absent"
  /\ head = 0
  /\ snapshots = {}
  /\ tasks = <<>>
  /\ headRead = Nothing
  /\ call = [c \in Calls |-> "idle"]
  /\ revision = [c \in Calls |-> Nothing]
  /\ awaited = [calls |-> {}, tasks |-> 0]

AnswerOfAuthority(c) == CommitCall(c) \/ RefuseCall(c)

(* Turns the event loop owes. *)
RunTask ==
  \/ \E c \in Calls : installCommitResult(c)
  \/ ReadHead
  \/ InstallHead
  \/ GiveUpRefresh

Continue(c) == AcceptCommit(c) \/ AnswerCall(c)

ContinueDispose == AwaitChain \/ FinishDispose

Next ==
  \/ OtherCommit
  \/ CloseAuthority
  \/ Align
  \/ Construct
  \/ \E c \in Calls :
       ApplyTransaction(c) \/ AnswerOfAuthority(c) \/ Continue(c)
  \/ RunTask
  \/ Dispose
  \/ ContinueDispose

Spec == Init /\ [][Next]_vars

(* The event loop runs every queued turn, and the Authority answers.       *)
Fairness ==
  /\ WF_vars(RunTask)
  /\ WF_vars(ContinueDispose)
  /\ \A c \in Calls : WF_vars(Continue(c)) /\ WF_vars(AnswerOfAuthority(c))

FairSpec == Spec /\ Fairness

-----------------------------------------------------------------------------
(* Properties. *)

(* A late apply result or an overtaken refresh never rolls the Model back. *)
HeadNeverRegresses == [][phase = "active" => head =< head']_vars

(* What the Model shows is mainline, and its own head can be read.         *)
HeadIsReadable ==
  /\ \A r \in snapshots \cup {head} : r =< authorityHead
  /\ phase = "active" => head \in snapshots

(* Read your own commit: once applyTransaction() has answered, the Model   *)
(* has that Revision and its head has reached it, whoever else commits.    *)
CommitIsVisible ==
  phase = "active" /\ authorityOpen =>
    \A c \in Calls : call[c] = "done" =>
      revision[c] \in snapshots /\ revision[c] =< head

(* From dispose() on the head stays and no Snapshot is added, although     *)
(* refreshes and commits that were under way go on.                        *)
DisposedIsFrozen ==
  [][isDisposed => head' = head /\ snapshots' \subseteq snapshots]_vars

(* onDispose() runs when nothing of the Model is left to run.              *)
DisposeDrains ==
  phase = "gone" => tasks = <<>> /\ Pending = {} /\ snapshots = {}

(* No notification is lost, not even between the first read of the head    *)
(* and the subscription: a Model catches up with its Authority.            *)
CatchesUp ==
  \A r \in Revisions :
    phase = "active" /\ authorityHead = r ~>
      head >= r \/ phase # "active" \/ ~authorityOpen

(* dispose() and applyTransaction() come to an end. *)
PromisesSettle ==
  /\ phase = "draining" ~> phase = "gone"
  /\ \A c \in Calls : call[c] = "applying" ~> call[c] \in {"failed", "done"}

=============================================================================
