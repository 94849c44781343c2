-------------------------- MODULE DurabilityPromise --------------------------
(***************************************************************************)
(* What the Authority promises its callers, with none of its machinery: a  *)
(* mainline that grows by one Revision at a time and only on top of a      *)
(* durable head; levels that climb one rung at a time; and requests that   *)
(* are kept no earlier and no later than the level they asked for, unless  *)
(* they are refused.  Once sealed, the mainline never grows again.         *)
(***************************************************************************)
EXTENDS Durability

CONSTANTS Callers, FirstSequence, MaxSequence

VARIABLES
  head,         \* the newest Revision of the mainline
  durability,   \* level of each Revision
  sealed,       \* the Authority has become read-only
  promise       \* what each caller asked for and was told

promiseVars == <<head, durability, sealed, promise>>

Line == FirstSequence..MaxSequence

Pending(c) == promise[c].state = "waiting"

(* Caller c is told the truth: its target has been reached. *)
Kept(c, level) ==
  /\ isDurabilityAtLeast(level, promise[c].target)
  /\ promise'[c] = [promise[c] EXCEPT !.state = "ok", !.achieved = level]

Refused(c) == Pending(c) /\ promise'[c] = [promise[c] EXCEPT !.state = "error"]

Unmoved(c) == promise'[c] = promise[c]

(* Sealing may accompany any refusal, and is never undone. *)
MaySeal == sealed' \in {sealed, TRUE}

(* All requests but those of S are left alone or refused. *)
OthersMayBeRefused(S) ==
  \A c \in Callers \ S : Unmoved(c) \/ Refused(c)

Commit ==
  /\ ~sealed
  /\ head < MaxSequence
  /\ durability[head] \in {"wal", "snapshot"}
  /\ head' = head + 1
  /\ durability' = [durability EXCEPT ![head + 1] = "memory"]
  /\ UNCHANGED <<sealed, promise>>

NextLevel(level) == IF level = "memory" THEN "wal" ELSE "snapshot"

(* Revision r climbs one rung.  Every request this satisfies is kept in    *)
(* the same step; others about r may be refused, all others stay.          *)
Climb(r) ==
  /\ durability[r] \in {"memory", "wal"}
  /\ durability' = [durability EXCEPT ![r] = NextLevel(durability[r])]
  /\ \A c \in Callers :
       LET concerned == Pending(c) /\ promise[c].revision = r
           satisfied == isDurabilityAtLeast(NextLevel(durability[r]),
                                            promise[c].target)
       IN  \/ concerned /\ satisfied /\ Kept(c, NextLevel(durability[r]))
           \/ concerned /\ ~satisfied /\ (Unmoved(c) \/ Refused(c))
           \/ ~concerned /\ Unmoved(c)
  /\ MaySeal
  /\ UNCHANGED head

(* Some requests are refused; nothing becomes more durable. *)
Refuse ==
  /\ OthersMayBeRefused({})
  /\ MaySeal
  /\ UNCHANGED <<head, durability>>

(* The three answers to a new request: kept, refused, or still pending. *)
Truthful(answer, r, target) ==
  /\ answer.revision = r
  /\ answer.target = target
  /\ \/ /\ answer.state = "ok"
        /\ durability[r] # Absent
        /\ answer.achieved = durability[r]
        /\ isDurabilityAtLeast(durability[r], target)
     \/ /\ answer.state = "error"
     \/ /\ answer.state = "waiting"
        /\ durability[r] # Absent
        /\ ~isDurabilityAtLeast(durability[r], target)

(* whenDurable(): the answer to c is truthful at once. *)
Ask(c, r, target) ==
  /\ ~Pending(c)
  /\ Truthful(promise'[c], r, target)
  /\ OthersMayBeRefused({c})
  /\ MaySeal
  /\ UNCHANGED <<head, durability>>

PromiseInit ==
  /\ head = FirstSequence
  /\ \E level \in {"wal", "snapshot"} :
       durability = [r \in Line |-> IF r = FirstSequence THEN level
                                                         ELSE Absent]
  /\ sealed = FALSE
  /\ \A c \in Callers : ~Pending(c)

PromiseNext ==
  \/ Commit
  \/ \E r \in Line : Climb(r)
  \/ Refuse
  \/ \E c \in Callers, r \in Line, target \in Levels : Ask(c, r, target)

PromiseSpec == PromiseInit /\ [][PromiseNext]_promiseVars

=============================================================================
