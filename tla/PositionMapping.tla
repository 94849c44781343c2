--------------------------- MODULE PositionMapping ---------------------------
(***************************************************************************)
(* The maps that carry a semantic position from one Revision to the next   *)
(* (model/mapping/replace-text-position-map.ts).                           *)
(*                                                                         *)
(* A position is text (a node, an offset and the side it leans to) or a    *)
(* boundary between two children of a node.  A step is one ReplaceText: in *)
(* the coordinates the preceding step produced, the text between start and *)
(* end of one node became length units long.  A map is the sequence of its *)
(* leaves, one per Transaction, each the sequence of that Transaction's    *)
(* steps; composing two maps appends the leaves of the second.             *)
(*                                                                         *)
(* An offset above MaxUtf16Offset is not a UTF-16 offset (identifiers.ts   *)
(* accepts safe integers): a position that would move there is orphaned.   *)
(* The status 'ambiguous' is never produced by these maps: they only       *)
(* propagate it, so it does not appear here.                               *)
(***************************************************************************)
EXTENDS Integers, Sequences, SequencesExt

CONSTANT MaxUtf16Offset   \* the largest offset the profile accepts

ASSUME OffsetAssumption == MaxUtf16Offset \in Nat

Affinities == {"before", "after"}

TextPosition(node, offset, affinity) ==
    [kind |-> "text", node |-> node, offset |-> offset, affinity |-> affinity]

NodeBoundary(parent, child, affinity) ==
    [kind |-> "node-boundary", parent |-> parent, child |-> child, affinity |-> affinity]

\* A deleted position that has no nearest one.
NoPosition == [kind |-> "none"]

IsOffset(offset) == offset \in 0 .. MaxUtf16Offset

\* What the constructor of a map demands of a step; it throws otherwise.
validateReplaceTextOptions(step) ==
    /\ IsOffset(step.start) /\ IsOffset(step.end) /\ IsOffset(step.length)
    /\ step.start <= step.end
    /\ IsOffset(step.start + step.length)

-----------------------------------------------------------------------------
(* One step.                                                               *)

Mapped(position) == [status |-> "mapped", position |-> position]
Deleted(nearest) == [status |-> "deleted", nearest |-> nearest]
Orphaned == [status |-> "orphaned"]

replacementEnd(step) == step.start + step.length
offsetDelta(step) == step.length - (step.end - step.start)

mapTextPositionToOffset(position, offset) ==
    IF IsOffset(offset) THEN Mapped([position EXCEPT !.offset = offset]) ELSE Orphaned

\* The side of the replaced text that a position leans to.
LeansTo(position, step) ==
    IF position.affinity = "before" THEN step.start ELSE replacementEnd(step)

\* Broken variant: affinity is ignored at the place of an insertion.
mapInsertion_AlwaysAfter(step, position) ==
    IF position.offset < step.start
    THEN Mapped(position)
    ELSE mapTextPositionToOffset(position, position.offset + offsetDelta(step))

mapInsertion(step, position) ==
    CASE position.offset < step.start -> Mapped(position)
      [] position.offset > step.start ->
            mapTextPositionToOffset(position, position.offset + offsetDelta(step))
      [] OTHER -> mapTextPositionToOffset(position, LeansTo(position, step))

mapNonEmptyReplacement(step, position) ==
    CASE position.offset < step.start -> Mapped(position)
      [] position.offset > step.end ->
            mapTextPositionToOffset(position, position.offset + offsetDelta(step))
      [] position.offset = step.start -> mapTextPositionToOffset(position, step.start)
      [] position.offset = step.end -> mapTextPositionToOffset(position, replacementEnd(step))
      [] OTHER ->
            Deleted(IF IsOffset(LeansTo(position, step))
                    THEN [position EXCEPT !.offset = LeansTo(position, step)]
                    ELSE NoPosition)

mapStep(step, position) ==
    IF position.kind # "text" \/ position.node # step.node
    THEN Mapped(position)
    ELSE IF step.start = step.end
         THEN mapInsertion(step, position)
         ELSE mapNonEmptyReplacement(step, position)

-----------------------------------------------------------------------------
(* Steps in order, and maps in order.                                      *)

\* A deleted position stays deleted; its nearest position moves on.
mapDeletedPositionThrough(nearest, step) ==
    IF nearest = NoPosition
    THEN Deleted(NoPosition)
    ELSE LET moved == mapStep(step, nearest)
         IN  CASE moved.status = "mapped" -> Deleted(moved.position)
               [] moved.status = "deleted" -> Deleted(moved.nearest)
               [] OTHER -> Deleted(NoPosition)

mapPositionResultThrough(result, step) ==
    CASE result.status = "mapped" -> mapStep(step, result.position)
      [] result.status = "deleted" -> mapDeletedPositionThrough(result.nearest, step)
      [] OTHER -> result

\* The map of one Transaction: its steps, in draft coordinates.
mapSteps(steps, position) ==
    LET result[n \in 0 .. Len(steps)] ==
            IF n = 0
            THEN Mapped(position)
            ELSE mapPositionResultThrough(result[n - 1], steps[n])
    IN  result[Len(steps)]

createReplaceTextTransactionPositionMap(from, to, steps) ==
    [from |-> from, to |-> to, leaves |-> <<steps>>]

\* A RangeError unless the second map starts where the first one ends.
CanCompose(first, next) == first.to = next.from

compose(first, next) ==
    [from |-> first.from, to |-> next.to, leaves |-> first.leaves \o next.leaves]

\* mapPosition of a map: leaf after leaf, each one step after step.
mapPosition(map, position) == mapSteps(FlattenSeq(map.leaves), position)
=============================================================================
