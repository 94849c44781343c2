---------------------------- MODULE ManuscriptRules ----------------------------
(***************************************************************************)
(* What makes a document Snapshot a canonical manuscript                   *)
(* (model/schema/manuscript-validator.ts): the checks, and the order in    *)
(* which the first failing one names the reason.                           *)
(*                                                                         *)
(* A document is the record of its ten fields.  The tree under root is a   *)
(* sequence of nodes, the root first, a node naming its children by their  *)
(* places in the sequence: two places may carry the same Node ID, which is *)
(* one of the things the validator is there to find.                       *)
(***************************************************************************)
EXTENDS ClosedShapes, FiniteSets, FiniteSetsExt

CONSTANT MAX_MANUSCRIPT_TREE_DEPTH   \* 256 in the code

FixedHeader ==
    [format |-> "nireco-document", formatVersion |-> "1", schemaId |-> "nireco-manuscript",
     schemaVersion |-> "1"]

\* The second verdict counts, and is looked at, only after a first one that is "ok".
andThen(first, second) == IF first = "ok" THEN second ELSE first

\* The first reason of a sequence of verdicts, each "ok" or a reason.
FirstFailure(verdicts) ==
    LET failures == {i \in DOMAIN verdicts : verdicts[i] # "ok"}
    IN  IF failures = {} THEN "ok" ELSE verdicts[Min(failures)]

-----------------------------------------------------------------------------
(* The tree.                                                               *)

childrenOf(node) ==
    IF Has(node, "children") /\ node.children # Junk THEN node.children ELSE <<>>

Depth(tree, place) ==
    LET depth[p \in DOMAIN tree] ==
            LET parents == {q \in DOMAIN tree : p \in Range(childrenOf(tree[q]))}
            IN  IF parents = {} THEN 0 ELSE 1 + depth[CHOOSE q \in parents : TRUE]
    IN  depth[place]

\* The order in which the validator's stack visits the places.
Visits(tree) ==
    LET from[p \in DOMAIN tree] ==
            LET children == childrenOf(tree[p])
            IN  <<p>> \o FlattenSeq([i \in DOMAIN children |-> from[children[i]]])
    IN  from[1]

BLOCK_NODE_TYPES ==
    {"section", "paragraph", "heading", "figure", "table", "displayEquation", "blockQuote",
     "codeBlock", "list", "horizontalRule", "footnote"}
NESTED_BLOCK_NODE_TYPES == {"paragraph", "blockQuote", "codeBlock", "list"}
INLINE_NODE_TYPES ==
    {"text", "citation", "crossReference", "inlineEquation", "footnoteReference", "hardBreak"}
KNOWN_NODE_TYPES ==
    BLOCK_NODE_TYPES \cup INLINE_NODE_TYPES \cup
    {"bibliographyPlaceholder", "body", "figureAsset", "figureCaption", "frontMatter", "listItem",
     "manuscript", "tableCaption", "tableCell", "tableRow"}

AllIn(types, allowed) == Range(types) \subseteq allowed

StartsWith(types, first, rest) ==
    types # <<>> /\ Head(types) = first /\ AllIn(Tail(types), rest)

SkipFirst(types, first) == IF types # <<>> /\ Head(types) = first THEN Tail(types) ELSE types

acceptsManuscriptChildren(types) ==
    SkipFirst(types, "frontMatter") \in {<<"body">>, <<"body", "bibliographyPlaceholder">>}

acceptsTableChildren(types) ==
    LET rows == SkipFirst(types, "tableCaption")
    IN  rows # <<>> /\ AllIn(rows, {"tableRow"})

\* CHILDREN_RULES for the kinds that have children.
acceptsChildren(type, types) ==
    CASE type \in {"blockQuote", "body"} -> types # <<>> /\ AllIn(types, BLOCK_NODE_TYPES)
      [] type = "codeBlock" -> types \in {<<>>, <<"text">>}
      [] type = "figure" -> types \in {<<"figureAsset">>, <<"figureAsset", "figureCaption">>}
      [] type \in {"figureCaption", "heading", "paragraph", "tableCaption"} ->
            AllIn(types, INLINE_NODE_TYPES)
      [] type = "footnote" -> types # <<>> /\ AllIn(types, NESTED_BLOCK_NODE_TYPES)
      [] type = "frontMatter" -> types = <<>>
      [] type = "list" -> types # <<>> /\ AllIn(types, {"listItem"})
      [] type = "listItem" -> StartsWith(types, "paragraph", BLOCK_NODE_TYPES)
      [] type = "manuscript" -> acceptsManuscriptChildren(types)
      [] type = "section" -> StartsWith(types, "heading", BLOCK_NODE_TYPES \ {"heading"})
      [] type = "table" -> acceptsTableChildren(types)
      [] type = "tableCell" -> StartsWith(types, "paragraph", NESTED_BLOCK_NODE_TYPES)
      [] type = "tableRow" -> types # <<>> /\ AllIn(types, {"tableCell"})

validateAndReadChildren(tree, node) ==
    LET types == [i \in DOMAIN childrenOf(node) |-> tree[node.children[i]].type]
    IN  IF node.type \notin CHILD_BEARING_NODE_TYPES
        THEN "ok"
        ELSE IF ~ Has(node, "children") \/ node.children = Junk
        THEN "node-children-invalid"
        ELSE IF ~ AllIn(types, KNOWN_NODE_TYPES)
        THEN "node-kind-invalid"
        ELSE IF ~ acceptsChildren(node.type, types) THEN "node-children-invalid" ELSE "ok"

\* The Entity IDs a node declares: none, or one.
declaredEntityIds(node) ==
    LET key == IF node.type = "citation" THEN "citationId" ELSE "entityId"
    IN  IF /\ node.type \in {"citation", "displayEquation", "figure", "table"}
           /\ node.attrs # Junk
           /\ Has(node.attrs, key)
        THEN {node.attrs[key]}
        ELSE {}

\* The verdict on the node at the i-th visit; entities are those declared before it.
visitNode(tree, visits, i, entities) ==
    LET node == tree[visits[i]]
        earlier == {tree[visits[j]] : j \in 1 .. i - 1}
    IN  IF Depth(tree, visits[i]) > MAX_MANUSCRIPT_TREE_DEPTH
        THEN "node-depth-exceeded"
        ELSE IF node.id = Junk
        THEN "node-shape-invalid"
        ELSE IF node.id \in {other.id : other \in earlier}
        THEN "duplicate-node-id"
        ELSE IF node.type \notin KNOWN_NODE_TYPES
        THEN "node-kind-invalid"
        ELSE IF ~ isValidNodePayloadShape(node, node.type)
        THEN "node-shape-invalid"
        ELSE IF declaredEntityIds(node) \cap
                    (entities \cup UNION {declaredEntityIds(other) : other \in earlier}) # {}
        THEN "duplicate-entity-id"
        ELSE validateAndReadChildren(tree, node)

validateTree(tree, entities) ==
    LET visits == Visits(tree)
    IN  FirstFailure([i \in DOMAIN visits |-> visitNode(tree, visits, i, entities)])

\* A payload of insert-node: a tree of its own, which is not a manuscript.
validateInsertableNode(tree) ==
    IF tree = Junk \/ tree[1].type \notin KNOWN_NODE_TYPES \ {"manuscript"}
    THEN "node-shape-invalid"
    ELSE validateTree(tree, {})

treeEntityIds(tree) == UNION {declaredEntityIds(tree[p]) : p \in DOMAIN tree}

-----------------------------------------------------------------------------
(* Header and metadata.                                                    *)

SNAPSHOT_KEYS ==
    DOMAIN FixedHeader \cup
    {"revisionId", "documentHash", "metadata", "root", "academicGraph", "settings"}

validateDocumentHeader(document) ==
    LET Differs(field) == ~ Has(document, field) \/ document[field] # FixedHeader[field]
        IsMissing(field) == ~ Has(document, field) \/ document[field] = Junk
    IN  IF ~ DOMAIN document \subseteq SNAPSHOT_KEYS THEN "document-shape-invalid"
        ELSE IF Differs("format") THEN "format-unsupported"
        ELSE IF Differs("formatVersion") THEN "format-version-unsupported"
        ELSE IF Differs("schemaId") THEN "schema-id-unsupported"
        ELSE IF Differs("schemaVersion") THEN "schema-version-unsupported"
        ELSE IF IsMissing("revisionId") THEN "revision-id-invalid"
        ELSE IF IsMissing("documentHash") THEN "document-hash-invalid" ELSE "ok"

authorEntityIds(metadata) ==
    {metadata.authors[i].id : i \in {j \in DOMAIN metadata.authors : Has(metadata.authors[j], "id")}}

collectMetadataAuthorEntityIds(metadata) ==
    IF \E i, j \in DOMAIN metadata.authors :
            /\ i < j
            /\ Has(metadata.authors[i], "id") /\ Has(metadata.authors[j], "id")
            /\ metadata.authors[i].id = metadata.authors[j].id
    THEN "duplicate-entity-id"
    ELSE "ok"

-----------------------------------------------------------------------------
(* The Academic Graph.                                                     *)

isAcademicGraphRecord(graph) ==
    /\ graph # Junk
    /\ Keys(graph) = {"referenceSnapshots", "evidenceLinks", "claims", "claimEvidenceRelations"}
    /\ \A key \in Keys(graph) : graph[key] # Junk

idsOf(entities) == {entities[i].id : i \in DOMAIN entities}

academicEntityIds(graph) ==
    idsOf(graph.referenceSnapshots) \cup idsOf(graph.evidenceLinks) \cup idsOf(graph.claims)

\* References, evidence links, claims: each in its shape, with an ID of its own.
collectAcademicEntityIds(graph, nonAcademic) ==
    LET entities == graph.referenceSnapshots \o graph.evidenceLinks \o graph.claims
        Accepts(i) ==
            IF i <= Len(graph.referenceSnapshots)
            THEN isValidReferenceSnapshotShape(entities[i])
            ELSE IF i <= Len(graph.referenceSnapshots) + Len(graph.evidenceLinks)
            THEN isValidEvidenceLinkShape(entities[i])
            ELSE isValidClaimShape(entities[i])
        Verdict(i) ==
            IF entities[i] = Junk \/ ~ Accepts(i)
            THEN "academic-graph-invalid"
            ELSE IF entities[i].id \in nonAcademic
            THEN "duplicate-entity-id"
            ELSE IF \E j \in 1 .. i - 1 : entities[j].id = entities[i].id
            THEN "duplicate-academic-entity-id" ELSE "ok"
    IN  FirstFailure([i \in DOMAIN entities |-> Verdict(i)])

validateAcademicRelations(graph) ==
    LET Verdict(relation) ==
            IF ~ isValidClaimEvidenceRelationShape(relation)
            THEN "academic-relation-invalid"
            ELSE IF /\ relation.claimId \in idsOf(graph.claims)
                    /\ relation.evidenceId \in idsOf(graph.evidenceLinks)
            THEN "ok"
            ELSE "dangling-academic-relation"
        relations == graph.claimEvidenceRelations
    IN  FirstFailure([i \in DOMAIN relations |-> Verdict(relations[i])])

-----------------------------------------------------------------------------
(* References of the tree, and the anchors of the claims.                  *)

referencesOf(tree, type, key) ==
    {tree[p].attrs[key] : p \in {q \in DOMAIN tree : tree[q].type = type}}

nodesWithId(tree, id) == {tree[p] : p \in {q \in DOMAIN tree : tree[q].id = id}}

validateTreeReferences(tree, graph, entities) ==
    IF ~ referencesOf(tree, "citation", "referenceId") \subseteq idsOf(graph.referenceSnapshots)
    THEN "dangling-citation-reference"
    ELSE IF ~ referencesOf(tree, "crossReference", "targetEntityId") \subseteq entities
    THEN "dangling-cross-reference"
    ELSE IF \E id \in referencesOf(tree, "footnoteReference", "footnoteNodeId") :
                ~ \E node \in nodesWithId(tree, id) : node.type = "footnote"
    THEN "dangling-footnote-reference" ELSE "ok"

\* The Node IDs from the root to the node.
readValidatedNodePath(tree, id) ==
    LET path[p \in DOMAIN tree] ==
            LET parents == {q \in DOMAIN tree : p \in Range(childrenOf(tree[q]))}
            IN  (IF parents = {} THEN <<>> ELSE path[CHOOSE q \in parents : TRUE])
                    \o <<tree[p].id>>
    IN  path[CHOOSE p \in DOMAIN tree : tree[p].id = id]

validateClaimPrimaryPosition(tree, primary) ==
    IF primary.kind = "text"
    THEN \E node \in nodesWithId(tree, primary.node) :
            node.type = "text" /\ validateUtf16Boundary(node.value, primary.offset)
    ELSE \E node \in nodesWithId(tree, primary.parent) :
            Has(node, "children") /\ primary.child <= Len(node.children)

anchorNodeId(primary) == IF primary.kind = "text" THEN primary.node ELSE primary.parent

validateClaimAnchor(tree, anchor, revisionId) ==
    /\ anchor.document.revisionId = revisionId
    /\ validateClaimPrimaryPosition(tree, anchor.primary)
    /\ Has(anchor, "targetNodeId") => nodesWithId(tree, anchor.targetNodeId) # {}
    /\ Has(anchor, "pathHint") =>
            \/ anchor.pathHint = readValidatedNodePath(tree, anchorNodeId(anchor.primary))
            \/ /\ Has(anchor, "targetNodeId")
               /\ anchor.pathHint = readValidatedNodePath(tree, anchor.targetNodeId)

validateClaimAnchors(document) ==
    IF \A i \in DOMAIN document.academicGraph.claims :
            validateClaimAnchor(document.root, document.academicGraph.claims[i].anchor,
                                document.revisionId)
    THEN "ok"
    ELSE "claim-anchor-invalid"

-----------------------------------------------------------------------------
(* The whole document.                                                     *)

validateAcademicGraph(graph, nonAcademic) ==
    IF ~ isAcademicGraphRecord(graph)
    THEN "academic-graph-invalid"
    ELSE andThen(collectAcademicEntityIds(graph, nonAcademic), validateAcademicRelations(graph))

validateGraphAndReferences(document, nonAcademic) ==
    andThen(validateAcademicGraph(document.academicGraph, nonAcademic),
    andThen(validateTreeReferences(document.root, document.academicGraph,
                                   nonAcademic \cup academicEntityIds(document.academicGraph)),
            validateClaimAnchors(document)))

validateDocumentRelationships(document, authors) ==
    andThen(validateTree(document.root, authors),
            validateGraphAndReferences(document, authors \cup treeEntityIds(document.root)))

validateDocumentBody(document) ==
    IF ~ isValidSettingsShape(document.settings)
    THEN "settings-invalid"
    ELSE IF document.root = Junk \/ document.root[1].type # "manuscript"
    THEN "root-invalid"
    ELSE validateDocumentRelationships(document, authorEntityIds(document.metadata))

validateDocumentContent(document) ==
    IF ~ isValidMetadataShape(document.metadata)
    THEN "metadata-invalid"
    ELSE andThen(collectMetadataAuthorEntityIds(document.metadata), validateDocumentBody(document))

\* "ok", or why the document is not a canonical manuscript.
validateDocumentSnapshot(document) ==
    IF document = Junk
    THEN "document-not-object"
    ELSE andThen(validateDocumentHeader(document), validateDocumentContent(document))
=============================================================================
