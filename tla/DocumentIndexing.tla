--------------------------- MODULE DocumentIndexing ---------------------------
(***************************************************************************)
(* The index of a document (model/node/document-index.ts): the nodes of a  *)
(* validated Snapshot by their Node ID, and the layers of replaced nodes   *)
(* that later Revisions put over it, the newest last.  A node's parent and *)
(* its place among its siblings never change, so they are indexed once.    *)
(* After MAX_NODE_REPLACEMENT_LAYERS the layers are folded into the base.  *)
(***************************************************************************)
EXTENDS ManuscriptRules

CONSTANTS
    MAX_NODE_REPLACEMENT_LAYERS,  \* 32 in the code
    NoNode                        \* what a Map returns for a missing key

\* The newest layer with the key wins.
getNode(index, id) ==
    LET holding == {i \in DOMAIN index.layers : id \in DOMAIN index.layers[i]}
    IN  IF holding # {}
        THEN index.layers[Max(holding)][id]
        ELSE IF id \in DOMAIN index.base THEN index.base[id] ELSE NoNode

\* The nodes from the root down to the node, or the empty sequence.
getNodePath(index, id) ==
    LET climb[n \in 0 .. Cardinality(DOMAIN index.base)] ==
            IF n = 0
            THEN <<id>>
            ELSE LET top == Head(climb[n - 1])
                 IN  IF top \in DOMAIN index.parents
                     THEN <<index.parents[top].parent>> \o climb[n - 1]
                     ELSE climb[n - 1]
        ids == climb[Cardinality(DOMAIN index.base)]
        nodes == [i \in DOMAIN ids |-> getNode(index, ids[i])]
    IN  IF NoNode \in Range(nodes) THEN <<>> ELSE nodes

\* The child index at which the i-th node of a path hangs under the node above it.
childIndexOf(index, id) == index.parents[id].child

hasEntity(index, id) == id \in index.entities

-----------------------------------------------------------------------------
(* Making an index, and deriving the next one.                             *)

parentPlace(tree, place) ==
    CHOOSE p \in DOMAIN tree : place \in Range(childrenOf(tree[p]))

parentLink(tree, place) ==
    LET parent == tree[parentPlace(tree, place)]
    IN  [parent |-> parent.id,
         child |-> CHOOSE i \in DOMAIN parent.children : parent.children[i] = place]

placeOf(tree, id) == CHOOSE p \in DOMAIN tree : tree[p].id = id

indexEntityIds(snapshot) ==
    authorEntityIds(snapshot.metadata) \cup academicEntityIds(snapshot.academicGraph)
        \cup treeEntityIds(snapshot.root)

createDocumentIndexFromValidatedSnapshot(snapshot) ==
    LET tree == snapshot.root
        ids == {tree[p].id : p \in DOMAIN tree}
    IN  [base |-> [id \in ids |-> tree[placeOf(tree, id)]],
         parents |-> [id \in ids \ {tree[1].id} |-> parentLink(tree, placeOf(tree, id))],
         entities |-> indexEntityIds(snapshot),
         layers |-> <<>>]

\* Same kind, same entity, same children: the index can be derived.
hasStableIndexShape(previous, replacement) ==
    /\ previous.type = replacement.type
    /\ declaredEntityIds(previous) = declaredEntityIds(replacement)
    /\ childrenOf(previous) = childrenOf(replacement)

CanReplace(index, nodes) ==
    \A i \in DOMAIN nodes :
        /\ getNode(index, nodes[i].id) # NoNode
        /\ hasStableIndexShape(getNode(index, nodes[i].id), nodes[i])

\* Of several replacements of one node, the last one counts.
replacementLayer(nodes) ==
    [id \in {nodes[i].id : i \in DOMAIN nodes} |->
        nodes[Max({i \in DOMAIN nodes : nodes[i].id = id})]]

withNodeReplacements(index, nodes) ==
    LET layered == [index EXCEPT !.layers = Append(@, replacementLayer(nodes))]
        ids == DOMAIN index.base \cup UNION {DOMAIN layer : layer \in Range(layered.layers)}
    IN  IF Len(layered.layers) >= MAX_NODE_REPLACEMENT_LAYERS
        THEN [index EXCEPT !.base = [id \in ids |-> getNode(layered, id)], !.layers = <<>>]
        ELSE layered
=============================================================================
