---------------------------- MODULE MCProposing ----------------------------
(***************************************************************************)
(* One document with two revisions, three kinds of sessions on it, batches *)
(* that pass and fail each check, seeds at the ends of the random field,   *)
(* and diffs with and without sound dependencies.                          *)
(***************************************************************************)
EXTENDS Proposing

MCDocuments == [doc |-> {"r1", "r2"}]
MCVerifiedEvidence(uri, revisionId) == IF revisionId = "r2" THEN {"e1"} ELSE {}
Doc(revisionId) == [uri |-> "doc", revisionId |-> revisionId]

MCCapabilities == {"document.content.read", "proposal.create", "proposal.edit",
                   "citation.propose", "evidence.propose"}
MCKinds == {"insert-block", "replace-block-content", "move-block", "delete-block",
            "insert-citation", "replace-citation", "create-claim", "link-claim-evidence",
            "create-evidence-link"}
MCLimits == [maxOperations |-> 2, maxDeletedNodes |-> 1, maxMovedNodes |-> 1]

MCHandshakes ==
    {[operation |-> "handshake", requestedContractVersion |-> version,
      requiredCapabilities |-> {}, requiredSemanticEdits |-> kinds,
      requiredTransportFeatures |-> {"in-process"}] :
        version \in {"preview.1"}, kinds \in {{"move-block"}, {"update-metadata"}}}

Opening(target, capabilities, nodes, delete, move) ==
    [operation |-> "open", contractVersion |-> "preview.1", target |-> target,
     requestedCapabilities |-> capabilities,
     scope |-> [allowedNodeIds |-> nodes, allowedSectionIds |-> {}],
     constraints |-> [maxOperations |-> {}, maxDeletedNodes |-> {1}, maxMovedNodes |-> {},
                      requireEvidenceForCitation |-> TRUE, requireVerifiedEvidence |-> TRUE,
                      allowMetadataOnlyCitation |-> FALSE, allowDelete |-> delete,
                      allowStructureMove |-> move]]

MCOpenings ==
    {Opening(Doc("r2"), MCCapabilities, {}, FALSE, FALSE),
     Opening(Doc("r1"), {"proposal.create", "proposal.edit"}, {{"p", "s"}}, TRUE, TRUE),
     Opening(Doc("r9"), {"proposal.create"}, {}, FALSE, FALSE)}

Place(parent, siblings) == [parentNodeId |-> parent, siblingNodeId |-> siblings]
Move(node, parent) == [kind |-> "move-block", targetNodeId |-> node, target |-> Place(parent, {"p"})]
Delete(node) == [kind |-> "delete-block", targetNodeId |-> node]
Cite(node, evidence) == [kind |-> "insert-citation", position |-> node, evidenceIds |-> evidence]
ClaimAt(revisionId, node) ==
    [kind |-> "create-claim",
     anchor |-> [document |-> Doc(revisionId), primary |-> node, targetNodeId |-> {}, pathHint |-> {"p"}]]

MCBatches ==
    {<<Cite("q", {"e1"})>>, <<ClaimAt("r2", "p")>>, <<Move("p", "s")>>,
     <<Move("p", "q")>>, <<Cite("p", {"e2"})>>, <<Delete("p")>>, <<Delete("p"), Delete("s")>>}

MCClocks == {255, 256}
\* One step before a carry into the variant byte; and a seed that is too short.
Random(variant, last) == [i \in 0 .. 9 |-> CASE i = 2 -> variant [] i = 9 -> last [] OTHER -> 255]
MCRandomFields == {Random(62, 255), [i \in 0 .. 8 |-> 0]}

Group(id, dependsOn) == [id |-> id, dependsOn |-> dependsOn]
MCDiffGroups ==
    {<<Group("a", <<>>), Group("b", <<"a">>), Group("c", <<"b">>)>>,
     <<Group("a", <<"b">>), Group("b", <<"a">>), Group("c", <<>>)>>,
     <<Group("a", <<"c", "b">>), Group("b", <<"lost">>), Group("c", <<>>)>>,
     <<Group("a", <<"c", "b">>), Group("b", <<"c">>), Group("c", <<>>)>>}
=============================================================================
