------------------------------ MODULE MCEditing ------------------------------
(***************************************************************************)
(* One small manuscript, faulty variants of it, and the Transactions that  *)
(* clients send.  The reference's cslJson looks like a text node of the    *)
(* manuscript, so that node's canonical JSON occurs twice.                 *)
(***************************************************************************)
EXTENDS Editing

At(id) == [id |-> id, stamp |-> <<1, 0>>]
Node(id, type, attrs, children) ==
    At(id) @@ [type |-> type, attrs |-> attrs, children |-> children]
Leaf(id, type, attrs) == At(id) @@ [type |-> type, attrs |-> attrs]
TextNode(id, value) == At(id) @@ [type |-> "text", value |-> value, marks |-> <<>>]

Tree ==
    <<Node("m", "manuscript", <<>>, <<2>>),
      Node("b", "body", <<>>, <<3, 7>>),
      Node("p", "paragraph", [alignment |-> "start"], <<4, 5, 6>>),
      TextNode("t1", <<"a", "b">>),
      Leaf("c", "citation", [citationId |-> "e1", referenceId |-> "ref"]),
      TextNode("t2", <<"w">>),
      Node("f", "footnote", <<>>, <<8>>),
      Node("q", "paragraph", [alignment |-> "end"], <<9>>),
      Leaf("r", "footnoteReference", [footnoteNodeId |-> "f"])>>

Claim(id, primary) ==
    At(id) @@ [anchor |-> [document |-> [uri |-> "doc", revisionId |-> "r0"], primary |-> primary],
               textSnapshot |-> 1, textHash |-> Valid]

Draft ==
    FixedHeader @@
    [revisionId |-> "r0", documentHash |-> <<>>,
     metadata |-> [title |-> 1, authors |-> <<[name |-> 1, id |-> "e2"]>>, abstract |-> 0,
                   keywords |-> <<>>],
     settings |-> [language |-> Valid, citationStyle |-> 1, headingNumbering |-> TRUE,
                   bibliographyEnabled |-> FALSE],
     root |-> Tree,
     academicGraph |->
        [referenceSnapshots |->
            <<[id |-> "ref", cslJson |-> <<"{", "t2", "w", "}">>, metadataHash |-> Valid,
               capturedAt |-> Valid]>>,
         evidenceLinks |-> <<>>,
         claims |-> <<Claim("k1", TextPosition("t1", 1, "before")),
                      Claim("k2", NodeBoundary("p", 1, "after"))>>,
         claimEvidenceRelations |-> <<>>]]

Hashed(document) == [document EXCEPT !.documentHash = computeDocumentHash(document)]
WithNode(place, node) == [Draft EXCEPT !.root[place] = node]

FaultyDocuments ==
    {[Hashed(Draft) EXCEPT !.documentHash = <<"other">>],
     [Hashed(Draft) EXCEPT !.schemaVersion = "2"]} \cup
    {Hashed(document) : document \in
        {WithNode(6, TextNode("t1", <<"w">>)),
         WithNode(6, TextNode("t2", <<"w", "H">>)),
         WithNode(6, Leaf("t2", "citation", [citationId |-> "e1", referenceId |-> "ref"])),
         WithNode(5, Leaf("c", "citation", [citationId |-> "ref", referenceId |-> "ref"])),
         WithNode(5, Leaf("c", "citation", [citationId |-> "e1", referenceId |-> "lost"])),
         WithNode(9, Leaf("r", "footnoteReference", [footnoteNodeId |-> "p"])),
         WithNode(4, TextNode("t1", <<"H", "L">>)),
         [Draft EXCEPT !.academicGraph.claims[1].anchor.document.revisionId = "r9"],
         [Draft EXCEPT !.academicGraph.claims[2].id = "k1"]}}

MCDocuments == {Hashed(Draft)} \cup FaultyDocuments

-----------------------------------------------------------------------------
Replace(id, start, end, replacement) ==
    [type |-> "replace-text", textNodeId |-> id, startUtf16Offset |-> start,
     endUtf16Offset |-> end, replacement |-> replacement]

Edits ==
    {<<Replace("t1", 0, 0, <<"w">>)>>,
     <<Replace("t1", 1, 2, <<"H", "L">>)>>,
     <<Replace("t1", 1, 1, <<"a">>)>>,
     <<Replace("t2", 0, 1, <<>>)>>,
     <<Replace("t1", 0, 3, <<>>)>>,
     <<Replace("t1", 1, 2, <<"a", "b">>), Replace("t1", 2, 3, <<>>)>>,
     <<Replace("t2", 0, 0, <<"a">>), Replace("t1", 0, 1, <<"b">>)>>,
     <<Replace("t1", 1, 1, <<"a", "b", "w">>)>>,
     <<Replace("t1", 2, 1, <<>>)>>,
     <<Replace("lost", 0, 0, <<>>)>>,
     <<Replace("p", 0, 0, <<>>)>>,
     <<[type |-> "delete-node", targetNodeId |-> "p", expectedNodeHash |-> Valid]>>}

Walk == <<[kind |-> "record", bytes |-> 2, depth |-> 1, size |-> 7, sound |-> TRUE,
           plain |-> TRUE, cyclic |-> FALSE]>>

Request(base, id, operations) ==
    [json |-> [id |-> id, target |-> [uri |-> "doc", baseRevisionId |-> base],
               actor |-> [type |-> "human", id |-> "h"],
               operations |-> [i \in DOMAIN operations |-> operations[i] @@ [id |-> ToString(i)]],
               preconditions |-> <<>>, metadata |-> [source |-> "command"],
               createdAt |-> Valid],
     walk |-> Walk]

Preconditions ==
    {[kind |-> "node-exists", nodeId |-> "lost"],
     [kind |-> "node-hash", nodeId |-> "t2", expected |-> <<"{", "t2", "w1", "w2", "}">>],
     [kind |-> "entity-exists", entityId |-> "lost"],
     [kind |-> "schema-version", expected |-> "2"],
     [kind |-> "document-hash", expected |-> <<"other">>]}

\* One of every way in which a request is not a Transaction, or not one for this head.
Odd(base, id) ==
    LET request == Request(base, id, <<Replace("t1", 0, 0, <<"b">>)>>)
    IN  {[request EXCEPT !.json = Junk],
         [request EXCEPT !.json.operations = <<>>],
         [request EXCEPT !.json.operations = @ \o @],
         [request EXCEPT !.json.target.uri = "elsewhere"],
         [request EXCEPT !.json.target.baseRevisionId = "r0"],
         [request EXCEPT !.json.metadata = [source |-> "proposal-accept"]],
         [request EXCEPT !.json = @ @@ [extra |-> Valid]],
         [request EXCEPT !.walk[1].cyclic = TRUE],
         [request EXCEPT !.walk[1].bytes = MAX_TRANSACTION_CANONICAL_UTF8_BYTES + 1],
         [request EXCEPT !.walk[1].size = MAX_TRANSACTION_JSON_VALUES + 1]} \cup
        {[request EXCEPT !.json.preconditions = <<precondition>>] :
            precondition \in Preconditions}

MCRequests(base, id) == {Request(base, id, edit) : edit \in Edits} \cup Odd(base, id)

MCAlterations(commit) ==
    {commit,
     [commit EXCEPT !.revision.id = "r0"],
     [commit EXCEPT !.inverse.operations = <<>>],
     [commit EXCEPT !.snapshot.document = Hashed(
        [@ EXCEPT !.root[6].value = <<"b">>])]}

MCRevisionIds == <<"r1", "r2", "r3", "r4", "r5", "r6">>
MCTransactionIds == <<"x1", "x2", "x3", "x4">>
=============================================================================
