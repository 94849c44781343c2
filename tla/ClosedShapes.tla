----------------------------- MODULE ClosedShapes -----------------------------
(***************************************************************************)
(* The closed runtime shapes of a manuscript                               *)
(* (model/schema/manuscript-runtime-shapes.ts): which keys an object may   *)
(* have, which it must have, and what each value may be.                   *)
(*                                                                         *)
(* A JSON object is a record.  Junk is a value of the wrong JSON type, a   *)
(* string that is not well-formed Unicode, or an identifier, hash, URI,    *)
(* timestamp or pattern-checked string its parser refuses; Valid is the    *)
(* class of everything else.  A string of which only the length counts is  *)
(* that length.  A key whose value is undefined is an absent key.  "stamp" *)
(* is not data: it is the identity of the JavaScript object, which the     *)
(* code compares with ===.                                                 *)
(***************************************************************************)
EXTENDS Integers, Sequences, TLC, Utf16Text

CONSTANTS Junk, Valid

\* The class of everything else is no class that is written as the set of its values.
ASSUME ValidAssumption == Valid \notin {{"text"}, {"node-boundary"}}

Strings == Nat
PositiveIntegers == Nat \ {0}

Fits(value, class) == IF class = Valid THEN value # Junk ELSE value \in class

Keys(object) == DOMAIN object \ {"stamp"}

\* hasOnlyKeys with a validator per key.
Closed(object, required, optional) ==
    /\ object # Junk
    /\ DOMAIN required \subseteq DOMAIN object
    /\ Keys(object) \subseteq DOMAIN required \cup DOMAIN optional
    /\ \A key \in Keys(object) :
            Fits(object[key], IF key \in DOMAIN required THEN required[key] ELSE optional[key])

NoKeys == <<>>
isEmptyRecord(object) == Closed(object, NoKeys, NoKeys)

Has(object, key) == key \in DOMAIN object

\* A nested object that may be absent.
OptionalField(object, key, Shape(_)) == Has(object, key) => Shape(object[key])

\* Array.isArray.
IsArray(value, Item(_)) ==
    value # Junk /\ value \in Seq(Range(value)) /\ \A i \in DOMAIN value : Item(value[i])

-----------------------------------------------------------------------------
(* Marks and text.                                                         *)

MARK_TYPE_ORDER ==
    <<"bold", "italic", "underline", "strike", "code", "link", "subscript", "superscript">>
SIMPLE_MARK_TYPES == Range(MARK_TYPE_ORDER) \ {"link"}

isValidMark(mark) ==
    \/ Closed(mark, [type |-> SIMPLE_MARK_TYPES], NoKeys)
    \/ Closed(mark, [type |-> {"link"}, href |-> Valid], [title |-> 0 .. 2048])

rank(mark) == CHOOSE i \in DOMAIN MARK_TYPE_ORDER : MARK_TYPE_ORDER[i] = mark.type

\* Strictly increasing ranks, so no mark twice; never sub- and superscript.
hasCanonicalMarkOrder(marks) ==
    /\ \A i, j \in DOMAIN marks : i < j => rank(marks[i]) < rank(marks[j])
    /\ ~ {"subscript", "superscript"} \subseteq {marks[i].type : i \in DOMAIN marks}

isValidTextNodePayload(node) ==
    /\ Closed(node, [id |-> Valid, type |-> {"text"}, value |-> Valid, marks |-> Valid], NoKeys)
    /\ isString(node.value) /\ hasWellFormedUtf16(node.value)
    /\ IsArray(node.marks, isValidMark)
    /\ hasCanonicalMarkOrder(node.marks)

-----------------------------------------------------------------------------
(* The attributes of every other kind of node.                             *)

CITATION_LOCATOR_LABELS ==
    {"page", "chapter", "section", "paragraph", "figure", "table", "timestamp", "record"}
Levels == [level |-> 1 .. 6]
Labeled == [entityId |-> Valid, label |-> 0 .. 256]

Attributes ==
    [bibliographyPlaceholder |-> [required |-> [heading |-> 0 .. 1024], optional |-> NoKeys],
     citation |->
        [required |-> [citationId |-> Valid, referenceId |-> Valid],
         optional |-> [locator |-> [label : CITATION_LOCATOR_LABELS, value : 1 .. 1024],
                       prefix |-> Strings, suffix |-> Strings]],
     codeBlock |-> [required |-> NoKeys, optional |-> [language |-> 0 .. 128]],
     crossReference |->
        [required |-> [targetEntityId |-> Valid], optional |-> [label |-> 0 .. 1024]],
     displayEquation |-> [required |-> [source |-> Strings], optional |-> Labeled],
     figure |-> [required |-> NoKeys, optional |-> Labeled],
     figureAsset |->
        [required |-> [uri |-> Valid, contentHash |-> Valid, altText |-> 0 .. 10000],
         optional |-> NoKeys],
     footnote |-> [required |-> NoKeys, optional |-> [label |-> 0 .. 128]],
     footnoteReference |-> [required |-> [footnoteNodeId |-> Valid], optional |-> NoKeys],
     heading |-> [required |-> Levels, optional |-> NoKeys],
     inlineEquation |-> [required |-> [source |-> Strings], optional |-> NoKeys],
     list |-> [required |-> [ordered |-> BOOLEAN], optional |-> [start |-> PositiveIntegers]],
     paragraph |->
        [required |-> [alignment |-> {"start", "center", "end", "justify"}],
         optional |-> NoKeys],
     section |-> [required |-> Levels, optional |-> NoKeys],
     table |-> [required |-> NoKeys, optional |-> Labeled]]

CHILD_BEARING_NODE_TYPES ==
    {"blockQuote", "body", "codeBlock", "figure", "figureCaption", "footnote", "frontMatter",
     "heading", "list", "listItem", "manuscript", "paragraph", "section", "table",
     "tableCaption", "tableCell", "tableRow"}

isValidAttributes(type, attrs) ==
    /\ IF type \in DOMAIN Attributes
       THEN Closed(attrs, Attributes[type].required, Attributes[type].optional)
       ELSE isEmptyRecord(attrs)
    /\ type = "list" /\ Has(attrs, "start") => attrs.ordered

\* Children are looked at by the rules of the tree, not here.
isValidNodePayloadShape(node, type) ==
    IF type = "text"
    THEN isValidTextNodePayload(node)
    ELSE /\ {"attrs"} \subseteq DOMAIN node
         /\ Keys(node) \subseteq {"id", "type", "attrs"} \cup
                (IF type \in CHILD_BEARING_NODE_TYPES THEN {"children"} ELSE {})
         /\ isValidAttributes(type, node.attrs)

-----------------------------------------------------------------------------
(* Metadata, settings, actors.                                             *)

\* An array of strings without repetition.
isUniqueBoundedStringArray(items, class) ==
    /\ IsArray(items, LAMBDA item : item \in class)
    /\ IsInjective(items)

isValidAuthor(author) ==
    /\ Closed(author,
              [name |-> 1 .. 1024],
              [id |-> Valid, given |-> 0 .. 512, family |-> 0 .. 512, orcid |-> Valid,
               affiliations |-> Valid])
    /\ OptionalField(author, "affiliations",
                     LAMBDA items : isUniqueBoundedStringArray(items, 1 .. 1024))

isValidMetadataShape(metadata) ==
    /\ Closed(metadata,
              [title |-> 0 .. 2048, authors |-> Valid, abstract |-> 0 .. 100000,
               keywords |-> Valid],
              NoKeys)
    /\ IsArray(metadata.authors, isValidAuthor) /\ Len(metadata.authors) <= 1024
    /\ isUniqueBoundedStringArray(metadata.keywords, 1 .. 512) /\ Len(metadata.keywords) <= 1024

isValidSettingsShape(settings) ==
    Closed(settings,
           [language |-> Valid, citationStyle |-> 1 .. 256, headingNumbering |-> BOOLEAN,
            bibliographyEnabled |-> BOOLEAN],
           NoKeys)

SYSTEM_ROLES == {"importer", "migration", "validator", "recovery"}

isValidActorRef(actor) ==
    \/ Closed(actor, [type |-> {"human", "product-controller"}, id |-> Valid], NoKeys)
    \/ Closed(actor, [type |-> {"comet-agent"}, id |-> Valid, workflowId |-> 1 .. 128],
                     [modelRef |-> 1 .. 256])
    \/ Closed(actor, [type |-> {"system"}, id |-> Valid, role |-> SYSTEM_ROLES], NoKeys)

-----------------------------------------------------------------------------
(* The Academic Graph.                                                     *)

isValidReferenceSnapshotShape(entity) ==
    Closed(entity,
           [id |-> Valid, cslJson |-> Valid, metadataHash |-> Valid, capturedAt |-> Valid],
           [externalUri |-> Valid, sourceProvider |-> 0 .. 256])

isValidEvidenceLocator(locator) ==
    \/ Closed(locator, [kind |-> {"page"}, page |-> PositiveIntegers], [pageLabel |-> 0 .. 128])
    \/ Closed(locator, [kind |-> {"section"}, section |-> 1 .. 1024], NoKeys)
    \/ Closed(locator, [kind |-> {"text-quote"}, exact |-> PositiveIntegers],
                       [prefix |-> Strings, suffix |-> Strings])
    \/ /\ Closed(locator, [kind |-> {"time"}, startSeconds |-> Nat], [endSeconds |-> Nat])
       /\ Has(locator, "endSeconds") => locator.endSeconds >= locator.startSeconds
    \/ Closed(locator, [kind |-> {"record"}, recordKey |-> 1 .. 1024], NoKeys)

VERIFICATION_STATUSES == {"verified", "provisional", "metadata-only", "stale", "rejected"}

isValidEvidenceLinkShape(entity) ==
    /\ Closed(entity,
              [id |-> Valid, uri |-> Valid, sourceUri |-> Valid, sourceContentHash |-> Valid,
               locator |-> Valid, verificationStatus |-> VERIFICATION_STATUSES],
              [excerpt |-> Strings, excerptHash |-> Valid, verifiedBy |-> Valid,
               verifiedAt |-> Valid])
    /\ isValidEvidenceLocator(entity.locator)
    /\ OptionalField(entity, "verifiedBy", isValidActorRef)

isValidSemanticPosition(position) ==
    \/ Closed(position,
              [kind |-> {"text"}, node |-> Valid, offset |-> Nat, affinity |-> {"before", "after"}],
              NoKeys)
    \/ Closed(position,
              [kind |-> {"node-boundary"}, parent |-> Valid, child |-> Nat,
               affinity |-> {"before", "after"}],
              NoKeys)

isValidTextQuote(quote) ==
    Closed(quote, [exact |-> Strings],
                  [prefix |-> Strings, suffix |-> Strings, normalizedHash |-> Valid])

isValidPersistentAnchor(anchor) ==
    /\ Closed(anchor, [document |-> Valid, primary |-> Valid],
                      [targetNodeId |-> Valid, textQuote |-> Valid, pathHint |-> Valid])
    /\ Closed(anchor.document, [uri |-> Valid, revisionId |-> Valid], NoKeys)
    /\ isValidSemanticPosition(anchor.primary)
    /\ OptionalField(anchor, "textQuote", isValidTextQuote)
    /\ OptionalField(anchor, "pathHint", LAMBDA ids : IsArray(ids, LAMBDA id : id # Junk))

isValidClaimShape(entity) ==
    /\ Closed(entity,
              [id |-> Valid, anchor |-> Valid, textSnapshot |-> Strings, textHash |-> Valid],
              NoKeys)
    /\ isValidPersistentAnchor(entity.anchor)

CLAIM_EVIDENCE_RELATIONS ==
    {"supports", "partially-supports", "contradicts", "context-only", "unclear"}

isValidClaimEvidenceRelationShape(relation) ==
    /\ Closed(relation,
              [claimId |-> Valid, evidenceId |-> Valid, relation |-> CLAIM_EVIDENCE_RELATIONS,
               assessedBy |-> Valid],
              [confidence |-> Valid])
    /\ isValidActorRef(relation.assessedBy)

isValidAcademicEntityShape(entity) ==
    \/ isValidReferenceSnapshotShape(entity)
    \/ isValidEvidenceLinkShape(entity)
    \/ isValidClaimShape(entity)
=============================================================================
