------------------------------- MODULE Writer -------------------------------
(***************************************************************************)
(* XmlWriter (src/src/writer.rs): the streaming serializer.  A call adds   *)
(* to a buffer; when the buffer has reached its threshold at the end of a  *)
(* call it is handed to the sink, which may refuse it.  A start tag stays  *)
(* open until the next call that is neither an attribute nor a namespace   *)
(* declaration, and a namespace declaration that changes nothing is not    *)
(* written.                                                                *)
(*                                                                         *)
(* What is written is a sequence of pieces: a delimiter ("<", "</", "<!--",*)
(* "=\""), a name, a reference, or one character.  The delimiters that a   *)
(* character of a text can be mistaken for ("-->", "]]>", "?>", ">") are   *)
(* written as the characters they consist of.  A character is itself, or   *)
(* one member of a class: "x" a letter, "SOH" an illegal control, "DEL"    *)
(* U+007F, "NEL" a C1 control, "LS" U+2028, "wide" a character some output *)
(* charsets have no code for.                                              *)
(*                                                                         *)
(* The writer is one record, w, and a call is an operator from writer to   *)
(* writer; the actions at the end add what the sink does with the buffer.  *)
(***************************************************************************)
EXTENDS Naturals, Sequences, SequencesExt

CONSTANTS
    Threshold,      \* send_threshold, in pieces
    Bom,            \* the charsets that begin with a byte order mark
    Unmappable,     \* for each charset, the characters it has no code for
    Piece,          \* the names, URIs, literals and characters of the calls
    Outcomes        \* what the sink may do with a buffer

VARIABLES
    w,              \* the writer
    result,         \* what the last call returned: "ok", "InvalidInput", "sink"
    declared        \* history: for each open element, and the document, the
                    \* namespace declarations written in its start tag (of two
                    \* of one prefix, the later)

vars == <<w, result, declared>>

ASSUME ConstantsAssumption ==
    /\ Threshold \in Nat \ {0}
    /\ Outcomes \subseteq {"taken", "refused", "cut"}

None == ""
XML_NAMESPACE_URI == "xml namespace"
NonAscii == {"NEL", "LS", "wide"}

\* The writer of XmlWriter::with_capacity after the configuration setters.
NewWriter(charset, xml11, standalone, indent) ==
    [ charset |-> charset, xml11 |-> xml11, standalone |-> standalone,
      indent |-> indent, pendingBom |-> charset \in Bom,
      buffer |-> <<>>, sink |-> <<>>,
      elementStack |-> <<>>, namespaceStack |-> << <<>> >>,
      pendingStartTag |-> FALSE, hasContent |-> FALSE,
      hasNestedElements |-> FALSE, atDocumentStart |-> TRUE,
      inCdata |-> FALSE, inDtd |-> FALSE,
      dtdInternalSubsetOpen |-> FALSE, inExternalSubset |-> FALSE ]

-----------------------------------------------------------------------------
(* Output.                                                                 *)

Buffered(v, pieces) == [v EXCEPT !.buffer = @ \o pieces]

\* Mutant: the mark stays pending.
EmitBomIfNeeded_Kept(v) ==
    IF v.pendingBom THEN [v EXCEPT !.buffer = Append(@, "BOM")] ELSE v

EmitBomIfNeeded(v) ==
    IF v.pendingBom
    THEN [v EXCEPT !.pendingBom = FALSE, !.buffer = Append(@, "BOM")]
    ELSE v

\* The codes of the characters of s: one the charset has no code for yields none.
Encoded(v, s) ==
    FlattenSeq([i \in 1 .. Len(s) |->
        IF s[i] \in Unmappable[v.charset] THEN <<>> ELSE <<s[i]>>])

WriteRawStr(v, s) == Buffered(EmitBomIfNeeded(v), Encoded(v, s))

CharacterReference(c) == "&#" \o c \o ";"
WriteCharacterReference(v, c) == WriteRawStr(v, <<CharacterReference(c)>>)

\* An ASCII character goes to the buffer as it is, without the test for a
\* pending byte order mark.
WriteEncodedCodePoint(v, c) ==
    IF c \in Unmappable[v.charset]
    THEN WriteCharacterReference(v, c)
    ELSE Buffered(v, <<c>>)

NamedReference ==
    [c \in {"<", ">", "&", "\"", "%"} |->
        CASE c = "<"  -> "&lt;"
          [] c = ">"  -> "&gt;"
          [] c = "&"  -> "&amp;"
          [] c = "\"" -> "&quot;"
          [] c = "%"  -> "&#37;"]

\* The text s, of which the characters in named are written by their named
\* references and those in referenced by character references.
WriteEscaped(v, s, named, referenced) ==
    LET One(u, c) ==
            IF c \in named THEN WriteRawStr(u, <<NamedReference[c]>>)
            ELSE IF c \in referenced THEN WriteCharacterReference(u, c)
            ELSE WriteEncodedCodePoint(u, c)
        written[i \in 0 .. Len(s)] ==
            IF i = 0 THEN v ELSE One(written[i - 1], s[i])
    IN  written[Len(s)]

\* U+007F is ASCII, so the branch for ASCII takes it before the one for the
\* controls of XML 1.1.
WriteEscapedCharacters(v, s) ==
    WriteEscaped(v, s, {"<", ">", "&"},
        {"SOH"} \cup IF v.xml11 THEN {"\r", "NEL", "LS"} ELSE {})

WriteEscapedAttributeValue(v, s) ==
    WriteEscaped(v, s, {"<", ">", "&", "\""},
        {"SOH", "\t", "\n", "\r"} \cup IF v.xml11 THEN {"NEL", "LS"} ELSE {})

WriteEscapedEntityValue(v, s) ==
    WriteEscaped(v, s, {"&", "%", "\""}, {"SOH"})

WriteEscapedNamespaceUri(v, s) ==
    WriteEscaped(v, s, {"<", ">", "&", "\""},
        {"SOH"} \cup IF v.xml11 THEN NonAscii ELSE {})

WriteEscapedId(v, s) ==
    WriteRawStr(v, FlattenSeq(
        [i \in 1 .. Len(s) |-> IF s[i] = "\"" THEN <<"&quot;">> ELSE <<s[i]>>]))

\* Mutant: the pairs of hyphens are taken two by two.
WriteCommentContent_Pairs(v, s) ==
    WriteRawStr(v, FlattenSeq(
        [i \in 1 .. Len(s) |->
            IF s[i] = "-" /\ (i = Len(s) \/ (s[i + 1] = "-" /\ (i = 1 \/ s[i - 1] # "-")))
            THEN <<s[i], " ">> ELSE <<s[i]>>]))

\* A hyphen before a hyphen, or at the end, is followed by a space.
WriteCommentContent(v, s) ==
    WriteRawStr(v, FlattenSeq(
        [i \in 1 .. Len(s) |->
            IF s[i] = "-" /\ (i = Len(s) \/ s[i + 1] = "-")
            THEN <<s[i], " ">> ELSE <<s[i]>>]))

WritePiData(v, s) ==
    WriteRawStr(v, FlattenSeq(
        [i \in 1 .. Len(s) |->
            IF s[i] = "?" /\ i < Len(s) /\ s[i + 1] = ">"
            THEN <<s[i], " ">> ELSE <<s[i]>>]))

\* What a CDATA section must not contain, within the text of one call.
ValidateCdataContent(v, s) ==
    /\ \A i \in 1 .. Len(s) - 2 : SubSeq(s, i, i + 2) # <<"]", "]", ">">>
    /\ \A i \in 1 .. Len(s) :
         s[i] \notin {"SOH"} \cup IF v.xml11 THEN {"DEL", "NEL"} ELSE {}

ClosePendingStartTag(v, markContent) ==
    LET closed == IF v.pendingStartTag
                  THEN [WriteRawStr(v, <<">">>) EXCEPT !.pendingStartTag = FALSE]
                  ELSE v
    IN  [closed EXCEPT !.hasContent = @ \/ markContent]

WriteIndent(v) ==
    Buffered(v, <<"\n">> \o [i \in 1 .. Len(v.elementStack) |-> " "])

\* The line break and indentation before a child element, a comment or a PI.
Indented(v) ==
    [(IF v.indent /\ ~v.atDocumentStart THEN WriteIndent(v) ELSE v)
        EXCEPT !.atDocumentStart = FALSE]

-----------------------------------------------------------------------------
(* Namespace lookups.                                                      *)

\* The prefixes get_prefix may return, none if the URI is not bound: the
\* innermost scope that binds some prefix to it decides, by the order of its
\* hash map, and a prefix bound again further in is returned all the same.
GetPrefix(v, uri) ==
    LET scopes == v.namespaceStack
        bound(i) == {p \in DOMAIN scopes[i] : scopes[i][p] = uri}
        holding == {i \in DOMAIN scopes : bound(i) # {}}
    IN  IF uri = None THEN {}
        ELSE IF uri = XML_NAMESPACE_URI THEN {"xml"}
        ELSE UNION {bound(i) : i \in {j \in holding : \A k \in holding : k <= j}}

\* The URI the innermost of the first k scopes that binds a prefix gives it,
\* "unbound" if none of them does.
Binding(scopes, k, prefix) ==
    LET binding == {i \in 1 .. k : prefix \in DOMAIN scopes[i]}
    IN  IF binding = {} THEN "unbound"
        ELSE scopes[CHOOSE i \in binding : \A j \in binding : j <= i][prefix]

GetNamespaceUriForPrefix(v, prefix) ==
    Binding(v.namespaceStack, Len(v.namespaceStack), prefix)

GetNamespaceUri(v, prefix) ==
    IF prefix = "xml" THEN XML_NAMESPACE_URI
    ELSE GetNamespaceUriForPrefix(v, prefix)

QName(prefix, local) ==
    IF prefix = None THEN <<local>> ELSE <<prefix, ":", local>>

\* The qualified names the writer may choose for a name in a namespace.
ResolvedNames(v, uri, local) ==
    LET found == GetPrefix(v, uri)
    IN  {QName(p, local) : p \in IF found = {} THEN {None} ELSE found}

-----------------------------------------------------------------------------
(* Elements, attributes and namespace declarations.                        *)

\* Mutant: the new element takes over has_nested_elements.
OpenStartTag_NestedKept(v, qName) ==
    LET opened == WriteRawStr(Indented(ClosePendingStartTag(v, FALSE)),
                              <<"<">> \o qName)
    IN  [opened EXCEPT !.namespaceStack = Append(@, <<>>),
                       !.elementStack = Append(@, qName),
                       !.pendingStartTag = TRUE,
                       !.hasContent = FALSE]

OpenStartTag(v, qName) ==
    LET opened == WriteRawStr(Indented(ClosePendingStartTag(v, FALSE)),
                              <<"<">> \o qName)
    IN  [opened EXCEPT !.namespaceStack = Append(@, <<>>),
                       !.elementStack = Append(@, qName),
                       !.pendingStartTag = TRUE,
                       !.hasContent = FALSE,
                       !.hasNestedElements = FALSE]

\* Mutant: an empty element leaves its scope behind.
WriteEndElement_ScopeKept(v) ==
    LET qName == v.elementStack[Len(v.elementStack)]
        popped == [v EXCEPT !.elementStack = Front(@)]
        closed == [ClosePendingStartTag(popped, FALSE) EXCEPT !.namespaceStack = Front(@)]
        placed == IF v.indent /\ v.hasNestedElements THEN WriteIndent(closed) ELSE closed
        ended == IF v.pendingStartTag /\ ~v.hasContent
                 THEN [WriteRawStr(popped, <<"/>">>) EXCEPT !.pendingStartTag = FALSE]
                 ELSE WriteRawStr(placed, <<"</">> \o qName \o <<">">>)
    IN  [ended EXCEPT !.hasContent = TRUE, !.hasNestedElements = TRUE]

WriteEndElement(v) ==
    LET qName == v.elementStack[Len(v.elementStack)]
        popped == [v EXCEPT !.elementStack = Front(@), !.namespaceStack = Front(@)]
        closed == ClosePendingStartTag(popped, FALSE)
        placed == IF v.indent /\ v.hasNestedElements THEN WriteIndent(closed) ELSE closed
        ended == IF v.pendingStartTag /\ ~v.hasContent
                 THEN [WriteRawStr(popped, <<"/>">>) EXCEPT !.pendingStartTag = FALSE]
                 ELSE WriteRawStr(placed, <<"</">> \o qName \o <<">">>)
    IN  [ended EXCEPT !.hasContent = TRUE, !.hasNestedElements = TRUE]

WriteAttributeOutput(v, qName, value) ==
    WriteRawStr(
        WriteEscapedAttributeValue(
            WriteRawStr(v, <<" ">> \o qName \o <<"=\"">>), value),
        <<"\"">>)

\* Mutant: any scope that has the binding makes it redundant.
Redundant_Shadowed(v, prefix, uri) ==
    \/ \E i \in DOMAIN v.namespaceStack :
         prefix \in DOMAIN v.namespaceStack[i] /\ v.namespaceStack[i][prefix] = uri
    \/ prefix = None /\ uri = None /\ GetNamespaceUriForPrefix(v, prefix) = "unbound"

\* A declaration that repeats the binding in force is not written.
Redundant(v, prefix, uri) ==
    LET bound == GetNamespaceUriForPrefix(v, prefix)
    IN  bound = uri \/ (prefix = None /\ uri = None /\ bound = "unbound")

\* A URI is one piece: a name, or one character that may need a reference.
WriteNamespaceDeclaration(v, prefix, uri) ==
    IF Redundant(v, prefix, uri) THEN v
    ELSE WriteRawStr(
            WriteEscapedNamespaceUri(
                WriteRawStr(v, <<" ">> \o
                    (IF prefix = None THEN <<"xmlns">> ELSE <<"xmlns", ":", prefix>>)
                    \o <<"=\"">>),
                IF uri = None THEN <<>> ELSE <<uri>>),
            <<"\"">>)

\* A binding enters the innermost scope.
Bind(scopes, prefix, uri) ==
    LET top == scopes[Len(scopes)]
    IN  [scopes EXCEPT ![Len(scopes)] =
            [p \in DOMAIN top \cup {prefix} |-> IF p = prefix THEN uri ELSE top[p]]]

\* write_namespace and write_default_namespace: the scope of the open element
\* learns the binding whether or not it was written.
WriteNamespace(v, prefix, uri) ==
    LET written == WriteNamespaceDeclaration(v, prefix, uri)
    IN  [written EXCEPT !.namespaceStack = Bind(@, prefix, uri)]

-----------------------------------------------------------------------------
(* Content.                                                                *)

WriteCharacters(v, text) ==
    LET closed == ClosePendingStartTag(v, TRUE)
    IN  IF v.inCdata THEN WriteRawStr(closed, text)
        ELSE WriteEscapedCharacters(closed, text)

WriteStartCdata(v) ==
    WriteRawStr([ClosePendingStartTag(v, TRUE) EXCEPT !.inCdata = TRUE],
                <<"<![CDATA[">>)

WriteEndCdata(v) ==
    WriteRawStr([v EXCEPT !.inCdata = FALSE], <<"]", "]", ">">>)

ShouldWriteDeclaration(v) == v.inDtd /\ (v.standalone \/ ~v.inExternalSubset)

OpenInternalSubsetIfNeeded(v) ==
    IF v.dtdInternalSubsetOpen THEN v
    ELSE [WriteRawStr(v, <<" ", "[", "\n">>) EXCEPT !.dtdInternalSubsetOpen = TRUE]

WriteComment(v, text) ==
    LET closed == ClosePendingStartTag(v, TRUE)
        placed == IF v.inDtd
                  THEN [OpenInternalSubsetIfNeeded(closed) EXCEPT !.atDocumentStart = FALSE]
                  ELSE Indented(closed)
        written == WriteRawStr(
                      WriteCommentContent(WriteRawStr(placed, <<"<!--">>), text),
                      <<"-", "-", ">">>)
    IN  IF v.inDtd /\ ~ShouldWriteDeclaration(v) THEN v
        ELSE IF v.inDtd THEN WriteRawStr(written, <<"\n">>)
        ELSE written

\* Nothing here asks whether a document type declaration is open.
WriteProcessingInstruction(v, target, data) ==
    LET begun == WriteRawStr(Indented(ClosePendingStartTag(v, TRUE)), <<"<?", target>>)
        filled == IF data = <<>> THEN begun
                  ELSE WritePiData(WriteRawStr(begun, <<" ">>), data)
    IN  WriteRawStr(filled, <<"?", ">">>)

WriteEntityRef(v, name) ==
    WriteRawStr(ClosePendingStartTag(v, TRUE), <<"&", name, ";">>)

WriteRaw(v, text) == WriteRawStr(ClosePendingStartTag(v, TRUE), text)

-----------------------------------------------------------------------------
(* The document type declaration.  An identifier that is absent is None.   *)

Quoted(v, id) ==
    WriteRawStr(WriteEscapedId(WriteRawStr(v, <<"\"">>), id), <<"\"">>)

\* PUBLIC needs a system literal after it unless a notation is declared; a
\* system identifier that is there is not empty.
WriteExternalId(v, public, system, needsSystem) ==
    IF public # <<>>
    THEN LET p == Quoted(WriteRawStr(v, <<" ", "PUBLIC", " ">>), public)
         IN  IF system = <<>> /\ ~needsSystem THEN p
             ELSE Quoted(WriteRawStr(p, <<" ">>), system)
    ELSE IF system # <<>>
    THEN Quoted(WriteRawStr(v, <<" ", "SYSTEM", " ">>), system)
    ELSE v

WriteStartDtd(v, name, public, system) ==
    LET begun == WriteRawStr([v EXCEPT !.inDtd = TRUE,
                                       !.dtdInternalSubsetOpen = FALSE,
                                       !.inExternalSubset = FALSE],
                             <<"<!DOCTYPE", " ", name>>)
    IN  IF v.standalone THEN begun ELSE WriteExternalId(begun, public, system, TRUE)

WriteEndDtd(v) ==
    LET closed == WriteRawStr(v, IF v.dtdInternalSubsetOpen THEN <<"]", ">">> ELSE <<">">>)
        placed == IF v.indent THEN WriteRawStr(closed, <<"\n">>) ELSE closed
    IN  [placed EXCEPT !.inDtd = FALSE,
                       !.dtdInternalSubsetOpen = FALSE,
                       !.inExternalSubset = FALSE]

\* Body writes what stands between the keyword and the ">".
WriteDeclaration(v, keyword, name, Body(_)) ==
    IF ~ShouldWriteDeclaration(v) THEN v
    ELSE WriteRawStr(
            Body(WriteRawStr(OpenInternalSubsetIfNeeded(v), <<" ", keyword, " ">> \o name)),
            <<">", "\n">>)

WriteElementDecl(v, name, model) ==
    WriteDeclaration(v, "<!ELEMENT", <<name>>, LAMBDA u : WriteRawStr(u, <<" ", model>>))

\* No default value is FALSE in hasValue; mode is None or the keyword.
WriteAttributeDecl(v, eName, aName, mode, hasValue, value) ==
    LET Mode(u) == IF mode = None THEN u ELSE WriteRawStr(u, <<" ", mode>>)
        Value(u) == IF hasValue
                    THEN WriteRawStr(WriteEscapedAttributeValue(
                                         WriteRawStr(u, <<" ", "\"">>), value),
                                     <<"\"">>)
                    ELSE u
    IN  WriteDeclaration(v, "<!ATTLIST", <<eName, " ", aName, " ", "CDATA">>,
                         LAMBDA u : Value(Mode(u)))

EntityName(name, parameter) == IF parameter THEN <<"%", " ", name>> ELSE <<name>>

WriteInternalEntityDecl(v, name, parameter, value) ==
    WriteDeclaration(v, "<!ENTITY", EntityName(name, parameter), LAMBDA u :
        WriteRawStr(WriteEscapedEntityValue(WriteRawStr(u, <<" ", "\"">>), value), <<"\"">>))

WriteExternalEntityDecl(v, name, parameter, public, system) ==
    WriteDeclaration(v, "<!ENTITY", EntityName(name, parameter), LAMBDA u :
        WriteExternalId(u, public, system, TRUE))

WriteNotationDecl(v, name, public, system) ==
    WriteDeclaration(v, "<!NOTATION", <<name>>, LAMBDA u :
        WriteExternalId(u, public, system, FALSE))

WriteUnparsedEntityDecl(v, name, public, system, notation) ==
    WriteDeclaration(v, "<!ENTITY", <<name>>, LAMBDA u :
        WriteRawStr(WriteExternalId(u, public, system, TRUE),
                    <<" ", "NDATA", " ", notation>>))

-----------------------------------------------------------------------------
(* The sink, and the actions.                                              *)

\* Mutant: the buffer is cleared although the sink has not taken it.
Send_Cleared(v, outcome) ==
    IF outcome = "taken" THEN [v EXCEPT !.sink = @ \o v.buffer, !.buffer = <<>>]
    ELSE [v EXCEPT !.buffer = <<>>]

\* write_all: the whole buffer is taken, or the call fails after none or some
\* of it has gone; on failure the buffer stays as it was.
Send(v, outcome) ==
    CASE outcome = "taken" \/ v.buffer = <<>> ->
            [v EXCEPT !.sink = @ \o v.buffer, !.buffer = <<>>]
      [] outcome = "refused" /\ v.buffer # <<>> -> v
      [] outcome = "cut" /\ v.buffer # <<>> ->
            [v EXCEPT !.sink = @ \o Front(v.buffer)]

\* send_if_needed, the last step of the calls.
Finish(v) ==
    IF Len(v.buffer) < Threshold
    THEN w' = v /\ result' = "ok"
    ELSE \E outcome \in Outcomes :
           /\ w' = Send(v, outcome)
           /\ result' = IF outcome = "taken" THEN "ok" ELSE "sink"

InvalidInput == UNCHANGED w /\ result' = "InvalidInput"

\* A call that must be made while a start tag is open.
InStartTag(v) == IF w.pendingStartTag THEN Finish(v) ELSE InvalidInput

\* A call that declares no namespace and leaves the open elements alone.
Call(step) == step /\ UNCHANGED declared

NoBindings == <<>>

StartElement(qName) ==
    Finish(OpenStartTag(w, qName)) /\ declared' = Append(declared, NoBindings)

EndElement ==
    IF w.elementStack = <<>> THEN Call(InvalidInput)
    ELSE Finish(WriteEndElement(w)) /\ declared' = Front(declared)

Attribute(qName, value) == Call(InStartTag(WriteAttributeOutput(w, qName, value)))

\* A declaration stays in the buffer: write_namespace does not send.
Namespace(prefix, uri) ==
    IF w.pendingStartTag
    THEN /\ w' = WriteNamespace(w, prefix, uri) /\ result' = "ok"
         /\ declared' = IF Redundant(w, prefix, uri) THEN declared
                        ELSE Bind(declared, prefix, uri)
    ELSE Call(InvalidInput)

\* In a CDATA section the start tag is closed before the text is refused.
Characters(text) == Call(
    IF text = <<>> THEN UNCHANGED w /\ result' = "ok"
    ELSE IF w.inCdata /\ ~ValidateCdataContent(w, text)
    THEN w' = ClosePendingStartTag(w, TRUE) /\ result' = "InvalidInput"
    ELSE Finish(WriteCharacters(w, text)))

\* flush and close: an open start tag is closed, the buffer is sent.
Flush ==
    LET closed == ClosePendingStartTag(w, FALSE)
    IN  /\ \E outcome \in Outcomes :
              /\ w' = Send(closed, outcome)
              /\ result' = IF outcome = "taken" \/ closed.buffer = <<>> THEN "ok" ELSE "sink"
        /\ UNCHANGED declared

StartExternalSubset == Call(w' = [w EXCEPT !.inExternalSubset = TRUE] /\ result' = "ok")
EndExternalSubset == Call(w' = [w EXCEPT !.inExternalSubset = FALSE] /\ result' = "ok")

-----------------------------------------------------------------------------
(* A program: any calls in any order, but text stands in elements.         *)

Init ==
    /\ \E charset \in DOMAIN Unmappable, xml11, standalone, indent \in BOOLEAN :
         w = NewWriter(charset, xml11, standalone, indent)
    /\ result = "ok"
    /\ declared = << NoBindings >>

InElement == w.elementStack # <<>>

Element ==
    \/ \E qName \in Seq(Piece) : StartElement(qName)
    \/ \E qName, value \in Seq(Piece) : Attribute(qName, value)
    \/ \E prefix, uri \in Piece \cup {None} : Namespace(prefix, uri)
    \/ EndElement

Content ==
    \/ InElement /\ \E text \in Seq(Piece) : Characters(text)
    \/ Call(Finish(WriteStartCdata(w)))
    \/ Call(Finish(WriteEndCdata(w)))
    \/ \E text \in Seq(Piece) : Call(Finish(WriteComment(w, text)))
    \/ \E target \in Piece, data \in Seq(Piece) :
         Call(Finish(WriteProcessingInstruction(w, target, data)))
    \/ \E name \in Piece : Call(Finish(WriteEntityRef(w, name)))
    \/ \E text \in Seq(Piece) : Call(Finish(WriteRaw(w, text)))

Dtd ==
    \/ \E name \in Piece, public, system \in Seq(Piece) :
         \/ Call(Finish(WriteStartDtd(w, name, public, system)))
         \/ Call(Finish(WriteNotationDecl(w, name, public, system)))
         \/ \E parameter \in BOOLEAN :
              Call(Finish(WriteExternalEntityDecl(w, name, parameter, public, system)))
         \/ \E notation \in Piece :
              Call(Finish(WriteUnparsedEntityDecl(w, name, public, system, notation)))
    \/ \E name, model \in Piece : Call(Finish(WriteElementDecl(w, name, model)))
    \/ \E eName, aName \in Piece, mode \in Piece \cup {None}, hasValue \in BOOLEAN,
          value \in Seq(Piece) :
         Call(Finish(WriteAttributeDecl(w, eName, aName, mode, hasValue, value)))
    \/ \E name \in Piece, parameter \in BOOLEAN, value \in Seq(Piece) :
         Call(Finish(WriteInternalEntityDecl(w, name, parameter, value)))
    \/ Call(Finish(WriteEndDtd(w)))
    \/ StartExternalSubset \/ EndExternalSubset

Next == Element \/ Content \/ Dtd \/ Flush

Spec == Init /\ [][Next]_vars

-----------------------------------------------------------------------------
(* Properties                                                              *)

\* Whatever is called, there is a scope for each open element, and one for the
\* document; a start tag that is open is that of the innermost element, which
\* has no content yet; only a document type declaration has an internal subset.
TypeOK ==
    /\ result \in {"ok", "InvalidInput", "sink"}
    /\ Len(w.namespaceStack) = Len(w.elementStack) + 1
    /\ w.pendingStartTag => w.elementStack # <<>> /\ ~w.hasContent
    /\ w.dtdInternalSubsetOpen => w.inDtd

\* What has been written so far: taken by the sink, and waiting for it.
Written(v) == v.sink \o v.buffer

\* Whatever is called, and whenever the sink refuses the buffer, nothing that
\* was written is lost, changed, or written again by a later call (send).
NothingTakenBack == [][IsPrefix(Written(w), Written(w'))]_vars

\* The output of a charset with a byte order mark begins with it, whichever
\* call writes first and however the output is sent (emit_bom_if_needed).
BeginsWithBom ==
    w.charset \in Bom /\ Written(w) # <<>> => Written(w)[1] = "BOM"

\* No namespace and the empty default namespace are the same.
Meant(prefix, uri) == IF prefix = None /\ uri = "unbound" THEN None ELSE uri

\* The declarations that were written give every prefix, in every open element,
\* the URI the writer believes it has: those left out as redundant
\* (write_namespace_declaration) are not missed, however bindings are shadowed
\* and restored by the elements around them.
BindingsWritten ==
    \A k \in 1 .. Len(declared) : \A i \in 1 .. k :
        \A prefix \in DOMAIN w.namespaceStack[i] :
            Meant(prefix, Binding(declared, k, prefix))
              = Meant(prefix, Binding(w.namespaceStack, k, prefix))
=============================================================================
