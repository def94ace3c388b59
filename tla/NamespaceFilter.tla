-------------------------- MODULE NamespaceFilter ---------------------------
(***************************************************************************)
(* struct NamespaceFilter of namespace.rs, between the scanner and the     *)
(* application.  An action is one handler method the scanner calls, with   *)
(* everything the filter does in it.  The scanner calls in the order that  *)
(* Scanner!EventOrder and Scanner!RunsCompleted establish; the events the  *)
(* filter passes on untouched (text, comments, PIs, ...) are left out.     *)
(***************************************************************************)
EXTENDS NamespaceScopeTracker

CONSTANTS
    ElementNames, AttributeNames,   \* [prefix, local]; prefix "" for none
    Malformed,          \* the local parts that are no NCName; the scanner lets
                        \* only a colon through, so without a prefix: ":a"
    Values,             \* of namespace declarations; no other value matters
    Versions,           \* of the documents: "none" for no XML declaration
    NamespacePrefixes,  \* the filter's setting namespace_prefixes
    Lenient,            \* the application may answer Ok to fatal_error
    MaxDepth, MaxAttributes, MaxResets      \* bounds

QName == [prefix : Prefix, local : STRING]

ASSUME NamesAssumption ==
    /\ ElementNames \cup AttributeNames \subseteq QName
    /\ \A name \in AttributeNames : name.prefix = "xmlns" => name.local \in Prefix
ASSUME ValuesAssumption  == Values \subseteq Uri /\ Uri \subseteq Seq(STRING)
ASSUME SettingsAssumption ==
    /\ Versions \subseteq {"none", "1.0", "1.1"}
    /\ NamespacePrefixes \in BOOLEAN /\ Lenient \in BOOLEAN /\ MaxResets \in Nat

VARIABLES
    doc, version, open, tag, attr, failed, resets,      \* the scanner's side
    xml11, element_qname, pending_attr_qnames, current_attr_name,
    current_is_namespace_decl, value_first_chunk, value_builder,
    app                                                 \* the application's side

scanner == <<doc, version, open, tag, attr, failed, resets>>
current == <<current_attr_name, current_is_namespace_decl, value_first_chunk, value_builder>>
vars    == <<scanner, tracker, xml11, element_qname, pending_attr_qnames, current, app>>

Name(prefix, local) == [prefix |-> prefix, local |-> local]
NoName == Name("", "")
NoAttr == [name |-> NoName, value |-> <<>>]

(***************************************************************************)
(* The scanner's side: the open elements with the attributes they were     *)
(* given so far, and the attribute whose value is being streamed.          *)
(***************************************************************************)
Element(name) == [name |-> name, attrs |-> {}]
Top           == open[Len(open)]
NamesIn(tag_) == {a[1] : a \in tag_.attrs}

(***************************************************************************)
(* The application's side, as docs/namespaces.html has it: a namespace     *)
(* event declares a prefix for the element it belongs to, and the scope    *)
(* ends with end_element.                                                  *)
(***************************************************************************)
FreshApp == [scopes |-> <<Predeclared>>, tag |-> "none", element |-> NoName,
             attributes |-> {}]

Starts(a, name) == [a EXCEPT !.scopes = Append(@, @[Len(@)]), !.tag = "open",
                             !.element = name, !.attributes = {}]
Hears(a, prefix, uri) ==
    [a EXCEPT !.scopes[Len(a.scopes)][prefix] = uri]
Attribute(a, name) == [a EXCEPT !.attributes = @ \cup {name}]
EndsTag(a)   == [a EXCEPT !.tag = "ended"]
EndsElement(a) ==
    [a EXCEPT !.scopes = SubSeq(@, 1, Len(@) - 1), !.tag = "none"]
-----------------------------------------------------------------------------
Init ==
    /\ doc = "new" /\ version = "1.0" /\ open = <<>> /\ tag = "none"
    /\ attr = NoAttr
    /\ failed = FALSE /\ resets = 0
    /\ NewTracker
    /\ xml11 = FALSE
    /\ element_qname = NoName
    /\ pending_attr_qnames = <<>>
    /\ current_attr_name = NoName
    /\ current_is_namespace_decl = FALSE
    /\ value_first_chunk = FALSE
    /\ value_builder = <<>>
    /\ app = FreshApp

\* The delegate's fatal_error: its Err goes back to the scanner and ends the
\* parse; its Ok does not.
Refuse == failed' \in {TRUE, ~Lenient}

\* set_xml11 comes from an XML declaration only.
StartDocument ==
    /\ doc = "new"
    /\ doc' = "open"
    /\ \E v \in Versions :
        /\ version' = IF v = "none" THEN "1.0" ELSE v
        /\ xml11' = IF v = "none" THEN xml11 ELSE v = "1.1"
    /\ UNCHANGED <<open, tag, attr, failed, resets, tracker, element_qname,
                   pending_attr_qnames, current, app>>

\* What validate_qname lets through.
ValidQName(name) == name.local \notin Malformed

\* Variant: a name that is refused opens no scope.
StartElement_PushLate ==
    /\ doc = "open" /\ tag = "none" /\ ~failed /\ Len(open) < MaxDepth
    /\ tag' = "tag"
    /\ \E q_name \in ElementNames :
        /\ open' = Append(open, Element(q_name))
        /\ element_qname' = q_name
        /\ IF ValidQName(q_name)
           THEN PushContext /\ app' = Starts(app, q_name) /\ UNCHANGED failed
           ELSE Refuse /\ UNCHANGED <<tracker, app>>
    /\ pending_attr_qnames' = <<>>
    /\ UNCHANGED <<doc, version, attr, resets, xml11, current>>

StartElement ==
    /\ doc = "open" /\ tag = "none" /\ ~failed /\ Len(open) < MaxDepth
    /\ tag' = "tag"
    /\ \E q_name \in ElementNames :
        /\ open' = Append(open, Element(q_name))
        /\ element_qname' = q_name
        /\ IF ValidQName(q_name) THEN UNCHANGED failed ELSE Refuse
        /\ app' = IF failed' THEN app ELSE Starts(app, q_name)
    /\ PushContext
    /\ pending_attr_qnames' = <<>>
    /\ UNCHANGED <<doc, version, attr, resets, xml11, current>>

HasColon(name) == name.prefix # "" \/ ~ValidQName(name)

IsNamespaceDecl(name) == name.prefix = "xmlns" \/ name = Name("", "xmlns")

StartDeclaration(name) ==
    /\ IsNamespaceDecl(name)
    /\ current_is_namespace_decl' = TRUE
    /\ current_attr_name' = name
    /\ value_first_chunk' = TRUE
    /\ UNCHANGED <<failed, value_builder, pending_attr_qnames, app>>

\* Variant: an attribute that is passed on is not held for the later check.
StartPlainAttribute_NotHeld(name) ==
    /\ ~IsNamespaceDecl(name)
    /\ current_is_namespace_decl' = FALSE
    /\ IF ValidQName(name) THEN UNCHANGED failed ELSE Refuse
    /\ app' = IF failed' THEN app ELSE Attribute(app, name)
    /\ UNCHANGED <<current_attr_name, value_first_chunk, value_builder, pending_attr_qnames>>

\* Variant: a name that was refused is passed on without being held.
StartPlainAttribute_RefusedNotHeld(name) ==
    /\ ~IsNamespaceDecl(name)
    /\ current_is_namespace_decl' = FALSE
    /\ IF ValidQName(name) THEN UNCHANGED failed ELSE Refuse
    /\ pending_attr_qnames' = IF ~ValidQName(name) \/ ~HasColon(name)
                              THEN pending_attr_qnames
                              ELSE Append(pending_attr_qnames, name)
    /\ app' = IF failed' THEN app ELSE Attribute(app, name)
    /\ UNCHANGED <<current_attr_name, value_first_chunk, value_builder>>

\* Passed on at once; its prefix is looked up at the end of the tag.
StartPlainAttribute(name) ==
    /\ ~IsNamespaceDecl(name)
    /\ current_is_namespace_decl' = FALSE
    /\ IF ValidQName(name) THEN UNCHANGED failed ELSE Refuse
    /\ pending_attr_qnames' = IF failed' \/ ~HasColon(name) THEN pending_attr_qnames
                              ELSE Append(pending_attr_qnames, name)
    /\ app' = IF failed' THEN app ELSE Attribute(app, name)
    /\ UNCHANGED <<current_attr_name, value_first_chunk, value_builder>>

StartAttribute ==
    /\ tag = "tag" /\ ~failed /\ Cardinality(Top.attrs) < MaxAttributes
    /\ tag' = "value"
    /\ \E name \in AttributeNames \ NamesIn(Top) :
        /\ attr' = [name |-> name, value |-> <<>>]
        /\ StartDeclaration(name) \/ StartPlainAttribute(name)
    /\ UNCHANGED <<doc, version, open, resets, tracker, xml11, element_qname>>

\* Variant: any prefix may be bound to the URI of xml.
Reserved_XmlUriFree(name, uri) ==
    IF name.prefix = ""
    THEN uri \in {XmlUri, XmlnsUri}
    ELSE \/ name.local \in {"", "xmlns"}
         \/ uri = <<>> /\ ~xml11
         \/ name.local = "xml" /\ uri # XmlUri
         \/ uri = XmlnsUri

\* What declare_namespace refuses.
Reserved(name, uri) ==
    IF name.prefix = ""
    THEN uri \in {XmlUri, XmlnsUri}
    ELSE \/ name.local \in {"", "xmlns"}
         \/ uri = <<>> /\ ~xml11
         \/ (name.local = "xml") # (uri = XmlUri)
         \/ uri = XmlnsUri

\* Variant: the tracker learns of the declaration before it is judged.
DeclareNamespace_Early(name, uri) ==
    LET prefix == IF name.prefix = "" THEN "" ELSE name.local
        told   == Hears(app, prefix, uri)
    IN  /\ DeclarePrefix(prefix, uri)
        /\ IF Reserved(name, uri)
           THEN Refuse /\ UNCHANGED app
           ELSE /\ app' = IF NamespacePrefixes THEN Attribute(told, name) ELSE told
                /\ UNCHANGED failed

\* declare_namespace: the prefix of xmlns is "".
DeclareNamespace(name, uri) ==
    LET prefix == IF name.prefix = "" THEN "" ELSE name.local
        told   == Hears(app, prefix, uri)
    IN  IF Reserved(name, uri)
        THEN Refuse /\ UNCHANGED <<tracker, app>>
        ELSE /\ DeclarePrefix(prefix, uri)
             /\ app' = IF NamespacePrefixes THEN Attribute(told, name) ELSE told
             /\ UNCHANGED failed

\* Variant: the first piece does not empty the builder.
Collected_Stale(piece) == value_builder \o piece

\* The first piece is the value if it is the last one, else it empties the
\* builder, where the pieces are collected.
Collected(piece) == IF value_first_chunk THEN piece ELSE value_builder \o piece

ValueOfDeclaration(piece, end) ==
    /\ current_is_namespace_decl
    /\ value_builder' = IF value_first_chunk /\ end THEN value_builder ELSE Collected(piece)
    /\ value_first_chunk' = (value_first_chunk /\ end)
    /\ IF end THEN DeclareNamespace(current_attr_name, Collected(piece))
              ELSE UNCHANGED <<tracker, app, failed>>

ValueOfPlainAttribute ==
    /\ ~current_is_namespace_decl
    /\ UNCHANGED <<value_builder, value_first_chunk, tracker, app, failed>>

\* A piece of the value, maybe an empty one, and whether it is the last.
AttributeValueContent ==
    /\ tag = "value" /\ ~failed
    /\ \E value \in IF IsNamespaceDecl(attr.name) THEN Values ELSE {<<>>} :
       \E to \in 0 .. Len(value), end \in BOOLEAN :
        LET from  == Len(attr.value)
            piece == SubSeq(value, from + 1, to)
        IN  /\ from <= to /\ SubSeq(value, 1, from) = attr.value
            /\ end => to = Len(value)
            /\ ValueOfDeclaration(piece, end) \/ ValueOfPlainAttribute
            /\ attr' = IF end THEN NoAttr ELSE [attr EXCEPT !.value = @ \o piece]
            /\ tag' = IF end THEN "tag" ELSE "value"
            /\ open' = IF end THEN [open EXCEPT ![Len(open)].attrs =
                                        @ \cup {<<attr.name, attr.value \o piece>>}]
                       ELSE open
    /\ UNCHANGED <<doc, version, resets, xml11, element_qname, pending_attr_qnames,
                   current_attr_name, current_is_namespace_decl>>

Bound(prefix) == GetUri(prefix) # Unbound

SameExpandedName(m, n) == m.local = n.local /\ GetUri(m.prefix) = GetUri(n.prefix)

\* Variant: attributes are compared as they are written.
Resolved_ByPrefix ==
    /\ element_qname.prefix = "" \/ Bound(element_qname.prefix)
    /\ \A i \in DOMAIN pending_attr_qnames : Bound(pending_attr_qnames[i].prefix)

Resolved ==
    /\ element_qname.prefix = "" \/ Bound(element_qname.prefix)
    /\ \A i \in DOMAIN pending_attr_qnames : Bound(pending_attr_qnames[i].prefix)
    /\ \A i, j \in DOMAIN pending_attr_qnames :
        i # j => ~SameExpandedName(pending_attr_qnames[i], pending_attr_qnames[j])

\* All declarations of the tag are known: prefixes are looked up, expanded
\* names compared.  A refusal replaces the event.
EndAttributes ==
    /\ tag = "tag" /\ ~failed
    /\ tag' = "none"
    /\ IF Resolved THEN app' = EndsTag(app) /\ UNCHANGED failed
                   ELSE Refuse /\ UNCHANGED app
    /\ UNCHANGED <<doc, version, open, attr, resets, tracker, xml11, element_qname,
                   pending_attr_qnames, current>>

\* Variant: a scope without declarations is not closed.
EndElement_OnlyDeclared ==
    /\ tag = "none" /\ open # <<>> /\ ~failed
    /\ open' = SubSeq(open, 1, Len(open) - 1)
    /\ doc' = IF Len(open) = 1 THEN "done" ELSE doc
    /\ IF \E i \in DOMAIN bindings : bindings[i].level = scope_depth
       THEN PopContext ELSE UNCHANGED tracker
    /\ app' = EndsElement(app)
    /\ UNCHANGED <<version, tag, attr, failed, resets, xml11, element_qname,
                   pending_attr_qnames, current>>

EndElement ==
    /\ tag = "none" /\ open # <<>> /\ ~failed
    /\ open' = SubSeq(open, 1, Len(open) - 1)
    /\ doc' = IF Len(open) = 1 THEN "done" ELSE doc
    /\ PopContext
    /\ app' = EndsElement(app)
    /\ UNCHANGED <<version, tag, attr, failed, resets, xml11, element_qname,
                   pending_attr_qnames, current>>

\* Parser::reset reaches the decoder and the scanner; no handler method tells
\* the filter.  The application begins anew.
Reset ==
    /\ doc # "new" /\ resets < MaxResets
    /\ resets' = resets + 1
    /\ doc' = "new" /\ version' = "1.0" /\ open' = <<>> /\ tag' = "none"
    /\ attr' = NoAttr /\ failed' = FALSE
    /\ app' = FreshApp
    /\ UNCHANGED <<tracker, xml11, element_qname, pending_attr_qnames, current>>

Next ==
    \/ StartDocument \/ StartElement \/ StartAttribute \/ AttributeValueContent
    \/ EndAttributes \/ EndElement \/ Reset

Spec == Init /\ [][Next]_vars
-----------------------------------------------------------------------------
(* Properties                                                              *)

OpenElement == [name : ElementNames, attrs : SUBSET (AttributeNames \X Uri)]

App == [scopes : Seq([Prefix -> Uri]), tag : {"none", "open", "ended"},
        element : ElementNames \cup {NoName}, attributes : SUBSET AttributeNames]

ScannerType ==
    /\ doc \in {"new", "open", "done"} /\ version \in {"1.0", "1.1"}
    /\ open \in Seq(OpenElement)
    /\ tag \in {"none", "tag", "value"}
    /\ attr \in [name : AttributeNames \cup {NoName}, value : Seq(STRING)]
    /\ failed \in BOOLEAN /\ resets \in 0 .. MaxResets

TrackerType ==
    /\ bindings \in Seq(Binding) /\ scope_depth \in Nat
    /\ \A i \in DOMAIN bindings : bindings[i].level <= scope_depth

FilterType ==
    /\ xml11 \in BOOLEAN
    /\ element_qname \in ElementNames \cup {NoName}
    /\ pending_attr_qnames \in Seq(AttributeNames)
    /\ current_attr_name \in AttributeNames \cup {NoName}
    /\ current_is_namespace_decl \in BOOLEAN /\ value_first_chunk \in BOOLEAN
    /\ value_builder \in Seq(STRING)

\* Every name kept is a name, every binding belongs to a scope that is open.
TypeOK == ScannerType /\ TrackerType /\ FilterType /\ app \in App

\* No document abandoned by Parser::reset has left a scope behind.
Clean == scope_depth = Len(open)

\* pop_context never takes the root scope with its two bindings, and never
\* panics, whatever the documents, failures and resets.
RootScopeKept == scope_depth >= Len(open)

\* The filter's scopes and the scanner's elements drift apart in one way: a
\* reset while an element is open.
DriftsOnlyByReset ==
    [][scope_depth' - Len(open') = scope_depth - Len(open)
         \/ (resets' # resets /\ open # <<>>)]_vars

\* An application that follows the namespace events knows for every open
\* element what the filter knows.
ScopesAgree == Clean /\ ~failed => app.scopes = ScopesNow

\* The namespace constraints on the tag the application was told of, in an
\* environment.
LegalIn(env, element, attributes) ==
    LET Prefixed == {n \in attributes : n.prefix # "" /\ ~IsNamespaceDecl(n)}
    IN  /\ element.prefix = "" \/ env[element.prefix] # Unbound
        /\ \A n \in Prefixed : env[n.prefix] # Unbound
        /\ \A m, n \in Prefixed :
            m.local = n.local /\ env[m.prefix] = env[n.prefix] => m = n

\* Attributes are passed on before the declarations of their tag are known;
\* still, by end_attributes every prefix the application has heard of resolves
\* in its own scopes, and no two attributes are the same by expanded name.
ReportedTagsLegal ==
    Clean /\ app.tag = "ended" =>
        LegalIn(app.scopes[Len(app.scopes)], app.element, app.attributes)
-----------------------------------------------------------------------------
(* The reference: Namespaces in XML, read off the open elements.           *)

Declares(a, prefix) ==
    IF prefix = "" THEN a[1] = Name("", "xmlns") ELSE a[1] = Name("xmlns", prefix)

Given(list, prefix, k) == {a \in list[k].attrs : Declares(a, prefix)}

GivenUri(list, prefix, k) == (CHOOSE a \in Given(list, prefix, k) : TRUE)[2]

Levels(list, prefix, k) == {j \in 1 .. k : Given(list, prefix, j) # {}}

\* The innermost declaration of the prefix among the first k of a list of
\* open elements.
UriOf(list, prefix, k) ==
    IF Levels(list, prefix, k) = {} THEN Predeclared[prefix]
    ELSE GivenUri(list, prefix, Max(Levels(list, prefix, k)))

EnvironmentOf(list, k) == [prefix \in Prefix |-> UriOf(list, prefix, k)]

\* What the application knows of prefixes is what the document says, whatever
\* the pieces a declaration's value came in, and whatever documents, abandoned
\* or not, the filter has seen before.
HeardAsWritten ==
    ~failed => \A k \in DOMAIN open : app.scopes[k + 1] = EnvironmentOf(open, k)

WellFormedName(name) == name.local \notin Malformed

LegalDeclaration(a, v) ==
    IF a[1].prefix = "" THEN a[2] \notin {XmlUri, XmlnsUri}
    ELSE CASE a[1].local = "xml"             -> a[2] = XmlUri
           [] a[1].local \in {"", "xmlns"}   -> FALSE
           [] OTHER -> a[2] \notin {XmlUri, XmlnsUri} /\ (a[2] = <<>> => v = "1.1")

LegalSoFar(t, v) ==
    /\ WellFormedName(t.name)
    /\ \A a \in t.attrs : IF IsNamespaceDecl(a[1]) THEN LegalDeclaration(a, v)
                                                   ELSE WellFormedName(a[1])

TagLegal(list, v, k) ==
    /\ LegalSoFar(list[k], v)
    /\ LegalIn(EnvironmentOf(list, k), list[k].name, NamesIn(list[k]))

\* A tag is let through exactly if it satisfies the constraints, wherever its
\* declarations stand among its attributes and however their values are cut;
\* one that cannot satisfy them any more is refused before its end.
VerdictExact ==
    Clean /\ xml11 = (version = "1.1") =>
        IF ~failed
        THEN \A k \in DOMAIN open :
                k < Len(open) \/ tag = "none" => TagLegal(open, version, k)
        ELSE IF tag = "none" THEN ~TagLegal(open, version, Len(open))
        ELSE \/ ~LegalSoFar(Top, version)
             \/ tag = "value" /\ ~WellFormedName(attr.name)
=============================================================================
