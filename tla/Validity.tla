------------------------------- MODULE Validity -------------------------------
(***************************************************************************)
(* Declarations and validity: the DTD model of dtd.rs, as the scanner      *)
(* fills it from the declarations of a DOCTYPE, and what the scanner does  *)
(* with it in the document: attribute types and defaults, and, if it       *)
(* validates, the errors it reports.                                       *)
(*                                                                         *)
(* One action stands for one declaration, tag, attribute or piece of       *)
(* content that is complete in the buffer (Scanner has the pieces), and    *)
(* only of well-formed documents: a fatal error ends the judging.  The     *)
(* application answers every error with Ok, so that all are seen.          *)
(*                                                                         *)
(* A value is a sequence of tokens with or without spaces that collapsing  *)
(* removes.  What kind of token it is, is given by the constants.          *)
(***************************************************************************)
EXTENDS ContentModels, FiniteSets, SequencesExt

CONSTANTS
    Doctypes,       \* the documents' prologs, see DoctypeFields
    NoDoctype,      \* the root name of a document without DOCTYPE
    NoDefault,      \* of an attribute declared without a value
    NameTokens,     \* tokens that are Names ...
    Nmtokens,       \* ... and that are Nmtokens
    ColonTokens,    \* ... and that contain a colon
    SpaceAttribute, \* xml:space
    SpaceTokens,    \* default, preserve
    MaxResets       \* bound

(***************************************************************************)
(* A prolog: the settings validating and standalone, the name in the       *)
(* DOCTYPE, its declarations in order (external ones last, but for those   *)
(* of a parameter entity), unparsed entities, declared notations; the      *)
(* markup its document may be made of (tags, attributes and content), and  *)
(* bounds on its depth, and on the children and pieces of content of an    *)
(* element and the attributes of a tag.                                    *)
(***************************************************************************)
IsSequence(s) == s \in Seq(ToSet(s))

DoctypeFields == {"validating", "standalone", "root", "declarations",
                  "unparsed", "notations", "tags", "attributes", "content",
                  "maxDepth", "maxChildren", "maxPieces", "maxAttributes"}
DeclarationAssumption(d) ==
    CASE d.kind = "element" ->
            /\ d.content \in ContentTypes
            /\ d.content \in {"mixed", "element"} => d.model # NoModel
      [] d.kind = "attlist" -> IsSequence(d.defs)
ASSUME DoctypesAssumption ==
    \A d \in Doctypes :
        /\ DOMAIN d = DoctypeFields
        /\ d.validating \in BOOLEAN /\ d.standalone \in BOOLEAN
        /\ IsSequence(d.declarations)
        /\ \A i \in DOMAIN d.declarations :
              /\ d.declarations[i].kind \in {"element", "attlist"}
              /\ DeclarationAssumption(d.declarations[i])
ASSUME TokensAssumption == NameTokens \subseteq Nmtokens

VARIABLES
    doctype,     \* the prolog of this document
    read,        \* declarations read
    defsRead,    \* ... and attributes of the ATTLIST being scanned
    prologEnded, \* the DOCTYPE is complete
    elements,    \* dtd_model: element -> its declaration
    attlists,    \* dtd_model: element -> its attributes, in order
    elementStack, validators, seenAttributes, inStartTag,
    rootStarted, rootEnded, declaredIds, pendingIdrefs,
    closed,      \* close() ended the document
    resets,
    \* What the application has heard or seen (history):
    declarationsHeard, \* element_decl and attribute_decl
    prologComplaints,  \* errors about declarations
    open,        \* its open elements: name, children, content, complaints
    judged,      \* the element that ended last, if the last step ended one
    tag,         \* the last start tag, see NoTag
    idsWritten, refsWritten, \* of the document
    unresolved,  \* references reported at the end ...
    notationComplaints \* ... and undeclared notations

dtdVars == <<read, defsRead, prologEnded, elements, attlists, declarationsHeard,
             prologComplaints>>
contentVars == <<elementStack, validators, open, judged>>
tagVars == <<seenAttributes, inStartTag, tag>>
idVars == <<declaredIds, pendingIdrefs, idsWritten, refsWritten>>
rootVars == <<rootStarted, rootEnded>>
sessionVars == <<doctype, closed, resets, unresolved, notationComplaints>>
vars == <<dtdVars, contentVars, tagVars, idVars, rootVars, sessionVars>>

\* A start tag: its attributes as written, as heard, and heard by default; what
\* was said of it, and the IDs of the document before it.
NoTag == [element |-> "", written |-> << >>, heard |-> << >>, defaulted |-> << >>,
          complaints |-> {}, idsBefore |-> {}]

Init ==
    /\ resets = 0
    /\ doctype \in Doctypes
    /\ read = 0 /\ defsRead = 0 /\ prologEnded = FALSE
    /\ elements = << >> /\ attlists = << >>
    /\ elementStack = << >> /\ validators = << >>
    /\ seenAttributes = {} /\ inStartTag = FALSE
    /\ rootStarted = FALSE /\ rootEnded = FALSE
    /\ declaredIds = {} /\ pendingIdrefs = << >>
    /\ closed = FALSE
    /\ declarationsHeard = << >> /\ prologComplaints = {}
    /\ open = << >> /\ judged = << >> /\ tag = NoTag
    /\ idsWritten = << >> /\ refsWritten = << >>
    /\ unresolved = << >> /\ notationComplaints = {}

ResetIds_Kept == pendingIdrefs' = << >> /\ UNCHANGED declaredIds
ResetIds == declaredIds' = {} /\ pendingIdrefs' = << >>

\* Scanner::reset, and the next document.
Reset ==
    /\ resets < MaxResets
    /\ rootStarted
    /\ resets' = resets + 1
    /\ doctype' \in Doctypes
    /\ read' = 0 /\ defsRead' = 0 /\ prologEnded' = FALSE
    /\ elements' = << >> /\ attlists' = << >>
    /\ elementStack' = << >> /\ validators' = << >>
    /\ seenAttributes' = {} /\ inStartTag' = FALSE
    /\ rootStarted' = FALSE /\ rootEnded' = FALSE
    /\ ResetIds
    /\ closed' = FALSE
    /\ declarationsHeard' = << >> /\ prologComplaints' = {}
    /\ open' = << >> /\ judged' = << >> /\ tag' = NoTag
    /\ idsWritten' = << >> /\ refsWritten' = << >>
    /\ unresolved' = << >> /\ notationComplaints' = {}

Complain(kinds) == IF doctype.validating THEN kinds ELSE {}
When(condition, kind) == IF condition THEN {kind} ELSE {}
About(name, kinds) == {<<k, name>> : k \in kinds}

Put(map, key, value) ==
    [k \in DOMAIN map \cup {key} |-> IF k = key THEN value ELSE map[k]]
-------------------------------------------------------------------------------
(***************************************************************************)
(* Declarations.  The first of an element, and of each of its attributes,  *)
(* is the one that counts.                                                 *)
(***************************************************************************)
Next1 == doctype.declarations[read + 1]
MoreDeclarations(kind) ==
    /\ read < Len(doctype.declarations)
    /\ Next1.kind = kind

ElementDeclaration_LastWins ==
    /\ MoreDeclarations("element")
    /\ read' = read + 1
    /\ elements' = Put(elements, Next1.name, Next1)
    /\ declarationsHeard' = Append(declarationsHeard, <<Next1.name>>)
    /\ UNCHANGED <<defsRead, prologEnded, prologComplaints, attlists, contentVars,
                   tagVars, idVars, rootVars, sessionVars>>
ElementDeclaration ==
    LET known == Next1.name \in DOMAIN elements
    IN  /\ MoreDeclarations("element")
        /\ read' = read + 1
        /\ prologComplaints' = prologComplaints
              \cup Complain(When(known, <<"declared twice", Next1.name>>))
        /\ IF known THEN UNCHANGED <<elements, declarationsHeard>>
           ELSE /\ elements' = Put(elements, Next1.name, Next1)
                /\ declarationsHeard' = Append(declarationsHeard, <<Next1.name>>)
        /\ UNCHANGED <<defsRead, prologEnded, attlists, contentVars, tagVars,
                       idVars, rootVars, sessionVars>>

AttributesOf(lists, element) ==
    IF element \in DOMAIN lists THEN lists[element] ELSE << >>

Declares(list, name) == \E i \in DOMAIN list : list[i].name = name

\* check_attlist_declaration_vcs.
DeclarationComplaints(element, list, def) ==
    When(def.type = "ID" /\ def.mode \notin {"required", "implied"},
         <<"ID default", element, def.name>>)
    \cup When(/\ def.type \in {"ID", "NOTATION"}
              /\ \E i \in DOMAIN list : /\ list[i].name # def.name
                                        /\ list[i].type = def.type,
              <<"one per element", element, def.type>>)

WithAttribute_Anew(element, def) ==
    Put(attlists, element, Append(AttributesOf(attlists, element), def))
\* declare_attribute.
WithAttribute(element, def) ==
    LET list == AttributesOf(attlists, element)
    IN  IF Declares(list, def.name) THEN attlists
        ELSE Put(attlists, element, Append(list, def))

DeclareAttribute_ToldAgain ==
    LET def == Next1.defs[defsRead + 1]
    IN  /\ MoreDeclarations("attlist")
        /\ defsRead < Len(Next1.defs)
        /\ defsRead' = defsRead + 1
        /\ attlists' = WithAttribute(Next1.element, def)
        /\ declarationsHeard' = Append(declarationsHeard, <<Next1.element, def.name>>)
        /\ UNCHANGED <<read, prologEnded, prologComplaints, elements, contentVars,
                       tagVars, idVars, rootVars, sessionVars>>
\* One attribute of an ATTLIST, with the event for it.
DeclareAttribute ==
    LET def == Next1.defs[defsRead + 1]
        list == AttributesOf(attlists, Next1.element)
    IN  /\ MoreDeclarations("attlist")
        /\ defsRead < Len(Next1.defs)
        /\ defsRead' = defsRead + 1
        /\ prologComplaints' = prologComplaints
              \cup Complain(DeclarationComplaints(Next1.element, list, def))
        /\ attlists' = WithAttribute(Next1.element, def)
        /\ declarationsHeard' =
              IF Declares(list, def.name) THEN declarationsHeard
              ELSE Append(declarationsHeard, <<Next1.element, def.name>>)
        /\ UNCHANGED <<read, prologEnded, elements, contentVars, tagVars, idVars,
                       rootVars, sessionVars>>

\* The chunk ends inside a declaration of the document, which is scanned again
\* from its start.
ScanAgain ==
    /\ MoreDeclarations("attlist")
    /\ \A i \in DOMAIN Next1.defs : ~Next1.defs[i].external
    /\ defsRead' = 0
    /\ UNCHANGED <<read, prologEnded, prologComplaints, elements, attlists,
                   declarationsHeard, contentVars, tagVars, idVars, rootVars,
                   sessionVars>>

EndOfAttlist ==
    /\ MoreDeclarations("attlist")
    /\ defsRead = Len(Next1.defs)
    /\ read' = read + 1 /\ defsRead' = 0
    /\ UNCHANGED <<prologEnded, prologComplaints, elements, attlists,
                   declarationsHeard, contentVars, tagVars, idVars, rootVars,
                   sessionVars>>
-------------------------------------------------------------------------------
(***************************************************************************)
(* Values, of attributes and of defaults, against a declared type.         *)
(***************************************************************************)
Collapse(value) == [value EXCEPT !.spaced = FALSE]
Word(token) == [tokens |-> <<token>>, spaced |-> FALSE]
IsWordOf(value, tokens) == \E t \in tokens : value = Word(t)
WordsOf(value) == ToSet(value.tokens)

BadFormat(type, value) ==
    CASE type \in {"ID", "IDREF", "ENTITY"} -> ~IsWordOf(value, NameTokens)
      [] type = "NMTOKEN"  -> ~IsWordOf(value, Nmtokens)
      [] type \in {"IDREFS", "ENTITIES"} -> ~(WordsOf(value) \subseteq NameTokens)
      [] type = "NMTOKENS" -> ~(WordsOf(value) \subseteq Nmtokens)
      [] OTHER -> FALSE

NotAnOption(def, value) ==
    def.type \in {"ENUMERATION", "NOTATION"} /\ ~IsWordOf(value, def.values)

\* A default is not collapsed before it is judged, and an ID has none.
BadDefault(def) ==
    /\ def.default # NoDefault
    /\ def.type # "ID"
    /\ BadFormat(def.type, def.default) \/ NotAnOption(def, def.default)

\* The end of the DOCTYPE: the defaults are judged, whatever their use.
EndOfProlog ==
    /\ ~prologEnded
    /\ read = Len(doctype.declarations)
    /\ prologEnded' = TRUE
    /\ prologComplaints' = prologComplaints \cup Complain(
          UNION {{<<"default", e, def.name>> : def \in {d \in ToSet(attlists[e]) : BadDefault(d)}} :
                    e \in DOMAIN attlists})
    /\ UNCHANGED <<read, defsRead, elements, attlists, declarationsHeard,
                   contentVars, tagVars, idVars, rootVars, sessionVars>>
-------------------------------------------------------------------------------
(***************************************************************************)
(* Content.                                                                *)
(***************************************************************************)
InContent == prologEnded /\ ~inStartTag /\ ~closed
InElement == InContent /\ elementStack # << >>

AnyContent(name) == [kind |-> "element", name |-> name, content |-> "any",
                     model |-> NoModel, external |-> FALSE]

IsDeclared(element) == element \in DOMAIN elements

\* The content type the DTD declares for the innermost element.
CurrentContentIs(content) ==
    IsDeclared(Last(elementStack)) /\ elements[Last(elementStack)].content = content

\* An open element of the application, with one more piece of content or one
\* more child, and what was said of it.
WithPiece(e, kind, said) ==
    [name |-> e.name, children |-> e.children, content |-> e.content \cup {kind},
     complaints |-> e.complaints \cup said]
WithChild(e, child, said) ==
    [name |-> e.name, children |-> Append(e.children, child), content |-> e.content,
     complaints |-> e.complaints \cup said]

Content(kind, complaints) ==
    /\ InElement
    /\ kind \in doctype.content
    /\ Cardinality(Last(open).content) < doctype.maxPieces
    /\ open' = [open EXCEPT ![Len(open)] = WithPiece(@, kind, Complain(complaints))]
    /\ judged' = << >>
    /\ UNCHANGED <<elementStack, validators, dtdVars, tagVars, idVars, rootVars,
                   sessionVars>>

TextComplaint(isWhitespace) ==
    When(doctype.validating /\ TextRefused(Last(validators).decl, isWhitespace),
         "content")

\* White space is told from other text only in element content.
WhiteSpace ==
    LET separates == CurrentContentIs("element")
    IN  Content("white", TextComplaint(separates)
            \cup When(/\ separates /\ doctype.standalone
                      /\ elements[Last(elementStack)].external, "standalone"))

Text == Content("text", TextComplaint(FALSE))
CharacterReference == Content("charref", TextComplaint(FALSE))
CData == Content("cdata", TextComplaint(FALSE))
EmptyCData == Content("emptyCData", {})

NotEmpty == When(CurrentContentIs("empty"), "content")
CommentOrPI == Content("markup", NotEmpty)
\* To an entity whose replacement text is empty.
EntityReference == Content("reference", NotEmpty)

StartTag(name) ==
    LET parent == Len(elementStack)
        childRefused == parent > 0 /\ doctype.validating
                           /\ ChildRefused(validators[parent].decl, name)
    IN  /\ InContent /\ ~rootEnded
        /\ name \in doctype.tags
        /\ parent < doctype.maxDepth
        /\ parent > 0 => Len(open[parent].children) < doctype.maxChildren
        /\ elementStack' = Append(elementStack, name)
        /\ validators' =
              IF ~doctype.validating THEN validators
              ELSE Append(IF parent = 0 THEN validators
                          ELSE [validators EXCEPT ![parent] =
                                  [decl |-> @.decl, children |-> Append(@.children, name)]],
                          [decl |-> IF IsDeclared(name) THEN elements[name]
                                    ELSE AnyContent(name),
                           children |-> << >>])
        /\ open' = Append(IF parent = 0 THEN open
                          ELSE [open EXCEPT ![parent] =
                                  WithChild(@, name, When(childRefused, "content"))],
                          [name |-> name, children |-> << >>, content |-> {},
                           complaints |-> {}])
        /\ tag' = [element |-> name, written |-> << >>, heard |-> << >>,
                   defaulted |-> << >>,
                   complaints |-> About(name, Complain(
                       When(/\ ~rootStarted
                            /\ doctype.root \notin {NoDoctype, name}, "root")
                       \cup When(~IsDeclared(name), "undeclared element"))),
                   idsBefore |-> ToSet(idsWritten)]
        /\ rootStarted' = TRUE
        /\ seenAttributes' = {}
        /\ inStartTag' = TRUE
        /\ judged' = << >>
    /\ UNCHANGED <<dtdVars, idVars, rootEnded, sessionVars>>

PopElement_ValidatorKept ==
    /\ elementStack' = Front(elementStack)
    /\ open' = Front(open)
    /\ judged' = <<Last(open)>>
    /\ rootEnded' = (Len(elementStack) = 1)
    /\ UNCHANGED validators
\* pop_and_validate_element, and the end of the innermost element.
PopElement ==
    LET own == Last(open)
        refused == doctype.validating
                      /\ ContentRefused(Last(validators).decl, Last(validators).children)
    IN  /\ elementStack' = Front(elementStack)
        /\ validators' = IF doctype.validating THEN Front(validators) ELSE validators
        /\ open' = Front(open)
        /\ judged' = <<[name |-> own.name, children |-> own.children,
                        content |-> own.content,
                        complaints |-> own.complaints \cup When(refused, "content")]>>
        /\ rootEnded' = (Len(elementStack) = 1)

EndTag ==
    /\ InElement
    /\ PopElement
    /\ UNCHANGED <<rootStarted, dtdVars, tagVars, idVars, sessionVars>>
-------------------------------------------------------------------------------
(***************************************************************************)
(* Attributes.                                                             *)
(***************************************************************************)
NamesNoEntity(type, value) ==
    CASE type = "ENTITY" -> ~IsWordOf(value, DOMAIN doctype.unparsed)
      [] type = "ENTITIES" -> ~(WordsOf(value) \subseteq DOMAIN doctype.unparsed)
      [] OTHER -> FALSE

\* check_attribute_value_vcs of a value with its definition.
ValueComplaints(def, value) ==
    When(BadFormat(def.type, value), "format")
    \cup When(def.type \in {"IDREFS", "NMTOKENS"} /\ value.tokens = << >>, "format")
    \cup When(/\ def.type \in {"ID", "IDREF", "IDREFS"}
              /\ WordsOf(value) \cap ColonTokens # {}, "colon")
    \cup When(def.type = "ID" /\ value \in declaredIds, "duplicate ID")
    \cup When(NotAnOption(def, value), "enumeration")
    \cup When(NamesNoEntity(def.type, value), "entity")
    \cup When(def.mode = "fixed" /\ value # def.default, "fixed")

\* The references a value makes, as values an ID may have.
References(type, value) ==
    CASE type = "IDREF" -> <<value>>
      [] type = "IDREFS" -> [i \in DOMAIN value.tokens |-> Word(value.tokens[i])]
      [] OTHER -> << >>

Undeclared(name) == [name |-> name, type |-> "CDATA", mode |-> "implied",
                     default |-> NoDefault, values |-> {}, external |-> FALSE]

Definition(element, name) ==
    LET list == AttributesOf(attlists, element)
    IN  IF Declares(list, name)
        THEN list[CHOOSE i \in DOMAIN list : list[i].name = name]
        ELSE Undeclared(name)

Heard(def, declared, specified, value) ==
    [name |-> def.name, type |-> def.type, declared |-> declared,
     specified |-> specified, value |-> value]

Attribute(name, raw) ==
    LET element == Last(elementStack)
        declared == Declares(AttributesOf(attlists, element), name)
        def == Definition(element, name)
        value == IF def.type = "CDATA" THEN raw ELSE Collapse(raw)
        said == Complain(When(~declared, "undeclared")
                    \cup When(/\ doctype.standalone /\ def.external
                              /\ def.type # "CDATA", "standalone")
                    \cup ValueComplaints(def, value))
                \cup When(name = SpaceAttribute /\ ~IsWordOf(value, SpaceTokens), "space")
    IN  /\ inStartTag
        /\ <<name, raw>> \in doctype.attributes
        /\ name \notin seenAttributes
        /\ Cardinality(seenAttributes) < doctype.maxAttributes
        /\ seenAttributes' = seenAttributes \cup {name}
        /\ tag' = [element |-> element, written |-> Append(tag.written, <<name, raw>>),
                   heard |-> Append(tag.heard, Heard(def, declared, TRUE, value)),
                   defaulted |-> << >>, idsBefore |-> tag.idsBefore,
                   complaints |-> tag.complaints \cup About(name, said)]
        /\ IF doctype.validating
           THEN /\ declaredIds' = declaredIds \cup When(def.type = "ID", value)
                /\ pendingIdrefs' = pendingIdrefs \o References(def.type, value)
           ELSE UNCHANGED <<declaredIds, pendingIdrefs>>
        /\ idsWritten' = IF def.type = "ID" THEN Append(idsWritten, value)
                                            ELSE idsWritten
        /\ refsWritten' = refsWritten \o References(def.type, value)
        /\ judged' = << >>
    /\ UNCHANGED <<elementStack, validators, open, inStartTag, dtdVars, rootVars,
                   sessionVars>>

\* apply_attribute_defaults: the declared attributes that the tag left out.
OwnAttributes == AttributesOf(attlists, Last(elementStack))
Absent == {def \in ToSet(OwnAttributes) : def.name \notin seenAttributes}
Defaulted ==
    LET upto[i \in 0 .. Len(OwnAttributes)] ==
            IF i = 0 THEN << >>
            ELSE IF OwnAttributes[i] \in Absent /\ OwnAttributes[i].default # NoDefault
                 THEN Append(upto[i - 1], OwnAttributes[i]) ELSE upto[i - 1]
    IN  upto[Len(OwnAttributes)]

DefaultComplaints_Required ==
    {<<"required", d.name>> : d \in {e \in Absent : e.mode = "required"}}
DefaultComplaints ==
    {<<"required", d.name>> : d \in {e \in Absent : e.mode = "required"}}
    \cup {<<"standalone", d.name>> :
             d \in {e \in ToSet(Defaulted) : doctype.standalone /\ e.external}}

EndOfAttributes ==
    /\ inStartTag
    /\ inStartTag' = FALSE
    /\ tag' = [element |-> tag.element, written |-> tag.written, heard |-> tag.heard,
               defaulted |-> [i \in DOMAIN Defaulted |->
                                Heard(Defaulted[i], TRUE, FALSE, Defaulted[i].default)],
               complaints |-> tag.complaints \cup Complain(DefaultComplaints),
               idsBefore |-> tag.idsBefore]
    /\ UNCHANGED <<seenAttributes, dtdVars, idVars, rootStarted, sessionVars>>

TagEnd == EndOfAttributes /\ judged' = << >>
          /\ UNCHANGED <<elementStack, validators, open, rootEnded>>
EmptyTagEnd == EndOfAttributes /\ PopElement
-------------------------------------------------------------------------------
\* check_pending_idrefs.
Unresolved(refs, ids) == SelectSeq(refs, LAMBDA ref : ref \notin ids)

\* check_unparsed_entity_notations_declared, check_attlist_notation_names_declared.
UndeclaredNotations ==
    LET defs == UNION {ToSet(attlists[e]) : e \in DOMAIN attlists}
    IN  ({doctype.unparsed[e] : e \in DOMAIN doctype.unparsed}
            \cup UNION {d.values : d \in {x \in defs : x.type = "NOTATION"}})
        \ doctype.notations

Close ==
    /\ rootEnded /\ InContent
    /\ closed' = TRUE
    /\ pendingIdrefs' = << >>
    /\ unresolved' = IF doctype.validating THEN Unresolved(pendingIdrefs, declaredIds)
                     ELSE << >>
    /\ notationComplaints' = Complain(UndeclaredNotations)
    /\ judged' = << >>
    /\ UNCHANGED <<doctype, resets, dtdVars, elementStack, validators, open, tagVars,
                   declaredIds, idsWritten, refsWritten, rootVars>>

Next ==
    \/ ElementDeclaration \/ EndOfProlog
    \/ DeclareAttribute \/ ScanAgain \/ EndOfAttlist
    \/ \E n \in doctype.tags : StartTag(n)
    \/ \E a \in doctype.attributes : Attribute(a[1], a[2])
    \/ TagEnd \/ EmptyTagEnd \/ EndTag
    \/ WhiteSpace \/ Text \/ CharacterReference \/ CData \/ EmptyCData
    \/ CommentOrPI \/ EntityReference
    \/ Close \/ Reset

Spec == Init /\ [][Next]_vars
-------------------------------------------------------------------------------
(***************************************************************************)
(* What the declarations mean, by the document as the application saw it.  *)
(***************************************************************************)
ElementDeclarations(name) ==
    {i \in DOMAIN doctype.declarations : /\ doctype.declarations[i].kind = "element"
                                        /\ doctype.declarations[i].name = name}
HasElement(name) == ElementDeclarations(name) # {}

\* The first declaration of an element.
ElementOf(name) == doctype.declarations[Min(ElementDeclarations(name))]

AllowedContent(e) ==
    HasElement(e.name) =>
        LET d == ElementOf(e.name)
        IN  /\ d.content = "empty" =>
                  e.children = << >> /\ e.content \subseteq {"emptyCData"}
            /\ d.content = "mixed" =>
                  \A i \in DOMAIN e.children :
                     \E m \in DOMAIN d.model.members : d.model.members[m].name = e.children[i]
            /\ d.content = "element" =>
                  /\ e.content \cap {"text", "charref", "cdata"} = {}
                  /\ Matches(d.model, e.children)

\* The place of a declaration: its number, with 0 for an element, and with that
\* of an attribute among those of its ATTLIST.
Earlier(p, q) == p[1] < q[1] \/ (p[1] = q[1] /\ p[2] < q[2])

DefAt(p)   == doctype.declarations[p[1]].defs[p[2]]
EventAt(p) ==
    LET d == doctype.declarations[p[1]]
    IN  IF p[2] = 0 THEN <<d.name>> ELSE <<d.element, d.defs[p[2]].name>>

Attlists == {i \in DOMAIN doctype.declarations : doctype.declarations[i].kind = "attlist"}

\* The places where attributes of an element are declared: all, or those inside
\* the document.
DeclaredAt(element, where) ==
    {p \in UNION {{i} \X DOMAIN doctype.declarations[i].defs : i \in Attlists} :
        /\ doctype.declarations[p[1]].element = element
        /\ where = "inside" => ~DefAt(p).external}

\* Of each attribute the first declaration counts.
Counting(element, where) ==
    LET all == DeclaredAt(element, where)
    IN  {p \in all : \A q \in all : Earlier(q, p) => DefAt(q).name # DefAt(p).name}

FirstElements ==
    {i \in DOMAIN doctype.declarations :
        /\ doctype.declarations[i].kind = "element"
        /\ \A j \in ElementDeclarations(doctype.declarations[i].name) : i <= j}
FirstDeclarations ==
    {<<i, 0>> : i \in FirstElements}
        \cup UNION {Counting(e, "anywhere") : e \in {doctype.declarations[i].element : i \in Attlists}}

\* A sequence has what is said of each of these places, once, in their order.
ListsInOrder(seq, places, Said(_)) ==
    /\ ToSet(seq) = {Said(p) : p \in places}
    /\ \A p, q \in places : \A n \in DOMAIN seq :
          seq[n] = Said(q) => \A m \in 1 .. n - 1 : seq[m] = Said(p) => Earlier(p, q)

\* What an attribute is heard as, by the declarations that count.
Meaning(counting, name) ==
    LET own == {p \in counting : DefAt(p).name = name}
    IN  IF own = {} THEN Undeclared(name) ELSE DefAt(CHOOSE p \in own : TRUE)
Normalised(def, raw) == IF def.type = "CDATA" THEN raw ELSE Collapse(raw)
HeardAs(counting, name, raw) ==
    LET def == Meaning(counting, name)
    IN  Heard(def, \E p \in counting : DefAt(p).name = name, TRUE, Normalised(def, raw))

\* Those of attributes that the tag leaves to their defaults.
Omitted(counting) ==
    {p \in counting :
        /\ DefAt(p).default # NoDefault
        /\ \A n \in DOMAIN tag.written : tag.written[n][1] # DefAt(p).name}
HeardByDefault(p) == Heard(DefAt(p), TRUE, FALSE, DefAt(p).default)

\* An element that ends has been complained of exactly if its content is not
\* what its first declaration allows: text by text, child by child and at its
\* end, the three judgements miss nothing and invent nothing.  Apart from an
\* empty CDATA section, which is recorded nowhere.  Every open element has a
\* validator of its own, which goes with it.
ContentJudged ==
    doctype.validating =>
        /\ Len(validators) = Len(elementStack) /\ Len(open) = Len(elementStack)
        /\ judged # << >> =>
              ("content" \in judged[1].complaints) # AllowedContent(judged[1])

IsID(heard) == heard.type = "ID"
\* The IDs a tag gives before its n-th attribute.
IdsOfTag(n) == {tag.heard[m].value : m \in {i \in 1 .. n - 1 : IsID(tag.heard[i])}}

\* An ID is complained of if it was given before, in this document or in this
\* tag, and each reference is judged at the end, against all IDs, those given
\* later included.
IdentitiesJudged ==
    doctype.validating =>
        /\ \A n \in DOMAIN tag.heard :
              IsID(tag.heard[n]) =>
                  (<<"duplicate ID", tag.heard[n].name>> \in tag.complaints
                      <=> tag.heard[n].value \in tag.idsBefore \cup IdsOfTag(n))
        /\ closed => unresolved = Unresolved(refsWritten, ToSet(idsWritten))

\* At the end of a start tag the application has every attribute of it once:
\* those written, typed and normalised by their first declaration, then those
\* left out that have a default, in the order they are declared, also when a
\* declaration was scanned again.
AttributesHeard ==
    tag # NoTag /\ ~inStartTag =>
        LET counting == Counting(tag.element, "anywhere")
        IN  /\ tag.heard = [n \in DOMAIN tag.written |->
                              HeardAs(counting, tag.written[n][1], tag.written[n][2])]
            /\ ListsInOrder(tag.defaulted, Omitted(counting), HeardByDefault)

\* Every declaration that counts is heard once, in order, wherever the chunks of
\* the prolog ended.
DeclarationsHeardOnce ==
    prologEnded => ListsInOrder(declarationsHeard, FirstDeclarations, EventAt)

\* No attribute of an element is declared outside the document first and then
\* again inside it, as only a parameter entity can do.
InsideFirst(element) ==
    \A p, q \in DeclaredAt(element, "anywhere") :
        DefAt(p).name = DefAt(q).name /\ ~DefAt(p).external /\ DefAt(q).external
            => Earlier(p, q)

\* What the application would hear of the tag without the declarations outside.
ValuesInside ==
    LET counting == Counting(tag.element, "inside")
    IN  {<<w[1], Normalised(Meaning(counting, w[1]), w[2])>> : w \in ToSet(tag.written)}
          \cup {<<DefAt(p).name, DefAt(p).default>> : p \in Omitted(counting)}

\* In a standalone document nothing declared outside changes what is heard of a
\* tag without a complaint.
StandaloneKept ==
    /\ doctype.validating /\ doctype.standalone
    /\ tag # NoTag /\ ~inStartTag
    /\ {<<h.name, h.value>> : h \in ToSet(tag.heard \o tag.defaulted)} # ValuesInside
    /\ InsideFirst(tag.element)
    => \E c \in tag.complaints : c[1] = "standalone"
===============================================================================
