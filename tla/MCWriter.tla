------------------------------ MODULE MCWriter ------------------------------
(***************************************************************************)
(* A program that writes a document with XmlWriter, call by call, and what *)
(* it asked for (asked), in the events of WrittenDocument: what is read    *)
(* from the sink and the buffer must be what was asked.                    *)
(*                                                                         *)
(* The calls that are made depend on the theme of the document: names and  *)
(* namespaces, the kinds of markup, the characters of texts and literals,  *)
(* the document type declaration.  The sink refuses the buffer in the      *)
(* documents of theme "markup" only.                                       *)
(***************************************************************************)
EXTENDS Writer

CONSTANTS MaxCalls, MaxDepth

VARIABLES
    theme,      \* which calls this document is made of
    asked,      \* the events the calls so far ask for
    section,    \* the characters of the CDATA section that is open
    calls       \* how many calls have been made

mcVars == <<vars, theme, asked, section, calls>>

Chars == {"x", "<", ">", "&", "\"", "%", "]", "-", "?", "\t", "\n", "\r",
          "SOH", "DEL", "NEL", "LS", "wide"}
MCCharsets == {"UTF-8", "UTF-16", "ISO-8859-1"}
MCBom == {"UTF-16"}
MCPiece == Chars \cup {"a", "b", "e", "i", "n", "p", "s", "t", "u", "v", ":",
                       "EMPTY", "#REQUIRED"}
MCUnmappable == [c \in MCCharsets |-> IF c = "ISO-8859-1" THEN {"wide", "LS"} ELSE {}]

\* What a processor reads for each reference.
References ==
    [r \in {NamedReference[c] : c \in DOMAIN NamedReference}
           \cup {CharacterReference(c) : c \in Chars} |->
        CHOOSE c \in Chars : \/ r = CharacterReference(c)
                             \/ c \in DOMAIN NamedReference /\ r = NamedReference[c]]

Doc == INSTANCE WrittenDocument WITH RefersTo <- References

Uris == {"u", "v"}
Start(name) ==
    [kind |-> "start", name |-> name, attrs |-> {}, declared |-> {},
     scope |-> <<>>]

-----------------------------------------------------------------------------
(* What the program has asked for.                                         *)

\* The positions of the start tags of the elements that are open.
OpenStarts ==
    LET open[i \in 0 .. Len(asked)] ==
            IF i = 0 THEN <<>>
            ELSE IF asked[i].kind = "start" THEN Append(open[i - 1], i)
            ELSE IF asked[i].kind = "end" THEN Front(open[i - 1])
            ELSE open[i - 1]
    IN  open[Len(asked)]

Depth == Len(OpenStarts)
CurrentScope == IF Depth = 0 THEN <<>> ELSE asked[OpenStarts[Depth]].scope

\* The start tag the program is filling in.
Tag == asked[Len(asked)]

\* How a name asked for in a namespace is recorded: by its URI when the writer
\* finds a prefix that is bound to it; by its missing prefix when no prefix is
\* found, for a program then declares the default namespace itself; as "?"
\* when the prefix found is bound to something else further in, and for an
\* attribute when the default namespace is found.
AskedInNamespace(uri, local, isAttribute) ==
    LET found == GetPrefix(w, uri)
    IN  IF found = {} THEN <<"prefix", None, local>>
        ELSE IF \E p \in found : \/ Doc!Lookup(CurrentScope, p) # uri
                                 \/ isAttribute /\ p = None
        THEN <<"?", uri, local>>
        ELSE <<"uri", uri, local>>

NamesOfTag == {Tag.name} \cup {a.name : a \in Tag.attrs}

\* A prefix is declared once in a tag, before the attributes, and not with a
\* meaning other than the one the writer has just found for a name of the tag.
MayDeclare(prefix, uri) ==
    /\ w.pendingStartTag
    /\ prefix \notin Tag.declared /\ Tag.attrs = {}
    /\ prefix # None => uri # None
    /\ \A n \in NamesOfTag :
         n[1] = "uri" => n[2] # Doc!Lookup(Tag.scope, prefix)

\* An attribute is written once in a tag.
MayHaveAttribute(local) ==
    /\ w.pendingStartTag
    /\ \A a \in Tag.attrs : a.name[3] # local

Ask(events) == asked' = asked \o events /\ UNCHANGED section
AskInTag(tag) == asked' = [asked EXCEPT ![Len(asked)] = tag] /\ UNCHANGED section
AskChars(text) ==
    asked' = asked \o [i \in 1 .. Len(text) |-> [kind |-> "char", char |-> text[i]]]

HasPart(s, t) == \E i \in 0 .. Len(s) - Len(t) : SubSeq(s, i + 1, i + Len(t)) = t

-----------------------------------------------------------------------------
(* The calls.                                                              *)

MCStartElement ==
    /\ Depth < MaxDepth /\ ~w.inCdata /\ ~w.inDtd
    /\ \E local \in IF theme = "markup" THEN {"a", "b"} ELSE {"a"} :
         /\ StartElement(QName(None, local))
         /\ Ask(<< [Start(<<"prefix", None, local>>) EXCEPT !.scope = CurrentScope] >>)

MCStartElementPrefixed ==
    /\ theme = "names" /\ Depth < MaxDepth
    /\ StartElement(QName("p", "a"))
    /\ Ask(<< [Start(<<"prefix", "p", "a">>) EXCEPT !.scope = CurrentScope] >>)

MCStartElementNs ==
    /\ theme = "names" /\ Depth < MaxDepth
    /\ \E uri \in Uris : \E qName \in ResolvedNames(w, uri, "a") :
         /\ StartElement(qName)
         /\ Ask(<< [Start(AskedInNamespace(uri, "a", FALSE)) EXCEPT !.scope = CurrentScope] >>)

MCEndElement ==
    /\ ~w.inCdata /\ ~w.inDtd
    /\ EndElement
    /\ Ask(IF Depth = 0 THEN <<>> ELSE << [kind |-> "end"] >>)

MCNamespace ==
    /\ \E prefix \in {None, "p"}, uri \in Uris \cup {None, "&", "wide"} :
         /\ uri \in {"&", "wide"} <=> theme = "texts"
         /\ theme \in {"names", "texts"}
         /\ MayDeclare(prefix, uri)
         /\ Namespace(prefix, uri)
         /\ AskInTag([Tag EXCEPT
                !.declared = @ \cup {prefix},
                !.scope = [p \in DOMAIN @ \cup {prefix} |-> IF p = prefix THEN uri ELSE @[p]]])

MCAttributeNs ==
    /\ theme = "names" /\ MayHaveAttribute("i")
    /\ \E uri \in Uris : \E qName \in ResolvedNames(w, uri, "i") :
         /\ Attribute(qName, <<>>)
         /\ AskInTag([Tag EXCEPT !.attrs = @ \cup
                {[name |-> AskedInNamespace(uri, "i", TRUE), value |-> <<>>]}])

MCAttributePrefixed ==
    /\ theme = "names" /\ MayHaveAttribute("i") /\ "p" \in DOMAIN CurrentScope
    /\ Attribute(QName("p", "i"), <<>>)
    /\ AskInTag([Tag EXCEPT !.attrs = @ \cup
            {[name |-> <<"prefix", "p", "i">>, value |-> <<>>]}])

\* U+007F is not escaped, though XML 1.1 asks for it.
Escapable == Chars \ IF w.xml11 THEN {"DEL"} ELSE {}

MCAttribute ==
    /\ theme \in {"texts", "markup"}
    /\ \E value \in IF theme = "markup" THEN { <<>> } ELSE {<<"x", c>> : c \in Escapable} :
         IF w.pendingStartTag
         THEN /\ MayHaveAttribute("i")
              /\ Attribute(QName(None, "i"), value)
              /\ AskInTag([Tag EXCEPT !.attrs = @ \cup
                    {[name |-> <<"prefix", None, "i">>, value |-> value]}])
         ELSE Attribute(QName(None, "i"), value) /\ Ask(<<>>)

\* The texts of a document: a carriage return survives in XML 1.1 only.  The
\* first text may hold any character, the others those of an end mark.
Texts ==
    IF theme # "texts" THEN { <<>>, <<"x">> }
    ELSE { <<"]", "]", ">">>, <<"]", "]">>, <<">">> }
         \cup IF Len(asked) = 1
              THEN {<<c>> : c \in Escapable \ IF w.xml11 THEN {} ELSE {"\r"}}
              ELSE {}

\* In a CDATA section nothing can be escaped; a program does not spread its end
\* mark over two calls.
CdataTexts ==
    {t \in Texts :
        /\ HasPart(section \o t, <<"]", "]", ">">>) => HasPart(t, <<"]", "]", ">">>)
        /\ \A i \in 1 .. Len(t) :
             /\ t[i] \notin Unmappable[w.charset]
             /\ w.xml11 => t[i] \notin {"\r", "LS"}}

MCCharacters ==
    /\ theme \in {"texts", "markup"} /\ Depth > 0
    /\ \E text \in IF w.inCdata THEN CdataTexts ELSE Texts :
         /\ Characters(text)
         /\ IF result' = "InvalidInput" THEN UNCHANGED <<asked, section>>
            ELSE /\ AskChars(text)
                 /\ section' = IF w.inCdata THEN section \o text ELSE section

MCStartCdata ==
    /\ theme \in {"texts", "markup"} /\ Depth > 0 /\ ~w.inCdata
    /\ Call(Finish(WriteStartCdata(w)))
    /\ Ask(<<>>)

MCEndCdata ==
    /\ w.inCdata
    /\ Call(Finish(WriteEndCdata(w)))
    /\ section' = <<>> /\ UNCHANGED asked

CommentTexts ==
    IF theme = "texts"
    THEN { <<"-">>, <<"-", "-">>, <<"-", "-", ">">>, <<"-", "-", "-", "x">>, <<"x", "-">> }
    ELSE { <<"x">> }

MCComment ==
    /\ theme # "names" /\ ~w.inCdata
    /\ \E text \in CommentTexts :
         /\ Call(Finish(WriteComment(w, text)))
         /\ Ask(IF w.inDtd /\ ~ShouldWriteDeclaration(w) THEN <<>>
                ELSE << [kind |-> "comment", text |-> text] >>)

PiTexts ==
    IF theme = "texts"
    THEN { <<"?">>, <<"?", ">">>, <<"x", "?", "?", ">", "?">> }
    ELSE { <<"x">> } \cup IF theme = "markup" THEN { <<>> } ELSE {}

\* In a document type declaration a PI is written where it is asked for, so a
\* program writes one only when the internal subset is open.
MCProcessingInstruction ==
    /\ theme # "names" /\ ~w.inCdata
    /\ w.inDtd => w.dtdInternalSubsetOpen /\ ShouldWriteDeclaration(w)
    /\ \E text \in PiTexts :
         /\ Call(Finish(WriteProcessingInstruction(w, "t", text)))
         /\ Ask(<< [kind |-> "pi", text |-> <<"t">> \o text] >>)

MCEntityRef ==
    /\ theme = "markup" /\ Depth > 0 /\ ~w.inCdata
    /\ Call(Finish(WriteEntityRef(w, "e")))
    /\ Ask(<< [kind |-> "entity", name |-> <<"e">>] >>)

MCRaw ==
    /\ theme = "markup" /\ Depth > 0 /\ ~w.inCdata
    /\ Call(Finish(WriteRaw(w, <<"x">>)))
    /\ AskChars(<<"x">>) /\ UNCHANGED section

MCFlush ==
    /\ theme = "markup"
    /\ Flush
    /\ Ask(<<>>)

-----------------------------------------------------------------------------
(* The document type declaration.                                          *)

Ids == { <<>>, <<"s">> }
ExternalId(public, system) ==
    (IF public # <<>> THEN <<"PUBLIC", "\"">> \o public \o <<"\"", "\"">> \o system \o <<"\"">>
     ELSE IF system # <<>> THEN <<"SYSTEM", "\"">> \o system \o <<"\"">>
     ELSE <<>>)

MCStartDtd ==
    /\ theme = "dtd" /\ asked = <<>> /\ ~w.inDtd
    /\ \E public \in Ids, system \in Ids :
         /\ Call(Finish(WriteStartDtd(w, "a", public, system)))
         /\ Ask(<< [kind |-> "doctype", text |->
                <<"a">> \o IF w.standalone THEN <<>> ELSE ExternalId(public, system)] >>)

MCEndDtd ==
    /\ w.inDtd
    /\ Call(Finish(WriteEndDtd(w)))
    /\ Ask(<< [kind |-> "end doctype"] >>)

\* Each kind of declaration: what is written, and what is to be read.
Literal(value) == <<"\"">> \o value \o <<"\"">>
DeclarationCalls ==
    { [writer |-> WriteElementDecl(w, "a", "EMPTY"),
       text |-> <<"<!ELEMENT", "a", "EMPTY">>],
      [writer |-> WriteAttributeDecl(w, "a", "i", None, TRUE, <<"\"", ">">>),
       text |-> <<"<!ATTLIST", "a", "i", "CDATA">> \o Literal(<<"\"", ">">>)],
      [writer |-> WriteAttributeDecl(w, "a", "i", "#REQUIRED", FALSE, <<>>),
       text |-> <<"<!ATTLIST", "a", "i", "CDATA", "#REQUIRED">>],
      [writer |-> WriteInternalEntityDecl(w, "e", FALSE, <<"%", ">", "\"">>),
       text |-> <<"<!ENTITY", "e">> \o Literal(<<"%", ">", "\"">>)],
      [writer |-> WriteInternalEntityDecl(w, "e", TRUE, <<"x">>),
       text |-> <<"<!ENTITY", "%", "e">> \o Literal(<<"x">>)],
      [writer |-> WriteExternalEntityDecl(w, "e", FALSE, <<"s">>, <<"s">>),
       text |-> <<"<!ENTITY", "e">> \o ExternalId(<<"s">>, <<"s">>)],
      [writer |-> WriteNotationDecl(w, "n", <<"s">>, <<>>),
       text |-> <<"<!NOTATION", "n", "PUBLIC">> \o Literal(<<"s">>)],
      [writer |-> WriteUnparsedEntityDecl(w, "e", <<>>, <<"s">>, "n"),
       text |-> <<"<!ENTITY", "e">> \o ExternalId(<<>>, <<"s">>) \o <<"NDATA", "n">>] }

\* A declaration of the external subset is read in a standalone document only.
\* The first declaration is of any kind, the others are of an element.
MCDeclaration ==
    /\ w.inDtd
    /\ \E d \in DeclarationCalls :
         /\ Len(asked) > 1 => d.text[1] = "<!ELEMENT"
         /\ Call(Finish(d.writer))
         /\ Ask(IF w.inExternalSubset /\ ~w.standalone THEN <<>>
                ELSE << [kind |-> "declaration", text |-> d.text] >>)

MCExternalSubset ==
    /\ w.inDtd
    /\ IF w.inExternalSubset THEN EndExternalSubset ELSE StartExternalSubset
    /\ Ask(<<>>)

-----------------------------------------------------------------------------
MCInit ==
    /\ theme \in {"names", "markup", "texts", "dtd"}
    /\ \E charset \in MCCharsets, xml11, standalone, indent \in BOOLEAN :
         /\ theme # "texts" => charset = "UTF-16" /\ ~xml11
         /\ standalone => theme = "dtd"
         /\ indent => theme \in {"markup", "dtd"}
         /\ w = NewWriter(charset, xml11, standalone, indent)
    /\ result = "ok"
    /\ declared = << NoBindings >>
    /\ asked = <<>> /\ section = <<>> /\ calls = 0

MCNext ==
    /\ calls < MaxCalls[theme] /\ calls' = calls + 1
    /\ UNCHANGED theme
    /\ \/ MCStartElement \/ MCStartElementPrefixed \/ MCStartElementNs
       \/ MCEndElement \/ MCNamespace
       \/ MCAttribute \/ MCAttributeNs \/ MCAttributePrefixed
       \/ MCCharacters \/ MCStartCdata \/ MCEndCdata
       \/ MCComment \/ MCProcessingInstruction \/ MCEntityRef \/ MCRaw
       \/ MCFlush
       \/ MCStartDtd \/ MCEndDtd \/ MCDeclaration \/ MCExternalSubset
    /\ result' = "sink" => theme = "markup"

MCSpec == MCInit /\ [][MCNext]_mcVars

MCMaxCalls == [t \in {"names", "markup", "texts", "dtd"} |->
    CASE t = "names" -> 6 [] t = "markup" -> 5 [] t = "texts" -> 4 [] t = "dtd" -> 6]

-----------------------------------------------------------------------------
(* What is read from the sink and the buffer once the open start tag and   *)
(* the open document type declaration are closed.                          *)
Rest ==
    IF w.pendingStartTag THEN <<">">>
    ELSE IF ~w.inDtd THEN <<>>
    ELSE IF w.dtdInternalSubsetOpen THEN <<"]", ">">>
    ELSE <<">">>

TheReading == Doc!Reading(w.sink \o w.buffer \o Rest, w.xml11)

\* Blanks between markup are layout when the writer indents.
IsLayout(event) == w.indent /\ event.kind = "char" /\ event.char \in Doc!Blanks
HeardIn(reading) == SelectSeq(Doc!EventsOf(reading), LAMBDA e : ~IsLayout(e))

Expected == asked \o IF w.inDtd THEN << [kind |-> "end doctype"] >> ELSE <<>>

\* The same event: a sanitised text may have blanks the one asked for has not,
\* and the names of a tag are NamesAsAsked's business.
SameEvent(a, h) ==
    /\ a.kind = h.kind
    /\ CASE a.kind = "char" -> a.char = h.char
         [] a.kind \in {"comment", "pi"} -> a.text = Doc!WithoutBlanks(h.text)
         [] a.kind \in {"doctype", "declaration"} -> a.text = h.text
         [] a.kind = "entity" -> a.name = h.name
         [] a.kind = "start" -> /\ {x.value : x \in a.attrs} = {x.value : x \in h.attrs}
                                /\ a.name[3] = h.name[2]
         [] OTHER -> TRUE

\* What is read back from what was written is what was asked for, event by
\* event: no text ends the comment, PI, section or literal it stands in or is
\* taken for markup, no character is lost or changed in any of the charsets,
\* every start tag ends where its content begins, nothing is lost or repeated
\* when the sink refuses a buffer, and the declarations of the external subset
\* appear only in a standalone document (writer.rs, the calls and their
\* escapes).  The output of UTF-16 begins with one byte order mark, whichever
\* call comes first (emit_bom_if_needed).
ReadBack ==
    LET reading == TheReading
        heard   == HeardIn(reading)
        written == w.sink \o w.buffer
    IN  /\ reading.at # "wrong"
        /\ \A i \in 1 .. Len(written) : written[i] = "BOM" <=> i = 1 /\ w.charset \in Bom
        /\ Len(heard) = Len(Expected)
        /\ \A i \in 1 .. Len(heard) : SameEvent(Expected[i], heard[i])

\* The expanded name a name asked for must have where it is read.
IsNamed(n, scope, h) ==
    CASE n[1] = "uri" -> h = <<n[2], n[3]>>
      [] n[1] = "prefix" -> h = <<Doc!Lookup(scope, n[2]), n[3]>>
      [] n[1] = "?" -> h[2] = n[3]

IsAttributeNamed(n, scope, h) ==
    IF n[1] = "prefix" /\ n[2] = None THEN h = <<"", n[3]>> ELSE IsNamed(n, scope, h)

\* Whatever declarations are left out as redundant, every element is read with
\* the bindings the program declared for it and the elements around it, and
\* the names it asked for by URI or by prefix have that URI
\* (write_namespace_declaration, get_prefix).
NamesAsAsked ==
    LET heard == HeardIn(TheReading)
        Bindings(scope) == [p \in {None, "p"} |-> Doc!Lookup(scope, p)]
    IN  \A i \in 1 .. Len(heard) :
          heard[i].kind = "start" =>
            /\ Bindings(heard[i].scope) = Bindings(asked[i].scope)
            /\ IsNamed(asked[i].name, asked[i].scope, heard[i].name)
            /\ \A a \in asked[i].attrs : \E h \in heard[i].attrs :
                 IsAttributeNamed(a.name, asked[i].scope, h.name)

\* Indentation adds nothing to an element that holds only text, CDATA sections
\* and references, and nothing outside the places where markup may stand: the
\* flags has_nested_elements and at_document_start, set and reset by the calls
\* for other elements, decide where it goes (write_indent).
TextLeftAlone ==
    w.indent =>
        LET heard == Doc!EventsOf(TheReading)
        IN  \A i, j \in 1 .. Len(heard) :
              /\ heard[i].kind = "start" /\ heard[j].kind = "end" /\ i < j
              /\ \A k \in i + 1 .. j - 1 : heard[k].kind \in {"char", "entity"}
              => \A k \in i + 1 .. j - 1 : heard[k].kind = "char" => heard[k].char \notin Doc!Blanks
=============================================================================
