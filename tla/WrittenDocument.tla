--------------------------- MODULE WrittenDocument ---------------------------
(***************************************************************************)
(* The reference for Writer: what a namespace-aware XML processor hears    *)
(* when it reads the pieces that were written, whether they end there or   *)
(* go on.  It follows XML 1.0 and Namespaces in XML, not the serializer:   *)
(* where a "-->", a "]]>" or a quotation mark stands, that is where the    *)
(* comment, the section or the literal ends, whoever wrote it.             *)
(*                                                                         *)
(* A reading is a record: the place in the document (at), the place a      *)
(* comment or PI returns to (back), the scopes of the open elements, the   *)
(* pieces of the name (name) and of the text (text) being read, the        *)
(* attributes read so far in a tag, and the events.  at = "wrong" is the   *)
(* reading of what is not well-formed.                                     *)
(***************************************************************************)
EXTENDS Naturals, Sequences, SequencesExt

CONSTANTS RefersTo      \* the character each reference stands for

NoScope == <<>>         \* the function with no prefix
InitialReading ==
    [ at |-> "content", back |-> "content", scopes |-> << NoScope >>, open |-> <<>>,
      name |-> <<>>, text |-> <<>>, attrs |-> {}, quoted |-> FALSE, events |-> <<>> ]

Blanks == {" ", "\t", "\n", "\r"}
WithoutBlanks(s) == SelectSeq(s, LAMBDA c : c \notin Blanks)

\* Which URI a prefix has in a scope.
Lookup(scope, prefix) ==
    IF prefix = "xml" THEN "xml namespace"
    ELSE IF prefix \in DOMAIN scope THEN scope[prefix]
    ELSE IF prefix = "" THEN "" ELSE "unbound"

\* The line ends a processor reads as a line feed.
Read(c, xml11) ==
    IF c = "\r" \/ (xml11 /\ c \in {"NEL", "LS"}) THEN "\n" ELSE c

CharEvent(c) == [kind |-> "char", char |-> c]
CharEvents(s) == [i \in 1 .. Len(s) |-> CharEvent(s[i])]

-----------------------------------------------------------------------------
Heard(r, event) == [r EXCEPT !.events = Append(@, event), !.text = <<>>]
At(r, place) == [r EXCEPT !.at = place, !.name = <<>>, !.text = <<>>]
Wrong(r) == [r EXCEPT !.at = "wrong"]

\* The tail of a text that, with ">", ends the section it stands in.
EndsWith(s, tail) == /\ Len(s) >= Len(tail)
                     /\ SubSeq(s, Len(s) - Len(tail) + 1, Len(s)) = tail
Without(s, n) == SubSeq(s, 1, Len(s) - n)

Declarations(attrs) == {a \in attrs : a.name[1] = "xmlns"}
Declares(a) == IF Len(a.name) = 1 THEN "" ELSE a.name[3]
UriOf(a) == IF a.value = <<>> THEN "" ELSE a.value[1]

\* The expanded name of a qualified name: an attribute with no prefix is in no
\* namespace.
Expanded(scope, qName, isAttribute) ==
    IF Len(qName) = 1
    THEN << IF isAttribute THEN "" ELSE Lookup(scope, ""), qName[1] >>
    ELSE << Lookup(scope, qName[1]), qName[3] >>

StartTagRead(r, empty) ==
    LET outer == r.scopes[Len(r.scopes)]
        declared == Declarations(r.attrs)
        scope == [p \in DOMAIN outer \cup {Declares(a) : a \in declared} |->
                    IF \E a \in declared : Declares(a) = p
                    THEN UriOf(CHOOSE a \in declared : Declares(a) = p)
                    ELSE outer[p]]
        event == [ kind |-> "start",
                   name |-> Expanded(scope, r.open[Len(r.open)], FALSE),
                   scope |-> scope,
                   attrs |-> {[name |-> Expanded(scope, a.name, TRUE), value |-> a.value] :
                                a \in r.attrs \ declared} ]
        started == [At(Heard(r, event), "content") EXCEPT
                        !.attrs = {}, !.scopes = Append(@, scope)]
    IN  IF empty
        THEN [started EXCEPT !.events = Append(@, [kind |-> "end"]),
                             !.scopes = r.scopes, !.open = Front(@)]
        ELSE started

InContent(r, c, xml11) ==
    CASE c = "<"          -> At(r, "tag")
      [] c = "</"         -> At(r, "end tag")
      [] c = "<!--"       -> [At(r, "comment") EXCEPT !.back = "content"]
      [] c = "<?"         -> [At(r, "pi") EXCEPT !.back = "content"]
      [] c = "<![CDATA["  -> At(r, "cdata")
      [] c = "<!DOCTYPE"  -> IF r.open = <<>> THEN At(r, "doctype") ELSE Wrong(r)
      [] c = "&"          -> At(r, "entity")
      [] c = "BOM"        -> IF r.events = <<>> THEN r ELSE Wrong(r)
      [] c \in DOMAIN RefersTo -> Heard(r, CharEvent(RefersTo[c]))
      [] xml11 /\ c = "DEL" -> Wrong(r)
      [] OTHER            -> Heard(r, CharEvent(Read(c, xml11)))

\* After "<" and the name, the attributes.
InTag(r, c) ==
    CASE c \in {" ", ">", "/>"} /\ r.name # <<>> ->
            LET named == [r EXCEPT !.open = Append(@, r.name), !.name = <<>>]
            IN  IF c = " " THEN At(named, "attribute")
                ELSE StartTagRead(named, c = "/>")
      [] OTHER -> [r EXCEPT !.name = Append(@, c)]

InAttribute(r, c) ==
    CASE c = "=\"" -> [r EXCEPT !.at = "value", !.text = <<>>]
      [] OTHER -> [r EXCEPT !.name = Append(@, c)]

InValue(r, c, xml11) ==
    CASE c = "\"" ->
            IF \E a \in r.attrs : a.name = r.name THEN Wrong(r)
            ELSE At([r EXCEPT !.attrs = @ \cup {[name |-> r.name, value |-> r.text]}],
                    "after value")
      [] c \in {"<", "&"} -> Wrong(r)
      [] c \in DOMAIN RefersTo -> [r EXCEPT !.text = Append(@, RefersTo[c])]
      [] OTHER -> [r EXCEPT !.text =
                      Append(@, IF Read(c, xml11) \in Blanks THEN " " ELSE Read(c, xml11))]

AfterValue(r, c) ==
    CASE c = " " -> At(r, "attribute")
      [] c \in {">", "/>"} -> StartTagRead(r, c = "/>")
      [] OTHER -> Wrong(r)

InEndTag(r, c) ==
    IF c # ">" THEN [r EXCEPT !.name = Append(@, c)]
    ELSE IF r.open = <<>> \/ r.name # r.open[Len(r.open)] THEN Wrong(r)
    ELSE [At(Heard(r, [kind |-> "end"]), "content") EXCEPT
            !.open = Front(@), !.scopes = Front(@)]

InComment(r, c) ==
    IF EndsWith(r.text, <<"-", "-">>)
    THEN IF c = ">"
         THEN At(Heard(r, [kind |-> "comment", text |-> Without(r.text, 2)]), r.back)
         ELSE Wrong(r)
    ELSE [r EXCEPT !.text = Append(@, c)]

InPi(r, c) ==
    IF c = ">" /\ EndsWith(r.text, <<"?">>)
    THEN At(Heard(r, [kind |-> "pi", text |-> Without(r.text, 1)]), r.back)
    ELSE [r EXCEPT !.text = Append(@, c)]

InCdata(r, c, xml11) ==
    IF c = ">" /\ EndsWith(r.text, <<"]", "]">>)
    THEN At([r EXCEPT !.events = @ \o CharEvents(Without(r.text, 2))], "content")
    ELSE [r EXCEPT !.text = Append(@, Read(c, xml11))]

InEntity(r, c) ==
    IF c = ";" THEN At(Heard(r, [kind |-> "entity", name |-> r.name]), "content")
    ELSE [r EXCEPT !.name = Append(@, c)]

\* A declaration ends at the first ">" that is in no literal; a literal ends at
\* the next quotation mark, and holds no parameter-entity reference.
InDeclaration(r, c, End(_, _)) ==
    CASE c = "\"" -> [r EXCEPT !.quoted = ~@, !.text = Append(@, c)]
      [] r.quoted /\ c = "%" -> Wrong(r)
      [] r.quoted /\ c \in DOMAIN RefersTo -> [r EXCEPT !.text = Append(@, RefersTo[c])]
      [] ~r.quoted /\ c \in {">", "[", "]"} -> End(r, c)
      [] OTHER -> [r EXCEPT !.text = Append(@, c)]

DoctypeEvent(r) == [kind |-> "doctype", text |-> WithoutBlanks(r.text)]

InDoctype(r, c) ==
    InDeclaration(r, c, LAMBDA q, d :
        CASE d = "[" -> At(Heard(q, DoctypeEvent(q)), "subset")
          [] d = ">" -> At(Heard(Heard(q, DoctypeEvent(q)), [kind |-> "end doctype"]), "content")
          [] OTHER -> Wrong(q))

InSubset(r, c) ==
    CASE c \in {"<!ELEMENT", "<!ATTLIST", "<!ENTITY", "<!NOTATION"} ->
            [At(r, "declaration") EXCEPT !.text = <<c>>]
      [] c = "<!--" -> [At(r, "comment") EXCEPT !.back = "subset"]
      [] c = "<?"   -> [At(r, "pi") EXCEPT !.back = "subset"]
      [] c = "]"    -> At(r, "after subset")
      [] c \in Blanks -> r
      [] OTHER -> Wrong(r)

InSubsetDeclaration(r, c) ==
    InDeclaration(r, c, LAMBDA q, d :
        IF d = ">"
        THEN At(Heard(q, [kind |-> "declaration", text |-> WithoutBlanks(q.text)]), "subset")
        ELSE Wrong(q))

AfterSubset(r, c) ==
    IF c = ">" THEN At(Heard(r, [kind |-> "end doctype"]), "content") ELSE Wrong(r)

Step(r, c, xml11) ==
    CASE r.at = "content"      -> InContent(r, c, xml11)
      [] r.at = "tag"          -> InTag(r, c)
      [] r.at = "attribute"    -> InAttribute(r, c)
      [] r.at = "value"        -> InValue(r, c, xml11)
      [] r.at = "after value"  -> AfterValue(r, c)
      [] r.at = "end tag"      -> InEndTag(r, c)
      [] r.at = "comment"      -> InComment(r, c)
      [] r.at = "pi"           -> InPi(r, c)
      [] r.at = "cdata"        -> InCdata(r, c, xml11)
      [] r.at = "entity"       -> InEntity(r, c)
      [] r.at = "doctype"      -> InDoctype(r, c)
      [] r.at = "subset"       -> InSubset(r, c)
      [] r.at = "declaration"  -> InSubsetDeclaration(r, c)
      [] r.at = "after subset" -> AfterSubset(r, c)
      [] r.at = "wrong"        -> r

\* The reading of a sequence of pieces.
Reading(pieces, xml11) ==
    LET read[i \in 0 .. Len(pieces)] ==
            IF i = 0 THEN InitialReading ELSE Step(read[i - 1], pieces[i], xml11)
    IN  read[Len(pieces)]

\* The events of a reading, with the part of a CDATA section already read.
EventsOf(r) == IF r.at = "cdata" THEN r.events \o CharEvents(r.text) ELSE r.events
=============================================================================
