---------------------------- MODULE EntityMeaning ----------------------------
(***************************************************************************)
(* What XML 1.0, 4.4, makes of the references in a document, read without  *)
(* caches, buffers or counters: every reference is replaced where it       *)
(* stands.  The pieces are those of Entities.                              *)
(***************************************************************************)
EXTENDS Entities

\* events: as an application hears them, one <<"text", c>> for each character.
\* odd: the document has something the scanner is known to refuse although it is
\* legal.
Nothing == [events |-> << >>, value |-> << >>, depth |-> 1, legal |-> TRUE,
            odd |-> FALSE, last |-> "none"]

Hears(acc, event) == [acc EXCEPT !.events = Append(@, event)]
Illegal(acc)     == [acc EXCEPT !.legal = FALSE]
After(acc, last) == [acc EXCEPT !.last = last]

Declared(d, n)  == d.entity[n].kind # "none"
\* Without its declarations a document need not be refused for an entity.
Pardoned(d)     == d.skip \/ d.peSeen
Usable(d, n, stack) ==
    /\ d.entity[n].kind \in {"internal", "external"}
    /\ ~(d.standalone /\ d.entity[n].far)
    /\ n \notin ToSet(stack)

RECURSIVE ValueOf(_, _, _, _), ContentOf(_, _, _, _)

\* A reference in a value stands for its text, in which no < and no external
\* entity may be met.
Included(d, n, stack, acc) ==
    IF ~Declared(d, n)
    THEN IF Pardoned(d) THEN Hears(acc, <<"missing", n>>) ELSE Illegal(acc)
    ELSE IF ~Usable(d, n, stack) \/ d.entity[n].kind = "external" THEN Illegal(acc)
    ELSE ValueOf(d, d.entity[n].text, Append(stack, n), acc)

ValueOf(d, text, stack, acc) ==
    IF text = << >> \/ ~acc.legal THEN acc
    ELSE LET item == Head(text)
             next == CASE item.is = "text" \/ item.is = "predefined" ->
                            [acc EXCEPT !.value = Append(@, Char(item.of))]
                       [] item.is = "charref" ->
                            [acc EXCEPT !.value = Append(@, Char(item.of)), !.odd = TRUE]
                       [] item.is = "reference" -> Included(d, item.of, stack, acc)
                       [] OTHER -> Illegal(acc)
         IN  ValueOf(d, Tail(text), stack, next)

Value(d, text, stack, acc) ==
    LET r == ValueOf(d, text, stack, [acc EXCEPT !.value = << >>])
    IN  IF r.legal THEN Hears(r, <<"attribute", r.value>>) ELSE r

\* The default value of v comes with every e that has none.
Default(d) == ValueOf(d, d.default, << >>, Nothing)

CharacterIn(acc, c) ==
    LET heard_ == Hears(acc, <<"text", c>>)
    IN  IF c # ">" THEN After(heard_, IF c = "]]" THEN "brackets" ELSE "none")
        ELSE IF acc.last = "brackets" THEN Illegal(acc)
        ELSE [After(heard_, "none") EXCEPT !.odd = @ \/ acc.last = "brackets before"]

Boundary(acc, event) ==
    After(Hears(acc, event), IF acc.last = "none" THEN "none" ELSE "brackets before")

\* A reference in content: its text is content of its own.
Replaced(d, n, stack, acc) ==
    LET e == d.entity[n]
        begun == Boundary(acc, <<"start", n>>)
        text  == ContentOf(d, e.text, Append(stack, n), begun)
    IN  IF ~Declared(d, n)
        THEN IF Pardoned(d) THEN After(Hears(acc, <<"missing", n>>), "none") ELSE Illegal(acc)
        ELSE IF ~Usable(d, n, stack) THEN Illegal(acc)
        ELSE IF e.kind = "external" /\ d.external = "off"
        THEN Boundary(begun, <<"end", n>>)
        ELSE IF e.kind = "external" /\ d.external = "denied" THEN Illegal(begun)
        ELSE IF ~text.legal THEN text
        ELSE Boundary(text, <<"end", n>>)

\* The content of one text: what it opens it closes.
Step(d, item, stack, low, acc) ==
    CASE item.is = "text" -> CharacterIn(acc, item.of)
      [] item.is \in {"predefined", "charref"} -> After(Hears(acc, <<"text", item.of>>), "none")
      [] item.is = "open" ->
           LET open == [After(Hears(acc, <<"open">>), "none") EXCEPT !.depth = @ + 1]
           IN  IF d.default = << >> THEN open ELSE Hears(open, <<"attribute", Default(d).value>>)
      [] item.is = "close" ->
           IF acc.depth = low THEN Illegal(acc)
           ELSE [After(Hears(acc, <<"close">>), "none") EXCEPT !.depth = @ - 1]
      [] item.is = "attribute" ->
           LET r == Value(d, <<Reference(item.of)>>, stack,
                          After(Hears(acc, <<"open">>), "none"))
           IN  IF r.legal THEN Hears(r, <<"close">>) ELSE r
      [] item.is = "reference" -> Replaced(d, item.of, stack, acc)
      [] item.is = "cut" -> Illegal(acc)

ContentOf(d, text, stack, acc) ==
    LET All == FoldLeft(LAMBDA a, item : IF a.legal THEN Step(d, item, stack, acc.depth, a) ELSE a,
                        acc, text)
    IN  IF All.depth # acc.depth THEN Illegal(All) ELSE All

\* An entity that is declared may not name an unparsed one, referenced or not.
NamesUnparsedIn(d) ==
    \E n, m \in Name :
        /\ d.entity[n].kind = "internal" /\ d.entity[m].kind = "unparsed"
        /\ {Reference(m), Attribute(m)} \cap ToSet(d.entity[n].text) # {}

Meaning(d) ==
    LET default == Default(d)
        begin   == [default EXCEPT !.value = << >>]
        content == ContentOf(d, d.content, << >>, begin)
    IN  IF ~default.legal THEN default
        ELSE IF content.legal /\ NamesUnparsedIn(d) THEN Illegal(content) ELSE content
=============================================================================
