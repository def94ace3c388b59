--------------------------- MODULE DoctypeMeaning ---------------------------
(***************************************************************************)
(* What XML 1.0 makes of a DOCTYPE: one input in which the text of a       *)
(* parameter entity stands where the reference was, followed by a marker,  *)
(* read by recursive descent.  No buffers, no positions, no tables besides *)
(* the declarations that bind.  The tokens are those of Doctype.           *)
(***************************************************************************)
EXTENDS Doctype

\* open: the references whose text is being read, each with a number of its
\* own, where it stood and how many sections were open.  odd, strange: the
\* document has something that the scanner is known to refuse, or whose nesting
\* it is known to misjudge.
Nothing(d) ==
    [doc |-> d, rest |-> d.text, open |-> << >>, far |-> FALSE, sections |-> << >>,
     number |-> 0, lastSplice |-> [of |-> 0, any |-> FALSE],
     general |-> [n \in Name |-> Undeclared], param |-> [p \in Param |-> Undeclared],
     elements |-> {}, events |-> << >>, unparsed |-> {}, legal |-> TRUE, broken |-> FALSE,
     size |-> 0, saw |-> FALSE, odd |-> FALSE, strange |-> FALSE]

Tell(s, event) == [s EXCEPT !.events = Append(@, event)]
Illegal(s)     == [s EXCEPT !.legal = FALSE]
Drop(s)        == [s EXCEPT !.rest = Tail(@)]
Ends(s)        == ~s.legal \/ s.rest = << >>
Is(s, is)   == s.legal /\ s.rest # << >> /\ Head(s.rest).is = is

Scope(s)  == [i \in DOMAIN s.open |-> s.open[i].number]
Far(s)    == s.far \/ \E i \in DOMAIN s.open : s.open[i].far
\* The innermost reference between declarations: whose buffer it is.
Buffer(s) ==
    LET between == {i \in DOMAIN s.open : s.open[i].where = "between"}
    IN  IF between = {} THEN 0 ELSE s.open[Max(between)].number

Text(s, p) ==
    CASE s.param[p].kind = "internal" -> s.param[p].text
      [] s.param[p].kind = "external" /\ s.doc.external -> s.doc.file[p]
      [] OTHER -> << >>

\* WFC: PEs in Internal Subset; WFC: No Recursion.
Enter(s, where) ==
    LET p == Head(s.rest).of
        e == [of |-> p, number |-> s.number + 1, where |-> where,
              level |-> Len(s.sections), far |-> s.param[p].kind = "external"]
    IN  IF s.param[p].kind = "none" /\ (where = "between" \/ Far(s))
        THEN [Drop(s) EXCEPT !.odd = TRUE, !.saw = @ \/ (where = "between" /\ ~Far(s))]
        ELSE IF \/ where # "between" /\ ~Far(s)
                \/ \E i \in DOMAIN s.open : s.open[i].of = p
        THEN Illegal(s)
        ELSE [s EXCEPT !.rest = Text(s, p) \o <<Of("leave", p)>> \o Tail(@),
                       !.open = Append(@, e), !.number = @ + 1,
                       !.size = @ + Max({1, Len(Text(s, p))}),
                       !.saw = @ \/ (where = "between" /\ ~Far(s)),
                       !.lastSplice = IF where = "within" THEN [of |-> Buffer(s), any |-> TRUE]
                                      ELSE @,
                       !.strange = @ \/ (where = "within" /\ s.open # << >>
                                            /\ Last(s.open).where = "within")]

\* What is begun between declarations is ended there, with its sections.
Leave(s, where) ==
    LET e == Last(s.open)
    IN  IF e.where = "between" /\ (where # "between" \/ Len(s.sections) # e.level)
        THEN Illegal(s) ELSE [Drop(s) EXCEPT !.open = Front(@)]

RECURSIVE Ready(_, _), LiteralOf(_, _, _, _), Ignored(_, _), Declarations(_), Over(_, _)

\* A token is next, no reference and no marker.
Ready(s, where) ==
    CASE Is(s, "leave") -> Ready(Leave(s, where), where)
      [] Is(s, "%")     -> Ready(Enter(s, where), where)
      [] OTHER -> s

\* References there could be anywhere in a declaration of an entity.
Plainly(s) == LET r == Ready(s, "within") IN [r EXCEPT !.odd = @ \/ Is(s, "%")]

\* Quotes end a literal where it was begun.  base: the references open there.
LiteralOf(s, quote, base, value) ==
    IF Ends(s) THEN [s |-> Illegal(s), value |-> value]
    ELSE LET head == Head(s.rest)
             inner == Len(s.open) > base
         IN  CASE head.is = "leave" /\ ~inner -> [s |-> Illegal(s), value |-> value]
               [] head.is = "leave" ->
                    LiteralOf([Drop(s) EXCEPT !.open = Front(@)], quote, base, value)
               [] head.is = "%" ->
                    LiteralOf([Enter(s, "literal") EXCEPT !.odd = @ \/ inner], quote, base, value)
               [] head = Of("quote", quote) /\ ~inner -> [s |-> Drop(s), value |-> value]
               [] head.is = "&#37;" ->
                    LiteralOf(Drop(s), quote, base, Append(value, Of("%", head.of)))
               [] OTHER -> LiteralOf(Drop(s), quote, base, Append(value, head))

Bound(s, is, n, kind, value, event) ==
    IF is = "param"
    THEN IF s.param[n].kind # "none" THEN s
         ELSE [s EXCEPT !.param[n] = Entity(kind, value, Far(s)), !.events = @ \o event]
    ELSE IF s.general[n].kind # "none" THEN s
         ELSE [s EXCEPT !.general[n] = Entity(kind, value, Far(s)), !.events = @ \o event,
                        !.unparsed = IF kind = "unparsed" THEN @ \cup {n} ELSE @]

\* VC: Proper Declaration/PE Nesting.
Closed(s, scope) ==
    IF Is(s, ">") THEN [Drop(s) EXCEPT !.broken = @ \/ Scope(s) # scope] ELSE Illegal(s)

EntityDeclaration(s) ==
    LET n  == Head(s.rest).of
        is == IF Head(s.rest).is = "<!ENTITY" THEN "entity" ELSE "param"
        r  == Plainly(Drop(s))
    IN  IF Is(r, "quote")
        THEN LET lit == LiteralOf(Drop(r), Head(r.rest).of, Len(r.open), << >>)
                 end == Closed(Plainly(lit.s), Scope(s))
             IN  Bound(end, is, n, "internal", lit.value, <<<<is, n, lit.value>>>>)
        ELSE IF Is(r, "SYSTEM")
        THEN LET id == Plainly(Drop(r))
             IN  IF Is(id, "NDATA") /\ is = "entity"
                 THEN Bound(Closed(Plainly(Drop(id)), Scope(s)), is, n, "unparsed", << >>, << >>)
                 ELSE Bound(Closed(id, Scope(s)), is, n, "external", << >>,
                            <<<<"external " \o is, n>>>>)
        ELSE Illegal(r)

ElementDeclaration(s) ==
    LET name == Ready(Drop(s), "within")
        spec == Ready(Drop(name), "within")
        n    == Head(name.rest).of
    IN  IF ~Is(name, "name") \/ ~Is(spec, "EMPTY") THEN Illegal(name)
        ELSE LET end == Closed(Ready(Drop(spec), "within"), Scope(s))
             IN  IF n \in end.elements THEN end
                 ELSE [Tell(end, <<"element", n>>) EXCEPT !.elements = @ \cup {n}]

\* Through the nested sections; a reference is no reference there.
Ignored(s, depth) ==
    IF depth = 0 THEN s
    ELSE IF Ends(s) THEN Illegal(s)
    ELSE LET is == Head(s.rest).is
         IN  IF is = "leave" THEN Ignored(Leave(s, "within"), depth)
             ELSE Ignored(Drop(s), CASE is = "<![" -> depth + 1 [] is = "]]>" -> depth - 1
                                     [] OTHER -> depth)

Elsewhere(s) == s.lastSplice.any /\ s.lastSplice.of # Buffer(s)

Section(s) ==
    LET word == Ready(Drop(s), "within")
        open == Ready(Drop(word), "within")
    IN  IF ~(Is(word, "INCLUDE") \/ Is(word, "IGNORE")) \/ ~Is(open, "[")
        THEN Illegal(word)
        ELSE IF Head(word.rest).is = "INCLUDE"
        THEN [Drop(open) EXCEPT !.sections =
                Append(@, [begin |-> Scope(s), scope |-> Scope(open), stale |-> Elsewhere(open)])]
        ELSE LET end == Ignored(Drop(open), 1)
             IN  [end EXCEPT !.broken = @ \/ Scope(s) # Scope(open),
                             !.strange = @ \/ Scope(s) # Scope(open)]

\* VC: Proper Conditional Section/PE Nesting.
EndSection(s) ==
    LET sec  == Last(s.sections)
        bad  == Scope(s) # sec.scope \/ sec.begin # sec.scope
    IN  [Drop(s) EXCEPT !.sections = Front(@), !.broken = @ \/ bad,
            !.strange = @ \/ sec.stale \/ Elsewhere(s) \/ (bad /\ Scope(s) = sec.scope)]

\* The section was begun where this text is read between declarations.
Within(s) ==
    LET between == {i \in DOMAIN s.open : s.open[i].where = "between"}
    IN  Len(s.sections) > (IF between = {} THEN 0 ELSE s.open[Max(between)].level)

Declarations(s) ==
    LET r == Ready(s, "between")
    IN  IF Ends(r) THEN IF r.sections = << >> THEN r ELSE Illegal(r)
        ELSE IF ~s.far /\ r.open = << >> /\ Head(r.rest).is = "]" THEN r
        ELSE Declarations(
                CASE Is(r, "comment") -> Tell(Drop(r), <<"comment">>)
                  [] Is(r, "<!ENTITY") \/ Is(r, "<!ENTITY %") -> EntityDeclaration(r)
                  [] Is(r, "<!ELEMENT") -> ElementDeclaration(r)
                  [] Is(r, "<![") /\ (r.far \/ r.open # << >>) -> Section(r)
                  [] Is(r, "]]>") /\ Within(r) -> EndSection(r)
                  [] OTHER -> Illegal(r))

\* What is not processed is passed over to its > outside of quotes.
Over(s, quote) ==
    IF Ends(s) THEN Illegal(s)
    ELSE LET head == Head(s.rest)
         IN  IF head.is = "quote"
             THEN Over(Drop(s), CASE quote = "" -> head.of [] quote = head.of -> ""
                                  [] OTHER -> quote)
             ELSE IF quote = "" /\ head.is \in {">", "]]>", "comment", "root"} THEN Drop(s)
             ELSE Over(Drop(s), quote)

RECURSIVE PassedOver(_), Prolog(_)
PassedOver(s) ==
    IF Ends(s) \/ Head(s.rest).is = "]" THEN s
    ELSE PassedOver(
            CASE Is(s, "comment") -> Tell(Drop(s), <<"comment">>)
              [] Is(s, "%") -> Drop(s)
              [] Head(s.rest).is \in {"<!ENTITY", "<!ENTITY %", "<!ELEMENT", "<!["} -> Over(s, "")
              [] OTHER -> Illegal(s))

SubsetEnd(s) == IF Is(s, "]") THEN Drop(s) ELSE Illegal(s)

InternalSubset(s) ==
    IF ~Is(s, "[") THEN s
    ELSE SubsetEnd(
            IF s.doc.handling = "skip" THEN PassedOver(Drop(s)) ELSE Declarations(Drop(s)))

ExternalSubset(s) ==
    IF ~s.doc.far \/ s.doc.handling = "skip" THEN s
    ELSE LET begun == Tell(s, <<"start", "[dtd]">>)
             read  == IF s.doc.external
                      THEN Declarations([begun EXCEPT !.far = TRUE, !.rest = s.doc.file["[dtd]"]])
                      ELSE begun
         IN  Tell([read EXCEPT !.rest = s.rest], <<"end", "[dtd]">>)

DoctypeEnd(s) == IF Is(s, ">") THEN Tell(ExternalSubset(Drop(s)), <<"end dtd">>) ELSE Illegal(s)

DoctypeDeclaration(s) ==
    IF ~Is(s, "<!DOCTYPE") THEN s
    ELSE IF s.doc.handling = "disallow" THEN Illegal(s)
    ELSE DoctypeEnd(InternalSubset(Tell(Drop(s), <<"start dtd">>)))

RootElement(s) == IF Is(s, "root") THEN Drop(s) ELSE Illegal(s)
DocumentEnd(s) == IF Ends(s) THEN s ELSE Illegal(s)

\* Comments, a DOCTYPE, comments, the root, comments.
Prolog(s) == IF Is(s, "comment") THEN Prolog(Tell(Drop(s), <<"comment">>)) ELSE s

Meaning(d) == DocumentEnd(Prolog(RootElement(Prolog(DoctypeDeclaration(Prolog(Nothing(d)))))))
=============================================================================
