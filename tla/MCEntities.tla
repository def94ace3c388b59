------------------------------ MODULE MCEntities ------------------------------
(***************************************************************************)
(* Entities over every pair of small replacement texts for a and b, with a *)
(* third entity c of every kind, and what the application hears compared   *)
(* with what the document means.                                           *)
(***************************************************************************)
EXTENDS EntityMeaning

VARIABLE meaning

Names == {"a", "b", "c"}
A == Reference("a")
B == Reference("b")
C == Reference("c")
X == Char("x")

Texts(items, n) == UNION {[1 .. k -> items] : k \in 0 .. n}

Internal(text) == [kind |-> "internal", text |-> text, far |-> FALSE]
Far(text)      == [kind |-> "internal", text |-> text, far |-> TRUE]
External(text) == [kind |-> "external", text |-> text, far |-> FALSE]
Unparsed       == [kind |-> "unparsed", text |-> << >>, far |-> FALSE]
None           == [kind |-> "none", text |-> << >>, far |-> FALSE]

Table(a, b, c) == [n \in {"a", "b", "c"} |->
                     CASE n = "a" -> a [] n = "b" -> b [] OTHER -> c]

Doc(table, content) ==
    [entity |-> table, content |-> content, default |-> << >>, external |-> "on",
     skip |-> FALSE, peSeen |-> FALSE, standalone |-> FALSE, xml11 |-> FALSE, limit |-> 0]

\* What is referred to twice, in content, in values, beside characters and tags.
Contents ==
    { <<A, A>>, <<X, A, X>>, <<A, B>>, <<OpenTag, A, CloseTag>>, <<A, Char(">")>>,
      <<Attribute("a"), A>>, <<A, Attribute("a")>>, <<Attribute("b"), Attribute("a")>>,
      <<CharRef, A, Predefined>>, <<OpenTag, A, CloseTag, CloseTag>>, <<A, Cut>> }

Inner == {X, Char("]]"), Char(">"), A, B, C, Attribute("b"), OpenTag, CloseTag,
          Predefined, CharRef, Cut}

Innermost == {<< >>, <<X>>, <<Char("]]")>>, <<Char(">")>>, <<A>>, <<C>>, <<CharRef>>,
              <<Predefined>>, <<CloseTag>>, <<OpenTag, CloseTag>>, <<Attribute("c")>>,
              <<C, C>>, <<OpenTag>>, <<C, CharRef>>}

Thirds == {Internal(<<X>>), None}

\* Texts within texts.
Nested ==
    [entity : {Table(Internal(a), Internal(b), c) :
                 a \in Texts(Inner, 2), b \in Innermost, c \in {Internal(<<X>>), None}},
     content : Contents, default : {<< >>}, external : {"on"}, skip : {FALSE},
     peSeen : {FALSE}, standalone : {FALSE}, xml11 : {FALSE}, limit : {0}]

\* References to entities of every kind, under every setting.
Varied ==
    [entity : {Table(Internal(a), Internal(b), c) :
                 a \in {<<C>>, <<X, C>>, <<B, CharRef>>, <<Attribute("c")>>, <<B, B>>},
                 b \in {<<X>>, <<C>>},
                 c \in {Internal(<<X>>), Far(<<X>>), External(<<X, A>>), External(<<OpenTag>>),
                        External(<<OpenTag, CloseTag>>), Unparsed, None}},
     content : {<<A>>, <<C>>, <<A, C, A>>, <<Attribute("a"), C>>,
                <<Attribute("c"), Attribute("c")>>},
     default : {<< >>}, external : {"on", "off", "denied"}, skip : {FALSE},
     peSeen : BOOLEAN, standalone : BOOLEAN, xml11 : BOOLEAN, limit : {0, 1, 3}]

\* A DTD that is not read declares nothing.
Skipping ==
    [entity : {Table(None, None, None)}, content : Contents, default : {<< >>},
     external : {"on"}, skip : {TRUE}, peSeen : {FALSE}, standalone : {FALSE},
     xml11 : {FALSE}, limit : {0}]

\* A default value for an attribute of every e.
Defaults ==
    [entity : {Table(Internal(a), Internal(<<C>>), c) :
                 a \in Texts({X, B, CharRef, OpenTag}, 2), c \in {Internal(<<X>>), None}},
     content : {<<OpenTag, A, CloseTag>>, <<Attribute("a"), OpenTag, CloseTag>>},
     default : {<<A>>, <<B, Predefined>>, <<X, B>>}, external : {"on"}, skip : {FALSE},
     peSeen : BOOLEAN, standalone : {FALSE}, xml11 : {FALSE}, limit : {0, 3}]

MCDocuments == <<Nested, Varied, Skipping, Defaults>>

\* Two documents that call different things by the same names.
MCOthers ==
    {Doc(Table(Internal(a), Internal(b), None), content) :
        a \in {<<B>>, <<X>>, <<OpenTag, CloseTag>>}, b \in {<<X, X>>, <<Predefined>>, <<Char(">")>>},
        content \in {<<A, B>>, <<Attribute("a"), A>>}}

MCInit == Init /\ meaning = Meaning(doc)
MCNext == Next /\ meaning' = IF doc' = doc THEN meaning ELSE Meaning(doc')
MCSpec == MCInit /\ [][MCNext]_<<vars, meaning>>
-----------------------------------------------------------------------------
IsBoundary(event) == event[1] \in {"start", "end"}
IsError(event)    == event[1] \in {"error", "skipped", "missing"}

\* Character by character, and without the boundaries of entities within
\* entities, which are not reported when the text was flattened.
Plain(events) ==
    LET Take(acc, event) ==
            CASE event[1] = "text" ->
                    [acc EXCEPT !.events = @ \o [i \in DOMAIN event[2] |-> <<"text", event[2][i].of>>]]
              [] event[1] = "start" ->
                    [acc EXCEPT !.within = @ + 1,
                                !.events = IF acc.within = 0 THEN Append(@, event) ELSE @]
              [] event[1] = "end" ->
                    [acc EXCEPT !.within = @ - 1,
                                !.events = IF acc.within = 1 THEN Append(@, event) ELSE @]
              [] IsError(event) -> acc
              [] OTHER -> [acc EXCEPT !.events = Append(@, event)]
    IN  FoldLeft(Take, [within |-> 0, events |-> << >>], events).events

\* The meaning has its characters one by one already.
Wrapped(events) ==
    [i \in DOMAIN events |->
        IF events[i][1] = "text" THEN <<"text", <<Char(events[i][2])>>>> ELSE events[i]]

Missing(events) == {event[2] : event \in {e \in ToSet(events) : IsError(e)}}

\* An application hears of every reference what the document means by it: the
\* same characters, values and elements whether a text is scanned, flattened,
\* or taken from a cache, and whatever the parser has read before.
ReplacedAsMeant ==
    LET told  == Plain(heard)
        meant == Plain(Wrapped(meaning.events))
    IN  IF phase = "done"
        THEN told = meant /\ Missing(heard) = Missing(meaning.events)
        ELSE failed = "none" => IsPrefix(told, meant)

\* A document is refused exactly if a reference, or the nesting of elements
\* and entities, breaks a constraint, or if it has more of them than the limit
\* allows.
VerdictExact ==
    /\ phase = "done" => meaning.legal
    /\ failed = "refused" /\ ~meaning.odd => ~meaning.legal
    /\ LimitKept

=============================================================================
