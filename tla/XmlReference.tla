---------------------------- MODULE XmlReference ----------------------------
(***************************************************************************)
(* What a document means, read off the XML grammar with the whole document *)
(* at hand: no buffer, no chunk, no position to resume from.  Meaning(s)   *)
(* tells whether s is a well-formed document (without a DOCTYPE) and which *)
(* items a handler sees, in the form of HandlerContract!App.seen.          *)
(* Only TLC uses this module: its operators are recursive.                 *)
(***************************************************************************)
EXTENDS Naturals, Sequences, SequencesExt, XmlLexemes

Cannot    == [ok |-> FALSE, items |-> <<>>]
Is(s, i, C)       == i <= Len(s) /\ s[i] \in C
Starts(s, i, pat) == i + Len(pat) - 1 <= Len(s) /\ SubSeq(s, i, i + Len(pat) - 1) = pat
Word(s, i, j)     == SubSeq(s, i, j - 1)

\* The first position from i on where C fails, where pat starts; 0 for never.
RECURSIVE Over(_, _, _), Find(_, _, _)
Over(s, i, C) == IF Is(s, i, C) THEN Over(s, i + 1, C) ELSE i
Find(s, i, pat) ==
    IF i > Len(s) THEN 0 ELSE IF Starts(s, i, pat) THEN i ELSE Find(s, i + 1, pat)

AllNameChars == NameChars \cup {CLead, CCont}
IsName(w)    == w # <<>> /\ w[1] \in NameStartChars \cup {CLead}

\* Legal characters only, UTF-8 sequences whole.
WellEncoded(s) ==
    \A i \in 1 .. Len(s) :
        /\ s[i] # "ctl"
        /\ s[i] = CLead => Is(s, i + 1, {CCont})
        /\ s[i] = CCont => i > 1 /\ s[i - 1] = CLead

TextItems(kind, w) == [i \in 1 .. Len(w) |-> <<kind, <<w[i]>>>>]
Item(kind, w)      == << <<kind, w>> >>

\* A reference at i: where it ends, the items it gives (kind is that of the
\* run it stands in); end 0 for none.
Reference(s, i, kind, skip) ==
    LET e      == Over(s, i + 1, AllNameChars)
        word   == Word(s, i + 1, e)
        d      == Over(s, i + 2, Digits)
        none   == [end |-> 0, items |-> <<>>]
    IN  IF Is(s, i + 1, {"#"})
        THEN IF Is(s, d, {";"}) /\ "7" \in ToSet(Word(s, i + 2, d))
             THEN [end |-> d + 1, items |-> TextItems(kind, <<"a">>)] ELSE none
        ELSE IF ~Is(s, e, {";"}) \/ ~IsName(word) THEN none
        ELSE IF word = <<"lt">>
             THEN [end |-> e + 1, items |-> TextItems(kind, <<"<">>)]
        ELSE IF skip THEN [end |-> e + 1, items |-> Item("skipped_entity", word)]
        ELSE none

\* AttValue up to its closing quote: the position after it, 0 for none.
RECURSIVE Value(_, _, _, _)
Value(s, i, acc, skip) ==
    LET r == Reference(s, i, "attribute_value_content", skip)
    IN  IF i > Len(s) \/ Is(s, i, {"<"})     THEN [end |-> 0, items |-> <<>>]
        ELSE IF s[i] = "'"                   THEN [end |-> i + 1, items |-> acc]
        ELSE IF s[i] = "&" /\ r.end = 0      THEN r
        ELSE IF s[i] = "&"                   THEN Value(s, r.end, acc \o r.items, skip)
        ELSE Value(s, i + 1,
                   acc \o TextItems("attribute_value_content", <<s[i]>>), skip)

\* (S Attribute)* S? ('>' | '/>') from i on; names are those met so far.
RECURSIVE Attributes(_, _, _, _, _)
Attributes(s, i, names, acc, skip) ==
    LET n    == Over(s, i, {"w"})
        e    == Over(s, n, AllNameChars)
        name == Word(s, n, e)
        g    == Over(s, e, {"w"})
        q    == Over(s, g + 1, {"w"})
        v    == Value(s, q + 1, <<>>, skip)
    IN  IF Is(s, n, {">"})
        THEN [end |-> n + 1, empty |-> FALSE, items |-> acc]
        ELSE IF Starts(s, n, <<"/", ">">>)
        THEN [end |-> n + 2, empty |-> TRUE, items |-> acc]
        ELSE IF /\ n > i /\ IsName(name) /\ name \notin names
                /\ Is(s, g, {"="}) /\ Is(s, q, {"'"}) /\ v.end # 0
        THEN Attributes(s, v.end, names \cup {name},
                        acc \o Item("start_attribute", name) \o v.items, skip)
        ELSE [end |-> 0, empty |-> FALSE, items |-> <<>>]

\* The document from i on: open elements, whether the root has been met.
RECURSIVE Rest(_, _, _, _, _, _)
Rest(s, i, stack, root, acc, skip) ==
    LET n       == IF Is(s, i + 1, {"/", "?"}) THEN i + 2 ELSE i + 1
        e       == Over(s, n, AllNameChars)
        name    == Word(s, n, e)
        top     == stack[Len(stack)]
        comment == Find(s, i + 4, <<"-", "-">>)
        cdata   == Find(s, i + 3, <<"]", "]", ">">>)
        pi      == Find(s, e, <<"?", ">">>)
        tag     == Attributes(s, e, {}, <<>>, skip)
        close   == Over(s, e, {"w"})
        ref     == Reference(s, i, "characters", skip)
        More(j, st, rt, items) == Rest(s, j, st, rt, acc \o items, skip)
    IN
    IF i > Len(s) THEN [ok |-> stack = <<>> /\ root, items |-> acc]
    ELSE IF Starts(s, i, <<"<", "!", "-", "-">>) THEN
            IF comment = 0 \/ ~Is(s, comment + 2, {">"}) THEN Cannot
            ELSE More(comment + 3, stack, root,
                      Item("start_comment", <<>>)
                        \o TextItems("comment_data", Word(s, i + 4, comment)))
    ELSE IF Starts(s, i, <<"<", "!", "[">>) THEN
            IF cdata = 0 \/ stack = <<>> THEN Cannot
            ELSE More(cdata + 3, stack, root,
                      Item("start_cdata", <<>>)
                        \o TextItems("characters", Word(s, i + 3, cdata))
                        \o Item("end_cdata", <<>>))
    ELSE IF Starts(s, i, <<"<", "?">>) THEN
            IF ~IsName(name) \/ name = <<"xml">> \/ pi = 0 \/ ~(Is(s, e, {"w"}) \/ pi = e)
            THEN Cannot
            ELSE More(pi + 2, stack, root,
                      Item("pi_target", name)
                        \o TextItems("pi_data", Word(s, IF pi = e THEN e ELSE e + 1, pi)))
    ELSE IF Starts(s, i, <<"<", "/">>) THEN
            IF stack = <<>> \/ ~Is(s, close, {">"}) THEN Cannot
            ELSE IF name # top THEN Cannot
            ELSE More(close + 1, Front(stack), root, Item("end_element", <<>>))
    ELSE IF Is(s, i, {"<"}) THEN
            IF ~IsName(name) \/ tag.end = 0 \/ (root /\ stack = <<>>) THEN Cannot
            ELSE More(tag.end, IF tag.empty THEN stack ELSE Append(stack, name), TRUE,
                      Item("start_element", name) \o tag.items
                        \o Item("end_attributes", <<>>)
                        \o IF tag.empty THEN Item("end_element", <<>>) ELSE <<>>)
    ELSE IF Is(s, i, {"&"}) THEN
            IF stack = <<>> \/ ref.end = 0 THEN Cannot
            ELSE More(ref.end, stack, root, ref.items)
    ELSE IF stack = <<>> THEN
            IF s[i] = "w" THEN More(i + 1, stack, root, <<>>) ELSE Cannot
    ELSE IF Starts(s, i, <<"]", "]", ">">>) THEN Cannot
    ELSE More(i + 1, stack, root, TextItems("characters", <<s[i]>>))

Meaning(s, skip) ==
    IF WellEncoded(s) THEN Rest(s, 1, <<>>, FALSE, <<>>, skip) ELSE Cannot
=============================================================================
