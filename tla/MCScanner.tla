----------------------------- MODULE MCScanner ------------------------------
(***************************************************************************)
(* Documents for the scanner, and the properties that compare what the     *)
(* application was told with what the document means.                      *)
(***************************************************************************)
EXTENDS Scanner, XmlReference

In(root, body) == <<"<", root, ">">> \o body \o <<"<", "/", root, ">">>
Comment(body)  == <<"<", "!", "-", "-">> \o body \o <<"-", "-", ">">>
Cdata(body)    == <<"<", "!", "[">> \o body \o <<"]", "]", ">">>
PI(target, body) == <<"<", "?", target>> \o body \o <<"?", ">">>
Empty(name, attributes) == <<"<", name>> \o attributes \o <<"/", ">">>
Attr(name, value) == <<"w", name, "=", "'">> \o value \o <<"'">>

WellFormedDocs == {
    Empty("a", <<>>),
    Comment(<<"a", "-", "b">>) \o Empty("a", <<"w">>) \o PI("b", <<"w", "?", "a">>) \o <<"w">>,
    PI("a", <<>>) \o In("a", Comment(<<>>) \o PI("b", <<"w">>)),
    In("a", <<"a", "w">> \o In("b", <<"]">>) \o <<"b", ">">>),
    In("a", <<"&", "lt", ";", "b", "&", "#", "0", "7", ";">>),
    In("a", <<"&", "lt", ";">> \o Empty("b", <<>>) \o <<"]", "&", "#", "7", ";", ">">>),
    In("a", Cdata(<<"a", "]", "]", "<">>) \o Cdata(<<>>) \o <<"]">> \o Cdata(<<"]">>)),
    In("a", <<"b", "]", "]">> \o Comment(<<"a">>) \o <<"b">>),
    <<"<", "a">> \o Attr("a", <<"b", "w", "&", "lt", ";">>) \o Attr("b", <<>>) \o <<"/", ">">>,
    <<"<", "a", "w", "b", "w", "=", "w", "'", "&", "#", "7", ";", ">", "'", "w", ">",
      "<", "/", "a", "w", ">">> }

\* Names and text beyond ASCII, in each of the two encodings.
WideDocs ==
    LET e == <<CLead, CCont>>
        u == <<"eacute">>
        Doc(c) == { <<"<">> \o c \o <<"w">> \o c \o <<"=", "'", "a">> \o c \o c \o <<"'", ">">>
                      \o c \o <<"b">> \o c \o <<"<", "/">> \o c \o <<">">>,
                    In("a", c \o <<"]">> \o Cdata(c) \o c),
                    Comment(c \o <<"-">> \o c) \o <<"<", "?">> \o c \o <<"w">> \o c
                      \o <<"?", ">">> \o Empty("a", <<>>) }
    IN  Doc(e) \cup Doc(u)

BrokenDocs == {
    In("a", In("b", <<>>) \o <<"<", "/", "b", ">">>),
    In("a", <<"]", "]", ">">>),
    In("a", <<"a", "ctl">>),
    In("a", <<"&", "a", ";", "b">>),
    In("a", <<"&", "#", ";">>),
    In("a", <<"&", "#", "0", ";">>),
    In("a", <<"&", "-", ";">>),
    In("a", <<"a", CCont>>),
    In("a", Comment(<<"a", "-", "-", "b">>)),
    In("a", Comment(<<CLead, "b">>)),
    In("a", <<"<", "!", "a">>),
    In("a", <<"<", "!", "-", "a">>),
    In("a", Cdata(<<"ctl">>)),
    In("a", PI("xml", <<"w", "a">>)),
    In("a", PI("a", <<"=", "a">>)),
    In("a", PI("-", <<"w">>)),
    In("a", PI("a", <<"w", "ctl">>)),
    Empty("a", <<>>) \o Empty("b", <<>>),
    Empty("a", <<>>) \o <<"w", "b">>,
    Empty("a", <<>>) \o Cdata(<<"a">>),
    <<"w", "&", "lt", ";">> \o Empty("a", <<>>),
    <<"w", "<", "/", "a", ">">>,
    Empty("-", <<>>),
    Empty("a", Attr("a", <<>>) \o Attr("b", <<"b">>) \o Attr("a", <<"w">>)),
    Empty("a", Attr("a", <<"<">>)),
    Empty("a", Attr("a", <<"&", "a", ";">>)),
    Empty("a", Attr("a", <<"a", CLead, "a">>)),
    Empty("a", Attr("a", <<>>) \o <<"b", "=", "'", "'">>),
    Empty("a", <<"w", "b", "w", ">">>),
    Empty("a", <<"w", "b", "=", "b">>) }

\* Everything of up to n characters that could be mistaken for a mark's
\* beginning or end, inside the construct the mark belongs to.
UpTo(alphabet, n) == UNION {[1 .. k -> alphabet] : k \in 0 .. n}

TemplateDocs ==
         {In("a", Cdata(t))                          : t \in UpTo({"]", ">", "a"}, 3)}
    \cup {Comment(t) \o Empty("a", <<>>)             : t \in UpTo({"-", ">", "a"}, 3)}
    \cup {PI("b", <<"w">> \o t) \o Empty("a", <<>>) : t \in UpTo({"?", ">", "w"}, 3)}
    \cup {<<"<", "a", "w">> \o t \o <<"/", ">">>      : t \in UpTo({"b", "=", "'", "w"}, 4)}

MeaningDocs == WellFormedDocs \cup WideDocs \cup TemplateDocs

\* Abandoned or refused in every part of the scanner's state, then fine.
ReusedDocs == {
    In("a", <<"b", "]", "]", ">">>),
    <<"<", "a">> \o Attr("b", <<"a">>) \o <<"/", ">">>,
    Comment(<<"b">>) \o In("a", Cdata(<<"b">>) \o PI("b", <<>>)) \o <<"w">>,
    In("a", <<">", "&", "lt", ";", "]", "]">>) }

RefusedDocs == BrokenDocs \cup ReusedDocs

-----------------------------------------------------------------------------
\* The meaning of every document and of every prefix of one that could be
\* all the application ever feeds.
Feeds     == UNION {Prefixes(d) : d \in Documents}
MeaningOf == [s \in Feeds |-> Meaning(s, SkipDoctype)]
Arrived   == MeaningOf[SubSeq(input, 1, limit)]

\* A well-formed document is reported as what it means, whatever the chunks,
\* and nothing is withheld once its last byte has arrived.
ReportsMeaning ==
    MeaningOf[input].ok =>
        /\ IsPrefix(app.seen, MeaningOf[input].items)
        /\ limit = Len(input) /\ at = "app" => app.seen = MeaningOf[input].items

\* receive() fails only on input that no continuation makes well-formed, and
\* close() only on an incomplete document; what is accepted with nothing left
\* unread is a complete document.
VerdictSound ==
    /\ app.failed /\ ~closed => ~MeaningOf[input].ok
    /\ closed /\ app.doc # "ended" => ~Arrived.ok
    /\ app.doc = "ended" /\ pos = limit /\ inside = {} => Arrived.ok
=============================================================================
