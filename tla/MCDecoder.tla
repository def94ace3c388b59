----------------------------- MODULE MCDecoder ------------------------------
(***************************************************************************)
(* Streams for the decoder.  Each is written from what it means (a mark,   *)
(* a declaration, an encoding, a text), and the properties compare what    *)
(* the scanner was told with that meaning.                                 *)
(***************************************************************************)
EXTENDS Decoder

\* How an encoding writes a character.
Encoded(c, cs) ==
    LET one == CASE c = "NEL" -> "85" [] c = "eacute" -> "E9" [] OTHER -> c
    IN  CASE c = "han"      -> IF cs = "UTF-16BE" THEN <<"N", "-">> ELSE <<"-", "N">>
          [] c = "cyrillic" -> <<"E9">>
          [] cs = "UTF-8" /\ c = "NEL"    -> <<"C2", "85">>
          [] cs = "UTF-8" /\ c = "eacute" -> <<"C3", "A9">>
          [] cs \in {"UTF-8", "ISO-8859-1", "KOI8-R"} -> <<one>>
          [] cs = "UTF-16BE" -> <<"00", one>>
          [] cs = "UTF-16LE" -> <<one, "00">>
          [] cs = "UTF-32BE" -> <<"00", "00", "00", one>>
          [] cs = "UTF-32LE" -> <<one, "00", "00", "00">>

Bytes(text, cs) == FlattenSeq([i \in 1 .. Len(text) |-> Encoded(text[i], cs)])

\* The characters that are longer in UTF-8, by one byte, in an encoding that
\* encoding_rs decodes.
Wider == {"han", "cyrillic"}

\* XML 2.11: a line ends with CR LF, CR or LF; in 1.1 with NEL too.
RECURSIVE Lines(_, _)
Lines(text, is11) ==
    IF text = <<>> THEN <<>>
    ELSE IF IsPrefix(<<"CR", "LF">>, text) THEN <<"LF">> \o Lines(SubSeq(text, 3, Len(text)), is11)
    ELSE IF Head(text) = "CR" \/ (is11 /\ Head(text) = "NEL") THEN <<"LF">> \o Lines(Tail(text), is11)
    ELSE <<Head(text)>> \o Lines(Tail(text), is11)

------------------------------------------------------------------------------
(* Declarations.  One that is not legal is text like any other. *)

Attribute(name, value) == <<"w", name, "=", "'">> \o value \o <<"'">>

Declaration(version, label, standalone) ==
    [tokens |-> <<"<?xml">>
          \o (IF version    = None THEN <<>> ELSE Attribute("version", <<version>>))
          \o (IF label      = None THEN <<>> ELSE Attribute("encoding", <<label>>))
          \o (IF standalone = None THEN <<>> ELSE Attribute("standalone", <<standalone>>))
          \o <<"?>">>,
     legal |-> TRUE, version |-> version, label |-> label, standalone |-> standalone]

NotADeclaration(tokens) ==
    [tokens |-> tokens, legal |-> FALSE, version |-> None, label |-> None, standalone |-> None]

NoDeclaration == NotADeclaration(<<>>)

Spaced == [Declaration("1.1", "UTF-8", "no") EXCEPT
    !.tokens = <<"<?xml", "w", "LF", "version", "w", "=", "'", "1.1", "'", "CR", "w", "encoding",
                 "=", "w", "\"", "UTF-8", "\"", "w", "standalone", "w", "=", "LF", "'", "no", "'",
                 "w", "?>">>]

Illegal ==
    {NotADeclaration(t) : t \in {
        <<"<?xml">>, <<"<?xml", "w">>, <<"<?xml", "?>">>,
        <<"<?xml", "version", "=", "'", "1.0", "'", "?>">>,
        <<"<?xml">> \o Attribute("encoding", <<"UTF-8">>) \o <<"?>">>,
        <<"<?xml">> \o Attribute("version", <<"2.0">>) \o <<"?>">>,
        <<"<?xml">> \o Attribute("version", <<>>) \o <<"?>">>,
        <<"<?xml">> \o Attribute("version", <<"1.0", "w">>) \o <<"?>">>,
        <<"<?xml">> \o Attribute("version", <<"1.0">>) \o <<"w", "a">>,
        <<"<?xml">> \o Attribute("version", <<"1.0", "\"">>) \o <<"?>">>,
        <<"<?xml">> \o Attribute("version", <<"1.0">>) \o Attribute("standalone", <<"a">>) \o <<"?>">>,
        <<"<?xml">> \o Attribute("version", <<"1.0">>) \o Attribute("standalone", <<"yes">>)
                    \o Attribute("encoding", <<"UTF-8">>) \o <<"?>">>,
        <<"<?xml">> \o Attribute("version", <<"1.1">>) \o <<"encoding", "=", "'", "UTF-8", "'", "?>">>,
        <<"<?xml", "w", "version", "=", "1.0", "?>">>,
        <<"<?xml", "w", "version", "'", "1.0", "'", "?>">>}}

\* The declarations that go with a stream in encoding cs under mark b: the
\* label names the encoding or its family, or none is needed.
LabelsFor(b, cs) ==
    CASE b = None -> IF cs = "UTF-8" THEN {None, cs} ELSE {cs}
      [] b = "Utf8" -> {None, cs}
      [] b \in {"Utf16Le", "Utf16Be"} -> {None, cs, "UTF-16"}
      [] b \in {"Utf32Le", "Utf32Be"} -> {None, cs}

\* Labels no such stream may carry.
WrongLabels(b) ==
    {"EBCDIC", "UTF-32"} \cup
    CASE b = None -> {}
      [] b = "Utf8" -> {"UTF-16", "UTF-32LE"}
      [] b \in {"Utf16Le", "Utf16Be"} -> {"UTF-8", "UTF-32BE", "ISO-8859-1"}
      [] b \in {"Utf32Le", "Utf32Be"} -> {"UTF-8", "UTF-16LE", "ISO-8859-1"}

------------------------------------------------------------------------------
(* Streams *)

Mark(b) == IF b = None THEN <<>> ELSE Signature[b]

\* head is the part that decides on the encoding; ok tells whether the
\* decoder may accept the stream.
Stream(b, cs, external, d, body, tail, ok) ==
    LET head  == Mark(b) \o Bytes(d.tokens, cs)
        is11  == d.legal /\ d.version = "1.1"
        plain == Lines(IF d.legal THEN body ELSE d.tokens \o body, is11)
    IN  [bytes |-> head \o Bytes(body, cs) \o tail, external |-> external, head |-> Len(head),
         wider |-> Cardinality({i \in 1 .. Len(body) : body[i] \in Wider}),
         ok |-> ok, encoding |-> IF d.label \in WrongLabels(b) THEN None ELSE cs,
         versioned |-> d.legal /\ d.version # None, xml11 |-> is11, standalone |-> d.standalone = "yes",
         text |-> IF cs = "UTF-8" /\ ~is11 THEN Bytes(plain, cs) \o tail ELSE plain]

Marked == {<<None, "UTF-8">>, <<None, "ISO-8859-1">>, <<"Utf8", "UTF-8">>,
           <<"Utf16Le", "UTF-16LE">>, <<"Utf16Be", "UTF-16BE">>,
           <<"Utf32Le", "UTF-32LE">>, <<"Utf32Be", "UTF-32BE">>}

UpTo(alphabet, n) == UNION {[1 .. k -> alphabet] : k \in 0 .. n}

Bodies == UpTo({"CR", "LF", "NEL", "<"}, 3) \cup {<<"eacute", "CR">>, <<"LF", "eacute", "eacute">>}

\* In 1.1 CR NEL is one line end too; the code reads two (see README).
Bodies11 == {t \in Bodies : \A i \in 1 .. Len(t) - 1 : t[i] # "CR" \/ t[i + 1] # "NEL"}

\* Wide encodings share all code but the engine: fewer texts do for them.
Short(texts)  == {t \in texts : Len(t) <= 2}
Few(b, texts) == {t \in Short(texts) : b \in {"Utf32Le", "Utf32Be"} => Len(t) = 2 /\ t[1] = "CR"}

LineEndStreams ==
    UNION {{Stream(m[1], m[2], FALSE, NoDeclaration, t, <<>>, TRUE) :
                t \in IF m[2] = "UTF-8" THEN Bodies ELSE Few(m[1], Bodies)}
           : m \in Marked \ {<<None, "ISO-8859-1">>}}
    \cup
    UNION {{Stream(m[1], m[2], FALSE, Declaration("1.1", None, None), t, <<>>, TRUE) :
                t \in IF m[1] = None THEN Bodies11 ELSE Few(m[1], Bodies11)}
           : m \in Marked \ {<<None, "ISO-8859-1">>}}
    \cup
    UNION {{Stream(None, "ISO-8859-1", FALSE, Declaration(v, "ISO-8859-1", None), t, <<>>, TRUE) :
                t \in Short(Bodies11)} : v \in {"1.0", "1.1"}}

DeclaredStreams ==
    UNION {{Stream(m[1], m[2], FALSE, Declaration(v, l, s), <<"<", "CR">>, <<>>, TRUE) :
                v \in {"1.0", "1.1"}, l \in LabelsFor(m[1], m[2]), s \in {None, "yes"}}
           : m \in Marked}
    \cup
    UNION {{Stream(m[1], m[2], FALSE, Declaration("1.0", l, "yes"), <<"<", "a">>, <<>>, FALSE) :
                l \in WrongLabels(m[1])} : m \in Marked}
    \cup
    {Stream(m[1], m[2], FALSE, d, <<"<", "CR">>, <<>>, TRUE) :
        m \in Marked \ {<<None, "ISO-8859-1">>}, d \in Illegal}
    \cup
    {Stream(m[1], "UTF-8", FALSE, Spaced, <<"<", "LF">>, <<>>, TRUE) : m \in {<<None>>, <<"Utf8">>}}

ExternalStreams ==
    UNION {{Stream(m[1], m[2], TRUE, Declaration(v, m[2], None), <<"<", "CR">>, <<>>, TRUE) :
                v \in {None, "1.0", "1.1"}} : m \in Marked}
    \cup
    {Stream("Utf16Be", "UTF-16BE", TRUE, NotADeclaration(t), <<"<">>, <<>>, TRUE) : t \in {
        <<"<?xml">> \o Attribute("version", <<"1.0">>) \o <<"?>">>,
        <<"<?xml">> \o Attribute("encoding", <<"UTF-16">>) \o Attribute("standalone", <<"no">>) \o <<"?>">>}}

\* Streams that end inside, or contain, what is no character.
TornStreams ==
    LET S(b, cs, v, tail, ok) ==
            Stream(b, cs, FALSE, Declaration(v, None, None), <<"<", "LF">>, tail, ok)
    IN  {S(None, "UTF-8", v, t, FALSE) : v \in {"1.0", "1.1"}, t \in {<<"C3">>, <<"C2">>}}
        \cup {S("Utf8", "UTF-8", "1.1", <<"C3", "C3", "a">>, FALSE),
              S("Utf16Le", "UTF-16LE", "1.0", <<"a">>, FALSE),
              S("Utf16Be", "UTF-16BE", "1.0", <<"00">>, FALSE),
              S("Utf32Le", "UTF-32LE", "1.0", <<"a", "00", "00">>, FALSE),
              S("Utf32Be", "UTF-32BE", "1.0", <<"00">>, FALSE),
              S("Utf32Be", "UTF-32BE", "1.0", <<"a", "00", "00", "00">>, FALSE)}

\* Streams too short for the mark they seem to begin with.
FragmentStreams ==
    LET Whole(b, bytes, text, ok) ==
            [bytes |-> bytes, external |-> FALSE, head |-> Len(bytes), wider |-> 0, ok |-> ok,
             encoding |-> BomCharset(b), versioned |-> FALSE, xml11 |-> FALSE, standalone |-> FALSE, text |-> text]
    IN  {Whole(None, t, t, TRUE) : t \in {<<>>, <<"a">>, <<"00">>, <<"00", "00">>, <<"00", "00", "FE">>,
              <<"00", "00", "a", "a">>, <<"EF", "BB", "a">>, <<"FE">>, <<"FF">>, <<"FF", "a">>}}
        \cup {Whole(None, <<"EF">>, <<"EF">>, FALSE),
              Whole("Utf8", Signature.Utf8, <<>>, TRUE),
              Whole("Utf16Le", <<"FF", "FE">>, <<>>, TRUE),
              Whole("Utf16Le", <<"FF", "FE", "00">>, <<>>, FALSE),
              Whole("Utf16Be", <<"FE", "FF", "00">>, <<>>, FALSE),
              Whole("Utf32Be", Signature.Utf32Be, <<>>, TRUE)}

\* Streams whose text is longer in UTF-8: 12 and 13 such characters fit into
\* what is reserved however they are cut, 17 and 18 in one piece do not.  The end of
\* the last one is torn.
LongStreams ==
    LET Times(n, c) == [i \in 1 .. n |-> c]
        Koi8(n) == Stream(None, "KOI8-R", FALSE, Declaration("1.0", "KOI8-R", None),
                          Times(n, "cyrillic"), <<>>, TRUE)
        Han(m, n, tail, ok) == Stream(m[1], m[2], FALSE, NoDeclaration,
                                      <<"<">> \o Times(n, "han") \o <<"CR", "LF">>, tail, ok)
    IN  {Koi8(12), Koi8(17), Han(<<"Utf16Le", "UTF-16LE">>, 13, <<>>, TRUE),
         Han(<<"Utf16Be", "UTF-16BE">>, 18, <<>>, TRUE),
         Han(<<"Utf16Be", "UTF-16BE">>, 18, <<"N">>, FALSE)}

\* What may follow a reset: a document in two pieces of one engine, one in
\* byte mode, one with the shortest mark.
StreamsAfterReset ==
    {Stream("Utf32Le", "UTF-32LE", FALSE, Declaration("1.1", None, None), <<"CR", "LF">>, <<>>, TRUE),
     Stream(None, "UTF-8", FALSE, NoDeclaration, <<"LF", "NEL">>, <<>>, TRUE),
     Stream("Utf16Be", "UTF-16BE", FALSE, NoDeclaration, <<"LF", "CR">>, <<>>, TRUE)}

Streams == LineEndStreams \cup DeclaredStreams \cup ExternalStreams \cup TornStreams \cup FragmentStreams
           \cup LongStreams \cup StreamsAfterReset

\* A stream declares what it was made to declare.
ASSUME DeclaredAsMade ==
    \A d \in Streams :
        EncodingOf(d) = d.encoding /\ Is11(d) = d.xml11
        /\ IsVersioned(d) = d.versioned /\ IsStandalone(d) = d.standalone

------------------------------------------------------------------------------
(* Properties *)

\* Wherever the chunks are cut, what the scanner has been given is a
\* beginning of the decoded text with its lines ended by LF, and all of it
\* when the document is reported ended, unless an engine ran out of output; it
\* does so only in a document whose text is more than twelve bytes longer in
\* UTF-8, and only of long pieces (NoByteLeft).  The decoder waits no longer than until the mark and the declaration are
\* complete and one character follows.
FedIsMeaning ==
    /\ ~cut /\ failed = {} /\ dec.unread = {} =>
        /\ IsPrefix(scanner.text, doc.text)
        /\ scanner.ended => scanner.text = doc.text
    /\ ~cut /\ dec.unread # {} => doc.wider > 12 \/ failed # {}
    /\ NoByteLeft
    /\ arrived >= doc.head + 4 => dec.charset # None \/ failed # {}

\* As long as no engine runs out of output: the decoder refuses only a stream it
\* may not accept, and reports the end of one only if it may be accepted.  An
\* encoding that is refused stays refused: an application that goes on calling
\* never gets text, nor the end of the document.
VerdictExact ==
    ~cut =>
        /\ dec.unread = {} /\ failed = {"decoder"} => ~doc.ok
        /\ dec.unread = {} /\ failed = {} /\ scanner.ended => doc.ok
        /\ doc.encoding = None => scanner.text = <<>> /\ ~scanner.ended

\* What the comment in feed_content says: a generous capacity is reserved and a
\* chunk is decoded in one shot.  So a document that is reported ended has been
\* passed on whole.
DecodedInOneShot ==
    ~cut /\ failed = {} /\ scanner.ended => scanner.text = doc.text
=============================================================================
