------------------------------- MODULE Decoder ------------------------------
(***************************************************************************)
(* The decoder of decoder.rs, between Parser (parser.rs) and Scanner: it   *)
(* finds the byte order mark and the XML declaration in chunks cut         *)
(* anywhere, fixes the encoding once, and from then on passes the decoded  *)
(* text on with its line endings normalised.                               *)
(*                                                                         *)
(* A byte is a string: two hexadecimal digits outside ASCII, otherwise the *)
(* ASCII character itself.  A keyword, number or encoding label of the     *)
(* declaration counts as one character, for each is compared as a whole    *)
(* and waits as a whole.                                                   *)
(***************************************************************************)
EXTENDS Naturals, Sequences, SequencesExt, FiniteSetsExt

CONSTANTS
    Documents,      \* records; bytes is the stream, external tells a text declaration
    LaterDocuments, \* those of them fed after a reset
    AfterFailure,   \* the calls the application still makes after an Err
    MaxResets       \* bound: how often the parser is reused

ASSUME DecoderAssumption ==
    /\ \A d \in Documents : d.bytes \in Seq(STRING) /\ d.external \in BOOLEAN
    /\ LaterDocuments \subseteq Documents
    /\ AfterFailure \subseteq {"receive", "close"}
    /\ MaxResets \in Nat

VARIABLES
    doc, arrived,   \* the stream, and how much of it was received
    dec,            \* ExternalEntityDecoder, field by field
    scanner,        \* what the decoder told the scanner
    failed,         \* who returned an Err: "decoder", "scanner"; or a "panic"
    closed,         \* Parser::closed
    cut,            \* history: a close came before the end of the stream
    resets

vars == <<doc, arrived, dec, scanner, failed, closed, cut, resets>>

------------------------------------------------------------------------------
(* Bytes and characters *)

Marks    == {"Utf8", "Utf16Le", "Utf16Be", "Utf32Le", "Utf32Be"}
NonAscii == {"FE", "FF", "EF", "BB", "BF", "C2", "C3", "85", "A9", "E9"}
None     == "none"

UnitSize(b) ==
    CASE b \in {None, "Utf8"}          -> 1
      [] b \in {"Utf16Le", "Utf16Be"}  -> 2
      [] b \in {"Utf32Le", "Utf32Be"}  -> 4

\* One unit as a 7-bit character; NUL, byte "00", is one.
AsciiOf(unit, b) ==
    LET n == Len(unit)
        k == IF b \in {"Utf16Le", "Utf32Le"} THEN 1 ELSE n
    IN  IF unit[k] \notin NonAscii /\ \A i \in (1 .. n) \ {k} : unit[i] = "00"
        THEN unit[k] ELSE "non-ASCII"

\* read_char at every position: the characters that can be read from bytes.
ReadChars(bytes, b) ==
    LET n == UnitSize(b)
    IN  [i \in 1 .. Len(bytes) \div n |-> AsciiOf(SubSeq(bytes, n * (i - 1) + 1, n * i), b)]

\* The five signatures, and the mark a stream begins with.  A stream of
\* fewer than least bytes is not judged before it ends.
Signature == [Utf8    |-> <<"EF", "BB", "BF">>,
              Utf16Be |-> <<"FE", "FF">>,
              Utf16Le |-> <<"FF", "FE">>,
              Utf32Le |-> <<"FF", "FE", "00", "00">>,
              Utf32Be |-> <<"00", "00", "FE", "FF">>]

\* Variant: two bytes are enough for every mark.
BytesNeeded_Two(bytes) == 2

BytesNeeded(bytes) ==
    CASE IsPrefix(<<"FF", "FE">>, bytes) \/ IsPrefix(<<"00", "00">>, bytes) -> 4
      [] IsPrefix(<<"EF", "BB">>, bytes)                                    -> 3
      [] OTHER                                                              -> 2

BomOf(bytes) ==
    LET found == {b \in DOMAIN Signature : IsPrefix(Signature[b], bytes)}
    IN  IF found = {} THEN None
        ELSE CHOOSE b \in found : \A c \in found : Len(Signature[c]) <= Len(Signature[b])

MarkLength(b) == IF b = None THEN 0 ELSE Len(Signature[b])

------------------------------------------------------------------------------
(* The declaration, read again from its beginning with each chunk *)

Quotes       == {"'", "\""}
Invalid      == {"w", "<", ">", "?", "?>", "<?xml", "non-ASCII", "CR", "LF"}
Space        == {"w", "CR", "LF"}

\* The first position from i on with a character of S, and the first with
\* another; or past the end.
First(chars, i, S) ==
    IF i > Len(chars) THEN i
    ELSE Min({j \in i .. Len(chars) + 1 : j = Len(chars) + 1 \/ chars[j] \in S})

Past(chars, i, S) == First(chars, i, ToSet(chars) \ S)

Read(chars, i, S) ==
    IF i > Len(chars) THEN "Underflow" ELSE IF chars[i] \in S THEN "Ok" ELSE "Failure"

\* One thing is read after another.
Then(result, next) == IF result = "Ok" THEN next ELSE result

try_read_attribute(chars, saved, name) ==
    LET n      == Past(chars, saved, Space)
        equal  == Past(chars, n + 1, Space)
        quote  == Past(chars, equal + 1, Space)
        stop   == First(chars, quote + 1, Quotes \cup Invalid)
        result == Then(Read(chars, saved, Space), Then(Read(chars, n, {name}),
                  Then(Read(chars, equal, {"="}), Then(Read(chars, quote, Quotes),
                       Read(chars, stop, {chars[quote]})))))
    IN  [result |-> result,
         pos    |-> IF result = "Ok" THEN stop + 1 ELSE saved,
         value  |-> IF result = "Ok" THEN SubSeq(chars, quote + 1, stop - 1) ELSE <<None>>]

IfPresent(result) == IF result = "Failure" THEN "Ok" ELSE result

NoAttribute(pos) == [result |-> "Failure", pos |-> pos, value |-> <<None>>]

\* What the version v, the encoding e and the standalone s make of the
\* declaration; a text declaration has no standalone.
XmlOrTextDeclaration(chars, external, v, e, s) ==
    LET end == Past(chars, s.pos, Space)
        result == Then(Read(chars, 1, {"<?xml"}),
                  Then(IF external THEN IfPresent(v.result) ELSE v.result,
                  Then(IF external THEN e.result ELSE IfPresent(e.result),
                  Then(IfPresent(s.result), Read(chars, end, {"?>"})))))
        legal == /\ v.value \in {<<"1.0">>, <<"1.1">>} \cup (IF external THEN {<<None>>} ELSE {})
                 /\ s.value \in {<<"yes">>, <<"no">>, <<None>>}
    IN  [result     |-> IF result = "Ok" /\ ~legal THEN "Failure" ELSE result,
         version    |-> v.value, encoding |-> e.value, standalone |-> s.value,
         consumed   |-> end]

\* Each is read from where the one before it ended.
ParseDeclaration(chars, external) ==
    LET v == try_read_attribute(chars, 2, "version")
        e == try_read_attribute(chars, v.pos, "encoding")
    IN  XmlOrTextDeclaration(chars, external, v, e,
            IF external THEN NoAttribute(e.pos) ELSE try_read_attribute(chars, e.pos, "standalone"))

------------------------------------------------------------------------------
(* Encodings *)

Charsets == {"UTF-8", "ISO-8859-1", "KOI8-R", "UTF-16LE", "UTF-16BE", "UTF-32LE", "UTF-32BE"}

\* charset_for_label, with the labels encoding_rs knows; "UTF-32" is none.
\* KOI8-R stands for its single-byte encodings.
charset_for_label(name) ==
    CASE name = <<"UTF-16">> -> "UTF-16LE"
      [] name \in {<<"UTF-8">>, <<"UTF-16LE">>, <<"UTF-16BE">>, <<"UTF-32LE">>, <<"UTF-32BE">>,
                   <<"ISO-8859-1">>, <<"KOI8-R">>} -> name[1]
      [] OTHER -> None

BomCharset(b) ==
    CASE b \in {None, "Utf8"} -> "UTF-8"
      [] b = "Utf16Le" -> "UTF-16LE"
      [] b = "Utf16Be" -> "UTF-16BE"
      [] b = "Utf32Le" -> "UTF-32LE"
      [] b = "Utf32Be" -> "UTF-32BE"

Utf16 == {<<"UTF-16">>, <<"UTF-16LE">>, <<"UTF-16BE">>}
Utf32 == {<<"UTF-32">>, <<"UTF-32LE">>, <<"UTF-32BE">>}

\* validate_bom_encoding_compat.
Compatible(b, name) ==
    CASE b \in {"Utf16Le", "Utf16Be"} -> name \in Utf16
      [] b \in {"Utf32Le", "Utf32Be"} -> name \in Utf32
      [] b = "Utf8"                   -> name \notin Utf16 \cup Utf32
      [] b = None                     -> TRUE

\* setup_charset_decoder: the encoding of a document with mark b whose
\* declaration names name (<<None>>: none); None if it is refused.
CharsetFor(b, name) ==
    IF name = <<None>> THEN BomCharset(b)
    ELSE IF charset_for_label(name) = None \/ ~Compatible(b, name) THEN None
    ELSE IF b # None /\ name \notin {<<"UTF-16LE">>, <<"UTF-16BE">>, <<"UTF-32LE">>, <<"UTF-32BE">>}
         THEN BomCharset(b)
    ELSE charset_for_label(name)

\* Decoding UTF-32 and Latin-1 is the decoder's own, the rest encoding_rs's.
IsLibrary(cs) == cs \notin {"UTF-32LE", "UTF-32BE", "ISO-8859-1"}

Width(cs) == CASE cs \in {"ISO-8859-1", "KOI8-R"}   -> 1
               [] cs \in {"UTF-16LE", "UTF-16BE"} -> 2
               [] cs \in {"UTF-32LE", "UTF-32BE"} -> 4

\* The character of a complete sequence of bytes; latin and cyrillic are any of
\* theirs, and U+4E2D is written with the bytes of "N" and "-".
CharOf(cs, bytes) ==
    LET n    == Len(bytes)
        big  == IF cs \in {"UTF-16LE", "UTF-32LE"} THEN Reverse(bytes) ELSE bytes
        zero == \A i \in 1 .. n - 1 : big[i] = "00"
    IN  CASE zero /\ big[n] \notin NonAscii       -> big[n]
          [] cs = "KOI8-R" /\ big[n] \in NonAscii ->
                 IF big[n] \in {"85", "A9", "BB"} THEN "other" ELSE "cyrillic"
          [] cs # "KOI8-R" /\ zero                ->
                 IF big[n] = "85" THEN "NEL" ELSE IF big[n] = "E9" THEN "eacute" ELSE "latin"
          [] ~zero /\ n = 4                       -> "bad"
          [] OTHER -> IF big = <<"N", "-">> THEN "han" ELSE "other"

\* The same, or None while the sequence is open.
Character(cs, bytes) ==
    IF cs # "UTF-8" THEN IF Len(bytes) = Width(cs) THEN CharOf(cs, bytes) ELSE None
    ELSE CASE bytes \in {<<"C2">>, <<"C3">>} -> None
           [] bytes = <<"C2", "85">>         -> "NEL"
           [] bytes = <<"C3", "A9">>         -> "eacute"
           [] OTHER -> IF Len(bytes) = 1 /\ bytes[1] \notin NonAscii THEN bytes[1] ELSE "bad"

\* Bytes of a character in UTF-8, and of the longest one of an encoding.
Utf8Length(c) ==
    CASE c \in {"NEL", "eacute", "latin", "cyrillic"} -> 2
      [] c \in {"bad", "other", "han"}                -> 3
      [] OTHER                                        -> 1

LongestChar(cs) == IF cs = "KOI8-R" THEN 3 ELSE 4

\* Variant: no more is reserved than there are bytes.
Reserved_NoMore(bytes) == Len(bytes)

Reserved(bytes) == Len(bytes) + 16

\* One byte more.  encoding_rs reads on only while its longest character would
\* fit: the output is never grown, and the rest of the bytes is left unread.
DecodeByte(cs, reserved, st, byte) ==
    LET bytes == Append(st.open, byte)
        c     == Character(cs, bytes)
    IN  CASE st.unread \/ (IsLibrary(cs) /\ st.written + LongestChar(cs) > reserved) ->
                 [st EXCEPT !.unread = TRUE]
          [] OTHER ->
                 IF c = None THEN [st EXCEPT !.open = bytes]
                 ELSE [st EXCEPT !.open = <<>>, !.text = Append(@, c),
                                 !.written = @ + Utf8Length(c)]

\* The bytes of one call, by an engine that holds the bytes open.
Decode(cs, open, bytes) ==
    LET after[i \in 0 .. Len(bytes)] ==
            IF i = 0 THEN [open |-> open, text |-> <<>>, written |-> 0, unread |-> FALSE]
            ELSE DecodeByte(cs, Reserved(bytes), after[i - 1], bytes[i])
    IN  after[Len(bytes)]

\* Variant: the character before a chunk is forgotten.
Normalized_Forgetful(text, before, is11) ==
    LET Line(i) == CASE text[i] = "CR" -> <<"LF">>
                     [] text[i] = "LF" /\ i > 1 /\ text[i - 1] = "CR" -> <<>>
                     [] text[i] = "NEL" /\ is11 -> <<"LF">>
                     [] OTHER -> <<text[i]>>
    IN  FlattenSeq([i \in 1 .. Len(text) |-> Line(i)])

\* normalize_line_endings: CR and CR LF become LF, in 1.1 NEL too, with the
\* character before the text carried over from the last chunk.
Normalized(text, before, is11) ==
    LET Previous(i) == IF i = 1 THEN before ELSE text[i - 1]
        Line(i) == CASE text[i] = "CR" -> <<"LF">>
                     [] text[i] = "LF" /\ Previous(i) = "CR" -> <<>>
                     [] text[i] = "NEL" /\ is11 -> <<"LF">>
                     [] OTHER -> <<text[i]>>
    IN  FlattenSeq([i \in 1 .. Len(text) |-> Line(i)])

------------------------------------------------------------------------------
(* The decoder's calls, as functions of the decoder d and the scanner s *)

NewDecoder == [state |-> "Init", bom |-> None, prelude |-> <<>>, charset |-> None,
               xml11 |-> FALSE, bytes_mode |-> FALSE,
               engine |-> <<>>,     \* bytes kept for the next call
               finished |-> FALSE,  \* whether it was told that there is none
               last_char |-> "NUL", had_incomplete |-> FALSE,
               unread |-> {}]       \* history: lengths of the pieces not read to their end

NewScanner(is11) == [encoding |-> None, xml11 |-> is11, standalone |-> FALSE,
                     text |-> <<>>, ended |-> FALSE]

Result(d, s, error) == [dec |-> d, scanner |-> s, error |-> error]

feed_content(d, s, bytes, last) ==
    LET wide    == d.charset \in {"UTF-32LE", "UTF-32BE"}
        library == ~d.bytes_mode /\ IsLibrary(d.charset)
        r       == IF d.bytes_mode THEN [text |-> bytes, open |-> <<>>, unread |-> FALSE]
                   ELSE Decode(d.charset, d.engine, bytes)
        bad     == ~d.bytes_mode /\ "bad" \in ToSet(r.text)
        torn    == last /\ (bad \/ r.open # <<>>)
        chars   == IF last /\ library /\ r.open # <<>> THEN Append(r.text, "bad") ELSE r.text
        next    == [d EXCEPT !.engine = IF last /\ library THEN <<>> ELSE r.open,
                             !.finished = last /\ library /\ ~r.unread,
                             !.had_incomplete = @ \/ torn,
                             !.unread = @ \cup (IF r.unread THEN {Len(bytes)} ELSE {})]
        text    == Normalized(chars, d.last_char, d.xml11)
    IN  IF library /\ d.finished THEN Result(d, s, {"panic"})
        ELSE IF bad /\ wide THEN Result([d EXCEPT !.engine = @ \o bytes], s, {"decoder"})
        ELSE IF bad /\ ~last THEN Result(next, s, {"decoder"})
        ELSE Result([next EXCEPT !.last_char = IF chars = <<>> THEN @ ELSE Last(chars)],
                    [s EXCEPT !.text = @ \o text], {})

\* Variant: the bytes are let go before the encoding is known to be right.
setup_charset_decoder_TakesEarly(d, s, p, last) ==
    LET found == p.result = "Ok"
        cs    == CharsetFor(d.bom, IF found THEN p.encoding ELSE <<None>>)
        body  == IF found THEN SubSeq(d.prelude, UnitSize(d.bom) * p.consumed + 1, Len(d.prelude))
                 ELSE d.prelude
        ready == [d EXCEPT !.state = "Content", !.charset = cs, !.prelude = <<>>,
                           !.bytes_mode = cs = "UTF-8"]
    IN  IF cs = None THEN Result([d EXCEPT !.prelude = body], s, {"decoder"})
        ELSE feed_content(ready, [s EXCEPT !.encoding = cs], body, last)

\* Variant: byte mode for every document in UTF-8.
setup_charset_decoder_BytesAlways(d, s, p, last) ==
    LET found == p.result = "Ok"
        is11  == found /\ p.version = <<"1.1">>
        cs    == CharsetFor(d.bom, IF found THEN p.encoding ELSE <<None>>)
        body  == IF found THEN SubSeq(d.prelude, UnitSize(d.bom) * p.consumed + 1, Len(d.prelude))
                 ELSE d.prelude
        ready == [d EXCEPT !.state = "Content", !.xml11 = is11, !.charset = cs, !.prelude = <<>>,
                           !.bytes_mode = cs = "UTF-8"]
    IN  IF cs = None THEN Result(d, s, {"decoder"})
        ELSE feed_content(ready, [s EXCEPT !.encoding = cs], body, last)

\* The declaration p is decided on: fix the encoding and pass the rest on.
setup_charset_decoder(d, s, p, last) ==
    LET found == p.result = "Ok"
        is11  == IF found /\ p.version # <<None>> THEN p.version = <<"1.1">> ELSE d.xml11
        cs    == CharsetFor(d.bom, IF found THEN p.encoding ELSE <<None>>)
        told  == [s EXCEPT !.xml11 = IF found /\ p.version # <<None>> THEN is11 ELSE @,
                           !.standalone = IF found /\ p.standalone # <<None>>
                                          THEN p.standalone = <<"yes">> ELSE @]
        body  == IF found THEN SubSeq(d.prelude, UnitSize(d.bom) * p.consumed + 1, Len(d.prelude))
                 ELSE d.prelude
        ready == [d EXCEPT !.state = "Content", !.xml11 = is11, !.charset = cs, !.prelude = <<>>,
                           !.bytes_mode = cs = "UTF-8" /\ ~is11]
    IN  IF cs = None THEN Result([d EXCEPT !.xml11 = is11], told, {"decoder"})
        ELSE feed_content(ready, [told EXCEPT !.encoding = cs], body, last)

SeenBom(d) ==
    LET b == BomOf(d.prelude)
    IN  [d EXCEPT !.state = "SeenBom", !.bom = b,
                  !.prelude = SubSeq(@, MarkLength(b) + 1, Len(@))]

\* Variant: what is no declaration is taken for an incomplete one.
DecideOn_Patient(d, s, p, final) ==
    IF p.result # "Ok" /\ ~final THEN Result(d, s, {})
    ELSE setup_charset_decoder(d, s, p, final)

DecideOn(d, s, p, final) ==
    IF p.result = "Underflow" /\ ~final THEN Result(d, s, {})
    ELSE setup_charset_decoder(d, s, p, final)

parse_declaration(d, s, final) ==
    DecideOn(d, s, ParseDeclaration(ReadChars(d.prelude, d.bom), doc.external), final)

advance(d, s, data, final) ==
    LET more == [d EXCEPT !.prelude = @ \o data]
    IN  CASE d.state = "Content" -> feed_content(d, s, data, final)
          [] d.state = "SeenBom" -> parse_declaration(more, s, final)
          [] d.state = "Init" /\ ~final /\ Len(more.prelude) < BytesNeeded(more.prelude) ->
                 Result(more, s, {})
          [] OTHER -> parse_declaration(SeenBom(more), s, final)

------------------------------------------------------------------------------
(* Parser *)

Init ==
    /\ doc \in Documents
    /\ arrived = 0
    /\ dec = NewDecoder
    /\ scanner = NewScanner(FALSE)
    /\ failed = {}
    /\ closed = FALSE
    /\ cut = FALSE
    /\ resets = 0

MayCall(call) == failed = {} \/ (call \in AfterFailure /\ "panic" \notin failed)

\* The scanner may refuse any text for reasons of its own.
Refusable(r) ==
    Result(r.dec, r.scanner, r.error \cup IF r.scanner.text = scanner.text THEN {} ELSE {"scanner"})

Becomes(r) ==
    /\ dec' = r.dec
    /\ scanner' = r.scanner
    /\ failed' = failed \cup r.error

Returns(r) == Becomes(r) \/ Becomes(Refusable(r))

\* A chunk ends anywhere.  Bound: after a close the rest comes in one.
ChunkEnds == {n \in arrived + 1 .. Len(doc.bytes) : closed => n = Len(doc.bytes)}

receive ==
    /\ MayCall("receive")
    /\ \E n \in ChunkEnds :
          /\ arrived' = n
          /\ Returns(IF dec.state = "Closed" THEN Result(dec, scanner, {"decoder"})
                     ELSE advance(dec, scanner, SubSeq(doc.bytes, arrived + 1, n), FALSE))
    /\ UNCHANGED <<doc, closed, cut, resets>>

\* has_incomplete_trailing_bytes: the scanner waits at an open sequence.
HasIncompleteTrailingBytes(s) ==
    s.text # <<>> /\ Last(s.text) \in {"C2", "C3", "EF"}

\* The end of the stream, of which the decoder has made r.
Ends(r) ==
    LET incomplete == \/ r.dec.had_incomplete
                      \/ r.dec.bytes_mode /\ HasIncompleteTrailingBytes(r.scanner)
    IN  \/ Becomes(Refusable(r)) /\ r.scanner.text # scanner.text
        \/ r.error # {} /\ Becomes(r)
        \/ /\ r.error = {} /\ incomplete
           /\ Becomes(Result(r.dec, r.scanner, {"decoder"}))
        \/ /\ r.error = {} /\ ~incomplete
           /\ \/ Becomes(Result(r.dec, r.scanner, {"scanner"}))
              \/ Becomes(Result([r.dec EXCEPT !.state = "Closed"],
                                [r.scanner EXCEPT !.ended = TRUE], {}))

close ==
    /\ MayCall("close")
    /\ ~closed
    /\ closed' = TRUE
    /\ cut' = (arrived < Len(doc.bytes))
    /\ Ends(advance(dec, scanner, <<>>, TRUE))
    /\ UNCHANGED <<doc, arrived, resets>>

\* Scanner::reset keeps xml11.
reset ==
    /\ resets < MaxResets
    /\ resets' = resets + 1
    /\ doc' \in LaterDocuments
    /\ arrived' = 0
    /\ dec' = NewDecoder
    /\ scanner' = NewScanner(scanner.xml11)
    /\ failed' = {}
    /\ closed' = FALSE
    /\ cut' = FALSE

Next == receive \/ close \/ reset

Spec == Init /\ [][Next]_vars

------------------------------------------------------------------------------
(* Properties *)

\* Only a decoder that has read its declaration has an encoding, keeps no
\* undecided bytes, and may be in byte mode, which 1.1 never is.
TypeOK ==
    /\ arrived \in 0 .. Len(doc.bytes)
    /\ dec.state \in {"Init", "SeenBom", "Content", "Closed"}
    /\ dec.bom \in Marks \cup {None} /\ dec.charset \in Charsets \cup {None}
    /\ dec.state \in {"Content", "Closed"} <=> dec.charset # None
    /\ dec.charset # None => dec.prelude = <<>>
    /\ dec.bytes_mode => dec.charset = "UTF-8" /\ ~dec.xml11 /\ dec.engine = <<>>
    /\ scanner.encoding = dec.charset
    /\ scanner.ended <=> dec.state = "Closed"
    /\ failed \subseteq {"decoder", "scanner", "panic"}
    /\ resets \in 0 .. MaxResets

\* What the whole of a document says of itself.
BodyOf(d) == SubSeq(d.bytes, MarkLength(BomOf(d.bytes)) + 1, Len(d.bytes))
DeclarationOf(d) == ParseDeclaration(ReadChars(BodyOf(d), BomOf(d.bytes)), d.external)
IsDeclared(d) == DeclarationOf(d).result = "Ok"

EncodingOf(d) ==
    CharsetFor(BomOf(d.bytes), IF IsDeclared(d) THEN DeclarationOf(d).encoding ELSE <<None>>)
IsVersioned(d) == IsDeclared(d) /\ DeclarationOf(d).version # <<None>>
Is11(d) == IsDeclared(d) /\ DeclarationOf(d).version = <<"1.1">>
IsStandalone(d) == IsDeclared(d) /\ DeclarationOf(d).standalone = <<"yes">>

\* Wherever the chunks are cut: the encoding, the version and standalone are
\* those that the whole document declares, before any text is passed on.  After
\* a reset a document that declares no version is read by the scanner's last
\* one (see README).
SettingsAreDeclared ==
    ~cut /\ dec.charset # None =>
        /\ dec.bom = BomOf(doc.bytes)
        /\ dec.charset = EncodingOf(doc)
        /\ dec.xml11 = Is11(doc)
        /\ IsVersioned(doc) \/ resets = 0 => scanner.xml11 = Is11(doc)
        /\ scanner.standalone = IsStandalone(doc)

\* The scanner has no text before the encoding is known; until then the
\* decoder keeps every byte that came after the mark.
UndecidedKept ==
    dec.charset = None =>
        /\ scanner.text = <<>>
        /\ dec.prelude = SubSeq(doc.bytes, MarkLength(dec.bom) + 1, arrived)

\* No piece of this many bytes can fill the output reserved for it: each byte
\* ends at most one character, and that is at most three bytes longer.
ShortPiece == 7

\* A document is reported ended only when neither the engine nor the text passed
\* on as bytes holds an open sequence.  Of a piece of feed_content bytes are lost
\* only if it is long enough to fill its output, and only by an encoding_rs
\* engine, which is not asked in byte mode, UTF-32 and ISO-8859-1.
NoByteLeft ==
    /\ scanner.ended =>
        /\ dec.engine = <<>> /\ ~dec.had_incomplete
        /\ dec.bytes_mode => ~HasIncompleteTrailingBytes(scanner)
    /\ \A n \in dec.unread : n > ShortPiece
    /\ dec.unread # {} => ~dec.bytes_mode /\ IsLibrary(dec.charset)

\* Only an application that goes on with receive after an Err can meet the
\* panic of an encoding_rs decoder that is used after its end.
PanicIsEarned == "panic" \in failed => "receive" \in AfterFailure

\* Until the next reset an encoding, once it is fixed, stays, and with it all
\* that the declaration said.
Settles ==
    dec.charset # None /\ resets' = resets =>
        /\ dec'.charset = dec.charset /\ dec'.bom = dec.bom /\ dec'.xml11 = dec.xml11
        /\ dec'.bytes_mode = dec.bytes_mode
        /\ scanner'.encoding = scanner.encoding /\ scanner'.xml11 = scanner.xml11
        /\ scanner'.standalone = scanner.standalone

SettledOnce == [][Settles]_vars
=============================================================================
