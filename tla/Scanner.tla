------------------------------ MODULE Scanner -------------------------------
(***************************************************************************)
(* The push scanner of scanner.rs, from Parser::new to Parser::close and   *)
(* Parser::reset, for documents without a DOCTYPE.  A chunk of the input   *)
(* arrives with each Receive; the scan loop then runs, one action per      *)
(* token or per piece of one, until it needs more input or fails.          *)
(*                                                                         *)
(* scanner.rs holds every scan function twice, over characters and over    *)
(* UTF-8 bytes.  One action stands for both twins; bytes_mode tells which  *)
(* one runs, and the input of a byte-mode document holds CLead and CCont.  *)
(*                                                                         *)
(* Positions count from the start of the input: input[1 .. pos] is         *)
(* consumed, input[pos + 1 .. limit] is what the code's buffer holds       *)
(* between its own pos and limit, the rest has not arrived.                *)
(***************************************************************************)
EXTENDS Naturals, Sequences, FiniteSets, HandlerContract

CONSTANTS
    Documents,      \* the inputs the application may feed
    SkipDoctype,    \* DoctypeHandling::Skip: unknown entities are skipped
    AfterFailure,   \* the calls the application still makes after an Err
    MaxResets       \* bound: how often the parser is reused

ASSUME DocumentsAssumption == Documents \subseteq Text
ASSUME SettingsAssumption  == SkipDoctype \in BOOLEAN /\ MaxResets \in Nat
ASSUME AfterFailureAssumption == AfterFailure \subseteq {"receive", "close"}

VARIABLES
    input,                  \* the whole document being fed
    limit, pos,             \* how much of it has arrived, is consumed
    bytes_mode,             \* which twin of every scan function runs
    document_started,
    at,                     \* "app", or the scan function that is running
    inside,                 \* the in_... flags that are set
    content_run_open, content_bracket_run, cdata_run_open,
    element_stack, seen_attribute_names, root_started, root_ended,
    closed, decoder_closed, \* Parser::closed, State::Closed of the decoder
    resets,
    app                     \* the application behind the handler

position == <<limit, pos>>
runs     == <<content_run_open, content_bracket_run, cdata_run_open>>
tree     == <<element_stack, seen_attribute_names, root_started, root_ended>>
session  == <<input, bytes_mode, document_started, closed, decoder_closed, resets>>
vars     == <<position, at, inside, runs, tree, session, app>>

\* The tokens a chunk may end in, each with its flag.
Phases == {"comment", "cdata", "pi", "attribute_value"}

\* Whatever is fed, consumption never overtakes arrival, the flags and run
\* markers keep to their values, and every name kept is a text.
TypeOK ==
    /\ input \in Text
    /\ limit \in 0 .. Len(input)
    /\ pos \in 0 .. limit
    /\ bytes_mode \in BOOLEAN
    /\ document_started \in BOOLEAN
    /\ at \in {"app", "scan", "content"} \cup Phases
    /\ inside \subseteq Phases \cup {"start_tag"}
    /\ content_run_open \in BOOLEAN
    /\ content_bracket_run \in Nat
    /\ cdata_run_open \in BOOLEAN
    /\ element_stack \in Seq(Text)
    /\ seen_attribute_names \subseteq Text
    /\ root_started \in BOOLEAN
    /\ root_ended \in BOOLEAN
    /\ closed \in BOOLEAN
    /\ decoder_closed \in BOOLEAN
    /\ resets \in 0 .. MaxResets
    /\ app \in App

\* Scanner::new and Scanner::reset leave the same state.
Fresh ==
    /\ limit = 0 /\ pos = 0
    /\ bytes_mode = FALSE
    /\ document_started = FALSE
    /\ at = "app"
    /\ inside = {}
    /\ content_run_open = FALSE
    /\ content_bracket_run = 0
    /\ cdata_run_open = FALSE
    /\ element_stack = <<>>
    /\ seen_attribute_names = {}
    /\ root_started = FALSE
    /\ root_ended = FALSE
    /\ closed = FALSE
    /\ decoder_closed = FALSE
    /\ app = FreshApp

Init == input \in Documents /\ resets = 0 /\ Fresh

-----------------------------------------------------------------------------
(* Looking at the buffer                                                   *)

Buffered == 1 .. limit
At(C)    == {j \in Buffered : input[j] \in C}
Char(j)  == IF j \in Buffered THEN input[j] ELSE "end"

\* Variant: a sequence cut by the end of a chunk is not noticed.
Unfinished_BytesOnly(j) == j > limit

\* Past the buffered input, or a UTF-8 sequence whose end has not arrived.
Unfinished(j) == j > limit \/ (j = limit /\ Char(j) = CLead)

\* Not a lead byte, or from_utf8 fails on the sequence.
IllFormed(j) ==
    \/ Char(j) = CLead /\ Char(j + 1) \notin {CCont, "end"}
    \/ Char(j) = CCont /\ Char(j - 1) # CLead

Whole(j) == ~Unfinished(j) /\ ~IllFormed(j)
LegalAt  == {j \in Buffered : Whole(j) /\ Char(j) # "ctl"}
SpaceAt  == At({"w"})
DigitAt  == At(Digits)
NameAt   == {j \in Buffered : Whole(j) /\ Char(j) \in NameChars \cup {CLead, CCont}}

\* A loop that walks from `from` over the positions in S ends at `stop`.
Walk(from, S, stop) ==
    /\ stop \in from .. limit + 1
    /\ from .. stop - 1 \subseteq S
    /\ stop \notin S

Slice(from, to) == SubSeq(input, from, to)

NameStart(j) == Char(j) \in NameStartChars \cup {CLead}

\* Variant: the first character is not checked.
BadName_AnyStart(from, end) == ~Unfinished(end) /\ (IllFormed(end) \/ end = from)

\* A name from `from` that the walk left at `end`: not one, or a real one.
BadName(from, end) ==
    ~Unfinished(end) /\ (IllFormed(end) \/ end = from \/ ~NameStart(from))
Named(from, end) ==
    ~Unfinished(end) /\ ~BadName(from, end)

\* content_bracket_run after the content up to j: every other character
\* clears it.
BracketsAt(j) ==
    LET Trailing == {i \in pos + 1 .. j : \A k \in i .. j : Char(k) = "]"}
    IN  Cardinality(Trailing)
          + IF Trailing = pos + 1 .. j THEN content_bracket_run ELSE 0
-----------------------------------------------------------------------------
(* How a step of the scan loop ends.                                       *)

\* Scanner::fatal: the handler hears of it and its Err ends receive().  No
\* flag is changed.
Fatal(p) ==
    /\ app' = Deliver(app, Call("fatal_error"))
    /\ pos' = p
    /\ at' = "app"
    /\ UNCHANGED <<limit, inside, session>>

\* The scan function returns false: receive() returns, and the flag, if the
\* token has one, brings the loop back here.
NeedMore(p, flags) ==
    /\ pos' = p
    /\ at' = "app"
    /\ inside' = inside \cup flags
    /\ UNCHANGED <<limit, session>>

\* Variant: one character too many is consumed.
Done_Overruns(p, flags) ==
    /\ pos' = p + 1
    /\ at' = "scan"
    /\ inside' = inside \ flags
    /\ UNCHANGED <<limit, session>>

\* The token is finished: the loop clears its flag and goes round.
Done(p, flags) ==
    /\ pos' = p
    /\ at' = "scan"
    /\ inside' = inside \ flags
    /\ UNCHANGED <<limit, session>>

\* The token goes on, in the function f.
Proceed(p, f) ==
    /\ pos' = p
    /\ at' = f
    /\ UNCHANGED <<limit, inside, session>>

\* A piece of a text run, unless it would be empty.
Piece(a, kind, from, to, end) ==
    IF from > to THEN a ELSE Deliver(a, Event(kind, Slice(from, to), end))

\* scan() and scan_bytes() ask the flags in this order.
Resumed ==
    IF "pi" \in inside                   THEN "pi"
    ELSE IF "comment" \in inside         THEN "comment"
    ELSE IF "cdata" \in inside           THEN "cdata"
    ELSE IF "attribute_value" \in inside THEN "attribute_value"
    ELSE IF "start_tag" \in inside       THEN "start_tag"
    ELSE IF pos = limit                  THEN "return"
    ELSE IF Char(pos + 1) = "<"          THEN "markup"
    ELSE "content"

Running(f) == at = f \/ (at = "scan" /\ Resumed = f)

ReturnToApp ==
    /\ Running("return")
    /\ NeedMore(pos, {})
    /\ UNCHANGED <<runs, tree, app>>
-----------------------------------------------------------------------------
(* References: decode_entity_ref, with the & at position amp.              *)

IsCharRef(amp) == Char(amp + 1) = "#"

\* Where the walk over the digits or the name ends.
RefEnd(amp, e) ==
    \/ amp = limit /\ e = limit + 1
    \/ amp < limit /\ IsCharRef(amp)  /\ Walk(amp + 2, DigitAt, e)
    \/ amp < limit /\ ~IsCharRef(amp) /\ Walk(amp + 1, NameAt, e)

RefName(amp, e) == Slice(amp + 1, e - 1)

\* At least one digit, and not all of them 0.
CharRef(amp, e) ==
    IF Char(e) = ";" /\ \E j \in amp + 2 .. e - 1 : Char(j) # "0"
    THEN "decoded" ELSE "malformed"

EntityRef(amp, e) ==
    IF BadName(amp + 1, e) \/ Char(e) # ";" THEN "malformed"
    ELSE IF RefName(amp, e) = <<"lt">>      THEN "decoded"
    ELSE "general"

RefResult(amp, e) ==
    IF e > limit              THEN "need_more"
    ELSE IF IsCharRef(amp)    THEN CharRef(amp, e)
    ELSE IF Unfinished(e)     THEN "need_more"
    ELSE EntityRef(amp, e)

\* A predefined entity is its character, a character reference some letter.
Decoded(amp) == IF IsCharRef(amp) THEN <<"a">> ELSE <<"<">>
-----------------------------------------------------------------------------
(* Content: scan_content, one action for each way an iteration of its loop *)
(* ends.                                                                   *)

InsideDocument == element_stack # <<>>

\* scan_content_run_fast stops at < and &, at what is not legal, and at the
\* > of "]]>".
ContentAt ==
    {j \in LegalAt : /\ Char(j) \notin {"<", "&"}
                     /\ ~(Char(j) = ">" /\ BracketsAt(j - 1) >= 2)}

\* Text outside the document element: only white space may stand there.
Stray(stop) == ~InsideDocument /\ ~(pos + 1 .. stop - 1 \subseteq SpaceAt)

ContentFatal ==
    /\ Running("content")
    /\ \E stop \in Buffered :
        /\ Walk(pos + 1, ContentAt, stop)
        /\ ~Unfinished(stop) /\ Char(stop) \notin {"<", "&"}
        /\ content_bracket_run' = BracketsAt(stop - 1)
        /\ Fatal(stop - 1)
    /\ UNCHANGED <<content_run_open, cdata_run_open, tree>>

StrayText ==
    /\ Running("content")
    /\ \E stop \in pos + 1 .. limit + 1 :
        /\ Walk(pos + 1, ContentAt, stop)
        /\ Unfinished(stop) \/ Char(stop) \in {"<", "&"}
        /\ Stray(stop) \/ (~InsideDocument /\ Char(stop) = "&")
        /\ content_bracket_run' = BracketsAt(stop - 1)
        /\ Fatal(stop - 1)
    /\ UNCHANGED <<content_run_open, cdata_run_open, tree>>

\* Variant: the loop goes round on a cut sequence (scanner.rs, the comment on
\* needs_more_bytes in scan_content_bytes).
ContentNeedsMore_Spins ==
    /\ Running("content")
    /\ \E stop \in pos + 1 .. limit + 1 :
        /\ Walk(pos + 1, ContentAt, stop)
        /\ Unfinished(stop) /\ ~Stray(stop)
        /\ app' = Piece(app, "characters", pos + 1, stop - 1, stop <= limit)
        /\ content_run_open' = (stop > limit)
        /\ content_bracket_run' = BracketsAt(stop - 1)
        /\ IF stop > limit THEN NeedMore(stop - 1, {}) ELSE Proceed(stop - 1, "content")
    /\ UNCHANGED <<cdata_run_open, tree>>

ContentNeedsMore ==
    /\ Running("content")
    /\ \E stop \in pos + 1 .. limit + 1 :
        /\ Walk(pos + 1, ContentAt, stop)
        /\ Unfinished(stop) /\ ~Stray(stop)
        /\ app' = IF InsideDocument
                  THEN Piece(app, "characters", pos + 1, stop - 1, FALSE)
                  ELSE app
        /\ content_run_open' = (content_run_open \/ (InsideDocument /\ stop > pos + 1))
        /\ content_bracket_run' = BracketsAt(stop - 1)
        /\ NeedMore(stop - 1, {})
    /\ UNCHANGED <<cdata_run_open, tree>>

\* The run is closed before the markup: by its last piece, or by an empty one.
ContentToMarkup ==
    /\ Running("content")
    /\ \E stop \in Buffered :
        /\ Walk(pos + 1, ContentAt, stop)
        /\ Char(stop) = "<" /\ ~Stray(stop)
        /\ app' = IF ~InsideDocument THEN app
                  ELSE IF stop = pos + 1 /\ content_run_open
                       THEN Deliver(app, Event("characters", <<>>, TRUE))
                       ELSE Piece(app, "characters", pos + 1, stop - 1, TRUE)
        /\ content_run_open' = (content_run_open /\ ~InsideDocument)
        /\ content_bracket_run' = 0
        /\ Done(stop - 1, {})
    /\ UNCHANGED <<cdata_run_open, tree>>

\* The text before the & goes out first, as an unfinished piece.
AtReference(amp) ==
    Char(amp) = "&" /\ InsideDocument /\ Walk(pos + 1, ContentAt, amp)

BeforeReference(amp) == Piece(app, "characters", pos + 1, amp - 1, FALSE)
OpenBefore(amp)      == content_run_open \/ amp > pos + 1

\* Variant: the text before an incomplete reference stays in the buffer.
ReferenceNeedsMore_BacksUp ==
    /\ Running("content")
    /\ \E amp \in Buffered : AtReference(amp) /\ \E e \in amp + 1 .. limit + 1 :
        /\ RefEnd(amp, e) /\ RefResult(amp, e) = "need_more"
        /\ app' = BeforeReference(amp)
        /\ content_run_open' = OpenBefore(amp)
        /\ content_bracket_run' = BracketsAt(amp - 1)
        /\ NeedMore(pos, {})
    /\ UNCHANGED <<cdata_run_open, tree>>

ReferenceNeedsMore ==
    /\ Running("content")
    /\ \E amp \in Buffered : AtReference(amp) /\ \E e \in amp + 1 .. limit + 1 :
        /\ RefEnd(amp, e) /\ RefResult(amp, e) = "need_more"
        /\ app' = BeforeReference(amp)
        /\ content_run_open' = OpenBefore(amp)
        /\ content_bracket_run' = BracketsAt(amp - 1)
        /\ NeedMore(amp - 1, {})
    /\ UNCHANGED <<cdata_run_open, tree>>

ReferenceMalformed ==
    /\ Running("content")
    /\ \E amp \in Buffered : AtReference(amp) /\ \E e \in amp + 1 .. limit :
        /\ RefEnd(amp, e) /\ RefResult(amp, e) = "malformed"
        /\ app' = Deliver(BeforeReference(amp), Call("fatal_error"))
        /\ content_run_open' = OpenBefore(amp)
        /\ content_bracket_run' = BracketsAt(amp - 1)
        /\ pos' = amp - 1
        /\ at' = "app"
    /\ UNCHANGED <<limit, inside, session, cdata_run_open, tree>>

\* The decoded character ends the run only if the markup is in sight.
ReferenceDecoded ==
    /\ Running("content")
    /\ \E amp \in Buffered : AtReference(amp) /\ \E e \in amp + 1 .. limit :
        /\ RefEnd(amp, e) /\ RefResult(amp, e) = "decoded"
        /\ LET at_markup == Char(e + 1) = "<"
           IN  /\ app' = Deliver(BeforeReference(amp),
                                 Event("characters", Decoded(amp), at_markup))
               /\ content_run_open' = ~at_markup
               /\ Proceed(e, IF at_markup THEN "scan" ELSE "content")
        /\ content_bracket_run' = 0
    /\ UNCHANGED <<cdata_run_open, tree>>

\* A general entity closes the run.  Without a DOCTYPE nothing is declared:
\* check_entity_referenceable reports it skipped, or fails.
ReferenceUndeclared ==
    /\ Running("content")
    /\ \E amp \in Buffered : AtReference(amp) /\ \E e \in amp + 1 .. limit :
        /\ RefEnd(amp, e) /\ RefResult(amp, e) = "general"
        /\ LET closing == IF OpenBefore(amp)
                          THEN Deliver(BeforeReference(amp),
                                       Event("characters", <<>>, TRUE))
                          ELSE app
           IN  app' = Deliver(closing,
                        IF SkipDoctype THEN CallOn("skipped_entity", RefName(amp, e))
                        ELSE Call("fatal_error"))
        /\ pos' = e
        /\ at' = IF SkipDoctype THEN "content" ELSE "app"
        /\ content_run_open' = FALSE
        /\ content_bracket_run' = 0
    /\ UNCHANGED <<limit, inside, session, cdata_run_open, tree>>

ScanContent ==
    \/ ContentFatal \/ StrayText \/ ContentNeedsMore \/ ContentToMarkup
    \/ ReferenceNeedsMore \/ ReferenceMalformed \/ ReferenceDecoded
    \/ ReferenceUndeclared
-----------------------------------------------------------------------------
(* Markup: scan_markup.  Every scanner of a tag backs up to the < when the *)
(* buffer ends first.                                                      *)

\* The markup's kind needs one character, that of a declaration two.
MarkupNeedsMore ==
    /\ Running("markup")
    /\ \/ pos + 1 = limit
       \/ pos + 2 = limit /\ Char(limit) = "!"
    /\ NeedMore(pos, {})
    /\ UNCHANGED <<runs, tree, app>>

Markup(c) == Running("markup") /\ Char(pos + 2) = c

StartTag ==
    /\ Running("markup") /\ Char(pos + 2) \notin {"/", "!", "?", "end"}
    /\ \E end \in pos + 2 .. limit + 1 :
        /\ Walk(pos + 2, NameAt, end)
        /\ \/ /\ Unfinished(end)
              /\ NeedMore(pos, {})
              /\ UNCHANGED <<tree, app>>
           \/ /\ BadName(pos + 2, end) \/ (Named(pos + 2, end) /\ root_ended)
              /\ Fatal(pos)
              /\ UNCHANGED tree
           \/ /\ Named(pos + 2, end) /\ ~root_ended
              /\ LET q_name == Slice(pos + 2, end - 1)
                 IN  /\ element_stack' = Append(element_stack, q_name)
                     /\ app' = Deliver(app, CallOn("start_element", q_name))
              /\ root_started' = TRUE
              /\ seen_attribute_names' = {}
              /\ pos' = end - 1
              /\ at' = "scan"
              /\ inside' = inside \cup {"start_tag"}
              /\ UNCHANGED <<limit, session, root_ended>>
    /\ UNCHANGED runs

Top == element_stack[Len(element_stack)]
Popped == SubSeq(element_stack, 1, Len(element_stack) - 1)

\* scan_end_tag; its fast path, for </name> fully buffered, ends the same way.
\* A tag that does not match has popped the element before it fails.
EndTag ==
    /\ Markup("/")
    /\ \E end \in pos + 3 .. limit + 1 : \E close \in end .. limit + 1 :
        /\ Walk(pos + 3, NameAt, end)
        /\ Walk(end, SpaceAt, close)
        /\ LET named    == Named(pos + 3, end)
               complete == named /\ close <= limit
               found    == Slice(pos + 3, end - 1)
           IN \/ /\ Unfinished(end) \/ (named /\ close > limit)
                 /\ NeedMore(pos, {})
                 /\ UNCHANGED <<tree, app>>
              \/ /\ \/ BadName(pos + 3, end)
                    \/ complete /\ (Char(close) # ">" \/ element_stack = <<>>)
                 /\ Fatal(pos)
                 /\ UNCHANGED tree
              \/ /\ complete /\ Char(close) = ">" /\ element_stack # <<>>
                 /\ element_stack' = Popped
                 /\ UNCHANGED <<seen_attribute_names, root_started>>
                 /\ IF found = Top
                    THEN /\ root_ended' = (Popped = <<>>)
                         /\ app' = Deliver(app, Call("end_element"))
                         /\ Done(close, {})
                    ELSE /\ UNCHANGED root_ended
                         /\ Fatal(pos)
    /\ UNCHANGED runs
-----------------------------------------------------------------------------
(* The rest of a start tag: scan_attributes_and_tag_end.  It backs up to   *)
(* where the attribute began, however far it had come.                     *)

\* The position n of the first character that is not white space.
InTag(n) == Walk(pos + 1, SpaceAt, n)

TagNeedsMore ==
    /\ Running("start_tag")
    /\ \E n \in pos + 1 .. limit + 1 :
        /\ InTag(n)
        /\ n > limit \/ (n = limit /\ Char(n) = "/")
    /\ NeedMore(pos, {})
    /\ UNCHANGED <<runs, tree, app>>

\* White space between attributes: the byte path asks only an ASCII byte.
TagFatal ==
    /\ Running("start_tag")
    /\ \E n \in Buffered :
        /\ InTag(n)
        /\ \/ n = pos + 1 /\ Char(n) \in NameChars
           \/ Char(n) = "/" /\ Char(n + 1) \notin {">", "end"}
        /\ Fatal(n - 1)
    /\ UNCHANGED <<runs, tree>>

EndOfTag ==
    /\ Running("start_tag")
    /\ \E n \in Buffered :
        /\ InTag(n) /\ Char(n) = ">"
        /\ app' = Deliver(app, Call("end_attributes"))
        /\ Done(n, {"start_tag"})
    /\ UNCHANGED <<runs, tree>>

\* Variant: the element of an empty-element tag stays on the stack.
EmptyElement_NotPopped ==
    /\ Running("start_tag")
    /\ \E n \in Buffered :
        /\ InTag(n) /\ Char(n) = "/" /\ Char(n + 1) = ">"
        /\ app' = Deliver(Deliver(app, Call("end_attributes")), Call("end_element"))
        /\ Done(n + 1, {"start_tag"})
    /\ UNCHANGED <<runs, tree>>

EmptyElement ==
    /\ Running("start_tag")
    /\ \E n \in Buffered :
        /\ InTag(n) /\ Char(n) = "/" /\ Char(n + 1) = ">"
        /\ element_stack' = Popped
        /\ root_ended' = (Popped = <<>>)
        /\ app' = Deliver(Deliver(app, Call("end_attributes")), Call("end_element"))
        /\ Done(n + 1, {"start_tag"})
    /\ UNCHANGED <<runs, seen_attribute_names, root_started>>

\* Variant: the name is recorded before the last point that backs up over it.
AttributeFromEquals_Early(name, g) ==
    \E q \in g + 1 .. limit + 1 :
        /\ Walk(g + 1, SpaceAt, q)
        /\ IF name \in seen_attribute_names THEN Fatal(g) /\ UNCHANGED tree
           ELSE /\ seen_attribute_names' = seen_attribute_names \cup {name}
                /\ UNCHANGED <<element_stack, root_started, root_ended>>
                /\ \/ q > limit /\ NeedMore(pos, {}) /\ UNCHANGED app
                   \/ Char(q) \notin {"'", "end"} /\ Fatal(q - 1)
                   \/ /\ Char(q) = "'"
                      /\ app' = Deliver(app, CallOn("start_attribute", name))
                      /\ Proceed(q, "attribute_value")

\* The = is at g.  The name is recorded, and a duplicate found, only once the
\* quote at q has been seen: no step after that backs up over the name.
AttributeFromEquals(name, g) ==
    \E q \in g + 1 .. limit + 1 :
        /\ Walk(g + 1, SpaceAt, q)
        /\ \/ q > limit /\ NeedMore(pos, {}) /\ UNCHANGED <<tree, app>>
           \/ Char(q) \notin {"'", "end"} /\ Fatal(q - 1) /\ UNCHANGED tree
           \/ /\ Char(q) = "'" /\ name \in seen_attribute_names
              /\ Fatal(q)
              /\ UNCHANGED tree
           \/ /\ Char(q) = "'" /\ name \notin seen_attribute_names
              /\ seen_attribute_names' = seen_attribute_names \cup {name}
              /\ app' = Deliver(app, CallOn("start_attribute", name))
              /\ Proceed(q, "attribute_value")
              /\ UNCHANGED <<element_stack, root_started, root_ended>>

\* An attribute: its name in n .. e - 1, then white space up to g.
Attribute ==
    /\ Running("start_tag")
    /\ \E n \in Buffered : InTag(n) /\ \E e \in n .. limit + 1 :
        /\ Char(n) \notin {">", "/"}
        /\ ~(n = pos + 1 /\ Char(n) \in NameChars)
        /\ Walk(n, NameAt, e)
        /\ \/ Unfinished(e) /\ NeedMore(pos, {}) /\ UNCHANGED <<tree, app>>
           \/ BadName(n, e) /\ Fatal(IF bytes_mode THEN n - 1 ELSE e - 1) /\ UNCHANGED tree
           \/ /\ Named(n, e)
              /\ \E g \in e .. limit + 1 :
                  /\ Walk(e, SpaceAt, g)
                  /\ \/ g > limit /\ NeedMore(pos, {}) /\ UNCHANGED <<tree, app>>
                     \/ Char(g) \notin {"=", "end"} /\ Fatal(g - 1) /\ UNCHANGED tree
                     \/ Char(g) = "=" /\ AttributeFromEquals(Slice(n, e - 1), g)
    /\ UNCHANGED runs

ScanAttributesAndTagEnd ==
    TagNeedsMore \/ TagFatal \/ EndOfTag \/ EmptyElement \/ Attribute
-----------------------------------------------------------------------------
(* Attribute values: scan_attribute_value_streaming, one action for each   *)
(* way an iteration of its loop ends.  What follows the closing quote is   *)
(* the rest of the tag, whether or not in_attribute_value was set.         *)

ValueAt == {j \in LegalAt : Char(j) \notin {"'", "&", "<"}}

InValue(stop) == Walk(pos + 1, ValueAt, stop)

ValueNeedsMore ==
    /\ Running("attribute_value")
    /\ \E stop \in pos + 1 .. limit + 1 :
        /\ InValue(stop) /\ Unfinished(stop)
        /\ app' = Piece(app, "attribute_value_content", pos + 1, stop - 1, FALSE)
        /\ NeedMore(stop - 1, {"attribute_value"})
    /\ UNCHANGED <<runs, tree>>

ValueFatal ==
    /\ Running("attribute_value")
    /\ \E stop \in Buffered :
        /\ InValue(stop)
        /\ ~Unfinished(stop) /\ Char(stop) \notin {"'", "&"}
        /\ Fatal(stop - 1)
    /\ UNCHANGED <<runs, tree>>

\* Variant: an empty last piece is not reported.
EndOfValue_Silent ==
    /\ Running("attribute_value")
    /\ \E stop \in Buffered :
        /\ InValue(stop) /\ Char(stop) = "'"
        /\ app' = Piece(app, "attribute_value_content", pos + 1, stop - 1, TRUE)
        /\ Done(stop, {"attribute_value"})
    /\ UNCHANGED <<runs, tree>>

\* The last piece ends the run even when it is empty.
EndOfValue ==
    /\ Running("attribute_value")
    /\ \E stop \in Buffered :
        /\ InValue(stop) /\ Char(stop) = "'"
        /\ app' = Deliver(app, Event("attribute_value_content",
                                     Slice(pos + 1, stop - 1), TRUE))
        /\ Done(stop, {"attribute_value"})
    /\ UNCHANGED <<runs, tree>>

\* The decoded reference, or nothing for a skipped entity, ends the run only
\* if the quote is in sight.
ValueReference ==
    /\ Running("attribute_value")
    /\ \E amp \in At({"&"}) : InValue(amp) /\ \E e \in amp + 1 .. limit + 1 :
        /\ RefEnd(amp, e)
        /\ LET result   == RefResult(amp, e)
               before   == Piece(app, "attribute_value_content", pos + 1, amp - 1, FALSE)
               at_quote == Char(e + 1) = "'"
               Resolved(a, text) ==
                   /\ app' = Deliver(a, Event("attribute_value_content", text, at_quote))
                   /\ IF at_quote THEN Done(e + 1, {"attribute_value"})
                                  ELSE Proceed(e, "attribute_value")
               Failed(p) ==
                   /\ app' = Deliver(before, Call("fatal_error"))
                   /\ pos' = p /\ at' = "app" /\ UNCHANGED <<limit, inside, session>>
           IN CASE result = "need_more" ->
                       app' = before /\ NeedMore(amp - 1, {"attribute_value"})
                [] result = "malformed" -> Failed(amp - 1)
                [] result = "decoded"   -> Resolved(before, Decoded(amp))
                [] result = "general"   ->
                       IF SkipDoctype
                       THEN Resolved(Deliver(before,
                                CallOn("skipped_entity", RefName(amp, e))), <<>>)
                       ELSE Failed(e)
    /\ UNCHANGED <<runs, tree>>

ScanAttributeValue == ValueNeedsMore \/ ValueFatal \/ EndOfValue \/ ValueReference
-----------------------------------------------------------------------------
(* Comments, CDATA sections, processing instructions.  Their data is held  *)
(* back from the first character that may begin the end mark.              *)

\* scan_bang_markup and scan_comment.
BangFatal ==
    /\ Markup("!")
    /\ \/ Char(pos + 3) \notin {"-", "[", "end"}
       \/ Char(pos + 3) = "-" /\ Char(pos + 4) \notin {"-", "end"}
       \/ Char(pos + 3) = "[" /\ ~InsideDocument
    /\ Fatal(pos)
    /\ UNCHANGED <<runs, tree>>

StartComment ==
    /\ Markup("!") /\ Char(pos + 3) = "-"
    /\ \/ pos + 4 > limit /\ NeedMore(pos, {}) /\ UNCHANGED app
       \/ /\ Char(pos + 4) = "-"
          /\ app' = Deliver(app, Call("start_comment"))
          /\ Proceed(pos + 4, "comment")
    /\ UNCHANGED <<runs, tree>>

\* Variant: a CDATA section is let through outside the document element.
StartCdata_Anywhere ==
    /\ Markup("!") /\ Char(pos + 3) = "["
    /\ app' = Deliver(app, Call("start_cdata"))
    /\ cdata_run_open' = FALSE
    /\ Proceed(pos + 3, "cdata")
    /\ UNCHANGED <<content_run_open, content_bracket_run, tree>>

StartCdata ==
    /\ Markup("!") /\ Char(pos + 3) = "[" /\ InsideDocument
    /\ app' = Deliver(app, Call("start_cdata"))
    /\ cdata_run_open' = FALSE
    /\ Proceed(pos + 3, "cdata")
    /\ UNCHANGED <<content_run_open, content_bracket_run, tree>>

\* scan_pi: the target is followed by white space, which is skipped, or ?.
StartPI ==
    /\ Markup("?")
    /\ \E e \in pos + 3 .. limit + 1 :
        /\ Walk(pos + 3, NameAt, e)
        /\ LET target == Slice(pos + 3, e - 1)
               legal  == Named(pos + 3, e) /\ target # <<"xml">> /\ Char(e) \in {"w", "?"}
           IN \/ Unfinished(e) /\ NeedMore(pos, {}) /\ UNCHANGED app
              \/ ~Unfinished(e) /\ ~legal /\ Fatal(pos)
              \/ /\ legal
                 /\ app' = Deliver(app, CallOn("pi_target", target))
                 /\ Proceed(IF Char(e) = "w" THEN e ELSE e - 1, "pi")
    /\ UNCHANGED <<runs, tree>>

\* The end mark is two characters long in a PI, three in the others; what may
\* begin it is text only when the next character shows that it does not.
\* Variants: nothing is held back at the end of the buffer.
CdataStop_NoHold == {j \in At({"]"}) : Char(j + 1) = "]" /\ Char(j + 2) = ">"}
PIStop_NoHold    == {j \in At({"?"}) : Char(j + 1) = ">"}

CommentStop == {j \in At({"-"}) : j + 2 > limit \/ Char(j + 1) = "-"}
CdataStop   == {j \in At({"]"}) : j + 2 > limit
                                    \/ (Char(j + 1) = "]" /\ Char(j + 2) = ">")}
PIStop      == {j \in At({"?"}) : j + 1 > limit \/ Char(j + 1) = ">"}

InData(Stops, stop) == Walk(pos + 1, LegalAt \ Stops, stop)

DataFatal(f, Stops) ==
    /\ Running(f)
    /\ \E stop \in Buffered :
        /\ InData(Stops, stop)
        /\ ~Unfinished(stop) /\ stop \notin Stops
        /\ Fatal(pos)
    /\ UNCHANGED <<runs, tree>>

DataNeedsMore(f, kind, Stops, short) ==
    /\ Running(f)
    /\ \E stop \in pos + 1 .. limit + 1 :
        /\ InData(Stops, stop)
        /\ Unfinished(stop) \/ (stop \in Stops /\ stop + short > limit)
        /\ app' = Piece(app, kind, pos + 1, stop - 1, FALSE)
        /\ cdata_run_open' = (cdata_run_open \/ (f = "cdata" /\ stop > pos + 1))
        /\ NeedMore(stop - 1, {f})
        /\ UNCHANGED <<content_run_open, content_bracket_run, tree>>

\* Variant: an empty last piece of a comment is not reported.
CommentData_Silent ==
    \/ DataFatal("comment", CommentStop)
    \/ DataNeedsMore("comment", "comment_data", CommentStop, 2)
    \/ /\ Running("comment")
       /\ \E stop \in CommentStop :
        /\ InData(CommentStop, stop) /\ stop + 2 <= limit
        /\ IF Char(stop + 2) = ">"
           THEN /\ app' = Piece(app, "comment_data", pos + 1, stop - 1, TRUE)
                /\ Done(stop + 2, {"comment"})
           ELSE Fatal(pos)
        /\ UNCHANGED <<runs, tree>>

CommentData ==
    \/ DataFatal("comment", CommentStop)
    \/ DataNeedsMore("comment", "comment_data", CommentStop, 2)
    \/ /\ Running("comment")
       /\ \E stop \in CommentStop :
        /\ InData(CommentStop, stop) /\ stop + 2 <= limit
        /\ IF Char(stop + 2) = ">"
           THEN /\ app' = Deliver(app, Event("comment_data", Slice(pos + 1, stop - 1), TRUE))
                /\ Done(stop + 2, {"comment"})
           ELSE Fatal(pos)
        /\ UNCHANGED <<runs, tree>>

\* Only a CDATA section that had text ends a run.
CdataContent ==
    \/ DataFatal("cdata", CdataStop)
    \/ DataNeedsMore("cdata", "characters", CdataStop, 2)
    \/ /\ Running("cdata")
       /\ \E stop \in CdataStop :
        /\ InData(CdataStop, stop) /\ stop + 2 <= limit
        /\ LET text == Slice(pos + 1, stop - 1)
               last == IF stop > pos + 1 \/ cdata_run_open
                       THEN Deliver(app, Event("characters", text, TRUE)) ELSE app
           IN  app' = Deliver(last, Call("end_cdata"))
        /\ cdata_run_open' = FALSE
        /\ Done(stop + 2, {"cdata"})
        /\ UNCHANGED <<content_run_open, content_bracket_run, tree>>

PIData ==
    \/ DataFatal("pi", PIStop)
    \/ DataNeedsMore("pi", "pi_data", PIStop, 1)
    \/ /\ Running("pi")
       /\ \E stop \in PIStop :
        /\ InData(PIStop, stop) /\ stop + 1 <= limit
        /\ app' = Deliver(app, Event("pi_data", Slice(pos + 1, stop - 1), TRUE))
        /\ Done(stop + 1, {"pi"})
        /\ UNCHANGED <<runs, tree>>

ScanMarkup ==
    \/ MarkupNeedsMore \/ StartTag \/ EndTag
    \/ BangFatal \/ StartComment \/ StartCdata \/ StartPI

Scan ==
    \/ ReturnToApp \/ ScanContent \/ ScanMarkup \/ ScanAttributesAndTagEnd
    \/ ScanAttributeValue \/ CommentData \/ CdataContent \/ PIData
-----------------------------------------------------------------------------
(* The application's calls.                                                *)

Allowed(call) == at = "app" /\ (app.failed => call \in AfterFailure)

\* A character stream holds no half of a UTF-8 sequence, a byte stream no
\* letter outside ASCII in one piece.
Foreign(bytes) == IF bytes THEN {"eacute"} ELSE {CLead, CCont}

\* The first bytes settle the encoding: set_encoding starts the document, and
\* UTF-8 switches the scanner to byte mode.
SetEncoding ==
    /\ at = "app" /\ ~document_started
    /\ bytes_mode' \in {m \in BOOLEAN :
            \A j \in 1 .. Len(input) : input[j] \notin Foreign(m)}
    /\ document_started' = TRUE
    /\ app' = Deliver(app, Call("start_document"))
    /\ UNCHANGED <<position, at, inside, runs, tree, input, closed, decoder_closed, resets>>

Receive ==
    /\ Allowed("receive") /\ document_started /\ ~decoder_closed
    /\ limit' \in limit + 1 .. Len(input)
    /\ at' = "scan"
    /\ UNCHANGED <<pos, inside, runs, tree, session, app>>

\* "Decoder is closed"
ReceiveAfterEnd ==
    /\ Allowed("receive") /\ decoder_closed
    /\ app' = Deliver(app, Call("fatal_error"))
    /\ UNCHANGED <<position, at, inside, runs, tree, session>>

\* Decoder::close and Scanner::close.  Parser::close sets its flag first, so
\* a second call does nothing, whatever became of the first.
Close ==
    /\ Allowed("close") /\ document_started /\ ~closed
    /\ closed' = TRUE
    /\ LET unclosed == inside \cap {"start_tag", "attribute_value"} # {} \/ InsideDocument
           torn_sequence == /\ bytes_mode /\ pos < limit
                            /\ Unfinished(pos + 1) \/ Char(pos + 1) = CCont
           accepted == ~unclosed /\ ~torn_sequence /\ root_started
       IN  /\ app' = Deliver(app, Call(IF accepted THEN "end_document" ELSE "fatal_error"))
           /\ decoder_closed' = (decoder_closed \/ accepted)
    /\ UNCHANGED <<position, at, inside, runs, tree, input, bytes_mode, document_started, resets>>

\* Variants: reset() leaves one part as the last document left it.
ResetFlags_Stale == UNCHANGED inside
ResetRuns_Stale  == UNCHANGED runs
ResetTree_Stale  == UNCHANGED tree

ResetFlags == inside' = {}
ResetRuns  == content_run_open' = FALSE /\ content_bracket_run' = 0 /\ cdata_run_open' = FALSE
ResetTree  == /\ element_stack' = <<>> /\ seen_attribute_names' = {}
              /\ root_started' = FALSE /\ root_ended' = FALSE

\* Parser::reset: the next document starts from a fresh scanner.
Reset ==
    /\ at = "app" /\ document_started /\ resets < MaxResets
    /\ resets' = resets + 1
    /\ input' \in Documents
    /\ limit' = 0 /\ pos' = 0
    /\ bytes_mode' = FALSE
    /\ document_started' = FALSE
    /\ ResetFlags /\ ResetRuns /\ ResetTree
    /\ closed' = FALSE
    /\ decoder_closed' = FALSE
    /\ app' = FreshApp
    /\ UNCHANGED at

Next == SetEncoding \/ Receive \/ ReceiveAfterEnd \/ Close \/ Reset \/ Scan

Spec == Init /\ [][Next]_vars

\* A call runs to its end: nothing in the scan loop waits.
FairSpec == Spec /\ WF_vars(Scan)
-----------------------------------------------------------------------------
(* Properties                                                              *)

\* However the input is cut into chunks, the application hears every event
\* where docs/handler.html has a place for it: attributes only in a tag, text
\* only in an element, data only in its comment or PI, CDATA ends that match.
EventOrder == ~app.disorder

\* An attribute value, a comment and a PI are streamed to the call that
\* carries end = TRUE before any other event comes.
RunsCompleted == app.torn \subseteq {"characters"}

\* end_element carries no name: the stack an application keeps from
\* start_element is the scanner's own.
StacksAgree == ~app.failed => app.stack = element_stack

\* Byte mode never hands out half of a UTF-8 sequence.
CharactersWhole == ~app.split

\* The scan loop always comes back to the application, also when a chunk
\* ends inside a UTF-8 sequence or in the middle of a token.
CallsReturn == (at # "app") ~> (at = "app")
=============================================================================
