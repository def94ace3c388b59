------------------------------ MODULE Entities ------------------------------
(***************************************************************************)
(* General entities (scanner.rs, "General entities" and scan_content): how *)
(* a reference in content or in an attribute value is judged, counted,     *)
(* answered from a cache, or expanded by scanning the replacement text in  *)
(* place of the buffer.  The document comes in one chunk (Scanner models   *)
(* the cuts), between the tags of its root.  The two encodings of the      *)
(* buffer go through the same steps; content_entity_byte_cache, which the  *)
(* one of bytes puts before content_entity_cache, is the same cache here.  *)
(***************************************************************************)
EXTENDS Naturals, FiniteSets, SequencesExt

CONSTANTS
    Name,           \* of general entities
    Documents,      \* what the parser may be given: a sequence of sets
    Others          \* what it may be given before and after a reset

(***************************************************************************)
(* The pieces of a replacement text, and of the document.                  *)
(***************************************************************************)
Char(c)      == [is |-> "text", of |-> c]           \* x, two brackets, >
Reference(n) == [is |-> "reference", of |-> n]      \* &n;
Attribute(n) == [is |-> "attribute", of |-> n]      \* <e v="&n;"></e>
OpenTag      == [is |-> "open", of |-> "e"]
CloseTag     == [is |-> "close", of |-> "e"]
Predefined   == [is |-> "predefined", of |-> "<"]   \* &lt;
CharRef      == [is |-> "charref", of |-> "<"]      \* &#60;, from &#38;#60;
Cut          == [is |-> "cut", of |-> "&"]          \* & and the end of the text

Literal == {Char(c) : c \in {"x", "]]", ">"}}
Item    == Literal \cup {Reference(n) : n \in Name} \cup {Attribute(n) : n \in Name}
          \cup {OpenTag, CloseTag, Predefined, CharRef, Cut}

IsMarkup(item) == item.is \in {"open", "close", "attribute"}

\* kind: none, internal, external, unparsed; far: declared in the external
\* subset.
Entity == [kind : {"none", "internal", "external", "unparsed"},
           text : Seq(Item), far : BOOLEAN]

Legal(d) ==
    /\ d.entity \in [Name -> Entity]
    /\ d.content \in Seq(Item) /\ d.default \in Seq(Item)
    /\ d.external \in {"off", "on", "denied"}
    /\ {d.skip, d.peSeen, d.standalone, d.xml11} \subseteq BOOLEAN
    /\ d.limit \in Nat
    /\ d.skip => \A n \in Name : d.entity[n].kind = "none"

ASSUME DocumentsAssumption ==
    /\ \A i \in DOMAIN Documents : \A d \in Documents[i] : Legal(d)
    /\ \A d \in Others : Legal(d)

\* Of the document and of a value, which have none: no name begins like that.
NoName == "#"

\* A document names so many entities.
ASSUME NameAssumption == NoName \notin Name /\ IsFiniteSet(Name)

VARIABLES
    doc, phase,
    failed,         \* none, refused, limit
    frames,         \* the entities scanned, with what is saved for each
    calls,          \* the functions that read a text in one go
    element_stack,  \* its length
    content_run_open, content_bracket_run,
    content_entity_cache, attribute_entity_cache, entity_expansion_count,
    default_value,  \* of v, an attribute of e: resolved
    heard, resets

buffers == <<frames, element_stack, content_run_open, content_bracket_run>>
caches  == <<content_entity_cache, attribute_entity_cache, entity_expansion_count>>
vars    == <<doc, phase, failed, buffers, calls, caches, default_value, heard, resets>>

Unknown == <<[is |-> "unknown", of |-> "-"]>>        \* no entry in the cache
NotFlat == <<[is |-> "not flat", of |-> "-"]>>       \* the entry None

NoEntries == [n \in Name |-> Unknown]

Hear(events) == heard' = heard \o events
-----------------------------------------------------------------------------
(***************************************************************************)
(* Judging a reference.                                                    *)
(***************************************************************************)

\* The entity_expansion_stack: what is scanned and what is read within.
Expanding == {frames[i].name : i \in DOMAIN frames} \cup {calls[i].name : i \in DOMAIN calls}

\* Variant: an entity declared outside a standalone document may be used.
Judgement_StandaloneFree(name, allow_external) ==
    LET e == doc.entity[name]
    IN  IF e.kind = "none"
        THEN IF doc.skip THEN "skipped" ELSE IF doc.peSeen THEN "error" ELSE "fatal"
        ELSE IF \/ e.kind = "unparsed"
                \/ e.kind = "external" /\ ~allow_external
                \/ name \in Expanding
             THEN "fatal" ELSE "expand"

Judgement(name, allow_external) ==
    LET e == doc.entity[name]
    IN  IF e.kind = "none"
        THEN IF doc.skip THEN "skipped" ELSE IF doc.peSeen THEN "error" ELSE "fatal"
        ELSE IF \/ e.kind = "unparsed"
                \/ e.kind = "external" /\ ~allow_external
                \/ doc.standalone /\ e.far
                \/ name \in Expanding
             THEN "fatal" ELSE "expand"

\* check_entity_expansion_limit.
OverLimit == doc.limit > 0 /\ entity_expansion_count + 1 > doc.limit

\* check_entity_referenceable: its answer; a reference is expanded, or one too
\* many, or not expanded.
Answer(name, allow_external) ==
    IF Judgement(name, allow_external) = "expand" /\ OverLimit THEN "limit"
    ELSE Judgement(name, allow_external)

\* What it leaves behind, and what it tells the application.
Checked(answer) ==
    /\ entity_expansion_count' =
         IF answer \in {"expand", "limit"} THEN entity_expansion_count + 1
         ELSE entity_expansion_count
    /\ failed' = CASE answer = "fatal" -> "refused" [] answer = "limit" -> "limit"
                   [] OTHER -> "none"

Told(answer, name) == IF answer \in {"skipped", "error"} THEN <<<<answer, name>>>> ELSE << >>
-----------------------------------------------------------------------------
(***************************************************************************)
(* The functions that read a text in one go call each other for the        *)
(* references in it: calls is what they have yet to read, and have read.   *)
(* An error ends all of them.                                              *)
(***************************************************************************)
Call(fn, name, text) == [fn |-> fn, name |-> name, rest |-> text, out |-> << >>]

Current == calls[Len(calls)]
Piece     == Head(Current.rest)
In(fn)    == failed = "none" /\ calls # << >> /\ Current.fn = fn
More      == Current.rest # << >> /\ Current.out # NotFlat

\* The innermost call has read a piece.
HasRead(out) == [calls EXCEPT ![Len(calls)] = [Current EXCEPT !.rest = Tail(@), !.out = out]]

\* It returns; the text is part of what its caller reads.
Joined(out, text) == IF text = NotFlat THEN NotFlat ELSE out \o text
Return ==
    calls' = [i \in 1 .. Len(calls) - 1 |->
                IF i < Len(calls) - 1 THEN calls[i]
                ELSE [calls[i] EXCEPT !.out = Joined(@, Current.out)]]

(***************************************************************************)
(* Flattening: the replacement text of an entity in which there is nothing *)
(* but characters and references to such entities.                         *)
(***************************************************************************)

\* flatten_content_entity_cached: what there is of it without reading the text.
Flat(name) ==
    IF doc.xml11 THEN NotFlat
    ELSE IF content_entity_cache[name] # Unknown THEN content_entity_cache[name]
    ELSE IF name \in Expanding \/ doc.entity[name].kind # "internal" THEN NotFlat
    ELSE Unknown

\* There is no text of an external entity to read.
FlatCache(name) ==
    IF ~doc.xml11 /\ content_entity_cache[name] = Unknown /\ name \notin Expanding
        /\ doc.entity[name].kind # "internal"
    THEN [content_entity_cache EXCEPT ![name] = NotFlat] ELSE content_entity_cache

\* flatten_content_text: a character ...
FlattenCharacter ==
    /\ In("flatten") /\ More /\ Piece.is = "text"
    /\ calls' = HasRead(Append(Current.out, Piece))
    /\ UNCHANGED <<doc, phase, failed, buffers, caches, default_value, heard, resets>>

\* ... something that cannot be flattened ...
FlattenOther ==
    /\ In("flatten") /\ More /\ Piece.is \notin {"text", "reference"}
    /\ calls' = HasRead(NotFlat)
    /\ UNCHANGED <<doc, phase, failed, buffers, caches, default_value, heard, resets>>

\* ... or a reference: flatten_content_entity_nested.
FlattenReference ==
    /\ In("flatten") /\ More /\ Piece.is = "reference"
    /\ LET name   == Piece.of
           answer == Answer(name, TRUE)
       IN  /\ Checked(answer) /\ Hear(Told(answer, name))
           /\ content_entity_cache' =
                IF answer = "expand" THEN FlatCache(name) ELSE content_entity_cache
           /\ calls' =
                CASE answer \in {"fatal", "limit"}   -> << >>
                  [] answer \in {"skipped", "error"} -> HasRead(NotFlat)
                  [] answer = "expand" /\ Flat(name) = Unknown ->
                       Append(HasRead(Current.out),
                              Call("flatten", name, doc.entity[name].text))
                  [] answer = "expand" /\ Flat(name) # Unknown ->
                       HasRead(Joined(Current.out, Flat(name)))
    /\ UNCHANGED <<doc, phase, buffers, attribute_entity_cache, default_value, resets>>

\* What was flattened for an entity that is flattened is part of its text.
FlattenReturn ==
    /\ In("flatten") /\ ~More /\ Len(calls) > 1
    /\ content_entity_cache' = [content_entity_cache EXCEPT ![Current.name] = Current.out]
    /\ Return
    /\ UNCHANGED <<doc, phase, failed, buffers, attribute_entity_cache, entity_expansion_count,
                   default_value, heard, resets>>

(***************************************************************************)
(* Attribute values.  The outermost call is the value itself, which is no  *)
(* entity: a default value, or one in a tag.                               *)
(***************************************************************************)

\* resolve_attribute_text.
ResolveCharacter ==
    /\ In("resolve") /\ More /\ Piece.is \in {"text", "predefined"}
    /\ calls' = HasRead(Append(Current.out, Char(Piece.of)))
    /\ UNCHANGED <<doc, phase, failed, buffers, caches, default_value, heard, resets>>

\* < is refused, and so is &#, which is no name.
ResolveOther ==
    /\ In("resolve") /\ More /\ Piece.is \notin {"text", "predefined", "reference"}
    /\ failed' = "refused" /\ calls' = << >>
    /\ UNCHANGED <<doc, phase, buffers, caches, default_value, heard, resets>>

\* Variant: a value is taken from the cache without a look at the reference.
ResolveReference_CacheFirst ==
    /\ In("resolve") /\ More /\ Piece.is = "reference"
    /\ LET name   == Piece.of
           answer == Answer(name, FALSE)
       IN  IF attribute_entity_cache[name] # Unknown
           THEN /\ calls' = HasRead(Current.out \o attribute_entity_cache[name])
                /\ UNCHANGED <<entity_expansion_count, failed, heard>>
           ELSE /\ Checked(answer) /\ Hear(Told(answer, name))
                /\ calls' =
                     CASE answer \in {"fatal", "limit"}   -> << >>
                       [] answer \in {"skipped", "error"} -> HasRead(Current.out)
                       [] answer = "expand" ->
                            Append(HasRead(Current.out),
                                   Call("resolve", name, doc.entity[name].text))
    /\ UNCHANGED <<doc, phase, buffers, content_entity_cache, attribute_entity_cache,
                   default_value, resets>>

\* expand_general_entity_in_attribute_value.
ResolveReference ==
    /\ In("resolve") /\ More /\ Piece.is = "reference"
    /\ LET name   == Piece.of
           answer == Answer(name, FALSE)
           cached == attribute_entity_cache[name]
       IN  /\ Checked(answer) /\ Hear(Told(answer, name))
           /\ calls' =
                CASE answer \in {"fatal", "limit"}   -> << >>
                  [] answer \in {"skipped", "error"} -> HasRead(Current.out)
                  [] answer = "expand" /\ cached = Unknown ->
                       Append(HasRead(Current.out),
                              Call("resolve", name, doc.entity[name].text))
                  [] answer = "expand" /\ cached # Unknown ->
                       HasRead(Current.out \o cached)
    /\ UNCHANGED <<doc, phase, buffers, content_entity_cache, attribute_entity_cache,
                   default_value, resets>>

ResolveReturn ==
    /\ In("resolve") /\ ~More /\ Len(calls) > 1
    /\ attribute_entity_cache' =
         [attribute_entity_cache EXCEPT ![Current.name] = Current.out]
    /\ Return
    /\ UNCHANGED <<doc, phase, failed, buffers, content_entity_cache, entity_expansion_count,
                   default_value, heard, resets>>

\* resolve_attlist_defaults_against_entities, at the end of the DTD ...
EndOfDoctype ==
    /\ phase = "doctype" /\ failed = "none" /\ calls = << >>
    /\ calls' = <<Call("resolve", NoName, doc.default)>>
    /\ UNCHANGED <<doc, phase, failed, buffers, caches, default_value, heard, resets>>

\* ... and what comes of it, or the end of a value in a tag, which is empty.
EndOfValue ==
    /\ In("resolve") /\ ~More /\ Len(calls) = 1
    /\ calls' = << >>
    /\ IF phase = "doctype"
       THEN default_value' = Current.out /\ phase' = "content" /\ UNCHANGED heard
       ELSE Hear(<<<<"attribute", Current.out>>, <<"close">>>>)
            /\ UNCHANGED <<default_value, phase>>
    /\ UNCHANGED <<doc, failed, buffers, caches, resets>>
-----------------------------------------------------------------------------
(***************************************************************************)
(* The scanner.                                                            *)
(***************************************************************************)
Top      == frames[Len(frames)]
Rest     == Top.rest
Running  == phase = "content" /\ failed = "none" /\ calls = << >>

Frame(name, text, floor) == [name |-> name, rest |-> text, floor |-> floor, open |-> FALSE]

\* What the parser is made of before a document and after reset.
Fresh(d) ==
    /\ doc = d /\ phase = "doctype" /\ failed = "none"
    /\ frames = <<Frame(NoName, d.content, 1)>> /\ calls = << >> /\ element_stack = 1
    /\ content_run_open = FALSE /\ content_bracket_run = FALSE
    /\ content_entity_cache = NoEntries /\ attribute_entity_cache = NoEntries
    /\ entity_expansion_count = 0 /\ default_value = << >> /\ heard = << >>

Init ==
    /\ resets = 0
    /\ \/ \E i \in DOMAIN Documents : \E d \in Documents[i] : Fresh(d)
       \/ \E d \in Others : Fresh(d)

\* < comes next; after the text of the document there is the end tag of its root.
AtMarkup(rest) == \/ rest = << >> /\ Len(frames) = 1
                  \/ rest # << >> /\ IsMarkup(Head(rest))

Text(run, end) == <<"text", run, end>>

\* A run that is open is completed before anything else is reported.
Completed == IF content_run_open THEN <<Text(<< >>, TRUE)>> ELSE << >>

Advanced(rest) == [frames EXCEPT ![Len(frames)].rest = rest]
Advance(rest)  == frames' = Advanced(rest)

\* Where the run of characters that begins a text has ended.
AfterRun(text) == SelectInSeq(Append(text, Cut), LAMBDA item : item.is # "text")

\* scan_content_run_fast: ]] and > are also apart in the buffer's own text.
Broken(run) ==
    \E i \in DOMAIN run :
        run[i] = Char(">") /\ IF i = 1 THEN content_bracket_run ELSE run[i - 1] = Char("]]")

Characters ==
    /\ Running /\ Rest # << >> /\ Head(Rest).is = "text"
    /\ LET run  == SubSeq(Rest, 1, AfterRun(Rest) - 1)
           rest == SubSeq(Rest, AfterRun(Rest), Len(Rest))
       IN  IF Broken(run)
           THEN failed' = "refused" /\ UNCHANGED <<buffers, heard>>
           ELSE /\ Hear(<<Text(run, AtMarkup(rest))>>)
                /\ Advance(rest)
                /\ content_run_open' = ~AtMarkup(rest)
                /\ content_bracket_run' = (~AtMarkup(rest) /\ run[Len(run)] = Char("]]"))
                /\ UNCHANGED <<failed, element_stack>>
    /\ UNCHANGED <<doc, phase, calls, caches, default_value, resets>>

\* A predefined entity or a character reference: RefResult::Decoded.
Decoded ==
    /\ Running /\ Rest # << >> /\ Head(Rest).is \in {"predefined", "charref"}
    /\ Hear(<<Text(<<Char(Head(Rest).of)>>, AtMarkup(Tail(Rest)))>>)
    /\ Advance(Tail(Rest))
    /\ content_run_open' = ~AtMarkup(Tail(Rest))
    /\ content_bracket_run' = FALSE
    /\ UNCHANGED <<doc, phase, failed, element_stack, calls, caches, default_value, resets>>

\* What a tag does first.
TagBegins == content_run_open' = FALSE /\ content_bracket_run' = FALSE

StartTag ==
    /\ Running /\ Rest # << >> /\ Head(Rest) = OpenTag
    /\ TagBegins /\ Advance(Tail(Rest))
    /\ element_stack' = element_stack + 1
    /\ Hear(Completed \o <<<<"open">>>> \o
            IF doc.default = << >> THEN << >> ELSE <<<<"attribute", default_value>>>>)
    /\ UNCHANGED <<doc, phase, failed, calls, caches, default_value, resets>>

\* <e v="&n;"></e>, up to its value.
AttributeTag ==
    /\ Running /\ Rest # << >> /\ Head(Rest).is = "attribute"
    /\ TagBegins /\ Advance(Tail(Rest))
    /\ calls' = <<Call("resolve", NoName, <<Reference(Head(Rest).of)>>)>>
    /\ Hear(Append(Completed, <<"open">>))
    /\ UNCHANGED <<doc, phase, failed, element_stack, caches, default_value, resets>>

\* Variant: any open element may be closed.
EndTag_NoFloor ==
    /\ Running /\ Rest # << >> /\ Head(Rest) = CloseTag
    /\ TagBegins /\ Advance(Tail(Rest))
    /\ IF element_stack > 1
       THEN element_stack' = element_stack - 1 /\ Hear(Completed \o <<<<"close">>>>)
                /\ UNCHANGED failed
       ELSE failed' = "refused" /\ Hear(Completed) /\ UNCHANGED element_stack
    /\ UNCHANGED <<doc, phase, calls, caches, default_value, resets>>

\* entity_stack_floors: an element opened outside an entity is not closed in it.
EndTag ==
    /\ Running /\ Rest # << >> /\ Head(Rest) = CloseTag
    /\ TagBegins /\ Advance(Tail(Rest))
    /\ IF element_stack > Top.floor
       THEN element_stack' = element_stack - 1 /\ Hear(Completed \o <<<<"close">>>>)
                /\ UNCHANGED failed
       ELSE failed' = "refused" /\ Hear(Completed) /\ UNCHANGED element_stack
    /\ UNCHANGED <<doc, phase, calls, caches, default_value, resets>>

\* The replacement text takes the place of the buffer.
Entered(saved, name, text) == Append(saved, Frame(name, text, element_stack))

\* What is scanned: the text as it was flattened, or as it was declared.
Scanned(name, flat) == IF flat = NotFlat THEN doc.entity[name].text ELSE flat

\* RefResult::General in scan_content: expand_general_entity_in_content; that
\* of an external entity is fetched if the settings allow it.
GeneralReference ==
    /\ Running /\ Rest # << >> /\ Head(Rest).is = "reference"
    /\ content_run_open' = FALSE /\ content_bracket_run' = FALSE
    /\ LET name     == Head(Rest).of
           answer   == Answer(name, TRUE)
           external == doc.entity[name].kind = "external"
           start    == Append(Completed, <<"start", name>>)
       IN  \/ /\ answer # "expand"
              /\ Checked(answer) /\ Hear(Completed \o Told(answer, name))
              /\ Advance(Tail(Rest)) /\ UNCHANGED calls
           \/ /\ answer = "expand" /\ external /\ doc.external = "off"
              /\ Checked(answer) /\ Hear(Append(start, <<"end", name>>))
              /\ Advance(Tail(Rest)) /\ UNCHANGED calls
           \/ /\ answer = "expand" /\ external /\ doc.external = "denied"
              /\ entity_expansion_count' = entity_expansion_count + 1 /\ failed' = "refused"
              /\ Hear(start) /\ Advance(Tail(Rest)) /\ UNCHANGED calls
           \/ /\ answer = "expand" /\ external /\ doc.external = "on"
              /\ Checked(answer) /\ Hear(start)
              /\ frames' = Entered(Advanced(Tail(Rest)), name, doc.entity[name].text)
              /\ UNCHANGED calls
           \/ /\ answer = "expand" /\ ~external /\ Flat(name) # Unknown
              /\ Checked(answer) /\ Hear(start)
              /\ frames' = Entered(Advanced(Tail(Rest)), name, Scanned(name, Flat(name)))
              /\ UNCHANGED calls
           \/ /\ answer = "expand" /\ ~external /\ Flat(name) = Unknown
              /\ Checked(answer) /\ Hear(start)
              /\ Advance(Tail(Rest))
              /\ calls' = <<Call("flatten", name, doc.entity[name].text)>>
    /\ UNCHANGED <<doc, phase, element_stack, content_entity_cache, attribute_entity_cache,
                   default_value, resets>>

\* Its text has been read, and is scanned.
EnterFlattened ==
    /\ In("flatten") /\ ~More /\ Len(calls) = 1
    /\ content_entity_cache' = [content_entity_cache EXCEPT ![Current.name] = Current.out]
    /\ calls' = << >>
    /\ frames' = Entered(frames, Current.name, Scanned(Current.name, Current.out))
    /\ UNCHANGED <<doc, phase, failed, element_stack, content_run_open, content_bracket_run,
                   attribute_entity_cache, entity_expansion_count, default_value, heard, resets>>

\* The text ends within a reference: NeedMore, and no more comes.
EndWithinReference ==
    /\ Running /\ Rest # << >> /\ Head(Rest) = Cut
    /\ failed' = "refused"
    /\ UNCHANGED <<doc, phase, buffers, calls, caches, default_value, heard, resets>>

\* Variant: the run that is open at the end of the text stays open.
EndOfEntity_RunOpen ==
    /\ Running /\ Rest = << >> /\ Len(frames) > 1
    /\ IF element_stack # Top.floor
       THEN failed' = "refused" /\ UNCHANGED <<frames, content_run_open, heard>>
       ELSE /\ Hear(<<<<"end", Top.name>>>>)
            /\ frames' = Front(frames)
            /\ content_run_open' = Top.open
            /\ UNCHANGED failed
    /\ UNCHANGED <<doc, phase, element_stack, content_bracket_run, calls, caches, default_value, resets>>

\* Variant: elements opened in the text may be left open.
EndOfEntity_AnyDepth ==
    /\ Running /\ Rest = << >> /\ Len(frames) > 1
    /\ Hear(Append(Completed, <<"end", Top.name>>))
    /\ frames' = Front(frames)
    /\ content_run_open' = Top.open
    /\ UNCHANGED failed
    /\ UNCHANGED <<doc, phase, element_stack, content_bracket_run, calls, caches, default_value, resets>>

\* The end of the replacement text, and the buffer as it was before.
EndOfEntity ==
    /\ Running /\ Rest = << >> /\ Len(frames) > 1
    /\ IF element_stack # Top.floor
       THEN failed' = "refused" /\ UNCHANGED <<frames, content_run_open, heard>>
       ELSE /\ Hear(Append(Completed, <<"end", Top.name>>))
            /\ frames' = Front(frames)
            /\ content_run_open' = Top.open
            /\ UNCHANGED failed
    /\ UNCHANGED <<doc, phase, element_stack, content_bracket_run, calls, caches, default_value, resets>>

\* check_entity_values_do_not_reference_unparsed_entities.
NamesUnparsed ==
    \E n \in Name :
        /\ doc.entity[n].kind = "internal"
        /\ \E item \in ToSet(doc.entity[n].text) :
            /\ item.is \in {"reference", "attribute"}
            /\ doc.entity[item.of].kind = "unparsed"

\* The end tag of the root, and close.
EndOfDocument ==
    /\ Running /\ Rest = << >> /\ Len(frames) = 1
    /\ TagBegins /\ Hear(Completed)
    /\ IF element_stack > 1 \/ NamesUnparsed
       THEN failed' = "refused" /\ UNCHANGED phase
       ELSE phase' = "done" /\ UNCHANGED failed
    /\ UNCHANGED <<doc, frames, element_stack, calls, caches, default_value, resets>>

\* Variant: what was read of an entity outlives the document.
Reset_CachesKept ==
    /\ doc \in Others /\ resets = 0
    /\ resets' = 1
    /\ \E d \in Others :
        /\ doc' = d /\ frames' = <<Frame(NoName, d.content, 1)>> /\ calls' = << >>
        /\ phase' = "doctype" /\ failed' = "none" /\ element_stack' = 1
        /\ content_run_open' = FALSE /\ content_bracket_run' = FALSE
        /\ UNCHANGED <<content_entity_cache, attribute_entity_cache>>
        /\ entity_expansion_count' = 0 /\ default_value' = << >> /\ heard' = << >>

Reset ==
    /\ doc \in Others /\ resets = 0
    /\ resets' = 1
    /\ \E d \in Others :
        /\ doc' = d /\ frames' = <<Frame(NoName, d.content, 1)>> /\ calls' = << >>
        /\ phase' = "doctype" /\ failed' = "none" /\ element_stack' = 1
        /\ content_run_open' = FALSE /\ content_bracket_run' = FALSE
        /\ content_entity_cache' = NoEntries /\ attribute_entity_cache' = NoEntries
        /\ entity_expansion_count' = 0 /\ default_value' = << >> /\ heard' = << >>

Next ==
    \/ FlattenCharacter \/ FlattenOther \/ FlattenReference \/ FlattenReturn
    \/ ResolveCharacter \/ ResolveOther \/ ResolveReference \/ ResolveReturn
    \/ EndOfDoctype \/ EndOfValue
    \/ Characters \/ Decoded \/ StartTag \/ AttributeTag \/ EndTag
    \/ GeneralReference \/ EnterFlattened \/ EndOfEntity
    \/ EndWithinReference \/ EndOfDocument \/ Reset

Spec == Init /\ [][Next]_vars
-----------------------------------------------------------------------------
(***************************************************************************)
(* Properties.                                                             *)
(***************************************************************************)
Letter == Literal \cup {Char("<")}

Frames == [name : Name \cup {NoName}, rest : Seq(Item), floor : Nat \ {0}, open : BOOLEAN]

Calls == [fn : {"flatten"}, name : Name, rest : Seq(Item), out : Seq(Literal) \cup {NotFlat}]
           \cup [fn : {"resolve"}, name : Name \cup {NoName}, rest : Seq(Item), out : Seq(Letter)]

Events == ({"text"} \X Seq(Letter) \X BOOLEAN) \cup ({"attribute"} \X Seq(Letter))
            \cup ({"start", "end", "error", "skipped"} \X Name) \cup {<<"open">>, <<"close">>}

\* What the fields of the scanner hold.
TypeOK ==
    /\ Legal(doc)
    /\ phase \in {"doctype", "content", "done"} /\ failed \in {"none", "refused", "limit"}
    /\ frames \in Seq(Frames) \ {<< >>} /\ calls \in Seq(Calls) /\ element_stack \in Nat \ {0}
    /\ {content_run_open, content_bracket_run} \subseteq BOOLEAN
    /\ content_entity_cache \in [Name -> Seq(Literal) \cup {Unknown, NotFlat}]
    /\ attribute_entity_cache \in [Name -> Seq(Letter) \cup {Unknown}]
    /\ entity_expansion_count \in Nat /\ default_value \in Seq(Letter)
    /\ heard \in Seq(Events) /\ resets \in 0 .. 1

\* No entity is scanned or read within itself, so no text nests deeper than
\* there are names.
NoRecursion ==
    /\ \A i, j \in DOMAIN frames : frames[i].name = frames[j].name => i = j
    /\ \A i, j \in DOMAIN calls : calls[i].name = calls[j].name => i = j
    /\ \A i \in DOMAIN frames, j \in DOMAIN calls :
         frames[i].name = calls[j].name => frames[i].name = NoName
    /\ Len(frames) + Len(calls) <= Cardinality(Name) + 2

\* What is open for the application after an event.
Nest(open, event) ==
    LET Closes(begin) ==
            IF open # << >> /\ open[Len(open)] = begin THEN Front(open) ELSE <<<<"wrong">>>>
    IN  CASE event[1] \in {"start", "open"} -> Append(open, event)
          [] event[1] = "end"   -> Closes(<<"start", event[2]>>)
          [] event[1] = "close" -> Closes(<<"open">>)
          [] OTHER -> open

Opened(events) ==
    LET after[i \in 0 .. Len(events)] ==
            IF i = 0 THEN << >> ELSE Nest(after[i - 1], events[i])
    IN  after[Len(events)]

\* What begins within an entity ends within it: elements and boundaries that
\* are reported are balanced, and a run of characters is completed before a
\* boundary of an entity or a tag.  No entity is open within itself, and none
\* began at a depth of elements that has been left since.
BoundariesNest ==
    /\ <<"wrong">> \notin Range(Opened(heard))
    /\ phase = "done" => Opened(heard) = << >>
    /\ NoRecursion /\ \A i \in DOMAIN frames : frames[i].floor \in 1 .. element_stack
    /\ \A i \in 2 .. Len(heard) :
        heard[i - 1][1] = "text" /\ heard[i][1] # "text" => heard[i - 1][3]

\* There is a "Maximum entity expansions per document" (README.md): no more
\* references are heard of, expanded into content or into a value, cached or
\* not.
Expansions(events) == {i \in DOMAIN events : events[i][1] = "start"}
Values(events)     == {i \in DOMAIN events : events[i][1] = "attribute"}
NothingMissing     == \A i \in DOMAIN heard : heard[i][1] \notin {"error", "skipped"}

LimitKept ==
    doc.limit > 0 =>
        /\ entity_expansion_count <= doc.limit \/ failed = "limit"
        /\ Cardinality(Expansions(heard)) <= doc.limit
        /\ doc.default = << >> /\ NothingMissing =>
            Cardinality(Expansions(heard)) + Cardinality(Values(heard)) <= doc.limit

(***************************************************************************)
(* What is read of an entity, by what is in the caches for those in it.    *)
(***************************************************************************)
IsFlat(n)     == content_entity_cache[n] \notin {Unknown, NotFlat}
IsResolved(n) == attribute_entity_cache[n] # Unknown
Allowed(n)    == doc.entity[n].kind = "internal" /\ ~(doc.standalone /\ doc.entity[n].far)

FlatPiece(item) == IF item.is = "text" THEN <<item>> ELSE content_entity_cache[item.of]
ValuePiece(item) ==
    IF item.is # "reference" THEN <<Char(item.of)>>
    ELSE IF doc.entity[item.of].kind = "none" THEN << >> ELSE attribute_entity_cache[item.of]

Flattened(text) == FlattenSeq([i \in DOMAIN text |-> FlatPiece(text[i])])
Resolved(text)  == FlattenSeq([i \in DOMAIN text |-> ValuePiece(text[i])])

\* The text can be flattened, or resolved, as far as the caches know.
Flattens(text) ==
    \A i \in DOMAIN text :
        \/ text[i].is = "text"
        \/ text[i].is = "reference" /\ Allowed(text[i].of) /\ IsFlat(text[i].of)
Resolves(text) ==
    \A i \in DOMAIN text :
        \/ text[i].is \in {"text", "predefined"}
        \/ /\ text[i].is = "reference"
           /\ \/ doc.entity[text[i].of].kind = "none"
              \/ Allowed(text[i].of) /\ IsResolved(text[i].of)

\* A text in a cache is that of its entity with a text from the cache in place
\* of every reference: whatever the order in which they were read, however
\* often, and wherever from.  A value that is heard, and the default value, are
\* made of such texts, and nothing but the text of its entity is ever scanned in
\* place of a reference.
CachesFaithful ==
    /\ \A n \in Name : IsFlat(n) =>
        /\ ~doc.xml11 /\ Allowed(n) /\ Flattens(doc.entity[n].text)
        /\ content_entity_cache[n] = Flattened(doc.entity[n].text)
    /\ \A n \in Name : IsResolved(n) =>
        /\ Allowed(n) /\ Resolves(doc.entity[n].text)
        /\ attribute_entity_cache[n] = Resolved(doc.entity[n].text)
    /\ phase # "doctype" => Resolves(doc.default) /\ default_value = Resolved(doc.default)
    /\ \A i \in DOMAIN heard : heard[i][1] = "attribute" =>
        \/ heard[i][2] = default_value
        \/ \E n \in Name : Resolves(<<Reference(n)>>) /\ heard[i][2] = ValuePiece(Reference(n))
    /\ \A i \in 2 .. Len(frames) :
        \E text \in {doc.entity[frames[i].name].text, content_entity_cache[frames[i].name]} :
            /\ text \notin {Unknown, NotFlat}
            /\ \E k \in 0 .. Len(text) : frames[i].rest = SubSeq(text, k + 1, Len(text))
=============================================================================
