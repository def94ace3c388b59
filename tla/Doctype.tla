------------------------------ MODULE Doctype ------------------------------
(***************************************************************************)
(* The DOCTYPE declaration (scanner.rs, "DOCTYPE", "PE splicing inside     *)
(* declarations" and the entity and element declarations): the internal    *)
(* subset as it arrives in chunks, the external one, conditional sections, *)
(* and the references to parameter entities, whose replacement text takes  *)
(* the place of the buffer between declarations, is spliced into the       *)
(* buffer within one, and is copied into the value within a literal.       *)
(*                                                                         *)
(* The input is a sequence of tokens: a keyword, a name, a delimiter or a  *)
(* reference is one; white space between them is left out, and keywords    *)
(* are no names.  Content models and attribute lists are in Validity and   *)
(* ContentModels, general entities that are used in Entities.              *)
(***************************************************************************)
EXTENDS Naturals, FiniteSets, SequencesExt

CONSTANTS
    Name,           \* of general entities and of elements
    Param,          \* of parameter entities
    Documents       \* what the parser may be given: a sequence of sets

T(is)     == [is |-> is, of |-> ""]
Of(is, n) == [is |-> is, of |-> n]

Token ==
    [is : {"<!DOCTYPE", "[", "]", ">", "root", "<!ELEMENT", "EMPTY", "SYSTEM", "NDATA", "x",
           "<![", "INCLUDE", "IGNORE", "]]>", "comment"}, of : {""}]
      \cup [is : {"quote"}, of : {"'", "''"}]
      \cup [is : {"<!ENTITY", "name"}, of : Name]
      \cup [is : {"<!ENTITY %", "%", "&#37;"}, of : Param]

\* far: there is an external subset.  file: what the system identifiers of the
\* external subset and of a parameter entity lead to.
Legal(d) ==
    /\ d.text \in Seq(Token) /\ d.far \in BOOLEAN
    /\ d.file \in [Param \cup {"[dtd]"} -> Seq(Token)]
    /\ d.handling \in {"process", "skip", "disallow"}
    /\ d.external \in BOOLEAN       \* external_parameter_entities
    /\ d.limit \in Nat              \* entity_expansion_limit
    /\ d.pieces \in Nat \ {0}       \* how many chunks it comes in at most

ASSUME DoctypeAssumption ==
    /\ IsFiniteSet(Name) /\ IsFiniteSet(Param)
    /\ Name \cap Param = {} /\ {"", "[dtd]"} \cap Param = {}
    /\ \A i \in DOMAIN Documents : \A d \in Documents[i] : Legal(d)

VARIABLES
    doc, arrived, chunks,
    calling,        \* within a call of receive
    phase,          \* prolog, subset, after the DOCTYPE, root, done
    failed,         \* none, refused, limit
    frames,         \* the buffers: the document's, and those put in its place
    decl,           \* the declaration that is being read
    splice,         \* last_splice_end, and the frame it was set in
    skipping, closed,
    general, pending_general,
    param, pending_param,
    elements,       \* those that are declared, of dtd_model
    saw_reference,  \* saw_internal_subset_parameter_entity_reference
    expansion_count,
    heard

input  == <<doc, arrived, chunks>>
tables == <<general, pending_general, param, pending_param, elements>>
status == <<phase, failed, skipping, closed>>
vars   == <<input, calling, status, frames, decl, splice, tables, saw_reference,
            expansion_count, heard>>

\* What a name is declared as, text being the replacement text.
Undeclared == [kind |-> "none", text |-> << >>, far |-> FALSE]
Entity(kind, text, far) == [kind |-> kind, text |-> text, far |-> far]

Decl(is, of, step, start) ==
    [is |-> is, of |-> of, step |-> step, value |-> << >>, start |-> start, spliced |-> FALSE]
NoDecl == Decl("none", "", "", 0)

\* far: parsing_external_content.  sections: for each open INCLUDE section,
\* whether its [ came out of a splice.
Frame(of, text, far) == [of |-> of, text |-> text, pos |-> 1, far |-> far, sections |-> << >>]

Fresh(d) ==
    /\ doc = d /\ arrived = 0 /\ chunks = 0 /\ calling = FALSE
    /\ phase = "prolog" /\ failed = "none" /\ skipping = FALSE /\ closed = FALSE
    /\ frames = <<Frame("", d.text, FALSE)>> /\ decl = NoDecl
    /\ splice = [in |-> 0, end |-> 0]
    /\ general = [n \in Name |-> Undeclared] /\ pending_general = [n \in Name |-> Undeclared]
    /\ param = [p \in Param |-> Undeclared] /\ pending_param = [p \in Param |-> Undeclared]
    /\ elements = {} /\ saw_reference = FALSE /\ expansion_count = 0 /\ heard = << >>

Init == \E i \in DOMAIN Documents : \E d \in Documents[i] : Fresh(d)
-----------------------------------------------------------------------------
Depth     == Len(frames)
Top       == frames[Depth]
Limit     == IF Depth = 1 THEN arrived ELSE Len(Top.text)
Running   == calling /\ failed = "none"
Available == Running /\ Top.pos <= Limit
Here      == Top.text[Top.pos]
Sees(is)  == Available /\ Here.is = is

Between   == decl.is = "none" /\ ~closed        \* declarations
InSubset  == Available /\ phase = "subset" /\ ~skipping

WithTop(f)   == [frames EXCEPT ![Depth] = f]
MoveTo(pos)  == frames' = WithTop([Top EXCEPT !.pos = pos])
Advance      == MoveTo(Top.pos + 1)
Hear(event)  == heard' = Append(heard, event)
Refuse       == failed' = "refused"

\* Variant: every replacement text counts for one.
Weight_One(text) == 1

\* check_entity_expansion_limit: a replacement text counts for its length.
Weight(text) == IF text = << >> THEN 1 ELSE Len(text)
Exceeds(text) == doc.limit > 0 /\ expansion_count + Weight(text) > doc.limit

\* Both tables are asked, that of this subset first.
Lookup(p) == IF pending_param[p].kind # "none" THEN pending_param[p] ELSE param[p]

\* resolve_parameter_entity_replacement: an external one that is not loaded is empty.
Replacement(p) ==
    IF Lookup(p).kind = "internal" THEN Lookup(p).text
    ELSE IF doc.external THEN doc.file[p] ELSE << >>

\* Variant: only the declarations of this subset are asked.
Declared_PendingOnly(n) == pending_general[n].kind # "none"

Declared(n) == pending_general[n].kind # "none" \/ general[n].kind # "none"

\* Whether the position lies in what was spliced in last.  The end of a splice
\* is kept as a number: what it says of another buffer is anything.
FromSplice(pos) ==
    IF splice.in = 0 THEN {FALSE}
    ELSE IF splice.in = Depth THEN {pos < splice.end} ELSE BOOLEAN
-----------------------------------------------------------------------------
(***************************************************************************)
(* The document outside its DOCTYPE, and the way in.                       *)
(***************************************************************************)

\* scan_doctype: start_dtd is reported when the [ or > has come.
BeginDoctype ==
    /\ Sees("<!DOCTYPE") /\ phase \in {"prolog", "after", "root"}
    /\ IF \/ phase # "prolog" \/ doc.handling = "disallow"
          \/ Top.pos < Limit /\ Top.text[Top.pos + 1].is \notin {"[", ">"}
       THEN Refuse /\ UNCHANGED <<phase, skipping, closed, frames, heard>>
       ELSE /\ Top.pos < Limit
            /\ LET open == Top.text[Top.pos + 1].is = "["
               IN  /\ skipping' = (open /\ doc.handling = "skip")
                   /\ closed' = ~open
                   /\ MoveTo(Top.pos + IF open THEN 2 ELSE 1)
            /\ phase' = "subset" /\ Hear(<<"start dtd">>)
            /\ UNCHANGED failed
    /\ UNCHANGED <<input, calling, decl, splice, tables, saw_reference, expansion_count>>

Root ==
    /\ Sees("root") /\ phase \in {"prolog", "after", "root"}
    /\ IF phase = "root" THEN Refuse /\ UNCHANGED <<phase, frames>>
       ELSE phase' = "root" /\ Advance /\ UNCHANGED failed
    /\ UNCHANGED <<input, calling, skipping, closed, decl, splice, tables, saw_reference,
                   expansion_count, heard>>

Comment ==
    /\ Sees("comment") /\ decl.is = "none" /\ ~(phase = "subset" /\ closed)
    /\ Advance /\ Hear(<<"comment">>)
    /\ UNCHANGED <<input, calling, status, decl, splice, tables, saw_reference, expansion_count>>

\* scan_doctype_subset_inner, skip_doctype_subset_inner: the ] of the subset.
EndOfSubset ==
    /\ Sees("]") /\ phase = "subset" /\ Between /\ Depth = 1
    /\ closed' = TRUE /\ Advance
    /\ UNCHANGED <<input, calling, phase, failed, skipping, decl, splice, tables, saw_reference,
                   expansion_count, heard>>

\* Pending declarations become the scanner's, the unparsed ones are reported.
Merged(old, new) == [n \in DOMAIN old |-> IF old[n].kind # "none" THEN old[n] ELSE new[n]]
UnparsedIn(table) == {n \in Name : table[n].kind = "unparsed"}

\* Variant: the parameter entities of the internal subset are forgotten.
Commit_ParamsLost ==
    /\ general' = Merged(general, pending_general)
    /\ pending_general' = [n \in Name |-> Undeclared]
    /\ pending_param' = [p \in Param |-> Undeclared]
    /\ UNCHANGED <<param, elements>>

Commit ==
    /\ general' = Merged(general, pending_general)
    /\ param' = Merged(param, pending_param)
    /\ pending_general' = [n \in Name |-> Undeclared]
    /\ pending_param' = [p \in Param |-> Undeclared]
    /\ UNCHANGED elements

\* The > of the DOCTYPE and finish_doctype_external_subset.
EndOfDoctype ==
    /\ Sees(">") /\ phase = "subset" /\ closed /\ Depth = 1
    /\ closed' = FALSE /\ skipping' = FALSE /\ Commit
    /\ \E order \in SetToSeqs(UnparsedIn(pending_general)) :     \* that of a HashMap
        LET here  == WithTop([Top EXCEPT !.pos = @ + 1])
            reads == doc.far /\ doc.handling # "skip"
            told  == heard \o [i \in DOMAIN order |-> <<"unparsed", order[i]>>]
        IN  IF reads /\ doc.external
            THEN /\ frames' = Append(here, Frame("[dtd]", doc.file["[dtd]"], TRUE))
                 /\ heard' = Append(told, <<"start", "[dtd]">>) /\ UNCHANGED phase
            ELSE /\ frames' = here /\ phase' = "after"
                 /\ heard' = told \o (IF reads THEN <<<<"start", "[dtd]">>, <<"end", "[dtd]">>>>
                                      ELSE << >>) \o <<<<"end dtd">>>>
    /\ UNCHANGED <<input, calling, failed, decl, splice, saw_reference, expansion_count>>

\* parse_external_subset has come to the end, commit_external_subset.
EndOfExternalSubset ==
    /\ Running /\ Depth = 2 /\ Top.of = "[dtd]" /\ Top.pos > Limit
    /\ Between /\ Top.sections = << >>
    /\ Commit
    /\ \E order \in SetToSeqs({n \in UnparsedIn(pending_general) : general[n] = Undeclared}) :
        heard' = heard \o [i \in DOMAIN order |-> <<"unparsed", order[i]>>]
                       \o <<<<"end", "[dtd]">>, <<"end dtd">>>>
    /\ frames' = Front(frames) /\ phase' = "after"
    /\ UNCHANGED <<input, calling, failed, skipping, closed, decl, splice, saw_reference,
                   expansion_count>>
-----------------------------------------------------------------------------
(***************************************************************************)
(* Declarations.                                                           *)
(***************************************************************************)
Constant == UNCHANGED <<input, calling, phase, skipping, closed>>

Begins(is, of, step) ==
    /\ decl' = Decl(is, of, step, Top.pos) /\ Advance
    /\ Constant /\ UNCHANGED <<failed, splice, tables, saw_reference, expansion_count, heard>>

BeginEntity ==
    /\ InSubset /\ Between
    /\ \/ Here.is = "<!ENTITY" /\ Begins("entity", Here.of, "value")
       \/ Here.is = "<!ENTITY %" /\ Begins("param", Here.of, "value")

BeginElement == InSubset /\ Between /\ Here.is = "<!ELEMENT" /\ Begins("element", "", "name")

Steps(step, value) ==
    /\ decl' = [decl EXCEPT !.step = step, !.value = value] /\ Advance
    /\ Constant /\ UNCHANGED <<failed, splice, tables, saw_reference, expansion_count, heard>>

IsEntity == decl.is \in {"entity", "param"}

\* The literal or the external identifier of an entity.
EntityValue ==
    /\ InSubset /\ IsEntity /\ decl.step = "value"
    /\ \/ Here.is = "quote" /\ Steps(Here.of, << >>)
       \/ Here.is = "SYSTEM" /\ Steps("external", << >>)

InLiteral == InSubset /\ decl.step \in {"'", "''"}

\* Variant: a % out of a character reference is read with the literal.
Literal_CharRefRead ==
    /\ InLiteral /\ Here.is # "%"
    /\ IF Here = Of("quote", decl.step) THEN Steps("end", decl.value)
       ELSE Steps(decl.step,
                  IF Here.is = "&#37;" /\ Lookup(Here.of).kind # "none"
                  THEN decl.value \o Replacement(Here.of) ELSE Append(decl.value, Here))

\* scan_quoted_literal_with_char_refs: only a reference to a parameter entity
\* is read; &#37; becomes a % that is not read.
Literal ==
    /\ InLiteral /\ Here.is # "%"
    /\ IF Here = Of("quote", decl.step) THEN Steps("end", decl.value)
       ELSE Steps(decl.step,
                  Append(decl.value, IF Here.is = "&#37;" THEN Of("%", Here.of) ELSE Here))

\* Variant: in the internal subset as well.
Refusable_Anywhere == Lookup(Here.of).kind = "none"

\* resolve_parameter_entity_reference_at: for a literal and for a splice.
Refusable == ~Top.far \/ Lookup(Here.of).kind = "none"

Counts(text) ==
    /\ expansion_count' = expansion_count + Weight(text)
    /\ failed' = IF Exceeds(text) THEN "limit" ELSE failed

ReferenceInLiteral ==
    /\ InLiteral /\ Here.is = "%"
    /\ IF Refusable
       THEN Refuse /\ UNCHANGED <<decl, frames, expansion_count>>
       ELSE LET text == Replacement(Here.of)
            IN  /\ Counts(text)
                /\ IF Exceeds(text) THEN UNCHANGED <<decl, frames>>
                   ELSE decl' = [decl EXCEPT !.value = @ \o text] /\ Advance
    /\ Constant /\ UNCHANGED <<splice, tables, saw_reference, heard>>

UnparsedEntity ==
    /\ InSubset /\ decl.is = "entity" /\ decl.step = "external" /\ Here.is = "NDATA"
    /\ Steps("unparsed", << >>)

\* What an entity declaration has declared, and what is reported of it.
Declares == Entity(CASE decl.step = "end" -> "internal" [] OTHER -> decl.step, decl.value, Top.far)
Report   ==
    CASE decl.step = "end"      -> <<<<decl.is, decl.of, decl.value>>>>
      [] decl.step = "external" ->
            <<<<IF decl.is = "param" THEN "external param" ELSE "external entity", decl.of>>>>
      [] OTHER -> << >>

\* The first declaration of a name binds.
EndOfEntityDeclaration ==
    /\ InSubset /\ IsEntity /\ decl.step \in {"end", "external", "unparsed"} /\ Here.is = ">"
    /\ IF decl.is = "param"
       THEN /\ IF Lookup(decl.of).kind # "none" THEN UNCHANGED <<pending_param, heard>>
               ELSE pending_param' = [pending_param EXCEPT ![decl.of] = Declares]
                      /\ heard' = heard \o Report
            /\ UNCHANGED pending_general
       ELSE /\ IF Declared(decl.of) THEN UNCHANGED <<pending_general, heard>>
               ELSE pending_general' = [pending_general EXCEPT ![decl.of] = Declares]
                      /\ heard' = heard \o Report
            /\ UNCHANGED pending_param
    /\ decl' = NoDecl /\ Advance
    /\ Constant /\ UNCHANGED <<failed, splice, general, param, elements, saw_reference,
                                expansion_count>>

ElementName ==
    /\ InSubset /\ decl.is = "element" /\ decl.step = "name" /\ Here.is = "name"
    /\ decl' = [decl EXCEPT !.step = "spec", !.of = Here.of] /\ Advance
    /\ Constant /\ UNCHANGED <<failed, splice, tables, saw_reference, expansion_count, heard>>

ElementSpec ==
    /\ InSubset /\ decl.is = "element" /\ decl.step = "spec" /\ Here.is = "EMPTY"
    /\ Steps("end", << >>)

\* Variant: any splice before the > is taken for the place of the >.
NestingBroken_Anywhere == decl.spliced

\* check_not_from_pe_splice: <!ELEMENT itself is not part of the splice.
NestingBroken == decl.spliced /\ Top.pos < splice.end

EndOfElementDeclaration ==
    /\ InSubset /\ decl.is = "element" /\ decl.step = "end" /\ Here.is = ">"
    /\ heard' = heard \o (IF NestingBroken THEN <<<<"nesting">>>> ELSE << >>)
                      \o (IF decl.of \in elements THEN << >> ELSE <<<<"element", decl.of>>>>)
    /\ elements' = elements \cup {decl.of}
    /\ decl' = NoDecl /\ Advance
    /\ Constant /\ UNCHANGED <<failed, splice, general, pending_general, param, pending_param,
                               saw_reference, expansion_count>>
-----------------------------------------------------------------------------
(***************************************************************************)
(* Conditional sections.  The document's own buffer has none.              *)
(***************************************************************************)
BeginSection ==
    /\ InSubset /\ Between /\ Depth > 1 /\ Here.is = "<!["
    /\ Begins("section", "", "keyword")

SectionKeyword ==
    /\ InSubset /\ decl.is = "section" /\ decl.step = "keyword"
    /\ Here.is \in {"INCLUDE", "IGNORE"}
    /\ Steps(Here.is, << >>)

\* parse_conditional_section notes whether the [ was spliced in.
OpenInclude ==
    /\ InSubset /\ decl.is = "section" /\ decl.step = "INCLUDE" /\ Here.is = "["
    /\ \E opener \in FromSplice(Top.pos) :
        frames' = WithTop([Top EXCEPT !.pos = @ + 1, !.sections = Append(@, opener)])
    /\ decl' = NoDecl
    /\ Constant /\ UNCHANGED <<failed, splice, tables, saw_reference, expansion_count, heard>>

EndOfInclude ==
    /\ InSubset /\ Between /\ Here.is = "]]>" /\ Top.sections # << >>
    /\ \E closer \in FromSplice(Top.pos) :
        heard' = IF closer = Last(Top.sections) THEN heard ELSE Append(heard, <<"nesting">>)
    /\ frames' = WithTop([Top EXCEPT !.pos = @ + 1, !.sections = Front(@)])
    /\ Constant /\ UNCHANGED <<failed, decl, splice, tables, saw_reference, expansion_count>>

\* skip_ignored_section: of the tokens from here on, where the section ends;
\* one past the text if it does not.
NestedTo(pos) ==
    Cardinality({i \in Top.pos .. pos : Top.text[i].is = "<!["}) + 1
        - Cardinality({i \in Top.pos .. pos : Top.text[i].is = "]]>"})

\* Variant: the first ]]> ends it.
Closing_Flat == {pos \in Top.pos + 1 .. Limit : Top.text[pos].is = "]]>"}

Closing == {pos \in Top.pos + 1 .. Limit : Top.text[pos].is = "]]>" /\ NestedTo(pos) = 0}

IgnoreSection ==
    /\ InSubset /\ decl.is = "section" /\ decl.step = "IGNORE" /\ Here.is = "["
    /\ IF Closing = {} THEN Refuse /\ UNCHANGED <<frames, decl>>
       ELSE MoveTo(Min(Closing) + 1) /\ decl' = NoDecl /\ UNCHANGED failed
    /\ Constant /\ UNCHANGED <<splice, tables, saw_reference, expansion_count, heard>>
-----------------------------------------------------------------------------
(***************************************************************************)
(* References to parameter entities.                                       *)
(***************************************************************************)

\* splice_pe_reference_at: the text takes the place of the reference, in the
\* same buffer.
Spliceable == decl.is = "element" \/ (decl.is = "section" /\ decl.step = "keyword")

Splice ==
    /\ InSubset /\ Spliceable /\ Here.is = "%"
    /\ IF Refusable
       THEN Refuse /\ UNCHANGED <<frames, decl, splice, expansion_count>>
       ELSE LET text == Replacement(Here.of)
            IN  /\ Counts(text)
                /\ IF Exceeds(text) THEN UNCHANGED <<frames, decl, splice>>
                   ELSE /\ frames' = WithTop([Top EXCEPT !.text =
                                        SubSeq(@, 1, Top.pos - 1) \o text
                                          \o SubSeq(@, Top.pos + 1, Len(@))])
                        /\ splice' = [in |-> Depth, end |-> Top.pos + Len(text)]
                        /\ decl' = [decl EXCEPT !.spliced = TRUE]
    /\ Constant /\ UNCHANGED <<tables, saw_reference, heard>>

\* The buffer of the last splice is gone when the one before is put back.
Gone        == Cardinality(Param) + 3       \* deeper than any frame
SpliceAfter == IF splice.in = Depth THEN [splice EXCEPT !.in = Gone] ELSE splice

Opened == {frames[i].of : i \in 2 .. Depth}

\* expand_parameter_entity_reference, between declarations.
Reference ==
    /\ InSubset /\ Between /\ Here.is = "%"
    /\ saw_reference' = (saw_reference \/ ~Top.far)
    /\ IF Lookup(Here.of).kind = "none" \/ Here.of \in Opened
       THEN Refuse /\ UNCHANGED <<frames, expansion_count>>
       ELSE LET text == Replacement(Here.of)
            IN  /\ Counts(text)
                /\ IF Exceeds(text) THEN UNCHANGED frames
                   ELSE frames' = Append(WithTop([Top EXCEPT !.pos = @ + 1]),
                                         Frame(Here.of, text,
                                               Top.far \/ Lookup(Here.of).kind = "external"))
    /\ Constant /\ UNCHANGED <<decl, splice, tables, heard>>

\* The end of the replacement text, and the buffer as it was before.
EndOfReplacement ==
    /\ Running /\ Depth > 1 /\ Top.of # "[dtd]" /\ Top.pos > Limit
    /\ Between /\ Top.sections = << >>
    /\ frames' = Front(frames) /\ splice' = SpliceAfter
    /\ Constant /\ UNCHANGED <<failed, decl, tables, saw_reference, expansion_count, heard>>

\* In the middle of a declaration or section.
EndWithin ==
    /\ Running /\ Depth > 1 /\ Top.pos > Limit
    /\ decl.is # "none" \/ Top.sections # << >>
    /\ Refuse
    /\ Constant /\ UNCHANGED <<frames, decl, splice, tables, saw_reference, expansion_count, heard>>
-----------------------------------------------------------------------------
(***************************************************************************)
(* DoctypeHandling::Skip: skip_doctype_subset_inner and                    *)
(* skip_declaration_body find the end of the subset.                       *)
(***************************************************************************)
Skips == Available /\ phase = "subset" /\ skipping

Skipped(step) ==
    /\ decl' = IF step = "over" THEN NoDecl ELSE Decl("skipped", "", step, Top.pos)
    /\ Advance
    /\ Constant /\ UNCHANGED <<failed, splice, tables, saw_reference, expansion_count, heard>>

SkipReference == Skips /\ Between /\ Here.is = "%" /\ Skipped("over")

BeginSkipped ==
    /\ Skips /\ Between /\ Here.is \in {"<!ENTITY", "<!ENTITY %", "<!ELEMENT", "<!["}
    /\ Skipped("body")

\* Variant: a > within quotes ends it as well.
SkipDeclaration_Unquoted ==
    /\ Skips /\ decl.is = "skipped"
    /\ Skipped(IF Here.is = ">" THEN "over" ELSE "body")
-----------------------------------------------------------------------------
(***************************************************************************)
(* Whatever is not expected, and the calls.                                *)
(***************************************************************************)
Expected ==
    CASE phase = "prolog" -> {"<!DOCTYPE", "root", "comment"}
      [] phase \in {"after", "root"} -> {"<!DOCTYPE", "root", "comment"}
      [] closed -> {">"}
      [] decl.is = "none" ->
            {"comment", "%", "<!ENTITY", "<!ENTITY %", "<!ELEMENT"}
              \cup (IF Depth = 1 THEN {"]"} ELSE {})
              \cup (IF skipping \/ Depth > 1 THEN {"<!["} ELSE {})
              \cup (IF Top.sections # << >> THEN {"]]>"} ELSE {})
      [] decl.is = "skipped" \/ decl.step \in {"'", "''"} -> {t.is : t \in Token}
      [] IsEntity ->
            CASE decl.step = "value" -> {"quote", "SYSTEM"}
              [] decl.step = "external" /\ decl.is = "entity" -> {"NDATA", ">"}
              [] OTHER -> {">"}
      [] decl.is = "element" ->
            {"%"} \cup (CASE decl.step = "name" -> {"name"} [] decl.step = "spec" -> {"EMPTY"}
                          [] OTHER -> {">"})
      [] decl.is = "section" ->
            IF decl.step = "keyword" THEN {"%", "INCLUDE", "IGNORE"} ELSE {"["}

\* Quotes are minded; of the tokens outside of them, these have a > in them.
SkipDeclaration ==
    /\ Skips /\ decl.is = "skipped"
    /\ Skipped(IF decl.step = "body"
               THEN CASE Here.is = "quote" -> Here.of
                      [] Here.is \in {">", "]]>", "comment", "root"} -> "over"
                      [] OTHER -> "body"
               ELSE IF Here = Of("quote", decl.step) THEN "body" ELSE decl.step)

Malformed ==
    /\ Available /\ Here.is \notin Expected
    /\ Refuse
    /\ Constant /\ UNCHANGED <<frames, decl, splice, tables, saw_reference, expansion_count, heard>>

\* What of the input has been read: all, or the beginning of a DOCTYPE.
Exhausted ==
    /\ Depth = 1
    /\ \/ Top.pos > arrived
       \/ Top.pos = arrived /\ Here.is = "<!DOCTYPE" /\ phase = "prolog"
            /\ doc.handling # "disallow"

\* Variant: goes back to the beginning and on, and does not return.
NeedMore_GoesOn ==
    /\ Running /\ Exhausted
    /\ decl' = NoDecl
    /\ IF decl.is \in {"none", "skipped"}
       THEN calling' = FALSE /\ skipping' = FALSE /\ UNCHANGED frames
       ELSE MoveTo(decl.start) /\ UNCHANGED <<calling, skipping>>
    /\ UNCHANGED <<input, phase, failed, closed, splice, tables, saw_reference, expansion_count,
                   heard>>

\* Variant: a declaration is taken up where it was left.
NeedMore_NoBackup ==
    /\ Running /\ Exhausted
    /\ calling' = FALSE /\ skipping' = FALSE /\ decl' = NoDecl
    /\ UNCHANGED <<input, phase, failed, closed, frames, splice, tables, saw_reference,
                   expansion_count, heard>>

\* Only the document is waited for.  A declaration is read again from its
\* beginning, a skipped one is not; but scan() goes on as in Process.
NeedMore ==
    /\ Running /\ Exhausted
    /\ calling' = FALSE /\ skipping' = FALSE /\ decl' = NoDecl
    /\ IF decl.is \in {"none", "skipped"} THEN UNCHANGED frames ELSE MoveTo(decl.start)
    /\ UNCHANGED <<input, phase, failed, closed, splice, tables, saw_reference, expansion_count,
                   heard>>

Receive ==
    /\ ~calling /\ failed = "none" /\ phase # "done" /\ chunks < doc.pieces
    /\ arrived < Len(doc.text)
    /\ arrived' \in IF chunks + 1 = doc.pieces THEN {Len(doc.text)}
                    ELSE arrived + 1 .. Len(doc.text)
    /\ chunks' = chunks + 1 /\ calling' = TRUE
    /\ UNCHANGED <<doc, status, frames, decl, splice, tables, saw_reference, expansion_count, heard>>

Close ==
    /\ ~calling /\ failed = "none" /\ phase # "done" /\ arrived = Len(doc.text)
    /\ IF phase = "root" THEN phase' = "done" /\ UNCHANGED failed
       ELSE Refuse /\ UNCHANGED phase
    /\ UNCHANGED <<input, calling, skipping, closed, frames, decl, splice, tables, saw_reference,
                   expansion_count, heard>>

Scan ==
    \/ BeginDoctype \/ Root \/ Comment \/ EndOfSubset \/ EndOfDoctype \/ EndOfExternalSubset
    \/ BeginEntity \/ BeginElement \/ EntityValue \/ Literal \/ ReferenceInLiteral
    \/ UnparsedEntity \/ EndOfEntityDeclaration
    \/ ElementName \/ ElementSpec \/ EndOfElementDeclaration
    \/ BeginSection \/ SectionKeyword \/ OpenInclude \/ EndOfInclude \/ IgnoreSection
    \/ Splice \/ Reference \/ EndOfReplacement \/ EndWithin
    \/ SkipReference \/ BeginSkipped \/ SkipDeclaration
    \/ Malformed \/ NeedMore

Next == Scan \/ Receive \/ Close

\* A call of receive runs until it returns.
Spec == Init /\ [][Next]_vars /\ WF_vars(Scan)
-----------------------------------------------------------------------------
(* Properties                                                              *)

\* The buffers: that of the document, and in it, each within the one before, the
\* external subset and every parameter entity at most once; what is put in the
\* place of external text is treated as such.
TypeOK ==
    /\ phase \in {"prolog", "subset", "after", "root", "done"}
    /\ failed \in {"none", "refused", "limit"} /\ calling \in BOOLEAN
    /\ arrived \in 0 .. Len(doc.text) /\ chunks \in 0 .. doc.pieces
    /\ Len(frames) \in 1 .. Cardinality(Param) + 2
    /\ \A i \in DOMAIN frames :
        /\ frames[i].text \in Seq(Token) /\ frames[i].pos \in 1 .. Len(frames[i].text) + 1
        /\ (i > 1 /\ frames[i - 1].far) => frames[i].far
    /\ IsInjective([i \in DOMAIN frames |-> frames[i].of])

\* The limit counts every replacement text, and stops before it is passed.
LimitKept == doc.limit > 0 /\ failed # "limit" => expansion_count <= doc.limit

\* What a general entity is declared as, in this subset or before it.
Binding(n) == IF pending_general[n].kind # "none" THEN pending_general[n] ELSE general[n]

\* A declaration of a name that is declared changes nothing, whichever of the
\* two subsets and of the replacement texts either is in; nor does any other step.
KeepsBindings ==
    /\ \A n \in Name : Binding(n).kind # "none" => Binding(n)' = Binding(n)
    /\ \A p \in Param : Lookup(p).kind # "none" => Lookup(p)' = Lookup(p)

FirstBinds == [][KeepsBindings]_vars

\* Each declaration is reported once, though a chunk may end within it, and as
\* that which binds.
OfGeneral == {"entity", "external entity", "unparsed"}
OfParam   == {"param", "external param"}

ReportedOnce ==
    \A kinds \in {OfGeneral, OfParam, {"element"}} : \A i, j \in DOMAIN heard :
        heard[i][1] \in kinds /\ heard[j][1] \in kinds /\ heard[i][2] = heard[j][2] => i = j

Agrees(event) ==
    /\ event[1] = "entity" => /\ Binding(event[2]).kind = "internal"
                              /\ Binding(event[2]).text = event[3]
    /\ event[1] = "external entity" => Binding(event[2]).kind = "external"
    /\ event[1] = "unparsed" => general[event[2]].kind = "unparsed"
    /\ event[1] = "param" => /\ Lookup(event[2]).kind = "internal"
                             /\ Lookup(event[2]).text = event[3]
    /\ event[1] = "external param" => Lookup(event[2]).kind = "external"
    /\ event[1] = "element" => event[2] \in elements

ReportedAsBound == \A i \in DOMAIN heard : Agrees(heard[i])
=============================================================================
