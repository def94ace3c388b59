# Tractrix: specification and proofs

Tractrix is a push parser for XML 1.0 and 1.1 and a streaming writer. The
application feeds chunks of bytes with `receive`, signals the end with `close`,
and hears events through the trait `XmlHandler`. Nothing is concurrent; what is
hard is that *the environment chooses where every chunk ends*, so each function
of the scanner must be able to stop at any character, say nothing twice and
forget nothing when it resumes.

This directory holds TLA+ modules translated from `src/`, the TLC runs that
check them on small inputs, and TLAPS proofs for all inputs.

## 1. The system

| Part | Source | State | Operations | Correct means |
|---|---|---|---|---|
| Parser | `parser.rs` | `closed` | `receive`, `close`, `reset`, `parse_all` | the order of calls never confuses the parts behind it |
| Decoder | `decoder.rs` | `state`, undecoded bytes, pending CR | `receive`, `close`, `reset`, BOM and declaration, line endings | the scanner gets the same text however the bytes are cut |
| Scanner | `scanner.rs` | buffer, `pos`, `limit`, the `in_...` flags, run markers, element stack, attribute names seen, DTD, entity frames | `set_encoding`, `receive`, `close`, `reset` and the scan functions below them | the events are the meaning of the document, in order, once |
| Entities | `scanner.rs` 7074–7600, `entity.rs` | entity tables, expansion stack and count, caches, saved frames | expansion in content and in values, flattening, resolution | expansion is bounded, properly nested, and the same cached or not |
| DOCTYPE | `scanner.rs` 6137–8650 | subset position, pending declarations, parameter-entity frames and splices | `scan_doctype`, declarations, conditional sections, skip mode | what is declared does not depend on the cuts, and is what the input text with its references replaced says |
| DTD model | `dtd.rs` | content models, attribute definitions | declarations, `match_content` | a model accepts its language |
| Validity | `scanner.rs` 1100–1220, 8654–9030, `dtd.rs` | a matcher per open element, IDs, IDREFs | the checks at tags, ends, declarations and the end of the document | each violated constraint is reported, and no other |
| Namespaces | `namespace.rs` | bindings with their depth, the scope depth, names of the attributes passed on, the declaration being read | push, pop, declare, the handler methods of the filter | a prefix means what the innermost open declaration says |
| Handler | `handler.rs` | the application's | the events | the documented order |
| Writer | `writer.rs`, `indent.rs` | pending start tag, element stack, prefix scopes, DTD state, send buffer | `write_*`, `flush`, `close` | what is written reads back as what was asked for |
| Features, names, locator, errors | the rest | none that another part decides by | | |

How they interact: `Parser::receive` calls `Decoder::receive`, which settles the
encoding once (`Scanner::set_encoding`) and then feeds decoded characters
(`Scanner::receive`) or, for UTF-8, normalised bytes (`Scanner::receive_bytes`).
The scanner calls the handler in the middle of its loops; an `Err` from the
handler leaves through every caller. The namespace filter is itself a handler in
front of the application's.

Which behaviours are hard:

* a chunk ends inside a token, a reference, an end mark, or a UTF-8 sequence;
* a text run is reported in pieces and its last piece may be empty;
* something is reported or recorded and the scan then backs up over it;
* a failure in the middle of an operation, and a call after it;
* `reset` in any state;
* nesting: element boundaries inside entities, prefixes inside scopes, markup
  declarations across parameter entities;
* limits and counters: expansions, the `]]` count;
* caches: a text that was flattened once must not depend on where it was used first;
* a sink that refuses what the writer has already forgotten it still owes.

`PROJECT.json` lists the hazards line by line with the properties that watch
them, the source lines of each definition, and one mutant of the code for each
checked property.

## 2. The modules

| Module | Stands for |
|---|---|
| `XmlLexemes` | the alphabet: the classes of characters the scanner tells apart |
| `HandlerContract` | `XmlHandler` and an application that follows the documented events |
| `Scanner` | `Scanner`, with the calls of `Parser` that reach it, for documents without a DOCTYPE |
| `XmlReference` | what a whole document means, written from the grammar, without chunks |
| `MCScanner` | the documents of the runs, and the properties that compare `Scanner` with `XmlReference` |
| `NamespaceScopes` | the promise of the namespace tracker: a stack of environments |
| `NamespaceScopeTracker` | `NamespaceScopeTracker`, which keeps them in one flat list |
| `NamespaceFilter` | `NamespaceFilter` over the tracker, between the scanner's calls and an application; its verdict compared with the constraints of Namespaces in XML |
| `MCNamespaces` | names and values for the runs |
| `Decoder` | `ExternalEntityDecoder` with the calls of `Parser` that reach it |
| `MCDecoder` | byte streams, what each decodes to, and the properties |
| `Entities` | references to general entities in content, values and defaults |
| `EntityMeaning` | the document with every reference replaced where it stands |
| `MCEntities` | entity tables, documents, and the comparison |
| `Doctype` | the DOCTYPE declaration: both subsets, parameter entities, conditional sections, skipping |
| `DoctypeMeaning` | the same text read from an input stack, without chunks, splices or buffers |
| `MCDoctype` | subsets and replacement texts, and the comparison |
| `ContentModels`, `ContentModelMatcher` | the content models of `dtd.rs` and the matcher |
| `ContentLanguage` | the language of a content model, and whether the model is deterministic |
| `MCContentModels` | every small model with every short sequence of children |
| `Validity` | declarations, attribute types and defaults, the validity errors; what the declarations mean, and the properties |
| `MCValidity` | prologs, and the matcher of the run |
| `Writer` | `XmlWriter` |
| `WrittenDocument` | a reader of what was written, which shares nothing with the writer |
| `MCWriter` | the calls, what each asks for, and the comparison |
| `Scanner_proofs`, `NamespaceScopeTracker_proofs`, `NamespaceFilter_proofs`, `Decoder_proofs`, `Entities_proofs`, `Doctype_proofs`, `Validity_proofs`, `Writer_proofs` | the theorems |

Four pairs have the same shape: a module that translates the code, with its
buffers, caches, positions and early returns, and a reference that computes the
result from the whole input by the rules of the standard (`XmlReference`,
`EntityMeaning`, `DoctypeMeaning`, `ContentLanguage`; for the writer,
`WrittenDocument`). The MC module puts the two side by side. What the code is
known to do otherwise is a named part of the reference (`odd`, `strange`, or an
exclusion in the property), listed in section 5, so that everything else is exact.

### XmlLexemes

One element of the alphabet per class of characters. Two letters are enough to
make names equal and different. `lt` and `xml` stand for the two words the
scanner compares with, `[` for the seven characters `[CDATA[` (the code looks for
them as one marker). `C3` and `A9` are the two bytes of one letter, so that a
chunk can end between them. Quotes are one class: the code only compares the
closing quote with the opening one.

### HandlerContract

`Deliver(a, e)` is the application's state after the call `e`. It keeps the
element stack the README tells an application to keep, the open run, the items
seen with the cuts between pieces forgotten, and four flags that stick once a
call came out of place (`disorder`), before a run was completed (`torn`), with
half of a UTF-8 sequence (`split`), or after a fatal error (`late`). Nothing in
`Scanner` reads it. The application answers `Err` to `fatal_error`, as the
default method does, and `Ok` to everything else.

### Scanner

`input` is the whole document, `limit` how much has arrived, `pos` how much is
consumed; the code's buffer is the part between them. The code shifts its buffer
in `append`; positions that count from the start of the document make that
invisible, as it should be.

| Variable | Field |
|---|---|
| `inside` | the set of `in_start_tag`, `in_attribute_value`, `in_comment`, `in_cdata`, `in_pi` that are true |
| `content_run_open`, `content_bracket_run`, `cdata_run_open` | the fields of the same names |
| `element_stack`, `seen_attribute_names`, `root_started`, `root_ended` | the fields of the same names |
| `bytes_mode` | which variant of `ScanBuffer` is in use |
| `at` | the program counter: `app` between calls, otherwise the function that runs next |
| `closed`, `decoder_closed` | `Parser::closed`, `State::Closed` of the decoder |

An action is one iteration of the scan loop: one token, or one piece of a token.
Every loop of the code ends in one of four ways, and these are operators:
`Fatal` (the handler is told, the call returns an error), `NeedMore` (the
function returns false and the call returns), `Done` (the token is finished) and
`Proceed` (the token goes on). `Walk(from, S, stop)` is the position where a loop
over characters in `S` stops. `Receive` only makes characters arrive; the scan
actions follow until `at = "app"` again, and no call of the application comes in
between, as in the code.

`scanner.rs` contains every scan function twice, for characters and for bytes.
The twins are the same action: over a byte document the character classes of
`XmlLexemes` include the two bytes, and where the twins differ (the white-space
check in `TagFatal`, the place of an error in `Attribute`, the sequence cut at
`Close`) the action says so.

`Close` makes the checks of `Scanner::close` in their order; which of them fails
does not matter to the application. `SetEncoding` chooses the byte twin as the
decoder does for UTF-8. `Reset` is split into `ResetFlags`, `ResetRuns` and
`ResetTree`, the assignments of `Scanner::reset` to each group of fields.

Bounds of the model: `MaxResets`; the documents are finite. `AfterFailure` is the
set of calls an application still makes after an `Err`.

### XmlReference

`Meaning(doc, skip)` reads a whole document by the grammar of XML 1.0 and gives
its items (start tags, attributes, characters, ...) or says that it is not
well-formed. It is a set of recursive functions over positions, with no state of
the scanner in it, so it cannot repeat the scanner's mistakes about chunks. In
five places it is as lenient as the code, on purpose: the properties are about
chunking, and the places where the code accepts too much are listed in section 5.

### NamespaceScopes and NamespaceScopeTracker

`NamespaceScopes` is what the tracker promises: `scopes` has one function from
prefixes to namespace names per open scope. `Open` copies the innermost, `Declare`
changes it, `Close` drops it.

`NamespaceScopeTracker` has the code's fields `bindings` and `scope_depth`. The
code keeps the texts in a buffer and their offsets in the bindings; a binding here
is its prefix, its name and its depth. The buffer is cut exactly where the list
is, and nothing reads behind the cut. The empty name `<<>>` is `Unbound`:
`get_uri` makes no difference between a prefix bound to `""` and one not bound.
`pop_context` cuts after the last binding of an outer scope. On the root scope the
code would panic; `RootScopeKept` says that the filter never does that.
`LexicalScoping` is the refinement: `ScopesNow` reads the flat list as a stack.

### NamespaceFilter

| Variable | Stands for |
|---|---|
| `doc`, `version`, `open`, `tag`, `attr`, `failed`, `resets` | the scanner: the document's stage and version, the open elements with the attributes they were given, what of a tag is unfinished, whether a call returned an error |
| `bindings`, `scope_depth` | the filter's `tracker` |
| `xml11`, `element_qname`, `pending_attr_qnames`, `current_...`, `value_first_chunk`, `value_builder` | the fields of the same names |
| `app` | an application that keeps scopes as `docs/namespaces.html` says |

The filter is a handler, so its actions are calls of the scanner. They come in the
order that is proved of `Scanner` (`EventsInOrder`, `OnlyCharacterRunsTorn`): a
tag's events follow each other, a value's pieces are completed before the next
event, elements nest, no call follows an `Err` until a reset. Values come in any
number of pieces, empty ones included. The scanner has refused attributes that
are given twice by their written name.

A name is split at its first colon, as `split_qname` does; the prefix `""` stands
for no colon. `Malformed` are the parts that `validate_qname` refuses. A name that
begins with a colon is written `Name("", ":a")`. The two kinds of attributes of
`start_attribute` and the two of `attribute_value_content` are operators of their
own. `Reserved` is the cascade of refusals in `declare_namespace`; which message
is sent does not matter. `Lenient` is an application that may answer `Ok` to
`fatal_error`: the filter then returns `Ok` without passing the event on, and the
scanner goes on. `Reset` is `Parser::reset`: it reaches decoder and scanner, and
changes nothing here.

The bounds of the model are `MaxDepth`, `MaxAttributes` (of one tag) and
`MaxResets`. They are guards of the environment; the theorems hold for all.

### Decoder

`dec` has the fields of the decoder (`prelude`, `state`, `bom`, `last_char`, the
undecoded rest, `xml11`, `charset`), `scanner` what it has told the scanner
(encoding, version, standalone, text, the end). `receive` is the code's loop over
the three states: the mark, the declaration, the content. The declaration is read
attribute by attribute, each by what has come of it (`Ok`, `Underflow`,
`Failure`), as the code does. A byte is a two-digit
code or an ASCII character; keywords, numbers and labels are one character,
because the code waits for each as a whole and compares it as a whole.

`Decode` is the decoding of one call, byte by byte. Every engine keeps an unfinished
sequence (`engine`). UTF-32 and ISO-8859-1 are decoded by the code itself; the rest by
encoding_rs, of whose single-byte encodings KOI8-R stands for all. That library is
external, and three things of it matter: it may be closed once and panics when used
after; it writes into a `String` that it does not grow, for which the code has reserved
as many bytes as the chunk has and 16 (`Reserved`); and before each byte it asks whether
its longest character would fit (`LongestChar`), and otherwise leaves the rest unread.
The code does not ask how much was read: the rest of the chunk is lost. `dec.unread` is a
history of the lengths of the chunks that lost something. Room is counted in the bytes that
a character takes in UTF-8 (`Utf8Length`).
`AfterFailure` and `cut` are as in `Scanner`.

### Entities and EntityMeaning

A document is a sequence of pieces (a character, `]]`, `>`, a tag, a reference, an
attribute with a value; `Cut` is a reference that ends with the text it is in), and
comes in one chunk: `Scanner` has the cuts. `frames` is the chain of saved
buffers of `expand_general_entity_in_content`: the rest of each text, the number of
elements open when it began, and whether a run was open. The functions that read a
text in one go call each other for the references in it; `calls` is their stack,
with what each has yet to read and what it has made. `flatten_content_text` within
`flatten_content_entity_cached` is a call `"flatten"`, and its steps are
`FlattenCharacter`, `FlattenOther`, `FlattenReference` and `FlattenReturn`;
`resolve_attribute_text` within `expand_general_entity_in_attribute_value` is a call
`"resolve"`, with `Resolve...`. An error ends all of them, as `?` does. The
outermost one begins in `GeneralReference`, `AttributeTag` or `EndOfDoctype`, and
`EnterFlattened` or `EndOfValue` is what its caller does with the text. Nothing else happens in
between, so the steps stand for the recursion of the code, which they make
explicit; `Expanding`, the `entity_expansion_stack`, is read off `frames` and `calls`.
`content_entity_cache` may hold a text, `NotFlat` (the code's `None`)
or no entry. A resource is on, off or denied; the resolver is the application's.

`EntityMeaning` replaces each reference by its text, recursively, with the
constraints of 4.1 and 4.4 of the standard. `ReplacedAsMeant` compares characters,
not pieces, and leaves out boundaries inside a flattened text, which the code does
not report.

### Doctype and DoctypeMeaning

The input is a sequence of tokens. `frames` holds the buffers: the document's own,
which grows, and the replacement texts and the external subset put in its place.
A declaration is read token by token; at the end of a chunk `NeedMore` takes it
back to its beginning. `decl` is the program counter within the declaration. The
three ways to include a parameter entity are three actions: `Reference` opens a
frame, `Splice` changes the top buffer (a reference in the spliced text is met
again by the same loop), `ReferenceInLiteral` copies. `splice` is
`last_splice_end`; the code compares this offset with positions of whatever buffer
is current, so `FromSplice` is a free choice when the buffer is another.
`pending_general` and `pending_param` are the maps of `PendingDecls` (the code has
two of each kind, internal and external; here the kind is a field), merged by
`Commit`. `skipping` is the call that runs under `DoctypeHandling::Skip`;
`NeedMore` clears it, because `scan` resumes on the other path.

`DoctypeMeaning` reads the same tokens from one input stack on which a replacement
text is pushed with a marker behind it. Nesting (`broken`) is read off the markers.

### ContentModels, ContentModelMatcher, ContentLanguage

A model is a tree of leaves and groups with an occurrence. `Match`, `Rounds` and
`Picks` are the functions of `dtd.rs`, with a position going in and a result coming
out. `Language(m, n)` is the set of words of up to `n` names, built from below by
concatenation and repetition; `Deterministic` is the standard's constraint.

### Validity

One action is one declaration, definition of an attribute, tag, attribute or piece of
content, complete in the buffer: `Scanner` has the pieces. An attribute list is read
definition by definition (`defsRead`, `DeclareAttribute`, `EndOfAttlist`), and
`ScanAgain` is the code's rescanning: a list cut after some definitions has declared
those and is then read from its beginning. The history variables (`open`, `judged`,
`tag`, `idsWritten`, ...) are what an application sees; the reference, at the end of
`Validity`, says by the declarations and by what was written what should have been
heard and complained of. It shares nothing with the scanner's tables: a declaration has
a place in the prolog (`DeclaredAt`), the first place of an element or attribute counts
(`Counting`, `FirstElements`), and a sequence heard must have each of the places once, in their
order (`ListsInOrder`). `StandaloneKept` compares with the places inside the document alone,
where no attribute is declared outside before it is declared inside
(`InsideFirst`; section 5 has the other case). The matcher is a
constant operator `Matches`, in the run the one of `dtd.rs`, and the reference has it
where the standard speaks of the language of a model; `MCValidity` assumes, and TLC
evaluates, that for the models and children of the run the two are the same
(`MatchesLanguageHere`), and `content_models` asks where they are not.

### Writer and WrittenDocument

The writer is one record, `w`; a call is an operator from writer to writer, so that
calls within calls (a start tag that closes the pending one, that indents, that
emits the mark) compose as in the code. `Finish` adds `send_if_needed` with a sink
that takes the buffer, refuses it, or takes a part and then fails. `declared` is
a history: the namespace declarations written for the document and each open
element. What is written is a sequence of pieces; delimiters that
text can be mistaken for are written as single characters, so that the reader may
find them where the writer did not mean them. `WrittenDocument` is a reader over
these pieces with its own stack and scopes; MCWriter records what each call asks
for (`asked`) and compares.

## 3. The runs

The runs of the scanner cut every document in every way: each `Receive` brings one or more of
the remaining characters, and the application may close, or stop calling, at
every point. `CHECK_DEADLOCK FALSE` because an application that stops calling is
not an error; in the other modules because a document or a parse that failed ends.

| Run | Question | Bounds |
|---|---|---|
| `scanner_meaning` | Is what is heard the meaning of the document, are runs completed and characters whole, does every call return? | 10 documents that use every construct once, 6 with a letter outside ASCII in both encodings; as the data of a CDATA section, comment and PI all texts of up to 3 characters over the end mark's own characters, in a start tag of up to 4 |
| `scanner_broken` | Are broken documents refused for a reason, with the events before that in order and the stacks equal? Does the next document meet anything of the last one? | 30 documents with one error each, one for each `Fatal` in the model, and 4 that leave every part of the state in use; one reset at every point, `close` after a failure; undeclared entities skipped |
| `namespace_scopes` | Does the list answer as nested scopes, is a tag let through exactly if it is legal, are reserved and malformed names refused exactly? | one family with 2 prefixes, 3 names (one empty, one in two pieces), 2 levels; one with 8 attributes and 3 elements, one for each refusal, 1 level, XML 1.0 and 1.1; 2 attributes a tag |
| `namespace_reuse` | What do errors and a reset leave behind? | an application that answers any of the fatal errors with `Ok`; 2 attributes, 2 levels, 1 reset at every point, XML 1.1 and no declaration |
| `decoder` | Is the scanner given the decoded text, by the declared settings, is a stream refused exactly if it must be, and when is something lost? | 7 encodings, marked and unmarked; all texts of up to 3 characters over CR, LF, NEL and another (2 in the wide encodings); texts of 12 to 18 characters that are longer in UTF-8, in KOI8-R and UTF-16; declarations with every attribute right, wrong, missing; streams torn in a character or in the mark; every cut; after a close one more chunk; calls after a failure; 1 reset |
| `entities` | Is every reference replaced where it stands, and refused exactly if it must be? | 3 entities; texts of up to 2 pieces for the first and 14 texts for the second, internal, external (on, off, denied), unparsed, undeclared, declared outside; 11 contents; limits 0, 1, 3; 1 reset to another document |
| `doctype` | Is what is declared and reported what the text says, wherever it was cut? | 2 parameter entities with 26 and 9 replacement texts, in 17 uses between declarations, within them and in literals; internal and external subset, files read or not; limits; every cut of the documents with more than one chunk (up to 3); Process, Skip in one chunk, Disallow |
| `content_models` | Does the matcher accept the model's language? | all groups of two leaves over 2 names with every occurrence, single groups, and two-level groups over 4 leaves; children up to 5 |
| `validity` | Is each violated constraint reported at its place, and nothing else? | 10 prologs, each with the tags, values and contents that break its constraints, one with a parameter entity that declares an attribute before the document does; up to 3 levels, 2 children and 2 pieces of content or attributes each (3 attributes for the types); 1 reset |
| `writer` | Does a reader find what was asked for? | 4 themes (names, markup, texts, DTD) with as many calls as the theme allows (`MCMaxCalls`), depth 3, 3 charsets, a buffer of 8 pieces; in the markup theme the sink takes or refuses it at each send |
| `finding_*` | see section 5 | the smallest sets that show it |

Why these bounds are enough: the scanner looks at most two characters ahead
(`-->`, `]]>`), keeps one counter that is compared with 2, and otherwise keeps
flags. A text of three characters contains every way in which a mark can begin,
fail, and begin again. Nesting is compared only at the top of the stack, so two
names and two levels show every comparison. `scanner_broken` and `scanner_meaning`
together reach each action and each disjunct.

For the filter: a look-up compares one prefix with the bindings of inner and outer
scopes, and the pair check compares two attributes. Two levels show a
redeclaration, an unbinding and what comes back after them; two prefixes with two
names show the same expanded name under two prefixes; a value of two characters
comes in three non-trivial ways. That depth and number do not matter is proved
(section 4).

For the decoder: a line end is at most two characters, so three show one, two
ends, and one between others, and every cut of them; marks are at most four bytes
and the streams include every shorter one. The 16 bytes reserved beyond the length of a
chunk are those of the code: 17 Cyrillic letters or 18 Han characters fill them, 12 and 13
cannot. For entities: a chain of three names has
the shortest indirect recursion and a cache filled from the middle of another's
text. For the DOCTYPE: two parameter entities show a reference within a
reference, a declaration torn between two texts, and recursion; splices look only
at the last. For content models: five children exceed the four leaves of the
largest model, so each repetition is met once more than it must be. For the
writer: three levels show a scope shadowed and restored, and the buffer fills in
the middle of an element and of a tag.

The properties of the scanner:

* `ReportsMeaning`: what was heard is always a beginning of the meaning, and all
  of it once the last character has arrived and the call has returned. This is
  the property that no chunking, back-up, hold-back or resumption changes the
  document.
* `VerdictSound`: no chunking makes the parser refuse a well-formed document,
  nor accept with nothing left unread an incomplete one.
* `EventOrder`, `RunsCompleted`, `StacksAgree`, `CharactersWhole`: the contract
  with the application, also on the way to an error.
* `CallsReturn`: `receive` and `close` return. Fairness: `WF_vars(Scan)`. The
  scan loop is straight sequential code that never waits, so a call that is
  running takes its next step; nothing is assumed of the application.

The properties of the filter:

* `LexicalScoping`: the flat list is a stack of environments (refinement).
* `VerdictExact`: a tag is let through exactly if it satisfies the namespace
  constraints, which are read off the whole tag and its ancestors
  (`EnvironmentOf`), wherever the declarations stand in the tag; a refusal within
  a tag is of one that cannot become legal any more. It is about
  documents read by their own version and with no scope left by an abandoned one.
* `HeardAsWritten`: what the application was told is what the document says.
* `ScopesAgree` (in `namespace_reuse`, where errors and resets make it hard): an
  application that keeps scopes from the events alone knows what the filter knows.
* `ReportedTagsLegal`: attributes are passed on before the declarations of their
  tag; still a tag whose `end_attributes` is reported resolves.
* `RootScopeKept`, `DriftsOnlyByReset`: the scopes of the filter and the elements
  of the scanner drift apart only through a reset inside an element, and then so
  that the root scope stays.

No property of the filter is one of liveness: each method is a straight line.

The decoder:

* `FedIsMeaning`: unless an engine ran out of output, the text passed on is a beginning
  of the decoded and normalised text, all of it at the end, for every cut. An engine runs
  out only in a document that is more than twelve bytes longer in UTF-8 (so never in
  one of UTF-8) or is refused. And the decoder decides in time: once the declaration and
  four bytes have come it waits for nothing but the rest of a character (a bound,
  instead of liveness).
  A part of it is `NoByteLeft`: at the end no engine, nor the text passed on as bytes, holds
  an open sequence; and a chunk that loses bytes has more than seven and goes to encoding_rs.
* `VerdictExact`: unless an engine ran out of output, a stream is refused exactly if it
  must be; and an application that goes on after an encoding was refused never gets text.
* `SettingsAreDeclared`: version, standalone and encoding are the declared ones
  before any text is passed on.

Entities:

* `ReplacedAsMeant`: scanned, flattened or from a cache, in content, value or
  default, now or after a reset, a reference is the text the standard gives it.
* `VerdictExact`: refused exactly for a broken constraint, and no more expansions
  are heard of than the limit (`LimitKept`).
* `BoundariesNest`: elements and entities nest; a run ends before a boundary; no
  entity is open within itself.
* `CachesFaithful`: a text in a cache is the declared text of its entity with texts
  from the cache in place of the references, in whatever order, how often and from
  where they were read; values are made of such texts, and nothing but a text of
  the entity is scanned in its place.

The DOCTYPE:

* `DeclaredAsMeant`: tables and reports are those of the reference; a declaration
  that was read several times is declared once, and the first one binds.
* `VerdictExact`: refused exactly for what the grammar and the constraints say; the
  count is the length of all text taken in, below the limit, and the limit refuses
  nothing that keeps to it.
* `NestingHeard`: the nesting constraint, found by the code with one offset, is
  reported exactly if a replacement text does not contain the whole.
* `CallsReturn`: under `WF_vars(Scan)`, as for the scanner; splices can make the
  text longer than it was, and the limit has to end that.

Validity and content models:

* `MatchesLanguage`: the matcher against the language, in both directions.
* `ContentJudged`, `AttributesHeard`, `IdentitiesJudged`, `StandaloneKept`: the
  error is reported if and only if the constraint is broken (`StandaloneKept`: if);
  the attributes heard are those written and defaulted, with their values
  normalised by type.
* `DeclarationsHeardOnce`: each declaration that counts, once, in order, although
  an attribute list is read again when a chunk ends in it.

The writer:

* `BindingsWritten`: in every open element, the innermost declaration that was
  written for a prefix gives it the name the writer's scopes give it.
* `ReadBack`: what is read is what was asked for, behind one byte order mark or
  none; nothing is lost or repeated when the sink refuses.
* `NamesAsAsked`: elements and attributes have the names and bindings asked for,
  although redundant declarations are left out.
* `TextLeftAlone`: indentation touches no text.

The only liveness is `CallsReturn`. `Entities`, `Validity`, `Decoder` and `Writer`
have steps that are straight-line code or recursion over finite data in one step,
where TLC's evaluation ends or the model would not.

## 4. The proofs

`tlapm M.tla` for each `M` of the eight `..._proofs` modules checks all that
follows. A proof module starts with the inductive invariant, goes on with lemmas on
the operators of the model, then has one lemma per action or group of actions, and
ends with the theorems. A theorem holds for every value of the constants that
satisfies the named assumptions of the modules, with no bound on documents,
chunks, depth or calls. (Where a module bounds the number of resets by `MaxResets`,
that number is arbitrary.)

### The scanner

`Scanner_proofs` begins with one lemma per kind of call of `HandlerContract`: if the
application agreed with the scanner before (`Follows`), the call is in its place and it
agrees after it. Then it has one lemma per action.

The inductive invariant is

    IInv == TypeOK /\ OneToken /\ Session /\ Agrees

`OneToken`: at most one token is unfinished, and the function that runs is the one
whose flag is set; an unfinished tag has its element on the stack. `Session`: a
call only runs on a started document; a closed decoder belongs to a closed parser.
`Agrees`: unless it has heard of a failure, the application's open tag, open CDATA
section, open run and stack are the ones the scanner's flags and stack say, and
no event has come out of order. None of the properties is inductive alone:
`EventOrder` needs to know that the scanner's flags describe what the application
was told, which needs that only one token is unfinished, which needs the types.

From it, for *every* set of documents, every chunking, both settings of
`SkipDoctype`, any number of resets and any calls after a failure:

* `TypeCorrectness`: `Spec => []TypeOK`;
* `EventsInOrder`: `Spec => []EventOrder`;
* `OnlyCharacterRunsTorn`: `Spec => []RunsCompleted`;
* `StacksAlwaysAgree`: `Spec => []StacksAgree`;
* `CharactersAreWhole`: `Spec => []CharactersWhole`. `WInv`, on top of `IInv`, says
  that no text reported so far was cut in a UTF-8 sequence and that `pos` is never
  behind a lead byte. A loop over a class of characters that contains the second
  byte contains the first as well, and a loop that ends at the last byte that
  arrived holds an unfinished sequence back; so a step that starts at such a
  position ends at one, and the text between is whole.

The assumptions are `DocumentsAssumption` (the documents are texts) and
`SettingsAssumption` (the types of the two settings).

Only model-checked: `ReportsMeaning` and `VerdictSound`, because the meaning is
defined by recursion over the document and TLAPS has no induction over data;
`CallsReturn`, because it is liveness.

### Namespaces

`NamespaceScopeTracker_proofs` shows `TrackerSpec => LexicalScoping`. The invariant
`TrackerInv` is that the list is layered: depths never decrease along it, none is
beyond `scope_depth`, and for each prefix the last binding up to a depth exists
where one exists at all (the operator `Max` of the community modules is a choice, so
this has to be said). Without the layers, cutting after the last outer binding
could keep inner ones. From it, one lemma per operation: a push repeats the
innermost environment, a declaration changes it in one place, a pop removes it and
leaves all others, each equal to a step of `NamespaceScopes`.

`NamespaceFilter_proofs` first sorts the methods: every step of the filter is one
of five kinds (it is quiet about scopes, opens one, declares in the innermost,
closes it, or abandons the document), and every property about scopes is proved by
kinds. The invariants build on one another:

* `FInv`: types, `TrackerInv`, `RootScopeKept`, an unfinished tag has its element
  open, what is collected of a declaration belongs to the attribute being read, and
  the application has a scope for each of the scanner's elements. It gives `FilterTypes`,
  `RootScopeStays`, and that the filter obeys the tracker's protocol
  (`FilterUsesTracker`: a pop only after its push), hence `FilterScopesLexically`.
* `SInv` adds `ScopesAgree` and that the root scope holds the predeclared
  bindings; it gives `ApplicationKnowsScopes`.
* `TagInv` adds what the filter has held of the open tag: every prefixed attribute
  the application heard of is in `pending_attr_qnames`. With `Resolved`
  and `ScopesAgree` it gives `TagsAreLegal`: the check the filter makes in its own
  list is the one that matters in the application's scopes.
* `HeardInv` adds what the application's scopes contain: at each level the
  declarations of the attributes written there, the one being read not yet. It
  gives `ApplicationHearsDeclarations` (`HeardAsWritten`). The environment of a level
  is defined by `CHOOSE` and `Max` over the open tags, so each operation needs a lemma
  that the levels it does not touch keep theirs.
* `VerdictInv` adds that what is held of the tag is exactly its prefixed attributes
  (`Held`), that every complete open tag is legal and the unfinished one legal so
  far, and that after a refusal the tag is not (`Judged`). It gives
  `VerdictIsTheReferences` (`VerdictExact`). The filter checks when it hears; the
  reference looks at the whole tag. What joins them is that a declaration can only be
  illegal by itself, whatever follows, and that prefixes are looked up at the end
  of the tag, when all declarations have been made.
* `DriftNeedsReset` is the action property, by kinds.

These hold for every set of prefixes, names and values, every depth and number of
attributes and resets; all but the last two invariants for strict and lenient
applications alike. `ApplicationHearsDeclarations` and `VerdictIsTheReferences`
are stated under `~Lenient`: an application that answers `Ok` to an error goes on
with a tag the reference has given up. The assumptions are
those the modules name: the two reserved prefixes and their names exist
(`PrefixAssumption`, `UriAssumption`), names are pairs of a prefix and a local
part (`NamesAssumption`), values are sequences (`ValuesAssumption`), and the
types of the settings.

### The decoder

The code decides about the declaration as soon as it can, and therefore on a
beginning of it; the property compares with the declaration of the whole stream. The first half of
`Decoder_proofs` is about `ParseDeclaration` alone: on two texts, one the beginning of the
other, each step of it (a keyword, an equals sign, a literal, an attribute, the
end) either waits for more on the shorter one or gives the same on both. So a beginning that
comes to a decision decides as the whole does. The second half shows that the
decoder keeps that beginning: in `Ready`, either nothing is decided, nothing has been
passed on and `prelude` is every byte behind the mark, or the settings are those of the
whole. `FailureInv` relates what has failed with what is closed.

* `DecoderTypes`: `Spec => []TypeOK`, in which the encoding, the state, the rest and
  the byte mode go together;
* `TheDeclarationIsObeyed`: `Spec => []SettingsAreDeclared`;
* `UndecidedBytesAreKept`: as long as no encoding is known, nothing is lost or passed on;
* `NothingIsLeftOfShortPieces`: `Spec => []NoByteLeft`: at the end no open sequence is
  held; and bytes are lost only of pieces of more than seven bytes, never in byte mode,
  UTF-32 or ISO-8859-1. Each byte ends at most one character, which is at most three bytes
  long, so before the i-th of n bytes at most 3(i-1) of n + 16 are taken, and four are free
  as long as n is at most seven (`PieceRead`, by the smallest counterexample over the
  recursive function in `Decode`). That much is lost of longer pieces is finding 1 of
  section 5;
* `PanicsAreEarned`: the panic of a decoder used after its end is met only by an
  application that calls `receive` after an `Err`;
* `SettledForGood`: an action property: an encoding once fixed stays until a reset,
  and with it the mark, version, standalone and byte mode.

The assumption is `DecoderAssumption`: streams are sequences of bytes, later ones
are among them. `UndecidedKept`, `PanicIsEarned` and `SettledOnce` are theorems without a run
of their own; TLC found no violation of them over the states of `decoder`.

Only model-checked: `FedIsMeaning` and the decoder's `VerdictExact`, which compare with
the decoded and normalised text, a recursive function over the bytes.

### General entities

The functions that read a text in one go call each other in the code; in the model
they are the stack `calls`, with one action for each piece of text, so that there
is no recursion to prove about and a step is small. The two invariants all else rests on are
`Shape`, how the frames and the calls lie within each other (only the first frame is
the document, only the first call a value, calls of one kind at a time, none after a
failure), and `Distinct`, that their names differ. Three more stand side by side on them.

* `Boundaries`. `Opened(heard)` is the nesting the application sees. Until a failure, each frame's
  beginning is at the place in it that its floor says (`Nested`), there is one entry for
  each element and each entity (`Balanced`), and the last run heard of is complete
  unless `content_run_open` (`Heard`). So an end tag above the floor closes an element of
  its own entity, and the end of a text at its floor closes the entity.
* `Limited`. What was heard of is at most what was counted (`Spent`), and a value
  that is being read has paid for its first reference before it is heard. The count
  alone would not do: values answered from the cache are counted too, and heard later.
* `Faithful`. What a call has made so far is what the part of its text it has read
  gives by the entries of the cache (`CallsFaithful`); between its last two pieces lies,
  perhaps, an inner call (`Pending`). A call that has read all of its text therefore enters
  what the whole text gives. Entries are never changed once they are made (`Learns`), so
  what was given stays given, whichever reference comes later. What a text gives is a
  fold; the one thing needed of it is what one more piece adds, which is proved by
  the smallest counterexample.

* `EntityTypes`: `Spec => []TypeOK`;
* `NeverRecursive`: `Spec => []NoRecursion`, with the bound on the depth by counting
  names (the theorems on finite sets);
* `EntitiesNest`: `Spec => []BoundariesNest`;
* `ExpansionsLimited`: `Spec => []LimitKept`, for content and values, cached or not;
* `CachesTrue`: `Spec => []CachesFaithful`.

They hold for every table of entities, however the texts refer to each other, every
document, limit and setting, before and after a reset. The assumptions are `NameAssumption`
(finitely many names, none that of the document) and `DocumentsAssumption` (what
the parser is given is well-typed). `EntityTypes` is a theorem without a run of its
own; `NoRecursion` is a conjunct of `BoundariesNest` and `LimitKept` one of
`VerdictExact`, which the run `entities` checks.

Only model-checked: `ReplacedAsMeant` and the rest of `VerdictExact`, whose reference,
`EntityMeaning`, replaces references recursively. `CachesFaithful` is as near as the
proof comes to it: every entry is right by the entries it refers to.

### The DOCTYPE

The inductive invariant `CoreInv` of `Doctype_proofs` has five parts. `BuffersInv`: the
bottom buffer is the document's, which no splice changes, no two buffers are of
the same entity, and above an external one all are external. `DeclInv`: a declaration
that is being read began in the current buffer. `TablesInv`: a name is in the table or waits in
`PendingDecls`, never both. `CountInv`: the count is below the limit or the parser has
stopped. Chunk boundaries take a declaration back to its beginning, so the tables
and not the position say what has been declared. On top of it, `HeardInv`: what
was reported is in the tables with that text, and nothing was reported twice.

* `DoctypeTypes`: `Spec => []TypeOK`. Among others, the buffers are named by
  different entities, hence there are at most as many as parameter entities and two
  more: the number of names bounds a nesting of any text (by counting, with the
  theorems on finite sets);
* `TheLimitIsKept`: the length of all text put in stays within the limit, unless the
  parser has stopped;
* `TheFirstDeclarationBinds`: an action property: no step replaces or forgets what a
  name was first declared as, in either subset, in a replacement text read again, by
  a commit or at a chunk boundary;
* `DeclarationsAreReportedOnce`, `WhatIsReportedIsBound`: one report for each name, and
  what it said stays true.

The assumption is `DoctypeAssumption`: the names are finite sets, no parameter entity has
the name of one of the two subsets, and the documents are well-typed. All five are theorems without
a run of their own; TLC found no violation of them over the states of `doctype`.

Only model-checked: `DeclaredAsMeant`, `VerdictExact` and `NestingHeard`, whose reference
is recursive; `CallsReturn`, which is liveness.

### Validity

`Validity_proofs` has five invariants. `DtdInv`: of the declarations read, the first of
each element is the one in force, and all have been read before the first tag.
`ContentInv`: there is a validator for each open element; an element that is still open has been complained of exactly if
one of its texts or children so far is refused by the declaration its validator
holds (`RefusedSoFar`), and the element that ended last exactly if its content is not allowed.
`IdsInv`: the declared IDs are those before the tag together with those of its
attributes so far, and a duplicate is complained of exactly at the attribute that
repeats one; while the document is open, the references are all those written.
`HeardInv`: there is a mark, a number of attributes of the list being read, up to which
what has been heard, and what each element's list of attributes holds, are just the
places that count, in order. The mark is not `defsRead`: a list that is scanned
again goes back to its first definition while the mark stays, and what stands before the mark
is known to the scanner, so nothing is heard a second time; without the mark the
invariant would not be inductive. `TagInv`: each attribute of the tag is heard by the
place that counts for it; a complete tag has the places it leaves to their defaults, in
order; in a standalone document each of these that lies outside, and each written
attribute whose normalisation comes from outside, has been complained of.

* `ContentIsJudged`: `Spec => []ContentJudged`;
* `IdentitiesAreJudged`: `Spec => []IdentitiesJudged`;
* `DeclarationsAreHeardOnce`: `Spec => []DeclarationsHeardOnce`, however often a list is
  scanned again;
* `AttributesAreHeard`: `Spec => []AttributesHeard`: the lists hold all that counts once
  the prolog has ended, and the defaults are taken from them in their order
  (`GoesLists`, a recursive function along a list, by its smallest counterexample);
* `StandaloneIsKept`: `Spec => []StandaloneKept`: under `InsideFirst` the places that
  count inside are those that count and are inside (`InsideIs`), so a value can only
  differ by one that was complained of.

They hold for every prolog, document and depth, and for every matcher: `Matches` is a
constant operator, of which nothing is assumed. The theorems say that each
element is judged once, by the right declaration, on all its children in order;
that the matcher accepts the model's language is the question of `content_models`.
The assumptions are `DoctypesAssumption` (well-formed prologs) and `TokensAssumption`
(the values of one token are among those of several).

No property of `validity` is only model-checked.

### The writer

A call is an operator from writer to writer that is built from writes and changes of
flags and stacks. `Writer_proofs` says with `Output(u, v)` what such a chain may do to
the output: `v` continues `u`, and if the byte order mark was pending and is not any
more, the mark is the first thing that was added. `Output` is transitive, so a call is
proved link by link. Two loops over a text are a flattened sequence and a
recursive function; what is needed of them is proved by their smallest counterexample
(`WellFoundedInduction`). The invariant `Inv` is: `Good`, by which there is a scope for each
element and one more, a pending start tag has an element and no content, a mark is pending only
at the start of the document outside elements; and `Matching`, by which the
declarations written and the bindings recorded agree at *every* depth, since an
end tag uncovers the outer ones.

* `WriterTypes`: `Spec => []TypeOK`;
* `WhatIsBoundIsWritten`: `Spec => []BindingsWritten`: what is left out as redundant
  is not missed;
* `TheMarkComesFirst`: `Spec => []BeginsWithBom`, whichever call writes first. In `Spec`
  characters are written within elements: `write_characters` as the first call
  passes the mark by (section 5);
* `WhatIsWrittenStays`: `Spec => NothingTakenBack` under the premise
  `"cut" \notin Outcomes`, that is of a sink that takes the whole buffer or
  nothing of it. Without the premise it is false: the buffer is sent again as a whole
  (section 5).

`Spec` lets the application make any call at any time with any texts; the runs restrict
it to the calls of one theme that make a document (`MCNext`), since what a reader finds
in anything else is not defined. The assumption is `ConstantsAssumption`. `TypeOK`,
`BeginsWithBom` and `NothingTakenBack` are theorems without a run of their own; TLC found
no violation of them over the states of `writer`.

Only model-checked: `ReadBack`, `NamesAsAsked` and `TextLeftAlone`, which compare with
what a reader, a recursive function over the output, finds.

### What is not proved

The content models (`ContentModelMatcher`) are model-checked only. They, `ContentLanguage`,
`EntityMeaning` and `DoctypeMeaning` use RECURSIVE operators, and TLAPS has no arithmetic
in modules that reach one. Comparisons with a recursive reference, in all parts, would need
induction over data. `CallsReturn` is liveness. These stay with TLC.

## 5. What the checks found

Two runs end in a violation, and are the entries of `findings`.

1. `finding_output_full`: `feed_content` reserves as many bytes as the chunk has and 16,
   calls `decode_to_string`, which never grows the `String`, and discards its result and
   the number of bytes it read. Of a chunk whose text is longer in UTF-8 than that (17
   Cyrillic letters of KOI8-R, 17 Han characters of UTF-16) the rest is lost without an
   error, malformed bytes in it included, and the end of the document is reported. The
   comment there says that a chunk is decoded in one shot. `FedIsMeaning` and
   `VerdictExact` are about streams of which nothing was lost so; `NoByteLeft` bounds the
   loss.
2. `finding_skip_cut`: with `DoctypeHandling::Skip`, `scan_doctype` begins on the
   path that skips, but `scan` resumes an unfinished subset with
   `scan_doctype_subset`, whatever the setting. A DOCTYPE cut inside a declaration is
   refused; one cut between declarations has the rest processed. The comment at
   `skip_declaration_body` promises the resumption.

The rest of this section lists what the model does because the code does it, and
what the properties therefore leave out by name.

**Scanner.** A run of characters is not completed by `end = true` when a chunk
begins with the markup after it (`<a>a` then `<b/></a>`): `scan` goes straight to
the markup. For the same reason `<a>]]` then `<b/>></a>` is refused: the count of
brackets survives the tag. `close` does not ask `in_comment`, `in_pi`, `in_cdata`
nor whether input is left, so it accepts `<a/><!-- b`. After `<a></b>` has failed,
`close` reports `end_document`: the element was popped before the names were
compared. White space that is missing in `<?b??>`, and in UTF-8 between attributes
whose name begins outside ASCII, is not missed.

**Namespaces.** `xmlns:p:q='u'` declares a prefix with a colon. A parser reset
inside an element leaves the scopes of its open elements to the next document. In
`<a p:b='' xmlns:p='u'>` the application hears of the attribute before it hears of
the prefix, though `docs/namespaces.html` says that `namespace` fires before
attributes. When the application answers `Ok` to `fatal_error`, a tag with an
unbound prefix never gets its `end_attributes`. After a document of XML 1.1 and a
reset, a document without a declaration may unbind a prefix: nothing clears
`xml11`, which is why `VerdictExact` is about documents read by their own version.

**Decoder.** A mark FF FE with a declaration of UTF-16BE is compared without the
byte order and then decoded by the declared one. In XML 1.1 CR NEL gives two line
ends where the standard says one. The label `UTF-32` with a mark of UTF-32 is
refused. `scanner.xml11` survives a reset when the next document has no
declaration. A chunk that fills its output loses its rest (finding 1); a UTF-16 engine
then goes on with the next chunk from its first byte. Errors are not latched; a `receive` after a failed `close`, in an
encoding decoded by the library, panics (an outcome of the model).

**Entities.** `]]` before a boundary and `>` behind it is refused. `&#` in a
replacement text that comes into an attribute value is refused. `start_entity` and
`end_entity` are not reported for references inside a flattened text, and are
reported for an external entity that is switched off, where `docs/handler.html`
says `skipped_entity`. The limit counts checks, not occurrences: the references in a cached text count
at its first use only, and those of a text that turns out not to be flat count
once while it is flattened and again when it is scanned, although the comment at
`flatten_content_entity_cached` says exactly once. An undeclared entity in such a text
is complained of as often; in an attribute value it is complained of once, and not when the
value comes from the cache.

**DOCTYPE.** A parameter entity that is not declared is fatal, also where the
standard has a validity constraint. A reference in an ENTITY declaration outside
its literal is refused. A reference made of `&#37;` in text included in a literal
is not read. `last_splice_end` is compared with positions of another buffer
(`strange`). Sections are not asked to begin and end in one entity, and are
allowed in the text of internal parameter entities. A splice has no recursion check: only the
limit ends it. With external parameter entities switched off, a reference is
empty and later declarations are still processed. Enumerations, NOTATION and
ENTITY declarations take no references.

**Content models.** `match_sequence` and `match_choice` keep no alternative:
`(a,b)*` accepts `a,b,a`; `(a|b?)` refuses no children; models that are not
deterministic may be judged either way. `MatchesLanguage` leaves out these by name.

**Validity.** An empty CDATA section in an EMPTY element is not reported. A value
that an external declaration would have normalised is complained of under
`standalone` also when it did not change. Defaults are not collapsed by their
type, nor checked as IDREF or ENTITY. `ENTITIES` with no name is let through.
Duplicates in a choice are reported although validation is off. An error is
reported again when the scan backs up over it. An attribute that a parameter entity
declares outside as CDATA, before the document declares it with another type, is not
normalised, and `standalone` is not complained of: `StandaloneKept` leaves this case
out by name (`InsideFirst`).

**Writer.** A processing instruction between declarations is written without
opening the internal subset, and in an external subset that is skipped. `]]>`
split over two calls of `write_characters` is not found. Characters the charset
has no code for disappear from names, comments, CDATA sections and instructions.
In 1.1 U+007F is not escaped; in 1.0 CR is written as it is. System identifiers
have `"` as `&quot;`, entity values have `&` as `&amp;`. Tabs and line ends in a
namespace name are not escaped. Characters as the first call pass the byte order
mark by. `get_prefix` does not see that a prefix is shadowed: with `p` bound to `u1` outside and
to `u2` inside, `get_prefix(u1)` answers `p`, and `write_start_element_ns(u1, ...)` writes
a name that is read with `u2`, though the comment at `get_prefix` says that it returns the
prefix bound to the name. `NamesAsAsked` is about calls that look up no shadowed prefix.
`get_prefix` may also answer the empty prefix for an attribute, and goes through each
scope in the order of a HashMap. A sink that fails after it took a part gets that part again. When the
sink refuses, the call has done its work all the same. Duplicate attributes,
a prefix declared twice in a tag, and content after the root are the caller's.
With indentation, markup after text in mixed content is put on a new line;
`TextLeftAlone` is about elements that hold only text.

## 6. What is not modelled

In the scanner: XML 1.1 (other character classes, the same control), an `Err` from
a handler method other than `fatal_error`, `save_buffers` (a hint about storage: it
comes at the end of each `receive` that succeeds and changes nothing), locations
and messages. Attribute defaults, normalisation and `ignorable` are in `Validity`,
declared entities in `Entities`, and not composed with chunks inside tokens there:
one action of these modules is one whole construct.

In the namespace filter: the recoverable errors of `validate_namespace_uri` (the
URI is accepted all the same), `namespace` called from upstream (always refused),
an `Err` of the application from a method other than `fatal_error`, the events it
only passes on, and `set_xmlns_uris`, whose flag the code stores and never reads.
The tracker's buffer of texts is abstracted to the list of bindings. The filter
never calls the tracker's `reset`; the action is part of `TrackerSpec` only.

In the decoder: the tables of the library's encodings, and where exactly the library stops
when less than its longest character is free (the model stops before the next byte). One
chunk after a close that failed is enough for the runs.

In entities and the DOCTYPE: fetching, schemes and base URIs of resources (the
resolver is the application's), the text declaration of a resource (it is the
decoder's), notation declarations, processing instructions and comments in the
subset, public identifiers, splices inside attribute lists and content models with
the check of balanced parentheses. The byte twins of these functions are the same
actions, and the map names the character twin. With the limit switched off, a splice that brings
itself back never ends; no document of the run has both, since TLC could not
finish either.

In validity: the declarations of notations and entities are given with the prolog.

In the writer: the getters, the width and character of an indentation step.

Not at all: the feature record, the name pool, the locator, the benchmarks and
scripts. They decide nothing another part reads.

## 7. Plan

| | What | State |
|---|---|---|
| 1 | `Scanner` over `HandlerContract`, against `XmlReference` | checked; proved but for the comparison with the meaning |
| 2 | `NamespaceScopeTracker`, `NamespaceFilter` | checked and proved |
| 3 | `Entities` against `EntityMeaning` | checked; nesting, recursion, limit and caches proved; left: the comparison with the meaning |
| 4 | `Decoder` | checked; proved but for the comparison with the decoded text |
| 5 | `ParserSession`: the calls of `Parser` over decoder, scanner and filter in one module | the scanner and the decoder each have the calls of `Parser`; the composition of all three is left |
| 6 | `ContentModelMatcher` against `ContentLanguage`, `Validity` | checked; all properties of `Validity` proved; left: the matcher, whose operators are recursive |
| 7 | `Doctype` against `DoctypeMeaning` | checked; tables, reports and limit proved; to prove: that skipping declares and reports nothing, and that what is read after a splice belongs to it |
| 8 | `Writer` against `WrittenDocument` | checked; scopes, mark and sink proved; to prove: that elements are ended in the order they were started, with one end tag each |

The order is that of the importance of the behaviour: every document passes
through the decoder, the scanner and the namespace filter; entities carry the
resource limits; the rest is behind a setting or on another path.
