------------------------------ MODULE MCDoctype ------------------------------
(***************************************************************************)
(* Doctype over two parameter entities with every small replacement text   *)
(* for each, referred to wherever a reference may be, and what is declared *)
(* compared with what the document means.                                  *)
(***************************************************************************)
EXTENDS DoctypeMeaning

VARIABLE meaning

Names  == {"a", "b"}
Params == {"p", "q"}

P == Of("%", "p")
Q == Of("%", "q")
X == T("x")
End == T(">")
Quote == Of("quote", "'")
Inner == Of("quote", "''")

EntityDecl(n, quote, text) == <<Of("<!ENTITY", n), quote>> \o text \o <<quote, End>>
ElementDecl(spec)          == <<T("<!ELEMENT")>> \o spec \o <<End>>
SectionOf(word, text)      == <<T("<![")>> \o word \o <<T("[")>> \o text \o <<T("]]>")>>
A     == Of("name", "a")
B     == Of("name", "b")
EMPTY == T("EMPTY")
INCLUDE == T("INCLUDE")
IGNORE  == T("IGNORE")

\* For p.  References in them are read where p is referred to.
Between_ ==
    { << >>, EntityDecl("a", Inner, <<X>>), ElementDecl(<<A, EMPTY>>), <<Q>>, <<T("comment")>>,
      SectionOf(<<INCLUDE>>, ElementDecl(<<A, EMPTY>>)),
      SectionOf(<<IGNORE>>, <<T("<!["), X, T("]]>")>>), <<T("<!ELEMENT"), A>>, <<P>>,
      EntityDecl("a", Inner, <<Q>>), SectionOf(<<Q>>, ElementDecl(<<B, EMPTY>>)), <<T("]]>")>>,
      <<Of("<!ENTITY %", "q"), Inner, X, X, Inner, End>>, ElementDecl(<<A, Q>>) }

Within_ ==
    { <<EMPTY>>, <<A, EMPTY>>, <<EMPTY, End>>, <<A>>, <<INCLUDE>>, <<IGNORE>>,
      <<INCLUDE, T("[")>>, <<EMPTY, Q>>, <<Q, End>>, <<EMPTY, End, T("<!ELEMENT"), B, EMPTY>>,
      <<INCLUDE, T("["), T("]]>")>>, <<X>> }

Seconds ==
    { << >>, <<X>>, <<EMPTY>>, <<INCLUDE>>, <<IGNORE>>, <<End>>, <<T("comment")>>,
      EntityDecl("a", Inner, <<X, X>>), <<P>> }

\* Where they are referred to.
Uses ==
    { <<P>>, <<P, Q>>, EntityDecl("a", Quote, <<X>>) \o <<P>>, ElementDecl(<<A, P>>),
      ElementDecl(<<P>>), SectionOf(<<P>>, ElementDecl(<<A, EMPTY>>)),
      EntityDecl("a", Quote, <<P, X>>), <<T("<!["), P>> \o ElementDecl(<<B, EMPTY>>) \o <<T("]]>")>>,
      ElementDecl(<<A, P>>) \o SectionOf(<<Q>>, << >>),
      SectionOf(<<INCLUDE>>, <<P>> \o ElementDecl(<<A, Q>>)),
      <<Of("<!ENTITY", "a"), T("SYSTEM"), End>> \o <<P, P>>,
      <<Of("<!ENTITY", "b"), T("SYSTEM"), T("NDATA"), End>> \o <<P>>,
      SectionOf(<<IGNORE>>, <<P, Inner>>) \o <<P>>, <<T("<!ELEMENT"), A, P>>,
      SectionOf(<<INCLUDE>>, <<P>>), <<T("<!["), P>>, <<Of("<!ENTITY", "a"), P, End>> }

\* In the literal of a declaration a reference is put off by &#37;.
PutOff(text) == [i \in DOMAIN text |-> IF text[i].is = "%" THEN Of("&#37;", text[i].of) ELSE text[i]]

Declares_(p, text) == <<Of("<!ENTITY %", p), Quote>> \o PutOff(text) \o <<Quote, End>>
DeclaresFar(p)     == <<Of("<!ENTITY %", p), T("SYSTEM"), End>>

Subset(text) == <<T("<!DOCTYPE"), T("[")>> \o text \o <<T("]"), End, T("root")>>
Plain        == <<T("<!DOCTYPE"), End, T("root")>>
File(dtd, p, q) == [f \in {"[dtd]", "p", "q"} |-> CASE f = "p" -> p [] f = "q" -> q [] OTHER -> dtd]

Doc(text, far, file, handling, external, limit, pieces) ==
    [text |-> text, far |-> far, file |-> file, handling |-> handling, external |-> external,
     limit |-> limit, pieces |-> pieces]
NoFile == File(<< >>, << >>, << >>)

\* All in the internal subset, in two chunks.
InternalDocs ==
    {Doc(Subset(Declares_("p", p) \o Declares_("q", q) \o use), FALSE, NoFile, "process", FALSE, 0, 2) :
        p \in Between_ \cup {<<EMPTY>>, <<INCLUDE>>}, q \in {<< >>, <<X>>, <<INCLUDE>>, <<P>>,
              EntityDecl("a", Inner, <<X, X>>)},
        use \in {<<P>>, <<P, Q>>, EntityDecl("a", Quote, <<X>>) \o <<P>>, ElementDecl(<<A, P>>),
                 EntityDecl("a", Quote, <<P>>), SectionOf(<<INCLUDE>>, << >>),
                 <<Of("<!ENTITY", "b"), T("SYSTEM"), T("NDATA"), End>> \o <<P>>}}

\* Declared in the internal subset, referred to in the external one.
ExternalDocs ==
    {Doc(Subset(Declares_("p", p) \o Declares_("q", q)), TRUE, File(use, << >>, << >>),
         "process", TRUE, 20, 1) :
        p \in Between_ \cup Within_, q \in Seconds, use \in Uses}

\* Everything in the external subset, what is declared there too.
FarDocs ==
    {Doc(Plain, TRUE, File(Declares_("p", p) \o DeclaresFar("q") \o use, << >>, q),
         "process", TRUE, 20, 1) :
        p \in Between_ \cup Within_, q \in Seconds, use \in Uses}

\* A reference to what is not declared.
UndeclaredDocs ==
    {Doc(Subset(Declares_("p", p) \o use), TRUE, File(use, << >>, << >>), "process", TRUE, 20, 1) :
        p \in Between_ \cup Within_, use \in {<<P>>, <<Q>>, ElementDecl(<<A, P>>), EntityDecl("a", Quote, <<P, Q>>)}}

\* The text of p is in a file of its own, which is read or not.
FileDocs ==
    {Doc(Subset(DeclaresFar("p") \o Declares_("q", q) \o use), far, File(ElementDecl(<<B, EMPTY>>), p, << >>),
         "process", external, 20, 1) :
        p \in Between_, q \in {<<X>>, <<EMPTY>>, <<INCLUDE>>, <<P>>},
        use \in {<<P>>, <<P, Q>>, EntityDecl("a", Quote, <<X>>) \o <<P>>, ElementDecl(<<A, P>>)},
        far \in BOOLEAN, external \in BOOLEAN}

\* What a reference counts for.
LimitDocs ==
    {Doc(Subset(Declares_("p", p) \o Declares_("q", q)), TRUE, File(use, << >>, << >>),
         "process", TRUE, limit, 1) :
        p \in {<<Q>>, <<Q, Q>>, <<EMPTY, Q>>, << >>, <<EMPTY>>},
        q \in {<< >>, <<T("comment"), T("comment")>>, <<P>>, <<Q>>},
        use \in {<<P, P>>, ElementDecl(<<A, P>>), EntityDecl("a", Quote, <<Q, Q>>)},
        limit \in 1 .. 7}

\* A DOCTYPE that is not processed, and documents with none or with two.
Bodies ==
    { EntityDecl("a", Quote, <<X, End, T("]")>>) \o <<P>>, ElementDecl(<<A, EMPTY>>) \o <<T("comment")>>,
      <<T("comment"), X>>, EntityDecl("a", Quote, <<Inner>>) \o ElementDecl(<<P>>), << >> }
OtherDocs(pieces) ==
    {Doc(Subset(body), far, File(ElementDecl(<<A, EMPTY>>), << >>, << >>), "skip", TRUE, 0, pieces) :
        body \in Bodies, far \in BOOLEAN}

MoreDocs ==
    {Doc(text, FALSE, NoFile, handling, FALSE, 0, 3) :
        text \in {Plain, <<T("root")>>, <<T("comment"), T("root"), T("comment")>>,
                  Front(Plain) \o Plain, <<T("root")>> \o Front(Plain), Front(Plain),
                  <<T("<!DOCTYPE"), T("root")>>,
                  Front(Subset(<<T("comment")>>)), Subset(<<T("]")>>), <<T("root"), T("root")>>,
                  Subset(EntityDecl("a", Quote, <<X>>) \o <<T("comment")>> \o ElementDecl(<<A, EMPTY>>))},
        handling \in {"process", "disallow"}}

MCDocuments ==
    <<InternalDocs, ExternalDocs, FarDocs, UndeclaredDocs, FileDocs, LimitDocs, OtherDocs(1), MoreDocs>>
SkippedDocuments == <<OtherDocs(2)>>

\* Of the meaning, what is asked below.
Asked(m) ==
    [legal |-> m.legal, odd |-> m.odd, strange |-> m.strange, broken |-> m.broken, size |-> m.size,
     events |-> m.events, unparsed |-> m.unparsed, general |-> m.general, param |-> m.param,
     elements |-> m.elements, saw |-> m.saw]

MCInit == Init /\ meaning = Asked(Meaning(doc))
MCNext == Next /\ UNCHANGED meaning
MCSpec == MCInit /\ [][MCNext]_<<vars, meaning>> /\ WF_vars(Scan)
-----------------------------------------------------------------------------
IsDeclaration(event) == event[1] \notin {"nesting", "unparsed"}
Told == SelectSeq(heard, IsDeclaration)

\* What is declared, and reported, is what the document declares: the first
\* declaration of each name, whichever subset or parameter entity it comes from
\* and wherever the chunks were cut.
DeclaredAsMeant ==
    ~meaning.odd =>
        IF phase # "done" THEN failed = "none" => IsPrefix(Told, meaning.events)
        ELSE /\ Told = meaning.events
             /\ {event[2] : event \in {e \in ToSet(heard) : e[1] = "unparsed"}} = meaning.unparsed
             /\ general = meaning.general /\ param = meaning.param
             /\ elements = meaning.elements /\ saw_reference = meaning.saw

\* A document is refused exactly if its declarations are not well-formed, or
\* if the text that takes the place of references passes the limit: the limit
\* counts all of it, and does not refuse what keeps to it.
VerdictExact ==
    /\ phase = "done" /\ ~meaning.odd => meaning.legal /\ expansion_count = meaning.size
    /\ failed = "refused" /\ ~meaning.odd => ~meaning.legal
    /\ failed = "limit" /\ ~meaning.odd => (meaning.size > doc.limit \/ ~meaning.legal)
    /\ doc.limit > 0 /\ failed # "limit" => expansion_count <= doc.limit

\* The validity error of a parameter entity that does not contain the whole of
\* a declaration or of a section's delimiters.
NestingHeard ==
    phase = "done" /\ ~meaning.odd /\ ~meaning.strange =>
        (meaning.broken = (<<"nesting">> \in ToSet(heard)))

\* Every call of receive returns.
CallsReturn == calling ~> (~calling \/ failed # "none")

\* "Resumable across `receive()` calls" (scanner.rs, of skip_declaration_body):
\* a DOCTYPE that is skipped is not refused for where the chunks were cut.
SkippingIsResumed == meaning.legal => failed # "refused"
=============================================================================
