------------------------------ MODULE MCValidity ------------------------------
(***************************************************************************)
(* Validity over a few prologs, each made for an interplay: content of     *)
(* every kind in elements of every content type; IDs and references in any *)
(* order; types, defaults and second declarations of attributes, declared  *)
(* inside and outside a standalone document; and no prolog at all.         *)
(***************************************************************************)
EXTENDS Validity, ContentModelMatcher, ContentLanguage

Names == {"n", "m", "p:n", "default"}
MCNmtokens == Names \cup {"1"}
MCColonTokens == {"p:n"}
MCSpaceTokens == {"default", "preserve"}

V(tokens) == [tokens |-> tokens, spaced |-> FALSE]
Wide(tokens) == [tokens |-> tokens, spaced |-> TRUE]

Element(name, content, model, external) ==
    [kind |-> "element", name |-> name, content |-> content, model |-> model,
     external |-> external]
Attlist(element, defs) == [kind |-> "attlist", element |-> element, defs |-> defs]
Def(name, type, mode, default, values, external) ==
    [name |-> name, type |-> type, mode |-> mode, default |-> default,
     values |-> values, external |-> external]

Prolog(declarations, tags, attributes, content, bounds) ==
    [validating |-> TRUE, standalone |-> FALSE, root |-> "r",
     declarations |-> declarations, unparsed |-> << >>, notations |-> {},
     tags |-> tags, attributes |-> attributes, content |-> content,
     maxDepth |-> bounds[1], maxChildren |-> bounds[2], maxPieces |-> bounds[3],
     maxAttributes |-> bounds[4]]

\* r (a?, b*), a EMPTY, b mixed with a; r is declared again, and x is not.
ContentProlog ==
    Prolog(<<Element("r", "element",
                     Group("sequence", <<Leaf("a", "optional"), Leaf("b", "zeroOrMore")>>,
                           "once"), FALSE),
             Element("a", "empty", NoModel, FALSE),
             Element("b", "mixed", Group("choice", <<Leaf("a", "once")>>, "zeroOrMore"), FALSE),
             Element("r", "any", NoModel, TRUE)>>,
           {"r", "a", "b"}, {},
           {"white", "text", "charref", "cdata", "emptyCData", "markup", "reference"},
           <<2, 1, 2, 0>>)

\* The same with more children and less content, and deeper.
ChildrenProlog ==
    [ContentProlog EXCEPT !.tags = @ \cup {"x"}, !.maxChildren = 2, !.maxPieces = 1]
DeepProlog ==
    [ContentProlog EXCEPT !.content = {"text"}, !.maxDepth = 3, !.maxChildren = 2,
                          !.maxPieces = 1]

\* Every e has an ID and may refer to others, before or after it.
IdentityProlog ==
    Prolog(<<Element("r", "any", NoModel, FALSE), Element("e", "any", NoModel, FALSE),
             Attlist("e", <<Def("i", "ID", "implied", NoDefault, {}, FALSE),
                            Def("f", "IDREF", "implied", NoDefault, {}, FALSE),
                            Def("g", "IDREFS", "implied", NoDefault, {}, FALSE)>>)>>,
           {"r", "e"},
           {<<"i", V(<<"n">>)>>, <<"i", Wide(<<"m">>)>>, <<"f", V(<<"m">>)>>,
            <<"g", Wide(<<"n", "m">>)>>}, {}, <<2, 2, 0, 2>>)

\* Attributes of e: k and o are declared twice, s and d outside the document.
TypesProlog ==
    Prolog(<<Element("r", "any", NoModel, FALSE),
             Attlist("e", <<Def("k", "NMTOKEN", "fixed", V(<<"1">>), {}, FALSE),
                            Def("c", "CDATA", "required", NoDefault, {}, FALSE)>>),
             Attlist("e", <<Def("k", "CDATA", "none", V(<<"m">>), {}, FALSE),
                            Def("o", "ENUMERATION", "none", V(<<"n">>), {"n", "m"}, FALSE)>>),
             Attlist("e", <<Def("o", "CDATA", "implied", NoDefault, {}, TRUE),
                            Def("d", "CDATA", "none", V(<<"m">>), {}, TRUE),
                            Def("s", "NMTOKENS", "implied", NoDefault, {}, TRUE)>>),
             Element("e", "element", Group("sequence", <<Leaf("e", "optional")>>, "once"), TRUE)>>,
           {"r", "e"},
           {<<"k", Wide(<<"1">>)>>, <<"c", Wide(<<"n">>)>>, <<"o", Wide(<<"m">>)>>,
            <<"d", V(<<"n">>)>>, <<"s", Wide(<<"n", "1">>)>>, <<"u", Wide(<<"n">>)>>,
            <<"xml:space", V(<<"n">>)>>},
           {"white"}, <<2, 1, 1, 3>>)

\* Unparsed entities and notations, and declarations that are errors.
EntitiesProlog ==
    [Prolog(<<Element("r", "any", NoModel, FALSE),
              Attlist("r", <<Def("y", "ENTITY", "implied", NoDefault, {}, FALSE),
                             Def("z", "ENTITIES", "none", V(<<"n", "n">>), {}, FALSE),
                             Def("t", "NOTATION", "implied", NoDefault, {"jpeg", "gif"}, FALSE),
                             Def("i", "ID", "none", V(<<"n">>), {}, FALSE),
                             Def("j", "ID", "implied", NoDefault, {}, FALSE),
                             Def("b", "NMTOKEN", "none", Wide(<<"n">>), {}, FALSE)>>)>>,
            {"r"},
            {<<"y", V(<<"n">>)>>, <<"y", V(<<"m">>)>>, <<"z", V(<<"n", "m">>)>>,
             <<"t", V(<<"gif">>)>>, <<"t", V(<<"n">>)>>, <<"j", V(<<"p:n">>)>>,
             <<"i", V(<<"p:n">>)>>}, {},
            <<1, 0, 0, 3>>)
     EXCEPT !.unparsed = "n" :> "jpeg", !.notations = {"gif"}]

\* An attribute that a parameter entity declares outside the document before it
\* is declared inside, and one declared twice at once.
RepeatProlog ==
    [Prolog(<<Attlist("r", <<Def("k", "CDATA", "implied", NoDefault, {}, TRUE)>>),
              Attlist("r", <<Def("k", "NMTOKEN", "none", V(<<"m">>), {}, FALSE),
                             Def("c", "CDATA", "none", V(<<"m">>), {}, FALSE),
                             Def("c", "NMTOKEN", "fixed", V(<<"n">>), {}, FALSE)>>)>>,
            {"r"}, {<<"k", Wide(<<"n">>)>>, <<"c", Wide(<<"n">>)>>}, {}, <<1, 0, 0, 2>>)
     EXCEPT !.standalone = TRUE]

MCDoctypes ==
    {ContentProlog, ChildrenProlog, DeepProlog, IdentityProlog, TypesProlog, EntitiesProlog,
     RepeatProlog,
     [TypesProlog EXCEPT !.standalone = TRUE],
     [TypesProlog EXCEPT !.validating = FALSE, !.maxAttributes = 2],
     [ContentProlog EXCEPT !.declarations = << >>, !.root = NoDoctype,
                           !.content = {"white", "text"}, !.tags = {"r", "x"}]}

\* Where the code matches children against a model, the properties of this run
\* mean the language of the model: it is the same for all children that occur.
ASSUME MatchesLanguageHere ==
    \A d \in MCDoctypes : \A i \in DOMAIN d.declarations :
        LET declaration == d.declarations[i]
        IN  declaration.kind = "element" /\ declaration.content = "element" =>
                \A children \in BoundedSeq(d.tags, d.maxChildren) :
                    MatchContent(declaration.model, children)
                        = (children \in Language(declaration.model, Len(children)))
===============================================================================
