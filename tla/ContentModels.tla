---------------------------- MODULE ContentModels ----------------------------
(***************************************************************************)
(* Element declarations and the rules a ContentModelValidator holds the    *)
(* content of an element to (dtd.rs), apart from the matching of a content *)
(* model, which is the parameter Matches: ContentModelMatcher defines the  *)
(* matcher of the code.                                                    *)
(*                                                                         *)
(* A content model is a tree of nodes: a name, or a sequence or choice of  *)
(* members, each with an occurrence indicator.  The #PCDATA node of mixed  *)
(* content is left out: no rule looks at it.                               *)
(***************************************************************************)
EXTENDS Integers, Sequences

CONSTANTS
    Matches(_, _),  \* does a content model match a sequence of children?
    NoModel         \* the content model of EMPTY and ANY

Occurrences == {"once", "optional", "zeroOrMore", "oneOrMore"}

Required(model) == model.occurs \in {"once", "oneOrMore"}
Repeats(model) == model.occurs \in {"zeroOrMore", "oneOrMore"}

Leaf(name, occurs) ==
    [type |-> "element", name |-> name, occurs |-> occurs, members |-> << >>]

Group(type, members, occurs) ==
    [type |-> type, name |-> "", occurs |-> occurs, members |-> members]

ContentTypes == {"empty", "any", "mixed", "element"}

(***************************************************************************)
(* The three judgements, each made at its own moment: on a piece of text,  *)
(* on a child as it starts, and on all children when the element ends.     *)
(***************************************************************************)
TextRefused(decl, isWhitespace) ==
    /\ ~isWhitespace
    /\ decl.content \in {"empty", "element"}

ChildRefused(decl, child) ==
    \/ decl.content = "empty"
    \/ /\ decl.content = "mixed"
       /\ decl.model # NoModel
       /\ \A i \in DOMAIN decl.model.members :
             decl.model.members[i].name # child

ContentRefused(decl, children) ==
    /\ decl.content = "element"
    /\ IF decl.model = NoModel
       THEN children # << >>
       ELSE ~Matches(decl.model, children)
===============================================================================
