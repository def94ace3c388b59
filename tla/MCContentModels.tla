--------------------------- MODULE MCContentModels ---------------------------
(***************************************************************************)
(* Every content model of two levels over a small alphabet, and every      *)
(* sequence of children up to a bound, through the calls the scanner makes *)
(* of a ContentModelValidator: children as they start, and the judgement   *)
(* at the end of the element.                                              *)
(***************************************************************************)
EXTENDS ContentModelMatcher, ContentLanguage

CONSTANTS
    Names,        \* names of children
    MaxChildren   \* bound on the children of the element

Leaves == {Leaf(n, o) : n \in Names, o \in Occurrences}

Pairs(first, second) ==
    {Group(t, <<m, n>>, o) : t \in {"sequence", "choice"}, o \in Occurrences,
                             m \in first, n \in second}
Singles(members) == {Group("sequence", <<m>>, o) : m \in members, o \in Occurrences}

\* Models of one level over all leaves, and of two over a selection of them.
Selected == {Leaf("a", "once"), Leaf("b", "once"), Leaf("b", "optional"),
             Leaf("a", "zeroOrMore")}
Inner == Pairs(Selected, Selected)
Models == Pairs(Leaves, Leaves) \cup Singles(Leaves \cup Inner)
             \cup Pairs(Inner, Selected) \cup Pairs(Selected, Inner)

RECURSIVE SomeNode(_, _)
SomeNode(Holds(_), model) ==
    \/ Holds(model)
    \/ \E i \in DOMAIN model.members : SomeNode(Holds, model.members[i])

\* A sequence of several members that repeats: its last round may be partial.
HasRepeatedSequence(model) ==
    SomeNode(LAMBDA node : /\ node.type = "sequence"
                           /\ Repeats(node)
                           /\ Len(node.members) > 1, model)

\* A choice that must be taken, one of whose members needs no child: the code
\* does not count such a member as taken.
HasEmptyChoice(model) ==
    SomeNode(LAMBDA node : /\ node.type = "choice"
                           /\ Required(node)
                           /\ Nullable(node), model)

VARIABLES
    decl,      \* the declaration of the element
    children,  \* its children so far
    refused,   \* an error was reported for it
    ended,     \* its end was reached
    meaning    \* what its model means, as the reference has it
vars == <<decl, children, refused, ended, meaning>>

Init ==
    /\ \E m \in Models :
          /\ decl = [content |-> "element", model |-> m]
          /\ meaning = [words |-> Language(m, MaxChildren),
                        deterministic |-> Deterministic(m),
                        repeatedSequence |-> HasRepeatedSequence(m),
                        emptyChoice |-> HasEmptyChoice(m)]
    /\ children = << >>
    /\ refused = FALSE
    /\ ended = FALSE

AddChildElement(name) ==
    /\ ~ended
    /\ Len(children) < MaxChildren
    /\ children' = Append(children, name)
    /\ refused' = (refused \/ ChildRefused(decl, name))
    /\ UNCHANGED <<decl, ended, meaning>>

Validate ==
    /\ ~ended
    /\ refused' = (refused \/ ContentRefused(decl, children))
    /\ ended' = TRUE
    /\ UNCHANGED <<decl, children, meaning>>

Next == (\E n \in Names : AddChildElement(n)) \/ Validate
Spec == Init /\ [][Next]_vars

-------------------------------------------------------------------------------

\* The validator accepts the content the model allows.  Greedy matching without
\* alternatives accepts nothing else, whatever the model, unless a sequence of
\* several members repeats; and it refuses nothing of a deterministic model, in
\* which the first child decides every choice, but for the choices that may be
\* left without a child.
MatchesLanguage ==
    ended =>
        /\ ~refused /\ ~meaning.repeatedSequence => children \in meaning.words
        /\ refused /\ meaning.deterministic /\ ~meaning.emptyChoice
             => children \notin meaning.words
===============================================================================
