--------------------------- MODULE ContentLanguage ---------------------------
(***************************************************************************)
(* What a content model means (XML 1.0, sections 3.2.1 and 3.2.2): the set *)
(* of sequences of children it allows, here those of bounded length, and   *)
(* whether it is deterministic (Appendix E).  Definitions for the checks,  *)
(* independent of the matcher of the code.                                 *)
(***************************************************************************)
EXTENDS ContentModels, SequencesExt

RECURSIVE Language(_, _), Star(_, _, _)

Upto(words, bound) == {w \in words : Len(w) <= bound}

Concatenated(first, second, bound) ==
    Upto({u \o v : u \in first, v \in second}, bound)

\* All concatenations of words of the set, from those found so far.
Star(words, found, bound) ==
    LET more == found \cup Concatenated(found, words, bound)
    IN  IF more = found THEN found ELSE Star(words, more, bound)

Occurring(words, occurs, bound) ==
    CASE occurs = "once" -> words
      [] occurs = "optional" -> words \cup {<< >>}
      [] occurs = "zeroOrMore" -> Star(words, {<< >>}, bound)
      [] occurs = "oneOrMore" ->
            Concatenated(words, Star(words, {<< >>}, bound), bound)

Language(model, bound) ==
    LET Of(i) == Language(model.members[i], bound)
        once == CASE model.type = "element" -> {<<model.name>>}
                  [] model.type = "choice" ->
                        UNION {Of(i) : i \in DOMAIN model.members}
                  [] model.type = "sequence" ->
                        FoldLeftDomain(LAMBDA words, i :
                                          Concatenated(words, Of(i), bound),
                                       {<< >>}, model.members)
    IN  Occurring(once, model.occurs, bound)

(***************************************************************************)
(* Determinism: the leaves are told apart by their paths in the tree; no   *)
(* two leaves of one name may be possible at the start, or after the same  *)
(* leaf.                                                                   *)
(***************************************************************************)
RECURSIVE Nullable(_), Ends(_, _, _), Follows(_, _)

Nullable(model) ==
    \/ ~Required(model)
    \/ model.type = "choice" /\ \E i \in DOMAIN model.members : Nullable(model.members[i])
    \/ model.type = "sequence" /\ \A i \in DOMAIN model.members : Nullable(model.members[i])

\* The leaves a word of the model may start with, or end with.
Ends(model, path, atStart) ==
    IF model.type = "element" THEN {[path |-> path, name |-> model.name]}
    ELSE UNION {Ends(model.members[i], Append(path, i), atStart) :
            i \in {j \in DOMAIN model.members :
                      \/ model.type = "choice"
                      \/ \A k \in DOMAIN model.members :
                            (IF atStart THEN k < j ELSE k > j)
                                => Nullable(model.members[k])}}

\* The pairs of leaves that may follow one another.
Follows(model, path) ==
    LET Member(i) == model.members[i]
        FirstOf(i) == Ends(Member(i), Append(path, i), TRUE)
        LastOf(i) == Ends(Member(i), Append(path, i), FALSE)
        Adjacent == {ij \in (DOMAIN model.members) \X (DOMAIN model.members) :
                       /\ model.type = "sequence"
                       /\ ij[1] < ij[2]
                       /\ \A k \in ij[1] + 1 .. ij[2] - 1 : Nullable(Member(k))}
    IN  UNION {Follows(Member(i), Append(path, i)) : i \in DOMAIN model.members}
        \cup UNION {LastOf(ij[1]) \X FirstOf(ij[2]) : ij \in Adjacent}
        \cup IF Repeats(model)
             THEN Ends(model, path, FALSE) \X Ends(model, path, TRUE)
             ELSE {}

ToldApart(leaves) == \A x, y \in leaves : x.name = y.name => x = y

Deterministic(model) ==
    LET follows == Follows(model, << >>)
    IN  /\ ToldApart(Ends(model, << >>, TRUE))
        /\ \A pair \in follows :
              ToldApart({p[2] : p \in {q \in follows : q[1] = pair[1]}})
===============================================================================
