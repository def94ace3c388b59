------------------------- MODULE ContentModelMatcher -------------------------
(***************************************************************************)
(* The matcher of content models of dtd.rs: a descent over the model that  *)
(* consumes children from left to right, without going back.  A result     *)
(* says whether the node matched and where the next child is.              *)
(***************************************************************************)
EXTENDS ContentModels, SequencesExt

Success(position) == [matched |-> TRUE, position |-> position]
Failure(position) == [matched |-> FALSE, position |-> position]

AtEnd(children, position) == position > Len(children)

\* A name takes one child, or as many as follow if it repeats.
MatchElement(model, children, start) ==
    LET EndOfRun == CHOOSE p \in start .. Len(children) + 1 :
                       /\ \A i \in start .. p - 1 : children[i] = model.name
                       /\ AtEnd(children, p) \/ children[p] # model.name
    IN  IF EndOfRun = start
        THEN IF Required(model) THEN Failure(start) ELSE Success(start)
        ELSE Success(IF Repeats(model) THEN EndOfRun ELSE start + 1)

RECURSIVE Match(_, _, _), Rounds(_, _, _, _), Picks(_, _, _, _)

\* One round over the members of a sequence: it stops at the first member
\* that does not match, with what the members before it have consumed.
Round(model, children, start) ==
    FoldLeft(LAMBDA result, member :
                IF ~result.matched THEN result
                ELSE LET next == Match(member, children, result.position)
                     IN  IF next.matched THEN next ELSE Failure(result.position),
             Success(start), model.members)

Rounds_Demanding(model, children, start, complete) ==
    LET round == Round(model, children, start)
    IN  IF ~round.matched THEN Failure(start) ELSE Success(round.position)

\* The loop of match_sequence after complete rounds have matched.  A later
\* round that fails ends neither the loop nor gives back what it consumed.
Rounds(model, children, start, complete) ==
    LET round == Round(model, children, start)
    IN  IF ~round.matched /\ complete = 0
        THEN IF Required(model) THEN Failure(start) ELSE Success(start)
        ELSE IF \/ round.position = start
                \/ ~Repeats(model)
                \/ AtEnd(children, round.position)
             THEN Success(round.position)
             ELSE Rounds(model, children, round.position,
                         complete + IF round.matched THEN 1 ELSE 0)

\* The loop of match_choice.  Of the members that consume something, the one
\* that consumes most.  A member that matches nothing is no match.
Picks(model, children, start, chosen) ==
    LET results == {Match(model.members[i], children, start) :
                       i \in DOMAIN model.members}
        ends == {r.position : r \in {s \in results : s.matched}}
        furthest == Max({start} \cup ends)
    IN  IF furthest = start
        THEN IF chosen = 0 /\ Required(model) THEN Failure(start)
                                              ELSE Success(start)
        ELSE IF ~Repeats(model) \/ AtEnd(children, furthest)
             THEN Success(furthest)
             ELSE Picks(model, children, furthest, chosen + 1)

Match(model, children, start) ==
    CASE model.type = "element" -> MatchElement(model, children, start)
      [] model.members = << >>  -> Success(start)
      [] model.type = "sequence" -> Rounds(model, children, start, 0)
      [] model.type = "choice" -> Picks(model, children, start, 0)

MatchContent_Prefix(model, children) == Match(model, children, 1).matched
MatchContent(model, children) ==
    LET result == Match(model, children, 1)
    IN  result.matched /\ AtEnd(children, result.position)
===============================================================================
