-------------------------- MODULE NamespaceScopes ---------------------------
(***************************************************************************)
(* What a tracker of namespace declarations promises: one environment per  *)
(* open scope.  A scope starts with what its parent knows, a declaration   *)
(* changes the innermost one, and closing a scope brings back its parent   *)
(* as it was.                                                              *)
(***************************************************************************)
EXTENDS Naturals, Sequences

CONSTANTS Prefix, Uri, Predeclared

VARIABLE scopes

Init == scopes = <<Predeclared>>

Open == scopes' = Append(scopes, scopes[Len(scopes)])

Declare(prefix, uri) ==
    scopes' = [scopes EXCEPT ![Len(scopes)][prefix] = uri]

Close == Len(scopes) > 1 /\ scopes' = SubSeq(scopes, 1, Len(scopes) - 1)

Restart == Init'

Next ==
    \/ Open \/ Close \/ Restart
    \/ \E prefix \in Prefix, uri \in Uri : Declare(prefix, uri)

Spec == Init /\ [][Next]_scopes
=============================================================================
