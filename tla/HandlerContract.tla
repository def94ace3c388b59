-------------------------- MODULE HandlerContract ---------------------------
(***************************************************************************)
(* The application's side of trait XmlHandler (handler.rs): what a handler *)
(* that follows the documented event vocabulary knows after each call.     *)
(* The scanner calls Deliver once per handler method it invokes; the       *)
(* record it maintains is the abstract document the events describe, plus  *)
(* flags that remember whether the stream of events ever broke the         *)
(* contract.  Nothing here is read by the scanner.                         *)
(***************************************************************************)
EXTENDS Naturals, Sequences, XmlLexemes

\* Calls that stream a run of text and carry the `end` flag.
RunOf == [attribute_value_content |-> "attribute", characters |-> "characters",
          comment_data |-> "comment", pi_data |-> "pi"]
TextKinds == DOMAIN RunOf
Runs == {"attribute", "characters", "comment", "pi"}

Kinds == TextKinds \cup
    {"start_document", "end_document", "start_element", "end_element",
     "start_attribute", "end_attributes", "start_comment", "start_cdata",
     "end_cdata", "pi_target", "skipped_entity", "fatal_error"}

Event(kind, data, end) == [kind |-> kind, data |-> data, end |-> end]
Call(kind)             == Event(kind, <<>>, TRUE)
CallOn(kind, name)     == Event(kind, name, TRUE)

(***************************************************************************)
(* What the application knows.                                             *)
(*   doc, stack, tag, cdata   where in the document it is;                 *)
(*   run       the text run that is open: its last call had end = FALSE;   *)
(*   torn      the runs some other call interrupted before end = TRUE;     *)
(*   disorder  some call came where the contract has no place for it;      *)
(*   split     some text began or ended inside a UTF-8 sequence;           *)
(*   failed    fatal_error was called;                                     *)
(*   late      a call other than fatal_error came after that;              *)
(*   seen      the document so far, one item per call and, for text, per   *)
(*             character: how text was cut into calls is forgotten.        *)
(***************************************************************************)
App == [doc : {"none", "open", "ended"}, stack : Seq(Text), tag : BOOLEAN,
        cdata : BOOLEAN, run : Runs \cup {"none"}, torn : SUBSET Runs,
        disorder : BOOLEAN, split : BOOLEAN, failed : BOOLEAN, late : BOOLEAN,
        seen : Seq(Kinds \X Text)]

FreshApp == [doc |-> "none", stack |-> <<>>, tag |-> FALSE, cdata |-> FALSE,
             run |-> "none", torn |-> {}, disorder |-> FALSE, split |-> FALSE,
             failed |-> FALSE, late |-> FALSE, seen |-> <<>>]

Between(a) == a.doc = "open" /\ ~a.tag /\ ~a.cdata
InElement(a) == a.doc = "open" /\ ~a.tag /\ a.stack # <<>>

\* The place each call has in the event order of docs/handler.html.
InOrder(a, e) ==
    \/ e.kind = "fatal_error"
    \/ e.kind = "start_document" /\ a.doc = "none"
    \/ e.kind = "end_document"   /\ Between(a) /\ a.stack = <<>>
    \/ e.kind \in {"start_element", "start_comment", "pi_target"} /\ Between(a)
    \/ e.kind = "end_element"    /\ Between(a) /\ a.stack # <<>>
    \/ e.kind \in {"start_attribute", "end_attributes"} /\ a.tag
    \/ e.kind = "start_cdata"    /\ InElement(a) /\ ~a.cdata
    \/ e.kind = "end_cdata"      /\ a.cdata
    \/ e.kind = "characters"     /\ InElement(a)
    \/ e.kind \in TextKinds \ {"characters"} /\ a.run = RunOf[e.kind]
    \/ e.kind = "skipped_entity" /\ (InElement(a) \/ a.run = "attribute")

\* A call that leaves an open run open: its next piece, or a skipped entity
\* inside an attribute value.
Continues(a, e) ==
    \/ e.kind \in TextKinds /\ RunOf[e.kind] = a.run
    \/ e.kind = "skipped_entity" /\ a.run = "attribute"
    \/ e.kind \in {"fatal_error", "end_document"}

RunAfter(a, e) ==
    CASE e.kind = "start_attribute" -> "attribute"
      [] e.kind = "start_comment"   -> "comment"
      [] e.kind = "pi_target"       -> "pi"
      [] e.kind \in TextKinds       -> IF e.end THEN "none" ELSE RunOf[e.kind]
      [] OTHER                      -> IF Continues(a, e) THEN a.run ELSE "none"

StackAfter(a, e) ==
    CASE e.kind = "start_element" -> Append(a.stack, e.data)
      [] e.kind = "end_element" /\ a.stack # <<>> ->
            SubSeq(a.stack, 1, Len(a.stack) - 1)
      [] OTHER -> a.stack

Items(e) ==
    IF e.kind \in TextKinds
    THEN [i \in 1 .. Len(e.data) |-> <<e.kind, <<e.data[i]>>>>]
    ELSE << <<e.kind, e.data>> >>

Cuts(text) == text # <<>> /\ (text[1] = CCont \/ text[Len(text)] = CLead)

\* The calls that structure the document and not its text.
Recorded(e) == e.kind \notin {"start_document", "end_document", "fatal_error"}

Deliver(a, e) ==
    IF a.failed
    THEN [a EXCEPT !.late = @ \/ e.kind # "fatal_error"]
    ELSE [doc      |-> CASE e.kind = "start_document" -> "open"
                         [] e.kind = "end_document"   -> "ended"
                         [] OTHER                     -> a.doc,
          stack    |-> StackAfter(a, e),
          tag      |-> e.kind = "start_element" \/ (a.tag /\ e.kind # "end_attributes"),
          cdata    |-> e.kind = "start_cdata" \/ (a.cdata /\ e.kind # "end_cdata"),
          run      |-> RunAfter(a, e),
          torn     |-> IF a.run = "none" \/ Continues(a, e)
                       THEN a.torn ELSE a.torn \cup {a.run},
          disorder |-> a.disorder \/ ~InOrder(a, e),
          split    |-> a.split \/ (e.kind \in TextKinds /\ Cuts(e.data)),
          failed   |-> e.kind = "fatal_error",
          late     |-> FALSE,
          seen     |-> IF Recorded(e) THEN a.seen \o Items(e) ELSE a.seen]
=============================================================================
