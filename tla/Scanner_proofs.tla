--------------------------- MODULE Scanner_proofs ----------------------------
(***************************************************************************)
(* Theorems about the scanner, for every set of documents and every number *)
(* of resets: its variables keep their types, and however the input is cut *)
(* into chunks the handler hears events in order, no run but a character   *)
(* run is torn, the stack an application keeps is the scanner's, and no    *)
(* text begins or ends inside a UTF-8 sequence.                            *)
(*                                                                         *)
(* The argument.  Which in_... flag is set, and which scan function runs,  *)
(* determines what a handler that has followed every call believes: Agrees *)
(* states this correspondence.  A scan function may then make exactly the  *)
(* calls the contract has a place for; a lemma for each kind of call says  *)
(* what the handler believes afterwards.  After fatal_error the handler's  *)
(* record is frozen, so nothing is left to show.                           *)
(***************************************************************************)
EXTENDS Scanner, SequenceTheorems, FiniteSetTheorems, TLAPS

-----------------------------------------------------------------------------
(* What one call tells a handler that has followed all the calls before it: *)
(* a lemma for each kind of call of trait XmlHandler                        *)

Events == [kind : Kinds, data : Text, end : BOOLEAN]

\* The runs that may be open between tokens.
Loose == {"none", "characters"}

\* What has been reported so far is in order.
Sound(a) == a \in App /\ ~a.disorder /\ a.torn \subseteq {"characters"}

\* The handler has followed the document to where doc, stack ... say, unless
\* it has given up on it.
Follows(a, doc, stack, tag, cdata, open) ==
    /\ Sound(a)
    /\ \/ a.failed
       \/ /\ a.doc = doc /\ a.stack = stack
          /\ a.tag = tag /\ a.cdata = cdata
          /\ a.run \in open

-----------------------------------------------------------------------------
(* Types                                                                   *)

\* One item for every character of a text call, one for any other call.
LEMMA ItemsType ==
    ASSUME NEW e \in Events
    PROVE  Items(e) \in Seq(Kinds \X Text)
<1>1. CASE e.kind \in TextKinds
  <2>1. e.data \in Seq(Lexeme) /\ e.kind \in Kinds
        BY DEF Events, Text
  <2>2. Len(e.data) \in Nat /\ \A i \in 1 .. Len(e.data) : e.data[i] \in Lexeme
        BY <2>1
  <2>3. \A x \in Lexeme : <<x>> \in Seq(Lexeme)
        OBVIOUS
  <2>4. \A i \in 1 .. Len(e.data) : <<e.kind, <<e.data[i]>>>> \in Kinds \X Text
        BY <2>1, <2>2, <2>3 DEF Text
  <2>5. [i \in 1 .. Len(e.data) |-> <<e.kind, <<e.data[i]>>>>] \in Seq(Kinds \X Text)
        BY <2>2, <2>4, IsASeq
  <2> QED BY <1>1, <2>5 DEF Items
<1>2. CASE e.kind \notin TextKinds
  <2>1. <<e.kind, e.data>> \in Kinds \X Text
        BY DEF Events
  <2> QED BY <1>2, <2>1 DEF Items
<1> QED BY <1>1, <1>2

\* The stack the handler keeps.
LEMMA StackAfterType ==
    ASSUME NEW a \in App, NEW e \in Events
    PROVE  StackAfter(a, e) \in Seq(Text)
<1>1. a.stack \in Seq(Text) /\ e.data \in Text
      BY DEF App, Events
<1>2. ASSUME a.stack # <<>>
      PROVE  SubSeq(a.stack, 1, Len(a.stack) - 1) \in Seq(Text)
  <2>1. Len(a.stack) \in Nat \ {0}
        BY <1>1, <1>2, EmptySeq
  <2> QED BY <1>1, <2>1, SubSeqProperties
<1> QED BY <1>1, <1>2, AppendProperties DEF StackAfter

\* A call leaves the handler's record a record of its type.
LEMMA DeliverType ==
    ASSUME NEW a \in App, NEW e \in Events
    PROVE  Deliver(a, e) \in App
<1>1. StackAfter(a, e) \in Seq(Text)
      BY StackAfterType
<1>2. a.seen \o Items(e) \in Seq(Kinds \X Text)
  <2>1. a.seen \in Seq(Kinds \X Text)
        BY DEF App
  <2> QED BY <2>1, ItemsType, ConcatProperties
<1>3. RunAfter(a, e) \in Runs \cup {"none"}
  <2>1. a.run \in Runs \cup {"none"} /\ (e.kind \in TextKinds => RunOf[e.kind] \in Runs)
        BY DEF App, TextKinds, RunOf, Runs
  <2> QED BY <2>1 DEF RunAfter, Runs
<1>4. (Recorded(e) \in BOOLEAN) /\ (InOrder(a, e) \in BOOLEAN)
        /\ (Cuts(e.data) \in BOOLEAN) /\ (Continues(a, e) \in BOOLEAN)
      BY DEF Recorded, InOrder, Cuts, Continues
<1>5. CASE a.failed
      BY <1>5 DEF Deliver, App
<1>6. CASE ~a.failed
      BY <1>1, <1>2, <1>3, <1>4, <1>6 DEF Deliver, App
<1> QED BY <1>5, <1>6

-----------------------------------------------------------------------------
(* One lemma for each kind of call                                         *)

\* A handler that has given up, or that is told now to give up, follows
\* whatever the scanner does.
LEMMA Frozen ==
    ASSUME NEW a, Sound(a), NEW e \in Events, a.failed
    PROVE  Sound(Deliver(a, e)) /\ Deliver(a, e).failed
<1>1. a \in App /\ Deliver(a, e) \in App
      BY DeliverType DEF Sound
<1>2. Deliver(a, e) = [a EXCEPT !.late = @ \/ e.kind # "fatal_error"]
      BY DEF Deliver
<1> QED BY <1>1, <1>2 DEF Sound, App

\* A call that has its place and tears no run but a character run.
LEMMA InPlace ==
    ASSUME NEW a, Sound(a), ~a.failed, NEW e \in Events,
           InOrder(a, e), a.run \in Loose \/ Continues(a, e)
    PROVE  Sound(Deliver(a, e))
<1>1. a \in App /\ Deliver(a, e) \in App
      BY DeliverType DEF Sound
<1>2. /\ Deliver(a, e).disorder = (a.disorder \/ ~InOrder(a, e))
      /\ Deliver(a, e).torn = IF a.run = "none" \/ Continues(a, e)
                              THEN a.torn ELSE a.torn \cup {a.run}
      BY DEF Deliver
<1> QED BY <1>1, <1>2 DEF Sound, Loose

\* What one call changes of the handler's record.
LEMMA Told ==
    ASSUME NEW a, ~a.failed, NEW e
    PROVE  /\ Deliver(a, e).doc = CASE e.kind = "start_document" -> "open"
                                    [] e.kind = "end_document"   -> "ended"
                                    [] OTHER                     -> a.doc
           /\ Deliver(a, e).stack = StackAfter(a, e)
           /\ Deliver(a, e).tag = (e.kind = "start_element" \/ (a.tag /\ e.kind # "end_attributes"))
           /\ Deliver(a, e).cdata = (e.kind = "start_cdata" \/ (a.cdata /\ e.kind # "end_cdata"))
           /\ Deliver(a, e).run = RunAfter(a, e)
BY DEF Deliver

\* A handler that was sound follows the scanner wherever it goes after the
\* fatal error: nothing is asked of it any more.
LEMMA FollowsFatal ==
    ASSUME NEW a, Sound(a), NEW doc, NEW stack, NEW tag, NEW cdata, NEW open
    PROVE  Follows(Deliver(a, Call("fatal_error")), doc, stack, tag, cdata, open)
<1> DEFINE e == Call("fatal_error")
<1>1. e \in Events /\ e.kind = "fatal_error"
      BY DEF Call, Event, Events, Kinds, Text
<1>2. CASE a.failed
      BY <1>1, <1>2, Frozen DEF Follows
<1>3. CASE ~a.failed
  <2>1. InOrder(a, e) /\ Continues(a, e)
        BY <1>1 DEF InOrder, Continues
  <2>2. Deliver(a, e).failed
        BY <1>1, <1>3 DEF Deliver
  <2> QED BY <1>1, <1>3, <2>1, <2>2, InPlace DEF Follows
<1> QED BY <1>2, <1>3

\* The frame of the lemmas below: a call in its place, and where it leads.
LEMMA FollowsCall ==
    ASSUME NEW a, Sound(a), NEW e \in Events,
           NEW doc, NEW stack, NEW tag, NEW cdata, NEW open,
           ~a.failed =>
             /\ InOrder(a, e) /\ (a.run \in Loose \/ Continues(a, e))
             /\ doc = CASE e.kind = "start_document" -> "open"
                        [] e.kind = "end_document"   -> "ended"
                        [] OTHER                     -> a.doc
             /\ StackAfter(a, e) = stack
             /\ tag = (e.kind = "start_element" \/ (a.tag /\ e.kind # "end_attributes"))
             /\ cdata = (e.kind = "start_cdata" \/ (a.cdata /\ e.kind # "end_cdata"))
             /\ RunAfter(a, e) \in open
    PROVE  Follows(Deliver(a, e), doc, stack, tag, cdata, open)
<1>1. CASE a.failed
      BY <1>1, Frozen DEF Follows
<1>2. CASE ~a.failed
      BY <1>2, InPlace, Told DEF Follows
<1> QED BY <1>1, <1>2

\* start_element opens the tag of a new element.
LEMMA FollowsStartElement ==
    ASSUME NEW a, NEW stack, NEW e \in Events, e.kind = "start_element",
           Follows(a, "open", stack, FALSE, FALSE, Loose)
    PROVE  Follows(Deliver(a, e), "open", Append(stack, e.data), TRUE, FALSE, {"none"})
<1>1. Sound(a)
      BY DEF Follows
<1>2. ASSUME ~a.failed
      PROVE  InOrder(a, e) /\ (a.run \in Loose \/ Continues(a, e))
      BY <1>2 DEF InOrder, Between, InElement, Continues, Follows, Loose, TextKinds, RunOf
<1>3. ASSUME ~a.failed
      PROVE  StackAfter(a, e) = Append(stack, e.data) /\ RunAfter(a, e) \in {"none"}
      BY <1>3 DEF StackAfter, RunAfter, Continues, Follows, Loose, TextKinds, RunOf
<1>4. ASSUME ~a.failed
      PROVE  a.doc = "open" /\ a.stack = stack /\ a.tag = FALSE /\ a.cdata = FALSE
      BY <1>4 DEF Follows
<1> QED BY <1>1, <1>2, <1>3, <1>4, FollowsCall

\* end_element closes the innermost element.
LEMMA FollowsEndElement ==
    ASSUME NEW a, NEW stack, NEW e \in Events, e.kind = "end_element",
           stack # <<>>,
           Follows(a, "open", stack, FALSE, FALSE, Loose)
    PROVE  Follows(Deliver(a, e), "open", SubSeq(stack, 1, Len(stack) - 1), FALSE, FALSE, {"none"})
<1>1. Sound(a)
      BY DEF Follows
<1>2. ASSUME ~a.failed
      PROVE  InOrder(a, e) /\ (a.run \in Loose \/ Continues(a, e))
      BY <1>2 DEF InOrder, Between, InElement, Continues, Follows, Loose, TextKinds, RunOf
<1>3. ASSUME ~a.failed
      PROVE  StackAfter(a, e) = SubSeq(stack, 1, Len(stack) - 1) /\ RunAfter(a, e) \in {"none"}
      BY <1>3 DEF StackAfter, RunAfter, Continues, Follows, Loose, TextKinds, RunOf
<1>4. ASSUME ~a.failed
      PROVE  a.doc = "open" /\ a.stack = stack /\ a.tag = FALSE /\ a.cdata = FALSE
      BY <1>4 DEF Follows
<1> QED BY <1>1, <1>2, <1>3, <1>4, FollowsCall

\* end_attributes closes the tag.
LEMMA FollowsEndAttributes ==
    ASSUME NEW a, NEW stack, NEW e \in Events, e.kind = "end_attributes",
           Follows(a, "open", stack, TRUE, FALSE, {"none"})
    PROVE  Follows(Deliver(a, e), "open", stack, FALSE, FALSE, {"none"})
<1>1. Sound(a)
      BY DEF Follows
<1>2. ASSUME ~a.failed
      PROVE  InOrder(a, e) /\ (a.run \in Loose \/ Continues(a, e))
      BY <1>2 DEF InOrder, Between, InElement, Continues, Follows, Loose, TextKinds, RunOf
<1>3. ASSUME ~a.failed
      PROVE  StackAfter(a, e) = stack /\ RunAfter(a, e) \in {"none"}
      BY <1>3 DEF StackAfter, RunAfter, Continues, Follows, Loose, TextKinds, RunOf
<1>4. ASSUME ~a.failed
      PROVE  a.doc = "open" /\ a.stack = stack /\ a.tag = TRUE /\ a.cdata = FALSE
      BY <1>4 DEF Follows
<1> QED BY <1>1, <1>2, <1>3, <1>4, FollowsCall

\* start_attribute opens the run of the attribute's value.
LEMMA FollowsStartAttribute ==
    ASSUME NEW a, NEW stack, NEW e \in Events, e.kind = "start_attribute",
           Follows(a, "open", stack, TRUE, FALSE, {"none"})
    PROVE  Follows(Deliver(a, e), "open", stack, TRUE, FALSE, {"attribute"})
<1>1. Sound(a)
      BY DEF Follows
<1>2. ASSUME ~a.failed
      PROVE  InOrder(a, e) /\ (a.run \in Loose \/ Continues(a, e))
      BY <1>2 DEF InOrder, Between, InElement, Continues, Follows, Loose, TextKinds, RunOf
<1>3. ASSUME ~a.failed
      PROVE  StackAfter(a, e) = stack /\ RunAfter(a, e) \in {"attribute"}
      BY <1>3 DEF StackAfter, RunAfter, Continues, Follows, Loose, TextKinds, RunOf
<1>4. ASSUME ~a.failed
      PROVE  a.doc = "open" /\ a.stack = stack /\ a.tag = TRUE /\ a.cdata = FALSE
      BY <1>4 DEF Follows
<1> QED BY <1>1, <1>2, <1>3, <1>4, FollowsCall

\* start_comment opens the run of its data.
LEMMA FollowsStartComment ==
    ASSUME NEW a, NEW stack, NEW e \in Events, e.kind = "start_comment",
           Follows(a, "open", stack, FALSE, FALSE, Loose)
    PROVE  Follows(Deliver(a, e), "open", stack, FALSE, FALSE, {"comment"})
<1>1. Sound(a)
      BY DEF Follows
<1>2. ASSUME ~a.failed
      PROVE  InOrder(a, e) /\ (a.run \in Loose \/ Continues(a, e))
      BY <1>2 DEF InOrder, Between, InElement, Continues, Follows, Loose, TextKinds, RunOf
<1>3. ASSUME ~a.failed
      PROVE  StackAfter(a, e) = stack /\ RunAfter(a, e) \in {"comment"}
      BY <1>3 DEF StackAfter, RunAfter, Continues, Follows, Loose, TextKinds, RunOf
<1>4. ASSUME ~a.failed
      PROVE  a.doc = "open" /\ a.stack = stack /\ a.tag = FALSE /\ a.cdata = FALSE
      BY <1>4 DEF Follows
<1> QED BY <1>1, <1>2, <1>3, <1>4, FollowsCall

\* pi_target opens the run of its data.
LEMMA FollowsPITarget ==
    ASSUME NEW a, NEW stack, NEW e \in Events, e.kind = "pi_target",
           Follows(a, "open", stack, FALSE, FALSE, Loose)
    PROVE  Follows(Deliver(a, e), "open", stack, FALSE, FALSE, {"pi"})
<1>1. Sound(a)
      BY DEF Follows
<1>2. ASSUME ~a.failed
      PROVE  InOrder(a, e) /\ (a.run \in Loose \/ Continues(a, e))
      BY <1>2 DEF InOrder, Between, InElement, Continues, Follows, Loose, TextKinds, RunOf
<1>3. ASSUME ~a.failed
      PROVE  StackAfter(a, e) = stack /\ RunAfter(a, e) \in {"pi"}
      BY <1>3 DEF StackAfter, RunAfter, Continues, Follows, Loose, TextKinds, RunOf
<1>4. ASSUME ~a.failed
      PROVE  a.doc = "open" /\ a.stack = stack /\ a.tag = FALSE /\ a.cdata = FALSE
      BY <1>4 DEF Follows
<1> QED BY <1>1, <1>2, <1>3, <1>4, FollowsCall

\* start_cdata, in an element.
LEMMA FollowsStartCdata ==
    ASSUME NEW a, NEW stack, NEW e \in Events, e.kind = "start_cdata",
           stack # <<>>,
           Follows(a, "open", stack, FALSE, FALSE, Loose)
    PROVE  Follows(Deliver(a, e), "open", stack, FALSE, TRUE, {"none"})
<1>1. Sound(a)
      BY DEF Follows
<1>2. ASSUME ~a.failed
      PROVE  InOrder(a, e) /\ (a.run \in Loose \/ Continues(a, e))
      BY <1>2 DEF InOrder, Between, InElement, Continues, Follows, Loose, TextKinds, RunOf
<1>3. ASSUME ~a.failed
      PROVE  StackAfter(a, e) = stack /\ RunAfter(a, e) \in {"none"}
      BY <1>3 DEF StackAfter, RunAfter, Continues, Follows, Loose, TextKinds, RunOf
<1>4. ASSUME ~a.failed
      PROVE  a.doc = "open" /\ a.stack = stack /\ a.tag = FALSE /\ a.cdata = FALSE
      BY <1>4 DEF Follows
<1> QED BY <1>1, <1>2, <1>3, <1>4, FollowsCall

\* end_cdata, whether or not the section's run was completed.
LEMMA FollowsEndCdata ==
    ASSUME NEW a, NEW stack, NEW e \in Events, e.kind = "end_cdata",
           Follows(a, "open", stack, FALSE, TRUE, Loose)
    PROVE  Follows(Deliver(a, e), "open", stack, FALSE, FALSE, {"none"})
<1>1. Sound(a)
      BY DEF Follows
<1>2. ASSUME ~a.failed
      PROVE  InOrder(a, e) /\ (a.run \in Loose \/ Continues(a, e))
      BY <1>2 DEF InOrder, Between, InElement, Continues, Follows, Loose, TextKinds, RunOf
<1>3. ASSUME ~a.failed
      PROVE  StackAfter(a, e) = stack /\ RunAfter(a, e) \in {"none"}
      BY <1>3 DEF StackAfter, RunAfter, Continues, Follows, Loose, TextKinds, RunOf
<1>4. ASSUME ~a.failed
      PROVE  a.doc = "open" /\ a.stack = stack /\ a.tag = FALSE /\ a.cdata = TRUE
      BY <1>4 DEF Follows
<1> QED BY <1>1, <1>2, <1>3, <1>4, FollowsCall

\* skipped_entity between the children of an element.
LEMMA FollowsSkippedInContent ==
    ASSUME NEW a, NEW stack, NEW e \in Events, e.kind = "skipped_entity",
           stack # <<>>,
           Follows(a, "open", stack, FALSE, FALSE, Loose)
    PROVE  Follows(Deliver(a, e), "open", stack, FALSE, FALSE, {"none"})
<1>1. Sound(a)
      BY DEF Follows
<1>2. ASSUME ~a.failed
      PROVE  InOrder(a, e) /\ (a.run \in Loose \/ Continues(a, e))
      BY <1>2 DEF InOrder, Between, InElement, Continues, Follows, Loose, TextKinds, RunOf
<1>3. ASSUME ~a.failed
      PROVE  StackAfter(a, e) = stack /\ RunAfter(a, e) \in {"none"}
      BY <1>3 DEF StackAfter, RunAfter, Continues, Follows, Loose, TextKinds, RunOf
<1>4. ASSUME ~a.failed
      PROVE  a.doc = "open" /\ a.stack = stack /\ a.tag = FALSE /\ a.cdata = FALSE
      BY <1>4 DEF Follows
<1> QED BY <1>1, <1>2, <1>3, <1>4, FollowsCall

\* skipped_entity inside an attribute value leaves its run open.
LEMMA FollowsSkippedInValue ==
    ASSUME NEW a, NEW stack, NEW e \in Events, e.kind = "skipped_entity",
           Follows(a, "open", stack, TRUE, FALSE, {"attribute"})
    PROVE  Follows(Deliver(a, e), "open", stack, TRUE, FALSE, {"attribute"})
<1>1. Sound(a)
      BY DEF Follows
<1>2. ASSUME ~a.failed
      PROVE  InOrder(a, e) /\ (a.run \in Loose \/ Continues(a, e))
      BY <1>2 DEF InOrder, Between, InElement, Continues, Follows, Loose, TextKinds, RunOf
<1>3. ASSUME ~a.failed
      PROVE  StackAfter(a, e) = stack /\ RunAfter(a, e) \in {"attribute"}
      BY <1>3 DEF StackAfter, RunAfter, Continues, Follows, Loose, TextKinds, RunOf
<1>4. ASSUME ~a.failed
      PROVE  a.doc = "open" /\ a.stack = stack /\ a.tag = TRUE /\ a.cdata = FALSE
      BY <1>4 DEF Follows
<1> QED BY <1>1, <1>2, <1>3, <1>4, FollowsCall

\* A piece of character data, in an element or in its CDATA section.
LEMMA FollowsCharacters ==
    ASSUME NEW a, NEW stack, NEW cdata \in BOOLEAN,
           NEW e \in Events, e.kind = "characters", stack # <<>>,
           Follows(a, "open", stack, FALSE, cdata, Loose)
    PROVE  Follows(Deliver(a, e), "open", stack, FALSE, cdata, Loose)
<1>1. Sound(a)
      BY DEF Follows
<1>2. ASSUME ~a.failed
      PROVE  InOrder(a, e) /\ (a.run \in Loose \/ Continues(a, e))
      BY <1>2 DEF InOrder, Between, InElement, Continues, Follows, Loose, TextKinds, RunOf
<1>3. ASSUME ~a.failed
      PROVE  StackAfter(a, e) = stack /\ RunAfter(a, e) \in Loose
      BY <1>3 DEF StackAfter, RunAfter, Continues, Follows, Loose, TextKinds, RunOf
<1>4. ASSUME ~a.failed
      PROVE  a.doc = "open" /\ a.tag = FALSE /\ a.cdata = cdata
      BY <1>4 DEF Follows
<1> QED BY <1>1, <1>2, <1>3, <1>4, FollowsCall

\* A piece of an attribute value, a comment or a PI, which is the last one
\* when it carries end = TRUE.
LEMMA FollowsText ==
    ASSUME NEW a, NEW stack, NEW tag \in BOOLEAN,
           NEW e \in Events, e.kind \in TextKinds \ {"characters"},
           Follows(a, "open", stack, tag, FALSE, {RunOf[e.kind]})
    PROVE  /\ e.end => Follows(Deliver(a, e), "open", stack, tag, FALSE, {"none"})
           /\ ~e.end => Follows(Deliver(a, e), "open", stack, tag, FALSE, {RunOf[e.kind]})
<1>1. Sound(a)
      BY DEF Follows
<1>2. ASSUME ~a.failed
      PROVE  InOrder(a, e) /\ (a.run \in Loose \/ Continues(a, e))
      BY <1>2 DEF InOrder, Continues, Follows
<1>3. ASSUME ~a.failed
      PROVE  /\ StackAfter(a, e) = stack
             /\ RunAfter(a, e) = IF e.end THEN "none" ELSE RunOf[e.kind]
      BY <1>3 DEF StackAfter, RunAfter, Follows, TextKinds, RunOf
<1>4. ASSUME ~a.failed
      PROVE  a.doc = "open" /\ a.tag = tag /\ a.cdata = FALSE
      BY <1>4 DEF Follows
<1>5. e.kind \notin {"start_document", "end_document", "start_element",
                     "end_attributes", "start_cdata", "end_cdata"}
      BY DEF TextKinds, RunOf
<1>6. CASE e.end
      BY <1>1, <1>2, <1>3, <1>4, <1>5, <1>6, FollowsCall
<1>7. CASE ~e.end
      BY <1>1, <1>2, <1>3, <1>4, <1>5, <1>7, FollowsCall
<1> QED BY <1>6, <1>7

\* start_document is the first call.
LEMMA FollowsStartDocument ==
    ASSUME NEW a, NEW stack, NEW e \in Events, e.kind = "start_document",
           Follows(a, "none", stack, FALSE, FALSE, Loose)
    PROVE  Follows(Deliver(a, e), "open", stack, FALSE, FALSE, Loose)
<1>1. Sound(a)
      BY DEF Follows
<1>2. ASSUME ~a.failed
      PROVE  InOrder(a, e) /\ (a.run \in Loose \/ Continues(a, e))
      BY <1>2 DEF InOrder, Follows
<1>3. ASSUME ~a.failed
      PROVE  StackAfter(a, e) = stack /\ RunAfter(a, e) \in Loose
      BY <1>3 DEF StackAfter, RunAfter, Continues, Follows, Loose, TextKinds, RunOf
<1>4. ASSUME ~a.failed
      PROVE  a.tag = FALSE /\ a.cdata = FALSE
      BY <1>4 DEF Follows
<1> QED BY <1>1, <1>2, <1>3, <1>4, FollowsCall

\* end_document, whatever run the end of the input cut short.
LEMMA FollowsEndDocument ==
    ASSUME NEW a, NEW open, NEW e \in Events, e.kind = "end_document",
           Follows(a, "open", <<>>, FALSE, FALSE, open)
    PROVE  Follows(Deliver(a, e), "ended", <<>>, FALSE, FALSE, open)
<1>1. Sound(a)
      BY DEF Follows
<1>2. ASSUME ~a.failed
      PROVE  InOrder(a, e) /\ Continues(a, e)
      BY <1>2 DEF InOrder, Between, Continues, Follows
<1>3. ASSUME ~a.failed
      PROVE  StackAfter(a, e) = <<>> /\ RunAfter(a, e) \in open
      BY <1>2, <1>3 DEF StackAfter, RunAfter, Follows, TextKinds, RunOf
<1>4. ASSUME ~a.failed
      PROVE  a.tag = FALSE /\ a.cdata = FALSE
      BY <1>4 DEF Follows
<1> QED BY <1>1, <1>2, <1>3, <1>4, FollowsCall

\* What a handler follows it follows with more runs allowed.
LEMMA FollowsWeaker ==
    ASSUME NEW a, NEW doc, NEW stack, NEW tag, NEW cdata, NEW open, NEW more,
           Follows(a, doc, stack, tag, cdata, open), open \subseteq more
    PROVE  Follows(a, doc, stack, tag, cdata, more)
BY DEF Follows

-----------------------------------------------------------------------------
(* The events the scanner makes                                            *)

\* Event, Call and CallOn build events of their kind.
LEMMA EventType ==
    ASSUME NEW kind \in Kinds, NEW data \in Text, NEW end \in BOOLEAN
    PROVE  /\ Event(kind, data, end) \in Events
           /\ Event(kind, data, end).kind = kind
           /\ Event(kind, data, end).data = data
           /\ Event(kind, data, end).end = end
BY DEF Event, Events

\* A call that carries a name is an event.
LEMMA CallOnType ==
    ASSUME NEW kind \in Kinds, NEW name \in Text
    PROVE  /\ CallOn(kind, name) \in Events
           /\ CallOn(kind, name).kind = kind
           /\ CallOn(kind, name).data = name
BY DEF CallOn, Event, Events

\* A call without data is an event.
LEMMA CallType ==
    ASSUME NEW kind \in Kinds
    PROVE  /\ Call(kind) \in Events
           /\ Call(kind).kind = kind
BY DEF Call, Event, Events, Text

-----------------------------------------------------------------------------
(* The inductive invariant                                                 *)

\* The scan function that runs, or that the next chunk resumes.
InPhase(f) == at = f \/ f \in inside

Doc == CASE decoder_closed                       -> "ended"
         [] ~decoder_closed /\ document_started  -> "open"
         [] ~decoder_closed /\ ~document_started -> "none"

OpenRuns ==
    IF InPhase("attribute_value") THEN {"attribute"}
    ELSE IF InPhase("comment")    THEN {"comment"}
    ELSE IF InPhase("pi")         THEN {"pi"}
    ELSE IF "start_tag" \in inside THEN {"none"}
    ELSE Loose

Agrees == Follows(app, Doc, element_stack, "start_tag" \in inside,
                  InPhase("cdata"), OpenRuns)

\* At most one token is unfinished.
OneToken ==
    /\ inside \in {{}, {"comment"}, {"cdata"}, {"pi"}, {"start_tag"},
                   {"start_tag", "attribute_value"}}
    /\ at \in {"comment", "cdata", "pi", "content"} => inside = {}
    /\ at = "attribute_value" => "start_tag" \in inside
    /\ InPhase("cdata") \/ "start_tag" \in inside => element_stack # <<>>

Session ==
    /\ at # "app" => document_started /\ ~decoder_closed
    /\ decoder_closed => document_started /\ closed
    /\ ~document_started => inside = {} /\ element_stack = <<>>

IInv == TypeOK /\ OneToken /\ Session /\ Agrees
-----------------------------------------------------------------------------
(* The buffer                                                              *)

\* The positions are numbers, in order.
LEMMA Positions ==
    ASSUME TypeOK
    PROVE  /\ limit \in Nat /\ pos \in Nat /\ pos <= limit
           /\ limit <= Len(input) /\ Len(input) \in Nat
BY DEF TypeOK, Text

\* A slice of what has arrived is text.
LEMMA SliceType ==
    ASSUME TypeOK, NEW from \in Nat \ {0}, NEW to \in 0 .. limit
    PROVE  Slice(from, to) \in Text
<1>1. /\ input \in Seq(Lexeme) /\ Len(input) \in Nat
      /\ limit \in 0 .. Len(input)
      BY DEF TypeOK, Text
<1>2. \A i \in from .. to : input[i] \in Lexeme
      BY <1>1
<1> QED BY <1>1, <1>2, SubSeqProperties DEF Slice, Text

\* Only a position in the buffer shows a character.
LEMMA CharBuffered ==
    ASSUME NEW j, Char(j) # "end"
    PROVE  j \in 1 .. limit
BY DEF Char, Buffered

\* The brackets counted before a position are a number.
LEMMA BracketsType ==
    ASSUME TypeOK, NEW j \in 0 .. limit
    PROVE  BracketsAt(j) \in Nat
<1> DEFINE T == {i \in pos + 1 .. j : \A k \in i .. j : Char(k) = "]"}
<1>1. pos \in Nat /\ j \in Nat /\ content_bracket_run \in Nat
      BY DEF TypeOK
<1>2. IsFiniteSet(pos + 1 .. j)
      BY <1>1, FS_Interval
<1>3. Cardinality(T) \in Nat
      BY <1>2, FS_Subset, FS_CardinalityType
<1>4. BracketsAt(j) = Cardinality(T) + IF T = pos + 1 .. j THEN content_bracket_run ELSE 0
      BY DEF BracketsAt
<1> HIDE DEF T
<1> QED BY <1>1, <1>3, <1>4

\* Two references end in some letter or in the character < .
LEMMA DecodedType ==
    ASSUME NEW amp
    PROVE  Decoded(amp) \in Text
<1>1. \A c \in Lexeme : <<c>> \in Seq(Lexeme)
      OBVIOUS
<1>2. "a" \in Lexeme /\ "<" \in Lexeme
      BY DEF Lexeme, NameChars, NameStartChars, Punctuation
<1> QED BY <1>1, <1>2 DEF Decoded, Text

-----------------------------------------------------------------------------
(* Where a scan function starts from                                       *)

\* The handler stands between tokens.
LEMMA FromLoose ==
    ASSUME IInv, Running("markup") \/ Running("content") \/ Running("return")
    PROVE  /\ at # "app" /\ inside = {}
           /\ Follows(app, "open", element_stack, FALSE, FALSE, Loose)
<1>1. at \in {"scan", "content"} /\ inside = {}
  <2>1. at \in {"app", "scan", "content"} \cup Phases
        BY DEF IInv, TypeOK
  <2>2. CASE at = "scan"
        BY <2>2 DEF Running, Resumed, IInv, OneToken
  <2>3. CASE at # "scan"
        BY <2>1, <2>3 DEF Running, Phases, IInv, OneToken
  <2> QED BY <2>2, <2>3
<1>2. document_started /\ ~decoder_closed
      BY <1>1 DEF IInv, Session
<1>3. ("start_tag" \in inside) = FALSE /\ InPhase("cdata") = FALSE
      BY <1>1 DEF InPhase
<1>4. Doc = "open" /\ OpenRuns = Loose
      BY <1>1, <1>2 DEF InPhase, Doc, OpenRuns
<1> QED BY <1>1, <1>3, <1>4 DEF IInv, Agrees

\* The handler stands in a tag, between attributes.
LEMMA FromTag ==
    ASSUME IInv, Running("start_tag")
    PROVE  /\ at = "scan" /\ inside = {"start_tag"} /\ element_stack # <<>>
           /\ Follows(app, "open", element_stack, TRUE, FALSE, {"none"})
<1>1. at = "scan" /\ inside = {"start_tag"}
      BY DEF Running, Resumed, IInv, OneToken, TypeOK, Phases
<1>2. document_started /\ ~decoder_closed
      BY <1>1 DEF IInv, Session
<1> QED BY <1>1, <1>2 DEF IInv, OneToken, Agrees, InPhase, OpenRuns, Doc

\* The handler stands in an attribute value.
LEMMA FromValue ==
    ASSUME IInv, Running("attribute_value")
    PROVE  /\ at # "app" /\ element_stack # <<>>
           /\ inside \in {{"start_tag"}, {"start_tag", "attribute_value"}}
           /\ Follows(app, "open", element_stack, TRUE, FALSE, {"attribute"})
<1>1. /\ at \in {"scan", "attribute_value"}
      /\ at = "scan" => "attribute_value" \in inside
      BY DEF Running, Resumed
<1>2. inside \in {{"start_tag"}, {"start_tag", "attribute_value"}}
      BY <1>1 DEF IInv, OneToken
<1>3. document_started /\ ~decoder_closed
      BY <1>1 DEF IInv, Session
<1> QED BY <1>1, <1>2, <1>3 DEF IInv, OneToken, Agrees, InPhase, OpenRuns, Doc

\* The handler stands in the data of a comment, of a PI or of a CDATA section.
LEMMA FromData ==
    ASSUME IInv, NEW f \in {"comment", "pi", "cdata"}, Running(f)
    PROVE  /\ at # "app" /\ inside \subseteq {f}
           /\ f = "cdata" => /\ element_stack # <<>>
                             /\ Follows(app, "open", element_stack, FALSE, TRUE, Loose)
           /\ f # "cdata" => Follows(app, "open", element_stack, FALSE, FALSE, {f})
<1>1. (at = f /\ inside = {}) \/ (at = "scan" /\ inside = {f})
  <2>1. CASE at = f
        BY <2>1 DEF IInv, OneToken
  <2>2. CASE at # f
    <3>1. at = "scan" /\ f \in inside
          BY <2>2 DEF Running, Resumed
    <3> QED BY <3>1 DEF IInv, OneToken
  <2> QED BY <2>1, <2>2
<1>2. document_started /\ ~decoder_closed
      BY <1>1 DEF IInv, Session
<1>3. ("start_tag" \in inside) = FALSE /\ Doc = "open"
      BY <1>1, <1>2 DEF Doc
<1>4. CASE f = "cdata"
  <2>1. InPhase("cdata") = TRUE /\ OpenRuns = Loose
        BY <1>1, <1>4 DEF InPhase, OpenRuns
  <2> QED BY <1>1, <1>3, <1>4, <2>1 DEF IInv, OneToken, Agrees
<1>5. CASE f # "cdata"
  <2>1. InPhase("cdata") = FALSE /\ OpenRuns = {f}
        BY <1>1, <1>5 DEF InPhase, OpenRuns
  <2> QED BY <1>1, <1>3, <1>5, <2>1 DEF IInv, Agrees
<1> QED BY <1>4, <1>5
-----------------------------------------------------------------------------
(* Where a step of the scan loop leads                                     *)

\* What every step of the loop keeps, and the types it leaves behind.
Frame ==
    /\ UNCHANGED <<limit, session>>
    /\ pos' \in 0 .. limit
    /\ content_run_open' \in BOOLEAN /\ content_bracket_run' \in Nat
    /\ cdata_run_open' \in BOOLEAN
    /\ element_stack' \in Seq(Text) /\ seen_attribute_names' \subseteq Text
    /\ root_started' \in BOOLEAN /\ root_ended' \in BOOLEAN

\* A step that moves only the position keeps the rest of the frame.
LEMMA FrameOf ==
    ASSUME IInv, UNCHANGED <<limit, session, runs, tree>>, pos' \in 0 .. limit
    PROVE  Frame
BY DEF Frame, IInv, TypeOK, runs, tree

\* A step that keeps the frame, one token and the handler's trust.
LEMMA Land ==
    ASSUME IInv, at # "app", Frame, OneToken',
           at' \in {"app", "scan", "content"} \cup Phases,
           inside' \subseteq Phases \cup {"start_tag"},
           Follows(app, "open", element_stack, "start_tag" \in inside,
                   InPhase("cdata"), OpenRuns)'
    PROVE  IInv'
<1>1. document_started' /\ ~decoder_closed'
      BY DEF Frame, session, IInv, Session
<1>2. app' \in App
      BY DEF Follows, Sound
<1>3. TypeOK'
      BY <1>2 DEF Frame, session, IInv, TypeOK
<1>4. Session'
      BY <1>1 DEF Session
<1>5. Doc' = "open"
      BY <1>1 DEF Doc
<1>6. Agrees'
      BY <1>5 DEF Agrees
<1> QED BY <1>3, <1>4, <1>6 DEF IInv

\* To a point between tokens, or into content.
LEMMA LandLoose ==
    ASSUME IInv, at # "app", Frame,
           at' \in {"app", "scan", "content"}, inside' = {},
           Follows(app', "open", element_stack', FALSE, FALSE, Loose)
    PROVE  IInv'
<1>1. ("start_tag" \in inside') = FALSE /\ InPhase("cdata")' = FALSE
      BY DEF InPhase
<1>2. OpenRuns' = Loose
      BY DEF OpenRuns, InPhase
<1>3. OneToken'
      BY <1>1 DEF OneToken
<1> QED BY <1>1, <1>2, <1>3, Land

\* Into a tag, between attributes.
LEMMA LandTag ==
    ASSUME IInv, at # "app", Frame, element_stack' # <<>>,
           at' \in {"app", "scan"}, inside' = {"start_tag"},
           Follows(app', "open", element_stack', TRUE, FALSE, {"none"})
    PROVE  IInv'
<1>1. ("start_tag" \in inside') = TRUE /\ InPhase("cdata")' = FALSE
      BY DEF InPhase
<1>2. OpenRuns' = {"none"}
      BY DEF OpenRuns, InPhase
<1>3. OneToken'
      BY DEF OneToken
<1> QED BY <1>1, <1>2, <1>3, Land DEF Phases

\* Into an attribute value.
LEMMA LandValue ==
    ASSUME IInv, at # "app", Frame, element_stack' # <<>>,
           at' \in {"app", "attribute_value"},
           inside' \in {{"start_tag"}, {"start_tag", "attribute_value"}},
           at' = "app" => "attribute_value" \in inside',
           Follows(app', "open", element_stack', TRUE, FALSE, {"attribute"})
    PROVE  IInv'
<1>1. ("start_tag" \in inside') = TRUE /\ InPhase("cdata")' = FALSE
      BY DEF InPhase
<1>2. OpenRuns' = {"attribute"}
      BY DEF OpenRuns, InPhase
<1>3. OneToken'
      BY DEF OneToken
<1> QED BY <1>1, <1>2, <1>3, Land DEF Phases

\* Into the data of a comment or of a PI.
LEMMA LandData ==
    ASSUME IInv, at # "app", Frame, NEW f \in {"comment", "pi"},
           \/ at' = f /\ inside' = {}
           \/ at' = "app" /\ inside' = {f},
           Follows(app', "open", element_stack', FALSE, FALSE, {f})
    PROVE  IInv'
<1>1. ("start_tag" \in inside') = FALSE /\ InPhase("cdata")' = FALSE
      BY DEF InPhase
<1>2. OpenRuns' = {f}
      BY DEF OpenRuns, InPhase
<1>3. OneToken'
      BY <1>1 DEF OneToken
<1> QED BY <1>1, <1>2, <1>3, Land DEF Phases

\* Into a CDATA section.
LEMMA LandCdata ==
    ASSUME IInv, at # "app", Frame, element_stack' # <<>>,
           \/ at' = "cdata" /\ inside' = {}
           \/ at' = "app" /\ inside' = {"cdata"},
           Follows(app', "open", element_stack', FALSE, TRUE, Loose)
    PROVE  IInv'
<1>1. ("start_tag" \in inside') = FALSE /\ InPhase("cdata")' = TRUE
      BY DEF InPhase
<1>2. OpenRuns' = Loose
      BY DEF OpenRuns, InPhase
<1>3. OneToken'
      BY DEF OneToken
<1> QED BY <1>1, <1>2, <1>3, Land DEF Phases

\* Into failure: the handler was sound when it was told.
LEMMA LandFailed ==
    ASSUME IInv, at # "app", Frame, inside' = inside, at' = "app",
           inside # {} => element_stack' = element_stack,
           NEW a, Sound(a), app' = Deliver(a, Call("fatal_error"))
    PROVE  IInv'
<1>1. OneToken'
      BY DEF IInv, OneToken, InPhase
<1>2. Follows(app, "open", element_stack, "start_tag" \in inside,
              InPhase("cdata"), OpenRuns)'
      BY FollowsFatal
<1>3. inside' \subseteq Phases \cup {"start_tag"}
      BY DEF IInv, TypeOK
<1> QED BY <1>1, <1>2, <1>3, Land
-----------------------------------------------------------------------------
(* Pieces of text                                                          *)

\* A piece of character data, empty or not.
LEMMA ClosingPiece ==
    ASSUME NEW a, NEW stack, NEW cdata \in BOOLEAN, stack # <<>>,
           NEW text \in Text, NEW end \in BOOLEAN,
           Follows(a, "open", stack, FALSE, cdata, Loose)
    PROVE  Follows(Deliver(a, Event("characters", text, end)),
                   "open", stack, FALSE, cdata, Loose)
<1>1. "characters" \in Kinds
      BY DEF Kinds, TextKinds, RunOf
<1> QED BY <1>1, EventType, FollowsCharacters

\* The same for a piece that goes out only when it is not empty.
LEMMA PieceCharacters ==
    ASSUME TypeOK, NEW a, NEW stack, NEW cdata \in BOOLEAN, stack # <<>>,
           NEW from \in Nat \ {0}, NEW to \in 0 .. limit, NEW end \in BOOLEAN,
           Follows(a, "open", stack, FALSE, cdata, Loose)
    PROVE  Follows(Piece(a, "characters", from, to, end),
                   "open", stack, FALSE, cdata, Loose)
<1>1. Slice(from, to) \in Text
      BY SliceType
<1> QED BY <1>1, ClosingPiece DEF Piece

\* An unfinished piece of any other run.
LEMMA PieceText ==
    ASSUME TypeOK, NEW a, NEW stack, NEW tag \in BOOLEAN,
           NEW kind \in TextKinds \ {"characters"},
           NEW from \in Nat \ {0}, NEW to \in 0 .. limit,
           Follows(a, "open", stack, tag, FALSE, {RunOf[kind]})
    PROVE  Follows(Piece(a, kind, from, to, FALSE),
                   "open", stack, tag, FALSE, {RunOf[kind]})
<1>1. Slice(from, to) \in Text
      BY SliceType
<1>2. kind \in Kinds
      BY DEF Kinds
<1>3. /\ Event(kind, Slice(from, to), FALSE) \in Events
      /\ Event(kind, Slice(from, to), FALSE).kind = kind
      /\ Event(kind, Slice(from, to), FALSE).end = FALSE
      BY <1>1, <1>2, EventType
<1> QED BY <1>3, FollowsText DEF Piece

\* A piece of such a run, with the end flag it carries.
LEMMA LastText ==
    ASSUME NEW a, NEW stack, NEW tag \in BOOLEAN,
           NEW kind \in TextKinds \ {"characters"},
           NEW text \in Text, NEW end \in BOOLEAN,
           Follows(a, "open", stack, tag, FALSE, {RunOf[kind]})
    PROVE  Follows(Deliver(a, Event(kind, text, end)), "open", stack, tag, FALSE,
                   IF end THEN {"none"} ELSE {RunOf[kind]})
<1>1. /\ Event(kind, text, end) \in Events
      /\ Event(kind, text, end).kind = kind
      /\ Event(kind, text, end).end = end
      BY EventType DEF Kinds
<1> QED BY <1>1, FollowsText

-----------------------------------------------------------------------------
(* Content                                                                 *)

\* A walk ends inside the buffer or right behind it.
LEMMA WalkType ==
    ASSUME TypeOK, NEW from \in Nat, NEW S, NEW stop, Walk(from, S, stop)
    PROVE  stop \in from .. limit + 1
BY DEF Walk

\* The content up to stop leaves a frame behind.
LEMMA ContentFrame ==
    ASSUME IInv, NEW stop \in pos + 1 .. limit + 1,
           UNCHANGED <<limit, session, cdata_run_open, tree>>,
           pos' \in 0 .. limit, content_run_open' \in BOOLEAN,
           content_bracket_run' \in {0, BracketsAt(stop - 1)}
    PROVE  Frame
<1>1. stop - 1 \in 0 .. limit
      BY DEF IInv, TypeOK
<1>2. BracketsAt(stop - 1) \in Nat
      BY <1>1, BracketsType DEF IInv
<1> QED BY <1>2 DEF Frame, IInv, TypeOK, tree

\* The text before a reference is an unfinished piece.
LEMMA FollowsBefore ==
    ASSUME IInv, Running("content"), NEW amp \in Buffered, AtReference(amp)
    PROVE  /\ Follows(BeforeReference(amp), "open", element_stack, FALSE, FALSE, Loose)
           /\ element_stack # <<>> /\ OpenBefore(amp) \in BOOLEAN
           /\ amp \in pos + 1 .. limit + 1 /\ amp - 1 \in 0 .. limit
           /\ amp \in Nat /\ limit \in Nat
<1>1. element_stack # <<>> /\ amp \in pos + 1 .. limit
      BY DEF AtReference, InsideDocument, Walk, Buffered
<1>2. pos + 1 \in Nat \ {0} /\ amp - 1 \in 0 .. limit
      BY <1>1 DEF IInv, TypeOK
<1>3. Follows(BeforeReference(amp), "open", element_stack, FALSE, FALSE, Loose)
      BY <1>1, <1>2, FromLoose, PieceCharacters DEF BeforeReference, IInv
<1>4. OpenBefore(amp) \in BOOLEAN
      BY DEF OpenBefore, IInv, TypeOK
<1>5. /\ amp \in pos + 1 .. limit + 1 /\ amp - 1 \in 0 .. limit
      /\ amp \in Nat /\ limit \in Nat
      BY <1>1, <1>2, Positions DEF IInv
<1> QED BY <1>1, <1>3, <1>4, <1>5

\* scan_content fails, or suspends, or reaches the markup, in step with the
\* handler.
LEMMA StepContentFatal ==
    ASSUME IInv, ContentFatal
    PROVE  IInv'
<1>1. PICK stop \in Buffered : /\ Walk(pos + 1, ContentAt, stop)
                               /\ content_bracket_run' = BracketsAt(stop - 1)
                               /\ Fatal(stop - 1)
      BY DEF ContentFatal
<1>2. stop \in pos + 1 .. limit + 1 /\ stop - 1 \in 0 .. limit
      BY <1>1 DEF Walk, Buffered, IInv, TypeOK
<1>3. Frame
      BY <1>1, <1>2, ContentFrame DEF ContentFatal, Fatal, IInv, TypeOK
<1> QED BY <1>1, <1>3, FromLoose, LandFailed DEF ContentFatal, Fatal, Follows

\* Text outside the document element is fatal wherever it stops.
LEMMA StepStrayText ==
    ASSUME IInv, StrayText
    PROVE  IInv'
<1>1. PICK stop \in pos + 1 .. limit + 1 : /\ content_bracket_run' = BracketsAt(stop - 1)
                                           /\ Fatal(stop - 1)
      BY DEF StrayText
<1>2. stop - 1 \in 0 .. limit
      BY <1>1 DEF IInv, TypeOK
<1>3. Frame
      BY <1>1, <1>2, ContentFrame DEF StrayText, Fatal, IInv, TypeOK
<1> QED BY <1>1, <1>3, FromLoose, LandFailed DEF StrayText, Fatal, Follows

\* Character data that reaches the end of the chunk is reported inside an
\* element and dropped outside one.
LEMMA StepContentNeedsMore ==
    ASSUME IInv, ContentNeedsMore
    PROVE  IInv'
<1>1. PICK stop \in pos + 1 .. limit + 1 :
        /\ app' = IF InsideDocument THEN Piece(app, "characters", pos + 1, stop - 1, FALSE)
                  ELSE app
        /\ content_run_open' = (content_run_open \/ (InsideDocument /\ stop > pos + 1))
        /\ content_bracket_run' = BracketsAt(stop - 1)
        /\ NeedMore(stop - 1, {})
      BY DEF ContentNeedsMore
<1>2. stop - 1 \in 0 .. limit /\ pos + 1 \in Nat \ {0}
      BY <1>1 DEF IInv, TypeOK
<1>3. Frame
      BY <1>1, <1>2, ContentFrame DEF ContentNeedsMore, NeedMore, IInv, TypeOK
<1>4. Follows(app', "open", element_stack', FALSE, FALSE, Loose)
      BY <1>1, <1>2, FromLoose, PieceCharacters
      DEF ContentNeedsMore, InsideDocument, IInv, tree
<1> QED BY <1>1, <1>3, <1>4, FromLoose, LandLoose DEF ContentNeedsMore, NeedMore

\* Character data is closed before markup, and none is reported outside an
\* element.
LEMMA StepContentToMarkup ==
    ASSUME IInv, ContentToMarkup
    PROVE  IInv'
<1>1. PICK stop \in Buffered :
        /\ Walk(pos + 1, ContentAt, stop)
        /\ app' = IF ~InsideDocument THEN app
                  ELSE IF stop = pos + 1 /\ content_run_open
                       THEN Deliver(app, Event("characters", <<>>, TRUE))
                       ELSE Piece(app, "characters", pos + 1, stop - 1, TRUE)
        /\ content_run_open' = (content_run_open /\ ~InsideDocument)
        /\ content_bracket_run' = 0
        /\ Done(stop - 1, {})
      BY DEF ContentToMarkup
<1>2. /\ stop \in pos + 1 .. limit + 1
      /\ stop - 1 \in 0 .. limit /\ pos + 1 \in Nat \ {0}
      BY <1>1 DEF Walk, Buffered, IInv, TypeOK
<1>3. Frame
      BY <1>1, <1>2, ContentFrame DEF ContentToMarkup, Done, IInv, TypeOK
<1>4. Follows(app', "open", element_stack', FALSE, FALSE, Loose)
  <2>1. <<>> \in Text
        BY DEF Text
  <2> QED BY <1>1, <1>2, <2>1, FromLoose, PieceCharacters, ClosingPiece
          DEF ContentToMarkup, InsideDocument, IInv, tree
<1> QED BY <1>1, <1>3, <1>4, FromLoose, LandLoose DEF ContentToMarkup, Done

\* A reference cut by the end of the chunk stays in the buffer; only the text
\* before it is reported.
LEMMA StepReferenceNeedsMore ==
    ASSUME IInv, ReferenceNeedsMore
    PROVE  IInv'
<1>1. PICK amp \in Buffered :
        /\ AtReference(amp)
        /\ app' = BeforeReference(amp)
        /\ content_run_open' = OpenBefore(amp)
        /\ content_bracket_run' = BracketsAt(amp - 1)
        /\ NeedMore(amp - 1, {})
      BY DEF ReferenceNeedsMore
<1>2. Running("content") /\ UNCHANGED <<cdata_run_open, tree>>
      BY DEF ReferenceNeedsMore
<1>3. /\ amp \in pos + 1 .. limit + 1 /\ amp - 1 \in 0 .. limit
      /\ OpenBefore(amp) \in BOOLEAN
      BY <1>1, <1>2, FollowsBefore
<1>4. Frame
      BY <1>1, <1>2, <1>3, ContentFrame DEF NeedMore
<1>5. Follows(app', "open", element_stack', FALSE, FALSE, Loose)
      BY <1>1, <1>2, FollowsBefore DEF tree
<1> QED BY <1>1, <1>2, <1>4, <1>5, FromLoose, LandLoose DEF NeedMore

\* A malformed reference fails after the text before it was reported.
LEMMA StepReferenceMalformed ==
    ASSUME IInv, ReferenceMalformed
    PROVE  IInv'
<1>1. PICK amp \in Buffered :
        /\ AtReference(amp)
        /\ app' = Deliver(BeforeReference(amp), Call("fatal_error"))
        /\ content_run_open' = OpenBefore(amp)
        /\ content_bracket_run' = BracketsAt(amp - 1)
        /\ pos' = amp - 1
        /\ at' = "app"
      BY DEF ReferenceMalformed
<1>2. Running("content") /\ UNCHANGED <<limit, inside, session, cdata_run_open, tree>>
      BY DEF ReferenceMalformed
<1>3. /\ amp \in pos + 1 .. limit + 1 /\ amp - 1 \in 0 .. limit
      /\ OpenBefore(amp) \in BOOLEAN
      BY <1>1, <1>2, FollowsBefore
<1>4. Frame
      BY <1>1, <1>2, <1>3, ContentFrame
<1>5. Sound(BeforeReference(amp))
      BY <1>1, <1>2, FollowsBefore DEF Follows
<1> QED BY <1>1, <1>2, <1>4, <1>5, FromLoose, LandFailed DEF tree

\* A decoded reference is character data of the element it stands in.
LEMMA StepReferenceDecoded ==
    ASSUME IInv, ReferenceDecoded
    PROVE  IInv'
<1>0. PICK amp \in Buffered : AtReference(amp) /\ \E e \in amp + 1 .. limit :
        /\ app' = Deliver(BeforeReference(amp),
                          Event("characters", Decoded(amp), Char(e + 1) = "<"))
        /\ content_run_open' = ~(Char(e + 1) = "<")
        /\ Proceed(e, IF Char(e + 1) = "<" THEN "scan" ELSE "content")
      BY DEF ReferenceDecoded
<1>1. PICK e \in amp + 1 .. limit :
        /\ app' = Deliver(BeforeReference(amp),
                          Event("characters", Decoded(amp), Char(e + 1) = "<"))
        /\ content_run_open' = ~(Char(e + 1) = "<")
        /\ Proceed(e, IF Char(e + 1) = "<" THEN "scan" ELSE "content")
      BY <1>0
<1>2. /\ Running("content") /\ UNCHANGED <<cdata_run_open, tree>>
      /\ content_bracket_run' = 0
      BY DEF ReferenceDecoded
<1>3. /\ amp \in pos + 1 .. limit + 1 /\ amp \in Nat /\ limit \in Nat
      /\ Follows(BeforeReference(amp), "open", element_stack, FALSE, FALSE, Loose)
      /\ element_stack # <<>>
      BY <1>0, <1>2, FollowsBefore
<1>4. Frame
  <2>1. e \in 0 .. limit
        BY <1>3
  <2> QED BY <1>1, <1>2, <1>3, <2>1, ContentFrame DEF Proceed
<1>5. Follows(app', "open", element_stack', FALSE, FALSE, Loose)
      BY <1>1, <1>2, <1>3, DecodedType, ClosingPiece DEF tree
<1> QED BY <1>1, <1>2, <1>4, <1>5, FromLoose, LandLoose DEF Proceed

\* The run is closed, then the entity is skipped or refused.
LEMMA StepReferenceUndeclared ==
    ASSUME IInv, ReferenceUndeclared
    PROVE  IInv'
<1> DEFINE Closing(amp) == IF OpenBefore(amp)
                           THEN Deliver(BeforeReference(amp), Event("characters", <<>>, TRUE))
                           ELSE app
<1>0. PICK amp \in Buffered : AtReference(amp) /\ \E e \in amp + 1 .. limit :
        /\ app' = Deliver(Closing(amp),
                     IF SkipDoctype THEN CallOn("skipped_entity", RefName(amp, e))
                     ELSE Call("fatal_error"))
        /\ pos' = e
      BY DEF ReferenceUndeclared
<1>1. PICK e \in amp + 1 .. limit :
        /\ app' = Deliver(Closing(amp),
                     IF SkipDoctype THEN CallOn("skipped_entity", RefName(amp, e))
                     ELSE Call("fatal_error"))
        /\ pos' = e
      BY <1>0
<1>2. /\ Running("content") /\ UNCHANGED <<limit, inside, session, cdata_run_open, tree>>
      /\ content_run_open' = FALSE /\ content_bracket_run' = 0
      /\ at' = IF SkipDoctype THEN "content" ELSE "app"
      BY DEF ReferenceUndeclared
<1>3. /\ amp \in pos + 1 .. limit + 1 /\ amp \in Nat /\ limit \in Nat
      /\ Follows(BeforeReference(amp), "open", element_stack, FALSE, FALSE, Loose)
      /\ element_stack # <<>>
      BY <1>0, <1>2, FollowsBefore
<1>4. Frame
  <2>1. e \in 0 .. limit
        BY <1>3
  <2> QED BY <1>1, <1>2, <1>3, <2>1, ContentFrame
<1>5. Follows(Closing(amp), "open", element_stack, FALSE, FALSE, Loose)
  <2>1. <<>> \in Text
        BY DEF Text
  <2> QED BY <1>2, <1>3, <2>1, FromLoose, ClosingPiece
<1>6. RefName(amp, e) \in Text
  <2>1. amp + 1 \in Nat \ {0} /\ e - 1 \in 0 .. limit
        BY <1>1, <1>3
  <2> QED BY <2>1, SliceType DEF RefName, IInv
<1> HIDE DEF Closing
<1>7. CASE SkipDoctype
  <2>1. "skipped_entity" \in Kinds
        BY DEF Kinds
  <2>2. Follows(app', "open", element_stack, FALSE, FALSE, {"none"})
        BY <1>1, <1>3, <1>5, <1>6, <1>7, <2>1, CallOnType, FollowsSkippedInContent
  <2>3. Follows(app', "open", element_stack', FALSE, FALSE, Loose)
        BY <1>2, <2>2, FollowsWeaker DEF Loose, tree
  <2> QED BY <1>2, <1>4, <1>7, <2>3, FromLoose, LandLoose
<1>8. CASE ~SkipDoctype
      BY <1>1, <1>2, <1>4, <1>5, <1>8, FromLoose, LandFailed DEF Follows, tree
<1> QED BY <1>7, <1>8

\* scan_content and the handler stay in step.
LEMMA StepContent ==
    ASSUME IInv, ScanContent
    PROVE  IInv'
BY StepContentFatal, StepStrayText, StepContentNeedsMore, StepContentToMarkup,
   StepReferenceNeedsMore, StepReferenceMalformed, StepReferenceDecoded,
   StepReferenceUndeclared DEF ScanContent
-----------------------------------------------------------------------------
(* Markup and tags                                                         *)

\* A fatal error that leaves runs and tree alone.
LEMMA StepFatal ==
    ASSUME IInv, at # "app", NEW p \in 0 .. limit, Fatal(p), UNCHANGED <<runs, tree>>
    PROVE  IInv'
<1>1. Frame
      BY FrameOf DEF Fatal
<1>2. Sound(app)
      BY DEF IInv, Agrees, Follows
<1> QED BY <1>1, <1>2, LandFailed DEF Fatal, tree

\* Backing up to where the token began changes nothing.
LEMMA StepNeedMore ==
    ASSUME IInv, Running("markup") \/ Running("return") \/ Running("start_tag"),
           NeedMore(pos, {}), UNCHANGED <<runs, tree, app>>
    PROVE  IInv'
<1>1. Frame
  <2>1. pos \in 0 .. limit
        BY Positions DEF IInv
  <2> QED BY <2>1, FrameOf DEF NeedMore
<1>2. CASE Running("start_tag")
      BY <1>1, <1>2, FromTag, LandTag DEF NeedMore, tree
<1>3. CASE Running("markup") \/ Running("return")
      BY <1>1, <1>3, FromLoose, LandLoose DEF NeedMore, tree
<1> QED BY <1>2, <1>3

\* Running out of input between two tokens reports nothing.
LEMMA StepReturn ==
    ASSUME IInv, ReturnToApp \/ MarkupNeedsMore
    PROVE  IInv'
BY StepNeedMore DEF ReturnToApp, MarkupNeedsMore

\* A name, once it is known to be one, is text and ends in the buffer.
LEMMA NameType ==
    ASSUME TypeOK, NEW from \in Nat \ {0}, NEW end \in from .. limit + 1
    PROVE  /\ Slice(from, end - 1) \in Text
           /\ Named(from, end) => end \in 1 .. limit
<1>1. end - 1 \in 0 .. limit
      BY Positions
<1>2. Named(from, end) => end <= limit
      BY Positions DEF Named, Unfinished
<1> QED BY <1>1, <1>2, SliceType, Positions

\* start_element is told when the name goes on the stack.
LEMMA StepStartTag ==
    ASSUME IInv, StartTag
    PROVE  IInv'
<1>1. Running("markup") /\ UNCHANGED runs
      BY DEF StartTag
<1>2. pos + 2 \in Nat \ {0} /\ pos \in 0 .. limit
      BY Positions DEF IInv
<1>3. PICK end \in pos + 2 .. limit + 1 :
        \/ /\ NeedMore(pos, {})
           /\ UNCHANGED <<tree, app>>
        \/ /\ Fatal(pos)
           /\ UNCHANGED tree
        \/ /\ Named(pos + 2, end)
           /\ element_stack' = Append(element_stack, Slice(pos + 2, end - 1))
           /\ app' = Deliver(app, CallOn("start_element", Slice(pos + 2, end - 1)))
           /\ root_started' = TRUE
           /\ seen_attribute_names' = {}
           /\ pos' = end - 1
           /\ at' = "scan"
           /\ inside' = inside \cup {"start_tag"}
           /\ UNCHANGED <<limit, session, root_ended>>
      BY DEF StartTag
<1>4. CASE NeedMore(pos, {}) /\ UNCHANGED <<tree, app>>
      BY <1>1, <1>4, StepNeedMore
<1>5. CASE Fatal(pos) /\ UNCHANGED tree
      BY <1>1, <1>2, <1>5, FromLoose, StepFatal
<1>6. CASE /\ Named(pos + 2, end)
           /\ element_stack' = Append(element_stack, Slice(pos + 2, end - 1))
           /\ app' = Deliver(app, CallOn("start_element", Slice(pos + 2, end - 1)))
           /\ root_started' = TRUE
           /\ seen_attribute_names' = {}
           /\ pos' = end - 1
           /\ at' = "scan"
           /\ inside' = inside \cup {"start_tag"}
           /\ UNCHANGED <<limit, session, root_ended>>
  <2> DEFINE q_name == Slice(pos + 2, end - 1)
  <2>1. q_name \in Text /\ end - 1 \in 0 .. limit
        BY <1>2, <1>6, NameType, Positions DEF IInv
  <2>2. "start_element" \in Kinds
        BY DEF Kinds
  <2> HIDE DEF q_name
  <2>3. Follows(Deliver(app, CallOn("start_element", q_name)),
                "open", Append(element_stack, q_name), TRUE, FALSE, {"none"})
        BY <1>1, <2>1, <2>2, FromLoose, CallOnType, FollowsStartElement
  <2>4. element_stack \in Seq(Text)
        BY DEF IInv, TypeOK
  <2>5. Append(element_stack, q_name) \in Seq(Text) /\ Append(element_stack, q_name) # <<>>
        BY <2>1, <2>4, AppendProperties
  <2>6. Frame
        BY <1>1, <1>6, <2>1, <2>5 DEF q_name, Frame, runs, IInv, TypeOK
  <2>7. inside' = {"start_tag"} /\ at # "app"
        BY <1>1, <1>6, FromLoose
  <2> QED BY <1>6, <2>3, <2>5, <2>6, <2>7, LandTag DEF q_name
<1> QED BY <1>3, <1>4, <1>5, <1>6

\* The stack below its top.
LEMMA PoppedType ==
    ASSUME IInv, element_stack # <<>>
    PROVE  Popped \in Seq(Text) /\ Popped = SubSeq(element_stack, 1, Len(element_stack) - 1)
<1>1. element_stack \in Seq(Text)
      BY DEF IInv, TypeOK
<1>2. Len(element_stack) \in Nat \ {0}
      BY <1>1, EmptySeq
<1> QED BY <1>1, <1>2, SubSeqProperties DEF Popped

\* end_element is told when the matching name has come off the stack; a name
\* that does not match has come off it too.
LEMMA StepEndTag ==
    ASSUME IInv, EndTag
    PROVE  IInv'
<1>1. Running("markup") /\ UNCHANGED runs /\ pos \in 0 .. limit
      BY Positions DEF EndTag, Markup, IInv
<1>2. PICK close \in 1 .. limit + 1 :
        \/ /\ NeedMore(pos, {})
           /\ UNCHANGED <<tree, app>>
        \/ /\ Fatal(pos)
           /\ UNCHANGED tree
        \/ /\ close <= limit /\ element_stack # <<>>
           /\ element_stack' = Popped
           /\ UNCHANGED <<seen_attribute_names, root_started>>
           /\ \/ /\ root_ended' = (Popped = <<>>)
                 /\ app' = Deliver(app, Call("end_element"))
                 /\ Done(close, {})
              \/ /\ UNCHANGED root_ended
                 /\ Fatal(pos)
      BY Positions DEF EndTag, IInv
<1>3. CASE NeedMore(pos, {}) /\ UNCHANGED <<tree, app>>
      BY <1>1, <1>3, StepNeedMore
<1>4. CASE Fatal(pos) /\ UNCHANGED tree
      BY <1>1, <1>4, FromLoose, StepFatal
<1>5. CASE /\ close <= limit /\ element_stack # <<>>
           /\ element_stack' = Popped
           /\ UNCHANGED <<seen_attribute_names, root_started>>
           /\ root_ended' = (Popped = <<>>)
           /\ app' = Deliver(app, Call("end_element"))
           /\ Done(close, {})
  <2>1. "end_element" \in Kinds
        BY DEF Kinds
  <2>2. Follows(app', "open", element_stack', FALSE, FALSE, {"none"})
        BY <1>1, <1>5, <2>1, FromLoose, CallType, PoppedType, FollowsEndElement
  <2>3. Frame
    <3>1. close \in 0 .. limit
          BY <1>5, Positions DEF IInv
    <3>2. element_stack' \in Seq(Text)
          BY <1>5, PoppedType
    <3> QED BY <1>1, <1>5, <3>1, <3>2 DEF Frame, Done, runs, IInv, TypeOK
  <2> QED BY <1>1, <1>5, <2>2, <2>3, FromLoose, FollowsWeaker, LandLoose DEF Done, Loose
<1>6. CASE /\ element_stack # <<>>
           /\ element_stack' = Popped
           /\ UNCHANGED <<seen_attribute_names, root_started, root_ended>>
           /\ Fatal(pos)
  <2>1. Frame
    <3>1. element_stack' \in Seq(Text)
          BY <1>6, PoppedType
    <3> QED BY <1>1, <1>6, <3>1 DEF Frame, Fatal, runs, IInv, TypeOK
  <2> QED BY <1>1, <1>6, <2>1, FromLoose, LandFailed DEF Fatal, Follows
<1> QED BY <1>2, <1>3, <1>4, <1>5, <1>6

\* The end of a tag, the end of an empty element.
LEMMA StepEndOfTag ==
    ASSUME IInv, EndOfTag
    PROVE  IInv'
<1>1. Running("start_tag") /\ UNCHANGED <<runs, tree>>
      BY DEF EndOfTag
<1>2. PICK n \in Buffered : /\ app' = Deliver(app, Call("end_attributes"))
                            /\ Done(n, {"start_tag"})
      BY DEF EndOfTag
<1>3. "end_attributes" \in Kinds
      BY DEF Kinds
<1>4. Follows(app', "open", element_stack', FALSE, FALSE, {"none"})
      BY <1>1, <1>2, <1>3, FromTag, CallType, FollowsEndAttributes DEF tree
<1>5. Frame
  <2>1. n \in 0 .. limit
        BY Positions DEF Buffered, IInv
  <2> QED BY <1>1, <1>2, <2>1, FrameOf DEF Done
<1>6. inside' = {} /\ at # "app"
      BY <1>1, <1>2, FromTag DEF Done
<1> QED BY <1>2, <1>4, <1>5, <1>6, FollowsWeaker, LandLoose DEF Done, Loose

\* The end of an empty-element tag is told as end_attributes, end_element.
LEMMA StepEmptyElement ==
    ASSUME IInv, EmptyElement
    PROVE  IInv'
<1>1. Running("start_tag") /\ UNCHANGED <<runs, seen_attribute_names, root_started>>
      BY DEF EmptyElement
<1>2. PICK n \in Buffered :
        /\ Char(n + 1) = ">"
        /\ element_stack' = Popped
        /\ root_ended' = (Popped = <<>>)
        /\ app' = Deliver(Deliver(app, Call("end_attributes")), Call("end_element"))
        /\ Done(n + 1, {"start_tag"})
      BY DEF EmptyElement
<1>3. "end_attributes" \in Kinds /\ "end_element" \in Kinds
      BY DEF Kinds
<1>4. Follows(Deliver(app, Call("end_attributes")),
              "open", element_stack, FALSE, FALSE, {"none"})
      BY <1>1, <1>3, FromTag, CallType, FollowsEndAttributes
<1>5. Follows(Deliver(app, Call("end_attributes")),
              "open", element_stack, FALSE, FALSE, Loose)
      BY <1>4, FollowsWeaker DEF Loose
<1>6. element_stack # <<>>
      BY <1>1, FromTag
<1>7. Follows(app', "open", element_stack', FALSE, FALSE, {"none"})
      BY <1>2, <1>3, <1>5, <1>6, CallType, PoppedType, FollowsEndElement
<1>8. Frame
  <2>1. n + 1 \in 0 .. limit
        BY <1>2, CharBuffered, Positions DEF IInv
  <2>2. element_stack' \in Seq(Text)
        BY <1>2, <1>6, PoppedType
  <2> QED BY <1>1, <1>2, <2>1, <2>2 DEF Frame, Done, runs, IInv, TypeOK
<1>9. inside' = {} /\ at # "app"
      BY <1>1, <1>2, FromTag DEF Done
<1> QED BY <1>2, <1>7, <1>8, <1>9, FollowsWeaker, LandLoose DEF Done, Loose

\* A tag cut by the end of the chunk reports nothing.
LEMMA StepTagNeedsMore ==
    ASSUME IInv, TagNeedsMore
    PROVE  IInv'
BY StepNeedMore DEF TagNeedsMore

\* What cannot stand in a tag is fatal there.
LEMMA StepTagFatal ==
    ASSUME IInv, TagFatal
    PROVE  IInv'
<1>1. Running("start_tag") /\ UNCHANGED <<runs, tree>>
      BY DEF TagFatal
<1>2. PICK n \in Buffered : Fatal(n - 1)
      BY DEF TagFatal
<1>3. n - 1 \in 0 .. limit
      BY Positions DEF Buffered, IInv
<1> QED BY <1>1, <1>2, <1>3, FromTag, StepFatal

\* start_attribute is told once nothing can back up over the name any more.
LEMMA StepAttributeFromEquals ==
    ASSUME IInv, Running("start_tag"), UNCHANGED runs,
           NEW name \in Text, NEW g \in 1 .. limit, AttributeFromEquals(name, g)
    PROVE  IInv'
<1>1. PICK q \in g + 1 .. limit + 1 :
        \/ NeedMore(pos, {}) /\ UNCHANGED <<tree, app>>
        \/ Fatal(q - 1) /\ UNCHANGED tree
        \/ q <= limit /\ Fatal(q) /\ UNCHANGED tree
        \/ /\ q <= limit
           /\ seen_attribute_names' = seen_attribute_names \cup {name}
           /\ app' = Deliver(app, CallOn("start_attribute", name))
           /\ Proceed(q, "attribute_value")
           /\ UNCHANGED <<element_stack, root_started, root_ended>>
  <2>1. \A q \in g + 1 .. limit + 1 : Char(q) = "'" => q <= limit
        BY CharBuffered, Positions DEF IInv
  <2> QED BY <2>1 DEF AttributeFromEquals
<1>2. q - 1 \in 0 .. limit /\ q \in Nat
      BY Positions DEF IInv
<1>3. CASE NeedMore(pos, {}) /\ UNCHANGED <<tree, app>>
      BY <1>3, StepNeedMore
<1>4. CASE Fatal(q - 1) /\ UNCHANGED tree
      BY <1>2, <1>4, FromTag, StepFatal
<1>5. CASE q <= limit /\ Fatal(q) /\ UNCHANGED tree
  <2>1. q \in 0 .. limit
        BY <1>2, <1>5, Positions DEF IInv
  <2> QED BY <1>5, <2>1, FromTag, StepFatal
<1>6. CASE /\ q <= limit
           /\ seen_attribute_names' = seen_attribute_names \cup {name}
           /\ app' = Deliver(app, CallOn("start_attribute", name))
           /\ Proceed(q, "attribute_value")
           /\ UNCHANGED <<element_stack, root_started, root_ended>>
  <2>1. "start_attribute" \in Kinds
        BY DEF Kinds
  <2>2. Follows(app', "open", element_stack', TRUE, FALSE, {"attribute"})
        BY <1>6, <2>1, FromTag, CallOnType, FollowsStartAttribute
  <2>3. Frame
    <3>1. q \in 0 .. limit
          BY <1>2, <1>6, Positions DEF IInv
    <3> QED BY <1>6, <3>1 DEF Frame, Proceed, runs, IInv, TypeOK
  <2> QED BY <1>6, <2>2, <2>3, FromTag, LandValue DEF Proceed
<1> QED BY <1>1, <1>3, <1>4, <1>5, <1>6

\* An attribute is begun inside its tag, and its value is open then.
LEMMA StepAttribute ==
    ASSUME IInv, Attribute
    PROVE  IInv'
<1>1. Running("start_tag") /\ UNCHANGED runs
      BY DEF Attribute
<1>2. PICK n \in Buffered : \E e \in n .. limit + 1 :
        \/ NeedMore(pos, {}) /\ UNCHANGED <<tree, app>>
        \/ Fatal(IF bytes_mode THEN n - 1 ELSE e - 1) /\ UNCHANGED tree
        \/ \E g \in e .. limit + 1 :
            \/ NeedMore(pos, {}) /\ UNCHANGED <<tree, app>>
            \/ Fatal(g - 1) /\ UNCHANGED tree
            \/ Char(g) = "=" /\ AttributeFromEquals(Slice(n, e - 1), g)
      BY DEF Attribute
<1>3. PICK e \in n .. limit + 1 :
        \/ NeedMore(pos, {}) /\ UNCHANGED <<tree, app>>
        \/ Fatal(IF bytes_mode THEN n - 1 ELSE e - 1) /\ UNCHANGED tree
        \/ \E g \in e .. limit + 1 :
            \/ NeedMore(pos, {}) /\ UNCHANGED <<tree, app>>
            \/ Fatal(g - 1) /\ UNCHANGED tree
            \/ Char(g) = "=" /\ AttributeFromEquals(Slice(n, e - 1), g)
      BY <1>2
<1>4. /\ n \in Nat \ {0} /\ e \in Nat \ {0}
      /\ n - 1 \in 0 .. limit /\ e - 1 \in 0 .. limit
      BY Positions DEF Buffered, IInv
<1>5. CASE NeedMore(pos, {}) /\ UNCHANGED <<tree, app>>
      BY <1>1, <1>5, StepNeedMore
<1>6. CASE Fatal(IF bytes_mode THEN n - 1 ELSE e - 1) /\ UNCHANGED tree
      BY <1>1, <1>4, <1>6, FromTag, StepFatal
<1>7. ASSUME NEW g \in e .. limit + 1, Fatal(g - 1), UNCHANGED tree
      PROVE  IInv'
  <2>1. g - 1 \in 0 .. limit
        BY <1>4, Positions DEF IInv
  <2> QED BY <1>1, <1>7, <2>1, FromTag, StepFatal
<1>8. ASSUME NEW g \in e .. limit + 1, Char(g) = "=",
             AttributeFromEquals(Slice(n, e - 1), g)
      PROVE  IInv'
  <2>1. g \in 1 .. limit
        BY <1>8, CharBuffered
  <2>2. Slice(n, e - 1) \in Text
        BY <1>4, SliceType DEF IInv
  <2> QED BY <1>1, <1>8, <2>1, <2>2, StepAttributeFromEquals
<1> QED BY <1>3, <1>5, <1>6, <1>7, <1>8

\* All steps inside a start tag.
LEMMA StepTag ==
    ASSUME IInv, ScanAttributesAndTagEnd
    PROVE  IInv'
BY StepTagNeedsMore, StepTagFatal, StepEndOfTag, StepEmptyElement, StepAttribute
   DEF ScanAttributesAndTagEnd
-----------------------------------------------------------------------------
(* Attribute values                                                        *)

\* The pieces of an attribute value, the last of which carries end = TRUE.
LEMMA ValuePiece ==
    ASSUME IInv, Running("attribute_value"), NEW stop \in pos + 1 .. limit + 1
    PROVE  Follows(Piece(app, "attribute_value_content", pos + 1, stop - 1, FALSE),
                   "open", element_stack, TRUE, FALSE, {"attribute"})
<1>1. pos + 1 \in Nat \ {0} /\ stop - 1 \in 0 .. limit
      BY Positions DEF IInv
<1>2. /\ "attribute_value_content" \in TextKinds \ {"characters"}
      /\ RunOf["attribute_value_content"] = "attribute"
      BY DEF TextKinds, RunOf
<1>3. TypeOK
      BY DEF IInv
<1> QED BY <1>1, <1>2, <1>3, FromValue, PieceText

\* The value up to where a walk stops is text.
LEMMA ValueText ==
    ASSUME NEW a, NEW stack, NEW text \in Text, NEW end \in BOOLEAN,
           Follows(a, "open", stack, TRUE, FALSE, {"attribute"})
    PROVE  Follows(Deliver(a, Event("attribute_value_content", text, end)),
                   "open", stack, TRUE, FALSE,
                   IF end THEN {"none"} ELSE {"attribute"})
<1>1. /\ "attribute_value_content" \in TextKinds \ {"characters"}
      /\ RunOf["attribute_value_content"] = "attribute"
      BY DEF TextKinds, RunOf
<1> QED BY <1>1, LastText

\* A value cut by the end of the chunk stays open.
LEMMA StepValueNeedsMore ==
    ASSUME IInv, ValueNeedsMore
    PROVE  IInv'
<1>1. Running("attribute_value") /\ UNCHANGED <<runs, tree>>
      BY DEF ValueNeedsMore
<1>2. PICK stop \in pos + 1 .. limit + 1 :
        /\ app' = Piece(app, "attribute_value_content", pos + 1, stop - 1, FALSE)
        /\ NeedMore(stop - 1, {"attribute_value"})
      BY DEF ValueNeedsMore
<1>3. Frame
  <2>1. stop - 1 \in 0 .. limit
        BY Positions DEF IInv
  <2> QED BY <1>1, <1>2, <2>1, FrameOf DEF NeedMore
<1>4. Follows(app', "open", element_stack', TRUE, FALSE, {"attribute"})
      BY <1>1, <1>2, ValuePiece DEF tree
<1> QED BY <1>1, <1>2, <1>3, <1>4, FromValue, LandValue DEF NeedMore, tree

\* What cannot stand in a value is fatal there.
LEMMA StepValueFatal ==
    ASSUME IInv, ValueFatal
    PROVE  IInv'
<1>1. Running("attribute_value") /\ UNCHANGED <<runs, tree>>
      BY DEF ValueFatal
<1>2. PICK stop \in Buffered : Fatal(stop - 1)
      BY DEF ValueFatal
<1>3. stop - 1 \in 0 .. limit
      BY Positions DEF Buffered, IInv
<1> QED BY <1>1, <1>2, <1>3, FromValue, StepFatal

\* The closing quote ends the run, with an empty piece if need be.
LEMMA StepEndOfValue ==
    ASSUME IInv, EndOfValue
    PROVE  IInv'
<1>1. Running("attribute_value") /\ UNCHANGED <<runs, tree>>
      BY DEF EndOfValue
<1>2. PICK stop \in Buffered :
        /\ app' = Deliver(app, Event("attribute_value_content",
                                     Slice(pos + 1, stop - 1), TRUE))
        /\ Done(stop, {"attribute_value"})
      BY DEF EndOfValue
<1>3. /\ pos + 1 \in Nat \ {0} /\ stop - 1 \in 0 .. limit /\ stop \in 0 .. limit
      BY Positions DEF Buffered, IInv
<1>4. Slice(pos + 1, stop - 1) \in Text
      BY <1>3, SliceType DEF IInv
<1>5. Follows(app', "open", element_stack', TRUE, FALSE, {"none"})
      BY <1>1, <1>2, <1>4, FromValue, ValueText DEF tree
<1>6. Frame
      BY <1>1, <1>2, <1>3, FrameOf DEF Done
<1>7. inside' = {"start_tag"} /\ at # "app" /\ element_stack' # <<>>
      BY <1>1, <1>2, FromValue DEF Done, tree
<1> QED BY <1>2, <1>5, <1>6, <1>7, LandTag DEF Done

\* A reference in a value: the text before it, then what it stands for.
LEMMA StepResolved ==
    ASSUME IInv, Running("attribute_value"), UNCHANGED <<runs, tree>>,
           NEW a, Follows(a, "open", element_stack, TRUE, FALSE, {"attribute"}),
           NEW text \in Text, NEW e \in 0 .. limit, NEW at_quote \in BOOLEAN,
           at_quote => e + 1 \in 0 .. limit,
           app' = Deliver(a, Event("attribute_value_content", text, at_quote)),
           IF at_quote THEN Done(e + 1, {"attribute_value"})
                       ELSE Proceed(e, "attribute_value")
    PROVE  IInv'
<1>1. Follows(app', "open", element_stack', TRUE, FALSE,
              IF at_quote THEN {"none"} ELSE {"attribute"})
      BY ValueText DEF tree
<1>2. Frame
      BY FrameOf DEF Done, Proceed
<1>3. CASE at_quote
  <2>1. inside' = {"start_tag"} /\ at # "app" /\ element_stack' # <<>>
        BY <1>3, FromValue DEF Done, tree
  <2> QED BY <1>1, <1>2, <1>3, <2>1, LandTag DEF Done
<1>4. CASE ~at_quote
      BY <1>1, <1>2, <1>4, FromValue, LandValue DEF Proceed, tree
<1> QED BY <1>3, <1>4

\* A reference in a value continues its run and ends it only before the quote.
LEMMA StepValueReference ==
    ASSUME IInv, ValueReference
    PROVE  IInv'
<1> DEFINE Before(amp) == Piece(app, "attribute_value_content", pos + 1, amp - 1, FALSE)
           Resolved(a, text, e) ==
               /\ app' = Deliver(a, Event("attribute_value_content", text, Char(e + 1) = "'"))
               /\ IF Char(e + 1) = "'" THEN Done(e + 1, {"attribute_value"})
                                       ELSE Proceed(e, "attribute_value")
           Failed(amp, p) ==
               /\ app' = Deliver(Before(amp), Call("fatal_error"))
               /\ pos' = p /\ at' = "app" /\ UNCHANGED <<limit, inside, session>>
<1>1. Running("attribute_value") /\ UNCHANGED <<runs, tree>>
      BY DEF ValueReference
<1>2. PICK amp \in At({"&"}) : InValue(amp) /\ \E e \in amp + 1 .. limit + 1 :
        \/ app' = Before(amp) /\ NeedMore(amp - 1, {"attribute_value"})
        \/ Failed(amp, amp - 1)
        \/ e <= limit /\ Resolved(Before(amp), Decoded(amp), e)
        \/ e <= limit /\ Resolved(Deliver(Before(amp),
                             CallOn("skipped_entity", RefName(amp, e))), <<>>, e)
        \/ e <= limit /\ Failed(amp, e)
  <2>1. ASSUME NEW amp \in At({"&"}), NEW e \in amp + 1 .. limit + 1
        PROVE  /\ RefResult(amp, e) \in {"need_more", "malformed", "decoded", "general"}
               /\ RefResult(amp, e) # "need_more" => e <= limit
    <3>1. e \in Nat /\ limit \in Nat
          BY Positions DEF At, Buffered, IInv
    <3> QED BY <3>1 DEF RefResult, CharRef, EntityRef
  <2> QED BY <2>1 DEF ValueReference
<1>3. PICK e \in amp + 1 .. limit + 1 :
        \/ app' = Before(amp) /\ NeedMore(amp - 1, {"attribute_value"})
        \/ Failed(amp, amp - 1)
        \/ e <= limit /\ Resolved(Before(amp), Decoded(amp), e)
        \/ e <= limit /\ Resolved(Deliver(Before(amp),
                             CallOn("skipped_entity", RefName(amp, e))), <<>>, e)
        \/ e <= limit /\ Failed(amp, e)
      BY <1>2
<1>4. /\ amp \in pos + 1 .. limit + 1 /\ amp \in Nat /\ amp - 1 \in 0 .. limit
      /\ e \in Nat /\ (e <= limit => e \in 0 .. limit)
  <2>1. amp \in 1 .. limit /\ amp >= pos + 1
        BY <1>2 DEF At, Buffered, InValue, Walk
  <2> QED BY <2>1, Positions DEF IInv
<1>5. Follows(Before(amp), "open", element_stack, TRUE, FALSE, {"attribute"})
      BY <1>1, <1>4, ValuePiece
<1> HIDE DEF Before
<1>6. CASE app' = Before(amp) /\ NeedMore(amp - 1, {"attribute_value"})
  <2>1. Frame
        BY <1>1, <1>4, <1>6, FrameOf DEF NeedMore
  <2> QED BY <1>1, <1>5, <1>6, <2>1, FromValue, LandValue DEF NeedMore, tree
<1>7. ASSUME NEW p \in 0 .. limit, Failed(amp, p)
      PROVE  IInv'
  <2>1. Frame
        BY <1>1, <1>7, FrameOf
  <2> QED BY <1>1, <1>5, <1>7, <2>1, FromValue, LandFailed DEF Follows, tree
<1>8. ASSUME e <= limit, NEW a, NEW text \in Text, Resolved(a, text, e),
             Follows(a, "open", element_stack, TRUE, FALSE, {"attribute"})
      PROVE  IInv'
  <2>1. Char(e + 1) = "'" => e + 1 \in 0 .. limit
        BY <1>4, CharBuffered
  <2> QED BY <1>1, <1>4, <1>8, <2>1, StepResolved
<1>9. ASSUME e <= limit
      PROVE  Follows(Deliver(Before(amp), CallOn("skipped_entity", RefName(amp, e))),
                     "open", element_stack, TRUE, FALSE, {"attribute"})
  <2>1. RefName(amp, e) \in Text
    <3>1. amp + 1 \in Nat \ {0} /\ e - 1 \in 0 .. limit
          BY <1>3, <1>4, <1>9, Positions DEF IInv
    <3> QED BY <3>1, SliceType DEF RefName, IInv
  <2>2. "skipped_entity" \in Kinds
        BY DEF Kinds
  <2> QED BY <1>5, <2>1, <2>2, CallOnType, FollowsSkippedInValue
<1>10. <<>> \in Text /\ Decoded(amp) \in Text
       BY DecodedType DEF Text
<1> HIDE DEF Resolved, Failed
<1> QED BY <1>3, <1>4, <1>5, <1>6, <1>7, <1>8, <1>9, <1>10

\* All steps inside an attribute value.
LEMMA StepValue ==
    ASSUME IInv, ScanAttributeValue
    PROVE  IInv'
BY StepValueNeedsMore, StepValueFatal, StepEndOfValue, StepValueReference
   DEF ScanAttributeValue
-----------------------------------------------------------------------------
(* Comments, CDATA sections, processing instructions                       *)

\* What follows <! and is neither comment nor CDATA section is fatal.
LEMMA StepBangFatal ==
    ASSUME IInv, BangFatal
    PROVE  IInv'
<1>1. pos \in 0 .. limit
      BY Positions DEF IInv
<1> QED BY <1>1, FromLoose, StepFatal DEF BangFatal, Markup

\* A comment begins between tags.
LEMMA StepStartComment ==
    ASSUME IInv, StartComment
    PROVE  IInv'
<1>1. Running("markup") /\ UNCHANGED <<runs, tree>>
      BY DEF StartComment, Markup
<1>2. CASE NeedMore(pos, {}) /\ UNCHANGED app
      BY <1>1, <1>2, StepNeedMore
<1>3. CASE /\ Char(pos + 4) = "-"
           /\ app' = Deliver(app, Call("start_comment"))
           /\ Proceed(pos + 4, "comment")
  <2>1. "start_comment" \in Kinds
        BY DEF Kinds
  <2>2. Follows(app', "open", element_stack', FALSE, FALSE, {"comment"})
        BY <1>1, <1>3, <2>1, FromLoose, CallType, FollowsStartComment DEF tree
  <2>3. Frame
    <3>1. pos + 4 \in 0 .. limit
          BY <1>3, CharBuffered, Positions DEF IInv
    <3> QED BY <1>1, <1>3, <3>1, FrameOf DEF Proceed
  <2> QED BY <1>1, <1>3, <2>2, <2>3, FromLoose, LandData DEF Proceed
<1> QED BY <1>2, <1>3 DEF StartComment

\* A CDATA section begins inside an element.
LEMMA StepStartCdata ==
    ASSUME IInv, StartCdata
    PROVE  IInv'
<1>1. /\ Running("markup") /\ Char(pos + 3) = "[" /\ element_stack # <<>>
      /\ app' = Deliver(app, Call("start_cdata"))
      /\ cdata_run_open' = FALSE
      /\ Proceed(pos + 3, "cdata")
      /\ UNCHANGED <<content_run_open, content_bracket_run, tree>>
      BY DEF StartCdata, Markup, InsideDocument
<1>2. "start_cdata" \in Kinds
      BY DEF Kinds
<1>3. Follows(app', "open", element_stack', FALSE, TRUE, {"none"})
      BY <1>1, <1>2, FromLoose, CallType, FollowsStartCdata DEF tree
<1>4. Frame
  <2>1. pos + 3 \in 0 .. limit
        BY <1>1, CharBuffered, Positions DEF IInv
  <2> QED BY <1>1, <2>1 DEF Frame, Proceed, tree, IInv, TypeOK
<1>5. Follows(app', "open", element_stack', FALSE, TRUE, Loose)
      BY <1>3, FollowsWeaker DEF Loose
<1> QED BY <1>1, <1>4, <1>5, FromLoose, LandCdata DEF Proceed, tree

\* A processing instruction begins between tags.
LEMMA StepStartPI ==
    ASSUME IInv, StartPI
    PROVE  IInv'
<1>1. Running("markup") /\ UNCHANGED <<runs, tree>> /\ pos \in 0 .. limit
      BY Positions DEF StartPI, Markup, IInv
<1>2. PICK e \in pos + 3 .. limit + 1 :
        \/ NeedMore(pos, {}) /\ UNCHANGED app
        \/ Fatal(pos)
        \/ /\ Named(pos + 3, e)
           /\ app' = Deliver(app, CallOn("pi_target", Slice(pos + 3, e - 1)))
           /\ Proceed(IF Char(e) = "w" THEN e ELSE e - 1, "pi")
      BY DEF StartPI
<1>3. CASE NeedMore(pos, {}) /\ UNCHANGED app
      BY <1>1, <1>3, StepNeedMore
<1>4. CASE Fatal(pos)
      BY <1>1, <1>4, FromLoose, StepFatal
<1>5. CASE /\ Named(pos + 3, e)
           /\ app' = Deliver(app, CallOn("pi_target", Slice(pos + 3, e - 1)))
           /\ Proceed(IF Char(e) = "w" THEN e ELSE e - 1, "pi")
  <2>1. pos + 3 \in Nat \ {0} /\ e - 1 \in 0 .. limit
        BY Positions DEF IInv
  <2>2. Slice(pos + 3, e - 1) \in Text /\ e \in 0 .. limit
        BY <1>5, <2>1, NameType, Positions DEF IInv
  <2>3. "pi_target" \in Kinds
        BY DEF Kinds
  <2>4. Follows(app', "open", element_stack', FALSE, FALSE, {"pi"})
        BY <1>1, <1>5, <2>2, <2>3, FromLoose, CallOnType, FollowsPITarget DEF tree
  <2>5. Frame
        BY <1>1, <1>5, <2>1, <2>2, FrameOf DEF Proceed
  <2> QED BY <1>1, <1>5, <2>4, <2>5, FromLoose, LandData DEF Proceed
<1> QED BY <1>2, <1>3, <1>4, <1>5

\* Illegal data of a comment, CDATA section or PI is fatal.
LEMMA StepDataFatal ==
    ASSUME IInv, NEW f \in {"comment", "pi", "cdata"}, NEW Stops, DataFatal(f, Stops)
    PROVE  IInv'
<1>1. pos \in 0 .. limit
      BY Positions DEF IInv
<1> QED BY <1>1, FromData, StepFatal DEF DataFatal

\* The data so far goes out as an unfinished piece.
LEMMA StepDataNeedsMore ==
    ASSUME IInv, NEW f \in {"comment", "pi", "cdata"}, NEW kind, NEW Stops, NEW short,
           f = "cdata" => kind = "characters",
           f # "cdata" => kind \in TextKinds \ {"characters"} /\ RunOf[kind] = f,
           DataNeedsMore(f, kind, Stops, short)
    PROVE  IInv'
<1>1. /\ Running(f) /\ UNCHANGED <<content_run_open, content_bracket_run, tree>>
      BY DEF DataNeedsMore
<1>2. PICK stop \in pos + 1 .. limit + 1 :
        /\ app' = Piece(app, kind, pos + 1, stop - 1, FALSE)
        /\ cdata_run_open' = (cdata_run_open \/ (f = "cdata" /\ stop > pos + 1))
        /\ NeedMore(stop - 1, {f})
      BY DEF DataNeedsMore
<1>3. pos + 1 \in Nat \ {0} /\ stop - 1 \in 0 .. limit /\ TypeOK
      BY Positions DEF IInv
<1>4. Frame
      BY <1>1, <1>2, <1>3 DEF Frame, NeedMore, tree, IInv, TypeOK
<1>5. at # "app" /\ inside' = {f} /\ at' = "app" /\ element_stack' = element_stack
      BY <1>1, <1>2, FromData DEF NeedMore, tree
<1>6. CASE f = "cdata"
      BY <1>1, <1>2, <1>3, <1>4, <1>5, <1>6, FromData, PieceCharacters, LandCdata
<1>7. CASE f # "cdata"
  <2>1. Follows(app', "open", element_stack', FALSE, FALSE, {f})
        BY <1>1, <1>2, <1>3, <1>5, <1>7, FromData, PieceText
  <2> QED BY <1>4, <1>5, <1>7, <2>1, LandData
<1> QED BY <1>6, <1>7

\* The last piece of a comment or a PI.
LEMMA StepDataEnd ==
    ASSUME IInv, NEW f \in {"comment", "pi"}, Running(f), UNCHANGED <<runs, tree>>,
           NEW kind \in TextKinds \ {"characters"}, RunOf[kind] = f,
           NEW stop \in pos + 1 .. limit, NEW p \in 0 .. limit,
           app' = Deliver(app, Event(kind, Slice(pos + 1, stop - 1), TRUE)),
           Done(p, {f})
    PROVE  IInv'
<1>1. pos + 1 \in Nat \ {0} /\ stop - 1 \in 0 .. limit
      BY Positions DEF IInv
<1>2. Slice(pos + 1, stop - 1) \in Text
      BY <1>1, SliceType DEF IInv
<1>3. Follows(app', "open", element_stack', FALSE, FALSE, {"none"})
      BY <1>2, FromData, LastText DEF tree
<1>4. Frame
      BY FrameOf DEF Done
<1>5. inside' = {} /\ at # "app"
      BY FromData DEF Done
<1> QED BY <1>3, <1>4, <1>5, FollowsWeaker, LandLoose DEF Done, Loose

\* A stop before the end mark is in the buffer.
LEMMA StopType ==
    ASSUME IInv, NEW Stops, NEW stop \in Stops, InData(Stops, stop),
           stop \in Buffered
    PROVE  stop \in pos + 1 .. limit
BY Positions DEF InData, Walk, Buffered, IInv

\* The data of a comment is one run, ended before the comment is left.
LEMMA StepComment ==
    ASSUME IInv, CommentData
    PROVE  IInv'
<1>1. /\ "comment_data" \in TextKinds \ {"characters"}
      /\ RunOf["comment_data"] = "comment"
      BY DEF TextKinds, RunOf
<1>2. CASE DataFatal("comment", CommentStop)
      BY <1>2, StepDataFatal
<1>3. CASE DataNeedsMore("comment", "comment_data", CommentStop, 2)
      BY <1>1, <1>3, StepDataNeedsMore
<1>4. ASSUME Running("comment"), UNCHANGED <<runs, tree>>,
             NEW stop \in CommentStop, InData(CommentStop, stop), stop + 2 <= limit,
             \/ /\ app' = Deliver(app, Event("comment_data", Slice(pos + 1, stop - 1), TRUE))
                /\ Done(stop + 2, {"comment"})
             \/ Fatal(pos)
      PROVE  IInv'
  <2>1. stop \in pos + 1 .. limit
        BY <1>4, StopType DEF CommentStop, At
  <2>2. stop + 2 \in 0 .. limit /\ pos \in 0 .. limit
        BY <1>4, <2>1, Positions DEF IInv
  <2>3. CASE Fatal(pos)
        BY <1>4, <2>2, <2>3, FromData, StepFatal
  <2>4. CASE /\ app' = Deliver(app, Event("comment_data", Slice(pos + 1, stop - 1), TRUE))
             /\ Done(stop + 2, {"comment"})
        BY <1>1, <1>4, <2>1, <2>2, <2>4, StepDataEnd
  <2> QED BY <1>4, <2>3, <2>4
<1> QED BY <1>2, <1>3, <1>4 DEF CommentData

\* The data of a PI is one run, ended before the PI is left.
LEMMA StepPI ==
    ASSUME IInv, PIData
    PROVE  IInv'
<1>1. "pi_data" \in TextKinds \ {"characters"} /\ RunOf["pi_data"] = "pi"
      BY DEF TextKinds, RunOf
<1>2. CASE DataFatal("pi", PIStop)
      BY <1>2, StepDataFatal
<1>3. CASE DataNeedsMore("pi", "pi_data", PIStop, 1)
      BY <1>1, <1>3, StepDataNeedsMore
<1>4. ASSUME Running("pi"), UNCHANGED <<runs, tree>>,
             NEW stop \in PIStop, InData(PIStop, stop), stop + 1 <= limit,
             app' = Deliver(app, Event("pi_data", Slice(pos + 1, stop - 1), TRUE)),
             Done(stop + 1, {"pi"})
      PROVE  IInv'
  <2>1. stop \in pos + 1 .. limit
        BY <1>4, StopType DEF PIStop, At
  <2>2. stop + 1 \in 0 .. limit
        BY <1>4, <2>1, Positions DEF IInv
  <2> QED BY <1>1, <1>4, <2>1, <2>2, StepDataEnd
<1> QED BY <1>2, <1>3, <1>4 DEF PIData

\* The text of a CDATA section is ended before end_cdata, if there was any.
LEMMA StepCdata ==
    ASSUME IInv, CdataContent
    PROVE  IInv'
<1>1. CASE DataFatal("cdata", CdataStop)
      BY <1>1, StepDataFatal
<1>2. CASE DataNeedsMore("cdata", "characters", CdataStop, 2)
      BY <1>2, StepDataNeedsMore
<1> DEFINE Last(stop) ==
        IF stop > pos + 1 \/ cdata_run_open
        THEN Deliver(app, Event("characters", Slice(pos + 1, stop - 1), TRUE)) ELSE app
<1>3. ASSUME Running("cdata"), NEW stop \in CdataStop, InData(CdataStop, stop),
             stop + 2 <= limit,
             app' = Deliver(Last(stop), Call("end_cdata")),
             cdata_run_open' = FALSE, Done(stop + 2, {"cdata"}),
             UNCHANGED <<content_run_open, content_bracket_run, tree>>
      PROVE  IInv'
  <2>1. stop \in pos + 1 .. limit
        BY <1>3, StopType DEF CdataStop, At
  <2>2. /\ pos + 1 \in Nat \ {0} /\ stop - 1 \in 0 .. limit
        /\ stop + 2 \in 0 .. limit
        BY <1>3, <2>1, Positions DEF IInv
  <2>3. Slice(pos + 1, stop - 1) \in Text
        BY <2>2, SliceType DEF IInv
  <2>4. Follows(Last(stop), "open", element_stack, FALSE, TRUE, Loose)
        BY <1>3, <2>3, FromData, ClosingPiece
  <2> HIDE DEF Last
  <2>5. "end_cdata" \in Kinds
        BY DEF Kinds
  <2>6. Follows(app', "open", element_stack', FALSE, FALSE, {"none"})
        BY <1>3, <2>4, <2>5, CallType, FollowsEndCdata DEF tree
  <2>7. Frame
        BY <1>3, <2>2 DEF Frame, Done, tree, IInv, TypeOK
  <2>8. inside' = {} /\ at # "app"
        BY <1>3, FromData DEF Done
  <2> QED BY <1>3, <2>6, <2>7, <2>8, FollowsWeaker, LandLoose DEF Done, Loose
<1> QED BY <1>1, <1>2, <1>3 DEF CdataContent

\* Every step of the scan loop keeps the invariant.
LEMMA StepScan ==
    ASSUME IInv, Scan
    PROVE  IInv'
BY StepReturn, StepContent, StepStartTag, StepEndTag, StepBangFatal,
   StepStartComment, StepStartCdata, StepStartPI, StepTag, StepValue,
   StepComment, StepCdata, StepPI DEF Scan, ScanMarkup
-----------------------------------------------------------------------------
(* The application's calls                                                 *)

\* A fresh handler has followed a document that has not begun.
LEMMA FreshFollows ==
    Follows(FreshApp, "none", <<>>, FALSE, FALSE, Loose)
<1>1. <<>> \in Seq(Text) /\ <<>> \in Seq(Kinds \X Text)
      OBVIOUS
<1>2. FreshApp \in App
      BY <1>1 DEF FreshApp, App, Runs
<1> QED BY <1>2 DEF FreshApp, Follows, Sound, Loose

\* A fresh scanner satisfies the invariant.
LEMMA FreshInv ==
    (Fresh /\ input \in Text /\ resets \in 0 .. MaxResets) => IInv
<1> SUFFICES ASSUME Fresh, input \in Text, resets \in 0 .. MaxResets
             PROVE  IInv
    OBVIOUS
<1>1. app \in App
      BY FreshFollows DEF Fresh, Follows, Sound
<1>2. <<>> \in Seq(Text) /\ Len(input) \in Nat
      BY DEF Text
<1>3. TypeOK
  <2>1. limit \in 0 .. Len(input) /\ pos \in 0 .. limit /\ content_bracket_run \in Nat
        BY <1>2 DEF Fresh
  <2>2. /\ at \in {"app", "scan", "content"} \cup Phases
        /\ inside \subseteq Phases \cup {"start_tag"}
        BY DEF Fresh
  <2>3. element_stack \in Seq(Text) /\ seen_attribute_names \subseteq Text
        BY <1>2 DEF Fresh
  <2>4. /\ bytes_mode \in BOOLEAN /\ document_started \in BOOLEAN
        /\ content_run_open \in BOOLEAN /\ cdata_run_open \in BOOLEAN
        /\ root_started \in BOOLEAN /\ root_ended \in BOOLEAN
        /\ closed \in BOOLEAN /\ decoder_closed \in BOOLEAN
        BY DEF Fresh
  <2> QED BY <1>1, <2>1, <2>2, <2>3, <2>4 DEF TypeOK
<1>4. OneToken /\ Session
      BY DEF Fresh, OneToken, Session, InPhase
<1>5. ("start_tag" \in inside) = FALSE /\ InPhase("cdata") = FALSE
      BY DEF Fresh, InPhase
<1>6. Doc = "none" /\ OpenRuns = Loose
      BY DEF Fresh, Doc, OpenRuns, InPhase
<1>7. Agrees
      BY <1>5, <1>6, FreshFollows DEF Agrees, Fresh
<1> QED BY <1>3, <1>4, <1>7 DEF IInv

\* start_document is the first call of a document, and its only one.
LEMMA StepSetEncoding ==
    ASSUME IInv, SetEncoding
    PROVE  IInv'
<1>1. /\ at = "app" /\ ~document_started /\ bytes_mode' \in BOOLEAN
      /\ document_started' = TRUE
      /\ app' = Deliver(app, Call("start_document"))
      /\ UNCHANGED <<position, at, inside, runs, tree, input, closed, decoder_closed, resets>>
      BY DEF SetEncoding
<1>2. inside = {} /\ element_stack = <<>> /\ ~decoder_closed
      BY <1>1 DEF IInv, Session
<1>3. Follows(app, "none", element_stack, FALSE, FALSE, Loose)
  <2>1. ("start_tag" \in inside) = FALSE /\ InPhase("cdata") = FALSE
        BY <1>1, <1>2 DEF InPhase
  <2>2. Doc = "none" /\ OpenRuns = Loose
        BY <1>1, <1>2 DEF Doc, OpenRuns, InPhase
  <2> QED BY <2>1, <2>2 DEF IInv, Agrees
<1>4. "start_document" \in Kinds
      BY DEF Kinds
<1>5. Follows(app', "open", element_stack', FALSE, FALSE, Loose)
      BY <1>1, <1>3, <1>4, CallType, FollowsStartDocument DEF tree
<1>6. app' \in App
      BY <1>5 DEF Follows, Sound
<1>7. TypeOK'
      BY <1>1, <1>6 DEF IInv, TypeOK, position, runs, tree
<1>8. OneToken' /\ Session'
      BY <1>1, <1>2 DEF IInv, OneToken, Session, InPhase, tree
<1>9. ("start_tag" \in inside') = FALSE /\ InPhase("cdata")' = FALSE
      BY <1>1, <1>2 DEF InPhase
<1>10. Doc' = "open" /\ OpenRuns' = Loose
      BY <1>1, <1>2 DEF Doc, OpenRuns, InPhase
<1>11. Agrees'
      BY <1>5, <1>9, <1>10 DEF Agrees
<1> QED BY <1>7, <1>8, <1>11 DEF IInv

\* The arrival of a chunk changes nothing that was reported.
LEMMA StepReceive ==
    ASSUME IInv, Receive
    PROVE  IInv'
<1>1. /\ at = "app" /\ document_started /\ ~decoder_closed
      /\ limit' \in limit + 1 .. Len(input) /\ at' = "scan"
      /\ UNCHANGED <<pos, inside, runs, tree, session, app>>
      BY DEF Receive, Allowed
<1>2. TypeOK'
  <2>1. limit' \in 0 .. Len(input') /\ pos' \in 0 .. limit'
        BY <1>1, Positions DEF IInv, session
  <2> QED BY <1>1, <2>1 DEF IInv, TypeOK, runs, tree, session
<1>3. OneToken' /\ Session'
      BY <1>1 DEF IInv, OneToken, Session, InPhase, tree, session
<1>4. /\ ("start_tag" \in inside') = ("start_tag" \in inside)
      /\ InPhase("cdata")' = InPhase("cdata")
      BY <1>1 DEF InPhase
<1>5. Doc' = Doc /\ OpenRuns' = OpenRuns
      BY <1>1 DEF Doc, OpenRuns, InPhase, session
<1>6. Agrees'
      BY <1>1, <1>4, <1>5 DEF IInv, Agrees, tree
<1> QED BY <1>2, <1>3, <1>6 DEF IInv

\* Input after the end of the document is fatal.
LEMMA StepReceiveAfterEnd ==
    ASSUME IInv, ReceiveAfterEnd
    PROVE  IInv'
<1>1. /\ app' = Deliver(app, Call("fatal_error"))
      /\ UNCHANGED <<position, at, inside, runs, tree, session>>
      BY DEF ReceiveAfterEnd
<1>2. Sound(app)
      BY DEF IInv, Agrees, Follows
<1>3. Agrees'
      BY <1>1, <1>2, FollowsFatal DEF Agrees
<1>4. app' \in App
      BY <1>3 DEF Agrees, Follows, Sound
<1>5. TypeOK' /\ OneToken' /\ Session'
      BY <1>1, <1>4
      DEF IInv, TypeOK, OneToken, Session, InPhase, position, runs, tree, session
<1> QED BY <1>3, <1>5 DEF IInv

\* end_document is told only outside every tag, section and element.
LEMMA StepClose ==
    ASSUME IInv, Close
    PROVE  IInv'
<1>1. /\ at = "app" /\ document_started /\ ~closed /\ closed' = TRUE
      /\ UNCHANGED <<position, at, inside, runs, tree, input, bytes_mode,
                     document_started, resets>>
      BY DEF Close, Allowed
<1>2. \/ /\ "start_tag" \notin inside /\ element_stack = <<>>
         /\ app' = Deliver(app, Call("end_document")) /\ decoder_closed' = TRUE
      \/ app' = Deliver(app, Call("fatal_error")) /\ decoder_closed' = decoder_closed
      BY DEF Close, InsideDocument, IInv, TypeOK
<1>3. ~decoder_closed
      BY <1>1 DEF IInv, Session
<1>4. decoder_closed' \in BOOLEAN /\ OneToken' /\ Session'
  <2>1. decoder_closed' \in BOOLEAN
        BY <1>2 DEF IInv, TypeOK
  <2>2. OneToken'
        BY <1>1 DEF IInv, OneToken, InPhase, tree
  <2>3. Session'
        BY <1>1, <1>2, <1>3 DEF IInv, Session, InPhase, tree
  <2> QED BY <2>1, <2>2, <2>3
<1>5. Agrees'
  <2>1. CASE app' = Deliver(app, Call("fatal_error"))
    <3>1. Sound(app)
          BY DEF IInv, Agrees, Follows
    <3> QED BY <2>1, <3>1, FollowsFatal DEF Agrees
  <2>2. CASE /\ "start_tag" \notin inside /\ element_stack = <<>>
             /\ app' = Deliver(app, Call("end_document")) /\ decoder_closed' = TRUE
    <3>1. ("start_tag" \in inside) = FALSE /\ InPhase("cdata") = FALSE
          BY <1>1, <2>2 DEF IInv, OneToken, InPhase
    <3>2. Doc = "open" /\ Doc' = "ended" /\ OpenRuns' = OpenRuns
          BY <1>1, <1>3, <2>2 DEF Doc, OpenRuns, InPhase
    <3>3. Follows(app, "open", <<>>, FALSE, FALSE, OpenRuns)
          BY <2>2, <3>1, <3>2 DEF IInv, Agrees
    <3>4. "end_document" \in Kinds
          BY DEF Kinds
    <3>5. Follows(app', "ended", <<>>, FALSE, FALSE, OpenRuns)
          BY <2>2, <3>3, <3>4, CallType, FollowsEndDocument
    <3>6. /\ ("start_tag" \in inside') = FALSE /\ InPhase("cdata")' = FALSE
          /\ element_stack' = <<>>
          BY <1>1, <2>2, <3>1 DEF InPhase, tree
    <3> QED BY <3>2, <3>5, <3>6 DEF Agrees
  <2> QED BY <1>2, <2>1, <2>2
<1>6. app' \in App
      BY <1>5 DEF Agrees, Follows, Sound
<1>7. TypeOK'
      BY <1>1, <1>4, <1>6 DEF IInv, TypeOK, position, runs, tree
<1> QED BY <1>4, <1>5, <1>7 DEF IInv

\* reset() leaves a fresh scanner.
LEMMA StepReset ==
    ASSUME IInv, Reset
    PROVE  IInv'
<1>1. Fresh'
      BY DEF Reset, ResetFlags, ResetRuns, ResetTree, Fresh
<1>2. input' \in Text
      BY DocumentsAssumption DEF Reset
<1>3. resets' \in 0 .. MaxResets
      BY SettingsAssumption DEF Reset, IInv, TypeOK
<1>4. (Fresh /\ input \in Text /\ resets \in 0 .. MaxResets => IInv)'
      BY FreshInv, PTL
<1> QED BY <1>1, <1>2, <1>3, <1>4

-----------------------------------------------------------------------------
(* The theorems                                                            *)

\* The invariant is inductive.
THEOREM Invariance == Spec => []IInv
<1>1. Init => IInv
  <2>1. ASSUME Init
        PROVE  Fresh /\ input \in Text /\ resets \in 0 .. MaxResets
        BY <2>1, DocumentsAssumption, SettingsAssumption DEF Init
  <2> QED BY <2>1, FreshInv
<1>2. IInv /\ [Next]_vars => IInv'
  <2> SUFFICES ASSUME IInv, [Next]_vars
               PROVE  IInv'
      OBVIOUS
  <2>1. CASE SetEncoding
        BY <2>1, StepSetEncoding
  <2>2. CASE Receive
        BY <2>2, StepReceive
  <2>3. CASE ReceiveAfterEnd
        BY <2>3, StepReceiveAfterEnd
  <2>4. CASE Close
        BY <2>4, StepClose
  <2>5. CASE Reset
        BY <2>5, StepReset
  <2>6. CASE Scan
        BY <2>6, StepScan
  <2>7. CASE UNCHANGED vars
        BY <2>7 DEF vars, position, runs, tree, session, IInv, TypeOK, OneToken,
                    Session, Agrees, InPhase, OpenRuns, Doc
  <2> QED BY <2>1, <2>2, <2>3, <2>4, <2>5, <2>6, <2>7 DEF Next
<1> QED BY <1>1, <1>2, PTL DEF Spec

\* Every variable of the scanner keeps its type, whatever is fed in whatever
\* chunks: positions stay in the buffer, and what goes out is text.
THEOREM TypeCorrectness == Spec => []TypeOK
<1>1. IInv => TypeOK
      BY DEF IInv
<1> QED BY <1>1, Invariance, PTL

\* The handler hears every event where the contract of docs/handler.html has
\* a place for it.
THEOREM EventsInOrder == Spec => []EventOrder
<1>1. IInv => EventOrder
      BY DEF IInv, Agrees, Follows, Sound, EventOrder
<1> QED BY <1>1, Invariance, PTL

\* No run but a character run is torn: attribute values, comments and PIs are
\* streamed to the call with end = TRUE before any other event.
THEOREM OnlyCharacterRunsTorn == Spec => []RunsCompleted
<1>1. IInv => RunsCompleted
      BY DEF IInv, Agrees, Follows, Sound, RunsCompleted
<1> QED BY <1>1, Invariance, PTL

\* The stack a handler keeps from start_element and end_element is the
\* scanner's element_stack.
THEOREM StacksAlwaysAgree == Spec => []StacksAgree
<1>1. IInv => StacksAgree
      BY DEF IInv, Agrees, Follows, StacksAgree
<1> QED BY <1>1, Invariance, PTL
-----------------------------------------------------------------------------
(* Text is whole.  A second invariant, beside IInv: the position never     *)
(* stands inside a UTF-8 sequence.  A walk over text then begins at a      *)
(* whole character and, because it takes the end of every sequence whose   *)
(* beginning it has taken, stops behind one.                               *)

\* A handler that has not been handed half of a UTF-8 sequence.
Unsplit(a) == "split" \in DOMAIN a /\ ~a.split

\* The position lies behind a whole character: the next byte, if it continues
\* a sequence, continues none that has begun.
Boundary(p) == p > 0 => input[p] # CLead

WInv == Unsplit(app) /\ Boundary(pos)

\* One more call leaves the handler so, unless it cuts a text.
LEMMA DeliverUnsplit ==
    ASSUME NEW a, Unsplit(a), NEW kind, NEW data, NEW end,
           kind \in TextKinds => ~Cuts(data)
    PROVE  Unsplit(Deliver(a, Event(kind, data, end)))
<1>1. CASE a.failed
      BY <1>1 DEF Deliver, Unsplit
<1>2. CASE ~a.failed
      BY <1>2 DEF Deliver, Unsplit, Event
<1> QED BY <1>1, <1>2

\* A set of positions a scan function walks over: whole characters, and all
\* those that end a UTF-8 sequence.
Walks(S) == /\ S \subseteq Buffered /\ \A j \in S : Whole(j)
            /\ \A j \in Buffered : Whole(j) /\ Char(j) = CCont => j \in S

\* A walk over whole characters ends behind a whole character.
LEMMA WalkEnds ==
    ASSUME TypeOK, NEW from \in Nat \ {0}, NEW S, Walks(S), NEW stop, Walk(from, S, stop),
           stop > from
    PROVE  input[stop - 1] # CLead
<1>1. /\ limit \in Nat /\ stop \in from + 1 .. limit + 1
      /\ stop - 1 \in from .. stop - 1 /\ stop - 1 \in Buffered
      BY Positions DEF Walk, Buffered
<1>2. Whole(stop - 1) /\ Char(stop - 1) = input[stop - 1]
      BY <1>1 DEF Walk, Walks, Char
<1> SUFFICES ASSUME input[stop - 1] = CLead PROVE FALSE
    OBVIOUS
<1>3. stop \in Buffered
      BY <1>1, <1>2 DEF Whole, Unfinished, Buffered
<1>4. Char(stop) = CCont
  <2>1. Char(stop) = input[stop] /\ input[stop] \in Lexeme
        BY <1>1, <1>3, Positions DEF Char, TypeOK, Text, Buffered
  <2>2. "end" \notin Lexeme
        BY DEF Lexeme, NameChars, NameStartChars, Digits, Punctuation, CLead, CCont
  <2>3. (stop - 1) + 1 = stop
        BY <1>1
  <2>4. Char((stop - 1) + 1) \in {CCont, "end"}
        BY <1>2 DEF Whole, IllFormed
  <2> QED BY <2>1, <2>2, <2>3, <2>4
<1>5. Whole(stop)
      BY <1>1, <1>2, <1>3, <1>4 DEF Whole, IllFormed, Unfinished, CLead, CCont, Buffered
<1> QED BY <1>3, <1>4, <1>5 DEF Walks, Walk

\* The text of a walk that begins at a boundary cuts nothing.
LEMMA WalkText ==
    ASSUME TypeOK, NEW from \in Nat \ {0}, NEW S, Walks(S), NEW stop, Walk(from, S, stop),
           Boundary(from - 1)
    PROVE  ~Cuts(Slice(from, stop - 1))
<1>1. limit \in Nat /\ stop \in from .. limit + 1 /\ input \in Seq(Lexeme) /\ limit <= Len(input)
      BY Positions DEF Walk, TypeOK, Text
<1> SUFFICES ASSUME Cuts(Slice(from, stop - 1)) PROVE FALSE
    OBVIOUS
<1>2. CASE stop = from
      BY <1>1, <1>2 DEF Cuts, Slice
<1>3. CASE stop > from
  <2>1. Len(Slice(from, stop - 1)) = stop - from
        BY <1>1, <1>3, SubSeqProperties DEF Slice
  <2>2. /\ Slice(from, stop - 1)[1] = input[from]
        /\ Slice(from, stop - 1)[stop - from] = input[stop - 1]
        BY <1>1, <1>3, SubSeqProperties DEF Slice
  <2>3. input[stop - 1] # CLead
        BY <1>3, WalkEnds
  <2>4. input[from] = CCont
        BY <2>1, <2>2, <2>3 DEF Cuts
  <2>5. from \in Buffered /\ Whole(from)
        BY <1>1, <1>3 DEF Walk, Walks, Buffered
  <2>6. Char(from) = CCont /\ Char(from - 1) = CLead
        BY <2>4, <2>5 DEF Whole, IllFormed, Char
  <2>7. from - 1 > 0 /\ input[from - 1] = CLead
        BY <2>6, CharBuffered DEF Char, Buffered, CLead
  <2> QED BY <2>7 DEF Boundary
<1> QED BY <1>1, <1>2, <1>3

\* Every scan function walks over such a set.
LEMMA WalkedSets ==
    Walks(ContentAt) /\ Walks(ValueAt) /\ Walks(NameAt)
<1>1. Walks(ContentAt)
      BY DEF Walks, ContentAt, LegalAt, CCont
<1>2. Walks(ValueAt)
      BY DEF Walks, ValueAt, LegalAt, CCont
<1>3. Walks(NameAt)
      BY DEF Walks, NameAt
<1> QED BY <1>1, <1>2, <1>3

\* So do the three that look for an end mark.
LEMMA WalkedData ==
    /\ Walks(LegalAt \ CommentStop) /\ Walks(LegalAt \ CdataStop)
    /\ Walks(LegalAt \ PIStop)
<1>1. Walks(LegalAt \ CommentStop)
      BY DEF Walks, CommentStop, LegalAt, At, Char, CCont
<1>2. Walks(LegalAt \ CdataStop)
      BY DEF Walks, CdataStop, LegalAt, At, Char, CCont
<1>3. Walks(LegalAt \ PIStop)
      BY DEF Walks, PIStop, LegalAt, At, Char, CCont
<1> QED BY <1>1, <1>2, <1>3

\* The text between the position and the end of a walk cuts nothing, and what
\* follows it begins with a whole character.
LEMMA PieceUnsplit ==
    ASSUME TypeOK, WInv, NEW S, Walks(S), NEW stop, Walk(pos + 1, S, stop),
           NEW a, Unsplit(a), NEW kind, NEW end
    PROVE  /\ Unsplit(Deliver(a, Event(kind, Slice(pos + 1, stop - 1), end)))
           /\ Unsplit(Piece(a, kind, pos + 1, stop - 1, end))
           /\ Boundary(stop - 1)
<1>1. pos \in Nat /\ limit \in Nat /\ pos + 1 \in Nat \ {0} /\ (pos + 1) - 1 = pos
      BY Positions
<1>2. stop \in pos + 1 .. limit + 1
      BY DEF Walk
<1>3. ~Cuts(Slice(pos + 1, stop - 1))
      BY <1>1, WalkText DEF WInv
<1>4. Unsplit(Deliver(a, Event(kind, Slice(pos + 1, stop - 1), end)))
      BY <1>3, DeliverUnsplit
<1>5. Unsplit(Piece(a, kind, pos + 1, stop - 1, end))
      BY <1>4 DEF Piece
<1>6. Boundary(stop - 1)
  <2>1. CASE stop = pos + 1
        BY <1>1, <2>1 DEF WInv
  <2>2. CASE stop # pos + 1
    <3>1. stop > pos + 1
          BY <1>1, <1>2, <2>2
    <3> QED BY <1>1, <3>1, WalkEnds DEF Boundary
  <2> QED BY <2>1, <2>2
<1> QED BY <1>4, <1>5, <1>6

\* The position of a character other than a lead byte is a boundary.
LEMMA BehindChar ==
    ASSUME NEW p, Char(p) # CLead, Char(p) # "end"
    PROVE  Boundary(p)
BY DEF Boundary, Char

\* What a step of the scan loop must show.
LEMMA LandWhole ==
    ASSUME UNCHANGED session, Unsplit(app'), Boundary(pos')
    PROVE  WInv'
BY DEF WInv, Boundary, session, Unsplit

\* An event without text, and the texts that are not slices.
LEMMA CallUnsplit ==
    ASSUME NEW a, Unsplit(a), NEW name
    PROVE  /\ \A kind \in Kinds \ TextKinds : Unsplit(Deliver(a, CallOn(kind, name)))
           /\ \A kind : Unsplit(Deliver(a, Call(kind)))
           /\ \A kind, end : Unsplit(Deliver(a, Event(kind, <<>>, end)))
           /\ \A kind, end, amp : Unsplit(Deliver(a, Event(kind, Decoded(amp), end)))
<1>1. ~Cuts(<<>>)
      BY DEF Cuts
<1>2. \A amp : ~Cuts(Decoded(amp))
      BY DEF Cuts, Decoded, CCont, CLead
<1>3. \A kind \in Kinds \ TextKinds : Unsplit(Deliver(a, CallOn(kind, name)))
      BY DeliverUnsplit DEF CallOn
<1>4. \A kind : Unsplit(Deliver(a, Call(kind)))
      BY <1>1, DeliverUnsplit DEF Call
<1>5. \A kind, end : Unsplit(Deliver(a, Event(kind, <<>>, end)))
      BY <1>1, DeliverUnsplit
<1>6. \A kind, end, amp : Unsplit(Deliver(a, Event(kind, Decoded(amp), end)))
      BY <1>2, DeliverUnsplit
<1> QED BY <1>3, <1>4, <1>5, <1>6

\* A step that makes no event and stays where it is.
LEMMA WholeStays ==
    ASSUME WInv, UNCHANGED session, app' = app, pos' = pos
    PROVE  WInv'
BY LandWhole DEF WInv

-----------------------------------------------------------------------------
(* The steps of scan_content                                               *)

\* It fails where the walk over the text has stopped.
LEMMA WholeContentFatal ==
    ASSUME IInv, WInv, ContentFatal \/ StrayText
    PROVE  WInv'
<1>1. PICK stop : Walk(pos + 1, ContentAt, stop) /\ Fatal(stop - 1)
      BY DEF ContentFatal, StrayText
<1>2. Boundary(stop - 1)
      BY <1>1, WalkedSets, PieceUnsplit DEF WInv, IInv
<1> QED BY <1>1, <1>2, CallUnsplit, LandWhole DEF Fatal, WInv

\* Character data that reaches the end of the chunk goes out up to the last
\* whole character.
LEMMA WholeContentNeedsMore ==
    ASSUME IInv, WInv, ContentNeedsMore
    PROVE  WInv'
<1>1. PICK stop : /\ Walk(pos + 1, ContentAt, stop)
                  /\ app' = IF InsideDocument
                            THEN Piece(app, "characters", pos + 1, stop - 1, FALSE)
                            ELSE app
                  /\ NeedMore(stop - 1, {})
      BY DEF ContentNeedsMore
<1>2. /\ Unsplit(Piece(app, "characters", pos + 1, stop - 1, FALSE))
      /\ Boundary(stop - 1)
      BY <1>1, WalkedSets, PieceUnsplit DEF WInv, IInv
<1> QED BY <1>1, <1>2, LandWhole DEF NeedMore, WInv

\* Character data that ends at markup is a walk over whole characters.
LEMMA WholeContentToMarkup ==
    ASSUME IInv, WInv, ContentToMarkup
    PROVE  WInv'
<1>1. PICK stop : /\ Walk(pos + 1, ContentAt, stop)
                  /\ app' = IF ~InsideDocument THEN app
                            ELSE IF stop = pos + 1 /\ content_run_open
                                 THEN Deliver(app, Event("characters", <<>>, TRUE))
                                 ELSE Piece(app, "characters", pos + 1, stop - 1, TRUE)
                  /\ Done(stop - 1, {})
      BY DEF ContentToMarkup
<1>2. /\ Unsplit(Piece(app, "characters", pos + 1, stop - 1, TRUE))
      /\ Boundary(stop - 1)
      BY <1>1, WalkedSets, PieceUnsplit DEF WInv, IInv
<1>3. Unsplit(Deliver(app, Event("characters", <<>>, TRUE)))
      BY CallUnsplit DEF WInv
<1> QED BY <1>1, <1>2, <1>3, LandWhole DEF Done, WInv

\* What goes out before a reference.
LEMMA WholeBefore ==
    ASSUME IInv, WInv, NEW amp, AtReference(amp)
    PROVE  Unsplit(BeforeReference(amp)) /\ Boundary(amp - 1)
BY WalkedSets, PieceUnsplit DEF AtReference, BeforeReference, WInv, IInv

\* A reference that was read ends in a semicolon.
LEMMA ReferenceEnds ==
    ASSUME NEW amp, NEW e, RefResult(amp, e) \in {"decoded", "general"}
    PROVE  Boundary(e)
<1>1. Char(e) = ";"
      BY DEF RefResult, CharRef, EntityRef
<1> QED BY <1>1, BehindChar DEF CLead

\* The name of a skipped entity is no text.
LEMMA WholeReference ==
    ASSUME IInv, WInv,
           ReferenceNeedsMore \/ ReferenceMalformed \/ ReferenceDecoded
             \/ ReferenceUndeclared
    PROVE  WInv'
<1>1. CASE ReferenceNeedsMore
  <2>1. PICK amp : /\ AtReference(amp)
                   /\ app' = BeforeReference(amp) /\ NeedMore(amp - 1, {})
        BY <1>1 DEF ReferenceNeedsMore
  <2> QED BY <2>1, WholeBefore, LandWhole DEF NeedMore
<1>2. CASE ReferenceMalformed
  <2>1. PICK amp : /\ AtReference(amp)
                   /\ app' = Deliver(BeforeReference(amp), Call("fatal_error"))
                   /\ pos' = amp - 1 /\ UNCHANGED session
        BY <1>2 DEF ReferenceMalformed
  <2> QED BY <2>1, WholeBefore, CallUnsplit, LandWhole
<1>3. CASE ReferenceDecoded
  <2>1. PICK amp, e, end, f :
           /\ AtReference(amp)
           /\ RefResult(amp, e) = "decoded"
           /\ app' = Deliver(BeforeReference(amp), Event("characters", Decoded(amp), end))
           /\ Proceed(e, f)
        BY <1>3 DEF ReferenceDecoded
  <2> QED BY <2>1, WholeBefore, ReferenceEnds, CallUnsplit, LandWhole DEF Proceed
<1>4. CASE ReferenceUndeclared
  <2>1. PICK amp, e :
           /\ AtReference(amp)
           /\ RefResult(amp, e) = "general"
           /\ app' = Deliver(IF OpenBefore(amp)
                             THEN Deliver(BeforeReference(amp),
                                          Event("characters", <<>>, TRUE))
                             ELSE app,
                             IF SkipDoctype THEN CallOn("skipped_entity", RefName(amp, e))
                             ELSE Call("fatal_error"))
           /\ pos' = e /\ UNCHANGED session
        BY <1>4 DEF ReferenceUndeclared
  <2> DEFINE closing == IF OpenBefore(amp)
                        THEN Deliver(BeforeReference(amp), Event("characters", <<>>, TRUE))
                        ELSE app
  <2>2. Unsplit(closing)
        BY <2>1, WholeBefore, CallUnsplit DEF WInv
  <2>3. "skipped_entity" \in Kinds \ TextKinds
        BY DEF Kinds, TextKinds, RunOf
  <2>4. Unsplit(Deliver(closing, CallOn("skipped_entity", RefName(amp, e))))
        BY <2>2, <2>3, CallUnsplit
  <2>5. Unsplit(Deliver(closing, Call("fatal_error")))
        BY <2>2, CallUnsplit
  <2>6. Unsplit(app')
        BY <2>1, <2>4, <2>5
  <2> QED BY <2>1, <2>6, ReferenceEnds, LandWhole
<1> QED BY <1>1, <1>2, <1>3, <1>4

-----------------------------------------------------------------------------
(* The steps of scan_markup and of a start tag                             *)

\* A step that fails in front of a boundary.
LEMMA WholeFatal ==
    ASSUME WInv, NEW p, Boundary(p), Fatal(p)
    PROVE  WInv'
BY CallUnsplit, LandWhole DEF Fatal, WInv

\* A step that waits for more input where it is.
LEMMA WholeNeedMore ==
    ASSUME WInv, NEW flags, NeedMore(pos, flags), app' = app
    PROVE  WInv'
BY WholeStays DEF NeedMore

\* A name that was read ends behind a whole character.
LEMMA NameEnds ==
    ASSUME IInv, NEW from \in Nat \ {0}, NEW end, Walk(from, NameAt, end), end # from
    PROVE  Boundary(end - 1)
<1>1. end > from
      BY Positions DEF Walk, IInv
<1> QED BY <1>1, WalkedSets, WalkEnds DEF Boundary, IInv

\* White space leaves a boundary behind it when it began at one.
LEMMA SpaceEnds ==
    ASSUME IInv, NEW from \in Nat \ {0}, Boundary(from - 1),
           NEW end, Walk(from, SpaceAt, end)
    PROVE  Boundary(end - 1)
<1>1. end \in from .. limit + 1 /\ limit \in Nat
      BY Positions DEF Walk, IInv
<1>2. CASE end = from
      BY <1>2
<1>3. CASE end # from
  <2>1. end - 1 \in from .. end - 1
        BY <1>1, <1>3
  <2>2. input[end - 1] = "w"
        BY <2>1 DEF Walk, SpaceAt, At
  <2> QED BY <2>2 DEF Boundary, CLead
<1> QED BY <1>2, <1>3

\* The name of a start tag is read to its end, or not at all.
LEMMA WholeStartTag ==
    ASSUME IInv, WInv, StartTag
    PROVE  WInv'
<1>1. PICK end :
        /\ Walk(pos + 2, NameAt, end)
        /\ \/ NeedMore(pos, {}) /\ app' = app
           \/ Fatal(pos)
           \/ /\ Named(pos + 2, end)
              /\ app' = Deliver(app, CallOn("start_element", Slice(pos + 2, end - 1)))
              /\ pos' = end - 1 /\ UNCHANGED session
      BY DEF StartTag
<1>2. CASE NeedMore(pos, {}) /\ app' = app
      BY <1>2, WholeNeedMore
<1>3. CASE Fatal(pos)
      BY <1>3, WholeFatal DEF WInv
<1>4. CASE /\ Named(pos + 2, end)
           /\ app' = Deliver(app, CallOn("start_element", Slice(pos + 2, end - 1)))
           /\ pos' = end - 1 /\ UNCHANGED session
  <2>1. Boundary(end - 1)
        BY <1>1, <1>4, NameEnds, Positions DEF Named, BadName, IInv
  <2>2. "start_element" \in Kinds \ TextKinds
        BY DEF Kinds, TextKinds, RunOf
  <2> QED BY <1>4, <2>1, <2>2, CallUnsplit, LandWhole DEF WInv
<1> QED BY <1>1, <1>2, <1>3, <1>4

\* An end tag is consumed up to its > .
LEMMA WholeEndTag ==
    ASSUME IInv, WInv, EndTag
    PROVE  WInv'
<1>1. PICK close :
        \/ NeedMore(pos, {}) /\ app' = app
        \/ Fatal(pos)
        \/ /\ Char(close) = ">"
           /\ app' = Deliver(app, Call("end_element"))
           /\ Done(close, {})
      BY DEF EndTag
<1>2. CASE NeedMore(pos, {}) /\ app' = app
      BY <1>2, WholeNeedMore
<1>3. CASE Fatal(pos)
      BY <1>3, WholeFatal DEF WInv
<1>4. CASE /\ Char(close) = ">"
           /\ app' = Deliver(app, Call("end_element"))
           /\ Done(close, {})
      BY <1>4, BehindChar, CallUnsplit, LandWhole DEF Done, CLead, WInv
<1> QED BY <1>1, <1>2, <1>3, <1>4

\* White space and the end of a tag are ASCII.
LEMMA WholeTag ==
    ASSUME IInv, WInv, TagNeedsMore \/ TagFatal \/ EndOfTag \/ EmptyElement
    PROVE  WInv'
<1>1. CASE TagNeedsMore
      BY <1>1, WholeNeedMore DEF TagNeedsMore
<1>2. CASE TagFatal
  <2>1. PICK n : InTag(n) /\ Fatal(n - 1)
        BY <1>2 DEF TagFatal
  <2>2. pos + 1 \in Nat \ {0} /\ (pos + 1) - 1 = pos
        BY Positions DEF IInv
  <2>3. Boundary(n - 1)
        BY <2>1, <2>2, SpaceEnds DEF InTag, WInv
  <2> QED BY <2>1, <2>3, WholeFatal
<1>3. CASE EndOfTag
  <2>1. PICK n : /\ Char(n) = ">" /\ app' = Deliver(app, Call("end_attributes"))
                 /\ Done(n, {"start_tag"})
        BY <1>3 DEF EndOfTag
  <2> QED BY <2>1, BehindChar, CallUnsplit, LandWhole DEF Done, CLead, WInv
<1>4. CASE EmptyElement
  <2>1. PICK n : /\ Char(n + 1) = ">"
                 /\ app' = Deliver(Deliver(app, Call("end_attributes")), Call("end_element"))
                 /\ Done(n + 1, {"start_tag"})
        BY <1>4 DEF EmptyElement
  <2> QED BY <2>1, BehindChar, CallUnsplit, LandWhole DEF Done, CLead, WInv
<1> QED BY <1>1, <1>2, <1>3, <1>4

\* An attribute ends at its quote; where it fails or waits, a name or white
\* space has been walked over from its beginning.
LEMMA WholeAttribute ==
    ASSUME IInv, WInv, Attribute
    PROVE  WInv'
<1>1. PICK n, e :
        /\ InTag(n) /\ Walk(n, NameAt, e)
        /\ \/ NeedMore(pos, {}) /\ app' = app
           \/ Fatal(IF bytes_mode THEN n - 1 ELSE e - 1)
           \/ /\ Named(n, e)
              /\ \E g : /\ Walk(e, SpaceAt, g)
                        /\ \/ NeedMore(pos, {}) /\ app' = app
                           \/ Fatal(g - 1)
                           \/ Char(g) = "=" /\ AttributeFromEquals(Slice(n, e - 1), g)
      BY DEF Attribute
<1>2. /\ pos + 1 \in Nat \ {0} /\ (pos + 1) - 1 = pos
      /\ n \in Nat \ {0} /\ e \in Nat \ {0}
      BY <1>1, Positions DEF IInv, InTag, Walk
<1>3. Boundary(n - 1)
      BY <1>1, <1>2, SpaceEnds DEF InTag, WInv
<1>4. Boundary(e - 1)
      BY <1>1, <1>2, <1>3, NameEnds
<1>5. CASE NeedMore(pos, {}) /\ app' = app
      BY <1>5, WholeNeedMore
<1>6. CASE Fatal(IF bytes_mode THEN n - 1 ELSE e - 1)
      BY <1>3, <1>4, <1>6, WholeFatal
<1>7. ASSUME NEW g, Walk(e, SpaceAt, g), Fatal(g - 1)
      PROVE  WInv'
  <2>1. Boundary(g - 1)
        BY <1>2, <1>4, <1>7, SpaceEnds
  <2> QED BY <1>7, <2>1, WholeFatal
<1>8. ASSUME NEW g, NEW name, Char(g) = "=", AttributeFromEquals(name, g)
      PROVE  WInv'
  <2>1. PICK q :
          /\ Walk(g + 1, SpaceAt, q)
          /\ \/ NeedMore(pos, {}) /\ app' = app
             \/ Fatal(q - 1)
             \/ Char(q) = "'" /\ Fatal(q)
             \/ /\ Char(q) = "'"
                /\ app' = Deliver(app, CallOn("start_attribute", name))
                /\ Proceed(q, "attribute_value")
        BY <1>8 DEF AttributeFromEquals
  <2>2. g \in 1 .. limit /\ limit \in Nat
        BY <1>8, CharBuffered, Positions DEF IInv
  <2>3. g + 1 \in Nat \ {0} /\ (g + 1) - 1 = g
        BY <2>2
  <2>4. Boundary(g)
        BY <1>8, BehindChar DEF CLead
  <2>5. Boundary(q - 1)
        BY <2>1, <2>3, <2>4, SpaceEnds
  <2>6. "start_attribute" \in Kinds \ TextKinds
        BY DEF Kinds, TextKinds, RunOf
  <2>7. Char(q) = "'" => Boundary(q)
        BY BehindChar DEF CLead
  <2> QED BY <2>1, <2>5, <2>6, <2>7, WholeNeedMore, WholeFatal, CallUnsplit, LandWhole
          DEF Proceed, WInv
<1> QED BY <1>1, <1>5, <1>6, <1>7, <1>8, WholeNeedMore

-----------------------------------------------------------------------------
(* The steps of attribute values and of data                               *)

\* An attribute value goes out in whole characters.
LEMMA WholeValue ==
    ASSUME IInv, WInv, ValueNeedsMore \/ ValueFatal \/ EndOfValue
    PROVE  WInv'
<1>1. CASE ValueNeedsMore
  <2>1. PICK stop :
          /\ InValue(stop)
          /\ app' = Piece(app, "attribute_value_content", pos + 1, stop - 1, FALSE)
          /\ NeedMore(stop - 1, {"attribute_value"})
        BY <1>1 DEF ValueNeedsMore
  <2> QED BY <2>1, WalkedSets, PieceUnsplit, LandWhole DEF InValue, NeedMore, WInv, IInv
<1>2. CASE ValueFatal
  <2>1. PICK stop : InValue(stop) /\ Fatal(stop - 1)
        BY <1>2 DEF ValueFatal
  <2>2. Boundary(stop - 1)
        BY <2>1, WalkedSets, PieceUnsplit DEF InValue, WInv, IInv
  <2> QED BY <2>1, <2>2, WholeFatal
<1>3. CASE EndOfValue
  <2>1. PICK stop :
          /\ InValue(stop) /\ Char(stop) = "'"
          /\ app' = Deliver(app, Event("attribute_value_content",
                                       Slice(pos + 1, stop - 1), TRUE))
          /\ Done(stop, {"attribute_value"})
        BY <1>3 DEF EndOfValue
  <2>2. Unsplit(app')
        BY <2>1, WalkedSets, PieceUnsplit DEF InValue, WInv, IInv
  <2> QED BY <2>1, <2>2, BehindChar, LandWhole DEF Done, CLead
<1> QED BY <1>1, <1>2, <1>3

\* A reference in a value ends in its semicolon.
LEMMA WholeValueReference ==
    ASSUME IInv, WInv, ValueReference
    PROVE  WInv'
<1> DEFINE before(amp) == Piece(app, "attribute_value_content", pos + 1, amp - 1, FALSE)
           Resolved(a, text, e) ==
               /\ app' = Deliver(a, Event("attribute_value_content", text, Char(e + 1) = "'"))
               /\ IF Char(e + 1) = "'" THEN Done(e + 1, {"attribute_value"})
                                       ELSE Proceed(e, "attribute_value")
           Failed(amp, p) == /\ app' = Deliver(before(amp), Call("fatal_error"))
                             /\ pos' = p /\ UNCHANGED session
<1>1. PICK amp, e :
        /\ InValue(amp)
        /\ \/ app' = before(amp) /\ NeedMore(amp - 1, {"attribute_value"})
           \/ Failed(amp, amp - 1)
           \/ RefResult(amp, e) = "decoded" /\ Resolved(before(amp), Decoded(amp), e)
           \/ RefResult(amp, e) = "general" /\ Failed(amp, e)
           \/ /\ RefResult(amp, e) = "general"
              /\ Resolved(Deliver(before(amp), CallOn("skipped_entity", RefName(amp, e))),
                          <<>>, e)
  <2>1. \A amp, e : RefResult(amp, e) \in {"need_more", "malformed", "decoded", "general"}
        BY DEF RefResult, CharRef, EntityRef
  <2> QED BY <2>1 DEF ValueReference
<1>2. Unsplit(before(amp)) /\ Boundary(amp - 1)
      BY <1>1, WalkedSets, PieceUnsplit DEF InValue, WInv, IInv
<1>3. RefResult(amp, e) \in {"decoded", "general"} => Boundary(e)
      BY ReferenceEnds
<1> HIDE DEF before
<1>4. ASSUME NEW a, Unsplit(a), NEW text, text \in {<<>>, Decoded(amp)}, Boundary(e),
             Resolved(a, text, e)
      PROVE  WInv'
  <2>1. Unsplit(app')
        BY <1>4, CallUnsplit
  <2>2. Char(e + 1) = "'" => Boundary(e + 1)
        BY BehindChar DEF CLead
  <2> QED BY <1>4, <2>1, <2>2, LandWhole DEF Done, Proceed
<1>5. ASSUME NEW p, Boundary(p), Failed(amp, p)
      PROVE  WInv'
      BY <1>2, <1>5, CallUnsplit, LandWhole
<1>6. "skipped_entity" \in Kinds \ TextKinds
      BY DEF Kinds, TextKinds, RunOf
<1>7. Unsplit(Deliver(before(amp), CallOn("skipped_entity", RefName(amp, e))))
      BY <1>2, <1>6, CallUnsplit
<1>8. CASE app' = before(amp) /\ NeedMore(amp - 1, {"attribute_value"})
      BY <1>2, <1>8, LandWhole DEF NeedMore
<1> HIDE DEF Resolved, Failed
<1> QED BY <1>1, <1>2, <1>3, <1>4, <1>5, <1>7, <1>8

\* The markup of a declaration or of a PI begins its data behind an ASCII
\* character, or behind the target.
LEMMA WholeMarkup ==
    ASSUME IInv, WInv,
           MarkupNeedsMore \/ BangFatal \/ StartComment \/ StartCdata \/ StartPI
    PROVE  WInv'
<1>1. CASE MarkupNeedsMore
      BY <1>1, WholeNeedMore DEF MarkupNeedsMore
<1>2. CASE BangFatal
      BY <1>2, WholeFatal DEF BangFatal, WInv
<1>3. CASE StartComment
  <2>1. Char(pos + 4) = "-" => Boundary(pos + 4)
        BY BehindChar DEF CLead
  <2>2. \/ NeedMore(pos, {}) /\ app' = app
        \/ /\ Char(pos + 4) = "-"
           /\ app' = Deliver(app, Call("start_comment"))
           /\ Proceed(pos + 4, "comment")
        BY <1>3 DEF StartComment
  <2> QED BY <2>1, <2>2, WholeNeedMore, CallUnsplit, LandWhole DEF Proceed, WInv
<1>4. CASE StartCdata
  <2>1. Char(pos + 3) = "[" => Boundary(pos + 3)
        BY BehindChar DEF CLead
  <2> QED BY <1>4, <2>1, CallUnsplit, LandWhole DEF StartCdata, Proceed, WInv
<1>5. CASE StartPI
  <2>1. PICK e :
          /\ Walk(pos + 3, NameAt, e)
          /\ \/ NeedMore(pos, {}) /\ app' = app
             \/ Fatal(pos)
             \/ /\ Named(pos + 3, e)
                /\ app' = Deliver(app, CallOn("pi_target", Slice(pos + 3, e - 1)))
                /\ Proceed(IF Char(e) = "w" THEN e ELSE e - 1, "pi")
        BY <1>5 DEF StartPI
  <2>2. pos + 3 \in Nat \ {0}
        BY Positions DEF IInv
  <2>3. Named(pos + 3, e) => Boundary(e - 1)
        BY <2>1, <2>2, NameEnds DEF Named, BadName
  <2>4. Char(e) = "w" => Boundary(e)
        BY BehindChar DEF CLead
  <2>5. "pi_target" \in Kinds \ TextKinds
        BY DEF Kinds, TextKinds, RunOf
  <2> QED BY <2>1, <2>3, <2>4, <2>5, WholeNeedMore, WholeFatal, CallUnsplit, LandWhole
          DEF Proceed, WInv
<1> QED BY <1>1, <1>2, <1>3, <1>4, <1>5

\* Data that is refused, and data that the end of the chunk cuts off.
LEMMA WholeData ==
    ASSUME IInv, WInv, NEW f, NEW kind, NEW Stops, NEW short, Walks(LegalAt \ Stops),
           DataFatal(f, Stops) \/ DataNeedsMore(f, kind, Stops, short)
    PROVE  WInv'
<1>1. CASE DataFatal(f, Stops)
      BY <1>1, WholeFatal DEF DataFatal, WInv
<1>2. CASE DataNeedsMore(f, kind, Stops, short)
  <2>1. PICK stop : /\ Walk(pos + 1, LegalAt \ Stops, stop)
                    /\ app' = Piece(app, kind, pos + 1, stop - 1, FALSE)
                    /\ NeedMore(stop - 1, {f})
        BY <1>2 DEF DataNeedsMore, InData
  <2> QED BY <2>1, PieceUnsplit, LandWhole DEF NeedMore, WInv, IInv
<1> QED BY <1>1, <1>2

\* The data of a comment ends in front of ASCII, or of a whole character.
LEMMA WholeComment ==
    ASSUME IInv, WInv, CommentData
    PROVE  WInv'
<1>1. CASE \/ DataFatal("comment", CommentStop)
           \/ DataNeedsMore("comment", "comment_data", CommentStop, 2)
      BY <1>1, WalkedData, WholeData
<1>2. ASSUME NEW stop, Walk(pos + 1, LegalAt \ CommentStop, stop), Char(stop + 2) = ">",
             app' = Deliver(app, Event("comment_data", Slice(pos + 1, stop - 1), TRUE)),
             Done(stop + 2, {"comment"})
      PROVE  WInv'
  <2>1. Unsplit(app')
        BY <1>2, WalkedData, PieceUnsplit DEF WInv, IInv
  <2> QED BY <1>2, <2>1, BehindChar, LandWhole DEF Done, CLead
<1>3. CASE Fatal(pos)
      BY <1>3, WholeFatal DEF WInv
<1> QED BY <1>1, <1>2, <1>3 DEF CommentData, InData

\* The text of a CDATA section does.
LEMMA WholeCdata ==
    ASSUME IInv, WInv, CdataContent
    PROVE  WInv'
<1>1. CASE \/ DataFatal("cdata", CdataStop)
           \/ DataNeedsMore("cdata", "characters", CdataStop, 2)
      BY <1>1, WalkedData, WholeData
<1>2. ASSUME NEW stop \in CdataStop, Walk(pos + 1, LegalAt \ CdataStop, stop),
             stop + 2 <= limit,
             NEW last, last \in {app, Deliver(app, Event("characters",
                                                         Slice(pos + 1, stop - 1), TRUE))},
             app' = Deliver(last, Call("end_cdata")),
             Done(stop + 2, {"cdata"})
      PROVE  WInv'
  <2>1. Unsplit(last)
        BY <1>2, WalkedData, PieceUnsplit DEF WInv, IInv
  <2>2. stop \in Nat /\ limit \in Nat
        BY Positions DEF CdataStop, At, Buffered, IInv
  <2>3. Char(stop + 2) = ">"
        BY <1>2, <2>2 DEF CdataStop
  <2> QED BY <1>2, <2>1, <2>3, CallUnsplit, BehindChar, LandWhole DEF Done, CLead
<1>3. ASSUME CdataContent, ~DataFatal("cdata", CdataStop),
             ~DataNeedsMore("cdata", "characters", CdataStop, 2)
      PROVE  \E stop \in CdataStop :
               /\ Walk(pos + 1, LegalAt \ CdataStop, stop) /\ stop + 2 <= limit
               /\ \E last \in {app, Deliver(app, Event("characters",
                                                       Slice(pos + 1, stop - 1), TRUE))} :
                    app' = Deliver(last, Call("end_cdata"))
               /\ Done(stop + 2, {"cdata"})
      BY <1>3 DEF CdataContent, InData
<1> QED BY <1>1, <1>2, <1>3

\* The data of a PI does.
LEMMA WholePI ==
    ASSUME IInv, WInv, PIData
    PROVE  WInv'
<1>1. CASE \/ DataFatal("pi", PIStop)
           \/ DataNeedsMore("pi", "pi_data", PIStop, 1)
      BY <1>1, WalkedData, WholeData
<1>2. ASSUME NEW stop \in PIStop, Walk(pos + 1, LegalAt \ PIStop, stop),
             stop + 1 <= limit,
             app' = Deliver(app, Event("pi_data", Slice(pos + 1, stop - 1), TRUE)),
             Done(stop + 1, {"pi"})
      PROVE  WInv'
  <2>1. Unsplit(app')
        BY <1>2, WalkedData, PieceUnsplit DEF WInv, IInv
  <2>2. stop \in Nat /\ limit \in Nat
        BY Positions DEF PIStop, At, Buffered, IInv
  <2>3. Char(stop + 1) = ">"
        BY <1>2, <2>2 DEF PIStop
  <2> QED BY <1>2, <2>1, <2>3, BehindChar, LandWhole DEF Done, CLead
<1> QED BY <1>1, <1>2 DEF PIData, InData

\* Every step of the scan loop keeps the text whole.
LEMMA WholeScan ==
    ASSUME IInv, WInv, Scan
    PROVE  WInv'
<1>1. CASE ReturnToApp
      BY <1>1, WholeNeedMore DEF ReturnToApp
<1>2. CASE ScanContent
      BY <1>2, WholeContentFatal, WholeContentNeedsMore, WholeContentToMarkup,
         WholeReference DEF ScanContent
<1>3. CASE ScanMarkup
      BY <1>3, WholeMarkup, WholeStartTag, WholeEndTag DEF ScanMarkup
<1>4. CASE ScanAttributesAndTagEnd
      BY <1>4, WholeTag, WholeAttribute DEF ScanAttributesAndTagEnd
<1>5. CASE ScanAttributeValue
      BY <1>5, WholeValue, WholeValueReference DEF ScanAttributeValue
<1> QED BY <1>1, <1>2, <1>3, <1>4, <1>5, WholeComment, WholeCdata, WholePI DEF Scan

\* The calls of the application hand over no text.
LEMMA WholeCalls ==
    ASSUME IInv, WInv, SetEncoding \/ Receive \/ ReceiveAfterEnd \/ Close \/ Reset
    PROVE  WInv'
<1>1. CASE Reset
      BY <1>1 DEF Reset, WInv, Boundary, Unsplit, FreshApp
<1>2. CASE Receive
      BY <1>2, WholeStays DEF Receive
<1>3. CASE ReceiveAfterEnd
  <2>1. Unsplit(app')
        BY <1>3, CallUnsplit DEF ReceiveAfterEnd, WInv
  <2> QED BY <1>3, <2>1, LandWhole DEF ReceiveAfterEnd, position, WInv
<1>4. CASE SetEncoding \/ Close
  <2>1. Unsplit(app') /\ input' = input /\ pos' = pos
        BY <1>4, CallUnsplit DEF SetEncoding, Close, position, WInv
  <2> QED BY <2>1 DEF WInv, Unsplit, Boundary
<1> QED BY <1>1, <1>2, <1>3, <1>4

\* However the input is cut into chunks, also inside a UTF-8 sequence, no text
\* handed to the application begins or ends inside one.
THEOREM CharactersAreWhole == Spec => []CharactersWhole
<1>1. Init => WInv
      BY DEF Init, Fresh, FreshApp, WInv, Unsplit, Boundary
<1>2. IInv /\ WInv /\ [Next]_vars => WInv'
  <2> SUFFICES ASSUME IInv, WInv, [Next]_vars
               PROVE  WInv'
      OBVIOUS
  <2>1. CASE UNCHANGED vars
        BY <2>1, WholeStays DEF vars, position, session
  <2> QED BY <2>1, WholeScan, WholeCalls DEF Next
<1>3. WInv => CharactersWhole
      BY DEF WInv, Unsplit, CharactersWhole
<1> QED BY <1>1, <1>2, <1>3, Invariance, PTL DEF Spec
=============================================================================
