--------------------------- MODULE Entities_proofs ---------------------------
(***************************************************************************)
(* What is proved of general entities (Entities.tla), for every finite set *)
(* of names, every table of entities, every document and limit.            *)
(*                                                                         *)
(* Shape says how the frames of texts that are scanned and the calls that  *)
(* read texts in one go lie within each other, Distinct that their names   *)
(* differ: with it no entity is within itself.  Three invariants rest on   *)
(* the two.                                                                *)
(*                                                                         *)
(* Boundaries: what is open for the application is the elements and the    *)
(* entities of the frames, each frame at the place its floor says.         *)
(*                                                                         *)
(* Limited: what the application heard of has been paid for, and a value   *)
(* that is being read is paid for before it is heard.                      *)
(*                                                                         *)
(* Faithful: what a call has made is what the part of its text that it has *)
(* read gives by the entries of the cache, so that what it enters there    *)
(* when it has read all is the entity's text with entries in place of the  *)
(* references.  Entries are not changed once they are made, so what was    *)
(* given stays given.  What a text gives is a fold; one piece more is the  *)
(* only fact about it that is needed.                                      *)
(***************************************************************************)
EXTENDS Entities, FiniteSetTheorems, SequenceTheorems, WellFoundedInduction, TLAPS

-----------------------------------------------------------------------------
(* Numbers                                                                 *)

\* A set of natural numbers has a smallest one.
LEMMA Least ==
    ASSUME NEW S \in SUBSET Nat, S # {}
    PROVE  \E m \in S : \A j \in S : m <= j
<1>1. \E m \in S : \A j \in S : ~ <<j, m>> \in OpToRel(<, Nat)
      BY WFMin, NatLessThanWellFounded
<1>2. PICK m \in S : \A j \in S : ~ <<j, m>> \in OpToRel(<, Nat)
      BY <1>1
<1>3. \A j \in S : ~ (j < m)
      BY <1>2 DEF OpToRel
<1> QED BY <1>3

-----------------------------------------------------------------------------
(* Types                                                                   *)

\* How the texts that are read in one go lie within each other ...
CallsShape(c) ==
    \A i \in 1 .. Len(c) :
        /\ c[i].fn = c[1].fn
        /\ c[i].name = NoName <=> i = 1 /\ c[1].fn = "resolve"
        /\ i < Len(c) => c[i].out # NotFlat

\* ... and those that are scanned, ...
FramesShape(f) == \A i \in 1 .. Len(f) : f[i].name = NoName <=> i = 1

\* ... the former within the latter.
Shape ==
    /\ CallsShape(calls)
    /\ FramesShape(frames)
    /\ calls # << >> => failed = "none" /\ phase # "done" /\ ~content_run_open
    /\ phase # "content" => Len(frames) = 1 /\ element_stack = 1 /\ ~content_run_open
    /\ phase = "doctype" /\ calls # << >> => calls[1].fn = "resolve"

\* The kinds of pieces.
LEMMA ItemIs ==
    ASSUME NEW item \in Item
    PROVE  /\ item.is = "text" => item \in Literal
           /\ item.is \in {"text", "predefined"} => Char(item.of) \in Letter
           /\ item.is = "reference" => item.of \in Name /\ item = Reference(item.of)
           /\ item.is = "attribute" => item.of \in Name
<1>1. CASE item \in Literal
  <2>1. item.is = "text" /\ Char(item.of) = item
        BY <1>1 DEF Literal, Char
  <2> QED BY <1>1, <2>1 DEF Letter
<1>2. CASE item \in {Reference(n) : n \in Name}
      BY <1>2 DEF Reference
<1>3. CASE item \in {Attribute(n) : n \in Name}
      BY <1>3 DEF Attribute
<1>4. CASE item = Predefined
  <2>1. item.is = "predefined" /\ item.of = "<"
        BY <1>4 DEF Predefined
  <2> QED BY <2>1 DEF Letter
<1>5. CASE item \in {OpenTag, CloseTag, CharRef, Cut}
  <2>1. OpenTag.is = "open" /\ CloseTag.is = "close" /\ CharRef.is = "charref" /\ Cut.is = "cut"
        BY DEF OpenTag, CloseTag, CharRef, Cut
  <2>2. item = OpenTag \/ item = CloseTag \/ item = CharRef \/ item = Cut
        BY <1>5
  <2> QED BY <2>1, <2>2
<1> QED BY <1>1, <1>2, <1>3, <1>4, <1>5 DEF Item

\* A literal character is a piece, and a character of a value.
LEMMA Literals == Literal \subseteq Item /\ Literal \subseteq Letter
BY DEF Item, Literal, Letter

\* No sequence of characters is one of the marks in the caches.
LEMMA Marks ==
    /\ Unknown # NotFlat
    /\ \A s \in Seq(Letter) : s # Unknown /\ s # NotFlat
    /\ \A s \in Seq(Literal) : s # Unknown /\ s # NotFlat
<1>1. \A c \in Letter : c.is = "text"
      BY DEF Letter, Literal, Char
<1>2. Unknown[1].is = "unknown" /\ NotFlat[1].is = "not flat" /\ Len(Unknown) = 1 /\ Len(NotFlat) = 1
      BY DEF Unknown, NotFlat
<1>3. \A s \in Seq(Letter) : Len(s) = 1 => s[1].is = "text"
      BY <1>1
<1>4. \A s \in Seq(Letter) : s # Unknown /\ s # NotFlat
      BY <1>2, <1>3
<1>5. \A s \in Seq(Literal) : s \in Seq(Letter)
      BY Literals
<1> QED BY <1>2, <1>4, <1>5

\* The table of entities.
LEMMA EntityIs ==
    ASSUME Legal(doc), NEW n \in Name
    PROVE  /\ doc.entity[n].kind \in {"none", "internal", "external", "unparsed"}
           /\ doc.entity[n].text \in Seq(Item) /\ doc.entity[n].far \in BOOLEAN
           /\ doc.skip => doc.entity[n].kind = "none"
BY DEF Legal, Entity

\* What check_entity_referenceable may answer, and when.
LEMMA Answers ==
    ASSUME Legal(doc), NEW n \in Name, NEW allow \in BOOLEAN
    PROVE  /\ Answer(n, allow) \in {"expand", "limit", "fatal", "skipped", "error"}
           /\ Answer(n, allow) \in {"expand", "limit"} =>
                /\ n \notin Expanding /\ doc.entity[n].kind \in {"internal", "external"}
                /\ ~(doc.standalone /\ doc.entity[n].far)
                /\ ~allow => doc.entity[n].kind = "internal"
           /\ Answer(n, allow) = "expand" => ~OverLimit
           /\ Answer(n, allow) = "limit" => OverLimit
           /\ Answer(n, allow) \in {"skipped", "error"} => doc.entity[n].kind = "none"
<1>1. doc.entity[n].kind \in {"none", "internal", "external", "unparsed"}
      BY EntityIs
<1> QED BY <1>1 DEF Answer, Judgement

\* What is done about the answer.
LEMMA CheckedIs ==
    ASSUME NEW answer \in {"expand", "limit", "fatal", "skipped", "error"}, Checked(answer),
           entity_expansion_count \in Nat
    PROVE  /\ entity_expansion_count' \in Nat /\ failed' \in {"none", "refused", "limit"}
           /\ failed' = "none" <=> answer \notin {"fatal", "limit"}
           /\ failed' = "limit" <=> answer = "limit"
           /\ answer \in {"expand", "limit"} => entity_expansion_count' = entity_expansion_count + 1
           /\ answer \notin {"expand", "limit"} => entity_expansion_count' = entity_expansion_count
BY DEF Checked

\* The innermost call.
LEMMA CurrentIs ==
    ASSUME TypeOK, calls # << >>
    PROVE  /\ calls \in Seq(Calls) /\ DOMAIN calls = 1 .. Len(calls)
           /\ Len(calls) \in Nat /\ Len(calls) >= 1 /\ Len(calls) \in DOMAIN calls
           /\ Current \in Calls /\ Current.rest \in Seq(Item)
           /\ Current.fn \in {"flatten", "resolve"} /\ Current.name \in Name \cup {NoName}
           /\ Current.fn = "flatten" => Current.out \in Seq(Literal) \cup {NotFlat} /\ Current.name \in Name
           /\ Current.fn = "resolve" => Current.out \in Seq(Letter)
<1>1. calls \in Seq(Calls)
      BY DEF TypeOK
<1>2. Len(calls) \in Nat /\ Len(calls) >= 1 /\ DOMAIN calls = 1 .. Len(calls)
        /\ Len(calls) \in DOMAIN calls
      BY <1>1
<1>3. Current \in Calls
      BY <1>1, <1>2 DEF Current
<1> QED BY <1>1, <1>2, <1>3 DEF Calls

\* The piece it reads next.
LEMMA PieceIs ==
    ASSUME TypeOK, calls # << >>, More
    PROVE  /\ Piece \in Item /\ Tail(Current.rest) \in Seq(Item)
           /\ Current.rest # << >> /\ Current.out # NotFlat
<1>1. Current.rest \in Seq(Item) /\ Current.rest # << >>
      BY CurrentIs DEF More
<1> QED BY <1>1 DEF Piece, More

\* What a call may have read.
Fits(fn, out) ==
    \/ fn = "flatten" /\ out \in Seq(Literal) \cup {NotFlat}
    \/ fn = "resolve" /\ out \in Seq(Letter)

\* A call that has read a piece.
LEMMA HasReadIs ==
    ASSUME TypeOK, calls # << >>, More, NEW out, Fits(Current.fn, out)
    PROVE  /\ HasRead(out) \in Seq(Calls) /\ Len(HasRead(out)) = Len(calls)
           /\ \A i \in 1 .. Len(calls) - 1 : HasRead(out)[i] = calls[i]
           /\ HasRead(out)[Len(calls)].fn = Current.fn
           /\ HasRead(out)[Len(calls)].name = Current.name
           /\ HasRead(out)[Len(calls)].rest = Tail(Current.rest)
           /\ HasRead(out)[Len(calls)].out = out
<1> DEFINE new == [Current EXCEPT !.rest = Tail(@), !.out = out]
<1>1. calls \in Seq(Calls) /\ Len(calls) \in Nat /\ Len(calls) >= 1
      BY CurrentIs DEF TypeOK
<1>2. Tail(Current.rest) \in Seq(Item)
      BY PieceIs
<1>3. new \in Calls /\ new.fn = Current.fn /\ new.name = Current.name
        /\ new.rest = Tail(Current.rest) /\ new.out = out
      BY <1>2, CurrentIs DEF Fits, Calls
<1>5. HasRead(out) = [calls EXCEPT ![Len(calls)] = new]
      BY DEF HasRead
<1> HIDE DEF new
<1> QED BY <1>1, <1>3, <1>5

\* A call to the function that reads the text of an entity, or a value.
LEMMA CallIs ==
    ASSUME NEW fn \in {"flatten", "resolve"}, NEW name \in Name \cup {NoName}, NEW text \in Seq(Item),
           fn = "resolve" \/ name # NoName
    PROVE  /\ Call(fn, name, text) \in Calls /\ Call(fn, name, text).fn = fn
           /\ Call(fn, name, text).name = name /\ Call(fn, name, text).rest = text
           /\ Call(fn, name, text).out = << >>
<1>1. << >> \in Seq(Literal) /\ << >> \in Seq(Letter)
      BY EmptySeq
<1> QED BY <1>1 DEF Call, Calls

\* A call within the innermost one.
LEMMA CalledIs ==
    ASSUME TypeOK, calls # << >>, More, NEW name \in Name, NEW text \in Seq(Item),
           NEW new, new = Append(HasRead(Current.out), Call(Current.fn, name, text))
    PROVE  /\ new \in Seq(Calls) /\ Len(new) = Len(calls) + 1
           /\ \A i \in 1 .. Len(calls) - 1 : new[i] = calls[i]
           /\ new[Len(calls)] = HasRead(Current.out)[Len(calls)]
           /\ new[Len(calls) + 1] = Call(Current.fn, name, text)
<1>1. Fits(Current.fn, Current.out) /\ Current.fn \in {"flatten", "resolve"}
      BY CurrentIs DEF Fits
<1>2. /\ HasRead(Current.out) \in Seq(Calls) /\ Len(HasRead(Current.out)) = Len(calls)
      /\ \A i \in 1 .. Len(calls) - 1 : HasRead(Current.out)[i] = calls[i]
      BY <1>1, HasReadIs
<1>3. name # NoName /\ name \in Name \cup {NoName}
      BY NameAssumption
<1>4. Call(Current.fn, name, text) \in Calls
      BY <1>1, <1>3, CallIs
<1>5. Len(calls) \in Nat /\ Len(calls) >= 1
      BY CurrentIs
<1> QED BY <1>2, <1>4, <1>5

\* What two texts are together.
LEMMA JoinedIs ==
    ASSUME NEW fn, NEW out, NEW text, Fits(fn, out), Fits(fn, text), out # NotFlat
    PROVE  Fits(fn, Joined(out, text))
BY DEF Fits, Joined

\* The texts that are scanned.
LEMMA FramesIs ==
    ASSUME TypeOK
    PROVE  /\ frames \in Seq(Frames) /\ Len(frames) \in Nat /\ Len(frames) >= 1
           /\ Top \in Frames /\ Rest \in Seq(Item) /\ Top.floor \in Nat \ {0}
           /\ DOMAIN frames = 1 .. Len(frames)
<1>1. frames \in Seq(Frames) /\ frames # << >>
      BY DEF TypeOK
<1>2. Len(frames) \in Nat /\ Len(frames) >= 1 /\ frames[Len(frames)] \in Frames
      BY <1>1
<1>3. Top \in Frames
      BY <1>2 DEF Top
<1>4. Top.rest \in Seq(Item) /\ Top.floor \in Nat \ {0}
      BY <1>3 DEF Frames
<1> QED BY <1>1, <1>2, <1>3, <1>4 DEF Rest

\* The text that is scanned goes on.
LEMMA AdvanceIs ==
    ASSUME TypeOK, NEW rest \in Seq(Item)
    PROVE  LET new == Advanced(rest)
           IN  /\ new \in Seq(Frames) /\ new # << >> /\ Len(new) = Len(frames)
               /\ \A i \in 1 .. Len(frames) - 1 : new[i] = frames[i]
               /\ \A i \in 1 .. Len(frames) :
                    new[i].name = frames[i].name /\ new[i].floor = frames[i].floor
                      /\ new[i].open = frames[i].open
               /\ new[Len(frames)].rest = rest
<1> DEFINE new == Advanced(rest)
<1> DEFINE top == [Top EXCEPT !.rest = rest]
<1>1. top \in Frames /\ top.name = Top.name /\ top.floor = Top.floor /\ top.rest = rest
        /\ top.open = Top.open
      BY FramesIs DEF Frames
<1>2. new = [frames EXCEPT ![Len(frames)] = top]
      BY DEF Top, Advanced
<1> HIDE DEF top, new
<1>3. frames \in Seq(Frames) /\ Len(frames) \in Nat /\ Len(frames) >= 1
      BY FramesIs
<1>4. new \in Seq(Frames) /\ new # << >> /\ Len(new) = Len(frames)
        /\ new[Len(frames)] = top /\ \A i \in 1 .. Len(frames) - 1 : new[i] = frames[i]
      BY <1>1, <1>2, <1>3
<1>5. ASSUME NEW i \in 1 .. Len(frames)
      PROVE  /\ new[i].name = frames[i].name /\ new[i].floor = frames[i].floor
             /\ new[i].open = frames[i].open
  <2>1. CASE i = Len(frames)
        BY <2>1, <1>1, <1>4 DEF Top
  <2>2. CASE i # Len(frames)
        BY <2>2, <1>3, <1>4
  <2> QED BY <2>1, <2>2
<1> QED BY <1>1, <1>4, <1>5 DEF new

\* Another text takes its place.
LEMMA EnterIs ==
    ASSUME TypeOK, NEW saved \in Seq(Frames), NEW name \in Name, NEW text \in Seq(Item)
    PROVE  LET new == Entered(saved, name, text)
           IN  /\ new \in Seq(Frames) /\ new # << >> /\ Len(new) = Len(saved) + 1
               /\ \A i \in 1 .. Len(saved) : new[i] = saved[i]
               /\ new[Len(saved) + 1].name = name /\ new[Len(saved) + 1].rest = text
               /\ new[Len(saved) + 1].floor = element_stack
               /\ new[Len(saved) + 1].open = FALSE
<1> DEFINE frame == Frame(name, text, element_stack)
<1>1. element_stack \in Nat \ {0}
      BY DEF TypeOK
<1>2. frame \in Frames /\ frame.name = name /\ frame.rest = text
        /\ frame.floor = element_stack /\ frame.open = FALSE
      BY <1>1 DEF Frame, Frames
<1>3. Entered(saved, name, text) = Append(saved, frame)
      BY DEF Entered
<1> HIDE DEF frame
<1> QED BY <1>2, <1>3

\* What is heard.
LEMMA HearIs ==
    ASSUME TypeOK
    PROVE  /\ Completed \in Seq(Events) /\ Len(Completed) \in 0 .. 1
           /\ \A n \in Name : \A answer : Told(answer, n) \in Seq(Events)
           /\ \A n \in Name : <<"start", n>> \in Events /\ <<"end", n>> \in Events
           /\ <<"open">> \in Events /\ <<"close">> \in Events
           /\ \A v \in Seq(Letter) : <<"attribute", v>> \in Events
           /\ \A v \in Seq(Letter), end \in BOOLEAN : Text(v, end) \in Events
           /\ \A events \in Seq(Events) : heard \o events \in Seq(Events)
<1>1. \A v \in Seq(Letter), end \in BOOLEAN : Text(v, end) \in Events
      BY DEF Text, Events
<1>2. << >> \in Seq(Letter)
      BY EmptySeq
<1>3. Text(<< >>, TRUE) \in Events
      BY <1>1, <1>2
<1>4. Completed \in Seq(Events) /\ Len(Completed) \in 0 .. 1
  <2> DEFINE event == Text(<< >>, TRUE)
  <2>1. Completed = <<event>> \/ Completed = << >>
        BY DEF Completed
  <2>2. event \in Events
        BY <1>3
  <2> HIDE DEF event
  <2>3. CASE Completed = <<event>>
        BY <2>2, <2>3
  <2>4. CASE Completed = << >>
        BY <2>4
  <2> QED BY <2>1, <2>3, <2>4
<1>5. \A n \in Name : /\ <<"start", n>> \in Events /\ <<"end", n>> \in Events
                     /\ <<"error", n>> \in Events /\ <<"skipped", n>> \in Events
      BY DEF Events
<1>6. ASSUME NEW n \in Name, NEW answer
      PROVE  Told(answer, n) \in Seq(Events)
  <2> DEFINE event == <<answer, n>>
  <2>1. CASE answer \in {"skipped", "error"}
    <3>1. event \in Events /\ Told(answer, n) = <<event>>
          BY <2>1, <1>5 DEF Told
    <3> HIDE DEF event
    <3> QED BY <3>1
  <2>2. CASE answer \notin {"skipped", "error"}
        BY <2>2 DEF Told
  <2> QED BY <2>1, <2>2
<1>7. <<"open">> \in Events /\ <<"close">> \in Events
      BY DEF Events
<1>8. \A v \in Seq(Letter) : <<"attribute", v>> \in Events
      BY DEF Events
<1>9. \A events \in Seq(Events) : heard \o events \in Seq(Events)
      BY DEF TypeOK
<1> QED BY <1>1, <1>4, <1>5, <1>6, <1>7, <1>8, <1>9

\* The answer for a piece that is a reference.
LEMMA ReferenceIs ==
    ASSUME TypeOK, NEW item \in Item, item.is = "reference", NEW allow \in BOOLEAN
    PROVE  /\ item.of \in Name /\ doc.entity[item.of].text \in Seq(Item)
           /\ Answer(item.of, allow) \in {"expand", "limit", "fatal", "skipped", "error"}
           /\ entity_expansion_count \in Nat
BY ItemIs, EntityIs, Answers DEF TypeOK

\* The caches and what is taken from them.
LEMMA CacheIs ==
    ASSUME TypeOK, NEW n \in Name
    PROVE  /\ content_entity_cache[n] \in Seq(Literal) \cup {Unknown, NotFlat}
           /\ attribute_entity_cache[n] \in Seq(Letter) \cup {Unknown}
           /\ Flat(n) \in Seq(Literal) \cup {Unknown, NotFlat}
           /\ FlatCache(n) \in [Name -> Seq(Literal) \cup {Unknown, NotFlat}]
BY DEF TypeOK, Flat, FlatCache

\* The calls are those that were made, and the innermost has read a piece, ...
LEMMA OnePieceRead ==
    ASSUME TypeOK, CallsShape(calls), calls # << >>, More, NEW out, Fits(Current.fn, out),
           NEW new, new = HasRead(out)
    PROVE  /\ new \in Seq(Calls) /\ CallsShape(new) /\ new # << >> /\ Len(new) = Len(calls)
           /\ new[1].fn = calls[1].fn
           /\ \A i \in 1 .. Len(calls) - 1 : new[i] = calls[i]
           /\ \A i \in 1 .. Len(calls) : new[i].fn = calls[i].fn /\ new[i].name = calls[i].name
           /\ new[Len(calls)].rest = Tail(Current.rest) /\ new[Len(calls)].out = out
<1>1. Len(calls) \in Nat /\ Len(calls) >= 1
      BY CurrentIs
<1>2. /\ new \in Seq(Calls) /\ Len(new) = Len(calls)
      /\ \A i \in 1 .. Len(calls) - 1 : new[i] = calls[i]
      /\ new[Len(calls)].fn = Current.fn /\ new[Len(calls)].name = Current.name
      /\ new[Len(calls)].rest = Tail(Current.rest) /\ new[Len(calls)].out = out
      BY HasReadIs
<1>3. \A i \in 1 .. Len(calls) : new[i].fn = calls[i].fn /\ new[i].name = calls[i].name
  <2> TAKE i \in 1 .. Len(calls)
  <2>1. CASE i = Len(calls)
        BY <2>1, <1>2 DEF Current
  <2>2. CASE i # Len(calls)
        BY <2>2, <1>1, <1>2
  <2> QED BY <2>1, <2>2
<1>4. new # << >> /\ new[1].fn = calls[1].fn
      BY <1>1, <1>2, <1>3
<1>5. ASSUME NEW k \in 1 .. Len(new)
      PROVE  /\ new[k].fn = new[1].fn
             /\ new[k].name = NoName <=> k = 1 /\ new[1].fn = "resolve"
             /\ k < Len(new) => new[k].out # NotFlat
  <2>1. k \in 1 .. Len(calls)
        BY <1>2
  <2>2. calls[k].fn = calls[1].fn /\ (calls[k].name = NoName <=> k = 1 /\ calls[1].fn = "resolve")
          /\ (k < Len(calls) => calls[k].out # NotFlat)
        BY <2>1 DEF CallsShape
  <2>3. k < Len(new) => new[k] = calls[k]
        BY <2>1, <1>1, <1>2
  <2> QED BY <2>1, <2>2, <2>3, <1>2, <1>3, <1>4
<1>6. CallsShape(new)
      BY <1>5 DEF CallsShape
<1> QED BY <1>2, <1>3, <1>4, <1>6

\* ... or there is one more, ...
Calling(name, text) == Append(HasRead(Current.out), Call(Current.fn, name, text))

\* The calls, with one more for an entity.
LEMMA OneMoreCall ==
    ASSUME TypeOK, CallsShape(calls), calls # << >>, More, NEW name \in Name,
           NEW text \in Seq(Item)
    PROVE  LET new == Calling(name, text)
           IN  /\ new \in Seq(Calls) /\ CallsShape(new) /\ new # << >> /\ Len(new) = Len(calls) + 1
               /\ new[1].fn = calls[1].fn
               /\ \A i \in 1 .. Len(calls) - 1 : new[i] = calls[i]
               /\ \A i \in 1 .. Len(calls) : new[i].fn = calls[i].fn /\ new[i].name = calls[i].name
               /\ new[Len(calls)].rest = Tail(Current.rest) /\ new[Len(calls)].out = Current.out
               /\ new[Len(calls) + 1].name = name /\ new[Len(calls) + 1].fn = Current.fn
               /\ new[Len(calls) + 1].rest = text /\ new[Len(calls) + 1].out = << >>
<1> DEFINE new == Calling(name, text)
<1>0. new = Append(HasRead(Current.out), Call(Current.fn, name, text))
      BY DEF Calling
<1> HIDE DEF new
<1>1. Len(calls) \in Nat /\ Len(calls) >= 1
      BY CurrentIs
<1>2. /\ new \in Seq(Calls) /\ Len(new) = Len(calls) + 1
      /\ \A i \in 1 .. Len(calls) - 1 : new[i] = calls[i]
      /\ new[Len(calls)] = HasRead(Current.out)[Len(calls)]
      /\ new[Len(calls) + 1] = Call(Current.fn, name, text)
      BY <1>0, CalledIs
<1>3. Fits(Current.fn, Current.out) /\ Current.out # NotFlat
      BY CurrentIs DEF Fits, More
<1>4. /\ new[Len(calls)].fn = Current.fn /\ new[Len(calls)].name = Current.name
      /\ new[Len(calls)].out = Current.out /\ new[Len(calls)].rest = Tail(Current.rest)
      BY <1>2, <1>3, HasReadIs
<1>5. ASSUME NEW i \in 1 .. Len(calls)
      PROVE  /\ new[i].fn = calls[i].fn /\ new[i].name = calls[i].name
             /\ new[i].out # NotFlat
  <2>1. CASE i = Len(calls)
        BY <2>1, <1>3, <1>4 DEF Current
  <2>2. CASE i # Len(calls)
    <3>1. i \in 1 .. Len(calls) - 1 /\ i < Len(calls)
          BY <2>2, <1>1
    <3>2. new[i] = calls[i] /\ calls[i].out # NotFlat
          BY <3>1, <1>2 DEF CallsShape
    <3> QED BY <3>2
  <2> QED BY <2>1, <2>2
<1>6. /\ name # NoName /\ new[Len(calls) + 1].fn = Current.fn /\ new[Len(calls) + 1].name = name
      /\ new[Len(calls) + 1].rest = text /\ new[Len(calls) + 1].out = << >>
  <2>1. name # NoName /\ name \in Name \cup {NoName} /\ Current.fn \in {"flatten", "resolve"}
        BY NameAssumption, CurrentIs
  <2> DEFINE call == Call(Current.fn, name, text)
  <2>2. call.fn = Current.fn /\ call.name = name /\ call.rest = text /\ call.out = << >>
        BY DEF Call
  <2> HIDE DEF call
  <2>3. new[Len(calls) + 1] = call
        BY <1>2 DEF call
  <2> QED BY <2>1, <2>2, <2>3
<1>7. new # << >> /\ Len(calls) + 1 # 1
      BY <1>1, <1>2
<1>8. new[1].fn = calls[1].fn /\ Current.fn = calls[1].fn
  <2>1. 1 \in 1 .. Len(calls) /\ Len(calls) \in 1 .. Len(calls)
        BY <1>1
  <2> QED BY <2>1, <1>5 DEF CallsShape, Current
<1>9. ASSUME NEW k \in 1 .. Len(new)
      PROVE  /\ new[k].fn = new[1].fn
             /\ new[k].name = NoName <=> k = 1 /\ new[1].fn = "resolve"
             /\ k < Len(new) => new[k].out # NotFlat
  <2>1. CASE k = Len(calls) + 1
    <3>1. ~ (k < Len(new)) /\ k # 1
          BY <2>1, <1>1, <1>2, <1>7
    <3>2. new[k].fn = Current.fn /\ new[k].name = name
          BY <2>1, <1>6
    <3> QED BY <3>1, <3>2, <1>6, <1>8
  <2>2. CASE k # Len(calls) + 1
    <3>1. k \in 1 .. Len(calls)
          BY <2>2, <1>1, <1>2
    <3>2. calls[k].fn = calls[1].fn /\ (calls[k].name = NoName <=> k = 1 /\ calls[1].fn = "resolve")
          BY <3>1 DEF CallsShape
    <3> QED BY <3>1, <3>2, <1>5, <1>8
  <2> QED BY <2>1, <2>2
<1>10. CallsShape(new)
      BY <1>9 DEF CallsShape
<1> QED BY <1>2, <1>4, <1>5, <1>6, <1>7, <1>8, <1>10 DEF new

\* ... or one less, ...
LEMMA OneCallLess ==
    ASSUME TypeOK, CallsShape(calls), Len(calls) > 1, NEW new,
           new = [i \in 1 .. Len(calls) - 1 |->
                    IF i < Len(calls) - 1 THEN calls[i]
                    ELSE [calls[i] EXCEPT !.out = Joined(@, Current.out)]]
    PROVE  /\ new \in Seq(Calls) /\ CallsShape(new) /\ new # << >> /\ Len(new) = Len(calls) - 1
           /\ new[1].fn = calls[1].fn
           /\ \A i \in 1 .. Len(calls) - 2 : new[i] = calls[i]
           /\ \A i \in 1 .. Len(calls) - 1 :
                /\ new[i].fn = calls[i].fn /\ new[i].name = calls[i].name
                /\ new[i].rest = calls[i].rest
           /\ new[Len(calls) - 1].out = Joined(calls[Len(calls) - 1].out, Current.out)
<1> DEFINE caller == calls[Len(calls) - 1]
           last   == [caller EXCEPT !.out = Joined(@, Current.out)]
<1>0. calls # << >>
      OBVIOUS
<1>1. Len(calls) \in Nat /\ calls \in Seq(Calls)
      BY <1>0, CurrentIs
<1>2. caller \in Calls /\ caller.fn = Current.fn /\ caller.out # NotFlat
  <2>1. Len(calls) - 1 \in 1 .. Len(calls) /\ Len(calls) \in 1 .. Len(calls)
          /\ Len(calls) - 1 < Len(calls)
        BY <1>1
  <2>2. calls[Len(calls) - 1].fn = calls[1].fn /\ calls[Len(calls)].fn = calls[1].fn
          /\ calls[Len(calls) - 1].out # NotFlat
        BY <2>1 DEF CallsShape
  <2> QED BY <2>1, <2>2, <1>1 DEF Current
<1>3. Fits(Current.fn, Current.out) /\ Fits(caller.fn, caller.out)
      BY <1>0, <1>2, CurrentIs DEF Fits, Calls
<1>4. Fits(caller.fn, Joined(caller.out, Current.out))
      BY <1>2, <1>3, JoinedIs
<1>5. last \in Calls /\ last.fn = caller.fn /\ last.name = caller.name /\ last.rest = caller.rest
        /\ last.out = Joined(caller.out, Current.out)
      BY <1>2, <1>4 DEF Fits, Calls
<1>6. new = [i \in 1 .. Len(calls) - 1 |-> IF i < Len(calls) - 1 THEN calls[i] ELSE last]
      BY <1>1
<1> HIDE DEF last
<1>7. new \in Seq(Calls) /\ Len(new) = Len(calls) - 1
  <2>1. \A i \in 1 .. Len(calls) - 1 : (IF i < Len(calls) - 1 THEN calls[i] ELSE last) \in Calls
        BY <1>1, <1>5
  <2> QED BY <2>1, <1>1, <1>6
<1>8. /\ \A i \in 1 .. Len(calls) - 2 : new[i] = calls[i]
      /\ new[Len(calls) - 1] = last
      BY <1>1, <1>6
<1>9. ASSUME NEW i \in 1 .. Len(calls) - 1
      PROVE  /\ new[i].fn = calls[i].fn /\ new[i].name = calls[i].name
             /\ new[i].rest = calls[i].rest
  <2>1. CASE i = Len(calls) - 1
        BY <2>1, <1>5, <1>8
  <2>2. CASE i # Len(calls) - 1
    <3>1. i \in 1 .. Len(calls) - 2
          BY <2>2, <1>1
    <3> QED BY <3>1, <1>8
  <2> QED BY <2>1, <2>2
<1>10. new # << >> /\ new[1].fn = calls[1].fn
      BY <1>1, <1>7, <1>9
<1>11. ASSUME NEW k \in 1 .. Len(new)
       PROVE  /\ new[k].fn = new[1].fn
              /\ new[k].name = NoName <=> k = 1 /\ new[1].fn = "resolve"
              /\ k < Len(new) => new[k].out # NotFlat
  <2>1. k \in 1 .. Len(calls) - 1 /\ k \in 1 .. Len(calls) /\ k < Len(calls)
        BY <1>1, <1>7
  <2>2. calls[k].fn = calls[1].fn /\ (calls[k].name = NoName <=> k = 1 /\ calls[1].fn = "resolve")
          /\ calls[k].out # NotFlat
        BY <2>1 DEF CallsShape
  <2>3. k < Len(new) => new[k] = calls[k]
        BY <2>1, <1>1, <1>7, <1>8
  <2> QED BY <2>1, <2>2, <2>3, <1>9, <1>10
<1>12. CallsShape(new)
      BY <1>11 DEF CallsShape
<1> QED BY <1>5, <1>7, <1>8, <1>9, <1>10, <1>12

\* ... or none.
LEMMA NoCalls == << >> \in Seq(Calls) /\ CallsShape(<< >>)
<1>1. << >> \in Seq(Calls) /\ Len(<< >>) = 0
      BY EmptySeq
<1> QED BY <1>1 DEF CallsShape

\* The first call.
LEMMA FirstCall ==
    ASSUME NEW call \in Calls, call.name = NoName <=> call.fn = "resolve"
    PROVE  /\ <<call>> \in Seq(Calls) /\ CallsShape(<<call>>) /\ <<call>> # << >>
           /\ Len(<<call>>) = 1 /\ <<call>>[1] = call
BY DEF CallsShape

\* Reading disturbs nothing but the calls.
LEMMA ShapeWhileReading ==
    ASSUME Shape, calls # << >>, CallsShape(calls'),
           calls' # << >> => calls'[1].fn = calls[1].fn /\ failed' = "none",
           UNCHANGED <<phase, buffers>>
    PROVE  Shape'
BY DEF Shape, buffers

\* A character of a text that is flattened keeps the types and the shape of
\* the state.
LEMMA FlattenCharacterTypes ==
    ASSUME TypeOK, Shape, FlattenCharacter
    PROVE  TypeOK' /\ Shape'
<1>1. calls # << >> /\ More /\ Current.fn = "flatten" /\ failed = "none"
      BY DEF FlattenCharacter, In
<1>2. Piece \in Literal
      BY <1>1, PieceIs, ItemIs DEF FlattenCharacter
<1>3. Fits(Current.fn, Append(Current.out, Piece))
      BY <1>1, <1>2, CurrentIs DEF Fits, More
<1>4. /\ calls' \in Seq(Calls) /\ CallsShape(calls') /\ calls' # << >>
      /\ calls'[1].fn = calls[1].fn
      BY <1>1, <1>3, OnePieceRead DEF FlattenCharacter, Shape
<1>5. Shape'
      BY <1>1, <1>4, ShapeWhileReading DEF FlattenCharacter
<1> QED BY <1>4, <1>5 DEF TypeOK, FlattenCharacter, buffers, caches

\* What cannot be flattened keeps the types and the shape of the state.
LEMMA FlattenOtherTypes ==
    ASSUME TypeOK, Shape, FlattenOther
    PROVE  TypeOK' /\ Shape'
<1>1. calls # << >> /\ More /\ Current.fn = "flatten" /\ failed = "none"
      BY DEF FlattenOther, In
<1>2. Fits(Current.fn, NotFlat)
      BY <1>1 DEF Fits
<1>3. /\ calls' \in Seq(Calls) /\ CallsShape(calls') /\ calls' # << >>
      /\ calls'[1].fn = calls[1].fn
      BY <1>1, <1>2, OnePieceRead DEF FlattenOther, Shape
<1>4. Shape'
      BY <1>1, <1>3, ShapeWhileReading DEF FlattenOther
<1> QED BY <1>3, <1>4 DEF TypeOK, FlattenOther, buffers, caches

\* A reference in a text that is flattened keeps the types and the shape of
\* the state.
LEMMA FlattenReferenceTypes ==
    ASSUME TypeOK, Shape, FlattenReference
    PROVE  TypeOK' /\ Shape'
<1> DEFINE name   == Piece.of
           answer == Answer(name, TRUE)
<1>1. calls # << >> /\ More /\ Current.fn = "flatten" /\ failed = "none"
      BY DEF FlattenReference, In
<1>2. /\ name \in Name /\ doc.entity[name].text \in Seq(Item)
      /\ answer \in {"expand", "limit", "fatal", "skipped", "error"}
      /\ entity_expansion_count \in Nat
      BY <1>1, PieceIs, ReferenceIs DEF FlattenReference
<1>3. /\ entity_expansion_count' \in Nat /\ failed' \in {"none", "refused", "limit"}
      /\ failed' = "none" <=> answer \notin {"fatal", "limit"}
  <2> HIDE DEF answer
  <2>1. Checked(answer)
        BY DEF FlattenReference, answer
  <2> QED BY <2>1, <1>2, CheckedIs
<1>4. heard' \in Seq(Events)
  <2>1. Told(answer, name) \in Seq(Events)
        BY <1>2, HearIs
  <2> QED BY <2>1, HearIs DEF FlattenReference, Hear
<1>5. content_entity_cache' \in [Name -> Seq(Literal) \cup {Unknown, NotFlat}]
      BY <1>2, CacheIs DEF FlattenReference, TypeOK
<1>6. /\ calls' \in Seq(Calls) /\ CallsShape(calls')
      /\ calls' # << >> => calls'[1].fn = calls[1].fn /\ failed' = "none"
  <2>1. CASE answer \in {"fatal", "limit"}
        BY <2>1, NoCalls DEF FlattenReference
  <2>2. CASE answer \in {"skipped", "error"}
    <3>1. calls' = HasRead(NotFlat) /\ Fits(Current.fn, NotFlat)
          BY <2>2, <1>1 DEF FlattenReference, Fits
    <3> QED BY <3>1, <2>2, <1>1, <1>3, OnePieceRead DEF Shape
  <2>3. CASE answer = "expand" /\ Flat(name) = Unknown
    <3>1. calls' = Append(HasRead(Current.out), Call(Current.fn, name, doc.entity[name].text))
          BY <2>3, <1>1 DEF FlattenReference
    <3>2. CallsShape(calls)
          BY DEF Shape
    <3> DEFINE text == doc.entity[name].text
    <3> HIDE DEF name, answer, text
    <3>4. text \in Seq(Item) /\ name \in Name
          BY <1>2 DEF text
    <3>5. calls' = Calling(name, text)
          BY <3>1 DEF text, Calling
    <3>3. /\ calls' \in Seq(Calls) /\ CallsShape(calls') /\ calls' # << >>
          /\ calls'[1].fn = calls[1].fn
          BY <3>5, <3>2, <3>4, <1>1, OneMoreCall
    <3> QED BY <3>3, <2>3, <1>3
  <2>4. CASE answer = "expand" /\ Flat(name) # Unknown
    <3>1. calls' = HasRead(Joined(Current.out, Flat(name)))
          BY <2>4 DEF FlattenReference
    <3>2. Fits(Current.fn, Current.out) /\ Fits(Current.fn, Flat(name)) /\ Current.out # NotFlat
          BY <2>4, <1>1, <1>2, CurrentIs, CacheIs DEF Fits, More
    <3>3. Fits(Current.fn, Joined(Current.out, Flat(name)))
          BY <3>2, JoinedIs
    <3>4. CallsShape(calls)
          BY DEF Shape
    <3>5. /\ calls' \in Seq(Calls) /\ CallsShape(calls') /\ calls' # << >>
          /\ calls'[1].fn = calls[1].fn
          BY <3>1, <3>3, <3>4, <1>1, OnePieceRead
    <3> QED BY <3>5, <2>4, <1>3
  <2> QED BY <2>1, <2>2, <2>3, <2>4, <1>2
<1>7. Shape'
      BY <1>1, <1>6, ShapeWhileReading DEF FlattenReference
<1> QED BY <1>3, <1>4, <1>5, <1>6, <1>7 DEF TypeOK, FlattenReference, buffers

\* The end of a text that is flattened keeps the types and the shape of the
\* state.
LEMMA FlattenReturnTypes ==
    ASSUME TypeOK, Shape, FlattenReturn
    PROVE  TypeOK' /\ Shape'
<1>1. calls # << >> /\ Len(calls) > 1 /\ Current.fn = "flatten" /\ failed = "none" /\ failed' = failed
      BY DEF FlattenReturn, In
<1>2. /\ calls' \in Seq(Calls) /\ CallsShape(calls') /\ calls' # << >>
      /\ calls'[1].fn = calls[1].fn
      BY <1>1, OneCallLess DEF FlattenReturn, Shape, Return
<1>3. content_entity_cache' \in [Name -> Seq(Literal) \cup {Unknown, NotFlat}]
      BY <1>1, CurrentIs DEF FlattenReturn, TypeOK
<1>4. Shape'
      BY <1>1, <1>2, ShapeWhileReading DEF FlattenReturn
<1> QED BY <1>2, <1>3, <1>4 DEF TypeOK, FlattenReturn, buffers

\* A character of a value keeps the types and the shape of the state.
LEMMA ResolveCharacterTypes ==
    ASSUME TypeOK, Shape, ResolveCharacter
    PROVE  TypeOK' /\ Shape'
<1>1. calls # << >> /\ More /\ Current.fn = "resolve" /\ failed = "none"
      BY DEF ResolveCharacter, In
<1>2. Char(Piece.of) \in Letter
      BY <1>1, PieceIs, ItemIs DEF ResolveCharacter
<1>3. Fits(Current.fn, Append(Current.out, Char(Piece.of)))
      BY <1>1, <1>2, CurrentIs DEF Fits
<1>4. /\ calls' \in Seq(Calls) /\ CallsShape(calls') /\ calls' # << >>
      /\ calls'[1].fn = calls[1].fn
      BY <1>1, <1>3, OnePieceRead DEF ResolveCharacter, Shape
<1>5. Shape'
      BY <1>1, <1>4, ShapeWhileReading DEF ResolveCharacter
<1> QED BY <1>4, <1>5 DEF TypeOK, ResolveCharacter, buffers, caches

\* What a value may not have in it keeps the types and the shape of the
\* state.
LEMMA ResolveOtherTypes ==
    ASSUME TypeOK, Shape, ResolveOther
    PROVE  TypeOK' /\ Shape'
<1>1. calls # << >> /\ calls' = << >>
      BY DEF ResolveOther, In
<1>2. Shape'
      BY <1>1, NoCalls, ShapeWhileReading DEF ResolveOther
<1> QED BY <1>1, <1>2, NoCalls DEF TypeOK, ResolveOther, buffers, caches

\* A reference in a value keeps the types and the shape of the state.
LEMMA ResolveReferenceTypes ==
    ASSUME TypeOK, Shape, ResolveReference
    PROVE  TypeOK' /\ Shape'
<1> DEFINE name   == Piece.of
           answer == Answer(name, FALSE)
           cached == attribute_entity_cache[name]
<1>1. calls # << >> /\ More /\ Current.fn = "resolve" /\ failed = "none"
      BY DEF ResolveReference, In
<1>2. /\ name \in Name /\ doc.entity[name].text \in Seq(Item)
      /\ answer \in {"expand", "limit", "fatal", "skipped", "error"}
      /\ entity_expansion_count \in Nat
      BY <1>1, PieceIs, ReferenceIs DEF ResolveReference
<1>3. /\ entity_expansion_count' \in Nat /\ failed' \in {"none", "refused", "limit"}
      /\ failed' = "none" <=> answer \notin {"fatal", "limit"}
  <2> HIDE DEF answer
  <2>1. Checked(answer)
        BY DEF ResolveReference, answer
  <2> QED BY <2>1, <1>2, CheckedIs
<1>4. heard' \in Seq(Events)
  <2>1. Told(answer, name) \in Seq(Events)
        BY <1>2, HearIs
  <2> QED BY <2>1, HearIs DEF ResolveReference, Hear
<1>5. Fits(Current.fn, Current.out) /\ Current.out \in Seq(Letter)
      BY <1>1, CurrentIs DEF Fits
<1>6. /\ calls' \in Seq(Calls) /\ CallsShape(calls')
      /\ calls' # << >> => calls'[1].fn = calls[1].fn /\ failed' = "none"
  <2>1. CASE answer \in {"fatal", "limit"}
        BY <2>1, NoCalls DEF ResolveReference
  <2>2. CASE answer \in {"skipped", "error"}
    <3>1. calls' = HasRead(Current.out)
          BY <2>2 DEF ResolveReference
    <3> QED BY <3>1, <2>2, <1>1, <1>3, <1>5, OnePieceRead DEF Shape
  <2>3. CASE answer = "expand" /\ cached = Unknown
    <3>1. calls' = Append(HasRead(Current.out), Call(Current.fn, name, doc.entity[name].text))
          BY <2>3, <1>1 DEF ResolveReference
    <3>2. CallsShape(calls)
          BY DEF Shape
    <3> DEFINE text == doc.entity[name].text
    <3> HIDE DEF name, answer, text
    <3>4. text \in Seq(Item) /\ name \in Name
          BY <1>2 DEF text
    <3>5. calls' = Calling(name, text)
          BY <3>1 DEF text, Calling
    <3>3. /\ calls' \in Seq(Calls) /\ CallsShape(calls') /\ calls' # << >>
          /\ calls'[1].fn = calls[1].fn
          BY <3>5, <3>2, <3>4, <1>1, OneMoreCall
    <3> QED BY <3>3, <2>3, <1>3
  <2>4. CASE answer = "expand" /\ cached # Unknown
    <3>1. calls' = HasRead(Current.out \o cached)
          BY <2>4 DEF ResolveReference
    <3>2. cached \in Seq(Letter)
          BY <2>4, <1>2, CacheIs
    <3>3. Fits(Current.fn, Current.out \o cached)
          BY <3>2, <1>1, <1>5 DEF Fits
    <3>4. CallsShape(calls)
          BY DEF Shape
    <3>5. /\ calls' \in Seq(Calls) /\ CallsShape(calls') /\ calls' # << >>
          /\ calls'[1].fn = calls[1].fn
          BY <3>1, <3>3, <3>4, <1>1, OnePieceRead
    <3> QED BY <3>5, <2>4, <1>3
  <2> QED BY <2>1, <2>2, <2>3, <2>4, <1>2
<1>7. Shape'
      BY <1>1, <1>6, ShapeWhileReading DEF ResolveReference
<1> QED BY <1>3, <1>4, <1>6, <1>7 DEF TypeOK, ResolveReference, buffers

\* The end of the text of an entity in a value keeps the types and the shape
\* of the state.
LEMMA ResolveReturnTypes ==
    ASSUME TypeOK, Shape, ResolveReturn
    PROVE  TypeOK' /\ Shape'
<1>1. calls # << >> /\ Len(calls) > 1 /\ Current.fn = "resolve" /\ failed = "none" /\ failed' = failed
      BY DEF ResolveReturn, In
<1>2. /\ calls' \in Seq(Calls) /\ CallsShape(calls') /\ calls' # << >>
      /\ calls'[1].fn = calls[1].fn
      BY <1>1, OneCallLess DEF ResolveReturn, Shape, Return
<1>3. Current.name \in Name
  <2>1. Len(calls) \in 1 .. Len(calls) /\ Len(calls) # 1
        BY <1>1, CurrentIs
  <2>2. Current.name # NoName
        BY <2>1 DEF Shape, CallsShape, Current
  <2> QED BY <2>2, <1>1, CurrentIs
<1>4. attribute_entity_cache' \in [Name -> Seq(Letter) \cup {Unknown}]
      BY <1>1, <1>3, CurrentIs DEF ResolveReturn, TypeOK
<1>5. Shape'
      BY <1>1, <1>2, ShapeWhileReading DEF ResolveReturn
<1> QED BY <1>2, <1>4, <1>5 DEF TypeOK, ResolveReturn, buffers

\* What the lemmas on the scanner's actions have in common.
LEMMA RunningIs ==
    ASSUME TypeOK, Shape, Running, Rest # << >>
    PROVE  /\ calls = << >> /\ phase = "content" /\ failed = "none"
           /\ Head(Rest) \in Item /\ Tail(Rest) \in Seq(Item) /\ Rest \in Seq(Item)
           /\ FramesShape(frames)
<1>1. Rest \in Seq(Item)
      BY FramesIs
<1> QED BY <1>1 DEF Running, Shape

\* While the scanner runs, only the frames matter.
LEMMA ShapeWhileScanning ==
    ASSUME Shape, FramesShape(frames'), phase' = "content", calls' = << >>
    PROVE  Shape'
BY NoCalls DEF Shape

\* The frames, with another rest.
LEMMA AdvanceShape ==
    ASSUME TypeOK, FramesShape(frames), NEW rest \in Seq(Item)
    PROVE  Advanced(rest) \in Seq(Frames) /\ Advanced(rest) # << >> /\ FramesShape(Advanced(rest))
BY AdvanceIs, FramesIs DEF FramesShape

\* The frames, with one more.
LEMMA EnterShape ==
    ASSUME TypeOK, NEW saved \in Seq(Frames), FramesShape(saved), saved # << >>,
           NEW name \in Name, NEW text \in Seq(Item)
    PROVE  LET new == Entered(saved, name, text)
           IN  new \in Seq(Frames) /\ new # << >> /\ FramesShape(new)
<1> DEFINE new == Entered(saved, name, text)
<1>1. /\ new \in Seq(Frames) /\ new # << >> /\ Len(new) = Len(saved) + 1
      /\ \A i \in 1 .. Len(saved) : new[i] = saved[i]
      /\ new[Len(saved) + 1].name = name
  <2> DEFINE frame == Frame(name, text, element_stack)
  <2>1. frame \in Frames /\ frame.name = name
        BY DEF TypeOK, Frame, Frames
  <2>2. new = Append(saved, frame)
        BY DEF Entered
  <2> HIDE DEF frame, new
  <2> QED BY <2>1, <2>2
<1> HIDE DEF new
<1>2. name # NoName /\ Len(saved) \in Nat /\ Len(saved) >= 1
      BY NameAssumption
<1>3. ASSUME NEW i \in 1 .. Len(new)
      PROVE  new[i].name = NoName <=> i = 1
  <2>1. CASE i = Len(saved) + 1
        BY <2>1, <1>1, <1>2
  <2>2. CASE i # Len(saved) + 1
    <3>1. i \in 1 .. Len(saved)
          BY <2>2, <1>1, <1>2
    <3> QED BY <3>1, <1>1 DEF FramesShape
  <2> QED BY <2>1, <2>2
<1>4. FramesShape(new)
      BY <1>3 DEF FramesShape
<1> QED BY <1>1, <1>4 DEF new

\* The run of characters at the beginning of the text.
LEMMA RunIs ==
    ASSUME NEW text \in Seq(Item), text # << >>, Head(text).is = "text"
    PROVE  /\ AfterRun(text) \in 2 .. Len(text) + 1
           /\ SubSeq(text, 1, AfterRun(text) - 1) \in Seq(Letter)
           /\ SubSeq(text, AfterRun(text), Len(text)) \in Seq(Item)
           /\ AfterRun(text) <= Len(text) => text[AfterRun(text)].is # "text"
<1> DEFINE after == AfterRun(text)
           all == Append(text, Cut)
           I   == {i \in 1 .. Len(all) : all[i].is # "text"}
<1>1. Len(text) \in Nat /\ Len(text) >= 1 /\ text[1].is = "text"
      OBVIOUS
<1>2. /\ Len(all) = Len(text) + 1 /\ all[Len(text) + 1] = Cut
      /\ \A i \in 1 .. Len(text) : all[i] = text[i]
      BY <1>1
<1>3. Cut.is # "text"
      BY DEF Cut
<1>4. after = IF I # {} THEN Min(I) ELSE 0
      BY DEF SelectInSeq, AfterRun
<1> HIDE DEF all, after
<1>5. \A i : i \in I <=> i \in 1 .. Len(all) /\ all[i].is # "text"
      OBVIOUS
<1> HIDE DEF I
<1>6. Len(text) + 1 \in I /\ 1 \notin I /\ I \in SUBSET Nat
      BY <1>1, <1>2, <1>3, <1>5
<1>7. \E m \in I : \A j \in I : m <= j
      BY <1>6, Least
<1>8. after \in I /\ \A j \in I : after <= j
      BY <1>4, <1>6, <1>7 DEF Min
<1>9. after \in 1 .. Len(text) + 1 /\ after # 1
      BY <1>8, <1>2, <1>5, <1>6
<1>10. after \in 2 .. Len(text) + 1
      BY <1>9, <1>1
<1>11. ASSUME NEW i \in 1 .. after - 1
       PROVE  text[i] \in Letter
  <2>1. i \in 1 .. Len(text) /\ ~ (after <= i)
        BY <1>10, <1>1
  <2>2. i \notin I
        BY <2>1, <1>8
  <2>3. text[i].is = "text" /\ text[i] \in Item
        BY <2>1, <2>2, <1>1, <1>2, <1>5
  <2> QED BY <2>3, ItemIs, Literals
<1>12. SubSeq(text, 1, after - 1) \in Seq(Letter)
  <2>1. SubSeq(text, 1, after - 1) = [i \in 1 .. after - 1 |-> text[i]] /\ after - 1 \in Nat
        BY <1>1, <1>10
  <2> DEFINE n   == after - 1
             run == [i \in 1 .. n |-> text[i]]
  <2>2. run \in [1 .. n -> Letter] /\ n \in Nat
        BY <2>1, <1>11
  <2> HIDE DEF run, n
  <2>3. run \in Seq(Letter)
        BY <2>2
  <2> QED BY <2>1, <2>3 DEF run, n
<1>13. after <= Len(text) => text[after].is # "text"
      BY <1>8, <1>9, <1>2, <1>5
<1>14. SubSeq(text, after, Len(text)) \in Seq(Item)
      BY <1>1, <1>10
<1> QED BY <1>10, <1>12, <1>13, <1>14 DEF after

\* The end of the document type declaration keeps the types and the shape of
\* the state.
LEMMA EndOfDoctypeTypes ==
    ASSUME TypeOK, Shape, EndOfDoctype
    PROVE  TypeOK' /\ Shape'
<1> DEFINE call == Call("resolve", NoName, doc.default)
<1>1. call \in Calls /\ call.name = NoName /\ call.fn = "resolve"
  <2>1. doc.default \in Seq(Item)
        BY DEF TypeOK, Legal
  <2> QED BY <2>1, CallIs DEF Call
<1>2. calls' = <<call>>
      BY DEF EndOfDoctype
<1> HIDE DEF call
<1>3. /\ calls' \in Seq(Calls) /\ CallsShape(calls') /\ calls' # << >>
      /\ calls'[1] = call
      BY <1>1, <1>2, FirstCall
<1>4. Shape'
      BY <1>1, <1>3 DEF Shape, EndOfDoctype, buffers
<1> QED BY <1>3, <1>4 DEF TypeOK, EndOfDoctype, buffers, caches

\* The end of a value keeps the types and the shape of the state.
LEMMA EndOfValueTypes ==
    ASSUME TypeOK, Shape, EndOfValue
    PROVE  TypeOK' /\ Shape'
<1>1. calls # << >> /\ calls' = << >> /\ Current.out \in Seq(Letter)
  <2>1. calls # << >> /\ Current.fn = "resolve"
        BY DEF EndOfValue, In
  <2> QED BY <2>1, CurrentIs DEF EndOfValue
<1>2. default_value' \in Seq(Letter) /\ phase' = "content"
      BY <1>1 DEF EndOfValue, TypeOK, Shape
<1>3. heard' \in Seq(Events)
  <2> DEFINE value == <<"attribute", Current.out>>
             close == <<"close">>
  <2>1. value \in Events /\ close \in Events
        BY <1>1, HearIs
  <2>2. heard' = heard \/ heard' = heard \o <<value, close>>
        BY DEF EndOfValue, Hear
  <2> HIDE DEF value, close
  <2>3. <<value, close>> \in Seq(Events)
        BY <2>1
  <2> QED BY <2>2, <2>3, HearIs DEF TypeOK
<1>4. Shape'
      BY <1>1, <1>2, NoCalls DEF Shape, EndOfValue, buffers
<1> QED BY <1>1, <1>2, <1>3, <1>4, NoCalls DEF TypeOK, EndOfValue, buffers, caches

\* Whether markup comes next.
LEMMA AtMarkupIs == \A rest : AtMarkup(rest) \in BOOLEAN
BY DEF AtMarkup

\* A run of characters keeps the types and the shape of the state.
LEMMA CharactersTypes ==
    ASSUME TypeOK, Shape, Characters
    PROVE  TypeOK' /\ Shape'
<1> DEFINE run  == SubSeq(Rest, 1, AfterRun(Rest) - 1)
           rest == SubSeq(Rest, AfterRun(Rest), Len(Rest))
<1>1. Running /\ Rest # << >> /\ Head(Rest).is = "text"
      BY DEF Characters
<1>2. run \in Seq(Letter) /\ rest \in Seq(Item)
      BY <1>1, RunningIs, RunIs
<1>3. CASE Broken(run)
  <2>1. UNCHANGED <<doc, phase, buffers, calls, caches, default_value, heard, resets>>
          /\ failed' = "refused"
        BY <1>3 DEF Characters
  <2> QED BY <2>1, <1>1 DEF TypeOK, Shape, Running, buffers, caches
<1>4. CASE ~Broken(run)
  <2> HIDE DEF run, rest
  <2>1. /\ Hear(<<Text(run, AtMarkup(rest))>>) /\ Advance(rest)
        /\ content_run_open' = ~AtMarkup(rest) /\ content_bracket_run' \in BOOLEAN
        /\ UNCHANGED <<doc, phase, failed, element_stack, calls, caches, default_value, resets>>
        BY <1>4 DEF Characters, run, rest
  <2>2. AtMarkup(rest) \in BOOLEAN
        BY AtMarkupIs
  <2>3. heard' \in Seq(Events)
    <3> DEFINE event == Text(run, AtMarkup(rest))
    <3>1. event \in Events
          BY <1>2, <2>2, HearIs
    <3>2. Hear(<<event>>)
          BY <2>1
    <3> HIDE DEF event
    <3> QED BY <3>1, <3>2, HearIs DEF Hear
  <2>4. frames' \in Seq(Frames) /\ frames' # << >> /\ FramesShape(frames')
        BY <2>1, <1>1, <1>2, RunningIs, AdvanceShape DEF Advance
  <2>5. Shape'
        BY <2>1, <2>4, <1>1, ShapeWhileScanning DEF Running
  <2> QED BY <2>1, <2>2, <2>3, <2>4, <2>5 DEF TypeOK, caches
<1> QED BY <1>3, <1>4

\* A step that advances in the text and reports no more than events.
LEMMA ScannerStepTypes ==
    ASSUME TypeOK, Shape, Running, Rest # << >>, Advance(Tail(Rest)),
           NEW events \in Seq(Events), Hear(events),
           content_run_open' \in BOOLEAN, content_bracket_run' \in BOOLEAN,
           element_stack' \in Nat \ {0}, failed' \in {"none", "refused", "limit"},
           entity_expansion_count' \in Nat,
           UNCHANGED <<doc, phase, calls, content_entity_cache, attribute_entity_cache,
                       default_value, resets>>
    PROVE  TypeOK' /\ Shape'
<1>1. frames' \in Seq(Frames) /\ frames' # << >> /\ FramesShape(frames')
      BY RunningIs, AdvanceShape DEF Advance
<1>2. Shape'
      BY <1>1, ShapeWhileScanning DEF Running
<1>3. heard' \in Seq(Events)
      BY HearIs DEF Hear
<1> QED BY <1>1, <1>2, <1>3 DEF TypeOK

\* It is decoded to a character.
LEMMA DecodedIs ==
    ASSUME TypeOK, Shape, Decoded
    PROVE  Char(Head(Rest).of) \in Letter
<1>1. Running /\ Rest # << >> /\ Head(Rest).is \in {"predefined", "charref"}
      BY DEF Decoded
<1>2. Head(Rest) \in Item
      BY <1>1, RunningIs
<1>3. Head(Rest) = Predefined \/ Head(Rest) = CharRef
      BY <1>1, <1>2 DEF Item, Literal, Char, Reference, Attribute, OpenTag, CloseTag, Cut
<1>4. Head(Rest).of = "<"
      BY <1>3 DEF Predefined, CharRef
<1> QED BY <1>4 DEF Letter

\* A character that is written as a reference keeps the types and the shape
\* of the state.
LEMMA DecodedTypes ==
    ASSUME TypeOK, Shape, Decoded
    PROVE  TypeOK' /\ Shape'
<1> DEFINE char  == Char(Head(Rest).of)
           event == Text(<<char>>, AtMarkup(Tail(Rest)))
<1>1. Running /\ Rest # << >> /\ Head(Rest).is \in {"predefined", "charref"}
      BY DEF Decoded
<1>2. char \in Letter
      BY DecodedIs
<1>3. AtMarkup(Tail(Rest)) \in BOOLEAN
      BY AtMarkupIs
<1>4. event \in Events
  <2> HIDE DEF char
  <2>1. <<char>> \in Seq(Letter)
        BY <1>2
  <2> QED BY <2>1, <1>3, HearIs
<1>5. Hear(<<event>>) /\ Advance(Tail(Rest)) /\ content_run_open' \in BOOLEAN
        /\ content_bracket_run' = FALSE
        /\ UNCHANGED <<doc, phase, failed, element_stack, calls, caches, default_value, resets>>
      BY <1>3 DEF Decoded
<1> HIDE DEF event
<1>6. <<event>> \in Seq(Events)
      BY <1>4
<1> QED BY <1>1, <1>5, <1>6, ScannerStepTypes DEF TypeOK, caches

\* A start tag keeps the types and the shape of the state.
LEMMA StartTagTypes ==
    ASSUME TypeOK, Shape, StartTag
    PROVE  TypeOK' /\ Shape'
<1> DEFINE open   == <<"open">>
           value  == <<"attribute", default_value>>
           values == IF doc.default = << >> THEN << >> ELSE <<value>>
           events == Completed \o <<open>> \o values
<1>1. open \in Events /\ value \in Events
      BY HearIs DEF TypeOK
<1>2. /\ Running /\ Rest # << >> /\ Advance(Tail(Rest)) /\ TagBegins
      /\ element_stack' = element_stack + 1 /\ Hear(events)
      /\ UNCHANGED <<doc, phase, failed, calls, caches, default_value, resets>>
      BY DEF StartTag
<1>3. events \in Seq(Events)
  <2> HIDE DEF open, value
  <2>1. <<open>> \in Seq(Events)
        BY <1>1
  <2>2. values \in Seq(Events)
        BY <1>1
  <2> QED BY <2>1, <2>2, HearIs
<1> HIDE DEF events
<1>4. element_stack' \in Nat \ {0} /\ content_run_open' \in BOOLEAN /\ content_bracket_run' \in BOOLEAN
        /\ failed' \in {"none", "refused", "limit"} /\ entity_expansion_count' \in Nat
  <2>1. element_stack \in Nat \ {0} /\ failed \in {"none", "refused", "limit"}
          /\ entity_expansion_count \in Nat
        BY DEF TypeOK
  <2>2. element_stack' \in Nat \ {0}
        BY <1>2, <2>1
  <2>3. content_run_open' \in BOOLEAN /\ content_bracket_run' \in BOOLEAN
        BY <1>2 DEF TagBegins
  <2>4. failed' = failed /\ entity_expansion_count' = entity_expansion_count
        BY <1>2 DEF caches
  <2> QED BY <2>1, <2>2, <2>3, <2>4
<1> QED BY <1>2, <1>3, <1>4, ScannerStepTypes DEF caches

\* A tag with a value in it keeps the types and the shape of the state.
LEMMA AttributeTagTypes ==
    ASSUME TypeOK, Shape, AttributeTag
    PROVE  TypeOK' /\ Shape'
<1> DEFINE item == Reference(Head(Rest).of)
           call == Call("resolve", NoName, <<item>>)
           open == <<"open">>
<1>1. Running /\ Rest # << >> /\ Head(Rest).is = "attribute"
      BY DEF AttributeTag
<1>2. item \in Item
  <2>1. Head(Rest).of \in Name
        BY <1>1, RunningIs, ItemIs
  <2> QED BY <2>1 DEF Item
<1>3. call \in Calls /\ call.name = NoName /\ call.fn = "resolve"
  <2> HIDE DEF item
  <2>1. <<item>> \in Seq(Item)
        BY <1>2
  <2> QED BY <2>1, CallIs DEF Call
<1>4. calls' = <<call>>
      BY DEF AttributeTag
<1>5. /\ calls' \in Seq(Calls) /\ CallsShape(calls') /\ calls' # << >>
      /\ calls'[1] = call
  <2> HIDE DEF call
  <2> QED BY <1>3, <1>4, FirstCall
<1>6. heard' \in Seq(Events)
  <2>1. open \in Events /\ Completed \in Seq(Events)
        BY HearIs
  <2>2. Hear(Append(Completed, open))
        BY DEF AttributeTag
  <2> HIDE DEF open
  <2> QED BY <2>1, <2>2, HearIs DEF Hear
<1>7. frames' \in Seq(Frames) /\ frames' # << >> /\ FramesShape(frames')
      BY <1>1, RunningIs, AdvanceShape DEF Advance, AttributeTag
<1>8. Shape'
      BY <1>1, <1>5, <1>7 DEF Shape, AttributeTag, Running, TagBegins
<1> QED BY <1>5, <1>6, <1>7, <1>8 DEF TypeOK, AttributeTag, TagBegins, caches

\* An end tag keeps the types and the shape of the state.
LEMMA EndTagTypes ==
    ASSUME TypeOK, Shape, EndTag
    PROVE  TypeOK' /\ Shape'
<1> DEFINE close == <<"close">>
<1>1. close \in Events /\ Completed \in Seq(Events)
      BY HearIs
<1>2. /\ Running /\ Rest # << >> /\ Advance(Tail(Rest)) /\ TagBegins
      /\ UNCHANGED <<doc, phase, calls, caches, default_value, resets>>
      BY DEF EndTag
<1>3. CASE element_stack > Top.floor
  <2>1. element_stack' = element_stack - 1 /\ Hear(Completed \o <<close>>) /\ UNCHANGED failed
        BY <1>3 DEF EndTag
  <2> HIDE DEF close
  <2>2. Completed \o <<close>> \in Seq(Events)
        BY <1>1
  <2>3. element_stack' \in Nat \ {0}
        BY <2>1, <1>3, FramesIs DEF TypeOK
  <2> QED BY <1>2, <2>1, <2>2, <2>3, ScannerStepTypes DEF TypeOK, caches, TagBegins
<1>4. CASE ~(element_stack > Top.floor)
  <2>1. failed' = "refused" /\ Hear(Completed) /\ UNCHANGED element_stack
        BY <1>4 DEF EndTag
  <2> QED BY <1>1, <1>2, <2>1, ScannerStepTypes DEF TypeOK, caches, TagBegins
<1> QED BY <1>3, <1>4

\* An entity that has been flattened keeps the types and the shape of the
\* state.
LEMMA EnterFlattenedTypes ==
    ASSUME TypeOK, Shape, EnterFlattened
    PROVE  TypeOK' /\ Shape'
<1> DEFINE name == Current.name
           text == Scanned(name, Current.out)
<1>1. calls # << >> /\ Current.fn = "flatten" /\ failed = "none" /\ Len(calls) = 1
      BY DEF EnterFlattened, In
<1>2. name \in Name /\ Current.out \in Seq(Literal) \cup {NotFlat}
      BY <1>1, CurrentIs
<1>3. text \in Seq(Item)
  <2>1. \A s \in Seq(Literal) : s \in Seq(Item)
        BY Literals
  <2>2. doc.entity[name].text \in Seq(Item)
        BY <1>2, EntityIs DEF TypeOK
  <2> QED BY <1>2, <2>1, <2>2 DEF Scanned
<1>4. frames \in Seq(Frames) /\ frames # << >> /\ FramesShape(frames)
      BY DEF TypeOK, Shape
<1>5. frames' \in Seq(Frames) /\ frames' # << >> /\ FramesShape(frames')
  <2>1. frames' = Entered(frames, name, text)
        BY DEF EnterFlattened
  <2> HIDE DEF text, name
  <2> QED BY <2>1, <1>2, <1>3, <1>4, EnterShape
<1>6. content_entity_cache' \in [Name -> Seq(Literal) \cup {Unknown, NotFlat}]
      BY <1>2 DEF EnterFlattened, TypeOK
<1>7. phase = "content"
  <2>1. calls[1].fn = "flatten"
        BY <1>1 DEF Current
  <2> QED BY <2>1, <1>1 DEF Shape, TypeOK
<1>8. Shape'
      BY <1>5, <1>7, ShapeWhileScanning DEF EnterFlattened
<1> QED BY <1>5, <1>6, <1>8, NoCalls DEF TypeOK, EnterFlattened

\* A step that goes from one text to the one within it.
LEMMA EnterStepTypes ==
    ASSUME TypeOK, Shape, Running, Rest # << >>, NEW name \in Name, NEW text \in Seq(Item),
           frames' = Entered(Advanced(Tail(Rest)), name, text),
           heard' \in Seq(Events), failed' \in {"none", "refused", "limit"},
           content_run_open' = FALSE, content_bracket_run' = FALSE, entity_expansion_count' \in Nat,
           UNCHANGED <<doc, phase, calls, element_stack, content_entity_cache,
                       attribute_entity_cache, default_value, resets>>
    PROVE  TypeOK' /\ Shape'
<1>1. Advanced(Tail(Rest)) \in Seq(Frames) /\ Advanced(Tail(Rest)) # << >>
        /\ FramesShape(Advanced(Tail(Rest)))
      BY RunningIs, AdvanceShape
<1>2. frames' \in Seq(Frames) /\ frames' # << >> /\ FramesShape(frames')
      BY <1>1, EnterShape
<1>3. Shape'
      BY <1>2, ShapeWhileScanning DEF Running
<1> QED BY <1>2, <1>3 DEF TypeOK

\* How a reference in content is answered: not expanded, ...
NotExpanded(name, answer) ==
    /\ answer # "expand"
    /\ Checked(answer) /\ Hear(Completed \o Told(answer, name))
    /\ Advance(Tail(Rest)) /\ UNCHANGED calls

\* ... or its beginning reported and its text ...
Begins(name) == Append(Completed, <<"start", name>>)

\* ... left alone, ...
Skipped(name, answer) ==
    /\ answer = "expand" /\ doc.entity[name].kind = "external" /\ doc.external = "off"
    /\ Checked(answer) /\ Hear(Append(Begins(name), <<"end", name>>))
    /\ Advance(Tail(Rest)) /\ UNCHANGED calls

\* ... not to be had, ...
Denied(name, answer) ==
    /\ answer = "expand" /\ doc.entity[name].kind = "external" /\ doc.external = "denied"
    /\ entity_expansion_count' = entity_expansion_count + 1 /\ failed' = "refused"
    /\ Hear(Begins(name)) /\ Advance(Tail(Rest)) /\ UNCHANGED calls

\* ... scanned as it is ...
Scans(name, answer, text) ==
    /\ answer = "expand"
    /\ Checked(answer) /\ Hear(Begins(name))
    /\ frames' = Entered(Advanced(Tail(Rest)), name, text)
    /\ UNCHANGED calls
    /\ \/ /\ doc.entity[name].kind = "external"
          /\ text = doc.entity[name].text
       \/ /\ doc.entity[name].kind # "external" /\ Flat(name) # Unknown
          /\ text = Scanned(name, Flat(name))

\* ... or read first.
Reads(name, answer) ==
    /\ answer = "expand" /\ doc.entity[name].kind # "external" /\ Flat(name) = Unknown
    /\ Checked(answer) /\ Hear(Begins(name))
    /\ Advance(Tail(Rest))
    /\ calls' = <<Call("flatten", name, doc.entity[name].text)>>

\* What becomes of a reference in content.
LEMMA ReferenceCases ==
    ASSUME TypeOK, Shape, GeneralReference
    PROVE  /\ Running /\ Rest # << >> /\ Head(Rest).is = "reference"
           /\ Head(Rest) = Reference(Head(Rest).of)
           /\ content_run_open' = FALSE /\ content_bracket_run' = FALSE
           /\ UNCHANGED <<doc, phase, element_stack, content_entity_cache, attribute_entity_cache,
                          default_value, resets>>
           /\ \E name \in Name, answer \in {"expand", "limit", "fatal", "skipped", "error"} :
                /\ name = Head(Rest).of /\ answer = Answer(name, TRUE)
                /\ \/ NotExpanded(name, answer) \/ Skipped(name, answer) \/ Denied(name, answer)
                   \/ Reads(name, answer)
                   \/ \E text \in Seq(Item) : Scans(name, answer, text)
<1> DEFINE name   == Head(Rest).of
           answer == Answer(name, TRUE)
<1>1. /\ Running /\ Rest # << >> /\ Head(Rest).is = "reference"
      /\ content_run_open' = FALSE /\ content_bracket_run' = FALSE
      /\ UNCHANGED <<doc, phase, element_stack, content_entity_cache, attribute_entity_cache,
                     default_value, resets>>
      BY DEF GeneralReference
<1>2. /\ name \in Name /\ doc.entity[name].text \in Seq(Item)
      /\ answer \in {"expand", "limit", "fatal", "skipped", "error"}
      BY <1>1, RunningIs, ReferenceIs
<1>5. Head(Rest) = Reference(name)
      BY <1>1, RunningIs, ItemIs
<1>3. Scanned(name, Flat(name)) \in Seq(Item) \/ Flat(name) = Unknown
  <2>1. \A s \in Seq(Literal) : s \in Seq(Item)
        BY Literals
  <2>2. Flat(name) \in Seq(Literal) \cup {Unknown, NotFlat}
        BY <1>2, CacheIs
  <2> QED BY <1>2, <2>1, <2>2 DEF Scanned
<1>4. \/ NotExpanded(name, answer) \/ Skipped(name, answer) \/ Denied(name, answer)
      \/ Reads(name, answer)
      \/ Scans(name, answer, doc.entity[name].text)
      \/ Scans(name, answer, Scanned(name, Flat(name))) /\ Flat(name) # Unknown
      BY DEF GeneralReference, NotExpanded, Skipped, Denied, Reads, Scans, Begins
<1> HIDE DEF name, answer
<1> QED BY <1>1, <1>2, <1>3, <1>4, <1>5 DEF name, answer

\* A reference in content keeps the types and the shape of the state.
LEMMA GeneralReferenceTypes ==
    ASSUME TypeOK, Shape, GeneralReference
    PROVE  TypeOK' /\ Shape'
<1>1. PICK name \in Name, answer \in {"expand", "limit", "fatal", "skipped", "error"} :
                /\ name = Head(Rest).of /\ answer = Answer(name, TRUE)
                /\ \/ NotExpanded(name, answer) \/ Skipped(name, answer) \/ Denied(name, answer)
                   \/ Reads(name, answer)
                   \/ \E text \in Seq(Item) : Scans(name, answer, text)
      BY ReferenceCases
<1>2. /\ Running /\ Rest # << >>
      /\ content_run_open' \in BOOLEAN /\ content_bracket_run' \in BOOLEAN
      /\ content_run_open' = FALSE /\ content_bracket_run' = FALSE
      /\ UNCHANGED <<doc, phase, element_stack, content_entity_cache, attribute_entity_cache,
                     default_value, resets>>
      BY ReferenceCases
<1>3. Checked(answer) => entity_expansion_count' \in Nat /\ failed' \in {"none", "refused", "limit"}
                           /\ (answer = "expand" => failed' = "none")
      BY CheckedIs DEF TypeOK
<1>4. /\ Completed \o Told(answer, name) \in Seq(Events)
      /\ Begins(name) \in Seq(Events) /\ Append(Begins(name), <<"end", name>>) \in Seq(Events)
  <2> DEFINE start == <<"start", name>>
             end   == <<"end", name>>
  <2>1. /\ Completed \in Seq(Events) /\ Told(answer, name) \in Seq(Events)
        /\ start \in Events /\ end \in Events
        BY HearIs
  <2>2. Begins(name) = Append(Completed, start)
        BY DEF Begins
  <2> HIDE DEF start, end
  <2>3. Begins(name) \in Seq(Events) /\ Append(Begins(name), end) \in Seq(Events)
        BY <2>1, <2>2
  <2> QED BY <2>1, <2>3 DEF end
<1>5. element_stack \in Nat \ {0} /\ entity_expansion_count \in Nat
      BY DEF TypeOK
<1>6. element_stack' \in Nat \ {0}
      BY <1>2, <1>5
<1>7. CASE NotExpanded(name, answer)
      BY <1>7, <1>2, <1>3, <1>4, <1>6, ScannerStepTypes DEF NotExpanded
<1>8. CASE Skipped(name, answer)
      BY <1>8, <1>2, <1>3, <1>4, <1>6, ScannerStepTypes DEF Skipped
<1>9. CASE Denied(name, answer)
  <2>1. entity_expansion_count' \in Nat /\ failed' \in {"none", "refused", "limit"}
        BY <1>9, <1>5 DEF Denied
  <2> QED BY <2>1, <1>9, <1>2, <1>4, <1>6, ScannerStepTypes DEF Denied
<1>10. CASE \E text \in Seq(Item) : Scans(name, answer, text)
  <2>1. PICK text \in Seq(Item) : Scans(name, answer, text)
        BY <1>10
  <2>2. heard' \in Seq(Events)
        BY <2>1, <1>4, HearIs DEF Scans, Hear
  <2> QED BY <2>1, <2>2, <1>2, <1>3, EnterStepTypes DEF Scans
<1>11. CASE Reads(name, answer)
  <2> DEFINE call == Call("flatten", name, doc.entity[name].text)
  <2>1. call \in Calls /\ call.name = name /\ call.fn = "flatten"
    <3>1. doc.entity[name].text \in Seq(Item) /\ name # NoName /\ name \in Name \cup {NoName}
          BY EntityIs, NameAssumption DEF TypeOK
    <3> QED BY <3>1, CallIs
  <2>2. calls' = <<call>>
        BY <1>11 DEF Reads
  <2> HIDE DEF call
  <2>3. calls' \in Seq(Calls) /\ CallsShape(calls') /\ calls' # << >> /\ calls'[1] = call
        BY <2>1, <2>2, FirstCall, NameAssumption
  <2>4. frames' \in Seq(Frames) /\ frames' # << >> /\ FramesShape(frames')
        BY <1>11, <1>2, RunningIs, AdvanceShape DEF Advance, Reads
  <2>5. heard' \in Seq(Events) /\ entity_expansion_count' \in Nat /\ failed' = "none"
        BY <1>11, <1>3, <1>4, HearIs DEF Reads, Hear
  <2>6. phase' = "content"
        BY <1>2 DEF Running
  <2>7. Shape'
        BY <2>3, <2>4, <2>5, <2>6, <1>2 DEF Shape
  <2> QED BY <2>3, <2>4, <2>5, <2>7, <1>2, <1>6 DEF TypeOK
<1> QED BY <1>1, <1>7, <1>8, <1>9, <1>10, <1>11

\* A sequence without its last element.
LEMMA FrontIs ==
    ASSUME NEW S, NEW s \in Seq(S), s # << >>
    PROVE  /\ Front(s) \in Seq(S) /\ Len(Front(s)) = Len(s) - 1
           /\ \A i \in 1 .. Len(s) - 1 : Front(s)[i] = s[i]
           /\ Len(s) > 1 => Front(s) # << >>
<1> DEFINE n == Len(s) - 1
           front == [i \in 1 .. n |-> s[i]]
<1>1. n \in Nat /\ Len(s) = n + 1 /\ \A i \in 1 .. n : s[i] \in S
      OBVIOUS
<1>2. Front(s) = front
      BY <1>1 DEF Front
<1>3. front \in [1 .. n -> S]
      BY <1>1
<1> HIDE DEF n
<1>4. \A i \in 1 .. n : front[i] = s[i]
      OBVIOUS
<1> HIDE DEF front
<1>5. front \in Seq(S) /\ Len(front) = n
      BY <1>1, <1>3
<1> QED BY <1>1, <1>2, <1>4, <1>5

\* The end of the text of an entity keeps the types and the shape of the
\* state.
LEMMA EndOfEntityTypes ==
    ASSUME TypeOK, Shape, EndOfEntity
    PROVE  TypeOK' /\ Shape'
<1>1. /\ Running /\ Rest = << >> /\ Len(frames) > 1
      /\ UNCHANGED <<doc, phase, element_stack, content_bracket_run, calls, caches,
                     default_value, resets>>
      BY DEF EndOfEntity
<1>2. CASE element_stack # Top.floor
  <2>1. failed' = "refused" /\ UNCHANGED <<frames, content_run_open, heard>>
        BY <1>2 DEF EndOfEntity
  <2> QED BY <1>1, <2>1 DEF TypeOK, Shape, Running, caches
<1>3. CASE element_stack = Top.floor
  <2> DEFINE event == <<"end", Top.name>>
  <2>1. /\ Hear(Append(Completed, event)) /\ frames' = Front(frames)
        /\ content_run_open' = Top.open /\ UNCHANGED failed
        BY <1>3 DEF EndOfEntity
  <2>2. /\ frames \in Seq(Frames) /\ Len(frames) \in Nat /\ Top \in Frames
        /\ Top.name # NoName
        BY <1>1, FramesIs DEF Shape, FramesShape, Top
  <2>3. event \in Events
    <3>1. Top.name \in Name
          BY <2>2 DEF Frames
    <3> QED BY <3>1, HearIs
  <2>4. heard' \in Seq(Events)
    <3> HIDE DEF event
    <3>1. Append(Completed, event) \in Seq(Events)
          BY <2>3, HearIs
    <3> QED BY <3>1, <2>1, HearIs DEF Hear
  <2>5. Front(frames) \in Seq(Frames) /\ Front(frames) # << >> /\ Len(Front(frames)) = Len(frames) - 1
          /\ \A i \in 1 .. Len(frames) - 1 : Front(frames)[i] = frames[i]
        BY <1>1, <2>2, FrontIs
  <2>6. FramesShape(frames')
        BY <2>1, <2>2, <2>5 DEF Shape, FramesShape
  <2>7. Top.open \in BOOLEAN
        BY <2>2 DEF Frames
  <2>8. Shape'
        BY <1>1, <2>6, ShapeWhileScanning DEF Running
  <2> QED BY <1>1, <2>1, <2>4, <2>5, <2>7, <2>8 DEF TypeOK, caches
<1> QED BY <1>2, <1>3

\* The end of the text, within a reference keeps the types and the shape of
\* the state.
LEMMA EndWithinReferenceTypes ==
    ASSUME TypeOK, Shape, EndWithinReference
    PROVE  TypeOK' /\ Shape'
BY DEF TypeOK, Shape, EndWithinReference, Running, buffers, caches

\* The end of the document keeps the types and the shape of the state.
LEMMA EndOfDocumentTypes ==
    ASSUME TypeOK, Shape, EndOfDocument
    PROVE  TypeOK' /\ Shape'
<1>1. /\ Running /\ Len(frames) = 1 /\ TagBegins /\ Hear(Completed)
      /\ UNCHANGED <<doc, frames, element_stack, calls, caches, default_value, resets>>
      /\ \/ failed' = "refused" /\ UNCHANGED phase
         \/ phase' = "done" /\ UNCHANGED failed /\ ~(element_stack > 1)
      BY DEF EndOfDocument
<1>2. heard' \in Seq(Events)
      BY <1>1, HearIs DEF Hear
<1>3. element_stack \in Nat \ {0}
      BY DEF TypeOK
<1>4. Shape'
      BY <1>1, <1>3 DEF Shape, Running, TagBegins
<1> QED BY <1>1, <1>2, <1>4 DEF TypeOK, TagBegins, caches

\* A document begins.
LEMMA Begin ==
    ASSUME NEW d, Legal(d)
    PROVE  LET begin == <<Frame(NoName, d.content, 1)>>
           IN  begin \in Seq(Frames) /\ begin # << >> /\ Len(begin) = 1 /\ FramesShape(begin)
<1> DEFINE frame == Frame(NoName, d.content, 1)
<1>1. frame \in Frames /\ frame.name = NoName
      BY DEF Legal, Frame, Frames
<1> HIDE DEF frame
<1>2. <<frame>> \in Seq(Frames) /\ <<frame>> # << >> /\ Len(<<frame>>) = 1 /\ <<frame>>[1] = frame
      BY <1>1
<1>3. FramesShape(<<frame>>)
      BY <1>1, <1>2 DEF FramesShape
<1> QED BY <1>2, <1>3 DEF frame

\* Nothing at all is a text, a report and no calls.
LEMMA Empty == << >> \in Seq(Letter) /\ << >> \in Seq(Events) /\ << >> \in Seq(Calls)
BY EmptySeq

\* Caches without entries are caches.
LEMMA EmptyCaches ==
    /\ NoEntries \in [Name -> Seq(Literal) \cup {Unknown, NotFlat}]
    /\ NoEntries \in [Name -> Seq(Letter) \cup {Unknown}]
BY DEF NoEntries

\* A reset keeps the types and the shape of the state.
LEMMA ResetTypes ==
    ASSUME TypeOK, Shape, Reset
    PROVE  TypeOK' /\ Shape'
<1>1. PICK d \in Others : doc' = d /\ frames' = <<Frame(NoName, d.content, 1)>>
      BY DEF Reset
<1>2. Legal(d)
      BY DocumentsAssumption
<1>3. frames' \in Seq(Frames) /\ frames' # << >> /\ Len(frames') = 1 /\ FramesShape(frames')
      BY <1>1, <1>2, Begin
<1>4. /\ calls' = << >> /\ phase' = "doctype" /\ failed' = "none" /\ element_stack' = 1
      /\ content_run_open' = FALSE /\ content_bracket_run' = FALSE
      /\ content_entity_cache' = NoEntries /\ attribute_entity_cache' = NoEntries
      /\ entity_expansion_count' = 0 /\ default_value' = << >> /\ heard' = << >> /\ resets' = 1
      BY DEF Reset
<1>5. Shape'
      BY <1>3, <1>4, NoCalls DEF Shape
<1>6. content_entity_cache' \in [Name -> Seq(Literal) \cup {Unknown, NotFlat}]
        /\ attribute_entity_cache' \in [Name -> Seq(Letter) \cup {Unknown}]
      BY <1>4, EmptyCaches
<1>7. calls' \in Seq(Calls) /\ default_value' \in Seq(Letter) /\ heard' \in Seq(Events)
      BY <1>4, Empty
<1>8. resets' \in 0 .. 1
        /\ entity_expansion_count' \in Nat /\ element_stack' \in Nat \ {0}
      BY <1>4
<1>9. {content_run_open', content_bracket_run'} \subseteq BOOLEAN
  <2>1. content_run_open' \in BOOLEAN /\ content_bracket_run' \in BOOLEAN
        BY <1>4
  <2> QED BY <2>1
<1> QED BY <1>1, <1>2, <1>3, <1>4, <1>5, <1>6, <1>7, <1>8, <1>9 DEF TypeOK

\* The beginning keeps the types and the shape of the state.
LEMMA InitTypes == Init => TypeOK /\ Shape
<1> SUFFICES ASSUME Init PROVE TypeOK /\ Shape
    OBVIOUS
<1>1. PICK d : Fresh(d) /\ Legal(d)
      BY DocumentsAssumption DEF Init
<1>2. /\ doc = d /\ phase = "doctype" /\ failed = "none"
      /\ frames = <<Frame(NoName, d.content, 1)>> /\ calls = << >> /\ element_stack = 1
      /\ content_run_open = FALSE /\ content_bracket_run = FALSE
      /\ content_entity_cache = NoEntries /\ attribute_entity_cache = NoEntries
      /\ entity_expansion_count = 0 /\ default_value = << >> /\ heard = << >> /\ resets = 0
      BY <1>1 DEF Fresh, Init
<1>3. frames \in Seq(Frames) /\ frames # << >> /\ Len(frames) = 1 /\ FramesShape(frames)
      BY <1>1, <1>2, Begin
<1>4. CallsShape(calls)
      BY <1>2 DEF CallsShape
<1>5. Shape
      BY <1>2, <1>3, <1>4 DEF Shape
<1>6. content_entity_cache \in [Name -> Seq(Literal) \cup {Unknown, NotFlat}]
        /\ attribute_entity_cache \in [Name -> Seq(Letter) \cup {Unknown}]
      BY <1>2, EmptyCaches
<1>7. calls \in Seq(Calls) /\ default_value \in Seq(Letter) /\ heard \in Seq(Events)
      BY <1>2, Empty
<1>8. resets \in 0 .. 1
        /\ entity_expansion_count \in Nat /\ element_stack \in Nat \ {0}
      BY <1>2
<1>9. {content_run_open, content_bracket_run} \subseteq BOOLEAN
  <2>1. content_run_open \in BOOLEAN /\ content_bracket_run \in BOOLEAN
        BY <1>2
  <2> QED BY <2>1
<1> QED BY <1>1, <1>2, <1>3, <1>5, <1>6, <1>7, <1>8, <1>9 DEF TypeOK

\* A step that changes nothing keeps the types and the shape of the state.
LEMMA StutterTypes ==
    ASSUME TypeOK, Shape, UNCHANGED vars
    PROVE  TypeOK' /\ Shape'
BY DEF TypeOK, Shape, vars, buffers, caches

\* Every step keeps the types and the shape of the state.
LEMMA NextTypes ==
    ASSUME TypeOK, Shape, [Next]_vars
    PROVE  TypeOK' /\ Shape'
<1>1. CASE UNCHANGED vars
      BY <1>1, StutterTypes
<1>2. CASE \/ FlattenCharacter \/ FlattenOther \/ FlattenReference \/ FlattenReturn
      BY <1>2, FlattenCharacterTypes, FlattenOtherTypes, FlattenReferenceTypes, FlattenReturnTypes
<1>3. CASE \/ ResolveCharacter \/ ResolveOther \/ ResolveReference \/ ResolveReturn
      BY <1>3, ResolveCharacterTypes, ResolveOtherTypes, ResolveReferenceTypes, ResolveReturnTypes
<1>4. CASE EndOfDoctype \/ EndOfValue
      BY <1>4, EndOfDoctypeTypes, EndOfValueTypes
<1>5. CASE Characters \/ Decoded \/ StartTag \/ AttributeTag \/ EndTag
      BY <1>5, CharactersTypes, DecodedTypes, StartTagTypes, AttributeTagTypes, EndTagTypes
<1>6. CASE \/ GeneralReference \/ EnterFlattened \/ EndOfEntity
           \/ EndWithinReference \/ EndOfDocument \/ Reset
      BY <1>6, GeneralReferenceTypes, EnterFlattenedTypes, EndOfEntityTypes,
         EndWithinReferenceTypes, EndOfDocumentTypes, ResetTypes
<1> QED BY <1>1, <1>2, <1>3, <1>4, <1>5, <1>6 DEF Next

\* The fields of the scanner hold what their types say, in every state.
THEOREM EntityTypes == Spec => []TypeOK
<1>1. TypeOK /\ Shape /\ [Next]_vars => (TypeOK /\ Shape)'
      BY NextTypes
<1> QED BY <1>1, InitTypes, PTL DEF Spec

\* The state has its types and its shape at every time.
LEMMA ShapeHolds == Spec => [](TypeOK /\ Shape)
<1>1. TypeOK /\ Shape /\ [Next]_vars => (TypeOK /\ Shape)'
      BY NextTypes
<1> QED BY <1>1, InitTypes, PTL DEF Spec

\* What the functions do about a reference.
LEMMA FlattenReferenceCases ==
    ASSUME TypeOK, Shape, FlattenReference
    PROVE  /\ calls # << >> /\ More /\ Current.fn = "flatten" /\ failed = "none"
           /\ Piece.is = "reference" /\ Piece.of \in Name
           /\ UNCHANGED <<doc, phase, buffers, attribute_entity_cache, default_value, resets>>
           /\ \E name \in Name, answer \in {"expand", "limit", "fatal", "skipped", "error"} :
                /\ name = Piece.of /\ answer = Answer(name, TRUE)
                /\ Checked(answer) /\ Hear(Told(answer, name))
                /\ \/ /\ answer \in {"fatal", "limit"} /\ calls' = << >>
                      /\ UNCHANGED content_entity_cache
                   \/ /\ answer \in {"skipped", "error"} /\ calls' = HasRead(NotFlat)
                      /\ Fits(Current.fn, NotFlat) /\ UNCHANGED content_entity_cache
                   \/ /\ answer = "expand" /\ name \notin Expanding /\ Flat(name) = Unknown
                      /\ content_entity_cache' = FlatCache(name)
                      /\ calls' = Calling(name, doc.entity[name].text)
                   \/ /\ answer = "expand" /\ Flat(name) # Unknown
                      /\ content_entity_cache' = FlatCache(name)
                      /\ calls' = HasRead(Joined(Current.out, Flat(name)))
                      /\ Fits(Current.fn, Joined(Current.out, Flat(name)))
<1> DEFINE name   == Piece.of
           answer == Answer(name, TRUE)
<1>1. calls # << >> /\ More /\ Current.fn = "flatten" /\ failed = "none" /\ Piece.is = "reference"
      BY DEF FlattenReference, In
<1>2. /\ name \in Name
      /\ answer \in {"expand", "limit", "fatal", "skipped", "error"}
      /\ answer = "expand" => name \notin Expanding
      BY <1>1, PieceIs, ReferenceIs, Answers DEF TypeOK
<1>3. UNCHANGED <<doc, phase, buffers, attribute_entity_cache, default_value, resets>>
      BY DEF FlattenReference
<1>4. Checked(answer) /\ Hear(Told(answer, name))
      BY DEF FlattenReference
<1>5. answer \in {"fatal", "limit"} => calls' = << >> /\ UNCHANGED content_entity_cache
      BY DEF FlattenReference
<1>6. answer \in {"skipped", "error"} =>
        calls' = HasRead(NotFlat) /\ Fits(Current.fn, NotFlat) /\ UNCHANGED content_entity_cache
      BY <1>1 DEF FlattenReference, Fits
<1>7. answer = "expand" /\ Flat(name) = Unknown =>
        /\ content_entity_cache' = FlatCache(name)
        /\ calls' = Calling(name, doc.entity[name].text)
      BY <1>1 DEF FlattenReference, Calling
<1>8. answer = "expand" /\ Flat(name) # Unknown =>
        /\ content_entity_cache' = FlatCache(name)
        /\ calls' = HasRead(Joined(Current.out, Flat(name)))
        /\ Fits(Current.fn, Joined(Current.out, Flat(name)))
  <2>1. ASSUME answer = "expand", Flat(name) # Unknown
        PROVE  Fits(Current.fn, Joined(Current.out, Flat(name)))
    <3>1. Fits(Current.fn, Current.out) /\ Fits(Current.fn, Flat(name)) /\ Current.out # NotFlat
          BY <2>1, <1>1, <1>2, CurrentIs, CacheIs DEF Fits, More
    <3> QED BY <3>1, JoinedIs
  <2> QED BY <2>1, <1>1 DEF FlattenReference
<1> HIDE DEF name, answer
<1>9. \/ /\ answer \in {"fatal", "limit"} /\ calls' = << >>
         /\ UNCHANGED content_entity_cache
      \/ /\ answer \in {"skipped", "error"} /\ calls' = HasRead(NotFlat)
         /\ Fits(Current.fn, NotFlat) /\ UNCHANGED content_entity_cache
      \/ /\ answer = "expand" /\ name \notin Expanding /\ Flat(name) = Unknown
         /\ content_entity_cache' = FlatCache(name)
         /\ calls' = Calling(name, doc.entity[name].text)
      \/ /\ answer = "expand" /\ Flat(name) # Unknown
         /\ content_entity_cache' = FlatCache(name)
         /\ calls' = HasRead(Joined(Current.out, Flat(name)))
         /\ Fits(Current.fn, Joined(Current.out, Flat(name)))
      BY <1>2, <1>5, <1>6, <1>7, <1>8
<1> QED BY <1>1, <1>2, <1>3, <1>4, <1>9 DEF name, answer

\* What becomes of a reference in a value.
LEMMA ResolveReferenceCases ==
    ASSUME TypeOK, Shape, ResolveReference
    PROVE  /\ calls # << >> /\ More /\ Current.fn = "resolve" /\ failed = "none"
           /\ Piece.is = "reference" /\ Piece.of \in Name
           /\ UNCHANGED <<doc, phase, buffers, content_entity_cache, attribute_entity_cache,
                          default_value, resets>>
           /\ \E name \in Name, answer \in {"expand", "limit", "fatal", "skipped", "error"} :
                /\ name = Piece.of /\ answer = Answer(name, FALSE)
                /\ Checked(answer) /\ Hear(Told(answer, name))
                /\ \/ answer \in {"fatal", "limit"} /\ calls' = << >>
                   \/ /\ answer \in {"skipped", "error"} /\ calls' = HasRead(Current.out)
                      /\ Fits(Current.fn, Current.out)
                   \/ /\ answer = "expand" /\ name \notin Expanding
                      /\ attribute_entity_cache[name] = Unknown
                      /\ calls' = Calling(name, doc.entity[name].text)
                   \/ /\ answer = "expand" /\ attribute_entity_cache[name] \in Seq(Letter)
                      /\ calls' = HasRead(Current.out \o attribute_entity_cache[name])
                      /\ Fits(Current.fn, Current.out \o attribute_entity_cache[name])
<1> DEFINE name   == Piece.of
           answer == Answer(name, FALSE)
           cached == attribute_entity_cache[name]
<1>1. calls # << >> /\ More /\ Current.fn = "resolve" /\ failed = "none" /\ Piece.is = "reference"
      BY DEF ResolveReference, In
<1>2. /\ name \in Name
      /\ answer \in {"expand", "limit", "fatal", "skipped", "error"}
      /\ answer = "expand" => name \notin Expanding
      BY <1>1, PieceIs, ReferenceIs, Answers DEF TypeOK
<1>3. UNCHANGED <<doc, phase, buffers, content_entity_cache, attribute_entity_cache,
                  default_value, resets>>
      BY DEF ResolveReference
<1>4. Checked(answer) /\ Hear(Told(answer, name))
      BY DEF ResolveReference
<1>5. answer \in {"fatal", "limit"} => calls' = << >>
      BY DEF ResolveReference
<1>6. Current.out \in Seq(Letter) /\ Fits(Current.fn, Current.out)
      BY <1>1, CurrentIs DEF Fits
<1>7. answer \in {"skipped", "error"} => calls' = HasRead(Current.out)
      BY DEF ResolveReference
<1>8. answer = "expand" /\ cached = Unknown => calls' = Calling(name, doc.entity[name].text)
      BY <1>1 DEF ResolveReference, Calling
<1>9. answer = "expand" /\ cached # Unknown => calls' = HasRead(Current.out \o cached)
      BY <1>1 DEF ResolveReference
<1>10. cached # Unknown => cached \in Seq(Letter) /\ Fits(Current.fn, Current.out \o cached)
  <2>1. cached \in Seq(Letter) \cup {Unknown}
        BY <1>2, CacheIs
  <2> HIDE DEF cached
  <2> QED BY <2>1, <1>1, <1>6 DEF Fits
<1> HIDE DEF name, answer, cached
<1>11. \/ answer \in {"fatal", "limit"} /\ calls' = << >>
       \/ /\ answer \in {"skipped", "error"} /\ calls' = HasRead(Current.out)
          /\ Fits(Current.fn, Current.out)
       \/ /\ answer = "expand" /\ name \notin Expanding /\ cached = Unknown
          /\ calls' = Calling(name, doc.entity[name].text)
       \/ /\ answer = "expand" /\ cached \in Seq(Letter)
          /\ calls' = HasRead(Current.out \o cached)
          /\ Fits(Current.fn, Current.out \o cached)
       BY <1>2, <1>5, <1>6, <1>7, <1>8, <1>9, <1>10
<1> QED BY <1>1, <1>2, <1>3, <1>4, <1>11 DEF name, answer, cached

\* The calls, when one returns.
LEMMA ReturnIs ==
    ASSUME TypeOK, Shape, Len(calls) > 1, Return
    PROVE  /\ calls' \in Seq(Calls) /\ CallsShape(calls') /\ calls' # << >>
           /\ Len(calls') = Len(calls) - 1
           /\ \A i \in 1 .. Len(calls) - 2 : calls'[i] = calls[i]
           /\ \A i \in 1 .. Len(calls) - 1 :
                /\ calls'[i].fn = calls[i].fn /\ calls'[i].name = calls[i].name
                /\ calls'[i].rest = calls[i].rest
           /\ calls'[Len(calls) - 1].out = Joined(calls[Len(calls) - 1].out, Current.out)
<1>1. CallsShape(calls)
      BY DEF Shape
<1>2. calls' = [i \in 1 .. Len(calls) - 1 |->
                  IF i < Len(calls) - 1 THEN calls[i]
                  ELSE [calls[i] EXCEPT !.out = Joined(@, Current.out)]]
      BY DEF Return
<1> QED BY <1>1, <1>2, OneCallLess

\* A character that is read fits what is made.
LEMMA CharacterFits ==
    ASSUME TypeOK, Shape
    PROVE  /\ FlattenCharacter => Fits(Current.fn, Append(Current.out, Piece))
           /\ ResolveCharacter => Fits(Current.fn, Append(Current.out, Char(Piece.of)))
<1>1. ASSUME FlattenCharacter
      PROVE  Fits(Current.fn, Append(Current.out, Piece))
  <2>1. calls # << >> /\ More /\ Current.fn = "flatten"
        BY <1>1 DEF FlattenCharacter, In
  <2>2. Piece \in Literal
        BY <1>1, <2>1, PieceIs, ItemIs DEF FlattenCharacter
  <2> QED BY <2>1, <2>2, CurrentIs DEF Fits, More
<1>2. ASSUME ResolveCharacter
      PROVE  Fits(Current.fn, Append(Current.out, Char(Piece.of)))
  <2>1. calls # << >> /\ More /\ Current.fn = "resolve"
        BY <1>2 DEF ResolveCharacter, In
  <2>2. Char(Piece.of) \in Letter
        BY <1>2, <2>1, PieceIs, ItemIs DEF ResolveCharacter
  <2> QED BY <2>1, <2>2, CurrentIs DEF Fits
<1> QED BY <1>1, <1>2

-----------------------------------------------------------------------------
(* No recursion                                                            *)

\* The names of what is scanned, or read, are different ...
Different(f) == \A i, j \in 1 .. Len(f) : f[i].name = f[j].name => i = j

\* ... and nothing that is scanned is read.
Apart(f, c) == \A i \in 1 .. Len(f), j \in 1 .. Len(c) : f[i].name = c[j].name => f[i].name = NoName

Distinct == Different(frames) /\ Different(calls) /\ Apart(frames, calls)

\* No more names than there were: g is as f, or has fewer of them.
Within(f, g) == Len(g) <= Len(f) /\ \A i \in 1 .. Len(g) : g[i].name = f[i].name

\* Fewer frames and calls with the same names are as distinct.
LEMMA NoMoreNames ==
    ASSUME Distinct, TypeOK, NEW f \in Seq(Frames), NEW c \in Seq(Calls),
           Within(frames, f), Within(calls, c)
    PROVE  Different(f) /\ Different(c) /\ Apart(f, c)
<1>1. Len(f) <= Len(frames) /\ Len(c) <= Len(calls)
        /\ Len(f) \in Nat /\ Len(c) \in Nat /\ Len(frames) \in Nat /\ Len(calls) \in Nat
      BY DEF Within, TypeOK
<1>2. /\ \A i \in 1 .. Len(f) : i \in 1 .. Len(frames) /\ f[i].name = frames[i].name
      /\ \A i \in 1 .. Len(c) : i \in 1 .. Len(calls) /\ c[i].name = calls[i].name
      BY <1>1 DEF Within
<1>3. Different(f)
      BY <1>2 DEF Different, Distinct
<1>4. Different(c)
      BY <1>2 DEF Different, Distinct
<1>5. Apart(f, c)
      BY <1>2 DEF Apart, Distinct
<1> QED BY <1>3, <1>4, <1>5

\* Nothing is read.
LEMMA NothingRead ==
    \A f : Different(f) => Different(f) /\ Different(<< >>) /\ Apart(f, << >>)
<1>1. Len(<< >>) = 0
      OBVIOUS
<1> QED BY <1>1 DEF Different, Apart

\* Nothing is within everything, and everything within itself.
LEMMA WithinNone == \A f : Len(f) \in Nat => Within(f, << >>) /\ Within(f, f)
<1>1. Len(<< >>) = 0
      OBVIOUS
<1> QED BY <1>1 DEF Within

\* One more name, which was not there.
LEMMA OneMoreName ==
    ASSUME NEW f, NEW g, Different(f), Len(f) \in Nat, Len(g) = Len(f) + 1,
           \A i \in 1 .. Len(f) : g[i].name = f[i].name,
           \A i \in 1 .. Len(f) : f[i].name # g[Len(f) + 1].name
    PROVE  Different(g)
<1>1. ASSUME NEW i \in 1 .. Len(g), NEW j \in 1 .. Len(g), g[i].name = g[j].name
      PROVE  i = j
  <2>1. CASE i = Len(f) + 1 /\ j = Len(f) + 1
        BY <2>1
  <2>2. CASE i # Len(f) + 1 /\ j = Len(f) + 1
    <3>1. i \in 1 .. Len(f)
          BY <2>2
    <3> QED BY <3>1, <2>2, <1>1
  <2>3. CASE i = Len(f) + 1 /\ j # Len(f) + 1
    <3>1. j \in 1 .. Len(f)
          BY <2>3
    <3> QED BY <3>1, <2>3, <1>1
  <2>4. CASE i # Len(f) + 1 /\ j # Len(f) + 1
    <3>1. i \in 1 .. Len(f) /\ j \in 1 .. Len(f)
          BY <2>4
    <3> QED BY <3>1, <1>1 DEF Different
  <2> QED BY <2>1, <2>2, <2>3, <2>4
<1> QED BY <1>1 DEF Different

\* What is expanded is not scanned or read yet.
LEMMA NotExpanding ==
    ASSUME TypeOK, NEW name, name \notin Expanding
    PROVE  /\ \A i \in 1 .. Len(frames) : frames[i].name # name
           /\ \A i \in 1 .. Len(calls) : calls[i].name # name
<1>1. DOMAIN frames = 1 .. Len(frames) /\ DOMAIN calls = 1 .. Len(calls)
      BY DEF TypeOK
<1> QED BY <1>1 DEF Expanding

\* The innermost call reads on.
LEMMA ReadsOn ==
    ASSUME TypeOK, Shape, Distinct, calls # << >>, UNCHANGED frames,
           \/ calls' = << >>
           \/ More /\ \E out : Fits(Current.fn, out) /\ calls' = HasRead(out)
           \/ More /\ \E name \in Name, text \in Seq(Item) :
                name \notin Expanding /\ calls' = Calling(name, text)
           \/ Len(calls) > 1 /\ Return
    PROVE  Distinct'
<1> USE DEF Distinct
<1>1. frames \in Seq(Frames) /\ Len(frames) \in Nat /\ calls \in Seq(Calls) /\ Len(calls) \in Nat
        /\ CallsShape(calls)
      BY DEF TypeOK, Shape
<1>2. CASE calls' = << >>
      BY <1>2, NothingRead
<1>3. CASE More /\ \E out : Fits(Current.fn, out) /\ calls' = HasRead(out)
  <2>1. PICK out : Fits(Current.fn, out) /\ calls' = HasRead(out)
        BY <1>3
  <2>2. /\ calls' \in Seq(Calls) /\ Len(calls') = Len(calls)
        /\ \A i \in 1 .. Len(calls) : calls'[i].name = calls[i].name
        BY <1>1, <1>3, <2>1, OnePieceRead
  <2>3. Within(calls, calls') /\ Within(frames, frames)
        BY <2>2, <1>1 DEF Within
  <2> QED BY <2>2, <2>3, <1>1, NoMoreNames
<1>4. CASE More /\ \E name \in Name, text \in Seq(Item) :
                     name \notin Expanding /\ calls' = Calling(name, text)
  <2>1. PICK name \in Name, text \in Seq(Item) : name \notin Expanding /\ calls' = Calling(name, text)
        BY <1>4
  <2>2. /\ calls' \in Seq(Calls) /\ Len(calls') = Len(calls) + 1
        /\ \A i \in 1 .. Len(calls) : calls'[i].name = calls[i].name
        /\ calls'[Len(calls) + 1].name = name
        BY <1>1, <1>4, <2>1, OneMoreCall
  <2>3. /\ \A i \in 1 .. Len(frames) : frames[i].name # name
        /\ \A i \in 1 .. Len(calls) : calls[i].name # name
        BY <2>1, NotExpanding
  <2>4. Different(calls')
        BY <2>2, <2>3, <1>1, OneMoreName
  <2>5. ASSUME NEW i \in 1 .. Len(frames), NEW j \in 1 .. Len(calls'), frames[i].name = calls'[j].name
        PROVE  frames[i].name = NoName
    <3>1. CASE j = Len(calls) + 1
          BY <3>1, <2>5, <2>2, <2>3
    <3>2. CASE j # Len(calls) + 1
      <4>1. j \in 1 .. Len(calls)
            BY <3>2, <2>2, <1>1
      <4> QED BY <4>1, <2>5, <2>2 DEF Apart
    <3> QED BY <3>1, <3>2
  <2>6. Apart(frames, calls')
        BY <2>5 DEF Apart
  <2> QED BY <2>4, <2>6
<1>5. CASE Len(calls) > 1 /\ Return
  <2>3. calls' \in Seq(Calls)
        BY <1>5, ReturnIs
  <2>4. Len(calls') = Len(calls) - 1
        BY <1>5, ReturnIs
  <2>5. \A i \in 1 .. Len(calls) - 1 : calls'[i].name = calls[i].name
        BY <1>5, ReturnIs
  <2>6. Within(calls, calls') /\ Within(frames, frames)
        BY <2>4, <2>5, <1>1 DEF Within
  <2> QED BY <2>3, <2>6, <1>1, NoMoreNames
<1> QED BY <1>2, <1>3, <1>4, <1>5

\* The scanner goes on in a frame: the names are the same.
LEMMA SameNames ==
    ASSUME TypeOK, Shape, Distinct, NEW rest \in Seq(Item), frames' = Advanced(rest),
           calls = << >>, calls' = << >>
    PROVE  Distinct'
<1>1. /\ frames' \in Seq(Frames) /\ Len(frames') = Len(frames)
      /\ \A i \in 1 .. Len(frames) : frames'[i].name = frames[i].name
      BY AdvanceIs
<1>2. Len(frames) \in Nat
      BY FramesIs
<1>3. Within(frames, frames') /\ Within(calls, calls')
      BY <1>1, <1>2, WithinNone DEF Within
<1>4. calls' \in Seq(Calls)
      BY NoCalls
<1> QED BY <1>1, <1>3, <1>4, NoMoreNames DEF Distinct

\* Every step keeps the names apart.
LEMMA NextDistinct ==
    ASSUME TypeOK, Shape, Distinct, [Next]_vars
    PROVE  Distinct'
<1>0. frames \in Seq(Frames) /\ Len(frames) \in Nat /\ calls \in Seq(Calls) /\ Len(calls) \in Nat
        /\ CallsShape(calls)
      BY DEF TypeOK, Shape
<1>1. CASE UNCHANGED <<frames, calls>>
      BY <1>1 DEF Distinct
<1>2. CASE FlattenCharacter
  <2>1. Fits(Current.fn, Append(Current.out, Piece))
        BY <1>2, CharacterFits
  <2> QED BY <1>2, <2>1, ReadsOn DEF FlattenCharacter, In, buffers
<1>3. CASE FlattenOther
  <2>1. Fits(Current.fn, NotFlat)
        BY <1>3 DEF Fits, FlattenOther, In
  <2> QED BY <1>3, <2>1, ReadsOn DEF FlattenOther, In, buffers
<1>4. CASE FlattenReference
  <2>1. PICK name \in Name, answer \in {"expand", "limit", "fatal", "skipped", "error"} :
          \/ calls' = << >>
          \/ calls' = HasRead(NotFlat) /\ Fits(Current.fn, NotFlat)
          \/ name \notin Expanding /\ calls' = Calling(name, doc.entity[name].text)
          \/ /\ calls' = HasRead(Joined(Current.out, Flat(name)))
             /\ Fits(Current.fn, Joined(Current.out, Flat(name)))
        BY <1>4, FlattenReferenceCases
  <2>2. calls # << >> /\ More /\ UNCHANGED frames
        BY <1>4, FlattenReferenceCases DEF buffers
  <2>3. doc.entity[name].text \in Seq(Item)
        BY EntityIs DEF TypeOK
  <2> QED BY <2>1, <2>2, <2>3, ReadsOn
<1>5. CASE FlattenReturn \/ ResolveReturn
      BY <1>5, ReadsOn DEF FlattenReturn, ResolveReturn, In, buffers
<1>6. CASE ResolveCharacter
  <2>1. Fits(Current.fn, Append(Current.out, Char(Piece.of)))
        BY <1>6, CharacterFits
  <2> QED BY <1>6, <2>1, ReadsOn DEF ResolveCharacter, In, buffers
<1>7. CASE ResolveOther \/ EndOfValue
      BY <1>7, ReadsOn DEF ResolveOther, EndOfValue, In, buffers
<1>8. CASE ResolveReference
  <2>1. PICK name \in Name, answer \in {"expand", "limit", "fatal", "skipped", "error"} :
          \/ calls' = << >>
          \/ calls' = HasRead(Current.out) /\ Fits(Current.fn, Current.out)
          \/ name \notin Expanding /\ calls' = Calling(name, doc.entity[name].text)
          \/ /\ calls' = HasRead(Current.out \o attribute_entity_cache[name])
             /\ Fits(Current.fn, Current.out \o attribute_entity_cache[name])
        BY <1>8, ResolveReferenceCases
  <2>2. calls # << >> /\ More /\ UNCHANGED frames
        BY <1>8, ResolveReferenceCases DEF buffers
  <2>3. doc.entity[name].text \in Seq(Item)
        BY EntityIs DEF TypeOK
  <2> QED BY <2>1, <2>2, <2>3, ReadsOn
<1>9. CASE EndOfDoctype \/ AttributeTag
  <2>1. frames' = frames \/ (Running /\ Rest # << >> /\ frames' = Advanced(Tail(Rest)))
        BY <1>9 DEF EndOfDoctype, AttributeTag, buffers, Advance
  <2>2. frames' \in Seq(Frames) /\ Len(frames') = Len(frames)
          /\ \A i \in 1 .. Len(frames) : frames'[i].name = frames[i].name
    <3>1. CASE frames' = frames
          BY <3>1, <1>0
    <3>2. CASE Running /\ Rest # << >> /\ frames' = Advanced(Tail(Rest))
      <4>1. Tail(Rest) \in Seq(Item)
            BY <3>2, RunningIs
      <4> QED BY <4>1, <3>2, AdvanceIs
    <3> QED BY <2>1, <3>1, <3>2
  <2>3. \E text : calls' = <<Call("resolve", NoName, text)>>
        BY <1>9 DEF EndOfDoctype, AttributeTag
  <2>4. PICK call : calls' = <<call>> /\ call.name = NoName
        BY <2>3 DEF Call
  <2>5. Different(frames') /\ Different(calls') /\ Apart(frames', calls')
        BY <2>2, <2>4, <1>0 DEF Different, Apart, Distinct
  <2> QED BY <2>5 DEF Distinct
<1>10. CASE Characters
  <2> DEFINE rest == SubSeq(Rest, AfterRun(Rest), Len(Rest))
  <2>1. Running /\ Rest # << >> /\ Head(Rest).is = "text" /\ UNCHANGED calls
        BY <1>10 DEF Characters
  <2>2. rest \in Seq(Item)
        BY <2>1, RunningIs, RunIs
  <2>3. frames' = frames \/ frames' = Advanced(rest)
        BY <1>10 DEF Characters, buffers, Advance
  <2> HIDE DEF rest
  <2>4. calls = << >>
        BY <2>1 DEF Running
  <2> QED BY <2>1, <2>2, <2>3, <2>4, <1>1, SameNames
<1>11. CASE Decoded \/ StartTag \/ EndTag
  <2>1. Running /\ Rest # << >> /\ UNCHANGED calls /\ frames' = Advanced(Tail(Rest)) /\ calls = << >>
        BY <1>11 DEF Decoded, StartTag, EndTag, Running, Advance
  <2> QED BY <2>1, RunningIs, SameNames
<1>12. CASE GeneralReference
  <2>1. PICK name \in Name, answer \in {"expand", "limit", "fatal", "skipped", "error"} :
                /\ name = Head(Rest).of /\ answer = Answer(name, TRUE)
                /\ \/ NotExpanded(name, answer) \/ Skipped(name, answer) \/ Denied(name, answer)
                   \/ Reads(name, answer)
                   \/ \E text \in Seq(Item) : Scans(name, answer, text)
        BY <1>12, ReferenceCases
  <2>2. Running /\ Rest # << >> /\ calls = << >>
        BY <1>12, ReferenceCases DEF Running
  <2>3. Tail(Rest) \in Seq(Item)
        BY <2>2, RunningIs
  <2>4. CASE NotExpanded(name, answer) \/ Skipped(name, answer) \/ Denied(name, answer)
    <3>1. frames' = Advanced(Tail(Rest)) /\ calls' = << >>
          BY <2>4, <2>2 DEF NotExpanded, Skipped, Denied, Advance
    <3> QED BY <3>1, <2>2, <2>3, SameNames
  <2> DEFINE advanced == Advanced(Tail(Rest))
  <2>5. /\ advanced \in Seq(Frames) /\ Len(advanced) = Len(frames)
        /\ \A i \in 1 .. Len(frames) : advanced[i].name = frames[i].name
        BY <2>3, AdvanceIs
  <2>6. Answer(name, TRUE) = "expand" => name \notin Expanding
        BY Answers DEF TypeOK
  <2>7. answer = "expand" => \A i \in 1 .. Len(frames) : frames[i].name # name
        BY <2>1, <2>6, NotExpanding
  <2>8. Different(advanced)
        BY <2>5 DEF Different, Distinct
  <2> HIDE DEF advanced
  <2>9. CASE Reads(name, answer)
    <3>1. frames' = advanced /\ \E text : calls' = <<Call("flatten", name, text)>>
          BY <2>9 DEF Reads, Advance, advanced
    <3>2. PICK call : calls' = <<call>> /\ call.name = name
          BY <3>1 DEF Call
    <3>3. answer = "expand"
          BY <2>9 DEF Reads
    <3>4. Different(calls') /\ Apart(frames', calls')
          BY <3>1, <3>2, <3>3, <2>5, <2>7, <1>0 DEF Different, Apart
    <3> QED BY <3>1, <3>4, <2>8 DEF Distinct
  <2>10. CASE \E text \in Seq(Item) : Scans(name, answer, text)
    <3>1. PICK text \in Seq(Item) : Scans(name, answer, text)
          BY <2>10
    <3>2. frames' = Entered(advanced, name, text) /\ calls' = << >> /\ answer = "expand"
          BY <3>1, <2>2 DEF Scans, advanced
    <3>3. /\ Len(frames') = Len(advanced) + 1 /\ frames'[Len(advanced) + 1].name = name
          /\ \A i \in 1 .. Len(advanced) : frames'[i] = advanced[i]
      <4> DEFINE frame == Frame(name, text, element_stack)
      <4>1. frame \in Frames /\ frame.name = name
            BY <2>1 DEF TypeOK, Frame, Frames
      <4>2. frames' = Append(advanced, frame)
            BY <3>2 DEF Entered
      <4> HIDE DEF frame
      <4> QED BY <4>1, <4>2, <2>5
    <3>4. Different(frames')
          BY <3>2, <3>3, <2>5, <2>7, <2>8, <1>0, OneMoreName
    <3> QED BY <3>2, <3>4, NothingRead DEF Distinct
  <2> QED BY <2>1, <2>4, <2>9, <2>10
<1>13. CASE EnterFlattened
  <2> DEFINE name == Current.name
             text == Scanned(name, Current.out)
  <2>1. calls # << >> /\ Current.fn = "flatten" /\ Len(calls) = 1 /\ calls' = << >>
          /\ frames' = Entered(frames, name, text)
        BY <1>13 DEF EnterFlattened, In
  <2>2. name \in Name /\ name # NoName /\ text \in Seq(Item)
    <3>1. name \in Name /\ Current.out \in Seq(Literal) \cup {NotFlat}
          BY <2>1, CurrentIs
    <3>2. \A s \in Seq(Literal) : s \in Seq(Item)
          BY Literals
    <3>3. doc.entity[name].text \in Seq(Item)
          BY <3>1, EntityIs DEF TypeOK
    <3> QED BY <3>1, <3>2, <3>3, NameAssumption DEF Scanned
  <2>3. \A i \in 1 .. Len(frames) : frames[i].name # name
    <3>1. name = calls[1].name /\ 1 \in 1 .. Len(calls)
          BY <2>1 DEF Current
    <3> HIDE DEF name
    <3> QED BY <3>1, <2>2 DEF Distinct, Apart
  <2> HIDE DEF name, text
  <2>4. /\ Len(frames') = Len(frames) + 1 /\ frames'[Len(frames) + 1].name = name
        /\ \A i \in 1 .. Len(frames) : frames'[i] = frames[i]
    <3> DEFINE frame == Frame(name, text, element_stack)
    <3>1. frame \in Frames /\ frame.name = name
          BY <2>2 DEF TypeOK, Frame, Frames
    <3>2. frames' = Append(frames, frame)
          BY <2>1 DEF Entered
    <3> HIDE DEF frame
    <3> QED BY <3>1, <3>2, <1>0, <2>2
  <2>5. Different(frames')
        BY <2>3, <2>4, <1>0, OneMoreName DEF Distinct
  <2> QED BY <2>1, <2>5, NothingRead DEF Distinct
<1>14. CASE EndOfEntity
  <2>1. calls = << >> /\ calls' = calls /\ Len(frames) > 1 /\ (frames' = frames \/ frames' = Front(frames))
        BY <1>14 DEF EndOfEntity, Running
  <2>2. /\ frames' \in Seq(Frames) /\ Len(frames') <= Len(frames)
        /\ \A i \in 1 .. Len(frames') : frames'[i] = frames[i]
        BY <2>1, <1>0, FrontIs
  <2>3. Within(frames, frames') /\ Within(calls, calls')
        BY <2>1, <2>2, <1>0 DEF Within
  <2> QED BY <2>1, <2>2, <2>3, <1>0, NoMoreNames DEF Distinct
<1>15. CASE EndWithinReference \/ EndOfDocument
      BY <1>15, <1>1 DEF EndWithinReference, EndOfDocument, buffers
<1>16. CASE Reset
  <2>1. PICK d : frames' = <<Frame(NoName, d.content, 1)>> /\ calls' = << >>
        BY <1>16 DEF Reset
  <2> DEFINE frame == Frame(NoName, d.content, 1)
  <2>2. frames' = <<frame>>
        BY <2>1
  <2> HIDE DEF frame
  <2>3. Different(frames')
        BY <2>2 DEF Different
  <2> QED BY <2>1, <2>3, NothingRead DEF Distinct
<1>17. UNCHANGED vars => UNCHANGED <<frames, calls>>
      BY DEF vars, buffers
<1> QED BY <1>1, <1>2, <1>3, <1>4, <1>5, <1>6, <1>7, <1>8, <1>9, <1>10, <1>11, <1>12, <1>13,
           <1>14, <1>15, <1>16, <1>17 DEF Next

\* One frame is distinct.
LEMMA InitDistinct == Init => Distinct
<1> SUFFICES ASSUME Init PROVE Distinct
    OBVIOUS
<1>1. PICK d : frames = <<Frame(NoName, d.content, 1)>> /\ calls = << >>
      BY DEF Init, Fresh
<1> DEFINE frame == Frame(NoName, d.content, 1)
<1>2. frames = <<frame>>
      BY <1>1
<1> HIDE DEF frame
<1>3. Different(frames)
      BY <1>2 DEF Different
<1> QED BY <1>1, <1>3, NothingRead DEF Distinct

\* There are no more than there are names.
LEMMA NotDeep ==
    ASSUME TypeOK, Shape, Distinct
    PROVE  Len(frames) + Len(calls) <= Cardinality(Name) + 2
<1> DEFINE n == Len(frames) - 1
           m == IF calls = << >> THEN 0 ELSE Len(calls) - 1
           name == [k \in 1 .. n + m |-> IF k <= n THEN frames[k + 1].name
                                         ELSE calls[k - n + 1].name]
<1>1. frames \in Seq(Frames) /\ calls \in Seq(Calls) /\ n \in Nat /\ m \in Nat
        /\ Len(frames) = n + 1 /\ Len(calls) <= m + 1 /\ (m > 0 => Len(calls) = m + 1)
  <2>1. frames \in Seq(Frames) /\ frames # << >> /\ calls \in Seq(Calls)
        BY DEF TypeOK
  <2>2. calls = << >> => Len(calls) = 0
        OBVIOUS
  <2> QED BY <2>1, <2>2
<1>2. ASSUME NEW i \in 2 .. Len(frames)
      PROVE  frames[i].name \in Name
  <2>1. frames[i] \in Frames /\ i # 1 /\ i \in 1 .. Len(frames)
        BY <1>1
  <2>2. frames[i].name # NoName
        BY <2>1 DEF Shape, FramesShape
  <2> QED BY <2>1, <2>2 DEF Frames
<1>3. ASSUME NEW i \in 2 .. Len(calls)
      PROVE  calls[i].name \in Name
  <2>1. calls[i] \in Calls /\ i # 1 /\ i \in 1 .. Len(calls)
        BY <1>1
  <2>2. calls[i].name # NoName
        BY <2>1 DEF Shape, CallsShape
  <2> QED BY <2>1, <2>2 DEF Calls
<1> HIDE DEF n, m
<1>4. ASSUME NEW k \in 1 .. n + m, k <= n
      PROVE  k + 1 \in 2 .. Len(frames) /\ name[k] = frames[k + 1].name
      BY <1>1, <1>4
<1>5. ASSUME NEW k \in 1 .. n + m, ~(k <= n)
      PROVE  k - n + 1 \in 2 .. Len(calls) /\ name[k] = calls[k - n + 1].name
      BY <1>1, <1>5
<1> HIDE DEF name
<1>6. \A k \in 1 .. n + m : name[k] \in Name
      BY <1>2, <1>3, <1>4, <1>5
<1>7. ASSUME NEW j \in 1 .. n + m, NEW k \in 1 .. n + m, name[j] = name[k]
      PROVE  j = k
  <2>1. CASE j <= n /\ k <= n
    <3>1. frames[j + 1].name = frames[k + 1].name
          BY <2>1, <1>4, <1>7
    <3>2. j + 1 \in 1 .. Len(frames) /\ k + 1 \in 1 .. Len(frames)
          BY <2>1, <1>1
    <3>3. j + 1 = k + 1
          BY <3>1, <3>2 DEF Distinct, Different
    <3> QED BY <3>3, <1>1
  <2>2. CASE ~(j <= n) /\ ~(k <= n)
    <3>1. calls[j - n + 1].name = calls[k - n + 1].name
          BY <2>2, <1>5, <1>7
    <3>2. j - n + 1 \in 2 .. Len(calls) /\ k - n + 1 \in 2 .. Len(calls)
          BY <2>2, <1>5
    <3>4. j - n + 1 \in 1 .. Len(calls) /\ k - n + 1 \in 1 .. Len(calls)
          BY <3>2, <1>1
    <3>3. j - n + 1 = k - n + 1
          BY <3>1, <3>4 DEF Distinct, Different
    <3> QED BY <3>3, <1>1
  <2>3. ASSUME NEW a \in 1 .. n + m, NEW b \in 1 .. n + m, a <= n, ~(b <= n)
        PROVE  name[a] # name[b]
    <3>1. a + 1 \in 2 .. Len(frames) /\ b - n + 1 \in 2 .. Len(calls)
            /\ name[a] = frames[a + 1].name /\ name[b] = calls[b - n + 1].name
          BY <2>3, <1>4, <1>5
    <3>2. a + 1 \in 1 .. Len(frames) /\ b - n + 1 \in 1 .. Len(calls)
          BY <3>1, <1>1
    <3>3. frames[a + 1].name \in Name /\ frames[a + 1].name # NoName
          BY <3>1, <1>2, NameAssumption
    <3> QED BY <3>1, <3>2, <3>3 DEF Distinct, Apart
  <2> QED BY <2>1, <2>2, <2>3, <1>7
<1>8. name \in Injection(1 .. n + m, Name)
  <2>1. name \in [1 .. n + m -> Name]
        BY <1>6 DEF name
  <2> QED BY <2>1, <1>7 DEF Injection, IsInjective
<1>9. IsFiniteSet(1 .. n + m) /\ Cardinality(1 .. n + m) = n + m
  <2> DEFINE t == n + m
  <2>1. t \in Nat
        BY <1>1
  <2> HIDE DEF t
  <2>2. IsFiniteSet(1 .. t) /\ Cardinality(1 .. t) = t
        BY <2>1, FS_Interval
  <2> QED BY <2>2 DEF t
<1>10. n + m <= Cardinality(Name)
      BY <1>8, <1>9, NameAssumption, FS_Injection
<1>11. Cardinality(Name) \in Nat
      BY NameAssumption, FS_CardinalityType
<1> QED BY <1>1, <1>10, <1>11

\* Names that are apart are what NoRecursion asks for.
LEMMA DistinctIs ==
    ASSUME TypeOK, Shape, Distinct
    PROVE  NoRecursion
<1>1. DOMAIN frames = 1 .. Len(frames) /\ DOMAIN calls = 1 .. Len(calls)
      BY DEF TypeOK
<1> QED BY <1>1, NotDeep DEF NoRecursion, Distinct, Different, Apart

\* No entity is scanned or read within itself.
THEOREM NeverRecursive == Spec => []NoRecursion
<1>1. TypeOK /\ Shape /\ Distinct => NoRecursion
      BY DistinctIs
<1>2. TypeOK /\ Shape /\ Distinct /\ [Next]_vars => (TypeOK /\ Shape /\ Distinct)'
      BY NextTypes, NextDistinct
<1> QED BY <1>1, <1>2, InitTypes, InitDistinct, PTL DEF Spec


-----------------------------------------------------------------------------
(* What is open for the application                                        *)

\* What is open after each of the first m events.
AfterEach(events, m, g) ==
    g = [i \in 0 .. m |-> IF i = 0 THEN << >> ELSE Nest(g[i - 1], events[i])]

\* There is such a function.
LEMMA AfterEachIs ==
    ASSUME NEW events, NEW m \in Nat
    PROVE  \E g : AfterEach(events, m, g)
<1> DEFINE Known(k) == \E g : AfterEach(events, k, g)
<1> SUFFICES ASSUME ~Known(m) PROVE FALSE
    OBVIOUS
<1> DEFINE Bad == {k \in Nat : ~Known(k)}
<1> HIDE DEF Known
<1>1. \A k : k \in Bad <=> k \in Nat /\ ~Known(k)
      OBVIOUS
<1> HIDE DEF Bad
<1>2. Bad \in SUBSET Nat /\ Bad # {}
      BY <1>1
<1>3. \E k \in Bad : \A j \in Bad : k <= j
      BY <1>2, Least
<1>4. PICK k \in Bad : \A j \in Bad : k <= j
      BY <1>3
<1>5. k \in Nat /\ ~Known(k)
      BY <1>1, <1>4
<1>6. k # 0
  <2> DEFINE g == [i \in 0 .. 0 |-> << >>]
  <2>1. g = [i \in 0 .. 0 |-> IF i = 0 THEN << >> ELSE Nest(g[i - 1], events[i])]
        OBVIOUS
  <2> HIDE DEF g
  <2>2. AfterEach(events, 0, g)
        BY <2>1 DEF AfterEach
  <2>3. Known(0)
        BY <2>2 DEF Known
  <2> QED BY <2>3, <1>5
<1>7. k - 1 \in Nat /\ ~ (k <= k - 1)
      BY <1>5, <1>6
<1>8. Known(k - 1)
      BY <1>1, <1>4, <1>7
<1>9. PICK g : AfterEach(events, k - 1, g)
      BY <1>8 DEF Known
<1> DEFINE h == [i \in 0 .. k |-> IF i = k THEN Nest(g[k - 1], events[k]) ELSE g[i]]
<1>10. \A i \in 0 .. k - 1 : g[i] = IF i = 0 THEN << >> ELSE Nest(g[i - 1], events[i])
       BY <1>9 DEF AfterEach
<1>11. /\ \A i \in 0 .. k - 1 : h[i] = g[i]
       /\ h[k] = Nest(g[k - 1], events[k])
       /\ h = [i \in 0 .. k |-> h[i]]
       BY <1>5
<1> HIDE DEF h
<1>12. ASSUME NEW i \in 0 .. k
       PROVE  h[i] = IF i = 0 THEN << >> ELSE Nest(h[i - 1], events[i])
  <2>1. CASE i = k
    <3>0. k - 1 \in 0 .. k - 1
          BY <1>7
    <3>1. h[k - 1] = g[k - 1]
          BY <3>0, <1>11
    <3> QED BY <2>1, <3>1, <1>6, <1>11
  <2>2. CASE i = 0
        BY <2>2, <1>7, <1>10, <1>11
  <2>3. CASE i # k /\ i # 0
    <3>1. i \in 0 .. k - 1 /\ i - 1 \in 0 .. k - 1
          BY <2>3, <1>5
    <3> QED BY <3>1, <2>3, <1>10, <1>11
  <2> QED BY <2>1, <2>2, <2>3
<1>13. AfterEach(events, k, h)
       BY <1>11, <1>12 DEF AfterEach
<1> QED BY <1>13, <1>5 DEF Known

\* It is the same for more events that begin with them.
LEMMA AfterEachAgree ==
    ASSUME NEW events, NEW more, NEW m \in Nat, NEW n \in Nat, m <= n, NEW g, NEW h,
           AfterEach(events, m, g), AfterEach(more, n, h),
           \A i \in 1 .. m : events[i] = more[i]
    PROVE  \A i \in 0 .. m : g[i] = h[i]
<1>1. /\ \A i \in 0 .. m : g[i] = IF i = 0 THEN << >> ELSE Nest(g[i - 1], events[i])
      /\ \A i \in 0 .. m : h[i] = IF i = 0 THEN << >> ELSE Nest(h[i - 1], more[i])
  <2>1. \A i \in 0 .. m : g[i] = IF i = 0 THEN << >> ELSE Nest(g[i - 1], events[i])
        BY DEF AfterEach
  <2>2. \A i \in 0 .. n : h[i] = IF i = 0 THEN << >> ELSE Nest(h[i - 1], more[i])
        BY DEF AfterEach
  <2> QED BY <2>1, <2>2
<1> SUFFICES ASSUME NEW l \in 0 .. m, g[l] # h[l] PROVE FALSE
    OBVIOUS
<1> DEFINE Bad == {i \in 0 .. m : g[i] # h[i]}
<1>2. \A i : i \in Bad <=> i \in 0 .. m /\ g[i] # h[i]
      OBVIOUS
<1> HIDE DEF Bad
<1>3. Bad \in SUBSET Nat /\ Bad # {}
  <2>1. l \in Bad /\ \A i \in Bad : i \in Nat
        BY <1>2
  <2> QED BY <2>1
<1>4. \E k \in Bad : \A j \in Bad : k <= j
      BY <1>3, Least
<1>5. PICK k \in Bad : \A j \in Bad : k <= j
      BY <1>4
<1>6. k \in 0 .. m /\ g[k] # h[k]
      BY <1>2, <1>5
<1>7. k # 0
      BY <1>1, <1>6
<1>8. k - 1 \in 0 .. m /\ ~ (k <= k - 1) /\ k \in 1 .. m
      BY <1>6, <1>7
<1>9. g[k - 1] = h[k - 1]
      BY <1>2, <1>5, <1>8
<1> QED BY <1>1, <1>6, <1>7, <1>8, <1>9

\* Opened is the last of its values.
LEMMA OpenedIs ==
    ASSUME NEW events, Len(events) \in Nat
    PROVE  \E g : AfterEach(events, Len(events), g) /\ Opened(events) = g[Len(events)]
<1> DEFINE n == Len(events)
           g == CHOOSE g : AfterEach(events, n, g)
<1>1. Opened(events) = g[n]
      BY DEF Opened, AfterEach
<1>2. AfterEach(events, n, g)
      BY AfterEachIs
<1> QED BY <1>1, <1>2

\* Nothing is open after nothing.
LEMMA OpenedNothing == Opened(<< >>) = << >>
<1>1. Len(<< >>) = 0
      OBVIOUS
<1>2. PICK g : AfterEach(<< >>, 0, g) /\ Opened(<< >>) = g[0]
      BY <1>1, OpenedIs
<1>3. g[0] = << >>
      BY <1>2 DEF AfterEach
<1> QED BY <1>2, <1>3

\* What is open after one event more.
LEMMA OpenedMore ==
    ASSUME NEW S, NEW events \in Seq(S), NEW event \in S
    PROVE  Opened(Append(events, event)) = Nest(Opened(events), event)
<1> DEFINE n    == Len(events)
           more == Append(events, event)
<1>1. n \in Nat /\ Len(more) = n + 1 /\ more[n + 1] = event
        /\ \A i \in 1 .. n : events[i] = more[i]
      OBVIOUS
<1> HIDE DEF n, more
<1>2. PICK g : AfterEach(events, n, g) /\ Opened(events) = g[n]
      BY <1>1, OpenedIs DEF n
<1>3. PICK h : AfterEach(more, n + 1, h) /\ Opened(more) = h[n + 1]
      BY <1>1, OpenedIs
<1>4. g[n] = h[n]
      BY <1>1, <1>2, <1>3, AfterEachAgree
<1>5. h[n + 1] = Nest(h[n], event)
      BY <1>1, <1>3 DEF AfterEach
<1> QED BY <1>2, <1>3, <1>4, <1>5 DEF more

\* What may be open.
Begun == {<<"open">>} \cup {<<"start", n>> : n \in Name}

\* No mark of an error is what may be open.
LEMMA BegunIs ==
    /\ <<"open">> \in Begun /\ \A n \in Name : <<"start", n>> \in Begun
    /\ <<"wrong">> \notin Begun
<1>1. <<"wrong">> # <<"open">>
      OBVIOUS
<1>2. \A n \in Name : <<"wrong">> # <<"start", n>>
      OBVIOUS
<1> QED BY <1>1, <1>2 DEF Begun

\* The depths of elements at which the texts begin.
Floors(f, depth) ==
    /\ \A i \in 1 .. Len(f) : f[i].floor <= depth
    /\ \A i, j \in 1 .. Len(f) : i <= j => f[i].floor <= f[j].floor

\* Where the beginning of a text is among what is open.
At(f, i) == f[i].floor + i - 2

\* What is open while the texts f are scanned at a depth of elements.
Nested(o, f, depth) ==
    /\ o \in Seq(Begun) /\ Len(o) = depth + Len(f) - 2
    /\ \A i \in 2 .. Len(f) : o[At(f, i)] = <<"start", f[i].name>>
    /\ \A p \in 1 .. Len(o) : (\A i \in 2 .. Len(f) : p # At(f, i)) => o[p] = <<"open">>

\* The beginnings are at different places, all of them within.
LEMMA AtIs ==
    ASSUME NEW f \in Seq(Frames), f # << >>, NEW depth \in Nat \ {0}, Floors(f, depth)
    PROVE  \A i \in 2 .. Len(f) :
             /\ f[i].floor \in Nat \ {0} /\ At(f, i) \in 1 .. depth + Len(f) - 2
             /\ At(f, i) <= f[Len(f)].floor + Len(f) - 2
<1> TAKE i \in 2 .. Len(f)
<1>1. Len(f) \in Nat /\ Len(f) >= 1 /\ i \in 1 .. Len(f) /\ Len(f) \in 1 .. Len(f)
      OBVIOUS
<1>2. f[i] \in Frames /\ f[Len(f)] \in Frames
      BY <1>1
<1>3. f[i].floor \in Nat \ {0} /\ f[Len(f)].floor \in Nat \ {0}
      BY <1>2 DEF Frames
<1>4. f[i].floor <= f[Len(f)].floor /\ f[i].floor <= depth
      BY <1>1 DEF Floors
<1> QED BY <1>1, <1>3, <1>4 DEF At

\* The same texts, further on.
LEMMA NestedSame ==
    ASSUME NEW f \in Seq(Frames), NEW g \in Seq(Frames), Len(g) = Len(f),
           \A i \in 1 .. Len(f) : g[i].name = f[i].name /\ g[i].floor = f[i].floor,
           NEW depth
    PROVE  /\ Floors(f, depth) => Floors(g, depth)
           /\ \A o : Nested(o, f, depth) => Nested(o, g, depth)
<1>1. Floors(f, depth) => Floors(g, depth)
      BY DEF Floors
<1>2. \A i \in 2 .. Len(f) : At(f, i) = At(g, i) /\ g[i].name = f[i].name
      BY DEF At
<1> QED BY <1>1, <1>2 DEF Nested

\* An element begins, ...
LEMMA NestedOpen ==
    ASSUME NEW f \in Seq(Frames), f # << >>, NEW depth \in Nat \ {0}, Floors(f, depth),
           NEW o, Nested(o, f, depth)
    PROVE  Floors(f, depth + 1) /\ Nested(Append(o, <<"open">>), f, depth + 1)
<1> DEFINE open == <<"open">>
           new  == Append(o, open)
<1>1. open \in Begun /\ o \in Seq(Begun) /\ Len(o) = depth + Len(f) - 2 /\ Len(f) \in Nat
        /\ Len(f) >= 1
      BY BegunIs DEF Nested
<1>2. \A i \in 2 .. Len(f) : At(f, i) \in 1 .. Len(o)
      BY <1>1, AtIs
<1>3. \A i \in 1 .. Len(f) : f[i].floor \in Nat
  <2>1. \A i \in 1 .. Len(f) : f[i] \in Frames
        OBVIOUS
  <2> QED BY <2>1 DEF Frames
<1>4. Floors(f, depth + 1)
      BY <1>3 DEF Floors
<1> HIDE DEF open
<1>5. new \in Seq(Begun) /\ Len(new) = Len(o) + 1 /\ new[Len(o) + 1] = open
        /\ \A p \in 1 .. Len(o) : new[p] = o[p]
      BY <1>1
<1> HIDE DEF new
<1>6. \A i \in 2 .. Len(f) : new[At(f, i)] = <<"start", f[i].name>>
      BY <1>2, <1>5 DEF Nested
<1>7. ASSUME NEW p \in 1 .. Len(new), \A i \in 2 .. Len(f) : p # At(f, i)
      PROVE  new[p] = open
  <2>1. CASE p = Len(o) + 1
        BY <2>1, <1>5
  <2>2. CASE p # Len(o) + 1
    <3>1. p \in 1 .. Len(o)
          BY <2>2, <1>1, <1>5
    <3> QED BY <3>1, <1>5, <1>7 DEF Nested, open
  <2> QED BY <2>1, <2>2
<1>8. Len(new) = depth + 1 + Len(f) - 2
      BY <1>1, <1>5
<1>9. Nested(new, f, depth + 1)
      BY <1>5, <1>6, <1>7, <1>8 DEF Nested, open
<1> QED BY <1>4, <1>9 DEF new, open

\* ... or ends, which began in the text that is scanned.
LEMMA NestedClose ==
    ASSUME NEW f \in Seq(Frames), f # << >>, NEW depth \in Nat \ {0}, Floors(f, depth),
           NEW o, Nested(o, f, depth), f[Len(f)].floor < depth
    PROVE  /\ o # << >> /\ o[Len(o)] = <<"open">>
           /\ Floors(f, depth - 1) /\ Nested(Front(o), f, depth - 1)
<1>1. o \in Seq(Begun) /\ Len(o) = depth + Len(f) - 2 /\ Len(f) \in Nat /\ Len(f) >= 1
      BY DEF Nested
<1>2. f[Len(f)].floor \in Nat \ {0}
  <2>1. f[Len(f)] \in Frames
        BY <1>1
  <2> QED BY <2>1 DEF Frames
<1>3. \A i \in 2 .. Len(f) : At(f, i) \in 1 .. Len(o) - 1
  <2> TAKE i \in 2 .. Len(f)
  <2>1. At(f, i) \in 1 .. depth + Len(f) - 2 /\ At(f, i) <= f[Len(f)].floor + Len(f) - 2
        BY AtIs
  <2> QED BY <2>1, <1>1, <1>2
<1>4. Len(o) >= 1 /\ o # << >>
      BY <1>1, <1>2
<1>5. o[Len(o)] = <<"open">>
  <2>1. Len(o) \in 1 .. Len(o) /\ \A i \in 2 .. Len(f) : Len(o) # At(f, i)
        BY <1>1, <1>3, <1>4
  <2> QED BY <2>1 DEF Nested
<1>6. Front(o) \in Seq(Begun) /\ Len(Front(o)) = Len(o) - 1
        /\ \A p \in 1 .. Len(o) - 1 : Front(o)[p] = o[p]
      BY <1>1, <1>4, FrontIs
<1>7. Floors(f, depth - 1)
  <2>1. \A i \in 1 .. Len(f) : f[i].floor <= f[Len(f)].floor /\ f[i].floor \in Nat
    <3>1. \A i \in 1 .. Len(f) : f[i] \in Frames
          OBVIOUS
    <3> QED BY <3>1, <1>1 DEF Frames, Floors
  <2> QED BY <2>1, <1>2 DEF Floors
<1>8. Len(Front(o)) = depth - 1 + Len(f) - 2
      BY <1>1, <1>6
<1>9. \A i \in 2 .. Len(f) : Front(o)[At(f, i)] = <<"start", f[i].name>>
      BY <1>3, <1>6 DEF Nested
<1>10. ASSUME NEW p \in 1 .. Len(Front(o)), \A i \in 2 .. Len(f) : p # At(f, i)
       PROVE  Front(o)[p] = <<"open">>
  <2>1. p \in 1 .. Len(o) - 1 /\ p \in 1 .. Len(o)
        BY <1>1, <1>6
  <2> QED BY <2>1, <1>6, <1>10 DEF Nested
<1>11. Nested(Front(o), f, depth - 1)
       BY <1>6, <1>8, <1>9, <1>10 DEF Nested
<1> QED BY <1>4, <1>5, <1>7, <1>11

\* A text begins within the others, ...
LEMMA NestedEnter ==
    ASSUME NEW f \in Seq(Frames), f # << >>, NEW depth \in Nat \ {0}, Floors(f, depth),
           NEW o, Nested(o, f, depth), NEW g \in Seq(Frames), Len(g) = Len(f) + 1,
           \A i \in 1 .. Len(f) : g[i].name = f[i].name /\ g[i].floor = f[i].floor,
           g[Len(f) + 1].name \in Name, g[Len(f) + 1].floor = depth
    PROVE  Floors(g, depth) /\ Nested(Append(o, <<"start", g[Len(f) + 1].name>>), g, depth)
<1> DEFINE n     == Len(f)
           start == <<"start", g[n + 1].name>>
           new   == Append(o, start)
<1>1. start \in Begun /\ o \in Seq(Begun) /\ Len(o) = depth + n - 2 /\ n \in Nat /\ n >= 1
      BY BegunIs DEF Nested
<1>2. \A i \in 2 .. n : At(f, i) \in 1 .. Len(o)
      BY <1>1, AtIs
<1>3. \A i \in 1 .. n : f[i].floor \in Nat
  <2>1. \A i \in 1 .. n : f[i] \in Frames
        OBVIOUS
  <2> QED BY <2>1 DEF Frames
<1> HIDE DEF start
<1>5. new \in Seq(Begun) /\ Len(new) = Len(o) + 1 /\ new[Len(o) + 1] = start
        /\ \A p \in 1 .. Len(o) : new[p] = o[p]
      BY <1>1
<1>0. /\ Len(g) = n + 1 /\ g[n + 1].floor = depth
      /\ \A i \in 1 .. n : g[i].name = f[i].name /\ g[i].floor = f[i].floor
      OBVIOUS
<1>15. /\ \A i \in 1 .. n : f[i].floor <= depth
       /\ \A i, j \in 1 .. n : i <= j => f[i].floor <= f[j].floor
       BY DEF Floors
<1>16. \A i \in 2 .. n : o[At(f, i)] = <<"start", f[i].name>>
       BY DEF Nested
<1>17. \A p \in 1 .. Len(o) : (\A i \in 2 .. n : p # At(f, i)) => o[p] = <<"open">>
       BY DEF Nested
<1> HIDE DEF new, n
<1>4. Floors(g, depth)
  <2>1. ASSUME NEW i \in 1 .. Len(g)
        PROVE  g[i].floor <= depth
    <3>1. CASE i = n + 1
          BY <3>1, <1>0
    <3>2. CASE i # n + 1
      <4>1. i \in 1 .. n
            BY <3>2, <1>0, <1>1
      <4> QED BY <4>1, <1>0, <1>15
    <3> QED BY <3>1, <3>2
  <2>2. ASSUME NEW i \in 1 .. Len(g), NEW j \in 1 .. Len(g), i <= j
        PROVE  g[i].floor <= g[j].floor
    <3>1. CASE j = n + 1
          BY <3>1, <2>1, <1>0
    <3>2. CASE j # n + 1
      <4>1. i \in 1 .. n /\ j \in 1 .. n
            BY <3>2, <2>2, <1>0, <1>1
      <4> QED BY <4>1, <2>2, <1>0, <1>15
    <3> QED BY <3>1, <3>2
  <2> QED BY <2>1, <2>2 DEF Floors
<1>6. \A i \in 2 .. n : At(g, i) = At(f, i) /\ At(g, i) \in 1 .. Len(o)
  <2> TAKE i \in 2 .. n
  <2>1. i \in 1 .. n
        BY <1>1
  <2>2. g[i].floor = f[i].floor
        BY <2>1, <1>0
  <2> QED BY <2>2, <1>2 DEF At
<1>7. At(g, n + 1) = Len(o) + 1 /\ n + 1 \in 2 .. Len(g)
      BY <1>0, <1>1 DEF At
<1>8. ASSUME NEW i \in 2 .. Len(g)
      PROVE  new[At(g, i)] = <<"start", g[i].name>>
  <2>1. CASE i = n + 1
        BY <2>1, <1>5, <1>7 DEF start
  <2>2. CASE i # n + 1
    <3>1. i \in 2 .. n /\ i \in 1 .. n
          BY <2>2, <1>0, <1>1
    <3>2. new[At(g, i)] = o[At(f, i)]
          BY <3>1, <1>5, <1>6
    <3>3. g[i].name = f[i].name
          BY <3>1, <1>0
    <3> QED BY <3>1, <3>2, <3>3, <1>16
  <2> QED BY <2>1, <2>2
<1>9. ASSUME NEW p \in 1 .. Len(new), \A i \in 2 .. Len(g) : p # At(g, i)
      PROVE  new[p] = <<"open">>
  <2>1. p # Len(o) + 1
        BY <1>7, <1>9
  <2>2. p \in 1 .. Len(o)
        BY <2>1, <1>1, <1>5
  <2>3. \A i \in 2 .. n : p # At(f, i)
    <3> TAKE i \in 2 .. n
    <3>1. i \in 2 .. Len(g)
          BY <1>0, <1>1
    <3> QED BY <3>1, <1>6, <1>9
  <2> QED BY <2>2, <2>3, <1>5, <1>17
<1>10. Len(new) = depth + Len(g) - 2
       BY <1>0, <1>1, <1>5
<1>11. Nested(new, g, depth)
       BY <1>5, <1>8, <1>9, <1>10 DEF Nested
<1> QED BY <1>4, <1>11 DEF new, start, n

\* ... and ends, at the depth at which it began.
LEMMA NestedLeave ==
    ASSUME NEW f \in Seq(Frames), Len(f) > 1, NEW depth \in Nat \ {0}, Floors(f, depth),
           NEW o, Nested(o, f, depth), f[Len(f)].floor = depth
    PROVE  /\ o # << >> /\ o[Len(o)] = <<"start", f[Len(f)].name>>
           /\ Floors(Front(f), depth) /\ Nested(Front(o), Front(f), depth)
<1> DEFINE n == Len(f)
           g == Front(f)
<1>1. o \in Seq(Begun) /\ Len(o) = depth + n - 2 /\ n \in Nat /\ n >= 2
      BY DEF Nested
<1>2. Len(o) >= 1 /\ o # << >> /\ At(f, n) = Len(o) /\ n \in 2 .. n /\ n \in 1 .. n
      BY <1>1 DEF At
<1>3. o[Len(o)] = <<"start", f[n].name>>
      BY <1>2 DEF Nested
<1>4. g \in Seq(Frames) /\ Len(g) = n - 1 /\ \A i \in 1 .. n - 1 : g[i] = f[i]
  <2>1. f # << >>
        BY <1>1
  <2> QED BY <2>1, FrontIs
<1>5. Front(o) \in Seq(Begun) /\ Len(Front(o)) = Len(o) - 1
        /\ \A p \in 1 .. Len(o) - 1 : Front(o)[p] = o[p]
      BY <1>1, <1>2, FrontIs
<1>15. /\ \A i \in 1 .. n : f[i].floor <= depth /\ f[i].floor \in Nat \ {0}
       /\ \A i, j \in 1 .. n : i <= j => f[i].floor <= f[j].floor
  <2>1. \A i \in 1 .. n : f[i] \in Frames
        OBVIOUS
  <2> QED BY <2>1 DEF Floors, Frames
<1>16. \A i \in 2 .. n : o[At(f, i)] = <<"start", f[i].name>>
       BY DEF Nested
<1>17. \A p \in 1 .. Len(o) : (\A i \in 2 .. n : p # At(f, i)) => o[p] = <<"open">>
       BY DEF Nested
<1> HIDE DEF g, n
<1>6. Floors(g, depth)
  <2>1. \A i \in 1 .. Len(g) : i \in 1 .. n /\ g[i] = f[i]
        BY <1>1, <1>4
  <2> QED BY <2>1, <1>15 DEF Floors
<1>7. \A i \in 2 .. n - 1 : At(g, i) = At(f, i) /\ At(g, i) \in 1 .. Len(o) - 1
  <2> TAKE i \in 2 .. n - 1
  <2>1. i \in 1 .. n - 1 /\ i \in 1 .. n
        BY <1>1
  <2>2. g[i].floor = f[i].floor /\ f[i].floor \in Nat \ {0} /\ f[i].floor <= depth
        BY <2>1, <1>4, <1>15
  <2> QED BY <2>2, <1>1 DEF At
<1>8. \A i \in 2 .. Len(g) : Front(o)[At(g, i)] = <<"start", g[i].name>>
  <2> TAKE i \in 2 .. Len(g)
  <2>1. i \in 2 .. n - 1 /\ i \in 1 .. n - 1 /\ i \in 2 .. n
        BY <1>1, <1>4
  <2>2. Front(o)[At(g, i)] = o[At(f, i)] /\ g[i].name = f[i].name
        BY <2>1, <1>4, <1>5, <1>7
  <2> QED BY <2>1, <2>2, <1>16
<1>9. ASSUME NEW p \in 1 .. Len(Front(o)), \A i \in 2 .. Len(g) : p # At(g, i)
      PROVE  Front(o)[p] = <<"open">>
  <2>1. p \in 1 .. Len(o) - 1 /\ p \in 1 .. Len(o) /\ p # Len(o)
        BY <1>1, <1>5
  <2>2. \A i \in 2 .. n : p # At(f, i)
    <3> TAKE i \in 2 .. n
    <3>1. CASE i = n
          BY <3>1, <2>1, <1>2 DEF n
    <3>2. CASE i # n
      <4>1. i \in 2 .. n - 1 /\ i \in 2 .. Len(g)
            BY <3>2, <1>1, <1>4
      <4> QED BY <4>1, <1>7, <1>9
    <3> QED BY <3>1, <3>2
  <2> QED BY <2>1, <2>2, <1>5, <1>17
<1>10. Len(Front(o)) = depth + Len(g) - 2
       BY <1>1, <1>4, <1>5
<1>11. Nested(Front(o), g, depth)
       BY <1>5, <1>8, <1>9, <1>10 DEF Nested
<1> QED BY <1>2, <1>3, <1>6, <1>11 DEF g, n


\* Sequences one after the other.
LEMMA OneAfterAnother ==
    ASSUME NEW S, NEW s \in Seq(S), NEW t \in Seq(S), NEW e \in S
    PROVE  /\ s \o << >> = s /\ s \o <<e>> = Append(s, e)
           /\ s \o Append(t, e) = Append(s \o t, e)
           /\ s \o (t \o <<e>>) = Append(s \o t, e)
           /\ t \o <<e>> = Append(t, e)
OBVIOUS

\* The last of a sequence, and the others.
LEMMA AppendedIs ==
    ASSUME NEW S, NEW s \in Seq(S), NEW e \in S
    PROVE  /\ Append(s, e) \in Seq(S) /\ Append(s, e) # << >> /\ Len(Append(s, e)) = Len(s) + 1
           /\ Append(s, e)[Len(Append(s, e))] = e /\ Front(Append(s, e)) = s
<1>1. /\ Append(s, e) \in Seq(S) /\ Append(s, e) # << >> /\ Len(Append(s, e)) = Len(s) + 1
      /\ Append(s, e)[Len(Append(s, e))] = e
      /\ \A i \in 1 .. Len(s) : Append(s, e)[i] = s[i]
      OBVIOUS
<1> DEFINE t == Append(s, e)
<1>2. Front(t) \in Seq(S) /\ Len(Front(t)) = Len(t) - 1
        /\ \A i \in 1 .. Len(t) - 1 : Front(t)[i] = t[i]
      BY <1>1, FrontIs
<1> HIDE DEF t
<1>3. Front(t) = s
  <2>1. Len(Front(t)) = Len(s) /\ \A i \in 1 .. Len(s) : Front(t)[i] = s[i]
        BY <1>1, <1>2 DEF t
  <2> QED BY <2>1, <1>2, SeqEqual
<1> QED BY <1>1, <1>3 DEF t

\* What an event does to what is open.
LEMMA NestIs ==
    ASSUME NEW o
    PROVE  /\ Nest(o, <<"open">>) = Append(o, <<"open">>)
           /\ \A n : Nest(o, <<"start", n>>) = Append(o, <<"start", n>>)
           /\ o # << >> /\ o[Len(o)] = <<"open">> => Nest(o, <<"close">>) = Front(o)
           /\ \A n : o # << >> /\ o[Len(o)] = <<"start", n>> => Nest(o, <<"end", n>>) = Front(o)
<1>2. Nest(o, <<"open">>) = Append(o, <<"open">>)
  <2> DEFINE e == <<"open">>
  <2>1. e[1] = "open"
        OBVIOUS
  <2> HIDE DEF e
  <2>2. Nest(o, e) = Append(o, e)
        BY <2>1 DEF Nest
  <2> QED BY <2>2 DEF e
<1>3. ASSUME NEW n
      PROVE  Nest(o, <<"start", n>>) = Append(o, <<"start", n>>)
  <2> DEFINE e == <<"start", n>>
  <2>1. e[1] = "start"
        OBVIOUS
  <2> HIDE DEF e
  <2>2. Nest(o, e) = Append(o, e)
        BY <2>1 DEF Nest
  <2> QED BY <2>2 DEF e
<1>4. ASSUME o # << >>, o[Len(o)] = <<"open">>
      PROVE  Nest(o, <<"close">>) = Front(o)
  <2> DEFINE e == <<"close">>
             begin == <<"open">>
  <2>1. e[1] = "close" /\ o # << >> /\ o[Len(o)] = begin
        BY <1>4
  <2> HIDE DEF e
  <2>2. Nest(o, e) = IF o # << >> /\ o[Len(o)] = begin THEN Front(o) ELSE <<<<"wrong">>>>
    <3>1. e[1] # "start" /\ e[1] # "open" /\ e[1] # "end"
          BY <2>1
    <3> QED BY <3>1, <2>1 DEF Nest
  <2> QED BY <2>1, <2>2 DEF e
<1>5. ASSUME NEW n, o # << >>, o[Len(o)] = <<"start", n>>
      PROVE  Nest(o, <<"end", n>>) = Front(o)
  <2> DEFINE e == <<"end", n>>
             begin == <<"start", e[2]>>
  <2>1. e[1] = "end" /\ o # << >> /\ o[Len(o)] = begin
        BY <1>5
  <2> HIDE DEF e
  <2>2. Nest(o, e) = IF o # << >> /\ o[Len(o)] = begin THEN Front(o) ELSE <<<<"wrong">>>>
    <3>1. e[1] # "start" /\ e[1] # "open"
          BY <2>1
    <3> QED BY <3>1, <2>1 DEF Nest
  <2> QED BY <2>1, <2>2 DEF e
<1> QED BY <1>2, <1>3, <1>4, <1>5

\* Characters, values and errors open and close nothing.
LEMMA NothingBegins ==
    ASSUME NEW o, NEW e, e[1] \in {"text", "attribute", "error", "skipped"}
    PROVE  Nest(o, e) = o
<1>1. e[1] # "start" /\ e[1] # "open" /\ e[1] # "end" /\ e[1] # "close"
      OBVIOUS
<1> QED BY <1>1 DEF Nest

\* Runs of characters are completed, all but the last.
Proper(events) ==
    \A i \in 2 .. Len(events) :
        events[i - 1][1] = "text" /\ events[i][1] # "text" => events[i - 1][3]

RunIsOpen(events) ==
    events # << >> /\ events[Len(events)][1] = "text" /\ ~events[Len(events)][3]

\* One more event.
LEMMA OneMoreEvent ==
    ASSUME NEW h \in Seq(Events), NEW e \in Events, Proper(h), RunIsOpen(h) => e[1] = "text"
    PROVE  /\ Append(h, e) \in Seq(Events) /\ Proper(Append(h, e))
           /\ RunIsOpen(Append(h, e)) <=> e[1] = "text" /\ ~e[3]
           /\ Opened(Append(h, e)) = Nest(Opened(h), e)
<1> DEFINE n   == Len(h)
           new == Append(h, e)
<1>1. /\ n \in Nat /\ new \in Seq(Events) /\ Len(new) = n + 1 /\ new[n + 1] = e
      /\ \A i \in 1 .. n : new[i] = h[i]
      /\ n > 0 => h # << >>
      OBVIOUS
<1>2. /\ \A i \in 2 .. n : h[i - 1][1] = "text" /\ h[i][1] # "text" => h[i - 1][3]
      /\ n > 0 /\ h[n][1] = "text" /\ ~h[n][3] => e[1] = "text"
      BY <1>1 DEF Proper, RunIsOpen
<1>3. Opened(new) = Nest(Opened(h), e)
      BY OpenedMore
<1> HIDE DEF n, new
<1>4. ASSUME NEW i \in 2 .. Len(new), new[i - 1][1] = "text", new[i][1] # "text"
      PROVE  new[i - 1][3]
  <2>1. CASE i = n + 1
    <3>1. n > 0 /\ new[i - 1] = h[n]
          BY <2>1, <1>1
    <3> QED BY <3>1, <2>1, <1>1, <1>2, <1>4
  <2>2. CASE i # n + 1
    <3>1. i \in 2 .. n /\ i - 1 \in 1 .. n /\ i \in 1 .. n
          BY <2>2, <1>1
    <3>2. new[i] = h[i] /\ new[i - 1] = h[i - 1]
          BY <3>1, <1>1
    <3> QED BY <3>1, <3>2, <1>2, <1>4
  <2> QED BY <2>1, <2>2
<1>5. Proper(new)
      BY <1>4 DEF Proper
<1>6. RunIsOpen(new) <=> e[1] = "text" /\ ~e[3]
  <2>1. new # << >>
        BY <1>1
  <2> QED BY <2>1, <1>1 DEF RunIsOpen
<1> QED BY <1>1, <1>3, <1>5, <1>6 DEF new

\* What the heard events tell of what is open.
Heard(h, o, open) ==
    h \in Seq(Events) /\ Proper(h) /\ Opened(h) = o /\ (RunIsOpen(h) => open)

\* Events that open and close nothing.
LEMMA HeardMore ==
    ASSUME NEW h, NEW o, NEW e \in Events, Heard(h, o, FALSE)
    PROVE  /\ e[1] # "text" => Heard(Append(h, e), Nest(o, e), FALSE)
           /\ e[1] \in {"attribute", "error", "skipped"} => Heard(Append(h, e), o, FALSE)
<1>1. h \in Seq(Events) /\ Proper(h) /\ Opened(h) = o /\ ~RunIsOpen(h)
      BY DEF Heard
<1>2. /\ Append(h, e) \in Seq(Events) /\ Proper(Append(h, e))
      /\ RunIsOpen(Append(h, e)) <=> e[1] = "text" /\ ~e[3]
      /\ Opened(Append(h, e)) = Nest(Opened(h), e)
      BY <1>1, OneMoreEvent
<1>3. e[1] # "text" => Heard(Append(h, e), Nest(o, e), FALSE)
      BY <1>1, <1>2 DEF Heard
<1>4. e[1] \in {"attribute", "error", "skipped"} => Nest(o, e) = o /\ e[1] # "text"
      BY NothingBegins
<1> QED BY <1>3, <1>4

\* Characters.
LEMMA HeardText ==
    ASSUME NEW h, NEW o, NEW open, Heard(h, o, open), NEW run \in Seq(Letter), NEW end \in BOOLEAN
    PROVE  Heard(Append(h, Text(run, end)), o, ~end)
<1> DEFINE e == Text(run, end)
<1>1. h \in Seq(Events) /\ Proper(h) /\ Opened(h) = o
      BY DEF Heard
<1>2. e \in Events /\ e[1] = "text" /\ e[3] = end
      BY DEF Text, Events
<1> HIDE DEF e
<1>3. /\ Append(h, e) \in Seq(Events) /\ Proper(Append(h, e))
      /\ RunIsOpen(Append(h, e)) <=> e[1] = "text" /\ ~e[3]
      /\ Opened(Append(h, e)) = Nest(Opened(h), e)
      BY <1>1, <1>2, OneMoreEvent
<1>4. Nest(o, e) = o
      BY <1>2, NothingBegins
<1>5. Heard(Append(h, e), o, ~end)
      BY <1>1, <1>2, <1>3, <1>4 DEF Heard
<1> QED BY <1>5 DEF e

\* The run that is open is completed.
LEMMA HeardCompleted ==
    ASSUME TypeOK, NEW o, Heard(heard, o, content_run_open)
    PROVE  Heard(heard \o Completed, o, FALSE)
<1>1. heard \in Seq(Events) /\ content_run_open \in BOOLEAN
      BY DEF TypeOK
<1>2. CASE content_run_open
  <2> DEFINE e == Text(<< >>, TRUE)
  <2>1. Heard(Append(heard, e), o, FALSE)
        BY HeardText, Empty
  <2>2. e \in Events
        BY Empty, HearIs
  <2>3. Completed = <<e>>
        BY <1>2 DEF Completed
  <2> HIDE DEF e
  <2>4. heard \o Completed = Append(heard, e)
        BY <2>2, <2>3, <1>1
  <2> QED BY <2>1, <2>4
<1>3. CASE ~content_run_open
  <2>1. heard \o Completed = heard
        BY <1>1, <1>3 DEF Completed
  <2> QED BY <2>1, <1>3 DEF Heard
<1> QED BY <1>1, <1>2, <1>3

\* The text of an entity, or a value, is read in content.
Reading == phase = "content" /\ calls # << >>
Mark    == IF calls[1].fn = "flatten" THEN <<"start", calls[1].name>> ELSE <<"open">>

\* What is open is what is scanned and, last, what is read.
Balanced ==
    LET o == Opened(heard)
    IN  IF Reading
        THEN o # << >> /\ o[Len(o)] = Mark /\ Nested(Front(o), frames, element_stack)
        ELSE Nested(o, frames, element_stack)

Boundaries ==
    /\ Opened(heard) \in Seq(Begun) /\ Floors(frames, element_stack)
    /\ Heard(heard, Opened(heard), content_run_open)
    /\ phase = "done" => failed = "none"
    /\ failed = "none" => Balanced

\* What the functions that read do to the rest.
LEMMA ReadingSteps ==
    ASSUME TypeOK, Shape,
           \/ FlattenCharacter \/ FlattenOther \/ FlattenReference \/ FlattenReturn
           \/ ResolveCharacter \/ ResolveOther \/ ResolveReference \/ ResolveReturn
    PROVE  /\ calls # << >> /\ failed = "none"
           /\ UNCHANGED <<doc, phase, buffers, default_value, resets>>
           /\ \/ calls' = << >> /\ failed' # "none"
              \/ /\ calls' # << >> /\ failed' = "none"
                 /\ calls'[1].fn = calls[1].fn /\ calls'[1].name = calls[1].name
           /\ \/ UNCHANGED heard
              \/ \E e \in Events : e[1] \in {"error", "skipped"} /\ heard' = Append(heard, e)
<1> DEFINE Calls1 == /\ calls' # << >> /\ failed' = "none"
                     /\ calls'[1].fn = calls[1].fn /\ calls'[1].name = calls[1].name
<1>0. CallsShape(calls) /\ heard \in Seq(Events)
      BY DEF Shape, TypeOK
<1>1. ASSUME NEW out, Fits(Current.fn, out), More, calls # << >>, calls' = HasRead(out), failed' = "none"
      PROVE  Calls1
  <2>1. /\ calls' # << >> /\ Len(calls) \in Nat /\ Len(calls) >= 1
        /\ \A i \in 1 .. Len(calls) : calls'[i].fn = calls[i].fn /\ calls'[i].name = calls[i].name
        BY <1>0, <1>1, OnePieceRead, CurrentIs
  <2> QED BY <2>1, <1>1
<1>2. ASSUME NEW name \in Name, NEW text \in Seq(Item), More, calls # << >>,
             calls' = Calling(name, text), failed' = "none"
      PROVE  Calls1
  <2>1. /\ calls' # << >> /\ Len(calls) \in Nat /\ Len(calls) >= 1
        /\ \A i \in 1 .. Len(calls) : calls'[i].fn = calls[i].fn /\ calls'[i].name = calls[i].name
        BY <1>0, <1>2, OneMoreCall, CurrentIs
  <2> QED BY <2>1, <1>2
<1>3. ASSUME Len(calls) > 1, Return, failed' = "none"
      PROVE  Calls1
  <2>1. /\ calls' # << >> /\ Len(calls) \in Nat
        /\ \A i \in 1 .. Len(calls) - 1 : calls'[i].fn = calls[i].fn /\ calls'[i].name = calls[i].name
        BY <1>3, ReturnIs DEF TypeOK
  <2> QED BY <2>1, <1>3
<1>4. ASSUME NEW answer \in {"expand", "limit", "fatal", "skipped", "error"}, NEW name \in Name,
             Hear(Told(answer, name))
      PROVE  \/ UNCHANGED heard
             \/ \E e \in Events : e[1] \in {"error", "skipped"} /\ heard' = Append(heard, e)
  <2>1. CASE answer \in {"skipped", "error"}
    <3> DEFINE e == <<answer, name>>
    <3>1. e \in Events /\ e[1] \in {"error", "skipped"}
          BY <2>1 DEF Events
    <3>2. Told(answer, name) = <<e>>
          BY <2>1 DEF Told
    <3> HIDE DEF e
    <3>3. heard' = Append(heard, e)
          BY <3>1, <3>2, <1>0, <1>4 DEF Hear
    <3> QED BY <3>1, <3>3
  <2>2. CASE answer \notin {"skipped", "error"}
    <3>1. heard' = heard
          BY <2>2, <1>0, <1>4 DEF Hear, Told
    <3> QED BY <3>1
  <2> QED BY <2>1, <2>2
<1>5. CASE FlattenCharacter
  <2>1. calls # << >> /\ More /\ failed = "none" /\ calls' = HasRead(Append(Current.out, Piece))
          /\ UNCHANGED <<doc, phase, failed, buffers, heard, default_value, resets>>
        BY <1>5 DEF FlattenCharacter, In
  <2>2. Calls1
        BY <2>1, <1>1, <1>5, CharacterFits
  <2> QED BY <2>1, <2>2
<1>6. CASE FlattenOther
  <2>1. calls # << >> /\ More /\ failed = "none" /\ calls' = HasRead(NotFlat)
          /\ UNCHANGED <<doc, phase, failed, buffers, heard, default_value, resets>>
          /\ Fits(Current.fn, NotFlat)
        BY <1>6 DEF FlattenOther, In, Fits
  <2>2. Calls1
        BY <2>1, <1>1
  <2> QED BY <2>1, <2>2
<1>7. CASE FlattenReturn \/ ResolveReturn
  <2>1. calls # << >> /\ failed = "none" /\ Len(calls) > 1 /\ Return
          /\ UNCHANGED <<doc, phase, failed, buffers, heard, default_value, resets>>
        BY <1>7 DEF FlattenReturn, ResolveReturn, In
  <2>2. Calls1
        BY <2>1, <1>3
  <2> QED BY <2>1, <2>2
<1>8. CASE ResolveCharacter
  <2>1. calls # << >> /\ More /\ failed = "none" /\ calls' = HasRead(Append(Current.out, Char(Piece.of)))
          /\ UNCHANGED <<doc, phase, failed, buffers, heard, default_value, resets>>
        BY <1>8 DEF ResolveCharacter, In
  <2>2. Calls1
        BY <2>1, <1>1, <1>8, CharacterFits
  <2> QED BY <2>1, <2>2
<1>9. CASE ResolveOther
      BY <1>9 DEF ResolveOther, In
<1>10. CASE FlattenReference
  <2>1. calls # << >> /\ More /\ failed = "none"
          /\ UNCHANGED <<doc, phase, buffers, default_value, resets>>
        BY <1>10, FlattenReferenceCases
  <2>2. PICK name \in Name, answer \in {"expand", "limit", "fatal", "skipped", "error"} :
                /\ Checked(answer) /\ Hear(Told(answer, name))
                /\ \/ /\ answer \in {"fatal", "limit"} /\ calls' = << >>
                   \/ /\ answer \in {"skipped", "error"} /\ calls' = HasRead(NotFlat)
                      /\ Fits(Current.fn, NotFlat)
                   \/ /\ answer = "expand"
                      /\ calls' = Calling(name, doc.entity[name].text)
                   \/ /\ answer = "expand"
                      /\ calls' = HasRead(Joined(Current.out, Flat(name)))
                      /\ Fits(Current.fn, Joined(Current.out, Flat(name)))
        BY <1>10, FlattenReferenceCases
  <2>3. failed' = "none" <=> answer \notin {"fatal", "limit"}
        BY <2>2, CheckedIs DEF TypeOK
  <2>4. doc.entity[name].text \in Seq(Item)
        BY EntityIs DEF TypeOK
  <2>5. (calls' = << >> /\ failed' # "none") \/ Calls1
        BY <2>1, <2>2, <2>3, <2>4, <1>1, <1>2
  <2> QED BY <2>1, <2>2, <2>5, <1>4
<1>11. CASE ResolveReference
  <2>1. calls # << >> /\ More /\ failed = "none"
          /\ UNCHANGED <<doc, phase, buffers, default_value, resets>>
        BY <1>11, ResolveReferenceCases
  <2>2. PICK name \in Name, answer \in {"expand", "limit", "fatal", "skipped", "error"} :
                /\ Checked(answer) /\ Hear(Told(answer, name))
                /\ \/ answer \in {"fatal", "limit"} /\ calls' = << >>
                   \/ /\ answer \in {"skipped", "error"} /\ calls' = HasRead(Current.out)
                      /\ Fits(Current.fn, Current.out)
                   \/ /\ answer = "expand"
                      /\ calls' = Calling(name, doc.entity[name].text)
                   \/ /\ answer = "expand"
                      /\ calls' = HasRead(Current.out \o attribute_entity_cache[name])
                      /\ Fits(Current.fn, Current.out \o attribute_entity_cache[name])
        BY <1>11, ResolveReferenceCases
  <2>3. failed' = "none" <=> answer \notin {"fatal", "limit"}
        BY <2>2, CheckedIs DEF TypeOK
  <2>4. doc.entity[name].text \in Seq(Item)
        BY EntityIs DEF TypeOK
  <2>5. (calls' = << >> /\ failed' # "none") \/ Calls1
        BY <2>1, <2>2, <2>3, <2>4, <1>1, <1>2
  <2> QED BY <2>1, <2>2, <2>5, <1>4
<1> QED BY <1>5, <1>6, <1>7, <1>8, <1>9, <1>10, <1>11


\* What the functions that read a text in one go do keeps the boundaries
\* balanced.
LEMMA ReadingBoundaries ==
    ASSUME TypeOK, Shape, Boundaries,
           \/ FlattenCharacter \/ FlattenOther \/ FlattenReference \/ FlattenReturn
           \/ ResolveCharacter \/ ResolveOther \/ ResolveReference \/ ResolveReturn
    PROVE  Boundaries'
<1> DEFINE o == Opened(heard)
<1>0. /\ calls # << >> /\ failed = "none"
      /\ UNCHANGED <<phase, buffers>>
      /\ \/ calls' = << >> /\ failed' # "none"
         \/ /\ calls' # << >> /\ failed' = "none"
            /\ calls'[1].fn = calls[1].fn /\ calls'[1].name = calls[1].name
      /\ \/ UNCHANGED heard
         \/ \E e \in Events : e[1] \in {"error", "skipped"} /\ heard' = Append(heard, e)
      BY ReadingSteps
<1>1. /\ calls # << >> /\ failed = "none"
      /\ UNCHANGED <<phase, frames, element_stack, content_run_open>>
      /\ failed' = "none" =>
           calls' # << >> /\ calls'[1].fn = calls[1].fn /\ calls'[1].name = calls[1].name
      /\ \/ UNCHANGED heard
         \/ \E e \in Events : e[1] \in {"error", "skipped"} /\ heard' = Append(heard, e)
      BY <1>0 DEF buffers
<1>2. content_run_open = FALSE /\ phase # "done"
      BY <1>1 DEF Shape, TypeOK
<1>3. Heard(heard, o, FALSE)
      BY <1>2 DEF Boundaries
<1>4. Heard(heard', o, FALSE)
      BY <1>1, <1>3, HeardMore
<1>5. Opened(heard') = o
      BY <1>4 DEF Heard
<1>6. Balanced
      BY <1>1 DEF Boundaries
<1>7. failed' = "none" => Balanced'
  <2> SUFFICES ASSUME failed' = "none" PROVE Balanced'
      OBVIOUS
  <2>1. (Reading' <=> Reading) /\ Mark' = Mark
        BY <1>1 DEF Reading, Mark
  <2> QED BY <2>1, <1>1, <1>5, <1>6 DEF Balanced
<1> QED BY <1>1, <1>2, <1>4, <1>5, <1>7 DEF Boundaries

\* The scanner goes on in the text that is scanned.
LEMMA AdvanceNested ==
    ASSUME TypeOK, NEW rest \in Seq(Item), NEW f, f = Advanced(rest), NEW depth
    PROVE  /\ f \in Seq(Frames) /\ f # << >> /\ Len(f) = Len(frames)
           /\ f[Len(f)].floor = Top.floor
           /\ Floors(frames, depth) => Floors(f, depth)
           /\ \A o : Nested(o, frames, depth) => Nested(o, f, depth)
<1> DEFINE new == Advanced(rest)
<1>1. /\ new \in Seq(Frames) /\ new # << >> /\ Len(new) = Len(frames)
      /\ \A i \in 1 .. Len(frames) : new[i].name = frames[i].name /\ new[i].floor = frames[i].floor
      BY AdvanceIs
<1>2. frames \in Seq(Frames) /\ Len(frames) \in Nat /\ Len(frames) >= 1
      BY FramesIs
<1> HIDE DEF new
<1>3. new[Len(frames)].floor = frames[Len(frames)].floor
      BY <1>1, <1>2
<1>4. /\ Floors(frames, depth) => Floors(new, depth)
      /\ \A o : Nested(o, frames, depth) => Nested(o, new, depth)
      BY <1>1, <1>2, NestedSame
<1> QED BY <1>1, <1>3, <1>4 DEF new, Top

\* Another text takes its place.
LEMMA EnteredNested ==
    ASSUME TypeOK, NEW f \in Seq(Frames), f # << >>, Floors(f, element_stack),
           NEW o, Nested(o, f, element_stack), NEW name \in Name, NEW text \in Seq(Item),
           frames' = Entered(f, name, text)
    PROVE  /\ Floors(frames', element_stack)
           /\ Nested(Append(o, <<"start", name>>), frames', element_stack)
<1> DEFINE frame == Frame(name, text, element_stack)
<1>1. frame \in Frames /\ frame.name = name /\ frame.floor = element_stack
        /\ element_stack \in Nat \ {0}
      BY DEF TypeOK, Frame, Frames
<1>2. frames' = Append(f, frame)
      BY DEF Entered
<1> HIDE DEF frame
<1>3. /\ frames' \in Seq(Frames) /\ Len(frames') = Len(f) + 1 /\ frames'[Len(f) + 1] = frame
      /\ \A i \in 1 .. Len(f) : frames'[i] = f[i]
      BY <1>1, <1>2
<1> QED BY <1>1, <1>3, NestedEnter

\* A sequence is its last element after the others.
LEMMA AppendFront ==
    ASSUME NEW S, NEW s \in Seq(S), s # << >>
    PROVE  Append(Front(s), s[Len(s)]) = s
<1>1. Len(s) \in Nat /\ Len(s) >= 1 /\ s[Len(s)] \in S
      OBVIOUS
<1>2. Front(s) \in Seq(S) /\ Len(Front(s)) = Len(s) - 1
        /\ \A i \in 1 .. Len(s) - 1 : Front(s)[i] = s[i]
      BY FrontIs
<1> DEFINE t == Append(Front(s), s[Len(s)])
<1>3. t \in Seq(S) /\ Len(t) = Len(s) /\ t[Len(s)] = s[Len(s)]
        /\ \A i \in 1 .. Len(s) - 1 : t[i] = Front(s)[i]
      BY <1>1, <1>2
<1> HIDE DEF t
<1>4. \A i \in 1 .. Len(t) : t[i] = s[i]
      BY <1>1, <1>2, <1>3
<1> QED BY <1>3, <1>4, SeqEqual DEF t

\* What Boundaries says while a text is scanned.
LEMMA ScanningIs ==
    ASSUME TypeOK, Boundaries, Running
    PROVE  /\ Opened(heard) \in Seq(Begun) /\ Floors(frames, element_stack)
           /\ Nested(Opened(heard), frames, element_stack)
           /\ Heard(heard, Opened(heard), content_run_open)
           /\ Heard(heard \o Completed, Opened(heard), FALSE)
           /\ element_stack \in Nat \ {0} /\ frames \in Seq(Frames) /\ frames # << >>
           /\ heard \o Completed \in Seq(Events)
<1>1. Heard(heard, Opened(heard), content_run_open)
      BY DEF Boundaries
<1>2. Heard(heard \o Completed, Opened(heard), FALSE)
      BY <1>1, HeardCompleted
<1>3. Balanced /\ ~Reading
      BY DEF Boundaries, Running, Reading
<1> QED BY <1>1, <1>2, <1>3 DEF Boundaries, Balanced, TypeOK, Heard

\* How it goes on if nothing is read, ...
LEMMA ThenScanning ==
    ASSUME NEW o \in Seq(Begun), Heard(heard', o, content_run_open'),
           Floors(frames', element_stack'), Nested(o, frames', element_stack'),
           phase' = "done" => failed' = "none", calls' = << >>
    PROVE  Boundaries'
<1>1. Opened(heard') = o
      BY DEF Heard
<1>2. ~Reading'
      BY DEF Reading
<1>3. Balanced'
      BY <1>1, <1>2 DEF Balanced
<1> QED BY <1>1, <1>3 DEF Boundaries

\* ... and if it goes on no more.
LEMMA ThenFailed ==
    ASSUME NEW o \in Seq(Begun), Heard(heard', o, content_run_open'),
           Floors(frames', element_stack'), phase' # "done", failed' # "none"
    PROVE  Boundaries'
<1>1. Opened(heard') = o
      BY DEF Heard
<1> QED BY <1>1 DEF Boundaries

\* Characters in the buffer keeps the boundaries balanced.
LEMMA ScanningBoundaries ==
    ASSUME TypeOK, Shape, Boundaries, Characters \/ Decoded
    PROVE  Boundaries'
<1> DEFINE o == Opened(heard)
<1>1. /\ Running /\ Rest # << >> /\ calls' = << >> /\ phase' = "content"
      /\ UNCHANGED element_stack
      BY DEF Characters, Decoded, Running, buffers
<1>2. /\ o \in Seq(Begun) /\ Floors(frames, element_stack) /\ Nested(o, frames, element_stack)
      /\ Heard(heard, o, content_run_open)
      BY <1>1, ScanningIs
<1>3. CASE UNCHANGED <<buffers, heard>>
      BY <1>1, <1>2, <1>3, ThenScanning DEF buffers
<1>4. CASE \E run \in Seq(Letter), rest \in Seq(Item), end \in BOOLEAN :
             heard' = Append(heard, Text(run, end)) /\ frames' = Advanced(rest)
               /\ content_run_open' = ~end
  <2>1. PICK run \in Seq(Letter), rest \in Seq(Item), end \in BOOLEAN :
             heard' = Append(heard, Text(run, end)) /\ frames' = Advanced(rest)
               /\ content_run_open' = ~end
        BY <1>4
  <2>2. Heard(heard', o, content_run_open')
        BY <2>1, <1>2, HeardText
  <2>3. Floors(frames', element_stack) /\ Nested(o, frames', element_stack)
        BY <2>1, <1>2, AdvanceNested
  <2> QED BY <2>2, <2>3, <1>1, <1>2, ThenScanning
<1>5. CASE Characters
  <2> DEFINE run  == SubSeq(Rest, 1, AfterRun(Rest) - 1)
             rest == SubSeq(Rest, AfterRun(Rest), Len(Rest))
  <2>1. run \in Seq(Letter) /\ rest \in Seq(Item)
        BY <1>1, <1>5, RunningIs, RunIs DEF Characters
  <2>2. AtMarkup(rest) \in BOOLEAN
        BY AtMarkupIs
  <2> HIDE DEF run, rest
  <2>3. \/ UNCHANGED <<buffers, heard>>
        \/ /\ Hear(<<Text(run, AtMarkup(rest))>>) /\ Advance(rest)
           /\ content_run_open' = ~AtMarkup(rest)
        BY <1>5 DEF Characters, run, rest
  <2>4. Text(run, AtMarkup(rest)) \in Events /\ heard \in Seq(Events)
        BY <2>1, <2>2, HearIs DEF TypeOK
  <2>5. Hear(<<Text(run, AtMarkup(rest))>>) => heard' = Append(heard, Text(run, AtMarkup(rest)))
        BY <2>4, OneAfterAnother DEF Hear
  <2> QED BY <2>1, <2>2, <2>3, <2>5, <1>3, <1>4 DEF Advance
<1>6. CASE Decoded
  <2> DEFINE run == <<Char(Head(Rest).of)>>
             end == AtMarkup(Tail(Rest))
  <2>1. run \in Seq(Letter) /\ Tail(Rest) \in Seq(Item)
    <3>1. Char(Head(Rest).of) \in Letter
          BY <1>6, DecodedIs
    <3> QED BY <3>1, <1>1, RunningIs
  <2>2. end \in BOOLEAN
        BY AtMarkupIs
  <2>3. Hear(<<Text(run, end)>>) /\ frames' = Advanced(Tail(Rest)) /\ content_run_open' = ~end
        BY <1>6 DEF Decoded, Advance
  <2> HIDE DEF run, end
  <2>4. Text(run, end) \in Events /\ heard \in Seq(Events)
        BY <2>1, <2>2, HearIs DEF TypeOK
  <2>5. heard' = Append(heard, Text(run, end))
        BY <2>3, <2>4, OneAfterAnother DEF Hear
  <2> QED BY <2>1, <2>2, <2>3, <2>5, <1>4
<1> QED BY <1>5, <1>6

\* A tag keeps the boundaries balanced.
LEMMA TagBoundaries ==
    ASSUME TypeOK, Shape, Boundaries, StartTag \/ AttributeTag \/ EndTag
    PROVE  Boundaries'
<1> DEFINE o  == Opened(heard)
           h  == heard \o Completed
           open == <<"open">>
           close == <<"close">>
<1>1. Running /\ Rest # << >> /\ phase' = "content" /\ content_run_open' = FALSE
        /\ frames' = Advanced(Tail(Rest))
      BY DEF StartTag, AttributeTag, EndTag, Running, TagBegins, Advance
<1>2. /\ o \in Seq(Begun) /\ Floors(frames, element_stack) /\ Nested(o, frames, element_stack)
      /\ Heard(h, o, FALSE) /\ h \in Seq(Events) /\ element_stack \in Nat \ {0}
      BY <1>1, ScanningIs
<1>3. /\ frames' \in Seq(Frames) /\ frames' # << >> /\ frames'[Len(frames')].floor = Top.floor
      /\ Floors(frames', element_stack) /\ Nested(o, frames', element_stack)
      BY <1>1, <1>2, RunningIs, AdvanceNested
<1>4. open \in Events /\ close \in Events /\ Completed \in Seq(Events) /\ heard \in Seq(Events)
        /\ open[1] # "text" /\ close[1] # "text" /\ open \in Begun
      BY HearIs, BegunIs DEF TypeOK
<1>5. Heard(Append(h, open), Append(o, open), FALSE)
  <2>1. Nest(o, open) = Append(o, open)
        BY NestIs
  <2> HIDE DEF open, h, o
  <2> QED BY <2>1, <1>2, <1>4, HeardMore
<1>6. heard \o Append(Completed, open) = Append(h, open)
        /\ heard \o (Completed \o <<open>>) = Append(h, open)
        /\ heard \o (Completed \o <<close>>) = Append(h, close)
      BY <1>4, OneAfterAnother
<1>7. CASE StartTag
  <2> DEFINE value == <<"attribute", default_value>>
  <2>1. calls' = << >> /\ element_stack' = element_stack + 1
          /\ Hear(Completed \o <<open>> \o IF doc.default = << >> THEN << >> ELSE <<value>>)
        BY <1>7 DEF StartTag, Running
  <2>2. value \in Events /\ value[1] = "attribute"
        BY HearIs DEF TypeOK
  <2>3. heard' = Append(h, open) \/ heard' = Append(Append(h, open), value)
    <3> HIDE DEF open, value
    <3>1. Completed \o <<open>> \in Seq(Events)
          BY <1>4
    <3>2. Completed \o <<open>> \o << >> = Completed \o <<open>>
          BY <3>1, OneAfterAnother
    <3>3. heard \o ((Completed \o <<open>>) \o <<value>>) = Append(heard \o (Completed \o <<open>>), value)
          BY <3>1, <2>2, <1>4, OneAfterAnother
    <3>4. doc.default = << >> => heard' = heard \o (Completed \o <<open>>)
          BY <2>1, <3>2 DEF Hear
    <3>5. doc.default # << >> => heard' = heard \o ((Completed \o <<open>>) \o <<value>>)
          BY <2>1 DEF Hear
    <3> QED BY <3>3, <3>4, <3>5, <1>6
  <2>4. Heard(heard', Append(o, open), FALSE)
    <3> HIDE DEF open, value, h, o
    <3> QED BY <2>2, <2>3, <1>5, HeardMore
  <2>5. Floors(frames', element_stack + 1) /\ Nested(Append(o, open), frames', element_stack + 1)
        BY <1>2, <1>3, NestedOpen
  <2>6. Append(o, open) \in Seq(Begun)
        BY <2>5 DEF Nested
  <2> QED BY <2>1, <2>4, <2>5, <2>6, <1>1, ThenScanning
<1>8. CASE AttributeTag
  <2>1. UNCHANGED element_stack /\ Hear(Append(Completed, open))
        BY <1>8 DEF AttributeTag
  <2>2. PICK call : calls' = <<call>> /\ call.fn = "resolve"
        BY <1>8 DEF AttributeTag, Call
  <2>3. Heard(heard', Append(o, open), FALSE)
        BY <2>1, <1>5, <1>6 DEF Hear
  <2>4. Opened(heard') = Append(o, open)
        BY <2>3 DEF Heard
  <2>5. Append(o, open) \in Seq(Begun) /\ Append(o, open) # << >> /\ Front(Append(o, open)) = o
          /\ Append(o, open)[Len(Append(o, open))] = open
    <3> HIDE DEF open, o
    <3> QED BY <1>2, <1>4, AppendedIs
  <2>6. Reading' /\ Mark' = open
        BY <2>2, <1>1 DEF Reading, Mark
  <2>7. Balanced'
        BY <2>1, <2>4, <2>5, <2>6, <1>3 DEF Balanced
  <2> QED BY <2>1, <2>3, <2>4, <2>5, <2>7, <1>1, <1>3 DEF Boundaries
<1>9. CASE EndTag
  <2>1. calls' = << >>
        BY <1>9 DEF EndTag, Running
  <2>2. CASE element_stack > Top.floor
    <3>1. element_stack' = element_stack - 1 /\ Hear(Completed \o <<close>>)
          BY <2>2, <1>9 DEF EndTag
    <3>2. /\ o # << >> /\ o[Len(o)] = open
          /\ Floors(frames', element_stack - 1) /\ Nested(Front(o), frames', element_stack - 1)
      <4>1. frames'[Len(frames')].floor < element_stack
            BY <2>2, <1>2, <1>3, FramesIs
      <4> QED BY <4>1, <1>2, <1>3, NestedClose
    <3>3. Nest(o, close) = Front(o)
          BY <3>2, NestIs
    <3>4. Heard(heard', Front(o), FALSE)
      <4>1. heard' = Append(h, close)
            BY <3>1, <1>6 DEF Hear
      <4> HIDE DEF close, h, o
      <4> QED BY <4>1, <3>3, <1>2, <1>4, HeardMore
    <3>5. Front(o) \in Seq(Begun)
          BY <3>2 DEF Nested
    <3> QED BY <3>1, <3>2, <3>4, <3>5, <2>1, <1>1, ThenScanning
  <2>3. CASE ~(element_stack > Top.floor)
    <3>1. Hear(Completed) /\ UNCHANGED element_stack
          BY <2>3, <1>9 DEF EndTag
    <3> QED BY <3>1, <2>1, <1>1, <1>2, <1>3, ThenScanning DEF Hear
  <2> QED BY <2>2, <2>3
<1> QED BY <1>7, <1>8, <1>9


\* A reference in content keeps the boundaries balanced.
LEMMA ReferenceBoundaries ==
    ASSUME TypeOK, Shape, Boundaries, GeneralReference
    PROVE  Boundaries'
<1> DEFINE o == Opened(heard)
           h == heard \o Completed
<1>1. /\ Running /\ Rest # << >> /\ phase' = "content" /\ phase' # "done"
      /\ content_run_open' = FALSE /\ element_stack' = element_stack
      BY ReferenceCases DEF Running
<1>2. /\ o \in Seq(Begun) /\ Floors(frames, element_stack) /\ Nested(o, frames, element_stack)
      /\ Heard(h, o, FALSE) /\ h \in Seq(Events) /\ element_stack \in Nat \ {0}
      BY <1>1, ScanningIs
<1> DEFINE f == Advanced(Tail(Rest))
<1>3. /\ f \in Seq(Frames) /\ f # << >>
      /\ Floors(f, element_stack) /\ Nested(o, f, element_stack)
      BY <1>1, <1>2, RunningIs, AdvanceNested
<1>4. PICK name \in Name, answer \in {"expand", "limit", "fatal", "skipped", "error"} :
        \/ NotExpanded(name, answer) \/ Skipped(name, answer) \/ Denied(name, answer)
        \/ Reads(name, answer)
        \/ \E text \in Seq(Item) : Scans(name, answer, text)
      BY ReferenceCases
<1> DEFINE start == <<"start", name>>
           end   == <<"end", name>>
<1>5. /\ start \in Events /\ end \in Events /\ start \in Begun
      /\ start[1] # "text" /\ end[1] # "text"
      /\ Completed \in Seq(Events) /\ heard \in Seq(Events) /\ Told(answer, name) \in Seq(Events)
      BY HearIs, BegunIs DEF TypeOK
<1>6. Nest(o, start) = Append(o, start)
      BY NestIs
<1>7. Begins(name) = Append(Completed, start)
      BY DEF Begins
<1>15. Nest(Append(o, start), end) = Front(Append(o, start))
  <2>1. Append(o, start) # << >> /\ Append(o, start)[Len(Append(o, start))] = start
    <3> HIDE DEF start, o
    <3> QED BY <1>2, <1>5, AppendedIs
  <2> QED BY <2>1, NestIs
<1> HIDE DEF start, end, o, h, f
<1>8. heard \o Begins(name) = Append(h, start)
        /\ heard \o Append(Begins(name), end) = Append(Append(h, start), end)
  <2>1. heard \o Begins(name) = Append(h, start) /\ Begins(name) \in Seq(Events)
        BY <1>5, <1>7, OneAfterAnother DEF h
  <2> QED BY <2>1, <1>5, OneAfterAnother
<1>9. Heard(Append(h, start), Append(o, start), FALSE)
      BY <1>2, <1>5, <1>6, HeardMore
<1>10. /\ Append(o, start) \in Seq(Begun) /\ Append(o, start) # << >> /\ Front(Append(o, start)) = o
       /\ Append(o, start)[Len(Append(o, start))] = start
       BY <1>2, <1>5, AppendedIs
<1>11. CASE NotExpanded(name, answer)
  <2>1. frames' = f /\ calls' = << >> /\ heard' = heard \o (Completed \o Told(answer, name))
        BY <1>11, <1>1 DEF NotExpanded, Advance, f, Running, Hear
  <2>2. Heard(heard', o, FALSE)
    <3>1. CASE answer \in {"skipped", "error"}
      <4> DEFINE e == <<answer, name>>
      <4>1. e \in Events /\ e[1] \in {"skipped", "error"} /\ Told(answer, name) = <<e>>
            BY <3>1 DEF Events, Told
      <4> HIDE DEF e
      <4>2. heard' = Append(h, e)
            BY <4>1, <2>1, <1>5, OneAfterAnother DEF h
      <4> QED BY <4>1, <4>2, <1>2, HeardMore
    <3>2. CASE answer \notin {"skipped", "error"}
      <4>1. Told(answer, name) = << >>
            BY <3>2 DEF Told
      <4>2. Completed \o << >> = Completed
            BY <1>5, OneAfterAnother
      <4> QED BY <4>1, <4>2, <2>1, <1>2 DEF h
    <3> QED BY <3>1, <3>2
  <2> QED BY <2>1, <2>2, <1>1, <1>2, <1>3, ThenScanning
<1>12. CASE Skipped(name, answer)
  <2>1. frames' = f /\ calls' = << >> /\ heard' = heard \o Append(Begins(name), end)
        BY <1>12, <1>1 DEF Skipped, Advance, f, Running, Hear, end
  <2>2. Nest(Append(o, start), end) = o
        BY <1>10, <1>15
  <2>3. Heard(heard', o, FALSE)
        BY <2>1, <2>2, <1>5, <1>8, <1>9, HeardMore
  <2> QED BY <2>1, <2>3, <1>1, <1>2, <1>3, ThenScanning
<1>13. CASE Denied(name, answer)
  <2>1. frames' = f /\ heard' = heard \o Begins(name) /\ failed' # "none"
        BY <1>13 DEF Denied, Advance, f, Hear
  <2> QED BY <2>1, <1>1, <1>3, <1>8, <1>9, <1>10, ThenFailed
<1>14. CASE Reads(name, answer)
  <2>1. frames' = f /\ heard' = heard \o Begins(name)
        BY <1>14 DEF Reads, Advance, f, Hear
  <2>2. PICK call : calls' = <<call>> /\ call.fn = "flatten" /\ call.name = name
        BY <1>14 DEF Reads, Call
  <2>3. Heard(heard', Append(o, start), FALSE)
        BY <2>1, <1>8, <1>9
  <2>4. Opened(heard') = Append(o, start)
        BY <2>3 DEF Heard
  <2>5. Reading' /\ Mark' = start
        BY <2>2, <1>1 DEF Reading, Mark, start
  <2>6. Balanced'
        BY <2>1, <2>4, <2>5, <1>1, <1>3, <1>10 DEF Balanced
  <2> QED BY <2>1, <2>3, <2>4, <2>6, <1>1, <1>3, <1>10 DEF Boundaries
<1>16. CASE \E text \in Seq(Item) : Scans(name, answer, text)
  <2>1. PICK text \in Seq(Item) : Scans(name, answer, text)
        BY <1>16
  <2>2. frames' = Entered(f, name, text) /\ calls' = << >> /\ heard' = heard \o Begins(name)
        BY <2>1, <1>1 DEF Scans, f, Running, Hear
  <2>3. Floors(frames', element_stack) /\ Nested(Append(o, start), frames', element_stack)
        BY <2>2, <1>2, <1>3, EnteredNested DEF start
  <2> QED BY <2>2, <2>3, <1>1, <1>8, <1>9, <1>10, ThenScanning
<1> QED BY <1>4, <1>11, <1>12, <1>13, <1>14, <1>16

\* A text that was read keeps the boundaries balanced.
LEMMA EnterBoundaries ==
    ASSUME TypeOK, Shape, Boundaries, EnterFlattened \/ EndOfValue
    PROVE  Boundaries'
<1> DEFINE o == Opened(heard)
<1>1. /\ calls # << >> /\ failed = "none" /\ Len(calls) = 1 /\ Current = calls[1] /\ calls' = << >>
      /\ UNCHANGED <<element_stack, content_run_open, failed>>
      BY DEF EnterFlattened, EndOfValue, In, Current, buffers
<1>2. Balanced /\ o \in Seq(Begun) /\ Floors(frames, element_stack)
        /\ element_stack \in Nat \ {0} /\ frames \in Seq(Frames) /\ frames # << >>
        /\ phase # "done" /\ phase \in {"doctype", "content", "done"}
      BY <1>1 DEF Boundaries, TypeOK, Shape
<1>3. content_run_open = FALSE
      BY <1>1 DEF Shape, TypeOK
<1>4. Heard(heard, o, FALSE)
      BY <1>3 DEF Boundaries
<1>5. CASE EnterFlattened
  <2> DEFINE name  == Current.name
             text  == Scanned(name, Current.out)
             start == <<"start", name>>
  <2>1. UNCHANGED <<heard, phase>> /\ frames' = Entered(frames, name, text) /\ Current.fn = "flatten"
        BY <1>5 DEF EnterFlattened, In
  <2>2. phase = "content"
        BY <2>1, <1>1, <1>2 DEF Shape
  <2>3. o # << >> /\ o[Len(o)] = start /\ Nested(Front(o), frames, element_stack)
        BY <2>1, <2>2, <1>1, <1>2 DEF Balanced, Reading, Mark
  <2>4. name \in Name /\ text \in Seq(Item)
    <3>1. name \in Name /\ Current.out \in Seq(Literal) \cup {NotFlat}
          BY <2>1, <1>1, CurrentIs
    <3>2. \A s \in Seq(Literal) : s \in Seq(Item)
          BY Literals
    <3>3. doc.entity[name].text \in Seq(Item)
          BY <3>1, EntityIs DEF TypeOK
    <3> QED BY <3>1, <3>2, <3>3 DEF Scanned
  <2> HIDE DEF name, text
  <2>5. Floors(frames', element_stack) /\ Nested(Append(Front(o), start), frames', element_stack)
        BY <2>1, <2>3, <2>4, <1>2, EnteredNested
  <2>6. Append(Front(o), start) = o
    <3> HIDE DEF o, start
    <3> QED BY <2>3, <1>2, AppendFront
  <2> QED BY <2>1, <2>2, <2>5, <2>6, <1>1, <1>2, <1>3, <1>4, ThenScanning
<1>6. CASE EndOfValue
  <2>1. Current.fn = "resolve" /\ Current.out \in Seq(Letter) /\ UNCHANGED frames
        BY <1>1, <1>6, CurrentIs DEF EndOfValue, In, buffers
  <2>2. CASE phase = "doctype"
    <3>1. heard' = heard /\ phase' = "content"
          BY <2>2, <1>6 DEF EndOfValue
    <3>2. Nested(o, frames, element_stack)
          BY <2>2, <1>2 DEF Balanced, Reading
    <3> QED BY <3>1, <3>2, <2>1, <1>1, <1>2, <1>3, <1>4, ThenScanning
  <2>3. CASE phase = "content"
    <3> DEFINE value == <<"attribute", Current.out>>
               close == <<"close">>
    <3>1. Hear(<<value, close>>) /\ phase' = phase
          BY <2>3, <1>6 DEF EndOfValue
    <3>2. value \in Events /\ close \in Events /\ value[1] = "attribute" /\ close[1] # "text"
            /\ heard \in Seq(Events)
          BY <2>1, HearIs DEF TypeOK
    <3>3. o # << >> /\ o[Len(o)] = <<"open">> /\ Nested(Front(o), frames, element_stack)
          BY <2>1, <2>3, <1>1, <1>2 DEF Balanced, Reading, Mark
    <3>4. Nest(o, close) = Front(o)
          BY <3>3, NestIs
    <3> HIDE DEF value, close, o
    <3>5. heard' = Append(Append(heard, value), close)
          BY <3>1, <3>2 DEF Hear
    <3>6. Heard(Append(heard, value), o, FALSE)
          BY <3>2, <1>4, HeardMore
    <3>7. Heard(heard', Front(o), FALSE)
          BY <3>2, <3>4, <3>5, <3>6, HeardMore
    <3>8. Front(o) \in Seq(Begun)
          BY <3>3 DEF Nested
    <3> QED BY <3>1, <3>3, <3>7, <3>8, <2>1, <2>3, <1>1, <1>2, <1>3, ThenScanning
  <2> QED BY <2>2, <2>3, <1>2
<1> QED BY <1>5, <1>6

\* The end of a text keeps the boundaries balanced.
LEMMA EndBoundaries ==
    ASSUME TypeOK, Shape, Boundaries, EndOfEntity \/ EndWithinReference \/ EndOfDocument
    PROVE  Boundaries'
<1> DEFINE o == Opened(heard)
           h == heard \o Completed
<1>1. Running /\ calls' = << >> /\ UNCHANGED element_stack
      BY DEF EndOfEntity, EndWithinReference, EndOfDocument, Running, buffers
<1>2. /\ o \in Seq(Begun) /\ Floors(frames, element_stack) /\ Nested(o, frames, element_stack)
      /\ Heard(heard, o, content_run_open)
      /\ Heard(h, o, FALSE) /\ h \in Seq(Events) /\ element_stack \in Nat \ {0}
      BY <1>1, ScanningIs
<1>3. CASE EndWithinReference
  <2>1. UNCHANGED <<heard, frames, content_run_open, phase>> /\ failed' = "refused"
        BY <1>3 DEF EndWithinReference, buffers
  <2> QED BY <2>1, <1>1, <1>2, ThenFailed DEF Running
<1>4. CASE EndOfDocument
  <2>1. heard' = h /\ UNCHANGED frames /\ content_run_open' = FALSE
          /\ (phase' = "done" => failed' = "none")
        BY <1>1, <1>4 DEF EndOfDocument, Hear, TagBegins, Running
  <2> QED BY <2>1, <1>1, <1>2, ThenScanning
<1>5. CASE EndOfEntity
  <2>0. UNCHANGED phase /\ phase' # "done" /\ Len(frames) > 1
        BY <1>5, <1>1 DEF EndOfEntity, Running
  <2>1. CASE element_stack # Top.floor
    <3>1. failed' = "refused" /\ UNCHANGED <<frames, content_run_open, heard>>
          BY <2>1, <1>5 DEF EndOfEntity
    <3> QED BY <3>1, <2>0, <1>1, <1>2, ThenFailed
  <2>2. CASE element_stack = Top.floor
    <3> DEFINE end == <<"end", Top.name>>
    <3>1. Hear(Append(Completed, end)) /\ frames' = Front(frames) /\ content_run_open' \in BOOLEAN
      <4>1. Top.open \in BOOLEAN
            BY FramesIs DEF Frames
      <4> QED BY <4>1, <2>2, <1>5 DEF EndOfEntity
    <3>2. /\ o # << >> /\ o[Len(o)] = <<"start", Top.name>>
          /\ Floors(Front(frames), element_stack) /\ Nested(Front(o), Front(frames), element_stack)
      <4>1. frames[Len(frames)].floor = element_stack /\ frames[Len(frames)] = Top
              /\ frames \in Seq(Frames)
            BY <2>2, FramesIs DEF Top
      <4> QED BY <4>1, <2>0, <1>2, NestedLeave
    <3>3. Top.name \in Name
      <4>1. Top \in Frames /\ Len(frames) \in 1 .. Len(frames) /\ Len(frames) # 1
            BY <2>0, FramesIs
      <4>2. Top.name # NoName
            BY <4>1 DEF Shape, FramesShape, Top
      <4> QED BY <4>1, <4>2 DEF Frames
    <3>4. end \in Events /\ end[1] # "text" /\ Completed \in Seq(Events) /\ heard \in Seq(Events)
          BY <3>3, HearIs DEF TypeOK
    <3>5. Nest(o, end) = Front(o)
          BY <3>2, NestIs
    <3> HIDE DEF end, o
    <3>6. heard' = Append(h, end)
          BY <3>1, <3>4, OneAfterAnother DEF Hear
    <3>7. Heard(heard', Front(o), FALSE)
      <4> HIDE DEF h
      <4> QED BY <3>4, <3>5, <3>6, <1>2, HeardMore
    <3>8. Heard(heard', Front(o), content_run_open')
          BY <3>1, <3>7 DEF Heard
    <3>9. Front(o) \in Seq(Begun)
          BY <3>2 DEF Nested
    <3> QED BY <3>1, <3>2, <3>8, <3>9, <2>0, <1>1, ThenScanning
  <2> QED BY <2>1, <2>2
<1> QED BY <1>3, <1>4, <1>5

\* A document begins: nothing is open.
LEMMA BeginBoundaries ==
    ASSUME NEW d, Legal(d)
    PROVE  LET begin == <<Frame(NoName, d.content, 1)>>
           IN  /\ Floors(begin, 1) /\ Nested(<< >>, begin, 1)
               /\ Heard(<< >>, << >>, FALSE) /\ << >> \in Seq(Begun)
<1> DEFINE frame == Frame(NoName, d.content, 1)
           begin == <<frame>>
<1>1. frame.floor = 1
      BY DEF Frame
<1> HIDE DEF frame
<1>2. Len(begin) = 1 /\ begin[1] = frame
      OBVIOUS
<1> HIDE DEF begin
<1>3. Floors(begin, 1)
      BY <1>1, <1>2 DEF Floors
<1>4. << >> \in Seq(Begun) /\ Len(<< >>) = 0
      BY EmptySeq
<1>5. Nested(<< >>, begin, 1)
      BY <1>2, <1>4 DEF Nested
<1>6. Heard(<< >>, << >>, FALSE)
  <2>1. << >> \in Seq(Events) /\ Proper(<< >>) /\ ~RunIsOpen(<< >>)
        BY <1>4, Empty DEF Proper, RunIsOpen
  <2> QED BY <2>1, OpenedNothing DEF Heard
<1> QED BY <1>3, <1>4, <1>5, <1>6 DEF begin, frame

\* A reset keeps the boundaries balanced.
LEMMA ResetBoundaries ==
    ASSUME TypeOK, Reset
    PROVE  Boundaries'
<1>1. PICK d \in Others : frames' = <<Frame(NoName, d.content, 1)>>
      BY DEF Reset
<1>2. calls' = << >> /\ phase' = "doctype" /\ element_stack' = 1
        /\ content_run_open' = FALSE /\ heard' = << >> /\ failed' = "none"
      BY DEF Reset
<1>3. /\ Floors(frames', 1) /\ Nested(<< >>, frames', 1)
      /\ Heard(<< >>, << >>, FALSE) /\ << >> \in Seq(Begun)
      BY <1>1, DocumentsAssumption, BeginBoundaries
<1> QED BY <1>2, <1>3, ThenScanning

\* The beginning keeps the boundaries balanced.
LEMMA InitBoundaries == Init => Boundaries
<1> SUFFICES ASSUME Init PROVE Boundaries
    OBVIOUS
<1>1. PICK d : Fresh(d) /\ Legal(d)
      BY DocumentsAssumption DEF Init
<1>2. calls = << >> /\ phase = "doctype" /\ element_stack = 1 /\ failed = "none"
        /\ content_run_open = FALSE /\ heard = << >> /\ frames = <<Frame(NoName, d.content, 1)>>
      BY <1>1 DEF Fresh
<1>3. /\ Floors(frames, 1) /\ Nested(<< >>, frames, 1)
      /\ Heard(<< >>, << >>, FALSE) /\ << >> \in Seq(Begun) /\ Opened(<< >>) = << >>
      BY <1>1, <1>2, BeginBoundaries, OpenedNothing
<1>4. Balanced
      BY <1>2, <1>3 DEF Balanced, Reading
<1> QED BY <1>2, <1>3, <1>4 DEF Boundaries

\* Every step keeps the boundaries balanced.
LEMMA NextBoundaries ==
    ASSUME TypeOK, Shape, Boundaries, [Next]_vars
    PROVE  Boundaries'
<1>1. CASE UNCHANGED vars
      BY <1>1 DEF vars, buffers, Boundaries, Balanced, Reading, Mark
<1>2. CASE EndOfDoctype
  <2>1. UNCHANGED <<heard, frames, element_stack, content_run_open, phase, failed>>
          /\ phase = "doctype" /\ failed = "none"
        BY <1>2 DEF EndOfDoctype, buffers
  <2>2. ~Reading /\ ~Reading'
        BY <2>1 DEF Reading
  <2> QED BY <2>1, <2>2 DEF Boundaries, Balanced
<1> QED BY <1>1, <1>2, ReadingBoundaries, ScanningBoundaries, TagBoundaries, ReferenceBoundaries,
           EnterBoundaries, EndBoundaries, ResetBoundaries DEF Next

\* Elements and boundaries of entities are balanced for the application, runs
\* of characters are completed, and nothing is left open.
THEOREM EntitiesNest == Spec => []BoundariesNest
<1>1. TypeOK /\ Shape /\ Distinct /\ Boundaries => BoundariesNest
  <2> SUFFICES ASSUME TypeOK, Shape, Distinct, Boundaries PROVE BoundariesNest
      OBVIOUS
  <2>1. NoRecursion
        BY DistinctIs
  <2>2. <<"wrong">> \notin Range(Opened(heard))
    <3>1. Opened(heard) \in Seq(Begun)
          BY DEF Boundaries
    <3>2. \A x \in Range(Opened(heard)) : x \in Begun
          BY <3>1 DEF Range
    <3> QED BY <3>2, BegunIs
  <2>3. phase = "done" => Opened(heard) = << >>
    <3> SUFFICES ASSUME phase = "done" PROVE Opened(heard) = << >>
        OBVIOUS
    <3>1. calls = << >> /\ Len(frames) = 1 /\ element_stack = 1 /\ failed = "none"
          BY DEF Shape, Boundaries
    <3>2. Nested(Opened(heard), frames, element_stack)
          BY <3>1 DEF Boundaries, Balanced, Reading
    <3>3. Opened(heard) \in Seq(Begun) /\ Len(Opened(heard)) = 0
          BY <3>1, <3>2 DEF Nested
    <3> QED BY <3>3
  <2>4. \A i \in DOMAIN frames : frames[i].floor \in 1 .. element_stack
    <3>1. \A i \in 1 .. Len(frames) : frames[i] \in Frames
          BY DEF TypeOK
    <3>2. \A i \in 1 .. Len(frames) : frames[i].floor <= element_stack
          BY DEF Boundaries, Floors
    <3>3. DOMAIN frames = 1 .. Len(frames) /\ element_stack \in Nat
          BY DEF TypeOK
    <3> QED BY <3>1, <3>2, <3>3 DEF Frames
  <2>5. Proper(heard)
        BY DEF Boundaries, Heard
  <2> QED BY <2>1, <2>2, <2>3, <2>4, <2>5 DEF BoundariesNest, Proper
<1>2. TypeOK /\ Shape /\ Distinct /\ Boundaries /\ [Next]_vars
        => (TypeOK /\ Shape /\ Distinct /\ Boundaries)'
      BY NextTypes, NextDistinct, NextBoundaries
<1> QED BY <1>1, <1>2, InitTypes, InitDistinct, InitBoundaries, PTL DEF Spec

-----------------------------------------------------------------------------
(* What the limit counts                                                   *)

\* What is counted of what is heard.
Starts(events) == Cardinality(Expansions(events))
Given(events)  == Cardinality(Values(events))
Clear(events)  == \A i \in DOMAIN events : events[i][1] \notin {"error", "skipped"}

\* There is nothing to count in nothing.
LEMMA CountNothing == Starts(<< >>) = 0 /\ Given(<< >>) = 0
<1>1. Expansions(<< >>) = {} /\ Values(<< >>) = {}
      BY DEF Expansions, Values
<1> QED BY <1>1, FS_EmptySet DEF Starts, Given

\* The counts are numbers.
LEMMA Counts ==
    ASSUME NEW h \in Seq(Events)
    PROVE  /\ IsFiniteSet(Expansions(h)) /\ IsFiniteSet(Values(h))
           /\ Starts(h) \in Nat /\ Given(h) \in Nat
<1>1. Len(h) \in Nat /\ DOMAIN h = 1 .. Len(h)
      OBVIOUS
<1>2. IsFiniteSet(1 .. Len(h))
      BY <1>1, FS_Interval
<1>3. Expansions(h) \subseteq 1 .. Len(h) /\ Values(h) \subseteq 1 .. Len(h)
      BY <1>1 DEF Expansions, Values
<1>4. IsFiniteSet(Expansions(h)) /\ IsFiniteSet(Values(h))
      BY <1>2, <1>3, FS_Subset
<1> QED BY <1>4, FS_CardinalityType DEF Starts, Given

\* One event more.
LEMMA CountOne ==
    ASSUME NEW h \in Seq(Events), NEW e \in Events
    PROVE  /\ Append(h, e) \in Seq(Events)
           /\ Starts(Append(h, e)) = IF e[1] = "start" THEN Starts(h) + 1 ELSE Starts(h)
           /\ Given(Append(h, e)) = IF e[1] = "attribute" THEN Given(h) + 1 ELSE Given(h)
           /\ Clear(Append(h, e)) <=> Clear(h) /\ e[1] \notin {"error", "skipped"}
<1> DEFINE n   == Len(h)
           new == Append(h, e)
<1>1. /\ n \in Nat /\ new \in Seq(Events) /\ DOMAIN h = 1 .. n /\ DOMAIN new = 1 .. n + 1
      /\ new[n + 1] = e /\ \A i \in 1 .. n : new[i] = h[i]
      OBVIOUS
<1> HIDE DEF n, new
<1>2. Expansions(new) = IF e[1] = "start" THEN Expansions(h) \cup {n + 1} ELSE Expansions(h)
  <2>1. \A i \in 1 .. n + 1 : i = n + 1 \/ i \in 1 .. n
        BY <1>1
  <2>2. \A i \in 1 .. n : i \in 1 .. n + 1
        BY <1>1
  <2>3. n + 1 \in 1 .. n + 1
        BY <1>1
  <2> QED BY <2>1, <2>2, <2>3, <1>1 DEF Expansions
<1>3. Values(new) = IF e[1] = "attribute" THEN Values(h) \cup {n + 1} ELSE Values(h)
  <2>1. \A i \in 1 .. n + 1 : i = n + 1 \/ i \in 1 .. n
        BY <1>1
  <2>2. \A i \in 1 .. n : i \in 1 .. n + 1
        BY <1>1
  <2>3. n + 1 \in 1 .. n + 1
        BY <1>1
  <2> QED BY <2>1, <2>2, <2>3, <1>1 DEF Values
<1>4. n + 1 \notin Expansions(h) /\ n + 1 \notin Values(h)
      BY <1>1 DEF Expansions, Values
<1>5. Starts(new) = IF e[1] = "start" THEN Starts(h) + 1 ELSE Starts(h)
      BY <1>2, <1>4, Counts, FS_AddElement DEF Starts
<1>6. Given(new) = IF e[1] = "attribute" THEN Given(h) + 1 ELSE Given(h)
      BY <1>3, <1>4, Counts, FS_AddElement DEF Given
<1>7. Clear(new) <=> Clear(h) /\ e[1] \notin {"error", "skipped"}
  <2>1. \A i \in 1 .. n + 1 : i = n + 1 \/ i \in 1 .. n
        BY <1>1
  <2>2. \A i \in 1 .. n : i \in 1 .. n + 1
        BY <1>1
  <2>3. n + 1 \in 1 .. n + 1
        BY <1>1
  <2> QED BY <2>1, <2>2, <2>3, <1>1 DEF Clear
<1> QED BY <1>1, <1>5, <1>6, <1>7 DEF new

\* The completion of a run counts for nothing.
LEMMA CountCompleted ==
    ASSUME TypeOK
    PROVE  /\ heard \o Completed \in Seq(Events) /\ heard \in Seq(Events)
           /\ Starts(heard \o Completed) = Starts(heard)
           /\ Given(heard \o Completed) = Given(heard)
           /\ Clear(heard \o Completed) <=> Clear(heard)
<1>1. heard \in Seq(Events) /\ content_run_open \in BOOLEAN
      BY DEF TypeOK
<1>2. CASE content_run_open
  <2> DEFINE e == Text(<< >>, TRUE)
  <2>1. e \in Events /\ e[1] = "text"
        BY Empty, HearIs DEF Text
  <2>2. Completed = <<e>>
        BY <1>2 DEF Completed
  <2> HIDE DEF e
  <2>3. heard \o Completed = Append(heard, e)
        BY <2>1, <2>2, <1>1
  <2> QED BY <2>1, <2>3, <1>1, CountOne
<1>3. CASE ~content_run_open
  <2>1. heard \o Completed = heard
        BY <1>1, <1>3 DEF Completed
  <2> QED BY <2>1, <1>1
<1> QED BY <1>1, <1>2, <1>3

\* A value in a tag is read, and its reference has been expanded.
Outer == Reading /\ calls[1].fn = "resolve"
Due   == IF Outer /\ calls[1].rest = << >> THEN 1 ELSE 0

\* What has been expanded.
Spent == IF failed = "limit" THEN entity_expansion_count - 1 ELSE entity_expansion_count

OneReference(text) == text = << >> \/ \E n \in Name : text = <<Reference(n)>>

Limited ==
    /\ Spent \in Nat /\ (doc.limit > 0 => Spent <= doc.limit)
    /\ Starts(heard) <= Spent
    /\ doc.default = << >> /\ Clear(heard) => Starts(heard) + Given(heard) + Due <= Spent
    /\ Outer => OneReference(calls[1].rest)

\* What a step spends.
LEMMA StepLimited ==
    ASSUME TypeOK, Limited, TypeOK', UNCHANGED doc, NEW k \in {0, 1}, Spent' = Spent + k,
           k = 1 => (doc.limit > 0 => Spent + 1 <= doc.limit),
           Starts(heard') <= Starts(heard) + k,
           doc.default = << >> /\ Clear(heard') =>
             /\ Clear(heard)
             /\ Starts(heard') + Given(heard') + Due' <= Starts(heard) + Given(heard) + Due + k,
           Outer' => OneReference(calls'[1].rest)
    PROVE  Limited'
<1>1. /\ Starts(heard) \in Nat /\ Given(heard) \in Nat /\ Starts(heard') \in Nat
      /\ Given(heard') \in Nat /\ Due \in Nat /\ Due' \in Nat /\ doc.limit \in Nat
      BY Counts DEF TypeOK, Due, Legal
<1>2. Spent' \in Nat /\ (doc.limit > 0 => Spent' <= doc.limit)
      BY <1>1 DEF Limited
<1>3. Starts(heard') <= Spent'
      BY <1>1 DEF Limited
<1>4. doc.default = << >> /\ Clear(heard') => Starts(heard') + Given(heard') + Due' <= Spent'
      BY <1>1 DEF Limited
<1>5. doc'.limit = doc.limit /\ doc'.default = doc.default
      OBVIOUS
<1> QED BY <1>2, <1>3, <1>4, <1>5 DEF Limited

\* What an answer costs.
LEMMA AnswerCosts ==
    ASSUME TypeOK, Limited, NEW name \in Name, NEW allow \in BOOLEAN, NEW answer,
           answer = Answer(name, allow), Checked(answer), failed = "none"
    PROVE  /\ Spent' = IF answer = "expand" THEN Spent + 1 ELSE Spent
           /\ answer = "expand" => (doc.limit > 0 => Spent + 1 <= doc.limit)
           /\ failed' = "none" <=> answer \notin {"fatal", "limit"}
<1>1. /\ answer \in {"expand", "limit", "fatal", "skipped", "error"}
      /\ answer = "expand" => ~OverLimit
      BY Answers DEF TypeOK
<1>2. entity_expansion_count \in Nat /\ doc.limit \in Nat
      BY DEF TypeOK, Legal
<1>3. /\ failed' = "none" <=> answer \notin {"fatal", "limit"}
      /\ failed' = "limit" <=> answer = "limit"
      /\ answer \in {"expand", "limit"} => entity_expansion_count' = entity_expansion_count + 1
      /\ answer \notin {"expand", "limit"} => entity_expansion_count' = entity_expansion_count
      BY <1>1, <1>2, CheckedIs
<1>4. Spent = entity_expansion_count
      BY DEF Spent
<1>5. answer = "expand" => (doc.limit > 0 => Spent + 1 <= doc.limit)
      BY <1>1, <1>2, <1>4 DEF OverLimit
<1>6. Spent' = IF answer = "expand" THEN Spent + 1 ELSE Spent
      BY <1>1, <1>2, <1>3, <1>4 DEF Spent
<1> QED BY <1>3, <1>5, <1>6

\* What is not refused for the limit costs what it counts.
LEMMA SpentIs ==
    ASSUME TypeOK, failed # "limit", failed' # "limit", NEW k \in {0, 1},
           entity_expansion_count' = entity_expansion_count + k
    PROVE  Spent' = Spent + k
BY DEF Spent

\* A step that expands nothing, and in which no value in a tag is read or given.
LEMMA NothingSpent ==
    ASSUME TypeOK, Limited, TypeOK', UNCHANGED <<doc, entity_expansion_count>>,
           failed # "limit", failed' # "limit", Starts(heard') = Starts(heard),
           doc.default = << >> /\ Clear(heard') => Clear(heard) /\ Given(heard') = Given(heard),
           ~Outer'
    PROVE  Limited'
<1>1. Spent' = Spent + 0
      BY SpentIs DEF TypeOK
<1>2. Due' = 0
      BY DEF Due
<1>3. /\ Starts(heard) \in Nat /\ Given(heard) \in Nat /\ Due \in Nat
      BY Counts DEF TypeOK, Due
<1>4. /\ UNCHANGED doc /\ Starts(heard') <= Starts(heard) + 0
      /\ doc.default = << >> /\ Clear(heard') =>
            /\ Clear(heard)
            /\ Starts(heard') + Given(heard') + Due' <= Starts(heard) + Given(heard) + Due + 0
      BY <1>2, <1>3
<1> QED BY <1>1, <1>4, StepLimited

\* The value in a tag is one reference; what is read of it is its end.
LEMMA OuterReads ==
    ASSUME TypeOK, Limited, calls # << >>, calls' # << >>, UNCHANGED phase,
           calls'[1].fn = calls[1].fn,
           \/ calls'[1].rest = calls[1].rest
           \/ calls'[1].rest = Tail(calls[1].rest) /\ calls[1].rest # << >>
    PROVE  /\ Outer' <=> Outer
           /\ Outer' => OneReference(calls'[1].rest)
           /\ calls'[1].rest = calls[1].rest \/ ~Outer => Due' = Due
<1>1. Outer' <=> Outer
      BY DEF Outer, Reading
<1>2. ASSUME Outer
      PROVE  OneReference(calls'[1].rest)
  <2>1. OneReference(calls[1].rest)
        BY <1>2 DEF Limited
  <2>2. CASE calls'[1].rest = calls[1].rest
        BY <2>1, <2>2
  <2>3. CASE calls'[1].rest = Tail(calls[1].rest) /\ calls[1].rest # << >>
    <3>1. PICK n \in Name : calls[1].rest = <<Reference(n)>>
          BY <2>1, <2>3 DEF OneReference
    <3> DEFINE piece == Reference(n)
    <3> HIDE DEF piece
    <3>2. Tail(<<piece>>) = << >>
          OBVIOUS
    <3>3. calls'[1].rest = << >>
          BY <3>1, <3>2, <2>3 DEF piece
    <3> QED BY <3>3 DEF OneReference
  <2> QED BY <2>2, <2>3
<1> QED BY <1>1, <1>2 DEF Due

\* The innermost call reads, and what there is of the outermost.
LEMMA FirstRead ==
    ASSUME TypeOK, Shape, calls # << >>, More, NEW out, Fits(Current.fn, out), calls' = HasRead(out)
    PROVE  /\ calls' # << >> /\ calls'[1].fn = calls[1].fn
           /\ \/ Len(calls) > 1 /\ calls'[1].rest = calls[1].rest
              \/ Len(calls) = 1 /\ calls'[1].rest = Tail(calls[1].rest) /\ calls[1].rest # << >>
<1>1. CallsShape(calls) /\ Len(calls) \in Nat /\ Len(calls) >= 1
      BY CurrentIs DEF Shape
<1>2. /\ calls' # << >> /\ calls'[1].fn = calls[1].fn
      /\ \A i \in 1 .. Len(calls) - 1 : calls'[i] = calls[i]
      /\ calls'[Len(calls)].rest = Tail(Current.rest)
      BY <1>1, OnePieceRead
<1>3. Current.rest # << >>
      BY DEF More
<1>4. CASE Len(calls) > 1
      BY <1>1, <1>2, <1>4
<1>5. CASE Len(calls) = 1
      BY <1>2, <1>3, <1>5 DEF Current
<1>6. Len(calls) > 1 \/ Len(calls) = 1
  <2> DEFINE n == Len(calls)
  <2>1. n \in Nat /\ n >= 1
        BY <1>1
  <2> HIDE DEF n
  <2>2. n > 1 \/ n = 1
        BY <2>1
  <2> QED BY <2>2 DEF n
<1> QED BY <1>2, <1>4, <1>5, <1>6

\* The outermost call, when another is made.
LEMMA FirstCalls ==
    ASSUME TypeOK, Shape, calls # << >>, More, NEW name \in Name, NEW text \in Seq(Item),
           calls' = Calling(name, text)
    PROVE  /\ calls' # << >> /\ calls'[1].fn = calls[1].fn
           /\ \/ calls'[1].rest = calls[1].rest
              \/ calls'[1].rest = Tail(calls[1].rest) /\ calls[1].rest # << >>
<1>1. CallsShape(calls) /\ Len(calls) \in Nat /\ Len(calls) >= 1
      BY CurrentIs DEF Shape
<1>2. /\ calls' # << >> /\ calls'[1].fn = calls[1].fn
      /\ \A i \in 1 .. Len(calls) - 1 : calls'[i] = calls[i]
      /\ calls'[Len(calls)].rest = Tail(Current.rest)
      BY <1>1, OneMoreCall
<1>3. Current.rest # << >>
      BY DEF More
<1>4. CASE Len(calls) > 1
      BY <1>1, <1>2, <1>4
<1>5. CASE Len(calls) = 1
      BY <1>2, <1>3, <1>5 DEF Current
<1>6. Len(calls) > 1 \/ Len(calls) = 1
  <2> DEFINE n == Len(calls)
  <2>1. n \in Nat /\ n >= 1
        BY <1>1
  <2> HIDE DEF n
  <2>2. n > 1 \/ n = 1
        BY <2>1
  <2> QED BY <2>2 DEF n
<1> QED BY <1>2, <1>4, <1>5, <1>6

\* What is told of a reference is nothing that is counted.
LEMMA ToldIs ==
    ASSUME TypeOK, NEW answer \in {"expand", "limit", "fatal", "skipped", "error"}, NEW name \in Name,
           NEW h \in Seq(Events)
    PROVE  /\ h \o Told(answer, name) \in Seq(Events)
           /\ Starts(h \o Told(answer, name)) = Starts(h)
           /\ Given(h \o Told(answer, name)) = Given(h)
           /\ Clear(h \o Told(answer, name)) <=> Clear(h) /\ answer \notin {"skipped", "error"}
<1>1. CASE answer \in {"skipped", "error"}
  <2> DEFINE e == <<answer, name>>
  <2>1. e \in Events /\ e[1] \in {"error", "skipped"}
        BY <1>1 DEF Events
  <2>2. Told(answer, name) = <<e>>
        BY <1>1 DEF Told
  <2> HIDE DEF e
  <2>3. h \o Told(answer, name) = Append(h, e)
        BY <2>1, <2>2
  <2> QED BY <2>1, <2>3, <1>1, CountOne
<1>2. CASE answer \notin {"skipped", "error"}
  <2>1. h \o Told(answer, name) = h
        BY <1>2 DEF Told
  <2> QED BY <2>1, <1>2
<1> QED BY <1>1, <1>2

\* A reference in a text that is read in one go.
LEMMA ReadsLimited ==
    ASSUME TypeOK, Limited, TypeOK', calls # << >>, failed = "none", UNCHANGED <<doc, phase>>,
           NEW name \in Name, NEW allow \in BOOLEAN,
           NEW answer \in {"expand", "limit", "fatal", "skipped", "error"},
           answer = Answer(name, allow), Checked(answer), Hear(Told(answer, name)),
           answer \in {"fatal", "limit"} => calls' = << >>,
           answer \notin {"fatal", "limit"} =>
             /\ calls' # << >> /\ calls'[1].fn = calls[1].fn
             /\ \/ calls'[1].rest = calls[1].rest
                \/ calls'[1].rest = Tail(calls[1].rest) /\ calls[1].rest # << >>
    PROVE  Limited'
<1> DEFINE k == IF answer = "expand" THEN 1 ELSE 0
<1>1. k \in {0, 1} /\ Spent \in Nat
      BY DEF Limited
<1>2. Spent' = Spent + k /\ (k = 1 => (doc.limit > 0 => Spent + 1 <= doc.limit))
      BY <1>1, AnswerCosts
<1>3. /\ Starts(heard') = Starts(heard) /\ Given(heard') = Given(heard)
      /\ Clear(heard') <=> Clear(heard) /\ answer \notin {"skipped", "error"}
  <2>1. heard \in Seq(Events) /\ heard' = heard \o Told(answer, name)
        BY DEF Hear, TypeOK
  <2> QED BY <2>1, ToldIs
<1>4. /\ Starts(heard) \in Nat /\ Given(heard) \in Nat /\ Due \in Nat
      BY Counts DEF TypeOK, Due
<1>5. Outer' => OneReference(calls'[1].rest)
  <2>1. CASE answer \in {"fatal", "limit"}
        BY <2>1 DEF Outer, Reading
  <2>2. CASE answer \notin {"fatal", "limit"}
        BY <2>2, OuterReads
  <2> QED BY <2>1, <2>2
<1>6. answer \notin {"skipped", "error"} => Due' <= Due + k
  <2>1. CASE answer \in {"fatal", "limit"}
    <3>1. Due' = 0
          BY <2>1 DEF Due, Outer, Reading
    <3> QED BY <3>1, <1>4
  <2>2. CASE answer = "expand"
    <3>1. Due' \in {0, 1}
          BY DEF Due
    <3> QED BY <3>1, <2>2, <1>4
  <2> QED BY <2>1, <2>2
<1>7. Starts(heard') <= Starts(heard) + k
      BY <1>1, <1>3, <1>4
<1>8. Due' \in Nat
      BY DEF Due
<1>9. doc.default = << >> /\ Clear(heard') =>
        /\ Clear(heard)
        /\ Starts(heard') + Given(heard') + Due' <= Starts(heard) + Given(heard) + Due + k
      BY <1>1, <1>3, <1>4, <1>6, <1>8
<1> HIDE DEF k
<1> QED BY <1>1, <1>2, <1>5, <1>7, <1>9, StepLimited

\* The functions that read a text in one go.
LEMMA ReadingLimited ==
    ASSUME TypeOK, Shape, Limited, TypeOK',
           \/ FlattenCharacter \/ FlattenOther \/ FlattenReference \/ FlattenReturn
           \/ ResolveCharacter \/ ResolveOther \/ ResolveReference \/ ResolveReturn
    PROVE  Limited'
<1>0. /\ calls # << >> /\ failed = "none"
      /\ UNCHANGED <<doc, phase, buffers, default_value, resets>>
      BY ReadingSteps
<1>1. CASE FlattenReference
  <2>1. More
        BY <1>1, FlattenReferenceCases
  <2>2. PICK name \in Name, answer \in {"expand", "limit", "fatal", "skipped", "error"} :
                /\ answer = Answer(name, TRUE)
                /\ Checked(answer) /\ Hear(Told(answer, name))
                /\ \/ /\ answer \in {"fatal", "limit"} /\ calls' = << >>
                   \/ /\ answer \in {"skipped", "error"} /\ calls' = HasRead(NotFlat)
                      /\ Fits(Current.fn, NotFlat)
                   \/ /\ answer = "expand"
                      /\ calls' = Calling(name, doc.entity[name].text)
                   \/ /\ answer = "expand"
                      /\ calls' = HasRead(Joined(Current.out, Flat(name)))
                      /\ Fits(Current.fn, Joined(Current.out, Flat(name)))
        BY <1>1, FlattenReferenceCases
  <2>3. doc.entity[name].text \in Seq(Item)
        BY EntityIs DEF TypeOK
  <2>4. answer \in {"fatal", "limit"} => calls' = << >>
        BY <2>2
  <2>5. answer \notin {"fatal", "limit"} =>
          /\ calls' # << >> /\ calls'[1].fn = calls[1].fn
          /\ \/ calls'[1].rest = calls[1].rest
             \/ calls'[1].rest = Tail(calls[1].rest) /\ calls[1].rest # << >>
        BY <2>1, <2>2, <2>3, <1>0, FirstRead, FirstCalls
  <2>6. answer = Answer(name, TRUE) /\ Checked(answer) /\ Hear(Told(answer, name))
        BY <2>2
  <2> QED BY <2>4, <2>5, <2>6, <1>0, ReadsLimited
<1>2. CASE ResolveReference
  <2>1. More
        BY <1>2, ResolveReferenceCases
  <2>2. PICK name \in Name, answer \in {"expand", "limit", "fatal", "skipped", "error"} :
                /\ answer = Answer(name, FALSE)
                /\ Checked(answer) /\ Hear(Told(answer, name))
                /\ \/ answer \in {"fatal", "limit"} /\ calls' = << >>
                   \/ /\ answer \in {"skipped", "error"} /\ calls' = HasRead(Current.out)
                      /\ Fits(Current.fn, Current.out)
                   \/ /\ answer = "expand"
                      /\ calls' = Calling(name, doc.entity[name].text)
                   \/ /\ answer = "expand"
                      /\ calls' = HasRead(Current.out \o attribute_entity_cache[name])
                      /\ Fits(Current.fn, Current.out \o attribute_entity_cache[name])
        BY <1>2, ResolveReferenceCases
  <2>3. doc.entity[name].text \in Seq(Item)
        BY EntityIs DEF TypeOK
  <2>4. answer \in {"fatal", "limit"} => calls' = << >>
        BY <2>2
  <2>5. answer \notin {"fatal", "limit"} =>
          /\ calls' # << >> /\ calls'[1].fn = calls[1].fn
          /\ \/ calls'[1].rest = calls[1].rest
             \/ calls'[1].rest = Tail(calls[1].rest) /\ calls[1].rest # << >>
        BY <2>1, <2>2, <2>3, <1>0, FirstRead, FirstCalls
  <2>6. answer = Answer(name, FALSE) /\ Checked(answer) /\ Hear(Told(answer, name))
        BY <2>2
  <2> QED BY <2>4, <2>5, <2>6, <1>0, ReadsLimited
<1>3. ASSUME UNCHANGED <<entity_expansion_count, heard, failed>>, calls' # << >>,
             Due' = Due, Outer' => OneReference(calls'[1].rest)
      PROVE  Limited'
  <2>1. Spent' = Spent + 0
        BY <1>0, <1>3, SpentIs DEF TypeOK
  <2>2. /\ Starts(heard) \in Nat /\ Given(heard) \in Nat /\ Due \in Nat
        BY Counts DEF TypeOK, Due
  <2>3. /\ UNCHANGED doc /\ Starts(heard') <= Starts(heard) + 0
        /\ doc.default = << >> /\ Clear(heard') =>
              /\ Clear(heard)
              /\ Starts(heard') + Given(heard') + Due' <= Starts(heard) + Given(heard) + Due + 0
        BY <2>2, <1>0, <1>3
  <2> QED BY <2>1, <2>3, <1>3, StepLimited
<1>4. CASE FlattenReturn \/ ResolveReturn
  <2>1. Len(calls) > 1 /\ Return /\ UNCHANGED <<entity_expansion_count, heard, failed>>
        BY <1>4 DEF FlattenReturn, ResolveReturn
  <2>2. Len(calls) \in Nat /\ 1 \in 1 .. Len(calls) - 1
        BY <2>1, CurrentIs, <1>0
  <2>3. calls' # << >> /\ calls'[1].fn = calls[1].fn /\ calls'[1].rest = calls[1].rest
        BY <2>1, <2>2, ReturnIs
  <2> QED BY <2>1, <2>3, <1>0, <1>3, OuterReads
<1>5. CASE FlattenCharacter \/ FlattenOther
  <2> DEFINE out == IF FlattenCharacter THEN Append(Current.out, Piece) ELSE NotFlat
  <2>1. /\ More /\ Current.fn = "flatten" /\ calls' = HasRead(out)
        /\ UNCHANGED <<entity_expansion_count, heard, failed>>
        BY <1>5 DEF FlattenCharacter, FlattenOther, In, caches
  <2>2. Fits(Current.fn, out)
        BY <2>1, CharacterFits DEF Fits
  <2> HIDE DEF out
  <2>3. /\ calls' # << >> /\ calls'[1].fn = calls[1].fn
        /\ \/ calls'[1].rest = calls[1].rest
           \/ calls'[1].rest = Tail(calls[1].rest) /\ calls[1].rest # << >>
        BY <2>1, <2>2, <1>0, FirstRead
  <2>4. calls[1].fn = "flatten"
    <3>1. Len(calls) \in Nat /\ Len(calls) >= 1 /\ CallsShape(calls)
          BY <1>0, CurrentIs DEF Shape
    <3>2. Len(calls) \in 1 .. Len(calls)
          BY <3>1
    <3> QED BY <3>1, <3>2, <2>1 DEF CallsShape, Current
  <2>5. ~Outer
        BY <2>4 DEF Outer
  <2> QED BY <2>1, <2>3, <2>5, <1>0, <1>3, OuterReads
<1>6. CASE ResolveCharacter
  <2> DEFINE out == Append(Current.out, Char(Piece.of))
  <2>1. /\ More /\ Current.fn = "resolve" /\ calls' = HasRead(out) /\ Piece.is \in {"text", "predefined"}
        /\ UNCHANGED <<entity_expansion_count, heard, failed>>
        BY <1>6 DEF ResolveCharacter, In, caches
  <2>2. Fits(Current.fn, out)
        BY <1>6, CharacterFits
  <2> HIDE DEF out
  <2>3. /\ calls' # << >> /\ calls'[1].fn = calls[1].fn
        /\ \/ Len(calls) > 1 /\ calls'[1].rest = calls[1].rest
           \/ Len(calls) = 1 /\ calls'[1].rest = Tail(calls[1].rest) /\ calls[1].rest # << >>
        BY <2>1, <2>2, <1>0, FirstRead
  <2>4. calls'[1].rest = calls[1].rest \/ ~Outer
    <3> SUFFICES ASSUME Outer, Len(calls) = 1, calls[1].rest # << >> PROVE FALSE
        BY <2>3
    <3>1. PICK n \in Name : calls[1].rest = <<Reference(n)>>
          BY DEF Limited, OneReference
    <3>2. Piece = Reference(n)
          BY <3>1 DEF Piece, Current
    <3> QED BY <3>2, <2>1 DEF Reference
  <2>5. Due' = Due /\ (Outer' => OneReference(calls'[1].rest))
        BY <2>3, <2>4, <1>0, OuterReads
  <2> QED BY <2>1, <2>3, <2>5, <1>3
<1>7. CASE ResolveOther
  <2>1. failed' = "refused" /\ calls' = << >> /\ UNCHANGED <<entity_expansion_count, heard>>
        BY <1>7 DEF ResolveOther, caches
  <2>2. ~Outer'
        BY <2>1 DEF Outer, Reading
  <2> QED BY <2>1, <2>2, <1>0, NothingSpent
<1> QED BY <1>1, <1>2, <1>4, <1>5, <1>6, <1>7, ReadingSteps

\* Nothing that is counted by what is scanned, ...
LEMMA ScanningLimited ==
    ASSUME TypeOK, Shape, Limited, TypeOK',
           Characters \/ Decoded \/ EndTag \/ EndWithinReference \/ EndOfDocument
    PROVE  Limited'
<1>1. /\ failed = "none" /\ failed' # "limit" /\ calls' = << >>
      /\ UNCHANGED <<doc, entity_expansion_count>>
      BY DEF Characters, Decoded, EndTag, EndWithinReference, EndOfDocument, Running, caches
<1>2. heard \in Seq(Events)
      BY DEF TypeOK
<1>3. /\ Starts(heard') = Starts(heard) /\ Given(heard') = Given(heard)
      /\ Clear(heard') => Clear(heard)
  <2>1. ASSUME NEW run \in Seq(Letter), NEW end \in BOOLEAN, Hear(<<Text(run, end)>>)
        PROVE  /\ Starts(heard') = Starts(heard) /\ Given(heard') = Given(heard)
               /\ Clear(heard') => Clear(heard)
    <3> DEFINE e == Text(run, end)
    <3>1. e \in Events /\ e[1] = "text"
          BY DEF Text, Events
    <3> HIDE DEF e
    <3>2. heard' = Append(heard, e)
          BY <3>1, <2>1, <1>2, OneAfterAnother DEF Hear, e
    <3> QED BY <3>1, <3>2, <1>2, CountOne
  <2>2. CASE Characters
    <3> DEFINE run  == SubSeq(Rest, 1, AfterRun(Rest) - 1)
               rest == SubSeq(Rest, AfterRun(Rest), Len(Rest))
    <3>1. run \in Seq(Letter)
          BY <2>2, RunningIs, RunIs DEF Characters
    <3>2. AtMarkup(rest) \in BOOLEAN
          BY AtMarkupIs
    <3> HIDE DEF run, rest
    <3>3. heard' = heard \/ Hear(<<Text(run, AtMarkup(rest))>>)
          BY <2>2 DEF Characters, run, rest
    <3> QED BY <3>1, <3>2, <3>3, <2>1
  <2>3. CASE Decoded
    <3> DEFINE run == <<Char(Head(Rest).of)>>
               end == AtMarkup(Tail(Rest))
    <3>1. Char(Head(Rest).of) \in Letter
          BY <2>3, DecodedIs
    <3>2. run \in Seq(Letter)
          BY <3>1
    <3>3. end \in BOOLEAN
          BY AtMarkupIs
    <3>4. Hear(<<Text(run, end)>>)
          BY <2>3 DEF Decoded
    <3> HIDE DEF run, end
    <3> QED BY <3>2, <3>3, <3>4, <2>1
  <2>4. CASE EndTag
    <3> DEFINE close == <<"close">>
    <3>1. close \in Events /\ close[1] = "close" /\ Completed \in Seq(Events)
          BY HearIs
    <3>2. Hear(Completed) \/ Hear(Completed \o <<close>>)
          BY <2>4 DEF EndTag
    <3> HIDE DEF close
    <3>3. heard' = heard \o Completed \/ heard' = Append(heard \o Completed, close)
      <4>1. heard \o (Completed \o <<close>>) = Append(heard \o Completed, close)
            BY <3>1, <1>2, OneAfterAnother
      <4> QED BY <4>1, <3>2 DEF Hear
    <3> QED BY <3>1, <3>3, CountCompleted, CountOne
  <2>5. CASE EndWithinReference
        BY <2>5 DEF EndWithinReference
  <2>6. CASE EndOfDocument
        BY <2>6, CountCompleted DEF EndOfDocument, Hear
  <2> QED BY <2>2, <2>3, <2>4, <2>5, <2>6
<1>4. ~Outer'
      BY <1>1 DEF Outer, Reading
<1> QED BY <1>1, <1>3, <1>4, NothingSpent

\* ... by the end of it, or by the beginning of what is read or scanned, ...
LEMMA BoundaryLimited ==
    ASSUME TypeOK, Shape, Limited, TypeOK', EndOfEntity \/ EndOfDoctype \/ EnterFlattened
    PROVE  Limited'
<1>1. /\ failed = "none" /\ failed' # "limit"
      /\ UNCHANGED <<doc, entity_expansion_count>>
      BY DEF EndOfEntity, EndOfDoctype, EnterFlattened, Running, In, caches
<1>2. heard \in Seq(Events)
      BY DEF TypeOK
<1>3. ~Outer'
  <2>1. CASE EndOfEntity \/ EnterFlattened
    <3>1. calls' = << >>
          BY <2>1 DEF EndOfEntity, EnterFlattened, Running
    <3> QED BY <3>1 DEF Outer, Reading
  <2>2. CASE EndOfDoctype
    <3>1. phase' = "doctype"
          BY <2>2 DEF EndOfDoctype
    <3> QED BY <3>1 DEF Outer, Reading
  <2> QED BY <2>1, <2>2
<1>4. CASE UNCHANGED heard
      BY <1>1, <1>3, <1>4, NothingSpent
<1>5. CASE EndOfEntity
  <2> DEFINE end == <<"end", Top.name>>
  <2>1. CASE element_stack # Top.floor
        BY <2>1, <1>4, <1>5 DEF EndOfEntity
  <2>2. CASE element_stack = Top.floor
    <3>1. Hear(Append(Completed, end)) /\ Len(frames) > 1
          BY <2>2, <1>5 DEF EndOfEntity
    <3>2. Top.name \in Name
      <4>1. Top \in Frames /\ Len(frames) \in 1 .. Len(frames) /\ Len(frames) # 1
            BY <3>1, FramesIs
      <4>2. Top.name # NoName
            BY <4>1 DEF Shape, FramesShape, Top
      <4> QED BY <4>1, <4>2 DEF Frames
    <3>3. end \in Events /\ end[1] = "end" /\ Completed \in Seq(Events)
          BY <3>2, HearIs
    <3> HIDE DEF end
    <3>4. heard' = Append(heard \o Completed, end)
          BY <3>1, <3>3, <1>2, OneAfterAnother DEF Hear
    <3>5. /\ Starts(heard') = Starts(heard) /\ Given(heard') = Given(heard)
          /\ Clear(heard') <=> Clear(heard)
          BY <3>3, <3>4, CountCompleted, CountOne
    <3> QED BY <3>5, <1>1, <1>3, NothingSpent
  <2> QED BY <2>1, <2>2
<1>6. CASE EndOfDoctype \/ EnterFlattened
      BY <1>4, <1>6 DEF EndOfDoctype, EnterFlattened
<1> QED BY <1>5, <1>6

\* ... or by a tag, but for the values in it.
LEMMA TagLimited ==
    ASSUME TypeOK, Shape, Limited, TypeOK', StartTag \/ AttributeTag
    PROVE  Limited'
<1> DEFINE open == <<"open">>
           h    == heard \o Completed
<1>1. /\ Running /\ Rest # << >> /\ failed = "none" /\ failed' = "none"
      /\ UNCHANGED <<doc, entity_expansion_count, phase>>
      BY DEF StartTag, AttributeTag, Running, caches
<1>2. /\ open \in Events /\ open[1] = "open" /\ Completed \in Seq(Events) /\ heard \in Seq(Events)
      BY HearIs DEF TypeOK
<1>3. /\ h \in Seq(Events) /\ Starts(h) = Starts(heard) /\ Given(h) = Given(heard)
      /\ Clear(h) <=> Clear(heard)
      BY CountCompleted
<1> HIDE DEF open, h
<1>4. /\ heard \o Append(Completed, open) = Append(h, open)
      /\ heard \o (Completed \o <<open>>) = Append(h, open)
      BY <1>2, OneAfterAnother DEF h
<1>5. /\ Append(h, open) \in Seq(Events) /\ Starts(Append(h, open)) = Starts(heard)
      /\ Given(Append(h, open)) = Given(heard) /\ (Clear(Append(h, open)) <=> Clear(heard))
      BY <1>2, <1>3, CountOne
<1>6. CASE StartTag
  <2> DEFINE value == <<"attribute", default_value>>
  <2>1. calls' = << >>
          /\ Hear(Completed \o <<open>> \o IF doc.default = << >> THEN << >> ELSE <<value>>)
        BY <1>6 DEF StartTag, Running, open
  <2>2. value \in Events /\ value[1] = "attribute"
        BY HearIs DEF TypeOK
  <2> HIDE DEF value
  <2>3. doc.default = << >> => heard' = Append(h, open)
    <3>1. Completed \o <<open>> \o << >> = Completed \o <<open>>
          BY <1>2, OneAfterAnother
    <3> QED BY <3>1, <2>1, <1>4 DEF Hear
  <2>4. doc.default # << >> => heard' = Append(Append(h, open), value)
    <3>1. Completed \o <<open>> \in Seq(Events)
          BY <1>2
    <3>2. heard \o ((Completed \o <<open>>) \o <<value>>) = Append(heard \o (Completed \o <<open>>), value)
          BY <3>1, <2>2, <1>2, OneAfterAnother
    <3> QED BY <3>2, <2>1, <1>4 DEF Hear
  <2>5. /\ Starts(heard') = Starts(heard)
        /\ doc.default = << >> => Given(heard') = Given(heard) /\ (Clear(heard') <=> Clear(heard))
        BY <2>2, <2>3, <2>4, <1>5, CountOne
  <2>6. ~Outer'
        BY <2>1 DEF Outer, Reading
  <2> QED BY <2>5, <2>6, <1>1, NothingSpent
<1>7. CASE AttributeTag
  <2> DEFINE n    == Head(Rest).of
             text == <<Reference(n)>>
             call == Call("resolve", NoName, text)
  <2>1. calls' = <<call>> /\ Hear(Append(Completed, open))
        BY <1>7 DEF AttributeTag, open
  <2>2. n \in Name
        BY <1>1, <1>7, RunningIs, ItemIs DEF AttributeTag
  <2>3. call.rest = text
        BY DEF Call
  <2>4. text # << >>
        OBVIOUS
  <2>5. OneReference(text)
        BY <2>2 DEF OneReference
  <2> HIDE DEF call, text
  <2>6. calls'[1] = call
        BY <2>1
  <2>7. Due' = 0 /\ Due = 0 /\ OneReference(calls'[1].rest)
    <3>1. ~Outer
          BY <1>1 DEF Outer, Reading, Running
    <3> QED BY <3>1, <2>3, <2>4, <2>5, <2>6 DEF Due
  <2>8. /\ Starts(heard') = Starts(heard) /\ Given(heard') = Given(heard)
        /\ Clear(heard') <=> Clear(heard)
        BY <2>1, <1>4, <1>5 DEF Hear
  <2>9. Spent' = Spent + 0
        BY <1>1, SpentIs DEF TypeOK
  <2>10. /\ Starts(heard) \in Nat /\ Given(heard) \in Nat
         BY Counts DEF TypeOK
  <2>11. /\ UNCHANGED doc /\ Starts(heard') <= Starts(heard) + 0
         /\ doc.default = << >> /\ Clear(heard') =>
               /\ Clear(heard)
               /\ Starts(heard') + Given(heard') + Due' <= Starts(heard) + Given(heard) + Due + 0
         BY <2>7, <2>8, <2>10, <1>1
  <2> QED BY <2>7, <2>9, <2>11, StepLimited
<1> QED BY <1>6, <1>7

\* A value in a tag, whose reference has been counted.
LEMMA ValueLimited ==
    ASSUME TypeOK, Shape, Limited, TypeOK', EndOfValue
    PROVE  Limited'
<1>1. /\ failed = "none" /\ failed' = "none" /\ calls' = << >> /\ calls # << >>
      /\ Current.fn = "resolve" /\ ~More /\ Len(calls) = 1
      /\ UNCHANGED <<doc, entity_expansion_count>>
      BY DEF EndOfValue, In, caches
<1>2. heard \in Seq(Events) /\ Starts(heard) \in Nat /\ Given(heard) \in Nat
      BY Counts DEF TypeOK
<1>3. ~Outer' /\ Due' = 0
      BY <1>1 DEF Due, Outer, Reading
<1>4. CASE phase = "doctype"
  <2>1. UNCHANGED heard
        BY <1>4 DEF EndOfValue
  <2> QED BY <2>1, <1>1, <1>3, NothingSpent
<1>5. CASE phase # "doctype"
  <2> DEFINE value == <<"attribute", Current.out>>
             close == <<"close">>
  <2>1. Hear(<<value, close>>) /\ Current.out \in Seq(Letter)
        BY <1>1, <1>5, CurrentIs DEF EndOfValue
  <2>2. value \in Events /\ close \in Events /\ value[1] = "attribute" /\ close[1] = "close"
        BY <2>1, HearIs
  <2> HIDE DEF value, close
  <2>3. heard' = Append(Append(heard, value), close)
        BY <2>1, <2>2, <1>2 DEF Hear
  <2>4. /\ Starts(heard') = Starts(heard) /\ Given(heard') = Given(heard) + 1
        /\ Clear(heard') <=> Clear(heard)
        BY <2>2, <2>3, <1>2, CountOne
  <2>5. Due = 1
    <3>1. Outer
          BY <1>1, <1>5 DEF Outer, Reading, Current, Shape, TypeOK
    <3>2. Current.out # NotFlat
          BY <1>1, CurrentIs, Marks
    <3>3. calls[1].rest = << >>
          BY <3>2, <1>1 DEF More, Current
    <3> QED BY <3>1, <3>3 DEF Due
  <2>6. Spent' = Spent + 0
        BY <1>1, SpentIs DEF TypeOK
  <2>7. /\ UNCHANGED doc /\ Starts(heard') <= Starts(heard) + 0
        /\ doc.default = << >> /\ Clear(heard') =>
              /\ Clear(heard)
              /\ Starts(heard') + Given(heard') + Due' <= Starts(heard) + Given(heard) + Due + 0
        BY <2>4, <2>5, <1>1, <1>2, <1>3
  <2> QED BY <2>6, <2>7, <1>3, StepLimited
<1> QED BY <1>4, <1>5

\* A reference in content: every beginning that is heard is counted.
LEMMA ReferenceLimited ==
    ASSUME TypeOK, Shape, Limited, TypeOK', GeneralReference
    PROVE  Limited'
<1>1. Running /\ failed = "none" /\ calls = << >> /\ UNCHANGED <<doc, phase>>
      BY ReferenceCases DEF Running
<1>2. PICK name \in Name, answer \in {"expand", "limit", "fatal", "skipped", "error"} :
        /\ answer = Answer(name, TRUE)
        /\ \/ NotExpanded(name, answer) \/ Skipped(name, answer) \/ Denied(name, answer)
           \/ Reads(name, answer)
           \/ \E text \in Seq(Item) : Scans(name, answer, text)
      BY ReferenceCases
<1> DEFINE h     == heard \o Completed
           start == <<"start", name>>
           end   == <<"end", name>>
           k     == IF answer = "expand" THEN 1 ELSE 0
<1>3. /\ h \in Seq(Events) /\ Starts(h) = Starts(heard) /\ Given(h) = Given(heard)
      /\ Clear(h) <=> Clear(heard)
      BY CountCompleted
<1>4. /\ start \in Events /\ end \in Events /\ start[1] = "start" /\ end[1] = "end"
      /\ Completed \in Seq(Events) /\ heard \in Seq(Events) /\ Told(answer, name) \in Seq(Events)
      BY HearIs DEF TypeOK
<1>5. Begins(name) = Append(Completed, start)
      BY DEF Begins
<1>6. Starts(heard) \in Nat /\ Given(heard) \in Nat /\ Spent \in Nat /\ entity_expansion_count \in Nat
      BY Counts DEF TypeOK, Limited
<1> HIDE DEF start, end, h
<1>7. heard \o Begins(name) = Append(h, start)
        /\ heard \o Append(Begins(name), end) = Append(Append(h, start), end)
  <2>1. heard \o Begins(name) = Append(h, start) /\ Begins(name) \in Seq(Events)
        BY <1>4, <1>5, OneAfterAnother DEF h
  <2> QED BY <2>1, <1>4, OneAfterAnother
<1>8. /\ Append(h, start) \in Seq(Events)
      /\ Starts(Append(h, start)) = Starts(heard) + 1 /\ Given(Append(h, start)) = Given(heard)
      /\ Clear(Append(h, start)) <=> Clear(heard)
      BY <1>3, <1>4, CountOne
<1>9. /\ Starts(Append(Append(h, start), end)) = Starts(heard) + 1
      /\ Given(Append(Append(h, start), end)) = Given(heard)
      /\ Clear(Append(Append(h, start), end)) <=> Clear(heard)
      BY <1>4, <1>8, CountOne
<1>10. k \in {0, 1} /\ ~Outer /\ Due = 0
       BY <1>1 DEF Outer, Reading, Due
<1>11. k = 1 => (doc.limit > 0 => Spent + 1 <= doc.limit)
  <2>1. SUFFICES ASSUME answer = "expand" PROVE doc.limit > 0 => Spent + 1 <= doc.limit
        OBVIOUS
  <2>2. ~OverLimit
        BY <2>1, <1>2, Answers DEF TypeOK
  <2>3. Spent = entity_expansion_count /\ doc.limit \in Nat
        BY <1>1 DEF Spent, TypeOK, Legal
  <2> QED BY <2>2, <2>3, <1>6 DEF OverLimit
<1>12. Spent' = Spent + k
  <2>1. CASE Checked(answer)
    <3>1. answer = Answer(name, TRUE) /\ Checked(answer) /\ failed = "none"
          BY <2>1, <1>1, <1>2
    <3>2. Spent' = IF answer = "expand" THEN Spent + 1 ELSE Spent
      <4> HIDE DEF k
      <4> QED BY <3>1, AnswerCosts
    <3> QED BY <3>2, <1>6
  <2>2. CASE Denied(name, answer)
        BY <2>2, <1>1, SpentIs DEF Denied
  <2> QED BY <2>1, <2>2, <1>2 DEF NotExpanded, Skipped, Reads, Scans
<1>13. /\ Starts(heard') = Starts(heard) + k /\ Given(heard') = Given(heard)
       /\ Clear(heard') => Clear(heard)
  <2>1. CASE NotExpanded(name, answer)
    <3>1. heard' = heard \o (Completed \o Told(answer, name)) /\ answer # "expand"
          BY <2>1 DEF NotExpanded, Hear
    <3>2. heard' = h \o Told(answer, name)
          BY <3>1, <1>4 DEF h
    <3> QED BY <3>1, <3>2, <1>3, <1>6, ToldIs
  <2>2. CASE Skipped(name, answer)
    <3>1. heard' = Append(Append(h, start), end) /\ answer = "expand"
          BY <2>2, <1>7 DEF Skipped, Hear, end
    <3> QED BY <3>1, <1>9
  <2>3. CASE ~NotExpanded(name, answer) /\ ~Skipped(name, answer)
    <3>1. heard' = Append(h, start) /\ answer = "expand"
          BY <2>3, <1>2, <1>7 DEF Denied, Reads, Scans, Hear
    <3> QED BY <3>1, <1>8
  <2> QED BY <2>1, <2>2, <2>3
<1>14. ~Outer'
  <2>1. calls' = << >> \/ calls'[1].fn = "flatten"
    <3>1. CASE Reads(name, answer)
          BY <3>1 DEF Reads, Call
    <3>2. CASE ~Reads(name, answer)
          BY <3>2, <1>1, <1>2 DEF NotExpanded, Skipped, Denied, Scans
    <3> QED BY <3>1, <3>2
  <2> QED BY <2>1 DEF Outer, Reading
<1>15. Due' = 0
       BY <1>14 DEF Due
<1> HIDE DEF k
<1>16. /\ Starts(heard') <= Starts(heard) + k
       /\ doc.default = << >> /\ Clear(heard') =>
             /\ Clear(heard)
             /\ Starts(heard') + Given(heard') + Due' <= Starts(heard) + Given(heard) + Due + k
       BY <1>6, <1>10, <1>13, <1>15
<1> QED BY <1>1, <1>10, <1>11, <1>12, <1>14, <1>16, StepLimited

\* Nothing has been spent.
LEMMA BeginLimited ==
    ASSUME failed = "none", entity_expansion_count = 0, heard = << >>, calls = << >>, doc.limit \in Nat
    PROVE  Limited
<1>1. Spent = 0 /\ ~Outer /\ Due = 0
      BY DEF Spent, Outer, Reading, Due
<1> QED BY <1>1, CountNothing DEF Limited

\* The beginning keeps to the limit.
LEMMA InitLimited == Init => Limited
<1> SUFFICES ASSUME Init PROVE Limited
    OBVIOUS
<1>1. PICK d : Fresh(d) /\ Legal(d)
      BY DocumentsAssumption DEF Init
<1>2. /\ failed = "none" /\ entity_expansion_count = 0 /\ heard = << >> /\ calls = << >>
      /\ doc.limit \in Nat
      BY <1>1 DEF Fresh, Legal
<1> QED BY <1>2, BeginLimited

\* A reset keeps to the limit.
LEMMA ResetLimited ==
    ASSUME TypeOK', Reset
    PROVE  Limited'
<1>1. /\ failed' = "none" /\ entity_expansion_count' = 0 /\ heard' = << >> /\ calls' = << >>
      BY DEF Reset
<1>2. doc'.limit \in Nat
      BY DEF TypeOK, Legal
<1>3. Spent' = 0 /\ ~Outer' /\ Due' = 0
      BY <1>1 DEF Spent, Outer, Reading, Due
<1> QED BY <1>1, <1>2, <1>3, CountNothing DEF Limited

\* Every step keeps to the limit.
LEMMA NextLimited ==
    ASSUME TypeOK, Shape, Limited, TypeOK', [Next]_vars
    PROVE  Limited'
<1>1. CASE UNCHANGED vars
      BY <1>1 DEF vars, caches, Limited, Spent, Due, Outer, Reading
<1> QED BY <1>1, ReadingLimited, ScanningLimited, BoundaryLimited, TagLimited, ValueLimited,
           ReferenceLimited, ResetLimited DEF Next

\* No more references are expanded for the application than the limit allows:
\* in content, and in the values it hears of if no value is a default.
THEOREM ExpansionsLimited == Spec => []LimitKept
<1>1. TypeOK /\ Limited => LimitKept
  <2> SUFFICES ASSUME TypeOK, Limited, doc.limit > 0
               PROVE  /\ entity_expansion_count <= doc.limit \/ failed = "limit"
                      /\ Cardinality(Expansions(heard)) <= doc.limit
                      /\ doc.default = << >> /\ NothingMissing =>
                           Cardinality(Expansions(heard)) + Cardinality(Values(heard)) <= doc.limit
      BY DEF LimitKept
  <2>1. /\ Starts(heard) \in Nat /\ Given(heard) \in Nat /\ Due \in Nat
        /\ entity_expansion_count \in Nat /\ doc.limit \in Nat /\ Spent \in Nat
        BY Counts DEF TypeOK, Legal, Due, Limited
  <2>2. Starts(heard) <= Spent /\ Spent <= doc.limit
        BY DEF Limited
  <2>3. doc.default = << >> /\ NothingMissing => Starts(heard) + Given(heard) + Due <= Spent
        BY DEF Limited, NothingMissing, Clear
  <2>4. failed # "limit" => Spent = entity_expansion_count
        BY DEF Spent
  <2> QED BY <2>1, <2>2, <2>3, <2>4 DEF Starts, Given
<1>2. TypeOK /\ Shape /\ Limited /\ [Next]_vars => (TypeOK /\ Shape /\ Limited)'
      BY NextTypes, NextLimited
<1> QED BY <1>1, <1>2, InitTypes, InitLimited, PTL DEF Spec

-----------------------------------------------------------------------------
(* What is made of a text                                                  *)

\* The first m sequences, one after the other.
Joins(seqs, m, g) == g = [i \in 1 .. m |-> IF i = 1 THEN seqs[i] ELSE g[i - 1] \o seqs[i]]

\* There is such a function.
LEMMA JoinsIs ==
    ASSUME NEW seqs, NEW m \in Nat
    PROVE  \E g : Joins(seqs, m, g)
<1> DEFINE Known(k) == \E g : Joins(seqs, k, g)
<1> SUFFICES ASSUME ~Known(m) PROVE FALSE
    OBVIOUS
<1> DEFINE Bad == {k \in Nat : ~Known(k)}
<1> HIDE DEF Known
<1>1. \A k : k \in Bad <=> k \in Nat /\ ~Known(k)
      OBVIOUS
<1> HIDE DEF Bad
<1>2. Bad \in SUBSET Nat /\ Bad # {}
      BY <1>1
<1>3. \E k \in Bad : \A j \in Bad : k <= j
      BY <1>2, Least
<1>4. PICK k \in Bad : \A j \in Bad : k <= j
      BY <1>3
<1>5. k \in Nat /\ ~Known(k)
      BY <1>1, <1>4
<1>6. k # 0
  <2> DEFINE g == [i \in 1 .. 0 |-> << >>]
  <2>1. g = [i \in 1 .. 0 |-> IF i = 1 THEN seqs[i] ELSE g[i - 1] \o seqs[i]]
        OBVIOUS
  <2> HIDE DEF g
  <2>2. Joins(seqs, 0, g)
        BY <2>1 DEF Joins
  <2>3. Known(0)
        BY <2>2 DEF Known
  <2> QED BY <2>3, <1>5
<1>7. k - 1 \in Nat /\ ~ (k <= k - 1)
      BY <1>5, <1>6
<1>8. Known(k - 1)
      BY <1>1, <1>4, <1>7
<1>9. PICK g : Joins(seqs, k - 1, g)
      BY <1>8 DEF Known
<1> DEFINE last == IF k = 1 THEN seqs[1] ELSE g[k - 1] \o seqs[k]
           h    == [i \in 1 .. k |-> IF i = k THEN last ELSE g[i]]
<1>10. \A i \in 1 .. k - 1 : g[i] = IF i = 1 THEN seqs[i] ELSE g[i - 1] \o seqs[i]
       BY <1>9 DEF Joins
<1>11. /\ \A i \in 1 .. k - 1 : h[i] = g[i]
       /\ h[k] = last
       /\ h = [i \in 1 .. k |-> h[i]]
  <2> HIDE DEF last
  <2> QED BY <1>5, <1>6
<1> HIDE DEF h
<1>12. ASSUME NEW i \in 1 .. k
       PROVE  h[i] = IF i = 1 THEN seqs[i] ELSE h[i - 1] \o seqs[i]
  <2>1. CASE i = k /\ k # 1
    <3>0. k - 1 \in 1 .. k - 1
          BY <2>1, <1>5, <1>6
    <3>1. h[k - 1] = g[k - 1]
          BY <3>0, <1>11
    <3> QED BY <2>1, <3>1, <1>11
  <2>2. CASE i = k /\ k = 1
        BY <2>2, <1>11
  <2>3. CASE i # k
    <3>1. i \in 1 .. k - 1 /\ (i # 1 => i - 1 \in 1 .. k - 1)
          BY <2>3, <1>5
    <3> QED BY <3>1, <1>10, <1>11
  <2> QED BY <2>1, <2>2, <2>3
<1>13. Joins(seqs, k, h)
  <2>1. h = [i \in 1 .. k |-> IF i = 1 THEN seqs[i] ELSE h[i - 1] \o seqs[i]]
        BY <1>11, <1>12
  <2> QED BY <2>1 DEF Joins
<1> QED BY <1>13, <1>5 DEF Known

\* They are the same for more that begin with them.
LEMMA JoinsAgree ==
    ASSUME NEW seqs, NEW more, NEW m \in Nat, NEW n \in Nat, m <= n, NEW g, NEW h,
           Joins(seqs, m, g), Joins(more, n, h), \A i \in 1 .. m : seqs[i] = more[i]
    PROVE  \A i \in 1 .. m : g[i] = h[i]
<1>1. /\ \A i \in 1 .. m : g[i] = IF i = 1 THEN seqs[i] ELSE g[i - 1] \o seqs[i]
      /\ \A i \in 1 .. m : h[i] = IF i = 1 THEN more[i] ELSE h[i - 1] \o more[i]
  <2>1. \A i \in 1 .. m : g[i] = IF i = 1 THEN seqs[i] ELSE g[i - 1] \o seqs[i]
        BY DEF Joins
  <2>2. \A i \in 1 .. n : h[i] = IF i = 1 THEN more[i] ELSE h[i - 1] \o more[i]
        BY DEF Joins
  <2> QED BY <2>1, <2>2
<1> SUFFICES ASSUME NEW l \in 1 .. m, g[l] # h[l] PROVE FALSE
    OBVIOUS
<1> DEFINE Bad == {i \in 1 .. m : g[i] # h[i]}
<1>2. \A i : i \in Bad <=> i \in 1 .. m /\ g[i] # h[i]
      OBVIOUS
<1> HIDE DEF Bad
<1>3. Bad \in SUBSET Nat /\ Bad # {}
  <2>1. l \in Bad /\ \A i \in Bad : i \in Nat
        BY <1>2
  <2> QED BY <2>1
<1>4. \E k \in Bad : \A j \in Bad : k <= j
      BY <1>3, Least
<1>5. PICK k \in Bad : \A j \in Bad : k <= j
      BY <1>4
<1>6. k \in 1 .. m /\ g[k] # h[k]
      BY <1>2, <1>5
<1>7. k # 1
      BY <1>1, <1>6
<1>8. k - 1 \in 1 .. m /\ ~ (k <= k - 1)
      BY <1>6, <1>7
<1>9. g[k - 1] = h[k - 1]
      BY <1>2, <1>5, <1>8
<1> QED BY <1>1, <1>6, <1>7, <1>8, <1>9

\* FlattenSeq is the last of its values.
LEMMA FlattenSeqIs ==
    ASSUME NEW seqs, Len(seqs) \in Nat, Len(seqs) # 0
    PROVE  \E g : Joins(seqs, Len(seqs), g) /\ FlattenSeq(seqs) = g[Len(seqs)]
<1> DEFINE n == Len(seqs)
           g == CHOOSE g : Joins(seqs, n, g)
<1>1. FlattenSeq(seqs) = g[n]
      BY DEF FlattenSeq, Joins
<1>2. Joins(seqs, n, g)
      BY JoinsIs
<1> QED BY <1>1, <1>2

\* One more sequence.
LEMMA FlattenOneMore ==
    ASSUME NEW seqs, NEW more, NEW n \in Nat, Len(seqs) = n, Len(more) = n + 1,
           \A i \in 1 .. n : seqs[i] = more[i]
    PROVE  FlattenSeq(more) = IF n = 0 THEN more[1] ELSE FlattenSeq(seqs) \o more[n + 1]
<1>1. PICK h : Joins(more, n + 1, h) /\ FlattenSeq(more) = h[n + 1]
      BY FlattenSeqIs
<1>2. \A i \in 1 .. n + 1 : h[i] = IF i = 1 THEN more[i] ELSE h[i - 1] \o more[i]
      BY <1>1 DEF Joins
<1>3. CASE n = 0
      BY <1>1, <1>2, <1>3
<1>4. CASE n # 0
  <2>1. PICK g : Joins(seqs, n, g) /\ FlattenSeq(seqs) = g[n]
        BY <1>4, FlattenSeqIs
  <2>2. g[n] = h[n]
    <3>1. n \in 1 .. n /\ n <= n + 1 /\ n + 1 \in Nat
          BY <1>4
    <3>2. \A i \in 1 .. n : g[i] = h[i]
          BY <3>1, <1>1, <2>1, JoinsAgree
    <3> QED BY <3>1, <3>2
  <2>3. h[n + 1] = h[n] \o more[n + 1]
    <3>1. n + 1 \in 1 .. n + 1 /\ n + 1 # 1 /\ (n + 1) - 1 = n
          BY <1>4
    <3> QED BY <3>1, <1>2
  <2> QED BY <2>1, <2>2, <2>3, <1>1, <1>4
<1> QED BY <1>3, <1>4

-----------------------------------------------------------------------------
\* What a function makes of a piece, if the caches know.
Yield(fn, item) == IF fn = "flatten" THEN FlatPiece(item) ELSE ValuePiece(item)

Readable(fn, item) ==
    IF fn = "flatten"
    THEN \/ item.is = "text"
         \/ item.is = "reference" /\ Allowed(item.of) /\ IsFlat(item.of)
    ELSE \/ item.is \in {"text", "predefined"}
         \/ /\ item.is = "reference"
            /\ \/ doc.entity[item.of].kind = "none"
               \/ Allowed(item.of) /\ IsResolved(item.of)

ReadsAll(fn, text) == \A i \in DOMAIN text : Readable(fn, text[i])
Gives(fn, text)    == FlattenSeq([i \in DOMAIN text |-> Yield(fn, text[i])])

\* The definitions of the module Entities, by function.
LEMMA WhatIsGiven ==
    \A text : /\ Flattens(text) <=> ReadsAll("flatten", text)
              /\ Flattened(text) = Gives("flatten", text)
              /\ Resolves(text) <=> ReadsAll("resolve", text)
              /\ Resolved(text) = Gives("resolve", text)
<1> SUFFICES ASSUME NEW text
             PROVE  /\ Flattens(text) <=> ReadsAll("flatten", text)
                    /\ Flattened(text) = Gives("flatten", text)
                    /\ Resolves(text) <=> ReadsAll("resolve", text)
                    /\ Resolved(text) = Gives("resolve", text)
    OBVIOUS
<1>1. \A item : Yield("flatten", item) = FlatPiece(item) /\ Yield("resolve", item) = ValuePiece(item)
      BY DEF Yield
<1>2. Flattened(text) = Gives("flatten", text) /\ Resolved(text) = Gives("resolve", text)
      BY <1>1 DEF Flattened, Resolved, Gives
<1>3. /\ Flattens(text) <=> ReadsAll("flatten", text)
      /\ Resolves(text) <=> ReadsAll("resolve", text)
      BY DEF Flattens, Resolves, ReadsAll, Readable
<1> QED BY <1>2, <1>3

\* Nothing has been read, ...
LEMMA GivesNothing == \A fn : ReadsAll(fn, << >>) /\ Gives(fn, << >>) = << >>
<1> SUFFICES ASSUME NEW fn PROVE ReadsAll(fn, << >>) /\ Gives(fn, << >>) = << >>
    OBVIOUS
<1>1. ReadsAll(fn, << >>)
      BY DEF ReadsAll
<1> DEFINE seqs == [i \in DOMAIN << >> |-> Yield(fn, << >>[i])]
<1>2. seqs = << >>
      OBVIOUS
<1>3. FlattenSeq(<< >>) = << >>
      BY DEF FlattenSeq
<1> QED BY <1>1, <1>2, <1>3 DEF Gives

\* ... or one more piece.
LEMMA GivesMore ==
    ASSUME NEW fn, NEW text \in Seq(Item), NEW item \in Item, NEW S, Yield(fn, item) \in Seq(S)
    PROVE  /\ Append(text, item) \in Seq(Item)
           /\ Gives(fn, Append(text, item)) = Gives(fn, text) \o Yield(fn, item)
           /\ ReadsAll(fn, Append(text, item)) <=> ReadsAll(fn, text) /\ Readable(fn, item)
<1> DEFINE n   == Len(text)
           new == Append(text, item)
           seqs == [i \in 1 .. n |-> Yield(fn, text[i])]
           more == [i \in 1 .. n + 1 |-> Yield(fn, new[i])]
<1>1. /\ n \in Nat /\ new \in Seq(Item) /\ Len(new) = n + 1 /\ new[n + 1] = item
      /\ DOMAIN text = 1 .. n /\ DOMAIN new = 1 .. n + 1
      /\ \A i \in 1 .. n : new[i] = text[i]
      OBVIOUS
<1> HIDE DEF n, new
<1>2. ReadsAll(fn, new) <=> ReadsAll(fn, text) /\ Readable(fn, item)
  <2>1. \A i \in 1 .. n + 1 : i \in 1 .. n \/ i = n + 1
        BY <1>1
  <2>2. n + 1 \in 1 .. n + 1 /\ \A i \in 1 .. n : i \in 1 .. n + 1
        BY <1>1
  <2> QED BY <2>1, <2>2, <1>1 DEF ReadsAll
<1>3. Gives(fn, text) = FlattenSeq(seqs) /\ Gives(fn, new) = FlattenSeq(more)
      BY <1>1 DEF Gives
<1>4. Len(seqs) = n /\ Len(more) = n + 1
      BY <1>1
<1>5. (\A i \in 1 .. n : seqs[i] = more[i]) /\ more[n + 1] = Yield(fn, item)
  <2>1. n + 1 \in 1 .. n + 1 /\ \A i \in 1 .. n : i \in 1 .. n + 1
        BY <1>1
  <2> QED BY <2>1, <1>1
<1> HIDE DEF seqs, more
<1>6. FlattenSeq(more) = IF n = 0 THEN more[1] ELSE FlattenSeq(seqs) \o more[n + 1]
  <2>1. n \in Nat /\ Len(seqs) = n /\ Len(more) = n + 1
        BY <1>1, <1>4
  <2>2. \A i \in 1 .. n : seqs[i] = more[i]
        BY <1>5
  <2> QED BY ONLY <2>1, <2>2, FlattenOneMore
<1>7. CASE n = 0
  <2>1. text = << >> /\ more[1] = Yield(fn, item)
    <3>1. text = << >>
          BY <1>7 DEF n
    <3> QED BY <3>1, <1>5, <1>7
  <2>2. << >> \o Yield(fn, item) = Yield(fn, item)
    <3> DEFINE y == Yield(fn, item)
    <3> HIDE DEF y
    <3>1. y \in Seq(S) => << >> \o y = y
          OBVIOUS
    <3> QED BY <3>1 DEF y
  <2>3. Gives(fn, text) = << >>
        BY <2>1, GivesNothing
  <2> QED BY <2>1, <2>2, <2>3, <1>1, <1>2, <1>3, <1>6, <1>7 DEF new
<1>8. CASE n # 0
      BY <1>1, <1>2, <1>3, <1>5, <1>6, <1>8 DEF new
<1> QED BY <1>7, <1>8

-----------------------------------------------------------------------------
(* What is in the caches                                                   *)

\* The text that a call reads.
Sources(c) ==
    IF c.name # NoName THEN {doc.entity[c.name].text}
    ELSE IF phase = "doctype" THEN {doc.default}
    ELSE {<<Reference(n)>> : n \in Name}

\* What it has read of it is what it has made of it, ...
HasMade(c, text) == ReadsAll(c.fn, text) /\ c.out = Gives(c.fn, text)

UpToDate(c) ==
    c.out # NotFlat =>
        \E text \in Seq(Item) : text \o c.rest \in Sources(c) /\ HasMade(c, text)

\* ... but for the reference to the entity that is read for it.
Waits(c, name) ==
    \E text \in Seq(Item) :
        Append(text, Reference(name)) \o c.rest \in Sources(c) /\ HasMade(c, text)

CacheOf(fn) == IF fn = "flatten" THEN content_entity_cache ELSE attribute_entity_cache

\* There is nothing in the cache while the text is read.
Pending(c) ==
    c.name # NoName =>
        /\ Allowed(c.name) /\ CacheOf(c.fn)[c.name] = Unknown
        /\ c.fn = "flatten" => ~doc.xml11

CallsFaithful ==
    \A i \in 1 .. Len(calls) :
        /\ Pending(calls[i])
        /\ IF i = Len(calls) THEN UpToDate(calls[i]) ELSE Waits(calls[i], calls[i + 1].name)

Entry(fn, n) ==
    CacheOf(fn)[n] \notin {Unknown, NotFlat} =>
        /\ Allowed(n) /\ (fn = "flatten" => ~doc.xml11)
        /\ ReadsAll(fn, doc.entity[n].text)
        /\ CacheOf(fn)[n] = Gives(fn, doc.entity[n].text)

EntriesFaithful == \A fn \in {"flatten", "resolve"}, n \in Name : Entry(fn, n)

\* The values that are heard of.
ValueOf(n, value) ==
    ReadsAll("resolve", <<Reference(n)>>) /\ value = Gives("resolve", <<Reference(n)>>)

Meant(event) ==
    event[1] = "attribute" =>
        /\ phase # "doctype"
        /\ event[2] = default_value \/ \E n \in Name : ValueOf(n, event[2])

ValuesFaithful ==
    /\ phase # "doctype" =>
         ReadsAll("resolve", doc.default) /\ default_value = Gives("resolve", doc.default)
    /\ \A i \in 1 .. Len(heard) : Meant(heard[i])

\* The texts that are scanned.
Scannable(n) == {doc.entity[n].text, content_entity_cache[n]} \ {Unknown, NotFlat}

FramesFaithful ==
    \A i \in 2 .. Len(frames) :
        \E text \in Seq(Item) : text \o frames[i].rest \in Scannable(frames[i].name)

Faithful == CallsFaithful /\ EntriesFaithful /\ ValuesFaithful /\ FramesFaithful

\* What is known is not forgotten.
Learns ==
    /\ UNCHANGED doc
    /\ \A fn \in {"flatten", "resolve"}, n \in Name :
         CacheOf(fn)[n] # Unknown => CacheOf(fn)'[n] = CacheOf(fn)[n]

\* A piece that could be read gives the same after a step that forgets
\* nothing.
LEMMA StillReadable ==
    ASSUME Learns, NEW fn \in {"flatten", "resolve"}, NEW item \in Item, Readable(fn, item)
    PROVE  Readable(fn, item)' /\ Yield(fn, item)' = Yield(fn, item)
<1>1. item.is = "reference" => item.of \in Name
      BY ItemIs
<1>2. UNCHANGED doc
      BY DEF Learns
<1>3. CASE fn = "flatten"
  <2>1. \A n \in Name : content_entity_cache[n] # Unknown => content_entity_cache'[n] = content_entity_cache[n]
        BY DEF Learns, CacheOf
  <2>2. item.is = "text" \/ (item.is = "reference" /\ Allowed(item.of) /\ IsFlat(item.of))
        BY <1>3 DEF Readable
  <2>3. CASE item.is = "text"
        BY <2>3, <1>3 DEF Readable, Yield, FlatPiece
  <2>4. CASE item.is # "text"
    <3>1. item.is = "reference" /\ Allowed(item.of) /\ IsFlat(item.of) /\ item.of \in Name
          BY <2>2, <2>4, <1>1
    <3>2. content_entity_cache'[item.of] = content_entity_cache[item.of]
          BY <3>1, <2>1 DEF IsFlat
    <3>3. Allowed(item.of)' /\ IsFlat(item.of)'
          BY <3>1, <3>2, <1>2 DEF Allowed, IsFlat
    <3> QED BY <3>1, <3>2, <3>3, <2>4, <1>3 DEF Readable, Yield, FlatPiece
  <2> QED BY <2>3, <2>4
<1>4. CASE fn = "resolve"
  <2>1. \A n \in Name : attribute_entity_cache[n] # Unknown => attribute_entity_cache'[n] = attribute_entity_cache[n]
        BY DEF Learns, CacheOf
  <2>2. \/ item.is \in {"text", "predefined"}
        \/ /\ item.is = "reference"
           /\ \/ doc.entity[item.of].kind = "none"
              \/ Allowed(item.of) /\ IsResolved(item.of)
        BY <1>4 DEF Readable
  <2>3. CASE item.is # "reference"
        BY <2>2, <2>3, <1>4 DEF Readable, Yield, ValuePiece
  <2>4. CASE item.is = "reference" /\ doc.entity[item.of].kind = "none"
        BY <2>4, <1>2, <1>4 DEF Readable, Yield, ValuePiece
  <2>5. CASE item.is = "reference" /\ doc.entity[item.of].kind # "none"
    <3>1. Allowed(item.of) /\ IsResolved(item.of) /\ item.of \in Name
          BY <2>2, <2>5, <1>1
    <3>2. attribute_entity_cache'[item.of] = attribute_entity_cache[item.of]
          BY <3>1, <2>1 DEF IsResolved
    <3>3. Allowed(item.of)' /\ IsResolved(item.of)'
          BY <3>1, <3>2, <1>2 DEF Allowed, IsResolved
    <3> QED BY <3>1, <3>2, <3>3, <2>5, <1>2, <1>4 DEF Readable, Yield, ValuePiece
  <2> QED BY <2>3, <2>4, <2>5
<1> QED BY <1>3, <1>4

\* So does a text.
LEMMA StillRead ==
    ASSUME Learns, NEW fn \in {"flatten", "resolve"}, NEW text \in Seq(Item), ReadsAll(fn, text)
    PROVE  ReadsAll(fn, text)' /\ Gives(fn, text)' = Gives(fn, text)
<1>1. \A i \in DOMAIN text : text[i] \in Item /\ Readable(fn, text[i])
      BY DEF ReadsAll
<1>2. \A i \in DOMAIN text : Readable(fn, text[i])' /\ Yield(fn, text[i])' = Yield(fn, text[i])
      BY <1>1, StillReadable
<1>3. ReadsAll(fn, text)'
      BY <1>2 DEF ReadsAll
<1> DEFINE seqs == [i \in DOMAIN text |-> Yield(fn, text[i])]
<1>4. seqs' = seqs
      BY <1>2
<1>5. Gives(fn, text) = FlattenSeq(seqs) /\ Gives(fn, text)' = FlattenSeq(seqs')
      BY DEF Gives
<1> QED BY <1>3, <1>4, <1>5

\* One more piece, by what is known after the step.
LEMMA GivesMoreNext ==
    ASSUME NEW fn, NEW text \in Seq(Item), NEW item \in Item, NEW S, Yield(fn, item)' \in Seq(S)
    PROVE  /\ Gives(fn, Append(text, item))' = Gives(fn, text)' \o Yield(fn, item)'
           /\ ReadsAll(fn, Append(text, item))' <=> ReadsAll(fn, text)' /\ Readable(fn, item)'
<1> DEFINE n   == Len(text)
           new == Append(text, item)
           seqs == [i \in 1 .. n |-> Yield(fn, text[i])']
           more == [i \in 1 .. n + 1 |-> Yield(fn, new[i])']
<1>1. /\ n \in Nat /\ new \in Seq(Item) /\ Len(new) = n + 1 /\ new[n + 1] = item
      /\ DOMAIN text = 1 .. n /\ DOMAIN new = 1 .. n + 1
      /\ \A i \in 1 .. n : new[i] = text[i]
      OBVIOUS
<1>2. ReadsAll(fn, new)' <=> ReadsAll(fn, text)' /\ Readable(fn, item)'
  <2> HIDE DEF n, new
  <2>1. \A i \in 1 .. n + 1 : i \in 1 .. n \/ i = n + 1
        BY <1>1
  <2>2. n + 1 \in 1 .. n + 1 /\ \A i \in 1 .. n : i \in 1 .. n + 1
        BY <1>1
  <2>3. ReadsAll(fn, new)' <=> \A i \in DOMAIN new : Readable(fn, new[i])'
        BY DEF ReadsAll, new
  <2>4. ReadsAll(fn, text)' <=> \A i \in DOMAIN text : Readable(fn, text[i])'
        BY DEF ReadsAll
  <2> QED BY <2>1, <2>2, <2>3, <2>4, <1>1
<1>3. Gives(fn, text)' = FlattenSeq(seqs) /\ Gives(fn, new)' = FlattenSeq(more)
      BY <1>1 DEF Gives
<1>4. Len(seqs) = n /\ Len(more) = n + 1
  <2> HIDE DEF n
  <2> QED BY <1>1
<1>5. (\A i \in 1 .. n : seqs[i] = more[i]) /\ more[n + 1] = Yield(fn, item)'
  <2> HIDE DEF n, new
  <2>1. n + 1 \in 1 .. n + 1 /\ \A i \in 1 .. n : i \in 1 .. n + 1
        BY <1>1
  <2> QED BY <2>1, <1>1
<1> HIDE DEF seqs, more
<1>6. FlattenSeq(more) = IF n = 0 THEN more[1] ELSE FlattenSeq(seqs) \o more[n + 1]
  <2>1. n \in Nat /\ Len(seqs) = n /\ Len(more) = n + 1
        BY <1>1, <1>4
  <2>2. \A i \in 1 .. n : seqs[i] = more[i]
        BY <1>5
  <2> QED BY ONLY <2>1, <2>2, FlattenOneMore
<1>7. CASE n = 0
  <2>1. more[1] = Yield(fn, item)'
        BY <1>5, <1>7
  <2>2. << >> \o Yield(fn, item)' = Yield(fn, item)'
    <3> DEFINE y == Yield(fn, item)'
    <3> HIDE DEF y
    <3>1. y \in Seq(S) => << >> \o y = y
          OBVIOUS
    <3> QED BY <3>1 DEF y
  <2>3. FlattenSeq(seqs) = << >>
    <3>1. Len(seqs) = 0
          BY <1>4, <1>7
    <3>2. seqs = << >>
          BY <1>7 DEF seqs
    <3> QED BY <3>1, <3>2 DEF FlattenSeq
  <2>4. Gives(fn, new)' = Gives(fn, text)' \o Yield(fn, item)'
        BY <2>1, <2>2, <2>3, <1>3, <1>6, <1>7
  <2> QED BY <2>4, <1>2 DEF new
<1>8. CASE n # 0
  <2>1. Gives(fn, new)' = Gives(fn, text)' \o Yield(fn, item)'
        BY <1>3, <1>5, <1>6, <1>8
  <2> QED BY <2>1, <1>2 DEF new
<1> QED BY <1>7, <1>8

\* No text is one of the two marks in a cache.
LEMMA ItemMarks == \A s \in Seq(Item) : s \notin {Unknown, NotFlat}
<1>1. \A c \in Item : c.is \in {"text", "reference", "attribute", "open", "close",
                               "predefined", "charref", "cut"}
      BY DEF Item, Literal, Char, Reference, Attribute, OpenTag, CloseTag, Predefined, CharRef, Cut
<1>2. Unknown[1].is = "unknown" /\ NotFlat[1].is = "not flat" /\ Len(Unknown) = 1 /\ Len(NotFlat) = 1
      BY DEF Unknown, NotFlat
<1>3. \A s \in Seq(Item) : Len(s) = 1 => s[1] \in Item
      OBVIOUS
<1> QED BY <1>1, <1>2, <1>3

\* What a call has to do with what is in the caches, after a step.
LEMMA CallKept ==
    ASSUME Learns, UNCHANGED phase, NEW c, c.fn \in {"flatten", "resolve"}
    PROVE  /\ UpToDate(c) => UpToDate(c)'
           /\ \A name : Waits(c, name) => Waits(c, name)'
           /\ Pending(c) /\ (c.name # NoName => CacheOf(c.fn)'[c.name] = CacheOf(c.fn)[c.name])
                => Pending(c)'
<1>1. UNCHANGED doc
      BY DEF Learns
<1>2. Sources(c)' = Sources(c)
      BY <1>1 DEF Sources
<1>3. ASSUME NEW text \in Seq(Item), HasMade(c, text)
      PROVE  HasMade(c, text)'
      BY <1>3, StillRead DEF HasMade
<1>4. UpToDate(c) => UpToDate(c)'
      BY <1>2, <1>3 DEF UpToDate
<1>5. \A name : Waits(c, name) => Waits(c, name)'
      BY <1>2, <1>3 DEF Waits
<1>6. Pending(c) /\ (c.name # NoName => CacheOf(c.fn)'[c.name] = CacheOf(c.fn)[c.name])
        => Pending(c)'
  <2>1. CacheOf(c.fn)' = CacheOf(c.fn)'
        OBVIOUS
  <2>2. Allowed(c.name)' <=> Allowed(c.name)
        BY <1>1 DEF Allowed
  <2>3. (CacheOf(c.fn)[c.name])' = CacheOf(c.fn)'[c.name]
        OBVIOUS
  <2> QED BY <2>2, <2>3, <1>1 DEF Pending
<1> QED BY <1>4, <1>5, <1>6

\* The entries are faithful if those that are new are.
LEMMA EntriesKept ==
    ASSUME TypeOK, Learns, EntriesFaithful,
           \A fn \in {"flatten", "resolve"}, n \in Name :
               CacheOf(fn)'[n] = CacheOf(fn)[n] \/ Entry(fn, n)'
    PROVE  EntriesFaithful'
<1>1. UNCHANGED doc
      BY DEF Learns
<1> SUFFICES ASSUME NEW fn \in {"flatten", "resolve"}, NEW n \in Name
             PROVE  Entry(fn, n)'
    BY DEF EntriesFaithful
<1>2. CASE CacheOf(fn)'[n] = CacheOf(fn)[n]
  <2>1. Entry(fn, n) /\ doc.entity[n].text \in Seq(Item)
        BY EntityIs DEF EntriesFaithful, TypeOK
  <2> SUFFICES ASSUME CacheOf(fn)'[n] \notin {Unknown, NotFlat}'
               PROVE  /\ Allowed(n)' /\ (fn = "flatten" => ~doc'.xml11)
                      /\ ReadsAll(fn, doc.entity[n].text)'
                      /\ CacheOf(fn)'[n] = Gives(fn, doc.entity[n].text)'
      BY DEF Entry
  <2>2. CacheOf(fn)[n] \notin {Unknown, NotFlat}
        BY <1>2 DEF Unknown, NotFlat
  <2>3. /\ Allowed(n) /\ (fn = "flatten" => ~doc.xml11) /\ ReadsAll(fn, doc.entity[n].text)
        /\ CacheOf(fn)[n] = Gives(fn, doc.entity[n].text)
        BY <2>1, <2>2 DEF Entry
  <2> DEFINE text == doc.entity[n].text
  <2>4. text' = text
        BY <1>1
  <2>5. \A t \in Seq(Item) : ReadsAll(fn, t) => ReadsAll(fn, t)' /\ Gives(fn, t)' = Gives(fn, t)
        BY StillRead
  <2>6. ReadsAll(fn, text)' /\ Gives(fn, text)' = Gives(fn, text)
    <3> HIDE DEF text
    <3>1. text \in Seq(Item) /\ ReadsAll(fn, text)
          BY <2>1, <2>3 DEF text
    <3> QED BY <3>1, <2>4, <2>5 DEF ReadsAll, Gives
  <2>7. Allowed(n)'
        BY <2>3, <1>1 DEF Allowed
  <2> QED BY <2>3, <2>6, <2>7, <1>1, <1>2
<1> QED BY <1>2

\* Nothing is learnt, or one entry.
LEMMA LearnsNothing ==
    ASSUME UNCHANGED <<doc, content_entity_cache, attribute_entity_cache>>
    PROVE  /\ Learns
           /\ \A fn \in {"flatten", "resolve"}, n \in Name : CacheOf(fn)'[n] = CacheOf(fn)[n]
BY DEF Learns, CacheOf

\* The values in the tags come after those of the DTD.
SamePart == (phase' = "doctype") <=> (phase = "doctype")

\* The values that were meant are meant after a step that forgets nothing.
LEMMA ValuesKept ==
    ASSUME TypeOK, Learns, ValuesFaithful, UNCHANGED default_value, SamePart
    PROVE  /\ phase' # "doctype" =>
                ReadsAll("resolve", doc.default)' /\ default_value' = Gives("resolve", doc.default)'
           /\ \A e : Meant(e) => Meant(e)'
<1>1. UNCHANGED doc
      BY DEF Learns
<1>2. phase' # "doctype" =>
        ReadsAll("resolve", doc.default)' /\ default_value' = Gives("resolve", doc.default)'
  <2> SUFFICES ASSUME phase # "doctype"
               PROVE  ReadsAll("resolve", doc.default)' /\ default_value' = Gives("resolve", doc.default)'
      BY DEF SamePart
  <2> DEFINE text == doc.default
  <2>1. text \in Seq(Item) /\ ReadsAll("resolve", text) /\ default_value = Gives("resolve", text)
        BY DEF TypeOK, Legal, ValuesFaithful
  <2>2. text' = text
        BY <1>1
  <2>3. \A t \in Seq(Item) : ReadsAll("resolve", t)
          => ReadsAll("resolve", t)' /\ Gives("resolve", t)' = Gives("resolve", t)
        BY StillRead
  <2>4. ReadsAll("resolve", text)' /\ Gives("resolve", text)' = Gives("resolve", text)
    <3> HIDE DEF text
    <3> QED BY <2>1, <2>2, <2>3 DEF ReadsAll, Gives
  <2> QED BY <2>1, <2>4
<1>3. ASSUME NEW n \in Name, NEW value, ValueOf(n, value)
      PROVE  ValueOf(n, value)'
  <2> DEFINE text == <<Reference(n)>>
  <2>1. text \in Seq(Item)
    <3> DEFINE item == Reference(n)
    <3>1. item \in Item
          BY DEF Item
    <3> HIDE DEF item
    <3>2. <<item>> \in Seq(Item)
          BY <3>1
    <3> QED BY <3>2 DEF item
  <2>2. ReadsAll("resolve", text) /\ value = Gives("resolve", text)
        BY <1>3 DEF ValueOf
  <2> HIDE DEF text
  <2>3. ReadsAll("resolve", text)' /\ value = Gives("resolve", text)'
        BY <2>1, <2>2, StillRead
  <2> QED BY <2>3 DEF ValueOf, text
<1>4. \A e : Meant(e) => Meant(e)'
      BY <1>3 DEF Meant, SamePart
<1> QED BY <1>2, <1>4

\* The values that are heard of, one by one.
LEMMA ValuesStand ==
    ASSUME TypeOK, Learns, ValuesFaithful, UNCHANGED default_value, SamePart,
           NEW h, heard' = h, \A i \in 1 .. Len(h) : Meant(h[i])'
    PROVE  ValuesFaithful'
<1>1. phase' # "doctype" =>
        ReadsAll("resolve", doc.default)' /\ default_value' = Gives("resolve", doc.default)'
      BY ValuesKept
<1>2. \A i \in 1 .. Len(heard') : Meant(heard[i])'
      BY DEF Meant, ValueOf
<1> QED BY <1>1, <1>2 DEF ValuesFaithful

\* What may be scanned may still be.
LEMMA StillScannable ==
    ASSUME TypeOK, Learns, NEW n \in Name, NEW text \in Scannable(n)
    PROVE  text \in Scannable(n)'
<1>1. UNCHANGED doc
      BY DEF Learns
<1>2. content_entity_cache[n] # Unknown => content_entity_cache'[n] = content_entity_cache[n]
      BY DEF Learns, CacheOf
<1>3. text \notin {Unknown, NotFlat} /\ text \in {doc.entity[n].text, content_entity_cache[n]}
      BY DEF Scannable
<1>4. CASE text = doc.entity[n].text
      BY <1>1, <1>3, <1>4 DEF Scannable, Unknown, NotFlat
<1>5. CASE text = content_entity_cache[n]
  <2>1. text = content_entity_cache'[n]
        BY <1>2, <1>3, <1>5
  <2> QED BY <2>1, <1>3 DEF Scannable, Unknown, NotFlat
<1> QED BY <1>3, <1>4, <1>5

\* A text in pieces.
LEMMA OneByOne ==
    ASSUME NEW S, NEW text \in Seq(S), NEW rest \in Seq(S), rest # << >>
    PROVE  /\ Head(rest) \in S /\ Tail(rest) \in Seq(S)
           /\ Append(text, Head(rest)) \in Seq(S)
           /\ Append(text, Head(rest)) \o Tail(rest) = text \o rest
<1>1. Append(text, Head(rest)) \o Tail(rest) = text \o rest
      OBVIOUS
<1> QED BY <1>1

\* So is a text of a document.
LEMMA InPieces ==
    ASSUME NEW text \in Seq(Item), NEW rest \in Seq(Item), rest # << >>
    PROVE  /\ Head(rest) \in Item /\ Tail(rest) \in Seq(Item)
           /\ Append(text, Head(rest)) \in Seq(Item)
           /\ Append(text, Head(rest)) \o Tail(rest) = text \o rest
BY OneByOne

-----------------------------------------------------------------------------
(* The calls go on                                                         *)

CallAs(c, i) ==
    /\ Pending(c[i])
    /\ IF i = Len(c) THEN UpToDate(c[i]) ELSE Waits(c[i], c[i + 1].name)

\* The calls after a step, one by one.
LEMMA CallsAre ==
    ASSUME NEW c, calls' = c, \A i \in 1 .. Len(c) : CallAs(c, i)'
    PROVE  CallsFaithful'
<1> SUFFICES ASSUME NEW i \in 1 .. Len(c)
             PROVE  /\ Pending(calls[i])'
                    /\ IF i = Len(c) THEN UpToDate(calls[i])' ELSE Waits(calls[i], calls[i + 1].name)'
    BY DEF CallsFaithful
<1>1. Pending(c[i])' /\ IF i = Len(c) THEN UpToDate(c[i])' ELSE Waits(c[i], c[i + 1].name)'
      BY DEF CallAs
<1>2. Pending(calls[i])'
      BY <1>1 DEF Pending, CacheOf, Allowed
<1>3. \A text \in Seq(Item) : HasMade(calls[i], text)' <=> HasMade(c[i], text)'
      BY DEF HasMade, ReadsAll, Gives, Yield, Readable
<1>4. Sources(calls[i])' = Sources(c[i])'
      BY DEF Sources
<1>5. UpToDate(c[i])' => UpToDate(calls[i])'
      BY <1>3, <1>4 DEF UpToDate
<1>6. Waits(c[i], c[i + 1].name)' => Waits(calls[i], calls[i + 1].name)'
      BY <1>3, <1>4 DEF Waits
<1> QED BY <1>1, <1>2, <1>5, <1>6

\* A call to read a text: whose, and by which function.
LEMMA CallsIs ==
    ASSUME TypeOK, NEW i \in 1 .. Len(calls)
    PROVE  /\ calls[i].fn \in {"flatten", "resolve"} /\ calls[i].name \in Name \cup {NoName}
           /\ calls[i].rest \in Seq(Item)
           /\ calls[i].fn = "flatten" => calls[i].out \in Seq(Literal) \cup {NotFlat}
           /\ calls[i].fn = "resolve" => calls[i].out \in Seq(Letter)
<1>1. calls[i] \in Calls
      BY DEF TypeOK
<1> QED BY <1>1 DEF Calls

\* The calls that are not about what is learnt.
Undisturbed(c) ==
    \A fn \in {"flatten", "resolve"}, n \in Name :
        c.fn = fn /\ c.name = n => CacheOf(fn)'[n] = CacheOf(fn)[n]

\* A call that the step is not about.
LEMMA CallStands ==
    ASSUME TypeOK, Learns, UNCHANGED phase, CallsFaithful, NEW old, old = calls,
           NEW i \in 1 .. Len(old), Undisturbed(old[i])
    PROVE  CallAs(old, i)'
<1>1. Pending(old[i]) /\ IF i = Len(old) THEN UpToDate(old[i]) ELSE Waits(old[i], old[i + 1].name)
      BY DEF CallsFaithful
<1>2. old[i].fn \in {"flatten", "resolve"} /\ old[i].name \in Name \cup {NoName}
      BY CallsIs
<1> DEFINE e == old[i]
           next == old[i + 1].name
<1>3. e.fn \in {"flatten", "resolve"} /\ e.name \in Name \cup {NoName} /\ Undisturbed(e)
      BY <1>2
<1>4. Pending(e) /\ IF i = Len(old) THEN UpToDate(e) ELSE Waits(e, next)
      BY <1>1
<1>5. e.name # NoName => CacheOf(e.fn)'[e.name] = CacheOf(e.fn)[e.name]
      BY <1>3 DEF Undisturbed
<1> HIDE DEF e, next
<1>6. Pending(e)' /\ IF i = Len(old) THEN UpToDate(e)' ELSE Waits(e, next)'
      BY <1>3, <1>4, <1>5, CallKept
<1> QED BY <1>6 DEF CallAs, e, next

\* What is asked of a call but for what it has read.
LEMMA SameCall ==
    ASSUME NEW c, NEW d, d.fn = c.fn, d.name = c.name
    PROVE  /\ Pending(c)' => Pending(d)'
           /\ Sources(d)' = Sources(c)'
BY DEF Pending, Sources

\* One more piece has been read by a call that is as it was before but for
\* that, ...
LEMMA ReadUpToDate ==
    ASSUME NEW fn \in {"flatten", "resolve"}, NEW item \in Item,
           NEW c, NEW d, c.fn = fn, d.fn = fn, d.name = c.name,
           c.rest \in Seq(Item), c.rest # << >>, d.rest = Tail(c.rest), c.out # NotFlat,
           UpToDate(c)', item = Head(c.rest),
           \/ d.out = NotFlat
           \/ /\ Readable(fn, item)' /\ Yield(fn, item)' \in Seq(Letter)
              /\ d.out = c.out \o Yield(fn, item)'
    PROVE  UpToDate(d)'
<1>1. Sources(d)' = Sources(c)'
      BY SameCall
<1>2. CASE d.out = NotFlat
      BY <1>2 DEF UpToDate, NotFlat
<1>3. CASE /\ Readable(fn, item)' /\ Yield(fn, item)' \in Seq(Letter)
           /\ d.out = c.out \o Yield(fn, item)'
  <2>0. c.out # NotFlat'
        BY DEF NotFlat
  <2>1. PICK text \in Seq(Item) : text \o c.rest \in Sources(c)' /\ HasMade(c, text)'
        BY <2>0 DEF UpToDate
  <2>2. /\ item \in Item /\ Tail(c.rest) \in Seq(Item) /\ Append(text, item) \in Seq(Item)
        /\ Append(text, item) \o Tail(c.rest) = text \o c.rest
        BY InPieces
  <2>3. ReadsAll(fn, text)' /\ c.out = Gives(fn, text)'
        BY <2>1 DEF HasMade
  <2>4. fn \in {"flatten", "resolve"} /\ d.fn = fn
        OBVIOUS
  <2>5. ReadsAll(fn, Append(text, item))' /\ d.out = Gives(fn, Append(text, item))'
    <3>1. Yield(fn, item)' \in Seq(Letter) /\ Readable(fn, item)' /\ d.out = c.out \o Yield(fn, item)'
          BY <1>3
    <3>2. /\ Gives(fn, Append(text, item))' = Gives(fn, text)' \o Yield(fn, item)'
          /\ ReadsAll(fn, Append(text, item))' <=> ReadsAll(fn, text)' /\ Readable(fn, item)'
          BY <2>2, <3>1, GivesMoreNext
    <3> QED BY <2>3, <3>1, <3>2
  <2> DEFINE more == Append(text, item)
  <2>6. more \in Seq(Item) /\ more \o d.rest \in Sources(d)'
        BY <1>1, <2>1, <2>2
  <2>7. HasMade(d, more)'
        BY <2>4, <2>5 DEF HasMade
  <2> HIDE DEF more
  <2> QED BY <2>6, <2>7 DEF UpToDate
<1> QED BY <1>2, <1>3

\* ... or one that waits for it.
LEMMA ReadWaits ==
    ASSUME NEW fn \in {"flatten", "resolve"}, NEW c, NEW d, c.fn = fn, d.fn = fn, d.name = c.name,
           d.rest = c.rest, NEW name \in Name, Waits(c, name)',
           \/ d.out = NotFlat
           \/ /\ Readable(fn, Reference(name))' /\ Yield(fn, Reference(name))' \in Seq(Letter)
              /\ d.out = c.out \o Yield(fn, Reference(name))'
    PROVE  UpToDate(d)'
<1> DEFINE item == Reference(name)
<1>1. Sources(d)' = Sources(c)'
      BY SameCall
<1>2. CASE d.out = NotFlat
      BY <1>2 DEF UpToDate, NotFlat
<1>3. CASE /\ Readable(fn, item)' /\ Yield(fn, item)' \in Seq(Letter)
           /\ d.out = c.out \o Yield(fn, item)'
  <2>1. PICK text \in Seq(Item) : Append(text, item) \o c.rest \in Sources(c)' /\ HasMade(c, text)'
        BY DEF Waits
  <2>2. item \in Item
        BY DEF Item
  <2>3. ReadsAll(fn, text)' /\ c.out = Gives(fn, text)'
        BY <2>1 DEF HasMade
  <2>4. fn \in {"flatten", "resolve"} /\ d.fn = fn
        OBVIOUS
  <2> HIDE DEF item
  <2>5. ReadsAll(fn, Append(text, item))' /\ d.out = Gives(fn, Append(text, item))'
    <3>1. Yield(fn, item)' \in Seq(Letter) /\ Readable(fn, item)' /\ d.out = c.out \o Yield(fn, item)'
          BY <1>3
    <3>2. /\ Gives(fn, Append(text, item))' = Gives(fn, text)' \o Yield(fn, item)'
          /\ ReadsAll(fn, Append(text, item))' <=> ReadsAll(fn, text)' /\ Readable(fn, item)'
          BY <2>2, <3>1, GivesMoreNext
    <3> QED BY <2>3, <3>1, <3>2
  <2> DEFINE more == Append(text, item)
  <2>6. more \in Seq(Item) /\ more \o d.rest \in Sources(d)'
        BY <1>1, <2>1, <2>2
  <2>7. HasMade(d, more)'
        BY <2>4, <2>5 DEF HasMade
  <2> HIDE DEF more
  <2> QED BY <2>6, <2>7 DEF UpToDate
<1> QED BY <1>2, <1>3

\* The innermost call has read a piece.
LEMMA ReadOn ==
    ASSUME TypeOK, Shape, Learns, UNCHANGED phase, CallsFaithful, calls # << >>, More,
           NEW old, old = calls, \A i \in 1 .. Len(old) : Undisturbed(old[i]),
           NEW out, Fits(Current.fn, out), calls' = HasRead(out),
           NEW fn, NEW item, NEW made, fn = Current.fn, item = Piece, made = Current.out,
           \/ out = NotFlat
           \/ /\ Readable(fn, item)' /\ Yield(fn, item)' \in Seq(Letter)
              /\ out = made \o Yield(fn, item)'
    PROVE  CallsFaithful'
<1> DEFINE n == Len(old)
<1>1. PICK new : new = HasRead(out)
      OBVIOUS
<1>0. PICK c : c = Current
      OBVIOUS
<1>2. /\ n \in Nat /\ n >= 1 /\ c = old[n] /\ c.rest \in Seq(Item) /\ c.rest # << >>
      /\ c.out # NotFlat /\ item = Head(c.rest) /\ item \in Item
      /\ fn \in {"flatten", "resolve"} /\ c.fn = fn /\ made = c.out
      BY <1>0, CurrentIs DEF Current, Piece, More
<1>3. CallsShape(calls)
      BY DEF Shape
<1>4. /\ Len(new) = n /\ \A i \in 1 .. n - 1 : new[i] = old[i]
      /\ \A i \in 1 .. n : new[i].fn = old[i].fn /\ new[i].name = old[i].name
      /\ new[n].rest = Tail(c.rest) /\ new[n].out = out
      BY <1>0, <1>1, <1>3, OnePieceRead
<1>5. \A i \in 1 .. n : CallAs(old, i)'
      BY CallStands
<1> HIDE DEF n
<1>6. ASSUME NEW i \in 1 .. n
      PROVE  CallAs(new, i)'
  <2>1. Pending(old[i])' /\ IF i = n THEN UpToDate(old[i])' ELSE Waits(old[i], old[i + 1].name)'
        BY <1>5 DEF CallAs, n
  <2>2. CASE i # n
    <3>1. i \in 1 .. n - 1 /\ i + 1 \in 1 .. n
          BY <1>2, <2>2
    <3>2. new[i] = old[i] /\ new[i + 1].name = old[i + 1].name
          BY <1>4, <3>1
    <3> QED BY <1>4, <2>1, <2>2, <3>2 DEF CallAs
  <2>3. CASE i = n
    <3>0. PICK d : d = new[n]
          OBVIOUS
    <3>1. /\ d.fn = c.fn /\ d.name = c.name /\ d.rest = Tail(c.rest) /\ d.out = out
          /\ UpToDate(c)' /\ Pending(c)'
          BY <1>2, <1>4, <2>1, <2>3, <3>0
    <3>2. UpToDate(d)'
      <4>1. /\ fn \in {"flatten", "resolve"} /\ item \in Item
            /\ c.fn = fn /\ d.fn = fn /\ d.name = c.name
            /\ c.rest \in Seq(Item) /\ c.rest # << >> /\ d.rest = Tail(c.rest) /\ c.out # NotFlat
            /\ UpToDate(c)' /\ item = Head(c.rest)
            BY <1>2, <3>1
      <4>2. \/ d.out = NotFlat
            \/ /\ Readable(fn, item)' /\ Yield(fn, item)' \in Seq(Letter)
               /\ d.out = c.out \o Yield(fn, item)'
            BY <1>2, <3>1
      <4> QED BY ONLY <4>1, <4>2, ReadUpToDate
    <3>3. Pending(d)'
          BY <3>1, SameCall
    <3> QED BY <1>4, <2>3, <3>0, <3>2, <3>3 DEF CallAs
  <2> QED BY <2>2, <2>3
<1> QED BY <1>1, <1>4, <1>6, CallsAre

\* A call that has read nothing.
LEMMA NothingMade ==
    ASSUME NEW c, c.out = << >>, c.rest \in Seq(Item), c.rest \in Sources(c)'
    PROVE  UpToDate(c)'
<1>1. << >> \in Seq(Item) /\ << >> \o c.rest = c.rest
      OBVIOUS
<1>2. ReadsAll(c.fn, << >>)' /\ Gives(c.fn, << >>)' = << >>
  <2>1. ReadsAll(c.fn, << >>)'
        BY DEF ReadsAll
  <2> DEFINE seqs == [i \in DOMAIN << >> |-> Yield(c.fn, << >>[i])']
  <2>2. seqs = << >>
        OBVIOUS
  <2>3. FlattenSeq(<< >>) = << >>
        BY DEF FlattenSeq
  <2>4. Gives(c.fn, << >>)' = FlattenSeq(seqs)
        BY DEF Gives
  <2> QED BY <2>1, <2>2, <2>3, <2>4
<1>3. HasMade(c, << >>)'
      BY <1>2 DEF HasMade
<1> QED BY <1>1, <1>3 DEF UpToDate

\* A call that waits for the entity it comes to.
LEMMA NowWaits ==
    ASSUME NEW c, NEW d, NEW name \in Name, d.fn = c.fn, d.name = c.name, d.out = c.out,
           c.rest \in Seq(Item), c.rest # << >>, d.rest = Tail(c.rest), c.out # NotFlat,
           UpToDate(c)', Reference(name) = Head(c.rest)
    PROVE  Waits(d, name)'
<1>1. Sources(d)' = Sources(c)'
      BY SameCall
<1>2. c.out # NotFlat'
      BY DEF NotFlat
<1>3. PICK text \in Seq(Item) : text \o c.rest \in Sources(c)' /\ HasMade(c, text)'
      BY <1>2 DEF UpToDate
<1>4. Append(text, Reference(name)) \o Tail(c.rest) = text \o c.rest
      BY InPieces
<1>5. HasMade(d, text)'
      BY <1>3 DEF HasMade, ReadsAll, Gives
<1>6. Append(text, Reference(name)) \o d.rest \in Sources(d)'
      BY <1>1, <1>3, <1>4
<1> QED BY <1>5, <1>6 DEF Waits, Reference

\* The innermost call makes another.
LEMMA CallOn ==
    ASSUME TypeOK, Shape, Learns, UNCHANGED phase, CallsFaithful, calls # << >>, More,
           NEW old, old = calls, \A i \in 1 .. Len(old) : Undisturbed(old[i]),
           NEW name \in Name, Piece = Reference(name), calls' = Calling(name, doc.entity[name].text),
           Allowed(name), NEW fn, fn = Current.fn, CacheOf(fn)'[name] = Unknown,
           fn = "flatten" => ~doc.xml11
    PROVE  CallsFaithful'
<1> DEFINE n == Len(old)
           text == doc.entity[name].text
<1>0. PICK c : c = Current
      OBVIOUS
<1>1. PICK new : new = Calling(name, text)
      OBVIOUS
<1>2. /\ n \in Nat /\ n >= 1 /\ c = old[n] /\ c.rest \in Seq(Item) /\ c.rest # << >>
      /\ c.out # NotFlat /\ Reference(name) = Head(c.rest)
      /\ fn \in {"flatten", "resolve"} /\ c.fn = fn
      BY <1>0, CurrentIs DEF Current, Piece, More
<1>3. CallsShape(calls) /\ text \in Seq(Item) /\ UNCHANGED doc
      BY EntityIs DEF Shape, TypeOK, Learns
<1>4. /\ Len(new) = n + 1 /\ \A i \in 1 .. n - 1 : new[i] = old[i]
      /\ \A i \in 1 .. n : new[i].fn = old[i].fn /\ new[i].name = old[i].name
      /\ new[n].rest = Tail(c.rest) /\ new[n].out = c.out
      /\ new[n + 1].fn = fn /\ new[n + 1].name = name /\ new[n + 1].rest = text
      /\ new[n + 1].out = << >>
      BY <1>0, <1>1, <1>3, OneMoreCall
<1>5. \A i \in 1 .. n : CallAs(old, i)'
      BY CallStands
<1> HIDE DEF n
<1>6. PICK t : t = text
      OBVIOUS
<1>7. PICK d : d = new[n]
      OBVIOUS
<1>8. PICK e : e = new[n + 1]
      OBVIOUS
<1>9. Pending(c)' /\ UpToDate(c)'
      BY <1>2, <1>5 DEF CallAs, n
<1>10. d.fn = c.fn /\ d.name = c.name /\ d.out = c.out /\ d.rest = Tail(c.rest)
      BY <1>2, <1>4, <1>7
<1>11. Pending(d)' /\ Waits(d, name)'
      BY <1>2, <1>9, <1>10, SameCall, NowWaits
<1>12. e.fn = fn /\ e.name = name /\ e.rest = t /\ e.out = << >> /\ name # NoName
      BY <1>4, <1>6, <1>8, NameAssumption
<1>13. Pending(e)'
  <2>1. Allowed(name)' /\ (fn = "flatten" => ~doc'.xml11)
        BY <1>3 DEF Allowed
  <2>2. CacheOf(fn)'[name] = Unknown'
        BY DEF Unknown
  <2> QED BY <1>12, <2>1, <2>2 DEF Pending
<1>14. UpToDate(e)'
  <2>1. t \in Seq(Item) /\ doc'.entity[name].text = t
        BY <1>3, <1>6
  <2>2. e.rest \in Sources(e)' /\ e.rest \in Seq(Item)
        BY <1>12, <2>1 DEF Sources
  <2> QED BY <1>12, <2>2, NothingMade
<1>15. ASSUME NEW i \in 1 .. n + 1
       PROVE  CallAs(new, i)'
  <2>1. CASE i \in 1 .. n - 1
    <3>1. i \in 1 .. n /\ i # n /\ i + 1 \in 1 .. n /\ i # n + 1
          BY <1>2, <2>1
    <3>2. new[i] = old[i] /\ new[i + 1].name = old[i + 1].name
          BY <1>4, <2>1, <3>1
    <3>3. Pending(old[i])' /\ Waits(old[i], old[i + 1].name)'
          BY <1>5, <3>1 DEF CallAs, n
    <3> QED BY <1>4, <3>1, <3>2, <3>3 DEF CallAs
  <2>2. CASE i = n
    <3>1. i # n + 1 /\ new[i] = d /\ new[i + 1].name = name
          BY <1>2, <1>7, <1>8, <1>12, <2>2
    <3> QED BY <1>4, <1>11, <3>1 DEF CallAs
  <2>3. CASE i = n + 1
    <3>1. new[i] = e
          BY <1>8, <2>3
    <3> QED BY <1>4, <1>13, <1>14, <2>3, <3>1 DEF CallAs
  <2> QED BY <2>1, <2>2, <2>3, <1>2
<1> QED BY <1>1, <1>4, <1>15, CallsAre

\* The text of an entity has been read entirely.
LEMMA ReadEntirely ==
    ASSUME Learns, NEW c, c.fn \in {"flatten", "resolve"}, c.name \in Name, c.rest \in Seq(Item),
           Pending(c), UpToDate(c), c.rest = << >> \/ c.out = NotFlat,
           NEW fn, NEW name, NEW made, c.fn = fn, c.name = name, c.out = made,
           CacheOf(fn)'[name] = made
    PROVE  Entry(fn, name)' /\ Allowed(name) /\ (fn = "flatten" => ~doc.xml11)
<1>1. UNCHANGED doc
      BY DEF Learns
<1>2. Allowed(name) /\ (fn = "flatten" => ~doc.xml11) /\ name # NoName
      BY NameAssumption DEF Pending
<1>3. CASE made = NotFlat
      BY <1>2, <1>3 DEF Entry, NotFlat
<1>4. CASE made # NotFlat
  <2>1. PICK text \in Seq(Item) : text \o c.rest \in Sources(c) /\ HasMade(c, text)
        BY <1>4 DEF UpToDate
  <2>2. text \o c.rest = text
        BY <1>4
  <2>3. text = doc.entity[name].text
        BY <1>2, <2>1, <2>2 DEF Sources
  <2>4. ReadsAll(fn, text) /\ made = Gives(fn, text)
        BY <2>1 DEF HasMade
  <2>5. fn \in {"flatten", "resolve"}
        OBVIOUS
  <2>6. ReadsAll(fn, text)' /\ made = Gives(fn, text)'
        BY <2>4, <2>5, StillRead
  <2>7. text = doc'.entity[name].text
        BY <1>1, <2>3
  <2>8. Allowed(name)' /\ (fn = "flatten" => ~doc'.xml11)
        BY <1>1, <1>2 DEF Allowed
  <2>9. ReadsAll(fn, doc.entity[name].text)' /\ made = Gives(fn, doc.entity[name].text)'
        BY <2>6, <2>7 DEF ReadsAll, Gives
  <2> QED BY <1>2, <2>8, <2>9 DEF Entry
<1> QED BY <1>3, <1>4

\* The innermost call returns, and what it has made is in the cache.
LEMMA ReturnOn ==
    ASSUME TypeOK, Shape, Distinct, Learns, UNCHANGED phase, CallsFaithful, Len(calls) > 1,
           Return, ~More,
           NEW fn, fn = Current.fn, NEW name, name = Current.name, NEW made, made = Current.out,
           CacheOf(fn)'[name] = made,
           \A f \in {"flatten", "resolve"}, n \in Name :
               (f = fn /\ n = name) \/ CacheOf(f)'[n] = CacheOf(f)[n]
    PROVE  CallsFaithful' /\ Entry(fn, name)' /\ name \in Name
<1>1. PICK old : old = calls
      OBVIOUS
<1>2. PICK new : new = calls'
      OBVIOUS
<1> DEFINE n == Len(old)
<1>3. PICK c : c = Current
      OBVIOUS
<1>4. /\ n \in Nat /\ n > 1 /\ c = old[n] /\ c.rest \in Seq(Item) /\ fn \in {"flatten", "resolve"}
      /\ c.fn = fn /\ c.name = name /\ c.out = made
      /\ c.rest = << >> \/ made = NotFlat
  <2>1. calls # << >>
        OBVIOUS
  <2> QED BY <1>1, <1>3, <2>1, CurrentIs DEF Current, More
<1>5. UNCHANGED doc
      BY DEF Learns
<1>6. /\ Len(new) = n - 1 /\ \A i \in 1 .. n - 2 : new[i] = old[i]
      /\ \A i \in 1 .. n - 1 : /\ new[i].fn = old[i].fn /\ new[i].name = old[i].name
                               /\ new[i].rest = old[i].rest
      /\ new[n - 1].out = Joined(old[n - 1].out, made)
      BY <1>1, <1>2, ReturnIs
<1>7. CallsShape(old) /\ Different(old)
      BY <1>1 DEF Shape, Distinct
<1> HIDE DEF n
<1>8. name \in Name /\ old[n - 1].fn = fn
  <2>1. n \in 1 .. n /\ n - 1 \in 1 .. n /\ n # 1
        BY <1>4
  <2>2. name # NoName /\ old[n - 1].fn = old[n].fn
        BY <1>4, <1>7, <2>1 DEF CallsShape, n
  <2>3. name \in Name \cup {NoName}
        BY <1>1, <1>4, <2>1, CallsIs DEF n
  <2> QED BY <1>4, <2>2, <2>3
<1>9. ASSUME NEW i \in 1 .. n - 1
      PROVE  CallAs(old, i)'
  <2>1. i \in 1 .. n /\ i # n /\ n \in 1 .. n
        BY <1>4
  <2>2. old[i].name # name
        BY <1>4, <1>7, <2>1 DEF Different, n
  <2>3. Undisturbed(old[i])
        BY <2>2 DEF Undisturbed
  <2> QED BY <1>1, <2>1, <2>3, CallStands DEF n
<1>10. Pending(c) /\ UpToDate(c)
  <2>1. n \in 1 .. n
        BY <1>4
  <2> QED BY <1>1, <1>4, <2>1 DEF CallsFaithful, n
<1>11. Entry(fn, name)' /\ Allowed(name)
  <2>1. c.name \in Name /\ CacheOf(fn)'[name] = made
        BY <1>4, <1>8
  <2> QED BY ONLY Learns, <1>4, <1>10, <2>1, ReadEntirely
<1>13. \/ made = NotFlat
       \/ /\ Readable(fn, Reference(name))' /\ Yield(fn, Reference(name))' \in Seq(Letter)
          /\ Yield(fn, Reference(name))' = made
  <2> DEFINE item == Reference(name)
  <2>1. item.is = "reference" /\ item.of = name
        BY DEF Reference
  <2> HIDE DEF item
  <2>2. Allowed(name)' /\ doc'.entity[name].kind # "none"
        BY <1>5, <1>11 DEF Allowed
  <2>3. made # NotFlat => made \in Seq(Letter) /\ made # Unknown
    <3>1. calls # << >>
          OBVIOUS
    <3>2. \A s \in Seq(Literal) : s \in Seq(Letter)
          BY Literals
    <3> QED BY <3>1, <3>2, CurrentIs, Marks
  <2>4. CASE fn = "flatten" /\ made # NotFlat
    <3>1. content_entity_cache'[name] = made
          BY <2>4 DEF CacheOf
    <3>2. IsFlat(name)'
          BY <2>3, <2>4, <3>1 DEF IsFlat, Unknown, NotFlat
    <3>3. Readable(fn, item)' /\ Yield(fn, item)' = made
          BY <2>1, <2>2, <2>4, <3>1, <3>2 DEF Readable, Yield, FlatPiece
    <3> QED BY <2>3, <2>4, <3>3 DEF item
  <2>5. CASE fn = "resolve" /\ made # NotFlat
    <3>1. attribute_entity_cache'[name] = made
          BY <2>5 DEF CacheOf
    <3>2. IsResolved(name)'
          BY <2>3, <2>5, <3>1 DEF IsResolved, Unknown
    <3>3. Readable(fn, item)' /\ Yield(fn, item)' = made
          BY <2>1, <2>2, <2>5, <3>1, <3>2 DEF Readable, Yield, ValuePiece
    <3> QED BY <2>3, <2>5, <3>3 DEF item
  <2> QED BY <1>4, <2>4, <2>5
<1>14. PICK b : b = old[n - 1]
       OBVIOUS
<1>15. PICK d : d = new[n - 1]
       OBVIOUS
<1>16. n - 1 \in 1 .. n /\ n - 1 \in 1 .. n - 1 /\ n - 1 # n /\ (n - 1) + 1 = n /\ n \in 1 .. n
       BY <1>4
<1>17. Pending(b)' /\ Waits(b, name)' /\ b.out # NotFlat
  <2>1. CallAs(old, n - 1)'
        BY <1>9, <1>16
  <2>2. b.out # NotFlat
    <3>1. Len(old) = n /\ \A k \in 1 .. Len(old) : k < Len(old) => old[k].out # NotFlat
          BY <1>7 DEF CallsShape, n
    <3>2. n - 1 < n
          BY <1>4
    <3> QED BY <1>14, <1>16, <3>1, <3>2
  <2> QED BY <1>4, <1>14, <1>16, <2>1, <2>2 DEF CallAs, n
<1>18. /\ b.fn = fn /\ d.fn = fn /\ d.name = b.name /\ d.rest = b.rest
       /\ d.out = NotFlat \/ (made # NotFlat /\ d.out = b.out \o made)
       BY <1>6, <1>8, <1>14, <1>15, <1>16 DEF Joined
<1>19. UpToDate(d)'
  <2>1. \/ d.out = NotFlat
        \/ /\ Readable(fn, Reference(name))' /\ Yield(fn, Reference(name))' \in Seq(Letter)
           /\ d.out = b.out \o Yield(fn, Reference(name))'
        BY <1>13, <1>18
  <2> QED BY <1>4, <1>8, <1>17, <1>18, <2>1, ReadWaits
<1>20. Pending(d)'
       BY <1>17, <1>18, SameCall
<1>21. ASSUME NEW i \in 1 .. n - 1
       PROVE  CallAs(new, i)'
  <2>1. CASE i = n - 1
        BY <1>6, <1>15, <1>19, <1>20, <2>1 DEF CallAs
  <2>2. CASE i # n - 1
    <3>1. i \in 1 .. n - 2 /\ i + 1 \in 1 .. n - 1 /\ i # n
          BY <1>4, <2>2
    <3>2. new[i] = old[i] /\ new[i + 1].name = old[i + 1].name
          BY <1>6, <3>1
    <3>3. Pending(old[i])' /\ Waits(old[i], old[i + 1].name)'
          BY <1>9, <3>1 DEF CallAs, n
    <3> QED BY <1>6, <2>2, <3>2, <3>3 DEF CallAs
  <2> QED BY <2>1, <2>2
<1>22. CallsFaithful'
       BY <1>2, <1>6, <1>21, CallsAre
<1> QED BY <1>8, <1>11, <1>22

-----------------------------------------------------------------------------
(* The frames go on                                                        *)

\* One entry is learnt.
LEMMA LearnsOne ==
    ASSUME TypeOK, UNCHANGED doc, NEW fn \in {"flatten", "resolve"}, NEW name \in Name, NEW v,
           CacheOf(fn)[name] = Unknown,
           IF fn = "flatten"
           THEN /\ content_entity_cache' = [content_entity_cache EXCEPT ![name] = v]
                /\ UNCHANGED attribute_entity_cache
           ELSE /\ attribute_entity_cache' = [attribute_entity_cache EXCEPT ![name] = v]
                /\ UNCHANGED content_entity_cache
    PROVE  /\ Learns /\ CacheOf(fn)'[name] = v
           /\ \A f \in {"flatten", "resolve"}, n \in Name :
                (f = fn /\ n = name) \/ CacheOf(f)'[n] = CacheOf(f)[n]
<1>1. DOMAIN content_entity_cache = Name /\ DOMAIN attribute_entity_cache = Name
      BY DEF TypeOK
<1>2. CASE fn = "flatten"
  <2>1. content_entity_cache'[name] = v
        /\ \A n \in Name : n # name => content_entity_cache'[n] = content_entity_cache[n]
        BY <1>1, <1>2
  <2>2. content_entity_cache[name] = Unknown
        BY <1>2 DEF CacheOf
  <2> QED BY <1>2, <2>1, <2>2 DEF Learns, CacheOf
<1>3. CASE fn = "resolve"
  <2>1. attribute_entity_cache'[name] = v
        /\ \A n \in Name : n # name => attribute_entity_cache'[n] = attribute_entity_cache[n]
        BY <1>1, <1>3
  <2>2. attribute_entity_cache[name] = Unknown
        BY <1>3 DEF CacheOf
  <2> QED BY <1>3, <2>1, <2>2 DEF Learns, CacheOf
<1> QED BY <1>2, <1>3

\* What is learnt of an entity that has no text.
LEMMA LearnsFlat ==
    ASSUME TypeOK, NEW name \in Name, name \notin Expanding, content_entity_cache' = FlatCache(name),
           UNCHANGED <<doc, attribute_entity_cache>>,
           NEW old, old = calls
    PROVE  /\ Learns
           /\ \A fn \in {"flatten", "resolve"}, n \in Name :
                CacheOf(fn)'[n] = CacheOf(fn)[n] \/ CacheOf(fn)'[n] = NotFlat
           /\ \A i \in 1 .. Len(old) : Undisturbed(old[i])
           /\ Flat(name) = Unknown => UNCHANGED content_entity_cache
<1>1. \A i \in 1 .. Len(old) : old[i].name # name
      BY NotExpanding
<1>2. CASE UNCHANGED content_entity_cache
      BY <1>2, LearnsNothing DEF Undisturbed
<1>3. CASE /\ content_entity_cache' = [content_entity_cache EXCEPT ![name] = NotFlat]
           /\ content_entity_cache[name] = Unknown
  <2>1. /\ Learns
        /\ CacheOf("flatten")'[name] = NotFlat
        /\ \A f \in {"flatten", "resolve"}, n \in Name :
                (f = "flatten" /\ n = name) \/ CacheOf(f)'[n] = CacheOf(f)[n]
    <3>1. CacheOf("flatten")[name] = Unknown
          BY <1>3 DEF CacheOf
    <3> QED BY <1>3, <3>1, LearnsOne
  <2>2. \A i \in 1 .. Len(old) : Undisturbed(old[i])
        BY <1>1, <2>1 DEF Undisturbed
  <2>3. \A fn \in {"flatten", "resolve"}, n \in Name :
          CacheOf(fn)'[n] = CacheOf(fn)[n] \/ CacheOf(fn)'[n] = NotFlat
        BY <2>1
  <2>4. Flat(name) = Unknown => UNCHANGED content_entity_cache
        BY Marks DEF Flat, FlatCache
  <2> QED BY <2>1, <2>2, <2>3, <2>4
<1> QED BY <1>2, <1>3 DEF FlatCache

\* A text that is scanned for an entity.
FrameFaithful(f) == \E text \in Seq(Item) : text \o f.rest \in Scannable(f.name)

\* The frames after a step, one by one.
LEMMA FramesAre ==
    ASSUME NEW c, frames' = c, \A i \in 2 .. Len(c) : FrameFaithful(c[i])'
    PROVE  FramesFaithful'
<1>1. \A i \in 2 .. Len(c) : \E text \in Seq(Item) : text \o c[i].rest \in Scannable(c[i].name)'
      BY DEF FrameFaithful
<1> QED BY <1>1 DEF FramesFaithful, Scannable

\* A frame that the step is not about.
LEMMA FrameStands ==
    ASSUME TypeOK, Learns, NEW f, f.name \in Name, FrameFaithful(f)
    PROVE  FrameFaithful(f)'
<1>1. PICK text \in Seq(Item) : text \o f.rest \in Scannable(f.name)
      BY DEF FrameFaithful
<1>2. text \o f.rest \in Scannable(f.name)'
      BY <1>1, StillScannable
<1> QED BY <1>2 DEF FrameFaithful

\* The frames that were there.
LEMMA FramesStand ==
    ASSUME TypeOK, Shape, Learns, FramesFaithful, NEW old, old = frames, NEW i \in 2 .. Len(old)
    PROVE  FrameFaithful(old[i])' /\ old[i].name \in Name
<1>1. Len(old) \in Nat /\ old \in Seq(Frames) /\ i \in 1 .. Len(old) /\ i # 1
      BY FramesIs
<1>2. old[i].name \in Name \cup {NoName}
  <2>1. old[i] \in Frames
        BY <1>1
  <2> QED BY <2>1 DEF Frames
<1>3. old[i].name # NoName
      BY <1>1 DEF Shape, FramesShape
<1>4. FrameFaithful(old[i])
      BY DEF FramesFaithful, FrameFaithful
<1>5. PICK f : f = old[i]
      OBVIOUS
<1>6. FrameFaithful(f)'
      BY <1>2, <1>3, <1>4, <1>5, FrameStands
<1> QED BY <1>2, <1>3, <1>5, <1>6

\* The frames are as before.
LEMMA SameFrames ==
    ASSUME TypeOK, Shape, Learns, FramesFaithful, UNCHANGED frames
    PROVE  FramesFaithful'
<1>1. PICK old : old = frames
      OBVIOUS
<1>2. \A i \in 2 .. Len(old) : FrameFaithful(old[i])'
      BY <1>1, FramesStand
<1> QED BY <1>1, <1>2, FramesAre

\* The text that is scanned goes on.
LEMMA FramesGoOn ==
    ASSUME TypeOK, Shape, Learns, FramesFaithful, NEW rest \in Seq(Item), NEW text \in Seq(Item),
           text \o rest = Rest, NEW new, new = Advanced(rest)
    PROVE  \A i \in 2 .. Len(new) : FrameFaithful(new[i])'
<1>1. PICK old : old = frames
      OBVIOUS
<1>2. \A i \in 2 .. Len(old) : FrameFaithful(old[i])' /\ old[i].name \in Name
      BY <1>1, FramesStand
<1> DEFINE n == Len(old)
<1>3. n \in Nat /\ n >= 1 /\ old[n].rest = Rest
      BY <1>1, FramesIs DEF Rest, Top
<1>4. /\ Len(new) = n /\ \A i \in 1 .. n - 1 : new[i] = old[i]
      /\ \A i \in 1 .. n : new[i].name = old[i].name
      /\ new[n].rest = rest
      BY <1>1, AdvanceIs
<1> HIDE DEF n
<1>5. ASSUME NEW i \in 2 .. n
      PROVE  FrameFaithful(new[i])'
  <2>1. CASE i # n
    <3>1. i \in 1 .. n - 1
          BY <1>3, <2>1
    <3>2. new[i] = old[i]
          BY <1>4, <3>1
    <3> QED BY <1>2, <3>2 DEF n
  <2>2. CASE i = n
    <3>1. FrameFaithful(old[n])'
          BY <1>2, <2>2 DEF n
    <3>2. PICK before \in Seq(Item) : before \o old[n].rest \in Scannable(old[n].name)'
          BY <3>1 DEF FrameFaithful
    <3>3. new[n].name = old[n].name
          BY <1>3, <1>4
    <3> DEFINE sofar == before \o text
    <3>4. sofar \in Seq(Item) /\ sofar \o rest = before \o (text \o rest)
      <4>1. before \in Seq(Item) /\ text \in Seq(Item) /\ rest \in Seq(Item)
            OBVIOUS
      <4>2. sofar \o rest = before \o (text \o rest)
            BY ONLY <4>1, ConcatAssociative
      <4> QED BY <4>2
    <3> HIDE DEF sofar
    <3>5. PICK f : f = new[n]
          OBVIOUS
    <3>6. PICK name : name = old[n].name
          OBVIOUS
    <3>7. sofar \o f.rest \in Scannable(name)'
      <4>1. before \o old[n].rest \in Scannable(name)'
            BY <3>2, <3>6
      <4>2. sofar \o f.rest = before \o old[n].rest
            BY <1>3, <1>4, <3>4, <3>5
      <4> QED BY <4>1, <4>2
    <3>8. FrameFaithful(f)'
          BY <3>3, <3>4, <3>5, <3>6, <3>7 DEF FrameFaithful
    <3> QED BY <2>2, <3>5, <3>8
  <2> QED BY <2>1, <2>2
<1> QED BY <1>4, <1>5

-----------------------------------------------------------------------------
(* Every step keeps the caches faithful                                    *)

\* What is heard, without values among it.
NoValues(events) == \A i \in 1 .. Len(events) : events[i][1] # "attribute"

\* Or one value.
OnlyValue(events, value) == \A i \in 1 .. Len(events) : events[i][1] = "attribute" => events[i] = value

\* A value is heard that is meant.
LEMMA ValueHeard ==
    ASSUME TypeOK, Learns, ValuesFaithful, UNCHANGED default_value, SamePart,
           NEW value, Meant(value)',
           NEW events \in Seq(Events), OnlyValue(events, value), Hear(events)
    PROVE  ValuesFaithful'
<1>1. PICK h \in Seq(Events) : h = heard
      BY DEF TypeOK
<1> DEFINE all == h \o events
<1>2. heard' = all /\ Len(h) \in Nat /\ Len(events) \in Nat
      BY <1>1 DEF Hear
<1>3. \A i \in 1 .. Len(h) : Meant(h[i])'
  <2>1. \A e : Meant(e) => Meant(e)'
        BY ValuesKept
  <2>2. \A i \in 1 .. Len(h) : Meant(h[i])
        BY <1>1 DEF ValuesFaithful
  <2> QED BY <2>1, <2>2
<1>4. ASSUME NEW i \in 1 .. Len(all)
      PROVE  Meant(all[i])'
  <2>1. CASE i \in 1 .. Len(h)
    <3>1. all[i] = h[i]
          BY <2>1
    <3> QED BY <1>3, <2>1, <3>1
  <2>2. CASE i \notin 1 .. Len(h)
    <3>1. i - Len(h) \in 1 .. Len(events) /\ all[i] = events[i - Len(h)]
          BY <1>2, <2>2
    <3>2. all[i][1] = "attribute" => all[i] = value
          BY <3>1 DEF OnlyValue
    <3> HIDE DEF all
    <3>3. PICK e : e = all[i]
          OBVIOUS
    <3>4. CASE e[1] # "attribute"
          BY <3>3, <3>4 DEF Meant
    <3>5. CASE e[1] = "attribute"
      <4>1. e = value
            BY <3>2, <3>3, <3>5
      <4> QED BY <3>3, <4>1
    <3> QED BY <3>4, <3>5
  <2> QED BY <2>1, <2>2
<1> HIDE DEF all
<1>5. PICK s : s = all
      OBVIOUS
<1>6. heard' = s /\ \A i \in 1 .. Len(s) : Meant(s[i])'
      BY <1>2, <1>4, <1>5
<1> QED BY <1>6, ValuesStand

\* No value is heard.
LEMMA NoValuesHeard ==
    ASSUME TypeOK, Learns, ValuesFaithful, UNCHANGED default_value, SamePart,
           NEW events \in Seq(Events), NoValues(events), Hear(events)
    PROVE  ValuesFaithful'
<1>1. PICK value : value = <<"open">>
      OBVIOUS
<1>2. Meant(value)' /\ OnlyValue(events, value)
      BY <1>1 DEF Meant, NoValues, OnlyValue
<1> QED BY <1>2, ValueHeard

\* Nothing is heard.
LEMMA NoneHeard ==
    ASSUME TypeOK, Learns, ValuesFaithful, UNCHANGED <<default_value, heard>>,
           SamePart
    PROVE  ValuesFaithful'
<1>1. << >> \in Seq(Events) /\ NoValues(<< >>)
      BY Empty DEF NoValues
<1>2. Hear(<< >>)
      BY DEF Hear, TypeOK
<1> QED BY <1>1, <1>2, NoValuesHeard

\* What the functions that read do to the rest.
LEMMA ReadingHeard ==
    ASSUME TypeOK, Shape, Learns, Faithful,
           \/ FlattenCharacter \/ FlattenOther \/ FlattenReference \/ FlattenReturn
           \/ ResolveCharacter \/ ResolveOther \/ ResolveReference \/ ResolveReturn
    PROVE  ValuesFaithful' /\ FramesFaithful' /\ UNCHANGED <<doc, phase>>
<1>1. /\ UNCHANGED <<doc, phase, frames, default_value>>
      /\ \/ UNCHANGED heard
         \/ \E e \in Events : e[1] \in {"error", "skipped"} /\ heard' = Append(heard, e)
      BY ReadingSteps DEF buffers
<1>2. FramesFaithful'
      BY <1>1, SameFrames DEF Faithful
<1>3. CASE UNCHANGED heard
  <2>1. UNCHANGED <<default_value, heard>> /\ SamePart /\ ValuesFaithful
        BY <1>1, <1>3 DEF Faithful, SamePart
  <2> QED BY <1>1, <1>2, <2>1, NoneHeard
<1>4. CASE \E e \in Events : e[1] \in {"error", "skipped"} /\ heard' = Append(heard, e)
  <2>1. PICK e \in Events : e[1] \in {"error", "skipped"} /\ heard' = Append(heard, e)
        BY <1>4
  <2>2. <<e>> \in Seq(Events) /\ NoValues(<<e>>)
        BY <2>1 DEF NoValues
  <2>3. Hear(<<e>>)
        BY <2>1 DEF Hear, TypeOK
  <2>4. UNCHANGED default_value /\ SamePart /\ ValuesFaithful
        BY <1>1 DEF Faithful, SamePart
  <2> QED BY <1>1, <1>2, <2>2, <2>3, <2>4, NoValuesHeard
<1> QED BY <1>1, <1>2, <1>3, <1>4

\* No call is left.
LEMMA NoCallsLeft ==
    ASSUME calls' = << >>
    PROVE  CallsFaithful'
BY DEF CallsFaithful

\* The entries there were are there.
LEMMA SameEntries ==
    ASSUME TypeOK, Learns, EntriesFaithful, UNCHANGED <<content_entity_cache, attribute_entity_cache>>
    PROVE  EntriesFaithful'
<1>1. \A fn \in {"flatten", "resolve"}, n \in Name : CacheOf(fn)'[n] = CacheOf(fn)[n]
      BY DEF CacheOf
<1> QED BY <1>1, EntriesKept

\* What is read of a piece that is no reference.
LEMMA FlattenCharacterFaithful ==
    ASSUME TypeOK, Shape, Faithful, FlattenCharacter
    PROVE  Faithful'
<1>1. /\ calls # << >> /\ More /\ Piece.is = "text" /\ Current.fn = "flatten"
      /\ calls' = HasRead(Append(Current.out, Piece))
      /\ UNCHANGED <<doc, phase, content_entity_cache, attribute_entity_cache>>
      BY DEF FlattenCharacter, In, caches
<1>2. /\ Learns
      /\ \A fn \in {"flatten", "resolve"}, n \in Name : CacheOf(fn)'[n] = CacheOf(fn)[n]
      BY <1>1, LearnsNothing
<1>3. PICK old : old = calls
      OBVIOUS
<1>4. \A i \in 1 .. Len(old) : Undisturbed(old[i])
      BY <1>2 DEF Undisturbed
<1>5. PICK item \in Item : item = Piece
      BY <1>1, PieceIs
<1>6. PICK made \in Seq(Literal) : made = Current.out
      BY <1>1, CurrentIs, PieceIs
<1>7. PICK fn : fn = "flatten"
      OBVIOUS
<1>8. Readable(fn, item)' /\ Yield(fn, item)' = <<item>> /\ item \in Literal
      BY <1>1, <1>5, <1>7, ItemIs DEF Readable, Yield, FlatPiece
<1>9. Append(made, item) = made \o <<item>> /\ <<item>> \in Seq(Letter)
      BY <1>8, Literals
<1>10. PICK out : out = Append(made, item)
       OBVIOUS
<1>11. /\ Fits(Current.fn, out) /\ calls' = HasRead(out) /\ out = made \o Yield(fn, item)'
       /\ Yield(fn, item)' \in Seq(Letter)
       BY <1>1, <1>5, <1>6, <1>8, <1>9, <1>10, CharacterFits
<1>12. CallsFaithful /\ UNCHANGED phase /\ fn = Current.fn
       BY <1>1, <1>7 DEF Faithful
<1>13. CallsFaithful'
       BY ONLY TypeOK, Shape, <1>1, <1>2, <1>3, <1>4, <1>5, <1>6, <1>8, <1>11, <1>12, ReadOn
<1>14. EntriesFaithful'
       BY <1>1, <1>2, SameEntries DEF Faithful
<1> QED BY <1>2, <1>13, <1>14, ReadingHeard DEF Faithful

\* What cannot be flattened keeps what is in the caches faithful.
LEMMA FlattenOtherFaithful ==
    ASSUME TypeOK, Shape, Faithful, FlattenOther
    PROVE  Faithful'
<1>1. /\ calls # << >> /\ More /\ calls' = HasRead(NotFlat) /\ Fits(Current.fn, NotFlat)
      /\ UNCHANGED <<doc, phase, content_entity_cache, attribute_entity_cache>>
      BY DEF FlattenOther, In, caches, Fits
<1>2. /\ Learns
      /\ \A fn \in {"flatten", "resolve"}, n \in Name : CacheOf(fn)'[n] = CacheOf(fn)[n]
      BY <1>1, LearnsNothing
<1>3. PICK old : old = calls
      OBVIOUS
<1>4. \A i \in 1 .. Len(old) : Undisturbed(old[i])
      BY <1>2 DEF Undisturbed
<1>5. PICK out : out = NotFlat
      OBVIOUS
<1>6. PICK item : item = Piece
      OBVIOUS
<1>7. PICK made : made = Current.out
      OBVIOUS
<1>8. PICK fn : fn = Current.fn
      OBVIOUS
<1>9. CallsFaithful /\ UNCHANGED phase /\ Fits(Current.fn, out) /\ calls' = HasRead(out)
       BY <1>1, <1>5 DEF Faithful
<1>10. CallsFaithful'
       BY ONLY TypeOK, Shape, <1>1, <1>2, <1>3, <1>4, <1>5, <1>6, <1>7, <1>8, <1>9, ReadOn
<1>11. EntriesFaithful'
       BY <1>1, <1>2, SameEntries DEF Faithful
<1> QED BY <1>2, <1>10, <1>11, ReadingHeard DEF Faithful

\* A character of a value keeps what is in the caches faithful.
LEMMA ResolveCharacterFaithful ==
    ASSUME TypeOK, Shape, Faithful, ResolveCharacter
    PROVE  Faithful'
<1>1. /\ calls # << >> /\ More /\ Piece.is \in {"text", "predefined"} /\ Current.fn = "resolve"
      /\ calls' = HasRead(Append(Current.out, Char(Piece.of)))
      /\ UNCHANGED <<doc, phase, content_entity_cache, attribute_entity_cache>>
      BY DEF ResolveCharacter, In, caches
<1>2. /\ Learns
      /\ \A fn \in {"flatten", "resolve"}, n \in Name : CacheOf(fn)'[n] = CacheOf(fn)[n]
      BY <1>1, LearnsNothing
<1>3. PICK old : old = calls
      OBVIOUS
<1>4. \A i \in 1 .. Len(old) : Undisturbed(old[i])
      BY <1>2 DEF Undisturbed
<1>5. PICK item \in Item : item = Piece
      BY <1>1, PieceIs
<1>6. PICK made \in Seq(Letter) : made = Current.out
      BY <1>1, CurrentIs
<1>7. PICK fn : fn = "resolve"
      OBVIOUS
<1>8. PICK char \in Letter : char = Char(item.of)
      BY <1>1, <1>5, ItemIs
<1>9. Readable(fn, item)' /\ Yield(fn, item)' = <<char>>
      BY <1>1, <1>5, <1>7, <1>8 DEF Readable, Yield, ValuePiece
<1>10. Append(made, char) = made \o <<char>> /\ <<char>> \in Seq(Letter)
      OBVIOUS
<1>11. PICK out : out = Append(made, char)
       OBVIOUS
<1>12. /\ Fits(Current.fn, out) /\ calls' = HasRead(out) /\ out = made \o Yield(fn, item)'
       /\ Yield(fn, item)' \in Seq(Letter)
       BY <1>1, <1>5, <1>6, <1>8, <1>9, <1>10, <1>11, CharacterFits
<1>13. CallsFaithful /\ UNCHANGED phase /\ fn = Current.fn
       BY <1>1, <1>7 DEF Faithful
<1>14. CallsFaithful'
       BY ONLY TypeOK, Shape, <1>1, <1>2, <1>3, <1>4, <1>5, <1>6, <1>9, <1>12, <1>13, ReadOn
<1>15. EntriesFaithful'
       BY <1>1, <1>2, SameEntries DEF Faithful
<1> QED BY <1>2, <1>14, <1>15, ReadingHeard DEF Faithful

\* What a value may not have in it keeps what is in the caches faithful.
LEMMA ResolveOtherFaithful ==
    ASSUME TypeOK, Shape, Faithful, ResolveOther
    PROVE  Faithful'
<1>1. calls' = << >> /\ UNCHANGED <<doc, phase, content_entity_cache, attribute_entity_cache>>
      BY DEF ResolveOther, caches
<1>2. Learns
      BY <1>1, LearnsNothing
<1>3. CallsFaithful'
      BY <1>1, NoCallsLeft
<1>4. EntriesFaithful'
      BY <1>1, <1>2, SameEntries DEF Faithful
<1> QED BY <1>2, <1>3, <1>4, ReadingHeard DEF Faithful

\* The entries, if nothing is learnt but that there is no text.
LEMMA EntriesOrNone ==
    ASSUME TypeOK, Learns, EntriesFaithful,
           \A fn \in {"flatten", "resolve"}, n \in Name :
               CacheOf(fn)'[n] = CacheOf(fn)[n] \/ CacheOf(fn)'[n] = NotFlat
    PROVE  EntriesFaithful'
<1>1. \A fn \in {"flatten", "resolve"}, n \in Name : CacheOf(fn)'[n] = NotFlat => Entry(fn, n)'
      BY DEF Entry, NotFlat
<1> QED BY <1>1, EntriesKept

\* A call within, if nothing is learnt.
LEMMA CallWithin ==
    ASSUME TypeOK, Shape, Learns, UNCHANGED phase, CallsFaithful, calls # << >>, More,
           NEW old, old = calls, \A i \in 1 .. Len(old) : Undisturbed(old[i]),
           NEW fn, fn = Current.fn, NEW name \in Name, Piece = Reference(name),
           NEW answer, answer = Answer(name, fn = "flatten"), answer = "expand",
           doc.entity[name].kind = "internal", CacheOf(fn)'[name] = Unknown,
           fn = "flatten" => ~doc.xml11,
           calls' = Calling(name, doc.entity[name].text)
    PROVE  CallsFaithful'
<1>1. Legal(doc) /\ (fn = "flatten") \in BOOLEAN
      BY DEF TypeOK
<1>2. Allowed(name)
      BY <1>1, Answers DEF Allowed
<1> QED BY ONLY TypeOK, Shape, Learns, UNCHANGED phase, CallsFaithful, calls # << >>, More,
           old = calls, \A i \in 1 .. Len(old) : Undisturbed(old[i]),
           fn = Current.fn, name \in Name, Piece = Reference(name), CacheOf(fn)'[name] = Unknown,
           fn = "flatten" => ~doc.xml11, calls' = Calling(name, doc.entity[name].text), <1>2, CallOn

\* A reference in a text that is flattened keeps what is in the caches
\* faithful.
LEMMA FlattenReferenceFaithful ==
    ASSUME TypeOK, Shape, Faithful, FlattenReference
    PROVE  Faithful'
<1>1. /\ calls # << >> /\ More /\ Current.fn = "flatten" /\ Piece.is = "reference"
      /\ Piece.of \in Name
      /\ UNCHANGED <<doc, phase, attribute_entity_cache>>
      BY FlattenReferenceCases
<1>2. PICK name \in Name, answer \in {"expand", "limit", "fatal", "skipped", "error"} :
                /\ name = Piece.of /\ answer = Answer(name, TRUE)
                /\ \/ /\ answer \in {"fatal", "limit"} /\ calls' = << >>
                      /\ UNCHANGED content_entity_cache
                   \/ /\ answer \in {"skipped", "error"} /\ calls' = HasRead(NotFlat)
                      /\ Fits(Current.fn, NotFlat) /\ UNCHANGED content_entity_cache
                   \/ /\ answer = "expand" /\ name \notin Expanding /\ Flat(name) = Unknown
                      /\ content_entity_cache' = FlatCache(name)
                      /\ calls' = Calling(name, doc.entity[name].text)
                   \/ /\ answer = "expand" /\ Flat(name) # Unknown
                      /\ content_entity_cache' = FlatCache(name)
                      /\ calls' = HasRead(Joined(Current.out, Flat(name)))
                      /\ Fits(Current.fn, Joined(Current.out, Flat(name)))
      BY FlattenReferenceCases
<1>3. PICK old : old = calls
      OBVIOUS
<1>4. PICK item \in Item : item = Piece /\ item = Reference(name)
      BY <1>1, <1>2, PieceIs, ItemIs
<1>5. PICK made \in Seq(Literal) : made = Current.out
      BY <1>1, CurrentIs, PieceIs
<1>6. PICK fn : fn = "flatten"
      OBVIOUS
<1>7. CallsFaithful /\ EntriesFaithful
      BY DEF Faithful
<1>8. Legal(doc) /\ (answer = "expand" => name \notin Expanding)
      BY <1>2, Answers DEF TypeOK
<1>9. /\ Learns
      /\ \A f \in {"flatten", "resolve"}, n \in Name :
           CacheOf(f)'[n] = CacheOf(f)[n] \/ CacheOf(f)'[n] = NotFlat
      /\ \A i \in 1 .. Len(old) : Undisturbed(old[i])
      /\ Flat(name) = Unknown => UNCHANGED content_entity_cache
  <2>1. CASE UNCHANGED content_entity_cache
        BY <1>1, <2>1, LearnsNothing DEF Undisturbed
  <2>2. CASE answer = "expand" /\ content_entity_cache' = FlatCache(name)
        BY <1>1, <1>3, <1>8, <2>2, LearnsFlat
  <2> QED BY <1>2, <2>1, <2>2
<1>10. EntriesFaithful'
       BY <1>7, <1>9, EntriesOrNone
<1>11. CallsFaithful'
  <2>1. CASE calls' = << >>
        BY <2>1, NoCallsLeft
  <2>2. CASE calls' = HasRead(NotFlat) /\ Fits(Current.fn, NotFlat)
    <3>1. PICK out : out = NotFlat
          OBVIOUS
    <3>2. calls' = HasRead(out) /\ Fits(Current.fn, out) /\ fn = Current.fn /\ UNCHANGED phase
          BY <1>1, <1>6, <2>2, <3>1
    <3> QED BY ONLY TypeOK, Shape, <1>1, <1>3, <1>4, <1>5, <1>7, <1>9, <3>1, <3>2, ReadOn
  <2>3. CASE /\ answer = "expand" /\ Flat(name) = Unknown
             /\ calls' = Calling(name, doc.entity[name].text)
    <3>1. content_entity_cache[name] = Unknown /\ ~doc.xml11 /\ doc.entity[name].kind = "internal"
          BY <1>8, <2>3, Marks DEF Flat
    <3>2. CacheOf(fn)'[name] = Unknown
          BY <1>6, <1>9, <2>3, <3>1 DEF CacheOf
    <3>3. answer = Answer(name, fn = "flatten") /\ fn = Current.fn /\ Piece = Reference(name)
            /\ UNCHANGED phase
      <4>1. (fn = "flatten") = TRUE
            BY <1>6
      <4> QED BY <1>1, <1>2, <1>4, <1>6, <4>1
    <3> QED BY ONLY TypeOK, Shape, <1>1, <1>3, <1>7, <1>9, <2>3, <3>1, <3>2, <3>3, CallWithin
  <2>4. CASE /\ answer = "expand" /\ Flat(name) # Unknown
             /\ calls' = HasRead(Joined(Current.out, Flat(name)))
             /\ Fits(Current.fn, Joined(Current.out, Flat(name)))
    <3>1. PICK out : out = Joined(Current.out, Flat(name))
          OBVIOUS
    <3>2. \/ out = NotFlat
          \/ /\ Readable(fn, item)' /\ Yield(fn, item)' \in Seq(Letter)
             /\ out = made \o Yield(fn, item)'
      <4>1. CASE Flat(name) = NotFlat
            BY <3>1, <4>1 DEF Joined
      <4>2. CASE Flat(name) # NotFlat
        <5>1. Flat(name) = content_entity_cache[name] /\ content_entity_cache[name] # Unknown
              BY <2>4, <4>2 DEF Flat
        <5>2. Flat(name) \in Seq(Literal)
              BY <2>4, <4>2, CacheIs
        <5>3. content_entity_cache'[name] = content_entity_cache[name]
              BY <1>9, <5>1 DEF Learns, CacheOf
        <5>4. Entry(fn, name) /\ CacheOf(fn)[name] \notin {Unknown, NotFlat}
              BY <1>6, <1>7, <4>2, <5>1 DEF EntriesFaithful, CacheOf
        <5>5. Allowed(name)
              BY <5>4 DEF Entry
        <5>6. Allowed(name)' /\ IsFlat(name)'
              BY <1>1, <4>2, <5>1, <5>3, <5>5 DEF Allowed, IsFlat, Unknown, NotFlat
        <5>7. item.is = "reference" /\ item.of = name
              BY <1>4 DEF Reference
        <5>8. Readable(fn, item)' /\ Yield(fn, item)' = Flat(name)
              BY <1>6, <5>1, <5>3, <5>6, <5>7 DEF Readable, Yield, FlatPiece
        <5>9. Flat(name) \in Seq(Letter)
              BY <5>2, Literals
        <5> QED BY <1>5, <3>1, <4>2, <5>8, <5>9 DEF Joined
      <4> QED BY <4>1, <4>2
    <3>3. calls' = HasRead(out) /\ Fits(Current.fn, out) /\ fn = Current.fn /\ UNCHANGED phase
          BY <1>1, <1>6, <2>4, <3>1
    <3> QED BY ONLY TypeOK, Shape, <1>1, <1>3, <1>4, <1>5, <1>7, <1>9, <3>2, <3>3, ReadOn
  <2> QED BY <1>2, <2>1, <2>2, <2>3, <2>4
<1> QED BY <1>9, <1>10, <1>11, ReadingHeard DEF Faithful

\* A reference in a value keeps what is in the caches faithful.
LEMMA ResolveReferenceFaithful ==
    ASSUME TypeOK, Shape, Faithful, ResolveReference
    PROVE  Faithful'
<1>1. /\ calls # << >> /\ More /\ Current.fn = "resolve" /\ Piece.is = "reference"
      /\ Piece.of \in Name
      /\ UNCHANGED <<doc, phase, content_entity_cache, attribute_entity_cache>>
      BY ResolveReferenceCases
<1>2. PICK name \in Name, answer \in {"expand", "limit", "fatal", "skipped", "error"} :
                /\ name = Piece.of /\ answer = Answer(name, FALSE)
                /\ \/ answer \in {"fatal", "limit"} /\ calls' = << >>
                   \/ /\ answer \in {"skipped", "error"} /\ calls' = HasRead(Current.out)
                      /\ Fits(Current.fn, Current.out)
                   \/ /\ answer = "expand" /\ name \notin Expanding
                      /\ attribute_entity_cache[name] = Unknown
                      /\ calls' = Calling(name, doc.entity[name].text)
                   \/ /\ answer = "expand" /\ attribute_entity_cache[name] \in Seq(Letter)
                      /\ calls' = HasRead(Current.out \o attribute_entity_cache[name])
                      /\ Fits(Current.fn, Current.out \o attribute_entity_cache[name])
      BY ResolveReferenceCases
<1>3. PICK old : old = calls
      OBVIOUS
<1>4. PICK item \in Item : item = Piece /\ item = Reference(name)
      BY <1>1, <1>2, PieceIs, ItemIs
<1>5. PICK made \in Seq(Letter) : made = Current.out
      BY <1>1, CurrentIs
<1>6. PICK fn : fn = "resolve"
      OBVIOUS
<1>7. CallsFaithful /\ EntriesFaithful
      BY DEF Faithful
<1>8. Legal(doc)
      BY DEF TypeOK
<1>9. /\ Learns /\ \A i \in 1 .. Len(old) : Undisturbed(old[i])
      BY <1>1, LearnsNothing DEF Undisturbed
<1>10. EntriesFaithful'
       BY <1>1, <1>7, <1>9, SameEntries
<1>11. item.is = "reference" /\ item.of = name
       BY <1>4 DEF Reference
<1>12. CallsFaithful'
  <2>1. CASE calls' = << >>
        BY <2>1, NoCallsLeft
  <2>2. CASE /\ answer \in {"skipped", "error"} /\ calls' = HasRead(Current.out)
             /\ Fits(Current.fn, Current.out)
    <3>1. PICK out : out = made
          OBVIOUS
    <3>2. doc'.entity[name].kind = "none"
          BY <1>1, <1>2, <1>8, <2>2, Answers
    <3>3. Readable(fn, item)' /\ Yield(fn, item)' = << >>
          BY <1>6, <1>11, <3>2 DEF Readable, Yield, ValuePiece
    <3>4. made \o << >> = made /\ << >> \in Seq(Letter)
          OBVIOUS
    <3>5. /\ Readable(fn, item)' /\ Yield(fn, item)' \in Seq(Letter)
          /\ out = made \o Yield(fn, item)'
          BY <3>1, <3>3, <3>4
    <3>6. calls' = HasRead(out) /\ Fits(Current.fn, out) /\ fn = Current.fn /\ UNCHANGED phase
          BY <1>1, <1>5, <1>6, <2>2, <3>1
    <3> QED BY ONLY TypeOK, Shape, <1>1, <1>3, <1>4, <1>5, <1>7, <1>9, <3>5, <3>6, ReadOn
  <2>3. CASE /\ answer = "expand" /\ attribute_entity_cache[name] = Unknown
             /\ calls' = Calling(name, doc.entity[name].text)
    <3>1. doc.entity[name].kind = "internal"
          BY <1>2, <1>8, <2>3, Answers
    <3>2. CacheOf(fn)'[name] = Unknown
          BY <1>1, <1>6, <2>3 DEF CacheOf
    <3>3. answer = Answer(name, fn = "flatten") /\ fn = Current.fn /\ Piece = Reference(name)
            /\ UNCHANGED phase /\ fn # "flatten"
      <4>1. (fn = "flatten") = FALSE
            BY <1>6
      <4> QED BY <1>1, <1>2, <1>4, <1>6, <4>1
    <3> QED BY ONLY TypeOK, Shape, <1>1, <1>3, <1>7, <1>9, <2>3, <3>1, <3>2, <3>3, CallWithin
  <2>4. CASE /\ answer = "expand" /\ attribute_entity_cache[name] \in Seq(Letter)
             /\ calls' = HasRead(Current.out \o attribute_entity_cache[name])
             /\ Fits(Current.fn, Current.out \o attribute_entity_cache[name])
    <3>1. PICK out : out = Current.out \o attribute_entity_cache[name]
          OBVIOUS
    <3>2. attribute_entity_cache[name] \notin {Unknown, NotFlat}
          BY <2>4, Marks
    <3>3. Entry(fn, name) /\ CacheOf(fn)[name] \notin {Unknown, NotFlat}
          BY <1>6, <1>7, <3>2 DEF EntriesFaithful, CacheOf
    <3>4. Allowed(name)
          BY <3>3 DEF Entry
    <3>5. Allowed(name)' /\ IsResolved(name)' /\ doc'.entity[name].kind # "none"
          BY <1>1, <3>2, <3>4 DEF Allowed, IsResolved, Unknown
    <3>6. Readable(fn, item)' /\ Yield(fn, item)' = attribute_entity_cache[name]
          BY <1>1, <1>6, <1>11, <3>5 DEF Readable, Yield, ValuePiece
    <3>7. /\ Readable(fn, item)' /\ Yield(fn, item)' \in Seq(Letter)
          /\ out = made \o Yield(fn, item)'
          BY <1>5, <2>4, <3>1, <3>6
    <3>8. calls' = HasRead(out) /\ Fits(Current.fn, out) /\ fn = Current.fn /\ UNCHANGED phase
          BY <1>1, <1>6, <2>4, <3>1
    <3> QED BY ONLY TypeOK, Shape, <1>1, <1>3, <1>4, <1>5, <1>7, <1>9, <3>7, <3>8, ReadOn
  <2> QED BY <1>2, <2>1, <2>2, <2>3, <2>4
<1> QED BY <1>9, <1>10, <1>12, ReadingHeard DEF Faithful

\* The text of an entity has been read.
LEMMA ReturnFaithful ==
    ASSUME TypeOK, Shape, Distinct, Faithful, FlattenReturn \/ ResolveReturn
    PROVE  Faithful'
<1>1. PICK fn \in {"flatten", "resolve"} : fn = Current.fn
      BY DEF FlattenReturn, ResolveReturn, In
<1>2. PICK name : name = Current.name
      OBVIOUS
<1>3. PICK made : made = Current.out
      OBVIOUS
<1>4. calls # << >> /\ Len(calls) > 1 /\ Return /\ ~More /\ UNCHANGED <<doc, phase>>
      BY DEF FlattenReturn, ResolveReturn, In
<1>5. IF fn = "flatten"
      THEN /\ content_entity_cache' = [content_entity_cache EXCEPT ![name] = made]
           /\ UNCHANGED attribute_entity_cache
      ELSE /\ attribute_entity_cache' = [attribute_entity_cache EXCEPT ![name] = made]
           /\ UNCHANGED content_entity_cache
      BY <1>1, <1>2, <1>3 DEF FlattenReturn, ResolveReturn, In
<1>6. CallsFaithful /\ EntriesFaithful
      BY DEF Faithful
<1>7. name \in Name /\ CacheOf(fn)[name] = Unknown
  <2>1. CallsShape(calls) /\ Len(calls) \in 1 .. Len(calls) /\ Len(calls) # 1
        BY <1>4, CurrentIs DEF Shape
  <2>2. name # NoName
        BY <1>2, <2>1 DEF CallsShape, Current
  <2>3. name \in Name
        BY <1>2, <1>4, <2>2, CurrentIs
  <2>4. PICK c : c = Current
        OBVIOUS
  <2>5. Pending(c)
        BY <1>6, <2>1, <2>4 DEF CallsFaithful, Current
  <2>6. c.fn = fn /\ c.name = name
        BY <1>1, <1>2, <2>4
  <2> QED BY <2>2, <2>3, <2>5, <2>6 DEF Pending
<1>8. /\ Learns /\ CacheOf(fn)'[name] = made
      /\ \A f \in {"flatten", "resolve"}, n \in Name :
           (f = fn /\ n = name) \/ CacheOf(f)'[n] = CacheOf(f)[n]
  <2>1. UNCHANGED doc /\ fn \in {"flatten", "resolve"}
        BY <1>4
  <2> QED BY ONLY TypeOK, <2>1, <1>5, <1>7, LearnsOne
<1>9. CallsFaithful' /\ Entry(fn, name)'
      BY ONLY TypeOK, Shape, Distinct, <1>1, <1>2, <1>3, <1>4, <1>6, <1>8, ReturnOn
<1>10. EntriesFaithful'
  <2>1. \A f \in {"flatten", "resolve"}, n \in Name : CacheOf(f)'[n] = CacheOf(f)[n] \/ Entry(f, n)'
        BY <1>8, <1>9
  <2> QED BY <1>6, <1>8, <2>1, EntriesKept
<1> QED BY <1>8, <1>9, <1>10, ReadingHeard DEF Faithful

\* A text is the first piece of it, and the rest.
LEMMA FirstApart ==
    ASSUME NEW S, NEW s \in Seq(S), s # << >>
    PROVE  <<Head(s)>> \in Seq(S) /\ Tail(s) \in Seq(S) /\ <<Head(s)>> \o Tail(s) = s
OBVIOUS

\* A text is a run of characters, and the rest.
LEMMA CutInTwo ==
    ASSUME NEW S, NEW s \in Seq(S), NEW k \in 1 .. Len(s) + 1
    PROVE  /\ SubSeq(s, 1, k - 1) \in Seq(S) /\ SubSeq(s, k, Len(s)) \in Seq(S)
           /\ SubSeq(s, 1, k - 1) \o SubSeq(s, k, Len(s)) = s
<1> DEFINE j == k - 1
<1>1. Len(s) \in Nat /\ 1 \in 1 .. Len(s) + 1 /\ j \in 1 - 1 .. Len(s) /\ Len(s) \in j .. Len(s)
      /\ j + 1 = k
      OBVIOUS
<1> HIDE DEF j
<1>2. SubSeq(s, 1, j) \o SubSeq(s, j + 1, Len(s)) = SubSeq(s, 1, Len(s))
      BY <1>1, ConcatAdjacentSubSeq
<1>3. SubSeq(s, 1, Len(s)) = s
      BY SubSeqFull
<1>4. SubSeq(s, 1, j) \in Seq(S) /\ SubSeq(s, j + 1, Len(s)) \in Seq(S)
      BY <1>1
<1> QED BY <1>1, <1>2, <1>3, <1>4 DEF j

\* The scanner goes on in its text.
LEMMA FramesAdvance ==
    ASSUME TypeOK, Shape, Learns, FramesFaithful, NEW rest \in Seq(Item), NEW text \in Seq(Item),
           text \o rest = Rest, frames' = Advanced(rest)
    PROVE  FramesFaithful'
<1>1. PICK new : new = Advanced(rest)
      OBVIOUS
<1>2. \A i \in 2 .. Len(new) : FrameFaithful(new[i])'
      BY <1>1, FramesGoOn
<1> QED BY <1>1, <1>2, FramesAre

\* It goes on by one piece.
LEMMA FramesOnePiece ==
    ASSUME TypeOK, Shape, Learns, FramesFaithful, Rest # << >>, Advance(Tail(Rest))
    PROVE  FramesFaithful'
<1>1. Rest \in Seq(Item)
      BY FramesIs
<1>2. <<Head(Rest)>> \in Seq(Item) /\ Tail(Rest) \in Seq(Item) /\ <<Head(Rest)>> \o Tail(Rest) = Rest
      BY <1>1, FirstApart
<1> QED BY <1>2, FramesAdvance DEF Advance

\* Another text takes its place.
LEMMA FramesEnter ==
    ASSUME TypeOK, Learns, NEW saved \in Seq(Frames),
           \A i \in 2 .. Len(saved) : FrameFaithful(saved[i])',
           NEW name \in Name, NEW text \in Seq(Item), text \in Scannable(name)',
           frames' = Entered(saved, name, text), saved # << >>
    PROVE  FramesFaithful'
<1>1. PICK new : new = Entered(saved, name, text)
      OBVIOUS
<1> DEFINE n == Len(saved)
<1>2. /\ Len(new) = n + 1 /\ n \in Nat /\ \A i \in 1 .. n : new[i] = saved[i]
      /\ new[n + 1].name = name /\ new[n + 1].rest = text
  <2> DEFINE frame == Frame(name, text, element_stack)
  <2>1. frame \in Frames /\ frame.name = name /\ frame.rest = text
        BY DEF TypeOK, Frame, Frames
  <2>2. new = Append(saved, frame)
        BY <1>1 DEF Entered
  <2> HIDE DEF frame
  <2> QED BY <2>1, <2>2
<1> HIDE DEF n
<1>3. PICK f : f = new[n + 1]
      OBVIOUS
<1>4. FrameFaithful(f)'
  <2>1. << >> \in Seq(Item) /\ << >> \o text = text
        OBVIOUS
  <2>2. f.name = name /\ f.rest = text
        BY <1>2, <1>3
  <2> QED BY <2>1, <2>2 DEF FrameFaithful, Scannable
<1>5. ASSUME NEW i \in 2 .. n + 1
      PROVE  FrameFaithful(new[i])'
  <2>1. CASE i = n + 1
        BY <1>3, <1>4, <2>1
  <2>2. CASE i # n + 1
    <3>1. i \in 2 .. n /\ new[i] = saved[i]
          BY <1>2, <2>2
    <3> QED BY <3>1 DEF n
  <2> QED BY <2>1, <2>2
<1> QED BY <1>1, <1>2, <1>5, FramesAre

\* No values among what is heard.
LEMMA NoValuesIn ==
    /\ \A a, b \in Seq(Events) : NoValues(a) /\ NoValues(b) => NoValues(a \o b)
    /\ \A e \in Events : e[1] # "attribute" => <<e>> \in Seq(Events) /\ NoValues(<<e>>)
    /\ \A a \in Seq(Events), e \in Events : NoValues(a) /\ e[1] # "attribute" =>
         Append(a, e) \in Seq(Events) /\ NoValues(Append(a, e))
    /\ << >> \in Seq(Events) /\ NoValues(<< >>)
BY Empty DEF NoValues

\* There is no value in what precedes a tag, or in what a reference is
\* answered by.
LEMMA NoValuesTold ==
    ASSUME TypeOK
    PROVE  /\ Completed \in Seq(Events) /\ NoValues(Completed)
           /\ \A n \in Name : \A answer : Told(answer, n) \in Seq(Events) /\ NoValues(Told(answer, n))
<1>1. Completed \in Seq(Events) /\ \A n \in Name : \A answer : Told(answer, n) \in Seq(Events)
      BY HearIs
<1>2. NoValues(Completed)
  <2> DEFINE e == Text(<< >>, TRUE)
  <2>1. e[1] # "attribute" /\ (Completed = <<e>> \/ Completed = << >>)
        BY DEF Text, Completed
  <2> HIDE DEF e
  <2> QED BY <2>1 DEF NoValues
<1>3. ASSUME NEW n \in Name, NEW answer
      PROVE  NoValues(Told(answer, n))
  <2> DEFINE e == <<answer, n>>
  <2>1. Told(answer, n) = << >> \/ (Told(answer, n) = <<e>> /\ e[1] # "attribute")
        BY DEF Told
  <2> HIDE DEF e
  <2> QED BY <2>1 DEF NoValues
<1> QED BY <1>1, <1>2, <1>3

\* A step of the scanner by which nothing is learnt.
LEMMA ScanFaithful ==
    ASSUME TypeOK, Shape, Faithful,
           UNCHANGED <<doc, default_value, content_entity_cache, attribute_entity_cache>>, SamePart,
           CallsFaithful', FramesFaithful',
           NEW events \in Seq(Events), NoValues(events), Hear(events)
    PROVE  Faithful'
<1>1. Learns
      BY LearnsNothing
<1>2. EntriesFaithful'
      BY <1>1, SameEntries DEF Faithful
<1>3. ValuesFaithful'
      BY <1>1, NoValuesHeard DEF Faithful
<1> QED BY <1>2, <1>3 DEF Faithful

\* The first call there is.
LEMMA FirstFaithful ==
    ASSUME NEW call, calls' = <<call>>, Pending(call)', UpToDate(call)'
    PROVE  CallsFaithful'
<1>1. PICK new : new = <<call>>
      OBVIOUS
<1>2. Len(new) = 1 /\ new[1] = call
      BY <1>1
<1>3. \A i \in 1 .. Len(new) : CallAs(new, i)'
      BY <1>2 DEF CallAs
<1> QED BY <1>1, <1>3, CallsAre

\* The resolving of the default value begins.
LEMMA EndOfDoctypeFaithful ==
    ASSUME TypeOK, Shape, Faithful, EndOfDoctype
    PROVE  Faithful'
<1>1. /\ UNCHANGED <<doc, phase, default_value, heard, frames, content_entity_cache, attribute_entity_cache>>
      /\ phase = "doctype"
      BY DEF EndOfDoctype, caches, buffers
<1>2. Learns /\ SamePart
      BY <1>1, LearnsNothing DEF SamePart
<1>3. EntriesFaithful' /\ ValuesFaithful' /\ FramesFaithful'
      BY <1>1, <1>2, SameEntries, NoneHeard, SameFrames DEF Faithful
<1>4. PICK call : call = Call("resolve", NoName, doc.default)
      OBVIOUS
<1>5. doc.default \in Seq(Item)
      BY DEF TypeOK, Legal
<1>6. call.name = NoName /\ call.out = << >> /\ call.rest = doc.default /\ calls' = <<call>>
      BY <1>4 DEF Call, EndOfDoctype
<1>7. call.rest \in Sources(call)'
      BY <1>1, <1>6 DEF Sources
<1>8. UpToDate(call)'
      BY ONLY <1>5, <1>6, <1>7, NothingMade
<1>9. Pending(call)'
      BY <1>6 DEF Pending
<1>10. CallsFaithful'
      BY ONLY <1>6, <1>8, <1>9, FirstFaithful
<1> QED BY <1>3, <1>10 DEF Faithful

\* What the call for a value has made, when it has read it.
LEMMA ValueRead ==
    ASSUME TypeOK, Shape, CallsFaithful, In("resolve"), ~More, Len(calls) = 1
    PROVE  /\ Current.out \in Seq(Letter)
           /\ IF phase = "doctype"
              THEN ReadsAll("resolve", doc.default) /\ Current.out = Gives("resolve", doc.default)
              ELSE \E n \in Name : ValueOf(n, Current.out)
<1>1. calls # << >> /\ Current.fn = "resolve" /\ Current = calls[1] /\ 1 \in 1 .. Len(calls)
      BY DEF In, Current
<1>2. Current.out \in Seq(Letter) /\ Current.out # NotFlat /\ Current.rest = << >>
  <2>1. Current.out \in Seq(Letter)
        BY <1>1, CurrentIs
  <2> QED BY <2>1, Marks DEF More
<1>3. Current.name = NoName
      BY <1>1 DEF Shape, CallsShape
<1>4. UpToDate(Current)
      BY <1>1 DEF CallsFaithful
<1>5. PICK c : c = Current
      OBVIOUS
<1>6. PICK text \in Seq(Item) : text \o c.rest \in Sources(c) /\ HasMade(c, text)
      BY <1>2, <1>4, <1>5 DEF UpToDate
<1>7. text \o c.rest = text
  <2>1. c.rest = << >>
        BY <1>2, <1>5
  <2>2. text \o << >> = text
        OBVIOUS
  <2> QED BY <2>1, <2>2
<1>8. text \in Sources(c) /\ ReadsAll("resolve", text) /\ c.out = Gives("resolve", text)
      BY <1>1, <1>5, <1>6, <1>7 DEF HasMade
<1>9. c.name = NoName
      BY <1>3, <1>5
<1>10. CASE phase = "doctype"
  <2>1. text = doc.default
        BY <1>8, <1>9, <1>10 DEF Sources
  <2> QED BY <1>2, <1>5, <1>8, <1>10, <2>1
<1>11. CASE phase # "doctype"
  <2>1. PICK n \in Name : text = <<Reference(n)>>
        BY <1>8, <1>9, <1>11 DEF Sources
  <2>2. ValueOf(n, c.out)
        BY <1>8, <2>1 DEF ValueOf
  <2> QED BY <1>2, <1>5, <1>11, <2>2
<1> QED BY <1>10, <1>11

\* The end of a value keeps what is in the caches faithful.
LEMMA EndOfValueFaithful ==
    ASSUME TypeOK, Shape, Faithful, EndOfValue
    PROVE  Faithful'
<1>1. /\ UNCHANGED <<doc, frames, content_entity_cache, attribute_entity_cache>> /\ calls' = << >>
      /\ In("resolve") /\ ~More /\ Len(calls) = 1
      BY DEF EndOfValue, caches, buffers
<1>2. /\ Learns
      /\ \A fn \in {"flatten", "resolve"}, n \in Name : CacheOf(fn)'[n] = CacheOf(fn)[n]
      BY <1>1, LearnsNothing
<1>3. EntriesFaithful' /\ FramesFaithful' /\ CallsFaithful'
      BY <1>1, <1>2, SameEntries, SameFrames, NoCallsLeft DEF Faithful
<1>4. /\ Current.out \in Seq(Letter)
      /\ IF phase = "doctype"
         THEN ReadsAll("resolve", doc.default) /\ Current.out = Gives("resolve", doc.default)
         ELSE \E n \in Name : ValueOf(n, Current.out)
      BY <1>1, ValueRead DEF Faithful
<1>5. PICK out : out = Current.out
      OBVIOUS
<1>6. ASSUME phase = "doctype"
      PROVE  ValuesFaithful'
  <2>1. default_value' = out /\ phase' = "content" /\ UNCHANGED heard
        BY <1>5, <1>6 DEF EndOfValue
  <2>2. \A i \in 1 .. Len(heard) : heard[i][1] # "attribute"
        BY <1>6 DEF Faithful, ValuesFaithful, Meant
  <2>3. PICK h : h = heard
        OBVIOUS
  <2>4. heard' = h /\ \A i \in 1 .. Len(h) : h[i][1] # "attribute"
        BY <2>1, <2>2, <2>3
  <2>5. \A i \in 1 .. Len(heard') : heard'[i][1] # "attribute"
        BY <2>4
  <2>6. PICK text \in Seq(Item) : text = doc.default
        BY DEF TypeOK, Legal
  <2>7. ReadsAll("resolve", text) /\ out = Gives("resolve", text)
        BY <1>4, <1>5, <1>6, <2>6
  <2>8. ReadsAll("resolve", text)' /\ Gives("resolve", text)' = Gives("resolve", text)
        BY <1>2, <2>7, StillRead
  <2>9. doc'.default = text
        BY <1>1, <2>6
  <2>10. ReadsAll("resolve", doc.default)' /\ default_value' = Gives("resolve", doc.default)'
        BY <2>1, <2>7, <2>8, <2>9 DEF ReadsAll, Gives
  <2> QED BY <2>5, <2>10 DEF ValuesFaithful, Meant
<1>7. ASSUME phase # "doctype"
      PROVE  ValuesFaithful'
  <2>1. /\ Hear(<<<<"attribute", out>>, <<"close">>>>)
        /\ UNCHANGED <<default_value, phase>>
        BY <1>5, <1>7 DEF EndOfValue
  <2>2. PICK n \in Name : ValueOf(n, out)
        BY <1>4, <1>5, <1>7
  <2>3. PICK text \in Seq(Item) : text = <<Reference(n)>>
    <3> DEFINE item == Reference(n)
    <3>1. item \in Item
          BY DEF Item
    <3> HIDE DEF item
    <3>2. <<item>> \in Seq(Item)
          BY <3>1
    <3> QED BY <3>2 DEF item
  <2>4. ReadsAll("resolve", text) /\ out = Gives("resolve", text)
        BY <2>2, <2>3 DEF ValueOf
  <2>5. ReadsAll("resolve", text)' /\ Gives("resolve", text)' = Gives("resolve", text)
        BY <1>2, <2>4, StillRead
  <2>6. ValueOf(n, out)'
        BY <2>3, <2>4, <2>5 DEF ValueOf
  <2> DEFINE value == <<"attribute", out>>
             events == <<value, <<"close">>>>
  <2>7. value[1] = "attribute" /\ value[2] = out /\ value \in Events
        BY <1>4, <1>5, HearIs
  <2>8. <<"close">>[1] # "attribute" /\ <<"close">> \in Events
        BY HearIs
  <2>9. events \in Seq(Events) /\ OnlyValue(events, value)
    <3> HIDE DEF value
    <3> QED BY <2>7, <2>8 DEF OnlyValue
  <2> HIDE DEF value
  <2>10. PICK v : v = value
        OBVIOUS
  <2>11. Meant(v)'
        BY <1>7, <2>1, <2>6, <2>7, <2>10 DEF Meant
  <2>12. PICK e \in Seq(Events) : e = events
        BY <2>9
  <2>13. OnlyValue(e, v) /\ Hear(e) /\ SamePart /\ ValuesFaithful /\ UNCHANGED default_value
        BY <2>1, <2>9, <2>10, <2>12 DEF Faithful, SamePart, value
  <2> QED BY ONLY TypeOK, <1>2, <2>11, <2>13, ValueHeard
<1> QED BY <1>3, <1>6, <1>7 DEF Faithful

\* The scanner goes on in the text.
LEMMA ScansOn ==
    ASSUME TypeOK, Shape, Faithful, Running, Rest # << >>, Advance(Tail(Rest)),
           UNCHANGED <<doc, phase, calls, default_value, content_entity_cache, attribute_entity_cache>>,
           NEW events \in Seq(Events), NoValues(events), Hear(events)
    PROVE  Faithful'
<1>1. Learns /\ SamePart
      BY LearnsNothing DEF SamePart
<1>2. calls' = << >>
      BY DEF Running
<1>3. CallsFaithful' /\ FramesFaithful'
      BY <1>1, <1>2, NoCallsLeft, FramesOnePiece DEF Faithful
<1> QED BY <1>1, <1>3, ScanFaithful

\* What is left to scan, apart from the frames.
LEMMA ScansTo ==
    ASSUME TypeOK, Shape, Faithful, Running,
           UNCHANGED <<doc, phase, calls, default_value, content_entity_cache, attribute_entity_cache>>,
           FramesFaithful',
           NEW events \in Seq(Events), NoValues(events), Hear(events)
    PROVE  Faithful'
<1>1. Learns /\ SamePart
      BY LearnsNothing DEF SamePart
<1>2. calls' = << >>
      BY DEF Running
<1>3. CallsFaithful'
      BY <1>2, NoCallsLeft
<1> QED BY <1>1, <1>3, ScanFaithful

\* A run of characters keeps what is in the caches faithful.
LEMMA CharactersFaithful ==
    ASSUME TypeOK, Shape, Faithful, Characters
    PROVE  Faithful'
<1>1. /\ Running /\ Rest # << >> /\ Head(Rest).is = "text"
      /\ UNCHANGED <<doc, phase, calls, default_value, content_entity_cache, attribute_entity_cache>>
      BY DEF Characters, caches
<1>2. Learns
      BY <1>1, LearnsNothing
<1>3. Rest \in Seq(Item)
      BY FramesIs
<1>4. PICK k : k = AfterRun(Rest)
      OBVIOUS
<1> DEFINE run  == SubSeq(Rest, 1, k - 1)
           rest == SubSeq(Rest, k, Len(Rest))
<1>5. k \in 2 .. Len(Rest) + 1 /\ run \in Seq(Letter)
      BY <1>1, <1>3, <1>4, RunIs
<1>6. run \in Seq(Item) /\ rest \in Seq(Item) /\ run \o rest = Rest
  <2>1. Len(Rest) \in Nat
        BY <1>3
  <2>2. k \in 1 .. Len(Rest) + 1
        BY <1>5, <2>1
  <2> QED BY <1>3, <2>2, CutInTwo
<1>7. \/ UNCHANGED frames /\ UNCHANGED heard
      \/ Hear(<<Text(run, AtMarkup(rest))>>) /\ frames' = Advanced(rest)
      BY <1>4 DEF Characters, buffers, Advance
<1>8. AtMarkup(rest) \in BOOLEAN
      BY AtMarkupIs
<1> HIDE DEF run, rest
<1>9. CASE UNCHANGED frames /\ UNCHANGED heard
  <2>1. FramesFaithful'
        BY <1>2, <1>9, SameFrames DEF Faithful
  <2>2. PICK none \in Seq(Events) : NoValues(none) /\ none = << >>
        BY NoValuesIn
  <2>3. heard \o none = heard
    <3>1. heard \in Seq(Events)
          BY DEF TypeOK
    <3> QED BY <3>1, <2>2
  <2>4. Hear(none)
        BY <1>9, <2>3 DEF Hear
  <2> QED BY <1>1, <2>1, <2>2, <2>4, ScansTo
<1>10. CASE Hear(<<Text(run, AtMarkup(rest))>>) /\ frames' = Advanced(rest)
  <2>1. FramesFaithful'
        BY <1>2, <1>6, <1>10, FramesAdvance DEF Faithful
  <2>2. PICK e : e = Text(run, AtMarkup(rest))
        OBVIOUS
  <2>3. e \in Events
        BY <1>5, <1>8, <2>2, HearIs
  <2>4. e[1] # "attribute"
        BY <2>2 DEF Text
  <2>5. <<e>> \in Seq(Events) /\ NoValues(<<e>>)
        BY <2>3, <2>4, NoValuesIn
  <2>6. Hear(<<e>>)
        BY <1>10, <2>2
  <2> QED BY <1>1, <2>1, <2>5, <2>6, ScansTo
<1> QED BY <1>7, <1>9, <1>10

\* A character that is written as a reference keeps what is in the caches
\* faithful.
LEMMA DecodedFaithful ==
    ASSUME TypeOK, Shape, Faithful, Decoded
    PROVE  Faithful'
<1>1. /\ Running /\ Rest # << >> /\ Advance(Tail(Rest))
      /\ UNCHANGED <<doc, phase, calls, default_value, content_entity_cache, attribute_entity_cache>>
      BY DEF Decoded, caches
<1>2. Char(Head(Rest).of) \in Letter
      BY DecodedIs
<1>3. PICK e : e = Text(<<Char(Head(Rest).of)>>, AtMarkup(Tail(Rest)))
      OBVIOUS
<1>4. e \in Events
  <2>1. <<Char(Head(Rest).of)>> \in Seq(Letter)
    <3> DEFINE c == Char(Head(Rest).of)
    <3> HIDE DEF c
    <3> QED BY <1>2 DEF c
  <2>2. AtMarkup(Tail(Rest)) \in BOOLEAN
        BY AtMarkupIs
  <2> QED BY <1>3, <2>1, <2>2, HearIs
<1>5. e[1] # "attribute"
      BY <1>3 DEF Text
<1>6. <<e>> \in Seq(Events) /\ NoValues(<<e>>)
      BY <1>4, <1>5, NoValuesIn
<1>7. Hear(<<e>>)
      BY <1>3 DEF Decoded
<1> QED BY <1>1, <1>6, <1>7, ScansOn

\* An end tag keeps what is in the caches faithful.
LEMMA EndTagFaithful ==
    ASSUME TypeOK, Shape, Faithful, EndTag
    PROVE  Faithful'
<1>1. /\ Running /\ Rest # << >> /\ Advance(Tail(Rest))
      /\ UNCHANGED <<doc, phase, calls, default_value, content_entity_cache, attribute_entity_cache>>
      BY DEF EndTag, caches
<1>2. Completed \in Seq(Events) /\ NoValues(Completed)
      BY NoValuesTold
<1>3. PICK e : e = <<"close">>
      OBVIOUS
<1>4. e \in Events /\ e[1] # "attribute"
      BY <1>3, HearIs
<1>5. <<e>> \in Seq(Events) /\ NoValues(<<e>>)
      BY <1>4, NoValuesIn
<1>6. Completed \o <<e>> \in Seq(Events) /\ NoValues(Completed \o <<e>>)
  <2>1. PICK a, b \in Seq(Events) : a = Completed /\ b = <<e>>
        BY <1>2, <1>5
  <2>2. NoValues(a \o b)
        BY <1>2, <1>5, <2>1, NoValuesIn
  <2>3. a \o b \in Seq(Events)
        OBVIOUS
  <2> QED BY <2>1, <2>2, <2>3
<1>7. Hear(Completed \o <<e>>) \/ Hear(Completed)
      BY <1>3 DEF EndTag
<1>8. PICK events \in Seq(Events) : NoValues(events) /\ Hear(events)
      BY <1>2, <1>6, <1>7
<1> QED BY <1>1, <1>8, ScansOn

\* The end of the text, within a reference keeps what is in the caches
\* faithful.
LEMMA EndWithinReferenceFaithful ==
    ASSUME TypeOK, Shape, Faithful, EndWithinReference
    PROVE  Faithful'
<1>1. /\ Running /\ UNCHANGED <<frames, heard>>
      /\ UNCHANGED <<doc, phase, calls, default_value, content_entity_cache, attribute_entity_cache>>
      BY DEF EndWithinReference, caches, buffers
<1>2. FramesFaithful'
      BY <1>1, LearnsNothing, SameFrames DEF Faithful
<1>3. PICK none \in Seq(Events) : NoValues(none) /\ none = << >>
      BY NoValuesIn
<1>4. heard \o none = heard
  <2>1. heard \in Seq(Events)
        BY DEF TypeOK
  <2> QED BY <2>1, <1>3
<1>5. Hear(none)
      BY <1>1, <1>4 DEF Hear
<1> QED BY <1>1, <1>2, <1>3, <1>5, ScansTo

\* The end of the text of an entity keeps what is in the caches faithful.
LEMMA EndOfEntityFaithful ==
    ASSUME TypeOK, Shape, Faithful, EndOfEntity
    PROVE  Faithful'
<1>1. /\ Running /\ Len(frames) > 1
      /\ UNCHANGED <<doc, phase, calls, default_value, content_entity_cache, attribute_entity_cache>>
      BY DEF EndOfEntity, caches
<1>2. Learns
      BY <1>1, LearnsNothing
<1>3. \/ UNCHANGED <<frames, heard>>
      \/ Hear(Append(Completed, <<"end", Top.name>>)) /\ frames' = Front(frames)
      BY DEF EndOfEntity
<1>4. CASE UNCHANGED <<frames, heard>>
  <2>1. FramesFaithful'
        BY <1>2, <1>4, SameFrames DEF Faithful
  <2>2. PICK none \in Seq(Events) : NoValues(none) /\ none = << >>
        BY NoValuesIn
  <2>3. heard \o none = heard
    <3>1. heard \in Seq(Events)
          BY DEF TypeOK
    <3> QED BY <3>1, <2>2
  <2>4. Hear(none)
        BY <1>4, <2>3 DEF Hear
  <2> QED BY <1>1, <2>1, <2>2, <2>4, ScansTo
<1>5. CASE Hear(Append(Completed, <<"end", Top.name>>)) /\ frames' = Front(frames)
  <2>1. FramesFaithful'
    <3>1. PICK old : old = frames
          OBVIOUS
    <3>2. PICK new : new = Front(old)
          OBVIOUS
    <3>3. Len(old) \in Nat /\ Len(new) = Len(old) - 1
          /\ \A i \in 1 .. Len(old) - 1 : new[i] = old[i]
      <4>1. old \in Seq(Frames) /\ old # << >>
            BY <3>1, FramesIs
      <4>2. Len(new) = Len(old) - 1 /\ \A i \in 1 .. Len(old) - 1 : new[i] = old[i]
            BY <3>2, <4>1, FrontIs
      <4>3. Len(old) \in Nat
            BY <4>1
      <4> QED BY <4>2, <4>3
    <3>4. \A i \in 2 .. Len(old) : FrameFaithful(old[i])'
          BY <1>2, <3>1, FramesStand DEF Faithful
    <3>5. ASSUME NEW i \in 2 .. Len(new)
          PROVE  FrameFaithful(new[i])'
      <4>1. i \in 1 .. Len(old) - 1 /\ i \in 2 .. Len(old)
            BY <3>3
      <4>2. new[i] = old[i]
            BY <3>3, <4>1
      <4> QED BY <3>4, <4>1, <4>2
    <3>6. frames' = new
          BY <1>5, <3>1, <3>2
    <3> QED BY <3>5, <3>6, FramesAre
  <2>2. Top.name \in Name
    <3>1. Top.name \in Name \cup {NoName} /\ Len(frames) \in Nat
          BY FramesIs DEF Frames
    <3>2. PICK n \in Nat : n = Len(frames) /\ n > 1
          BY <1>1, <3>1
    <3>3. n \in 1 .. n /\ n # 1
          BY <3>2
    <3>4. Top.name # NoName
          BY <3>2, <3>3 DEF Shape, FramesShape, Top
    <3> QED BY <3>1, <3>4
  <2>3. PICK e : e = <<"end", Top.name>>
        OBVIOUS
  <2>4. e \in Events /\ e[1] # "attribute"
        BY <2>2, <2>3, HearIs
  <2>5. Completed \in Seq(Events) /\ NoValues(Completed)
        BY NoValuesTold
  <2>6. Append(Completed, e) \in Seq(Events) /\ NoValues(Append(Completed, e))
        BY <2>4, <2>5, NoValuesIn
  <2>7. Hear(Append(Completed, e))
        BY <1>5, <2>3
  <2> QED BY <1>1, <2>1, <2>6, <2>7, ScansTo
<1> QED BY <1>3, <1>4, <1>5

\* The end of the document keeps what is in the caches faithful.
LEMMA EndOfDocumentFaithful ==
    ASSUME TypeOK, Shape, Faithful, EndOfDocument
    PROVE  Faithful'
<1>1. /\ Running /\ Hear(Completed) /\ UNCHANGED frames
      /\ UNCHANGED <<doc, calls, default_value, content_entity_cache, attribute_entity_cache>>
      BY DEF EndOfDocument, caches
<1>2. SamePart
  <2>1. phase = "content"
        BY <1>1 DEF Running
  <2>2. phase' = "content" \/ phase' = "done"
        BY <2>1 DEF EndOfDocument
  <2> QED BY <2>1, <2>2 DEF SamePart
<1>3. Learns
      BY <1>1, LearnsNothing
<1>4. FramesFaithful'
      BY <1>1, <1>3, SameFrames DEF Faithful
<1>5. calls' = << >>
      BY <1>1 DEF Running
<1>6. CallsFaithful'
      BY <1>5, NoCallsLeft
<1>7. Completed \in Seq(Events) /\ NoValues(Completed)
      BY NoValuesTold
<1> QED BY <1>1, <1>2, <1>4, <1>6, <1>7, ScanFaithful

\* A start tag keeps what is in the caches faithful.
LEMMA StartTagFaithful ==
    ASSUME TypeOK, Shape, Faithful, StartTag
    PROVE  Faithful'
<1>1. /\ Running /\ Rest # << >> /\ Advance(Tail(Rest)) /\ phase = "content"
      /\ UNCHANGED <<doc, phase, calls, default_value, content_entity_cache, attribute_entity_cache>>
      BY DEF StartTag, caches, Running
<1>2. Learns /\ SamePart
      BY <1>1, LearnsNothing DEF SamePart
<1>3. calls' = << >>
      BY <1>1 DEF Running
<1>4. CallsFaithful' /\ FramesFaithful' /\ EntriesFaithful'
      BY <1>1, <1>2, <1>3, NoCallsLeft, FramesOnePiece, SameEntries DEF Faithful
<1>5. PICK value : value = <<"attribute", default_value>>
      OBVIOUS
<1>6. value[1] = "attribute" /\ value[2] = default_value /\ value \in Events
      BY <1>5, HearIs DEF TypeOK
<1>7. Meant(value)'
      BY <1>1, <1>6 DEF Meant
<1>8. Completed \in Seq(Events) /\ NoValues(Completed)
      BY NoValuesTold
<1>9. PICK a \in Seq(Events) : a = Completed
      BY <1>8
<1>10. PICK e : e = <<"open">>
      OBVIOUS
<1>11. e \in Events /\ e[1] # "attribute"
      BY <1>10, HearIs
<1> DEFINE b == a \o <<e>>
           events == b \o IF doc.default = << >> THEN << >> ELSE <<value>>
<1>12. Hear(events)
      BY <1>5, <1>9, <1>10 DEF StartTag
<1>13. b \in Seq(Events) /\ Len(b) = Len(a) + 1 /\ Len(a) \in Nat /\ NoValues(b)
  <2>1. <<e>> \in Seq(Events) /\ NoValues(<<e>>)
        BY <1>11, NoValuesIn
  <2>2. NoValues(a)
        BY <1>8, <1>9
  <2>3. NoValues(a \o <<e>>)
        BY <2>1, <2>2, NoValuesIn
  <2> QED BY <1>11, <2>3
<1>14. events \in Seq(Events) /\ OnlyValue(events, value)
  <2> HIDE DEF b
  <2>1. CASE doc.default = << >>
    <3>1. events = b
          BY <1>13, <2>1
    <3> QED BY <1>13, <3>1 DEF NoValues, OnlyValue
  <2>2. CASE doc.default # << >>
    <3>1. events = b \o <<value>>
          BY <2>2
    <3>2. events \in Seq(Events)
          BY <1>6, <1>13, <3>1
    <3>3. events = Append(b, value)
          BY <1>6, <1>13, <3>1
    <3> HIDE DEF events
    <3>4. Len(events) = Len(b) + 1 /\ events[Len(b) + 1] = value /\ Len(b) \in Nat
          /\ \A i \in 1 .. Len(b) : events[i] = b[i]
          BY <1>13, <3>3
    <3>5. \A i \in 1 .. Len(b) + 1 : i \in 1 .. Len(b) \/ i = Len(b) + 1
          BY <3>4
    <3> QED BY <1>13, <3>2, <3>4, <3>5 DEF NoValues, OnlyValue
  <2> QED BY <2>1, <2>2
<1> HIDE DEF events
<1>15. PICK ev \in Seq(Events) : ev = events
      BY <1>14
<1>16. OnlyValue(ev, value) /\ Hear(ev) /\ ValuesFaithful /\ UNCHANGED default_value
      BY <1>1, <1>12, <1>14, <1>15 DEF Faithful
<1>17. ValuesFaithful'
      BY ONLY TypeOK, <1>2, <1>7, <1>16, ValueHeard
<1> QED BY <1>4, <1>17 DEF Faithful

\* A text that is to be read, of which nothing has been read.
LEMMA AttributeTagFaithful ==
    ASSUME TypeOK, Shape, Faithful, AttributeTag
    PROVE  Faithful'
<1>1. /\ Running /\ Rest # << >> /\ Advance(Tail(Rest)) /\ phase' = "content"
      /\ Head(Rest).is = "attribute"
      /\ UNCHANGED <<doc, phase, default_value, content_entity_cache, attribute_entity_cache>>
      BY DEF AttributeTag, caches, Running
<1>2. Learns /\ SamePart
      BY <1>1, LearnsNothing DEF SamePart
<1>3. FramesFaithful'
      BY <1>1, <1>2, FramesOnePiece DEF Faithful
<1>4. PICK n \in Name : n = Head(Rest).of
  <2>1. Head(Rest) \in Item
        BY <1>1, RunningIs
  <2> QED BY <1>1, <2>1, ItemIs
<1>5. PICK text \in Seq(Item) : text = <<Reference(n)>>
  <2> DEFINE item == Reference(n)
  <2>1. item \in Item
        BY DEF Item
  <2> HIDE DEF item
  <2>2. <<item>> \in Seq(Item)
        BY <2>1
  <2> QED BY <2>2 DEF item
<1>6. PICK call : call = Call("resolve", NoName, text)
      OBVIOUS
<1>7. call.name = NoName /\ call.out = << >> /\ call.rest = text
      BY <1>6 DEF Call
<1>8. calls' = <<call>>
      BY <1>4, <1>5, <1>6 DEF AttributeTag
<1>9. call.rest \in Sources(call)'
      BY <1>1, <1>5, <1>7 DEF Sources
<1>10. call.rest \in Seq(Item) /\ call.out = << >>
      BY <1>7
<1>11. UpToDate(call)'
      BY ONLY <1>9, <1>10, NothingMade
<1>12. Pending(call)'
      BY <1>7 DEF Pending
<1>13. CallsFaithful'
      BY ONLY <1>8, <1>11, <1>12, FirstFaithful
<1>14. PICK e : e = <<"open">>
      OBVIOUS
<1>15. e \in Events /\ e[1] # "attribute"
      BY <1>14, HearIs
<1>16. Completed \in Seq(Events) /\ NoValues(Completed)
      BY NoValuesTold
<1>17. Append(Completed, e) \in Seq(Events) /\ NoValues(Append(Completed, e))
      BY <1>15, <1>16, NoValuesIn
<1>18. Hear(Append(Completed, e))
      BY <1>14 DEF AttributeTag
<1> QED BY <1>1, <1>2, <1>3, <1>13, <1>17, <1>18, ScanFaithful

\* What may be scanned for a reference.
LEMMA MayScan ==
    ASSUME TypeOK, NEW name \in Name, NEW flat \in Seq(Literal) \cup {NotFlat},
           flat = NotFlat \/ content_entity_cache'[name] = flat, UNCHANGED doc
    PROVE  Scanned(name, flat) \in Seq(Item) /\ Scanned(name, flat) \in Scannable(name)'
<1>1. doc.entity[name].text \in Seq(Item)
      BY EntityIs DEF TypeOK
<1>2. doc.entity[name].text \notin {Unknown, NotFlat}
      BY <1>1, ItemMarks
<1>3. CASE flat = NotFlat
      BY <1>1, <1>2, <1>3 DEF Scanned, Scannable
<1>4. CASE flat # NotFlat
  <2>1. flat \in Seq(Literal) /\ flat = content_entity_cache'[name]
        BY <1>4
  <2>2. flat # Unknown
        BY <2>1, Marks
  <2>3. flat \in Seq(Item)
    <3>1. \A i \in 1 .. Len(flat) : flat[i] \in Item
          BY <2>1, Literals
    <3> QED BY <2>1, <3>1, Literals
  <2> QED BY <1>4, <2>1, <2>2, <2>3 DEF Scanned, Scannable
<1> QED BY <1>3, <1>4

\* Nor is there one at a boundary.
LEMMA BeginsNoValue ==
    ASSUME TypeOK, NEW name \in Name
    PROVE  /\ Begins(name) \in Seq(Events) /\ NoValues(Begins(name))
           /\ Append(Begins(name), <<"end", name>>) \in Seq(Events)
           /\ NoValues(Append(Begins(name), <<"end", name>>))
<1>1. PICK s, e : s = <<"start", name>> /\ e = <<"end", name>>
      OBVIOUS
<1>2. s \in Events /\ e \in Events /\ s[1] # "attribute" /\ e[1] # "attribute"
      BY <1>1, HearIs
<1>3. Completed \in Seq(Events) /\ NoValues(Completed)
      BY NoValuesTold
<1>4. Append(Completed, s) \in Seq(Events) /\ NoValues(Append(Completed, s))
      BY <1>2, <1>3, NoValuesIn
<1>5. Begins(name) = Append(Completed, s)
      BY <1>1 DEF Begins
<1>6. Append(Begins(name), e) \in Seq(Events) /\ NoValues(Append(Begins(name), e))
      BY <1>2, <1>4, <1>5, NoValuesIn
<1> QED BY <1>1, <1>4, <1>5, <1>6

\* The text of an entity that takes the place of the buffer keeps what is in
\* the caches faithful.
LEMMA ScansFaithful ==
    ASSUME TypeOK, Shape, Faithful, Running, Rest # << >>,
           UNCHANGED <<doc, phase, default_value, content_entity_cache, attribute_entity_cache>>,
           NEW name \in Name, NEW answer, NEW text \in Seq(Item), Scans(name, answer, text)
    PROVE  Faithful'
<1>1. UNCHANGED calls /\ Hear(Begins(name)) /\ frames' = Entered(Advanced(Tail(Rest)), name, text)
      BY DEF Scans
<1>2. Learns
      BY LearnsNothing
<1>3. text \in Scannable(name)'
  <2>1. CASE text = doc.entity[name].text
    <3>1. Scanned(name, NotFlat) = text
          BY <2>1 DEF Scanned
    <3> QED BY <3>1, MayScan
  <2>2. CASE text # doc.entity[name].text
    <3>1. Flat(name) # Unknown /\ text = Scanned(name, Flat(name))
          BY <2>2 DEF Scans
    <3>2. Flat(name) # NotFlat
          BY <2>2, <3>1 DEF Scanned
    <3>3. Flat(name) = content_entity_cache[name]
          BY <3>1, <3>2 DEF Flat
    <3>4. Flat(name) \in Seq(Literal)
          BY <3>1, <3>2, CacheIs
    <3>5. PICK flat \in Seq(Literal) : flat = Flat(name)
          BY <3>4
    <3>6. content_entity_cache'[name] = flat
          BY <3>3, <3>5
    <3>7. Scanned(name, flat) \in Scannable(name)'
          BY <3>6, MayScan
    <3>8. text = Scanned(name, flat)
          BY <3>1, <3>5
    <3> QED BY <3>7, <3>8
  <2> QED BY <2>1, <2>2
<1>4. Rest \in Seq(Item)
      BY FramesIs
<1>5. PICK first, rest \in Seq(Item) : first = <<Head(Rest)>> /\ rest = Tail(Rest) /\ first \o rest = Rest
      BY <1>4, FirstApart
<1>6. PICK saved : saved = Advanced(rest)
      OBVIOUS
<1>7. saved \in Seq(Frames) /\ saved # << >>
      BY <1>6, AdvanceIs
<1>8. \A i \in 2 .. Len(saved) : FrameFaithful(saved[i])'
      BY <1>2, <1>5, <1>6, FramesGoOn DEF Faithful
<1>9. frames' = Entered(saved, name, text)
      BY <1>1, <1>5, <1>6
<1>10. FramesFaithful'
      BY ONLY TypeOK, <1>2, <1>3, <1>7, <1>8, <1>9, FramesEnter
<1>11. Begins(name) \in Seq(Events) /\ NoValues(Begins(name))
      BY BeginsNoValue
<1> QED BY <1>1, <1>10, <1>11, ScansTo

\* A text that has to be flattened first keeps what is in the caches
\* faithful.
LEMMA ReadsFaithful ==
    ASSUME TypeOK, Shape, Faithful, Running, Rest # << >>,
           UNCHANGED <<doc, phase, default_value, content_entity_cache, attribute_entity_cache>>,
           NEW name \in Name, NEW answer, answer = Answer(name, TRUE), Reads(name, answer)
    PROVE  Faithful'
<1>1. /\ answer = "expand" /\ doc.entity[name].kind # "external" /\ Flat(name) = Unknown
      /\ Hear(Begins(name)) /\ Advance(Tail(Rest))
      /\ calls' = <<Call("flatten", name, doc.entity[name].text)>>
      BY DEF Reads
<1>2. Learns /\ SamePart
      BY LearnsNothing DEF SamePart
<1>3. FramesFaithful'
      BY <1>1, <1>2, FramesOnePiece DEF Faithful
<1>4. Legal(doc)
      BY DEF TypeOK
<1>5. doc.entity[name].kind = "internal" /\ ~(doc.standalone /\ doc.entity[name].far)
      BY <1>1, <1>4, Answers
<1>6. ~doc.xml11 /\ content_entity_cache[name] = Unknown
      BY <1>1, Marks DEF Flat
<1>7. PICK text \in Seq(Item) : text = doc.entity[name].text
      BY <1>4, EntityIs
<1>8. PICK call : call = Call("flatten", name, text)
      OBVIOUS
<1>9. call.fn = "flatten" /\ call.name = name /\ call.out = << >> /\ call.rest = text /\ calls' = <<call>>
      BY <1>1, <1>7, <1>8 DEF Call
<1>10. name # NoName
      BY NameAssumption
<1>11. call.rest \in Sources(call)'
      BY <1>7, <1>9, <1>10 DEF Sources
<1>12. call.rest \in Seq(Item) /\ call.out = << >>
      BY <1>9
<1>13. UpToDate(call)'
      BY ONLY <1>11, <1>12, NothingMade
<1>14. Pending(call)'
      BY <1>5, <1>6, <1>9 DEF Pending, Allowed, CacheOf
<1>15. calls' = <<call>>
      BY <1>9
<1>16. CallsFaithful'
      BY ONLY <1>13, <1>14, <1>15, FirstFaithful
<1>17. Begins(name) \in Seq(Events) /\ NoValues(Begins(name))
      BY BeginsNoValue
<1> QED BY <1>1, <1>2, <1>3, <1>16, <1>17, ScanFaithful

\* A reference in content keeps what is in the caches faithful.
LEMMA GeneralReferenceFaithful ==
    ASSUME TypeOK, Shape, Faithful, GeneralReference
    PROVE  Faithful'
<1>1. /\ Running /\ Rest # << >>
      /\ UNCHANGED <<doc, phase, default_value, content_entity_cache, attribute_entity_cache>>
      BY ReferenceCases
<1>2. PICK name \in Name, answer \in {"expand", "limit", "fatal", "skipped", "error"} :
        /\ answer = Answer(name, TRUE)
        /\ \/ NotExpanded(name, answer) \/ Skipped(name, answer) \/ Denied(name, answer)
           \/ Reads(name, answer)
           \/ \E text \in Seq(Item) : Scans(name, answer, text)
      BY ReferenceCases
<1>3. CASE NotExpanded(name, answer)
  <2>1. PICK a, b \in Seq(Events) :
          a = Completed /\ b = Told(answer, name) /\ NoValues(a) /\ NoValues(b)
        BY NoValuesTold
  <2>2. a \o b \in Seq(Events) /\ NoValues(a \o b)
        BY <2>1, NoValuesIn
  <2>3. Hear(a \o b) /\ Advance(Tail(Rest)) /\ UNCHANGED calls
        BY <1>3, <2>1 DEF NotExpanded
  <2> QED BY <1>1, <2>2, <2>3, ScansOn
<1>4. CASE Skipped(name, answer)
  <2>1. Hear(Append(Begins(name), <<"end", name>>)) /\ Advance(Tail(Rest)) /\ UNCHANGED calls
        BY <1>4 DEF Skipped
  <2> QED BY <1>1, <2>1, BeginsNoValue, ScansOn
<1>5. CASE Denied(name, answer)
  <2>1. Hear(Begins(name)) /\ Advance(Tail(Rest)) /\ UNCHANGED calls
        BY <1>5 DEF Denied
  <2> QED BY <1>1, <2>1, BeginsNoValue, ScansOn
<1>6. CASE Reads(name, answer)
      BY <1>1, <1>2, <1>6, ReadsFaithful
<1>7. CASE \E text \in Seq(Item) : Scans(name, answer, text)
      BY <1>1, <1>7, ScansFaithful
<1> QED BY <1>2, <1>3, <1>4, <1>5, <1>6, <1>7

\* An entity that has been flattened keeps what is in the caches faithful.
LEMMA EnterFlattenedFaithful ==
    ASSUME TypeOK, Shape, Faithful, EnterFlattened
    PROVE  Faithful'
<1>1. /\ In("flatten") /\ ~More /\ Len(calls) = 1 /\ calls' = << >>
      /\ UNCHANGED <<doc, phase, default_value, heard, attribute_entity_cache>>
      /\ content_entity_cache' = [content_entity_cache EXCEPT ![Current.name] = Current.out]
      /\ frames' = Entered(frames, Current.name, Scanned(Current.name, Current.out))
      BY DEF EnterFlattened
<1>2. calls # << >> /\ Current = calls[1] /\ 1 \in 1 .. Len(calls) /\ Current.fn = "flatten"
      BY <1>1 DEF In, Current
<1>3. PICK c : c = Current
      OBVIOUS
<1>4. PICK name \in Name : name = Current.name
      BY <1>2, CurrentIs
<1>5. PICK out \in Seq(Literal) \cup {NotFlat} : out = Current.out
      BY <1>2, CurrentIs
<1>6. c.fn = "flatten" /\ c.name = name /\ c.out = out /\ c.rest \in Seq(Item)
      /\ (c.rest = << >> \/ c.out = NotFlat)
      BY <1>1, <1>2, <1>3, <1>4, <1>5, CurrentIs DEF More
<1>7. Pending(c) /\ UpToDate(c)
      BY <1>1, <1>2, <1>3 DEF Faithful, CallsFaithful
<1>8. CacheOf("flatten")[name] = Unknown
  <2>1. name # NoName
        BY NameAssumption
  <2> QED BY <1>6, <1>7, <2>1 DEF Pending
<1>9. content_entity_cache' = [content_entity_cache EXCEPT ![name] = out]
      BY <1>1, <1>4, <1>5
<1>10. /\ Learns /\ CacheOf("flatten")'[name] = out
       /\ \A f \in {"flatten", "resolve"}, n \in Name :
            (f = "flatten" /\ n = name) \/ CacheOf(f)'[n] = CacheOf(f)[n]
       BY <1>1, <1>8, <1>9, LearnsOne
<1>11. Entry("flatten", name)'
  <2>1. PICK fn : fn = "flatten"
        OBVIOUS
  <2>2. c.fn \in {"flatten", "resolve"} /\ c.fn = fn
        BY <1>6, <2>1
  <2>3. Learns /\ c.name \in Name /\ c.name = name /\ c.out = out
        BY <1>6, <1>10
  <2>4. CacheOf(fn)'[name] = out
        BY <1>10, <2>1
  <2>5. Entry(fn, name)'
        BY ONLY <1>6, <1>7, <2>2, <2>3, <2>4, ReadEntirely
  <2> QED BY <2>1, <2>5
<1>12. EntriesFaithful'
  <2>1. \A f \in {"flatten", "resolve"}, n \in Name :
          CacheOf(f)'[n] = CacheOf(f)[n] \/ Entry(f, n)'
        BY <1>10, <1>11
  <2> QED BY <1>10, <2>1, EntriesKept DEF Faithful
<1>13. ValuesFaithful'
      BY <1>1, <1>10, NoneHeard DEF Faithful, SamePart
<1>14. CallsFaithful'
      BY <1>1, NoCallsLeft
<1>15. PICK text : text = Scanned(name, out)
      OBVIOUS
<1>16. text \in Seq(Item) /\ text \in Scannable(name)'
  <2>1. content_entity_cache'[name] = out
        BY <1>10 DEF CacheOf
  <2>2. Scanned(name, out) \in Seq(Item) /\ Scanned(name, out) \in Scannable(name)'
        BY <1>1, <2>1, MayScan
  <2> QED BY <1>15, <2>2
<1>17. PICK saved \in Seq(Frames) : saved = frames /\ saved # << >>
      BY DEF TypeOK
<1>18. \A i \in 2 .. Len(saved) : FrameFaithful(saved[i])'
      BY <1>10, <1>17, FramesStand DEF Faithful
<1>19. frames' = Entered(saved, name, text)
      BY <1>1, <1>4, <1>5, <1>15, <1>17
<1>20. FramesFaithful'
      BY ONLY TypeOK, <1>10, <1>16, <1>17, <1>18, <1>19, FramesEnter
<1> QED BY <1>12, <1>13, <1>14, <1>20 DEF Faithful

\* Nothing has been read.
LEMMA InitFaithful == Init => Faithful
<1> SUFFICES ASSUME Init PROVE Faithful
    OBVIOUS
<1>1. PICK d : Fresh(d)
      BY DEF Init
<1>2. /\ calls = << >> /\ heard = << >> /\ phase = "doctype" /\ Len(frames) = 1
      /\ content_entity_cache = NoEntries /\ attribute_entity_cache = NoEntries
      BY <1>1 DEF Fresh
<1>3. \A fn \in {"flatten", "resolve"}, n \in Name : CacheOf(fn)[n] = Unknown
      BY <1>2 DEF CacheOf, NoEntries
<1>4. EntriesFaithful
      BY <1>3 DEF EntriesFaithful, Entry
<1>5. CallsFaithful /\ ValuesFaithful /\ FramesFaithful
      BY <1>2 DEF CallsFaithful, ValuesFaithful, FramesFaithful
<1> QED BY <1>4, <1>5 DEF Faithful

\* A reset keeps what is in the caches faithful.
LEMMA ResetFaithful ==
    ASSUME Reset
    PROVE  Faithful'
<1>1. /\ calls' = << >> /\ heard' = << >> /\ phase' = "doctype"
      /\ content_entity_cache' = NoEntries /\ attribute_entity_cache' = NoEntries
      BY DEF Reset
<1>2. Len(frames') = 1
  <2>1. PICK d : frames' = <<Frame(NoName, d.content, 1)>>
        BY DEF Reset
  <2> DEFINE f == Frame(NoName, d.content, 1)
  <2>2. frames' = <<f>>
        BY <2>1
  <2> HIDE DEF f
  <2> QED BY <2>2
<1>3. \A fn \in {"flatten", "resolve"}, n \in Name : CacheOf(fn)'[n] = Unknown'
      BY <1>1 DEF CacheOf, NoEntries, Unknown
<1>4. EntriesFaithful'
      BY <1>3 DEF EntriesFaithful, Entry
<1>5. CallsFaithful' /\ ValuesFaithful' /\ FramesFaithful'
      BY <1>1, <1>2 DEF CallsFaithful, ValuesFaithful, FramesFaithful
<1> QED BY <1>4, <1>5 DEF Faithful

\* A step that changes nothing keeps what is in the caches faithful.
LEMMA StutterFaithful ==
    ASSUME TypeOK, Shape, Faithful, UNCHANGED vars
    PROVE  Faithful'
<1>1. /\ UNCHANGED <<doc, phase, calls, frames, default_value, heard>>
      /\ UNCHANGED <<content_entity_cache, attribute_entity_cache>>
      BY DEF vars, buffers, caches
<1>2. Learns /\ SamePart
      BY <1>1, LearnsNothing DEF SamePart
<1>3. EntriesFaithful' /\ ValuesFaithful' /\ FramesFaithful'
      BY <1>1, <1>2, SameEntries, NoneHeard, SameFrames DEF Faithful
<1>4. CallsFaithful'
  <2>1. PICK old : old = calls
        OBVIOUS
  <2>2. \A i \in 1 .. Len(old) : Undisturbed(old[i])
        BY <1>1, LearnsNothing DEF Undisturbed
  <2>3. \A i \in 1 .. Len(old) : CallAs(old, i)'
        BY <1>1, <1>2, <2>1, <2>2, CallStands DEF Faithful
  <2>4. calls' = old
        BY <1>1, <2>1
  <2> QED BY <2>3, <2>4, CallsAre
<1> QED BY <1>3, <1>4 DEF Faithful

\* Every step keeps what is in the caches faithful.
LEMMA NextFaithful ==
    ASSUME TypeOK, Shape, Distinct, Faithful, [Next]_vars
    PROVE  Faithful'
BY FlattenCharacterFaithful, FlattenOtherFaithful, FlattenReferenceFaithful, ReturnFaithful,
   ResolveCharacterFaithful, ResolveOtherFaithful, ResolveReferenceFaithful, EndOfDoctypeFaithful,
   EndOfValueFaithful, CharactersFaithful, DecodedFaithful, StartTagFaithful, AttributeTagFaithful,
   EndTagFaithful, GeneralReferenceFaithful, EnterFlattenedFaithful, EndOfEntityFaithful,
   EndWithinReferenceFaithful, EndOfDocumentFaithful, ResetFaithful, StutterFaithful DEF Next

\* What is made of a reference alone.
LEMMA ValueAlone ==
    ASSUME TypeOK, NEW n \in Name, NEW value, ValueOf(n, value)
    PROVE  Resolves(<<Reference(n)>>) /\ value = ValuePiece(Reference(n))
<1> DEFINE item == Reference(n)
           y    == Yield("resolve", item)
<1>1. item \in Item /\ item.is = "reference" /\ item.of = n
      BY DEF Item, Reference
<1>2. y = ValuePiece(item)
      BY DEF Yield
<1>3. ReadsAll("resolve", <<item>>) /\ value = Gives("resolve", <<item>>)
      BY DEF ValueOf
<1>4. Readable("resolve", item)
  <2>1. 1 \in DOMAIN <<item>> /\ <<item>>[1] = item
        OBVIOUS
  <2> HIDE DEF item
  <2> QED BY <1>3, <2>1 DEF ReadsAll
<1>5. y \in Seq(Letter)
  <2>1. doc.entity[n].kind = "none" \/ IsResolved(n)
        BY <1>1, <1>4 DEF Readable
  <2>2. CASE doc.entity[n].kind = "none"
    <3>1. y = << >>
          BY <1>1, <1>2, <2>2 DEF ValuePiece
    <3> QED BY <3>1, Empty
  <2>3. CASE doc.entity[n].kind # "none"
    <3>1. y = attribute_entity_cache[n]
          BY <1>1, <1>2, <2>3 DEF ValuePiece
    <3>2. attribute_entity_cache[n] # Unknown
          BY <2>1, <2>3 DEF IsResolved
    <3> QED BY <3>1, <3>2, CacheIs
  <2> QED BY <2>2, <2>3
<1> HIDE DEF y
<1>6. value = << >> \o y
  <2> HIDE DEF item
  <2>1. << >> \in Seq(Item) /\ Append(<< >>, item) = <<item>>
        OBVIOUS
  <2>2. Gives("resolve", Append(<< >>, item)) = Gives("resolve", << >>) \o y
        BY <1>1, <1>5, <2>1, GivesMore DEF y
  <2> QED BY <1>3, <2>1, <2>2, GivesNothing
<1>7. << >> \o y = y
      BY <1>5
<1>8. Resolves(<<item>>)
      BY <1>3, WhatIsGiven
<1> QED BY <1>2, <1>6, <1>7, <1>8

\* The rest of a text.
LEMMA RestOf ==
    ASSUME NEW S, NEW s \in Seq(S), NEW r \in Seq(S)
    PROVE  Len(s) \in 0 .. Len(s \o r) /\ r = SubSeq(s \o r, Len(s) + 1, Len(s \o r))
<1> DEFINE t == s \o r
           u == SubSeq(t, Len(s) + 1, Len(t))
<1>1. Len(s) \in Nat /\ Len(r) \in Nat /\ Len(t) = Len(s) + Len(r) /\ t \in Seq(S)
      OBVIOUS
<1>2. u \in Seq(S) /\ Len(u) = Len(r)
      BY <1>1
<1>3. \A i \in 1 .. Len(r) : u[i] = t[Len(s) + i]
      BY <1>1
<1>4. \A i \in 1 .. Len(r) : t[Len(s) + i] = r[i]
      BY <1>1
<1> HIDE DEF u, t
<1>5. \A i \in 1 .. Len(r) : u[i] = r[i]
      BY <1>3, <1>4
<1>6. u = r
      BY <1>2, <1>5, SeqEqual
<1> QED BY <1>1, <1>6 DEF t, u

\* What is faithful in these parts is CachesFaithful.
LEMMA FaithfulIs ==
    ASSUME TypeOK, Shape, Faithful
    PROVE  CachesFaithful
<1>1. ASSUME NEW n \in Name, IsFlat(n)
      PROVE  /\ ~doc.xml11 /\ Allowed(n) /\ Flattens(doc.entity[n].text)
             /\ content_entity_cache[n] = Flattened(doc.entity[n].text)
  <2>1. Entry("flatten", n) /\ CacheOf("flatten")[n] = content_entity_cache[n]
        BY DEF Faithful, EntriesFaithful, CacheOf
  <2> QED BY <1>1, <2>1, WhatIsGiven DEF Entry, IsFlat
<1>2. ASSUME NEW n \in Name, IsResolved(n)
      PROVE  /\ Allowed(n) /\ Resolves(doc.entity[n].text)
             /\ attribute_entity_cache[n] = Resolved(doc.entity[n].text)
  <2>1. Entry("resolve", n) /\ CacheOf("resolve")[n] = attribute_entity_cache[n]
        BY DEF Faithful, EntriesFaithful, CacheOf
  <2>2. attribute_entity_cache[n] \in Seq(Letter) /\ attribute_entity_cache[n] # Unknown
        BY <1>2, CacheIs DEF IsResolved
  <2>3. attribute_entity_cache[n] \notin {Unknown, NotFlat}
        BY <2>2, Marks
  <2> QED BY <2>1, <2>3, WhatIsGiven DEF Entry
<1>3. phase # "doctype" => Resolves(doc.default) /\ default_value = Resolved(doc.default)
      BY WhatIsGiven DEF Faithful, ValuesFaithful
<1>4. ASSUME NEW i \in DOMAIN heard, heard[i][1] = "attribute"
      PROVE  \/ heard[i][2] = default_value
             \/ \E n \in Name : Resolves(<<Reference(n)>>) /\ heard[i][2] = ValuePiece(Reference(n))
  <2>1. i \in 1 .. Len(heard)
        BY DEF TypeOK
  <2>2. heard[i][2] = default_value \/ \E n \in Name : ValueOf(n, heard[i][2])
        BY <1>4, <2>1 DEF Faithful, ValuesFaithful, Meant
  <2> QED BY <2>2, ValueAlone
<1>5. ASSUME NEW i \in 2 .. Len(frames)
      PROVE  \E text \in {doc.entity[frames[i].name].text, content_entity_cache[frames[i].name]} :
               /\ text \notin {Unknown, NotFlat}
               /\ \E k \in 0 .. Len(text) : frames[i].rest = SubSeq(text, k + 1, Len(text))
  <2>1. PICK f : f = frames[i]
        OBVIOUS
  <2>2. PICK before \in Seq(Item) : before \o f.rest \in Scannable(f.name)
        BY <2>1 DEF Faithful, FramesFaithful
  <2>3. f.rest \in Seq(Item)
    <3>1. i \in 1 .. Len(frames) /\ frames \in Seq(Frames)
          BY FramesIs
    <3>2. f \in Frames
          BY <2>1, <3>1
    <3> QED BY <3>2 DEF Frames
  <2>4. PICK text : text = before \o f.rest
        OBVIOUS
  <2>5. Len(before) \in 0 .. Len(text) /\ f.rest = SubSeq(text, Len(before) + 1, Len(text))
        BY <2>3, <2>4, RestOf
  <2>6. text \in {doc.entity[f.name].text, content_entity_cache[f.name]} /\ text \notin {Unknown, NotFlat}
        BY <2>2, <2>4 DEF Scannable
  <2> QED BY <2>1, <2>5, <2>6
<1> QED BY <1>1, <1>2, <1>3, <1>4, <1>5 DEF CachesFaithful

\* A text in a cache is that of its entity with a text from the cache in place
\* of every reference, a value that is heard is made of such texts, and nothing
\* but the text of its entity is scanned in place of a reference.
THEOREM CachesTrue == Spec => []CachesFaithful
<1>1. TypeOK /\ Shape /\ Distinct /\ Faithful => CachesFaithful
      BY FaithfulIs
<1>2. TypeOK /\ Shape /\ Distinct /\ Faithful /\ [Next]_vars => (TypeOK /\ Shape /\ Distinct /\ Faithful)'
      BY NextTypes, NextDistinct, NextFaithful
<1> QED BY <1>1, <1>2, InitTypes, InitDistinct, InitFaithful, PTL DEF Spec
=============================================================================
