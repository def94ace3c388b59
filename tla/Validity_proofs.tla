---------------------------- MODULE Validity_proofs ----------------------------
(***************************************************************************)
(* Theorems about validity, for every set of prologs and documents, every  *)
(* matcher of content models, every depth and number of resets.            *)
(*                                                                         *)
(* The argument for content.  An element that is still open has been       *)
(* complained of exactly if a text or a child so far is refused by the     *)
(* declaration its validator holds; a piece of content or a child adds to  *)
(* both sides alike, and the end adds what only the whole can tell.  The   *)
(* declaration the validator holds is the first one, because the list of   *)
(* declarations is read in order and complete before the first tag.        *)
(*                                                                         *)
(* The argument for identities.  The scanner's set of IDs is at every      *)
(* moment what the tags before and the attributes heard of this one give;  *)
(* so an attribute is judged against just those.  References are collected *)
(* to the end, where the set is that of the whole document.                *)
(*                                                                         *)
(* The argument for declarations and attributes.  A declaration has a      *)
(* place in the prolog, and of those of one element or attribute the first *)
(* counts.  What has been heard, and what each list of attributes holds,   *)
(* are the places that count, in order, up to a mark.  The mark stays when *)
(* a declaration is scanned again: what comes before it is known, and      *)
(* nothing is heard until it is passed.  After the prolog the lists hold   *)
(* all that counts, so an attribute of a tag is heard as its place says    *)
(* and the defaults are the places the tag leaves, in order.  Where no     *)
(* declaration outside precedes one inside, the places that count inside   *)
(* are those that count and are inside; so what a document hears without   *)
(* the others differs only by what has been complained of.                 *)
(***************************************************************************)
EXTENDS Validity, WellFoundedInduction, TLAPS

-------------------------------------------------------------------------------
(* The inductive invariant                                                     *)

\* What has been read: of the declarations of an element the first one counts,
\* and once there are elements nothing is read any more.
ElementsRead ==
    DOMAIN elements =
        {doctype.declarations[i].name :
            i \in {j \in 1 .. read : doctype.declarations[j].kind = "element"}}

DtdInv ==
    /\ doctype \in Doctypes
    /\ read \in 0 .. Len(doctype.declarations)
    /\ ElementsRead
    /\ \A name \in DOMAIN elements : elements[name] = ElementOf(name)
    /\ \A name \in DOMAIN elements :
          \E i \in ElementDeclarations(name) : elements[name] = doctype.declarations[i]
    /\ IsSequence(elementStack)
    /\ prologEnded => read = Len(doctype.declarations)
    /\ elementStack # << >> => prologEnded
    /\ inStartTag => elementStack # << >>

\* What is known of an open element before it ends: the texts and children that
\* its declaration refuses have been complained of, the others have not.
RefusedSoFar(decl, e) ==
    \/ /\ decl.content = "empty"
       /\ e.children # << >> \/ ~(e.content \subseteq {"emptyCData"})
    \/ /\ decl.content = "mixed"
       /\ \E i \in DOMAIN e.children : ChildRefused(decl, e.children[i])
    \/ /\ decl.content = "element"
       /\ e.content \cap {"text", "charref", "cdata"} # {}

DeclarationOf(name) == IF IsDeclared(name) THEN elements[name] ELSE AnyContent(name)

ElementFollowed(e, validator, name, decl) ==
    /\ DOMAIN e = {"name", "children", "content", "complaints"}
    /\ DOMAIN validator = {"decl", "children"}
    /\ IsSequence(e.children)
    /\ e.name = name
    /\ validator.children = e.children
    /\ validator.decl = decl
    /\ "content" \in e.complaints <=> RefusedSoFar(decl, e)

ContentInv ==
    doctype.validating =>
        /\ IsSequence(validators) /\ IsSequence(open)
        /\ Len(validators) = Len(elementStack) /\ Len(open) = Len(elementStack)
        /\ \A i \in 1 .. Len(open) :
              ElementFollowed(open[i], validators[i], elementStack[i],
                              DeclarationOf(elementStack[i]))
        /\ judged # << >> =>
              ("content" \in judged[1].complaints) # AllowedContent(judged[1])

TagFields == {"element", "written", "heard", "defaulted", "complaints", "idsBefore"}

Duplicate(n) == <<"duplicate ID", tag.heard[n].name>> \in tag.complaints

IdsInv ==
    /\ closed => ~inStartTag
    /\ DOMAIN tag = TagFields
    /\ IsSequence(tag.heard) /\ IsSequence(idsWritten)
    /\ doctype.validating =>
        /\ declaredIds = ToSet(idsWritten)
        /\ declaredIds = tag.idsBefore \cup IdsOfTag(Len(tag.heard) + 1)
        /\ ~closed => pendingIdrefs = refsWritten
        /\ closed => unresolved = Unresolved(refsWritten, ToSet(idsWritten))
        /\ \A n \in DOMAIN tag.heard : tag.heard[n].name \in seenAttributes
        /\ \A name : <<"duplicate ID", name>> \in tag.complaints => name \in seenAttributes
        /\ \A n \in DOMAIN tag.heard :
              IsID(tag.heard[n]) =>
                  (Duplicate(n) <=> tag.heard[n].value \in tag.idsBefore \cup IdsOfTag(n))
-------------------------------------------------------------------------------
(* Sequences                                                                   *)

\* A sequence with an element more at its end.
LEMMA Appended ==
    ASSUME NEW s, IsSequence(s), NEW x
    PROVE  /\ IsSequence(Append(s, x))
           /\ Len(Append(s, x)) = Len(s) + 1
           /\ Append(s, x)[Len(s) + 1] = x
           /\ \A i \in 1 .. Len(s) : Append(s, x)[i] = s[i]
           /\ ToSet(Append(s, x)) = ToSet(s) \cup {x}
  <1>1. s \in Seq(ToSet(s)) /\ DOMAIN s = 1 .. Len(s) /\ Len(s) \in Nat
    BY DEF IsSequence
  <1>2. /\ Append(s, x) \in Seq(ToSet(s) \cup {x})
        /\ Len(Append(s, x)) = Len(s) + 1
        /\ DOMAIN Append(s, x) = 1 .. Len(s) + 1
        /\ Append(s, x)[Len(s) + 1] = x
        /\ \A i \in 1 .. Len(s) : Append(s, x)[i] = s[i]
    <2> DEFINE S == ToSet(s) \cup {x}
    <2>1. s \in Seq(S) /\ x \in S
      BY <1>1
    <2> HIDE DEF S
    <2>2. QED BY <2>1, <1>1 DEF S
  <1>3. ToSet(Append(s, x)) = ToSet(s) \cup {x}
    <2>1. \A y \in ToSet(s) \cup {x} : \E i \in 1 .. Len(s) + 1 : Append(s, x)[i] = y
      BY <1>1, <1>2 DEF ToSet
    <2>2. \A i \in 1 .. Len(s) + 1 : Append(s, x)[i] \in ToSet(s) \cup {x}
      BY <1>1, <1>2 DEF ToSet
    <2> QED BY <1>2, <2>1, <2>2 DEF ToSet
  <1> QED BY <1>2, <1>3 DEF IsSequence

\* A sequence with another element at one of its places.
With(s, n, x) == [s EXCEPT ![n] = x]

\* A sequence keeps its length and its other elements.
LEMMA Replaced ==
    ASSUME NEW s, IsSequence(s), NEW n \in 1 .. Len(s), NEW x
    PROVE  /\ IsSequence(With(s, n, x))
           /\ Len(With(s, n, x)) = Len(s)
           /\ With(s, n, x)[n] = x
           /\ \A i \in 1 .. Len(s) : i # n => With(s, n, x)[i] = s[i]
  <1> DEFINE t == With(s, n, x)
  <1>1. s \in Seq(ToSet(s)) /\ DOMAIN s = 1 .. Len(s) /\ Len(s) \in Nat
    BY DEF IsSequence
  <1>2. DOMAIN t = 1 .. Len(s) /\ t = [i \in 1 .. Len(s) |-> IF i = n THEN x ELSE s[i]]
    BY <1>1 DEF With
  <1>3. \A i \in 1 .. Len(s) : t[i] \in ToSet(t)
    BY <1>2 DEF ToSet
  <1>4. t \in [1 .. Len(s) -> ToSet(t)]
    BY <1>2, <1>3
  <1>5. t \in Seq(ToSet(t)) /\ Len(t) = Len(s)
    BY <1>1, <1>4
  <1> QED BY <1>1, <1>2, <1>5 DEF IsSequence

\* A sequence without its last element.
LEMMA Shortened ==
    ASSUME NEW s, IsSequence(s), s # << >>
    PROVE  /\ IsSequence(Front(s))
           /\ Len(s) > 0
           /\ Len(Front(s)) = Len(s) - 1
           /\ \A i \in 1 .. Len(s) - 1 : Front(s)[i] = s[i]
  <1>1. s \in Seq(ToSet(s)) /\ DOMAIN s = 1 .. Len(s) /\ Len(s) \in Nat \ {0}
    BY DEF IsSequence
  <1>2. /\ Len(Front(s)) = Len(s) - 1
        /\ DOMAIN Front(s) = 1 .. Len(s) - 1
        /\ \A i \in 1 .. Len(s) - 1 : Front(s)[i] = s[i]
        /\ Front(s) \in Seq(ToSet(s))
    BY <1>1 DEF Front
  <1>3. \A i \in 1 .. Len(s) - 1 : Front(s)[i] \in ToSet(Front(s))
    BY <1>2 DEF ToSet
  <1>4. Front(s) \in [1 .. Len(s) - 1 -> ToSet(Front(s))]
    BY <1>2, <1>3
  <1> QED BY <1>1, <1>2, <1>4 DEF IsSequence

\* The empty sequence.
LEMMA EmptySequence == IsSequence(<< >>) /\ Len(<< >>) = 0 /\ ToSet(<< >>) = {}
  BY DEF IsSequence, ToSet
-------------------------------------------------------------------------------
(* Declarations                                                                *)

\* What the assumption on prologs says of this one.
LEMMA DoctypeShape ==
    ASSUME doctype \in Doctypes
    PROVE  /\ doctype.validating \in BOOLEAN
           /\ Len(doctype.declarations) \in Nat
           /\ DOMAIN doctype.declarations = 1 .. Len(doctype.declarations)
           /\ \A i \in DOMAIN doctype.declarations :
                 /\ doctype.declarations[i].kind \in {"element", "attlist"}
                 /\ DeclarationAssumption(doctype.declarations[i])
  <1>1. doctype.declarations \in Seq(ToSet(doctype.declarations))
    BY DoctypesAssumption DEF IsSequence
  <1> QED BY <1>1, DoctypesAssumption

\* The smallest of a set of positions.
LEMMA MinIs ==
    ASSUME NEW S \in SUBSET Nat, NEW m \in S, \A j \in S : m <= j
    PROVE  Min(S) = m
  <1> DEFINE c == Min(S)
  <1>1. c \in S /\ \A j \in S : c <= j
    BY DEF Min
  <1> HIDE DEF c
  <1>2. c = m
    BY <1>1
  <1> QED BY <1>2 DEF c

\* A declaration of an element that none precedes is the one that counts.
LEMMA FirstCounts ==
    ASSUME doctype \in Doctypes,
           NEW n \in 1 .. Len(doctype.declarations),
           doctype.declarations[n].kind = "element",
           NEW name, doctype.declarations[n].name = name,
           \A j \in 1 .. n - 1 : ~(/\ doctype.declarations[j].kind = "element"
                                  /\ doctype.declarations[j].name = name)
    PROVE  ElementOf(name) = doctype.declarations[n]
  <1>1. /\ n \in ElementDeclarations(name) /\ ElementDeclarations(name) \in SUBSET Nat
    BY DoctypeShape DEF ElementDeclarations
  <1>2. \A j \in ElementDeclarations(name) : n <= j
    BY DoctypeShape DEF ElementDeclarations
  <1> QED BY <1>1, <1>2, MinIs DEF ElementOf

\* What a name means is settled by the document.
LEMMA SameMeaning ==
    ASSUME UNCHANGED doctype
    PROVE  \A name : /\ ElementDeclarations(name)' = ElementDeclarations(name)
                     /\ ElementOf(name)' = ElementOf(name)
  <1>1. \A name : ElementDeclarations(name)' = ElementDeclarations(name)
    BY DEF ElementDeclarations
  <1> QED BY <1>1 DEF ElementOf

\* Reading another declaration, of the first of an element or not, keeps this.
LEMMA DeclarationKeepsDtd ==
    ASSUME DtdInv, ElementDeclaration
    PROVE  DtdInv'
  <1> DEFINE n == read + 1
             d == doctype.declarations[n]
  <1>1. /\ n \in 1 .. Len(doctype.declarations) /\ d.kind = "element"
        /\ read' = n /\ n - 1 = read
        /\ ~prologEnded
        /\ UNCHANGED <<doctype, prologEnded, elementStack, inStartTag>>
    <2>1. read < Len(doctype.declarations) /\ d.kind = "element" /\ read' = n
      BY DEF ElementDeclaration, MoreDeclarations, Next1
    <2>2. read \in 0 .. Len(doctype.declarations) /\ Len(doctype.declarations) \in Nat
      BY DoctypeShape DEF DtdInv
    <2>3. UNCHANGED <<doctype, prologEnded, elementStack, inStartTag>>
      BY DEF ElementDeclaration, contentVars, tagVars, sessionVars
    <2>4. n \in 1 .. Len(doctype.declarations) /\ n - 1 = read /\ ~prologEnded
      BY <2>1, <2>2 DEF DtdInv
    <2> QED BY <2>1, <2>3, <2>4
  <1>2. {j \in 1 .. n : doctype.declarations[j].kind = "element"}
          = {j \in 1 .. read : doctype.declarations[j].kind = "element"} \cup {n}
    BY <1>1, DoctypeShape DEF DtdInv
  <1>3. {doctype.declarations[i].name :
            i \in {j \in 1 .. n : doctype.declarations[j].kind = "element"}}
          = DOMAIN elements \cup {d.name}
    BY <1>2 DEF DtdInv, ElementsRead
  <1>6. /\ doctype' \in Doctypes /\ IsSequence(elementStack)'
        /\ read' \in 0 .. Len(doctype.declarations)'
        /\ prologEnded' => read' = Len(doctype.declarations)'
        /\ elementStack' # << >> => prologEnded'
        /\ inStartTag' => elementStack' # << >>
    BY <1>1 DEF DtdInv, IsSequence
  <1>4. CASE d.name \in DOMAIN elements
    <2>1. elements' = elements
      BY <1>4 DEF ElementDeclaration, Next1
    <2>2. ElementsRead'
      BY <1>1, <1>3, <1>4, <2>1 DEF ElementsRead
    <2>3. \A name \in DOMAIN elements' : elements'[name] = ElementOf(name)'
      BY <1>1, <2>1, SameMeaning DEF DtdInv
    <2>4. \A name \in DOMAIN elements' :
             \E i \in ElementDeclarations(name)' : elements'[name] = doctype.declarations'[i]
      BY <1>1, <2>1, SameMeaning DEF DtdInv
    <2> QED BY <1>6, <2>2, <2>3, <2>4 DEF DtdInv
  <1>5. CASE d.name \notin DOMAIN elements
    <2>1. elements' = [x \in {d.name} \cup DOMAIN elements |->
                          IF x = d.name THEN d ELSE elements[x]]
      BY <1>5 DEF ElementDeclaration, Next1, Put
    <2>2. ElementsRead'
      BY <1>1, <1>3, <2>1 DEF ElementsRead
    <2>3. \A j \in 1 .. n - 1 : ~(/\ doctype.declarations[j].kind = "element"
                                  /\ doctype.declarations[j].name = d.name)
      BY <1>1, <1>5 DEF DtdInv, ElementsRead
    <2>4. ElementOf(d.name) = d
      BY <1>1, <2>3, FirstCounts DEF DtdInv
    <2>5. \A name \in DOMAIN elements' : elements'[name] = ElementOf(name)
      BY <2>1, <2>4 DEF DtdInv
    <2>6. \A name \in DOMAIN elements' : elements'[name] = ElementOf(name)'
      BY <1>1, <2>5, SameMeaning
    <2>7. n \in ElementDeclarations(d.name)
      BY <1>1, DoctypeShape DEF ElementDeclarations, DtdInv
    <2>8. \A name \in DOMAIN elements' :
             \E i \in ElementDeclarations(name)' : elements'[name] = doctype.declarations'[i]
      BY <1>1, <2>1, <2>7, SameMeaning DEF DtdInv
    <2> QED BY <1>6, <2>2, <2>6, <2>8 DEF DtdInv
  <1> QED BY <1>4, <1>5

\* So does everything else.
LEMMA AttlistKeepsDtd ==
    ASSUME DtdInv, DeclareAttribute \/ ScanAgain \/ EndOfAttlist
    PROVE  DtdInv'
  <1>1. UNCHANGED <<doctype, prologEnded, elements, elementStack, inStartTag>>
    BY DEF DeclareAttribute, ScanAgain, EndOfAttlist, contentVars, tagVars, sessionVars
  <1>2. read < Len(doctype.declarations) /\ doctype.declarations[read + 1].kind = "attlist"
    BY DEF DeclareAttribute, ScanAgain, EndOfAttlist, MoreDeclarations, Next1
  <1>3. read' \in {read, read + 1}
    BY DEF DeclareAttribute, ScanAgain, EndOfAttlist
  <1>4. read' \in 0 .. Len(doctype.declarations)' /\ ~prologEnded
    BY <1>1, <1>2, <1>3, DoctypeShape DEF DtdInv
  <1>5. {j \in 1 .. read' : doctype.declarations[j].kind = "element"}
          = {j \in 1 .. read : doctype.declarations[j].kind = "element"}
    BY <1>2, <1>3, DoctypeShape DEF DtdInv
  <1>6. ElementsRead'
    BY <1>1, <1>5 DEF DtdInv, ElementsRead
  <1>7. /\ \A name \in DOMAIN elements' : elements'[name] = ElementOf(name)'
        /\ \A name \in DOMAIN elements' :
              \E i \in ElementDeclarations(name)' : elements'[name] = doctype.declarations'[i]
    BY <1>1, SameMeaning DEF DtdInv
  <1>8. IsSequence(elementStack)' /\ doctype' \in Doctypes
    BY <1>1 DEF DtdInv, IsSequence
  <1> QED BY <1>1, <1>4, <1>6, <1>7, <1>8 DEF DtdInv

\* A step after the prolog, or of no concern to it.
LEMMA LaterKeepsDtd ==
    ASSUME DtdInv, UNCHANGED <<doctype, read, elements>>,
           prologEnded' => read = Len(doctype.declarations),
           IsSequence(elementStack'),
           elementStack' # << >> => prologEnded',
           inStartTag' => elementStack' # << >>
    PROVE  DtdInv'
  <1>1. ElementsRead'
    BY DEF DtdInv, ElementsRead
  <1>2. /\ \A name \in DOMAIN elements' : elements'[name] = ElementOf(name)'
        /\ \A name \in DOMAIN elements' :
              \E i \in ElementDeclarations(name)' : elements'[name] = doctype.declarations'[i]
    BY SameMeaning DEF DtdInv
  <1>3. IsSequence(elementStack)'
    BY DEF IsSequence
  <1> QED BY <1>1, <1>2, <1>3 DEF DtdInv

\* And a new document.
LEMMA NewDocumentDtd ==
    ASSUME doctype' \in Doctypes, read' = 0, elements' = << >>, elementStack' = << >>,
           prologEnded' = FALSE, inStartTag' = FALSE
    PROVE  DtdInv'
  <1>1. ElementsRead'
    BY DEF ElementsRead
  <1>2. (Len(doctype.declarations) \in Nat)'
    BY DoctypesAssumption DEF IsSequence
  <1> QED BY <1>1, <1>2, EmptySequence DEF DtdInv, IsSequence

\* The pieces of content differ only in what is said of them.
AnyContentStep == \E kind, complaints : Content(kind, complaints)

\* Each of them is such a step.
LEMMA ContentSteps ==
    ASSUME WhiteSpace \/ Text \/ CharacterReference \/ CData \/ EmptyCData
             \/ CommentOrPI \/ EntityReference
    PROVE  AnyContentStep
  BY DEF WhiteSpace, Text, CharacterReference, CData, EmptyCData, CommentOrPI,
         EntityReference, AnyContentStep

\* So every step keeps what is known of the declarations.
LEMMA DtdKept ==
    ASSUME DtdInv, [Next]_vars
    PROVE  DtdInv'
  <1>1. CASE ElementDeclaration
    BY <1>1, DeclarationKeepsDtd
  <1>2. CASE DeclareAttribute \/ ScanAgain \/ EndOfAttlist
    BY <1>2, AttlistKeepsDtd
  <1>3. CASE EndOfProlog
    <2>1. UNCHANGED <<doctype, read, elements, elementStack, inStartTag>>
          /\ prologEnded' /\ read = Len(doctype.declarations)
      BY <1>3 DEF EndOfProlog, contentVars, tagVars, sessionVars
    <2>2. IsSequence(elementStack')
      BY <2>1 DEF DtdInv
    <2> QED BY <2>1, <2>2, LaterKeepsDtd DEF DtdInv
  <1>4. ASSUME NEW name \in doctype.tags, StartTag(name)
        PROVE  DtdInv'
    <2>1. UNCHANGED <<doctype, read, elements, prologEnded>> /\ prologEnded
          /\ elementStack' = Append(elementStack, name)
      BY <1>4 DEF StartTag, dtdVars, sessionVars, InContent
    <2>2. IsSequence(elementStack') /\ elementStack' # << >>
      <3>1. IsSequence(elementStack') /\ Len(elementStack') = Len(elementStack) + 1
        BY <2>1, Appended DEF DtdInv
      <3>2. Len(elementStack) \in Nat
        BY DEF DtdInv, IsSequence
      <3> QED BY <3>1, <3>2, EmptySequence
    <2> QED BY <2>1, <2>2, LaterKeepsDtd DEF DtdInv
  <1>5. ASSUME NEW a \in doctype.attributes, Attribute(a[1], a[2])
        PROVE  DtdInv'
    <2>1. UNCHANGED <<doctype, read, elements, elementStack, inStartTag, prologEnded>>
      BY <1>5 DEF Attribute, dtdVars, sessionVars
    <2>2. IsSequence(elementStack')
      BY <2>1 DEF DtdInv
    <2> QED BY <2>1, <2>2, LaterKeepsDtd DEF DtdInv
  <1>6. CASE TagEnd
    <2>1. UNCHANGED <<doctype, read, elements, elementStack, prologEnded>> /\ ~inStartTag'
      BY <1>6 DEF TagEnd, EndOfAttributes, dtdVars, sessionVars
    <2>2. IsSequence(elementStack')
      BY <2>1 DEF DtdInv
    <2> QED BY <2>1, <2>2, LaterKeepsDtd DEF DtdInv
  <1>7. CASE EmptyTagEnd \/ EndTag
    <2>1. UNCHANGED <<doctype, read, elements, prologEnded>> /\ ~inStartTag'
          /\ elementStack # << >> /\ elementStack' = Front(elementStack)
      <3>1. CASE EmptyTagEnd
        BY <3>1 DEF EmptyTagEnd, EndOfAttributes, PopElement, dtdVars, sessionVars, DtdInv
      <3>2. CASE EndTag
        BY <3>2 DEF EndTag, PopElement, InElement, InContent, dtdVars, tagVars, sessionVars
      <3> QED BY <1>7, <3>1, <3>2
    <2>2. IsSequence(elementStack')
      BY <2>1, Shortened DEF DtdInv
    <2> QED BY <2>1, <2>2, LaterKeepsDtd DEF DtdInv
  <1>8. CASE AnyContentStep
    <2>1. UNCHANGED <<doctype, read, elements, elementStack, inStartTag, prologEnded>>
      BY <1>8 DEF AnyContentStep, Content, dtdVars, tagVars, sessionVars
    <2>2. IsSequence(elementStack')
      BY <2>1 DEF DtdInv
    <2> QED BY <2>1, <2>2, LaterKeepsDtd DEF DtdInv
  <1>9. CASE Close
    <2>1. UNCHANGED <<doctype, read, elements, elementStack, inStartTag, prologEnded>>
      BY <1>9 DEF Close, dtdVars, tagVars
    <2>2. IsSequence(elementStack')
      BY <2>1 DEF DtdInv
    <2> QED BY <2>1, <2>2, LaterKeepsDtd DEF DtdInv
  <1>10. CASE Reset
    BY <1>10, NewDocumentDtd DEF Reset
  <1>11. CASE UNCHANGED vars
    <2>1. UNCHANGED <<doctype, read, elements, elementStack, inStartTag, prologEnded>>
      BY <1>11 DEF vars, dtdVars, contentVars, tagVars, sessionVars
    <2>2. IsSequence(elementStack')
      BY <2>1 DEF DtdInv
    <2> QED BY <2>1, <2>2, LaterKeepsDtd DEF DtdInv
  <1> QED BY <1>1, <1>2, <1>3, <1>4, <1>5, <1>6, <1>7, <1>8, <1>9, <1>10, <1>11,
             ContentSteps DEF Next
\* Before the first declaration nothing has been read.
LEMMA DtdAtFirst ==
    ASSUME Init
    PROVE  DtdInv
  <1>1. ElementsRead
    BY DEF Init, ElementsRead
  <1>2. Len(doctype.declarations) \in Nat
    BY DoctypeShape DEF Init
  <1> QED BY <1>1, <1>2, EmptySequence DEF Init, DtdInv
-------------------------------------------------------------------------------
(* Content                                                                     *)

\* The declaration an element is held to is one of its document, or allows all.
LEMMA DeclarationShape ==
    ASSUME DtdInv, NEW name
    PROVE  LET decl == DeclarationOf(name)
           IN  /\ decl.content \in ContentTypes
               /\ decl.content \in {"mixed", "element"} => decl.model # NoModel
               /\ IsDeclared(name) => decl = elements[name]
               /\ ~IsDeclared(name) => decl.content = "any"
  <1>1. CASE IsDeclared(name)
    <2>1. PICK i \in ElementDeclarations(name) : elements[name] = doctype.declarations[i]
      BY <1>1 DEF DtdInv, IsDeclared
    <2>2. i \in DOMAIN doctype.declarations /\ doctype.declarations[i].kind = "element"
      BY DEF ElementDeclarations
    <2>3. DeclarationAssumption(doctype.declarations[i])
      BY <2>2, DoctypeShape DEF DtdInv
    <2> QED BY <1>1, <2>1, <2>2, <2>3 DEF DeclarationOf, DeclarationAssumption
  <1>2. CASE ~IsDeclared(name)
    BY <1>2 DEF DeclarationOf, AnyContent, ContentTypes
  <1> QED BY <1>1, <1>2

\* Once the prolog is complete, what is known of an element is what it declares.
LEMMA AllIsRead ==
    ASSUME DtdInv, prologEnded, NEW name
    PROVE  /\ HasElement(name) <=> IsDeclared(name)
           /\ HasElement(name) => ElementOf(name) = DeclarationOf(name)
  <1>1. DOMAIN elements = {doctype.declarations[i].name :
            i \in {j \in 1 .. Len(doctype.declarations) :
                      doctype.declarations[j].kind = "element"}}
    BY DEF DtdInv, ElementsRead
  <1>2. DOMAIN doctype.declarations = 1 .. Len(doctype.declarations)
    BY DoctypeShape DEF DtdInv
  <1>3. HasElement(name) <=> IsDeclared(name)
    BY <1>1, <1>2 DEF HasElement, ElementDeclarations, IsDeclared
  <1> QED BY <1>3 DEF DtdInv, DeclarationOf, IsDeclared

\* The three judgements together are the meaning of the declaration.
LEMMA AllowedMeans ==
    ASSUME DtdInv, prologEnded, NEW e
    PROVE  AllowedContent(e) <=>
              ~(\/ RefusedSoFar(DeclarationOf(e.name), e)
                \/ ContentRefused(DeclarationOf(e.name), e.children))
  <1> DEFINE decl == DeclarationOf(e.name)
  <1>1. /\ decl.content \in ContentTypes
        /\ decl.content \in {"mixed", "element"} => decl.model # NoModel
        /\ ~IsDeclared(e.name) => decl.content = "any"
    BY DeclarationShape
  <1>2. /\ HasElement(e.name) <=> IsDeclared(e.name)
        /\ HasElement(e.name) => ElementOf(e.name) = decl
    BY AllIsRead
  <1> HIDE DEF decl
  <1>3. CASE ~HasElement(e.name)
    BY <1>1, <1>2, <1>3 DEF AllowedContent, RefusedSoFar, ContentRefused, decl
  <1>4. CASE HasElement(e.name) /\ decl.content = "any"
    BY <1>1, <1>2, <1>4 DEF AllowedContent, RefusedSoFar, ContentRefused, decl
  <1>5. CASE HasElement(e.name) /\ decl.content = "empty"
    BY <1>1, <1>2, <1>5 DEF AllowedContent, RefusedSoFar, ContentRefused, decl
  <1>6. CASE HasElement(e.name) /\ decl.content = "mixed"
    BY <1>1, <1>2, <1>6 DEF AllowedContent, RefusedSoFar, ContentRefused, ChildRefused, decl
  <1>7. CASE HasElement(e.name) /\ decl.content = "element"
    BY <1>1, <1>2, <1>7 DEF AllowedContent, RefusedSoFar, ContentRefused, decl
  <1> QED BY <1>1, <1>3, <1>4, <1>5, <1>6, <1>7 DEF ContentTypes

\* It is read off the name, the children and the content of an element.
LEMMA AllowedDependsOn ==
    ASSUME NEW e, NEW f, f.name = e.name, f.children = e.children, f.content = e.content
    PROVE  AllowedContent(f) = AllowedContent(e)
  BY DEF AllowedContent

\* It is settled by the document.
LEMMA AllowedKept ==
    ASSUME UNCHANGED doctype, NEW e
    PROVE  AllowedContent(e)' = AllowedContent(e)
  <1>1. /\ HasElement(e.name)' = HasElement(e.name)
        /\ ElementOf(e.name)' = ElementOf(e.name)
    BY SameMeaning DEF HasElement
  <1> QED BY <1>1 DEF AllowedContent

\* One more piece of content is refused on its own account.
LEMMA PieceRefused ==
    ASSUME NEW decl, decl.content \in ContentTypes, NEW e, NEW kind, NEW said
    PROVE  RefusedSoFar(decl, WithPiece(e, kind, said)) <=>
              \/ RefusedSoFar(decl, e)
              \/ decl.content = "empty" /\ kind # "emptyCData"
              \/ decl.content = "element" /\ kind \in {"text", "charref", "cdata"}
  <1> DEFINE f == WithPiece(e, kind, said)
  <1>1. f.children = e.children /\ f.content = e.content \cup {kind}
    BY DEF WithPiece
  <1>0. SUFFICES RefusedSoFar(decl, f) <=>
              \/ RefusedSoFar(decl, e)
              \/ decl.content = "empty" /\ kind # "emptyCData"
              \/ decl.content = "element" /\ kind \in {"text", "charref", "cdata"}
    OBVIOUS
  <1> HIDE DEF f
  <1>2. CASE decl.content = "any"
    BY <1>2 DEF RefusedSoFar
  <1>3. CASE decl.content = "empty"
    BY <1>1, <1>3 DEF RefusedSoFar
  <1>4. CASE decl.content = "mixed"
    BY <1>1, <1>4 DEF RefusedSoFar
  <1>5. CASE decl.content = "element"
    BY <1>1, <1>5 DEF RefusedSoFar
  <1> QED BY <1>2, <1>3, <1>4, <1>5 DEF ContentTypes

\* And so is one more child.
LEMMA ChildIsRefused ==
    ASSUME NEW decl, decl.content \in ContentTypes, NEW e, IsSequence(e.children),
           NEW name, NEW said
    PROVE  RefusedSoFar(decl, WithChild(e, name, said)) <=>
              RefusedSoFar(decl, e) \/ ChildRefused(decl, name)
  <1> DEFINE f == WithChild(e, name, said)
  <1>1. f.children = Append(e.children, name) /\ f.content = e.content
    BY DEF WithChild
  <1>2. /\ DOMAIN e.children = 1 .. Len(e.children) /\ Len(e.children) \in Nat
        /\ DOMAIN f.children = 1 .. Len(e.children) + 1
        /\ f.children[Len(e.children) + 1] = name
        /\ \A i \in 1 .. Len(e.children) : f.children[i] = e.children[i]
    BY <1>1, Appended DEF IsSequence
  <1>0. SUFFICES RefusedSoFar(decl, f) <=> RefusedSoFar(decl, e) \/ ChildRefused(decl, name)
    OBVIOUS
  <1> HIDE DEF f
  <1>3. CASE decl.content = "any"
    BY <1>3 DEF RefusedSoFar, ChildRefused
  <1>4. CASE decl.content = "empty"
    <2>1. f.children # << >>
      BY <1>2
    <2> QED BY <1>1, <1>4, <2>1 DEF RefusedSoFar, ChildRefused
  <1>5. CASE decl.content = "mixed"
    <2>1. RefusedSoFar(decl, f) <=> \E i \in DOMAIN f.children : ChildRefused(decl, f.children[i])
      BY <1>5 DEF RefusedSoFar
    <2>2. RefusedSoFar(decl, e) <=> \E i \in DOMAIN e.children : ChildRefused(decl, e.children[i])
      BY <1>5 DEF RefusedSoFar
    <2>3. Len(e.children) + 1 \in DOMAIN f.children
      BY <1>2
    <2>4. \A i \in DOMAIN f.children : i \in DOMAIN e.children \/ i = Len(e.children) + 1
      BY <1>2
    <2>5. DOMAIN e.children \subseteq DOMAIN f.children
      BY <1>2
    <2> QED BY <1>2, <2>1, <2>2, <2>3, <2>4, <2>5
  <1>6. CASE decl.content = "element"
    BY <1>1, <1>6 DEF RefusedSoFar, ChildRefused
  <1> QED BY <1>3, <1>4, <1>5, <1>6 DEF ContentTypes

\* The declaration an element is held to changes only while elements are declared.
LEMMA DeclarationKept ==
    ASSUME UNCHANGED elements
    PROVE  \A name : DeclarationOf(name)' = DeclarationOf(name)
  BY DEF DeclarationOf, IsDeclared

\* A step that leaves the content alone.
LEMMA ContentLeftAlone ==
    ASSUME DtdInv, ContentInv,
           UNCHANGED <<doctype, elementStack, validators, open>>,
           judged' \in {judged, << >>},
           elements' = elements \/ elementStack = << >>
    PROVE  ContentInv'
  <1> SUFFICES ASSUME doctype.validating
               PROVE  ContentInv'
    BY DEF ContentInv
  <1>1. /\ IsSequence(validators') /\ IsSequence(open')
        /\ Len(validators') = Len(elementStack') /\ Len(open') = Len(elementStack')
    BY DEF ContentInv
  <1>2. \A i \in 1 .. Len(open) : DeclarationOf(elementStack[i])' = DeclarationOf(elementStack[i])
    <2>1. CASE elements' = elements
      BY <2>1, DeclarationKept
    <2>2. CASE elementStack = << >>
      BY <2>2, EmptySequence DEF ContentInv
    <2> QED BY <2>1, <2>2
  <1>3. \A i \in 1 .. Len(open') :
           ElementFollowed(open'[i], validators'[i], elementStack'[i],
                           DeclarationOf(elementStack[i])')
    BY <1>2 DEF ContentInv
  <1>4. judged' # << >> =>
            ("content" \in judged'[1].complaints) # AllowedContent(judged[1])'
    <2>1. judged' # << >> => judged' = judged /\ judged # << >>
      OBVIOUS
    <2>2. judged' = judged => AllowedContent(judged[1])' = AllowedContent(judged[1])
      BY AllowedKept
    <2> QED BY <2>1, <2>2 DEF ContentInv
  <1>5. IsSequence(validators)' /\ IsSequence(open)'
    BY <1>1 DEF IsSequence
  <1> QED BY <1>1, <1>3, <1>4, <1>5 DEF ContentInv

\* A new document has no content.
LEMMA NewDocumentContent ==
    ASSUME elementStack' = << >>, validators' = << >>, open' = << >>, judged' = << >>
    PROVE  ContentInv'
  <1>1. 1 .. 0 = {}
    OBVIOUS
  <1> QED BY <1>1, EmptySequence DEF ContentInv, IsSequence

\* What is said of the declaration of the innermost element.
LEMMA Innermost ==
    ASSUME DtdInv, ContentInv, doctype.validating, elementStack # << >>
    PROVE  LET n == Len(open)
               decl == DeclarationOf(Last(elementStack))
           IN  /\ n \in 1 .. Len(open) /\ n = Len(elementStack) /\ n = Len(validators)
               /\ ElementFollowed(open[n], validators[n], elementStack[n], decl)
               /\ Last(open) = open[n] /\ Last(validators) = validators[n]
               /\ Last(elementStack) = elementStack[n]
               /\ Last(validators).decl = decl
               /\ decl.content \in ContentTypes
               /\ \A c \in ContentTypes \ {"any"} : CurrentContentIs(c) <=> decl.content = c
  <1> DEFINE n == Len(open)
             decl == DeclarationOf(Last(elementStack))
  <1>1. n = Len(elementStack) /\ n = Len(validators) /\ n \in 1 .. Len(open)
    BY EmptySequence, Shortened DEF ContentInv, DtdInv, IsSequence
  <1>2. Last(open) = open[n] /\ Last(validators) = validators[n] /\ Last(elementStack) = elementStack[n]
    BY <1>1 DEF Last
  <1>3. ElementFollowed(open[n], validators[n], elementStack[n], decl)
    BY <1>1, <1>2 DEF ContentInv
  <1>4. /\ decl.content \in ContentTypes
        /\ IsDeclared(Last(elementStack)) => decl = elements[Last(elementStack)]
        /\ ~IsDeclared(Last(elementStack)) => decl.content = "any"
    BY DeclarationShape
  <1>5. Last(validators).decl = decl
    BY <1>2, <1>3 DEF ElementFollowed
  <1>6. \A c \in ContentTypes \ {"any"} : CurrentContentIs(c) <=> decl.content = c
    BY <1>4 DEF CurrentContentIs
  <1> QED BY <1>1, <1>2, <1>3, <1>4, <1>5, <1>6

\* A piece of content that is complained of exactly if it is refused.
LEMMA PieceKeepsContent ==
    ASSUME DtdInv, ContentInv, NEW kind, NEW complaints, Content(kind, complaints),
           doctype.validating =>
              LET decl == DeclarationOf(Last(elementStack))
              IN  "content" \in complaints <=>
                      \/ decl.content = "empty" /\ kind # "emptyCData"
                      \/ decl.content = "element" /\ kind \in {"text", "charref", "cdata"}
    PROVE  ContentInv'
  <1> DEFINE n == Len(open)
             decl == DeclarationOf(Last(elementStack))
  <1>1. /\ UNCHANGED <<doctype, elementStack, validators, elements>> /\ judged' = << >>
        /\ elementStack # << >>
        /\ open' = [open EXCEPT ![n] = WithPiece(open[n], kind, Complain(complaints))]
    BY DEF Content, InElement, dtdVars, sessionVars
  <1> SUFFICES ASSUME doctype.validating
               PROVE  ContentInv'
    BY <1>1 DEF ContentInv
  <1>2. /\ n \in 1 .. Len(open) /\ n = Len(elementStack) /\ n = Len(validators)
        /\ ElementFollowed(open[n], validators[n], elementStack[n], decl)
        /\ Last(elementStack) = elementStack[n]
        /\ decl.content \in ContentTypes
    BY <1>1, Innermost
  <1>3. /\ IsSequence(open') /\ Len(open') = Len(open)
        /\ open'[n] = WithPiece(open[n], kind, complaints)
        /\ \A i \in 1 .. Len(open) : i # n => open'[i] = open[i]
    <2>1. IsSequence(open) /\ Complain(complaints) = complaints
      BY DEF ContentInv, Complain
    <2>2. open' = [open EXCEPT ![n] = WithPiece(open[n], kind, complaints)]
      BY <1>1, <2>1
    <2> DEFINE w == WithPiece(open[n], kind, complaints)
    <2> HIDE DEF w
    <2>3. open' = With(open, n, w)
      BY <2>2 DEF w, With
    <2>4. /\ IsSequence(open') /\ Len(open') = Len(open) /\ open'[n] = w
          /\ \A i \in 1 .. Len(open) : i # n => open'[i] = open[i]
      BY <1>2, <2>1, <2>3, Replaced
    <2> QED BY <2>4 DEF w
  <1>4. ElementFollowed(open'[n], validators[n], elementStack[n], decl)
    <2>1. RefusedSoFar(decl, open'[n]) <=>
              \/ RefusedSoFar(decl, open[n])
              \/ decl.content = "empty" /\ kind # "emptyCData"
              \/ decl.content = "element" /\ kind \in {"text", "charref", "cdata"}
      BY <1>2, <1>3, PieceRefused
    <2>2. "content" \in open'[n].complaints
             <=> "content" \in open[n].complaints \/ "content" \in complaints
      BY <1>3 DEF WithPiece
    <2>3. "content" \in open'[n].complaints <=> RefusedSoFar(decl, open'[n])
      BY <1>2, <2>1, <2>2 DEF ElementFollowed
    <2>4. /\ DOMAIN open'[n] = {"name", "children", "content", "complaints"}
          /\ open'[n].name = open[n].name /\ open'[n].children = open[n].children
      BY <1>3 DEF WithPiece
    <2> QED BY <1>2, <2>3, <2>4 DEF ElementFollowed
  <1>5. \A i \in 1 .. Len(open') :
           ElementFollowed(open'[i], validators'[i], elementStack'[i],
                           DeclarationOf(elementStack[i])')
    <2> TAKE i \in 1 .. Len(open')
    <2>1. DeclarationOf(elementStack[i])' = DeclarationOf(elementStack[i])
      BY <1>1, DeclarationKept
    <2>2. CASE i = n
      BY <1>1, <1>2, <1>4, <2>1, <2>2
    <2>3. CASE i # n
      BY <1>1, <1>3, <2>1, <2>3 DEF ContentInv
    <2> QED BY <2>2, <2>3
  <1>6. IsSequence(validators)' /\ IsSequence(open)'
    BY <1>1, <1>3 DEF IsSequence, ContentInv
  <1> QED BY <1>1, <1>3, <1>5, <1>6 DEF ContentInv

\* Text is complained of where the declaration refuses it.
LEMMA TextSaid ==
    ASSUME DtdInv, ContentInv, doctype.validating, elementStack # << >>, NEW isWhitespace
    PROVE  LET decl == DeclarationOf(Last(elementStack))
           IN  "content" \in TextComplaint(isWhitespace) <=>
                   ~isWhitespace /\ decl.content \in {"empty", "element"}
  BY Innermost DEF TextComplaint, TextRefused, When

\* Markup is complained of in an element declared EMPTY.
LEMMA NotEmptySaid ==
    ASSUME DtdInv, ContentInv, doctype.validating, elementStack # << >>
    PROVE  "content" \in NotEmpty <=> DeclarationOf(Last(elementStack)).content = "empty"
  <1>1. CurrentContentIs("empty") <=> DeclarationOf(Last(elementStack)).content = "empty"
    BY Innermost DEF ContentTypes
  <1> QED BY <1>1 DEF NotEmpty, When

\* So each kind of content is complained of exactly where it is refused.
LEMMA PiecesKeepContent ==
    ASSUME DtdInv, ContentInv,
           WhiteSpace \/ Text \/ CharacterReference \/ CData \/ EmptyCData
             \/ CommentOrPI \/ EntityReference
    PROVE  ContentInv'
  <1> DEFINE decl == DeclarationOf(Last(elementStack))
             separates == CurrentContentIs("element")
             said == TextComplaint(separates)
                \cup When(/\ separates /\ doctype.standalone
                          /\ elements[Last(elementStack)].external, "standalone")
  <1>1. elementStack # << >>
    BY DEF WhiteSpace, Text, CharacterReference, CData, EmptyCData, CommentOrPI,
           EntityReference, Content, InElement
  <1>2. doctype.validating => decl.content \in ContentTypes
    BY <1>1, Innermost
  <1>3. CASE WhiteSpace
    <2>1. Content("white", said)
      BY <1>3 DEF WhiteSpace
    <2>2. doctype.validating => (separates <=> decl.content = "element")
      BY <1>1, Innermost DEF ContentTypes
    <2>3. "content" \in said <=> "content" \in TextComplaint(separates)
      BY DEF When
    <2> HIDE DEF separates, said
    <2>4. doctype.validating =>
              ("content" \in TextComplaint(separates)
                  <=> ~separates /\ decl.content \in {"empty", "element"})
      BY <1>1, TextSaid
    <2> HIDE DEF decl
    <2>5. doctype.validating =>
              ("content" \in said <=> decl.content = "empty")
      BY <2>2, <2>3, <2>4
    <2> QED BY <2>1, <2>5, PieceKeepsContent DEF decl
  <1>4. CASE Text \/ CharacterReference \/ CData
    <2>1. \E kind \in {"text", "charref", "cdata"} : Content(kind, TextComplaint(FALSE))
      BY <1>4 DEF Text, CharacterReference, CData
    <2>2. doctype.validating =>
              ("content" \in TextComplaint(FALSE) <=> decl.content \in {"empty", "element"})
      BY <1>1, TextSaid
    <2> QED BY <2>1, <2>2, PieceKeepsContent
  <1>5. CASE EmptyCData
    <2>1. Content("emptyCData", {})
      BY <1>5 DEF EmptyCData
    <2> QED BY <2>1, PieceKeepsContent
  <1>6. CASE CommentOrPI \/ EntityReference
    <2>1. \E kind \in {"markup", "reference"} : Content(kind, NotEmpty)
      BY <1>6 DEF CommentOrPI, EntityReference
    <2>2. doctype.validating => ("content" \in NotEmpty <=> decl.content = "empty")
      BY <1>1, NotEmptySaid
    <2> QED BY <2>1, <2>2, PieceKeepsContent
  <1> QED BY <1>3, <1>4, <1>5, <1>6

\* The end of an element.
LEMMA EndKeepsContent ==
    ASSUME DtdInv, ContentInv, PopElement, elementStack # << >>,
           UNCHANGED <<doctype, elements>>
    PROVE  ContentInv'
  <1> DEFINE n == Len(open)
             decl == DeclarationOf(Last(elementStack))
             refused == ContentRefused(decl, open[n].children)
  <1> SUFFICES ASSUME doctype.validating
               PROVE  ContentInv'
    BY DEF ContentInv
  <1>1. /\ n \in 1 .. Len(open) /\ n = Len(elementStack) /\ n = Len(validators)
        /\ ElementFollowed(open[n], validators[n], elementStack[n], decl)
        /\ Last(open) = open[n] /\ Last(validators) = validators[n]
        /\ Last(elementStack) = elementStack[n]
        /\ Last(validators).decl = decl
    BY Innermost
  <1>2. /\ elementStack' = Front(elementStack) /\ validators' = Front(validators)
        /\ open' = Front(open)
    BY DEF PopElement
  <1>3. /\ IsSequence(open) /\ IsSequence(validators) /\ IsSequence(elementStack)
        /\ open # << >> /\ validators # << >>
    BY <1>1, EmptySequence DEF ContentInv, DtdInv
  <1>4. /\ IsSequence(open') /\ IsSequence(validators')
        /\ Len(open') = n - 1 /\ Len(validators') = n - 1 /\ Len(elementStack') = n - 1
        /\ \A i \in 1 .. n - 1 : /\ open'[i] = open[i] /\ validators'[i] = validators[i]
                                 /\ elementStack'[i] = elementStack[i]
    BY <1>1, <1>2, <1>3, Shortened
  <1>5. \A i \in 1 .. Len(open') :
           ElementFollowed(open'[i], validators'[i], elementStack'[i],
                           DeclarationOf(elementStack[i])')
    <2> TAKE i \in 1 .. Len(open')
    <2>1. i \in 1 .. n - 1 /\ i \in 1 .. Len(open)
      BY <1>1, <1>4
    <2>2. DeclarationOf(elementStack[i])' = DeclarationOf(elementStack[i])
      BY <1>4, <2>1, DeclarationKept
    <2> QED BY <1>4, <2>1, <2>2 DEF ContentInv
  <1>6. prologEnded
    BY DEF DtdInv
  <1>7. /\ judged'[1].name = open[n].name /\ judged'[1].children = open[n].children
        /\ judged'[1].content = open[n].content
        /\ judged'[1].complaints = open[n].complaints \cup When(refused, "content")
    <2>1. ContentRefused(Last(validators).decl, Last(validators).children) <=> refused
      BY <1>1 DEF ElementFollowed
    <2> HIDE DEF refused
    <2> QED BY <1>1, <2>1 DEF PopElement, When
  <1>8. AllowedContent(open[n]) <=> ~(RefusedSoFar(decl, open[n]) \/ refused)
    BY <1>1, <1>6, AllowedMeans DEF ElementFollowed
  <1>9. AllowedContent(judged[1])' = AllowedContent(open[n])
    <2>1. AllowedContent(judged'[1]) = AllowedContent(open[n])
      BY <1>7, AllowedDependsOn
    <2> QED BY <2>1, AllowedKept
  <1>10. ("content" \in judged'[1].complaints) # AllowedContent(judged[1])'
    <2>1. "content" \in judged'[1].complaints <=> RefusedSoFar(decl, open[n]) \/ refused
      BY <1>1, <1>7 DEF ElementFollowed, When
    <2> QED BY <1>8, <1>9, <2>1
  <1> QED BY <1>4, <1>5, <1>10 DEF ContentInv, IsSequence

\* An element inside another: the parent notes the child, and is complained of
\* if its declaration refuses it.
ParentNoted(name) ==
    With(open, Len(open), WithChild(open[Len(open)], name,
        When(ChildRefused(validators[Len(open)].decl, name), "content")))
ParentCounted(name) ==
    With(validators, Len(open),
         [decl |-> validators[Len(open)].decl,
          children |-> Append(validators[Len(open)].children, name)])

\* The parent and its validator still go together, and tell what is refused.
LEMMA ParentFollowed ==
    ASSUME DtdInv, ContentInv, doctype.validating, elementStack # << >>, NEW name
    PROVE  LET o == ParentNoted(name)
               v == ParentCounted(name)
           IN  /\ IsSequence(o) /\ Len(o) = Len(open)
               /\ IsSequence(v) /\ Len(v) = Len(open)
               /\ \A i \in 1 .. Len(open) :
                     ElementFollowed(o[i], v[i], elementStack[i], DeclarationOf(elementStack[i]))
  <1> DEFINE n == Len(open)
             o == ParentNoted(name)
             v == ParentCounted(name)
             e == open[n]
             decl == DeclarationOf(elementStack[n])
             said == When(ChildRefused(decl, name), "content")
  <1>1. /\ n \in 1 .. Len(open) /\ n = Len(validators)
        /\ ElementFollowed(e, validators[n], elementStack[n], decl)
        /\ decl.content \in ContentTypes
    BY Innermost
  <1>2. IsSequence(open) /\ IsSequence(validators)
    BY DEF ContentInv
  <1>3. /\ IsSequence(o) /\ Len(o) = n
        /\ o[n] = WithChild(e, name, said)
        /\ \A i \in 1 .. n : i # n => o[i] = open[i]
    <2>1. o = With(open, n, WithChild(e, name, said))
      BY <1>1 DEF ParentNoted, ElementFollowed
    <2> DEFINE w == WithChild(e, name, said)
    <2> HIDE DEF w, o
    <2> QED BY <1>1, <1>2, <2>1, Replaced DEF w
  <1>4. /\ IsSequence(v) /\ Len(v) = n
        /\ v[n] = [decl |-> decl, children |-> Append(e.children, name)]
        /\ \A i \in 1 .. n : i # n => v[i] = validators[i]
    <2> DEFINE w == [decl |-> decl, children |-> Append(e.children, name)]
    <2>1. v = With(validators, n, w)
      BY <1>1 DEF ParentCounted, ElementFollowed
    <2> HIDE DEF w, v
    <2> QED BY <1>1, <1>2, <2>1, Replaced DEF w
  <1>5. ElementFollowed(o[n], v[n], elementStack[n], decl)
    <2>1. RefusedSoFar(decl, o[n]) <=> RefusedSoFar(decl, e) \/ ChildRefused(decl, name)
      BY <1>1, <1>3, ChildIsRefused DEF ElementFollowed
    <2>2. "content" \in o[n].complaints <=> "content" \in e.complaints \/ ChildRefused(decl, name)
      BY <1>3 DEF WithChild, When
    <2>3. IsSequence(Append(e.children, name))
      BY <1>1, Appended DEF ElementFollowed
    <2>4. /\ DOMAIN o[n] = {"name", "children", "content", "complaints"}
          /\ o[n].name = e.name /\ o[n].children = Append(e.children, name)
      BY <1>3 DEF WithChild
    <2>5. /\ DOMAIN v[n] = {"decl", "children"}
          /\ v[n].decl = decl /\ v[n].children = Append(e.children, name)
      BY <1>4
    <2> HIDE DEF o, v, e, decl
    <2> QED BY <1>1, <2>1, <2>2, <2>3, <2>4, <2>5 DEF ElementFollowed
  <1>6. \A i \in 1 .. n : ElementFollowed(open[i], validators[i], elementStack[i],
                                          DeclarationOf(elementStack[i]))
    BY DEF ContentInv
  <1>7. \A i \in 1 .. n : ElementFollowed(o[i], v[i], elementStack[i],
                                          DeclarationOf(elementStack[i]))
    <2> TAKE i \in 1 .. n
    <2>1. CASE i = n
      BY <1>5, <2>1
    <2>2. CASE i # n
      BY <1>3, <1>4, <1>6, <2>2
    <2> QED BY <2>1, <2>2
  <1> QED BY <1>3, <1>4, <1>7

\* A start tag is judged as a child of its parent, and starts on its own account.
LEMMA StartKeepsContent ==
    ASSUME DtdInv, ContentInv, NEW name, StartTag(name)
    PROVE  ContentInv'
  <1> DEFINE n == Len(elementStack)
             o == IF n = 0 THEN open ELSE ParentNoted(name)
             v == IF n = 0 THEN validators ELSE ParentCounted(name)
             fresh == [name |-> name, children |-> << >>, content |-> {}, complaints |-> {}]
             held == [decl |-> DeclarationOf(name), children |-> << >>]
  <1>1. /\ UNCHANGED <<doctype, elements>> /\ judged' = << >>
        /\ elementStack' = Append(elementStack, name)
    BY DEF StartTag, dtdVars, sessionVars
  <1> SUFFICES ASSUME doctype.validating
               PROVE  ContentInv'
    BY <1>1 DEF ContentInv
  <1>2. /\ IsSequence(elementStack) /\ IsSequence(open) /\ IsSequence(validators)
        /\ n \in Nat /\ Len(open) = n /\ Len(validators) = n
        /\ elementStack = << >> => n = 0
    BY DEF ContentInv, DtdInv, IsSequence
  <1>3. open' = Append(o, fresh) /\ validators' = Append(v, held)
    <2>1. CASE n = 0
      BY <1>2, <2>1 DEF StartTag, DeclarationOf
    <2>2. CASE n # 0
      <3> DEFINE said == When(ChildRefused(validators[n].decl, name), "content")
      <3>1. said = When(n > 0 /\ doctype.validating /\ ChildRefused(validators[n].decl, name),
                        "content")
        <4>1. n > 0
          BY <1>2, <2>2
        <4> QED BY <4>1 DEF When
      <3> HIDE DEF said
      <3>2. open' = Append([open EXCEPT ![n] = WithChild(open[n], name, said)], fresh)
        BY <2>2, <3>1 DEF StartTag
      <3>3. validators' = Append([validators EXCEPT ![n] =
                [decl |-> validators[n].decl, children |-> Append(validators[n].children, name)]],
                held)
        BY <2>2 DEF StartTag, DeclarationOf
      <3>4. ParentNoted(name) = [open EXCEPT ![n] = WithChild(open[n], name, said)]
        BY <1>2 DEF ParentNoted, With, said
      <3>5. ParentCounted(name) = [validators EXCEPT ![n] =
                [decl |-> validators[n].decl, children |-> Append(validators[n].children, name)]]
        BY <1>2 DEF ParentCounted, With
      <3> QED BY <2>2, <3>2, <3>3, <3>4, <3>5
    <2> QED BY <2>1, <2>2
  <1>4. /\ IsSequence(o) /\ Len(o) = n
        /\ IsSequence(v) /\ Len(v) = n
        /\ \A i \in 1 .. n :
              ElementFollowed(o[i], v[i], elementStack[i], DeclarationOf(elementStack[i]))
    <2>1. CASE n = 0
      BY <1>2, <2>1
    <2>2. CASE n # 0
      BY <1>2, <2>2, ParentFollowed, EmptySequence
    <2> QED BY <2>1, <2>2
  <1> HIDE DEF o, v
  <1>5. /\ IsSequence(open') /\ Len(open') = n + 1
        /\ IsSequence(validators') /\ Len(validators') = n + 1
        /\ Len(elementStack') = n + 1
        /\ open'[n + 1] = fresh /\ validators'[n + 1] = held /\ elementStack'[n + 1] = name
        /\ \A i \in 1 .. n : /\ open'[i] = o[i] /\ validators'[i] = v[i]
                            /\ elementStack'[i] = elementStack[i]
    BY <1>1, <1>2, <1>3, <1>4, Appended
  <1>6. ElementFollowed(fresh, held, name, DeclarationOf(name))
    BY EmptySequence DEF ElementFollowed, RefusedSoFar
  <1> HIDE DEF fresh, held
  <1>7. \A i \in 1 .. Len(open') :
           ElementFollowed(open'[i], validators'[i], elementStack'[i],
                           DeclarationOf(elementStack[i])')
    <2> TAKE i \in 1 .. Len(open')
    <2>1. DeclarationOf(elementStack[i])' = DeclarationOf(elementStack'[i])
      BY <1>1, DeclarationKept
    <2>2. CASE i = n + 1
      BY <1>5, <1>6, <2>1, <2>2
    <2>3. CASE i # n + 1
      <3>1. i \in 1 .. n
        BY <1>2, <1>5, <2>3
      <3> QED BY <1>4, <1>5, <2>1, <3>1
    <2> QED BY <2>2, <2>3
  <1>8. IsSequence(open)' /\ IsSequence(validators)'
    BY <1>5 DEF IsSequence
  <1> QED BY <1>1, <1>5, <1>7, <1>8 DEF ContentInv

\* So every step keeps what is known of the content.
LEMMA ContentKept ==
    ASSUME DtdInv, ContentInv, [Next]_vars
    PROVE  ContentInv'
  <1>1. CASE ElementDeclaration \/ DeclareAttribute \/ ScanAgain \/ EndOfAttlist \/ EndOfProlog
    <2>1. /\ UNCHANGED <<doctype, elementStack, validators, open, judged>>
          /\ elements' = elements \/ ~prologEnded
      <3>1. ElementDeclaration => ~prologEnded
        <4>1. ElementDeclaration => read < Len(doctype.declarations)
          BY DEF ElementDeclaration, MoreDeclarations
        <4>2. /\ prologEnded => read = Len(doctype.declarations)
              /\ read \in Nat /\ Len(doctype.declarations) \in Nat
          BY DoctypeShape DEF DtdInv
        <4> QED BY <4>1, <4>2
      <3> QED BY <1>1, <3>1
              DEF ElementDeclaration, DeclareAttribute, ScanAgain, EndOfAttlist, EndOfProlog,
                  contentVars, sessionVars
    <2>2. elements' = elements \/ elementStack = << >>
      BY <2>1 DEF DtdInv
    <2> QED BY <2>1, <2>2, ContentLeftAlone
  <1>2. ASSUME NEW name \in doctype.tags, StartTag(name)
        PROVE  ContentInv'
    BY <1>2, StartKeepsContent
  <1>3. ASSUME NEW a \in doctype.attributes, Attribute(a[1], a[2])
        PROVE  ContentInv'
    <2>1. UNCHANGED <<doctype, elementStack, validators, open, elements>> /\ judged' = << >>
      BY <1>3 DEF Attribute, dtdVars, sessionVars
    <2> QED BY <2>1, ContentLeftAlone
  <1>4. CASE TagEnd
    <2>1. UNCHANGED <<doctype, elementStack, validators, open, elements>> /\ judged' = << >>
      BY <1>4 DEF TagEnd, EndOfAttributes, dtdVars, sessionVars
    <2> QED BY <2>1, ContentLeftAlone
  <1>5. CASE EmptyTagEnd
    <2>1. UNCHANGED <<doctype, elements>> /\ PopElement /\ elementStack # << >>
      BY <1>5 DEF EmptyTagEnd, EndOfAttributes, dtdVars, sessionVars, DtdInv
    <2> QED BY <2>1, EndKeepsContent
  <1>6. CASE EndTag
    <2>1. UNCHANGED <<doctype, elements>> /\ PopElement /\ elementStack # << >>
      BY <1>6 DEF EndTag, InElement, dtdVars, sessionVars
    <2> QED BY <2>1, EndKeepsContent
  <1>7. CASE WhiteSpace \/ Text \/ CharacterReference \/ CData \/ EmptyCData
               \/ CommentOrPI \/ EntityReference
    BY <1>7, PiecesKeepContent
  <1>8. CASE Close
    <2>1. UNCHANGED <<doctype, elementStack, validators, open, elements>> /\ judged' = << >>
      BY <1>8 DEF Close, dtdVars
    <2> QED BY <2>1, ContentLeftAlone
  <1>9. CASE Reset
    BY <1>9, NewDocumentContent DEF Reset
  <1>10. CASE UNCHANGED vars
    <2>1. UNCHANGED <<doctype, elementStack, validators, open, elements, judged>>
      BY <1>10 DEF vars, contentVars, dtdVars, sessionVars
    <2> QED BY <2>1, ContentLeftAlone
  <1> QED BY <1>1, <1>2, <1>3, <1>4, <1>5, <1>6, <1>7, <1>8, <1>9, <1>10 DEF Next

\* An element that ends has been complained of exactly if its content is not what
\* its first declaration allows: for every prolog, every matcher of content
\* models, every document and every number of resets.
THEOREM ContentIsJudged == Spec => []ContentJudged
  <1>1. Init => DtdInv /\ ContentInv
    <2> SUFFICES ASSUME Init
                 PROVE  DtdInv /\ ContentInv
      OBVIOUS
    <2>3. DtdInv
      BY DtdAtFirst
    <2>4. 1 .. 0 = {}
      OBVIOUS
    <2>5. ContentInv
      BY <2>4, EmptySequence DEF Init, ContentInv
    <2> QED BY <2>3, <2>5
  <1>2. DtdInv /\ ContentInv /\ [Next]_vars => DtdInv' /\ ContentInv'
    BY DtdKept, ContentKept
  <1>3. ContentInv => ContentJudged
    BY DEF ContentInv, ContentJudged
  <1> QED BY <1>1, <1>2, <1>3, PTL DEF Spec
-------------------------------------------------------------------------------
(* Identities                                                                  *)

\* The errors about the value of an attribute tell an ID given before.
LEMMA DuplicateSaid ==
    ASSUME NEW def, NEW value
    PROVE  "duplicate ID" \in ValueComplaints(def, value)
              <=> def.type = "ID" /\ value \in declaredIds
  BY DEF ValueComplaints, When

\* An attribute that is heard is heard under the name it is written with.
LEMMA NamedAsWritten ==
    ASSUME NEW element, NEW name
    PROVE  Definition(element, name).name = name
  <1> DEFINE list == AttributesOf(attlists, element)
  <1>1. CASE Declares(list, name)
    <2>1. \E i \in DOMAIN list : list[i].name = name
      BY <1>1 DEF Declares
    <2> QED BY <1>1, <2>1 DEF Definition
  <1>2. CASE ~Declares(list, name)
    BY <1>2 DEF Definition, Undeclared
  <1> QED BY <1>1, <1>2

\* A step that leaves the tag and the identities alone.
LEMMA IdsLeftAlone ==
    ASSUME IdsInv, UNCHANGED <<doctype, seenAttributes, tag, idVars, unresolved, closed>>,
           closed' => ~inStartTag'
    PROVE  IdsInv'
  <1>1. \A n : IdsOfTag(n)' = IdsOfTag(n) /\ Duplicate(n)' = Duplicate(n)
    BY DEF IdsOfTag, Duplicate
  <1>2. IsSequence(tag.heard)' /\ IsSequence(idsWritten)'
    BY DEF IdsInv, IsSequence, idVars
  <1> QED BY <1>1, <1>2 DEF IdsInv, idVars

\* A new document has no identities.
LEMMA NewDocumentIds ==
    ASSUME closed' = FALSE, inStartTag' = FALSE, tag' = NoTag, idsWritten' = << >>,
           refsWritten' = << >>, declaredIds' = {}, pendingIdrefs' = << >>
    PROVE  IdsInv'
  <1>1. DOMAIN tag' = TagFields /\ tag'.heard = << >> /\ tag'.complaints = {}
        /\ tag'.idsBefore = {}
    BY DEF NoTag, TagFields
  <1>2. IdsOfTag(1)' = {}
    BY DEF IdsOfTag
  <1>3. DOMAIN << >> = {}
    OBVIOUS
  <1> QED BY <1>1, <1>2, <1>3, EmptySequence DEF IdsInv, IsSequence

\* A new tag is told from what the document had before it.
LEMMA StartKeepsIds ==
    ASSUME IdsInv, NEW name, StartTag(name)
    PROVE  IdsInv'
  <1>1. /\ UNCHANGED <<doctype, declaredIds, pendingIdrefs, idsWritten, refsWritten, closed>>
        /\ ~closed
        /\ DOMAIN tag' = TagFields
        /\ tag'.heard = << >> /\ tag'.idsBefore = ToSet(idsWritten)
    BY DEF StartTag, InContent, idVars, sessionVars, TagFields
  <1>2. \A other : <<"duplicate ID", other>> \notin tag'.complaints
    BY DEF StartTag, About, Complain, When
  <1>3. IdsOfTag(1)' = {}
    BY DEF IdsOfTag
  <1>4. DOMAIN << >> = {}
    OBVIOUS
  <1>5. IsSequence(tag.heard)' /\ IsSequence(idsWritten)'
    BY <1>1, EmptySequence DEF IdsInv, IsSequence
  <1>6. Len(tag'.heard) + 1 = 1
    BY <1>1, EmptySequence
  <1> QED BY <1>1, <1>2, <1>3, <1>4, <1>5, <1>6 DEF IdsInv

\* Once its attributes are complete, the tag has got its defaults, and perhaps
\* other complaints.
LEMMA EndKeepsIds ==
    ASSUME IdsInv, EndOfAttributes
    PROVE  IdsInv'
  <1>1. /\ UNCHANGED <<doctype, declaredIds, pendingIdrefs, idsWritten, refsWritten, closed,
                       seenAttributes, unresolved>>
        /\ ~closed
        /\ DOMAIN tag' = TagFields
        /\ tag'.heard = tag.heard /\ tag'.idsBefore = tag.idsBefore
        /\ tag'.complaints = tag.complaints \cup Complain(DefaultComplaints)
    BY DEF EndOfAttributes, idVars, sessionVars, IdsInv, TagFields
  <1>2. \A name : <<"duplicate ID", name>> \notin Complain(DefaultComplaints)
    BY DEF Complain, DefaultComplaints
  <1>3. \A n : IdsOfTag(n)' = IdsOfTag(n) /\ (Duplicate(n)' <=> Duplicate(n))
    BY <1>1, <1>2 DEF IdsOfTag, Duplicate
  <1>4. IsSequence(tag.heard)' /\ IsSequence(idsWritten)'
    BY <1>1 DEF IdsInv, IsSequence
  <1> QED BY <1>1, <1>2, <1>3, <1>4 DEF IdsInv

\* At the end of the document the references are judged.
LEMMA CloseKeepsIds ==
    ASSUME IdsInv, Close
    PROVE  IdsInv'
  <1>1. /\ UNCHANGED <<doctype, declaredIds, idsWritten, refsWritten, tag,
                       seenAttributes, inStartTag>>
        /\ ~closed /\ closed' /\ ~inStartTag
        /\ doctype.validating => unresolved' = Unresolved(pendingIdrefs, declaredIds)
    BY DEF Close, InContent, tagVars
  <1>2. \A n : IdsOfTag(n)' = IdsOfTag(n) /\ Duplicate(n)' = Duplicate(n)
    BY <1>1 DEF IdsOfTag, Duplicate
  <1>3. IsSequence(tag.heard)' /\ IsSequence(idsWritten)'
    BY <1>1 DEF IdsInv, IsSequence
  <1>4. doctype.validating => (unresolved = Unresolved(refsWritten, ToSet(idsWritten)))'
    BY <1>1 DEF IdsInv
  <1> QED BY <1>1, <1>2, <1>3, <1>4 DEF IdsInv

\* An attribute is heard after the others of its tag.
LEMMA AttributeHeard ==
    ASSUME IdsInv, NEW name, NEW raw, Attribute(name, raw)
    PROVE  LET def == Definition(Last(elementStack), name)
               m == Len(tag.heard) + 1
           IN  /\ m \in Nat /\ IsSequence(tag'.heard) /\ Len(tag'.heard) = m
               /\ DOMAIN tag'.heard = 1 .. m
               /\ DOMAIN tag.heard = 1 .. m - 1
               /\ tag'.heard[m].name = name /\ tag'.heard[m].type = def.type
               /\ \A n \in 1 .. m - 1 : tag'.heard[n] = tag.heard[n]
               /\ IsSequence(idsWritten')
               /\ ToSet(idsWritten') = ToSet(idsWritten)
                       \cup When(def.type = "ID", tag'.heard[m].value)
               /\ doctype.validating =>
                     /\ declaredIds' = declaredIds \cup When(def.type = "ID", tag'.heard[m].value)
                     /\ pendingIdrefs = refsWritten => pendingIdrefs' = refsWritten'
                     /\ \A other : <<"duplicate ID", other>> \in tag'.complaints
                           <=> \/ <<"duplicate ID", other>> \in tag.complaints
                               \/ /\ other = name /\ def.type = "ID"
                                  /\ tag'.heard[m].value \in declaredIds
  <1> DEFINE element == Last(elementStack)
             declared == Declares(AttributesOf(attlists, element), name)
             def == Definition(element, name)
             value == IF def.type = "CDATA" THEN raw ELSE Collapse(raw)
             h == Heard(def, declared, TRUE, value)
             m == Len(tag.heard) + 1
             said == Complain(When(~declared, "undeclared")
                    \cup When(/\ doctype.standalone /\ def.external
                              /\ def.type # "CDATA", "standalone")
                    \cup ValueComplaints(def, value))
                \cup When(name = SpaceAttribute /\ ~IsWordOf(value, SpaceTokens), "space")
  <1>1. /\ tag'.heard = Append(tag.heard, h)
        /\ tag'.complaints = tag.complaints \cup About(name, said)
        /\ idsWritten' = IF def.type = "ID" THEN Append(idsWritten, value) ELSE idsWritten
        /\ refsWritten' = refsWritten \o References(def.type, value)
    BY DEF Attribute
  <1>2. doctype.validating =>
           /\ declaredIds' = declaredIds \cup When(def.type = "ID", value)
           /\ pendingIdrefs' = pendingIdrefs \o References(def.type, value)
    BY DEF Attribute
  <1>3. h.name = name /\ h.type = def.type /\ h.value = value
    BY NamedAsWritten DEF Heard
  <1>4. doctype.validating =>
           ("duplicate ID" \in said <=> def.type = "ID" /\ value \in declaredIds)
    <2>1. doctype.validating => ("duplicate ID" \in said <=> "duplicate ID" \in ValueComplaints(def, value))
      BY DEF Complain, When
    <2> QED BY <2>1, DuplicateSaid
  <1> HIDE DEF def, value, declared, said, h
  <1>5. /\ IsSequence(tag'.heard) /\ Len(tag'.heard) = m
        /\ tag'.heard[m] = h
        /\ \A n \in 1 .. m - 1 : tag'.heard[n] = tag.heard[n]
        /\ m \in Nat
        /\ DOMAIN tag'.heard = 1 .. m /\ DOMAIN tag.heard = 1 .. m - 1
    <2>1. IsSequence(tag.heard) /\ Len(tag.heard) \in Nat /\ m - 1 = Len(tag.heard)
          /\ DOMAIN tag.heard = 1 .. Len(tag.heard)
      <3>1. IsSequence(tag.heard)
        BY DEF IdsInv
      <3>2. Len(tag.heard) \in Nat /\ DOMAIN tag.heard = 1 .. Len(tag.heard)
        BY <3>1 DEF IsSequence
      <3> QED BY <3>1, <3>2
    <2>2. /\ IsSequence(tag'.heard) /\ Len(tag'.heard) = m
          /\ tag'.heard[m] = h
          /\ \A n \in 1 .. Len(tag.heard) : tag'.heard[n] = tag.heard[n]
      BY <1>1, <2>1, Appended
    <2>3. DOMAIN tag'.heard = 1 .. m
      BY <2>2 DEF IsSequence
    <2> QED BY <2>1, <2>2, <2>3
  <1>6. /\ IsSequence(idsWritten')
        /\ ToSet(idsWritten') = ToSet(idsWritten) \cup When(def.type = "ID", value)
    BY <1>1, Appended DEF IdsInv, When
  <1>7. doctype.validating =>
           \A other : <<"duplicate ID", other>> \in tag'.complaints
               <=> \/ <<"duplicate ID", other>> \in tag.complaints
                   \/ other = name /\ def.type = "ID" /\ value \in declaredIds
    BY <1>1, <1>4 DEF About
  <1>8. /\ tag'.heard[m].name = name /\ tag'.heard[m].type = def.type
        /\ tag'.heard[m].value = value
    BY <1>3, <1>5
  <1> HIDE DEF m
  <1> QED BY <1>1, <1>2, <1>5, <1>6, <1>7, <1>8 DEF def, m

\* One more attribute is judged against the IDs of the document and of its tag.
LEMMA AttributeKeepsIds ==
    ASSUME IdsInv, NEW name, NEW raw, Attribute(name, raw)
    PROVE  IdsInv'
  <1> PICK m : m = Len(tag.heard) + 1
    OBVIOUS
  <1> PICK def : def = Definition(Last(elementStack), name)
    OBVIOUS
  <1> PICK value : value = tag'.heard[m].value
    OBVIOUS
  <1>1. /\ UNCHANGED <<doctype, closed, inStartTag>> /\ inStartTag
        /\ name \notin seenAttributes /\ seenAttributes' = seenAttributes \cup {name}
        /\ DOMAIN tag' = TagFields /\ tag'.idsBefore = tag.idsBefore
    BY DEF Attribute, sessionVars, TagFields
  <1>2. /\ m \in Nat /\ IsSequence(tag'.heard) /\ Len(tag'.heard) = m
        /\ DOMAIN tag'.heard = 1 .. m
        /\ DOMAIN tag.heard = 1 .. m - 1
        /\ tag'.heard[m].name = name /\ tag'.heard[m].type = def.type
        /\ \A n \in 1 .. m - 1 : tag'.heard[n] = tag.heard[n]
        /\ IsSequence(idsWritten')
        /\ ToSet(idsWritten') = ToSet(idsWritten) \cup When(def.type = "ID", value)
    BY AttributeHeard
  <1>3. doctype.validating =>
           /\ declaredIds' = declaredIds \cup When(def.type = "ID", value)
           /\ pendingIdrefs = refsWritten => pendingIdrefs' = refsWritten'
           /\ \A other : <<"duplicate ID", other>> \in tag'.complaints
                 <=> \/ <<"duplicate ID", other>> \in tag.complaints
                     \/ other = name /\ def.type = "ID" /\ value \in declaredIds
    BY AttributeHeard
  <1>4. \A n \in 1 .. m : IdsOfTag(n)' = IdsOfTag(n)
    <2> TAKE n \in 1 .. m
    <2>1. \A i \in 1 .. n - 1 : tag'.heard[i] = tag.heard[i]
      BY <1>2
    <2> QED BY <2>1 DEF IdsOfTag
  <1>5. IdsOfTag(m + 1)' = IdsOfTag(m) \cup When(def.type = "ID", value)
    <2> DEFINE S == {i \in 1 .. m - 1 : IsID(tag.heard[i])}
               T == {i \in 1 .. m + 1 - 1 : IsID(tag'.heard[i])}
    <2>1. T = S \cup When(def.type = "ID", m)
      <3>1. m + 1 - 1 = m /\ m \in 1 .. m
        BY <1>2
      <3>2. \A i \in 1 .. m - 1 : IsID(tag'.heard[i]) <=> IsID(tag.heard[i])
        BY <1>2
      <3>3. IsID(tag'.heard[m]) <=> def.type = "ID"
        BY <1>2 DEF IsID
      <3>4. \A i \in 1 .. m : i \in 1 .. m - 1 \/ i = m
        BY <1>2
      <3>5. 1 .. m - 1 \subseteq 1 .. m /\ m \notin 1 .. m - 1
        BY <1>2
      <3> QED BY <3>1, <3>2, <3>3, <3>4, <3>5 DEF When
    <2>2. \A i \in S : tag'.heard[i].value = tag.heard[i].value
      BY <1>2
    <2>3. IdsOfTag(m + 1)' = {tag'.heard[i].value : i \in T}
      BY DEF IdsOfTag
    <2>4. IdsOfTag(m) = {tag'.heard[i].value : i \in S}
      BY <2>2 DEF IdsOfTag
    <2> HIDE DEF S, T
    <2> QED BY <2>1, <2>3, <2>4 DEF When
  <1>6. CASE ~doctype.validating
    <2>1. IsSequence(tag.heard)' /\ IsSequence(idsWritten)'
      BY <1>2 DEF IsSequence
    <2> QED BY <1>1, <1>6, <2>1 DEF IdsInv
  <1>7. CASE doctype.validating
    <2>1. ~closed
      BY <1>1 DEF IdsInv
    <2>2. declaredIds = tag.idsBefore \cup IdsOfTag(m)
      BY <1>7 DEF IdsInv
    <2>3. declaredIds' = tag'.idsBefore \cup IdsOfTag(Len(tag.heard) + 1)'
      BY <1>1, <1>2, <1>3, <1>5, <1>7, <2>2
    <2>4. declaredIds' = ToSet(idsWritten)'
      BY <1>2, <1>3, <1>7 DEF IdsInv
    <2>5. pendingIdrefs' = refsWritten'
      BY <1>3, <1>7, <2>1 DEF IdsInv
    <2>6. \A n \in DOMAIN tag'.heard : tag'.heard[n].name \in seenAttributes'
      <3> TAKE n \in DOMAIN tag'.heard
      <3>1. CASE n = m
        BY <1>1, <1>2, <3>1
      <3>2. CASE n # m
        <4>1. n \in DOMAIN tag.heard /\ tag'.heard[n] = tag.heard[n]
          BY <1>2, <3>2
        <4> QED BY <1>1, <1>7, <4>1 DEF IdsInv
      <3> QED BY <3>1, <3>2
    <2>7. \A other : <<"duplicate ID", other>> \in tag'.complaints => other \in seenAttributes'
      BY <1>1, <1>3, <1>7 DEF IdsInv
    <2>8. ASSUME NEW n \in DOMAIN tag'.heard, IsID(tag'.heard[n])
          PROVE  <<"duplicate ID", tag'.heard[n].name>> \in tag'.complaints
                    <=> tag'.heard[n].value \in tag'.idsBefore \cup IdsOfTag(n)'
      <3>1. n \in 1 .. m /\ IdsOfTag(n)' = IdsOfTag(n)
        BY <1>2, <1>4
      <3>2. CASE n = m
        <4>1. <<"duplicate ID", name>> \notin tag.complaints
          BY <1>1, <1>7 DEF IdsInv
        <4>2. <<"duplicate ID", name>> \in tag'.complaints <=> value \in declaredIds
          BY <1>2, <1>3, <1>7, <2>8, <3>2, <4>1 DEF IsID
        <4> QED BY <1>1, <1>2, <2>2, <3>1, <3>2, <4>2
      <3>3. CASE n # m
        <4>1. n \in DOMAIN tag.heard /\ tag'.heard[n] = tag.heard[n]
          BY <1>2, <3>1, <3>3
        <4>2. tag.heard[n].name # name
          BY <1>1, <1>7, <4>1 DEF IdsInv
        <4>3. <<"duplicate ID", tag.heard[n].name>> \in tag'.complaints <=> Duplicate(n)
          BY <1>3, <1>7, <4>2 DEF Duplicate
        <4>4. Duplicate(n) <=> tag.heard[n].value \in tag.idsBefore \cup IdsOfTag(n)
          BY <1>7, <2>8, <4>1 DEF IdsInv
        <4> QED BY <1>1, <3>1, <4>1, <4>3, <4>4
      <3> QED BY <3>2, <3>3
    <2>9. IsSequence(tag.heard)' /\ IsSequence(idsWritten)'
      BY <1>2 DEF IsSequence
    <2> QED BY <1>1, <2>1, <2>3, <2>4, <2>5, <2>6, <2>7, <2>8, <2>9 DEF IdsInv, Duplicate
  <1> QED BY <1>6, <1>7

\* So every step keeps what is known of the identities.
LEMMA IdsKept ==
    ASSUME IdsInv, [Next]_vars
    PROVE  IdsInv'
  <1>1. CASE \/ ElementDeclaration \/ DeclareAttribute \/ ScanAgain \/ EndOfAttlist
             \/ EndOfProlog
    <2>1. UNCHANGED <<doctype, seenAttributes, tag, idVars, unresolved, closed, inStartTag>>
      BY <1>1 DEF ElementDeclaration, DeclareAttribute, ScanAgain, EndOfAttlist, EndOfProlog,
                  tagVars, sessionVars
    <2> QED BY <2>1, IdsLeftAlone DEF IdsInv
  <1>2. ASSUME NEW name \in doctype.tags, StartTag(name)
        PROVE  IdsInv'
    BY <1>2, StartKeepsIds
  <1>3. ASSUME NEW a \in doctype.attributes, Attribute(a[1], a[2])
        PROVE  IdsInv'
    BY <1>3, AttributeKeepsIds
  <1>4. CASE TagEnd \/ EmptyTagEnd
    BY <1>4, EndKeepsIds DEF TagEnd, EmptyTagEnd
  <1>5. CASE EndTag
    <2>1. UNCHANGED <<doctype, seenAttributes, tag, idVars, unresolved, closed, inStartTag>>
      BY <1>5 DEF EndTag, tagVars, sessionVars
    <2> QED BY <2>1, IdsLeftAlone DEF IdsInv
  <1>6. CASE AnyContentStep
    <2>1. UNCHANGED <<doctype, seenAttributes, tag, idVars, unresolved, closed, inStartTag>>
      BY <1>6 DEF AnyContentStep, Content, tagVars, sessionVars
    <2> QED BY <2>1, IdsLeftAlone DEF IdsInv
  <1>7. CASE Close
    BY <1>7, CloseKeepsIds
  <1>8. CASE Reset
    BY <1>8, NewDocumentIds DEF Reset, ResetIds
  <1>9. CASE UNCHANGED vars
    <2>1. UNCHANGED <<doctype, seenAttributes, tag, idVars, unresolved, closed, inStartTag>>
      BY <1>9 DEF vars, tagVars, sessionVars
    <2> QED BY <2>1, IdsLeftAlone DEF IdsInv
  <1> QED BY <1>1, <1>2, <1>3, <1>4, <1>5, <1>6, <1>7, <1>8, <1>9, ContentSteps DEF Next

\* An ID is complained of exactly if it was given before in this document or in
\* this tag, and the references left unresolved at the end are those that no ID
\* of the document answers, however often the parser was reset before.
THEOREM IdentitiesAreJudged == Spec => []IdentitiesJudged
  <1>1. Init => IdsInv
    <2> SUFFICES ASSUME Init
                 PROVE  IdsInv
      OBVIOUS
    <2>1. DOMAIN tag = TagFields /\ tag.heard = << >> /\ tag.complaints = {}
          /\ tag.idsBefore = {}
      BY DEF Init, NoTag, TagFields
    <2>2. IdsOfTag(1) = {}
      BY DEF IdsOfTag
    <2>3. DOMAIN << >> = {}
      OBVIOUS
    <2> QED BY <2>1, <2>2, <2>3, EmptySequence DEF Init, IdsInv
  <1>2. IdsInv /\ [Next]_vars => IdsInv'
    BY IdsKept
  <1>3. IdsInv => IdentitiesJudged
    BY DEF IdsInv, IdentitiesJudged, Duplicate
  <1> QED BY <1>1, <1>2, <1>3, PTL DEF Spec
-------------------------------------------------------------------------------
(* Numbers and places                                                          *)

\* A set of natural numbers has a smallest one.
LEMMA Least ==
    ASSUME NEW S \in SUBSET Nat, S # {}
    PROVE  \E m \in S : \A j \in S : m <= j
  <1>1. \E m \in S : \A j \in S : ~ <<j, m>> \in OpToRel(<, Nat)
    BY WFMin, NatLessThanWellFounded
  <1>2. PICK m \in S : \A j \in S : ~ <<j, m>> \in OpToRel(<, Nat)
    BY <1>1
  <1>3. \A j \in S : ~ (j < m)
    BY <1>2 DEF OpToRel
  <1> QED BY <1>3
Place == Nat \X Nat

\* Places are in an order.
LEMMA EarlierIs ==
    /\ \A p \in Place : ~Earlier(p, p)
    /\ \A p, q \in Place : p # q => Earlier(p, q) \/ Earlier(q, p)
    /\ \A p, q, r \in Place : Earlier(p, q) /\ Earlier(q, r) => Earlier(p, r)
  <1>1. \A p \in Place : p[1] \in Nat /\ p[2] \in Nat /\ p = <<p[1], p[2]>>
    BY DEF Place
  <1>2. \A p, q \in Place : p # q => p[1] # q[1] \/ p[2] # q[2]
    BY <1>1
  <1> QED BY <1>1, <1>2 DEF Earlier

\* The places where attributes are declared.
LEMMA DeclaredAtIs ==
    ASSUME doctype \in Doctypes, NEW e, NEW where, NEW p
    PROVE  /\ p \in DeclaredAt(e, where) <=>
                /\ p \in Place
                /\ p[1] \in 1 .. Len(doctype.declarations)
                /\ doctype.declarations[p[1]].kind = "attlist"
                /\ doctype.declarations[p[1]].element = e
                /\ p[2] \in 1 .. Len(doctype.declarations[p[1]].defs)
                /\ where = "inside" => ~DefAt(p).external
  <1>1. \A i \in Attlists :
           /\ i \in 1 .. Len(doctype.declarations) /\ i \in Nat
           /\ doctype.declarations[i].kind = "attlist"
           /\ Len(doctype.declarations[i].defs) \in Nat
           /\ DOMAIN doctype.declarations[i].defs = 1 .. Len(doctype.declarations[i].defs)
    <2> TAKE i \in Attlists
    <2>1. i \in 1 .. Len(doctype.declarations) /\ doctype.declarations[i].kind = "attlist"
          /\ Len(doctype.declarations) \in Nat
      BY DoctypeShape DEF Attlists
    <2>2. IsSequence(doctype.declarations[i].defs)
      BY <2>1, DoctypeShape DEF DeclarationAssumption
    <2> QED BY <2>1, <2>2 DEF IsSequence
  <1>2. \A i \in 1 .. Len(doctype.declarations) :
           doctype.declarations[i].kind = "attlist" => i \in Attlists
    BY DoctypeShape DEF Attlists
  <1>3. p \in DeclaredAt(e, where) <=>
           /\ \E i \in Attlists : p \in {i} \X DOMAIN doctype.declarations[i].defs
           /\ doctype.declarations[p[1]].element = e
           /\ where = "inside" => ~DefAt(p).external
    BY DEF DeclaredAt
  <1>4. (\E i \in Attlists : p \in {i} \X DOMAIN doctype.declarations[i].defs) <=>
           /\ p \in Place
           /\ p[1] \in 1 .. Len(doctype.declarations)
           /\ doctype.declarations[p[1]].kind = "attlist"
           /\ p[2] \in 1 .. Len(doctype.declarations[p[1]].defs)
    <2>1. ASSUME NEW i \in Attlists, p \in {i} \X DOMAIN doctype.declarations[i].defs
          PROVE  /\ p \in Place /\ p[1] = i
                 /\ p[2] \in 1 .. Len(doctype.declarations[p[1]].defs)
      <3>1. p[1] = i /\ p[2] \in DOMAIN doctype.declarations[i].defs /\ p = <<p[1], p[2]>>
        BY <2>1
      <3>2. p[1] = i /\ p[2] \in 1 .. Len(doctype.declarations[i].defs) /\ i \in Nat
        BY <3>1, <1>1
      <3>3. p[2] \in Nat
        BY <3>2, <1>1
      <3> QED BY <3>1, <3>2, <3>3 DEF Place
    <2>2. ASSUME p \in Place, p[1] \in 1 .. Len(doctype.declarations),
                 doctype.declarations[p[1]].kind = "attlist",
                 p[2] \in 1 .. Len(doctype.declarations[p[1]].defs)
          PROVE  \E i \in Attlists : p \in {i} \X DOMAIN doctype.declarations[i].defs
      <3>1. p = <<p[1], p[2]>>
        BY <2>2 DEF Place
      <3> QED BY <3>1, <2>2, <1>1, <1>2
    <2> QED BY <2>1, <2>2, <1>1
  <1> QED BY <1>3, <1>4

\* Places that count.
LEMMA CountingIs ==
    ASSUME doctype \in Doctypes, NEW e, NEW where
    PROVE  /\ Counting(e, where) \subseteq DeclaredAt(e, where)
           /\ Counting(e, where) \subseteq Place
           /\ \A p \in DeclaredAt(e, where) :
                p \in Counting(e, where) <=>
                  \A q \in DeclaredAt(e, where) : Earlier(q, p) => DefAt(q).name # DefAt(p).name
  <1>1. DeclaredAt(e, where) \subseteq Place
    BY DeclaredAtIs
  <1> QED BY <1>1 DEF Counting

\* There is one for each name that is declared, and no other.
LEMMA OneCounts ==
    ASSUME doctype \in Doctypes, NEW e, NEW where
    PROVE  /\ \A p, q \in Counting(e, where) : DefAt(p).name = DefAt(q).name => p = q
           /\ \A p \in DeclaredAt(e, where) :
                \E f \in Counting(e, where) :
                    DefAt(f).name = DefAt(p).name /\ (f = p \/ Earlier(f, p))
  <1> DEFINE All == DeclaredAt(e, where)
  <1>0. \A p \in All : p \in Place /\ p[1] \in Nat /\ p[2] \in Nat
    <2>1. \A p \in All : p \in Place
      BY DeclaredAtIs
    <2> QED BY <2>1 DEF Place
  <1> HIDE DEF All
  <1>1. \A p, q \in Counting(e, where) : DefAt(p).name = DefAt(q).name => p = q
    BY <1>0, CountingIs, EarlierIs DEF All
  <1>2. ASSUME NEW p \in All
        PROVE  \E f \in Counting(e, where) :
                    DefAt(f).name = DefAt(p).name /\ (f = p \/ Earlier(f, p))
    <2> DEFINE Same == {q \in All : DefAt(q).name = DefAt(p).name}
               Firsts == {q[1] : q \in Same}
    <2>1. \A q : q \in Same <=> q \in All /\ DefAt(q).name = DefAt(p).name
      OBVIOUS
    <2> HIDE DEF Same
    <2>2. Firsts \in SUBSET Nat /\ Firsts # {}
      BY <2>1, <1>0, <1>2
    <2>3. \E i \in Firsts : \A j \in Firsts : i <= j
      <3> HIDE DEF Firsts
      <3> QED BY <2>2, Least
    <2>4. PICK i \in Firsts : \A j \in Firsts : i <= j
      BY <2>3
    <2> DEFINE Seconds == {q[2] : q \in {r \in Same : r[1] = i}}
    <2>5. Seconds \in SUBSET Nat /\ Seconds # {}
      BY <2>1, <2>4, <1>0
    <2>6. \E k \in Seconds : \A j \in Seconds : k <= j
      <3> HIDE DEF Seconds
      <3> QED BY <2>5, Least
    <2>7. PICK k \in Seconds : \A j \in Seconds : k <= j
      BY <2>6
    <2>8. PICK f \in Same : f[1] = i /\ f[2] = k
      BY <2>7
    <2>9. \A q \in Same : f[1] <= q[1] /\ (q[1] = f[1] => f[2] <= q[2])
      BY <2>4, <2>7, <2>8
    <2>10. \A q \in Same : ~Earlier(q, f)
      BY <2>9, <2>8, <2>1, <1>0 DEF Earlier
    <2>11. f \in Counting(e, where)
      BY <2>10, <2>8, <2>1, CountingIs DEF All
    <2>13. f = p \/ Earlier(f, p)
      <3>1. p \in Same
        BY <2>1, <1>2
      <3> QED BY <3>1, <2>10, <2>8, <2>1, <1>0, EarlierIs
    <2> QED BY <2>8, <2>11, <2>13, <2>1
  <1> QED BY <1>1, <1>2 DEF All
-------------------------------------------------------------------------------
(* Sequences that list places                                                  *)

\* A sequence has what f says of each of the places, once, in their order.
Lists(seq, places, f) ==
    /\ IsSequence(seq) /\ places \subseteq Place
    /\ ToSet(seq) = {f[p] : p \in places}
    /\ \A p, q \in places : \A n \in DOMAIN seq :
          seq[n] = f[q] => \A m \in 1 .. n - 1 : seq[m] = f[p] => Earlier(p, q)

\* Nothing lists no place.
LEMMA NoneListed ==
    ASSUME NEW f
    PROVE  Lists(<< >>, {}, f)
  BY EmptySequence DEF Lists

\* The places of a list are those of its elements.
LEMMA ListedIs ==
    ASSUME NEW seq, NEW places, NEW f, Lists(seq, places, f)
    PROVE  /\ Len(seq) \in Nat /\ DOMAIN seq = 1 .. Len(seq)
           /\ \A n \in 1 .. Len(seq) : \E p \in places : seq[n] = f[p]
           /\ \A p \in places : \E n \in 1 .. Len(seq) : seq[n] = f[p]
           /\ \A p, q \in places : \A m, n \in 1 .. Len(seq) :
                m < n /\ seq[m] = f[p] /\ seq[n] = f[q] => Earlier(p, q)
  <1>1. Len(seq) \in Nat /\ DOMAIN seq = 1 .. Len(seq)
    BY DEF Lists, IsSequence
  <1>2. \A x : x \in {f[p] : p \in places} <=> \E n \in 1 .. Len(seq) : x = seq[n]
    BY <1>1 DEF Lists, ToSet
  <1>3. \A n \in 1 .. Len(seq) : \E p \in places : seq[n] = f[p]
    BY <1>2
  <1>4. \A p \in places : \E n \in 1 .. Len(seq) : seq[n] = f[p]
    BY <1>2
  <1>5. \A p, q \in places : \A m, n \in 1 .. Len(seq) :
           m < n /\ seq[m] = f[p] /\ seq[n] = f[q] => Earlier(p, q)
    <2>1. \A m, n \in 1 .. Len(seq) : m < n => m \in 1 .. n - 1 /\ n \in DOMAIN seq
      BY <1>1
    <2> QED BY <2>1 DEF Lists
  <1> QED BY <1>1, <1>3, <1>4, <1>5

\* One more place, later than the others, of which something else is said.
LEMMA OneMoreListed ==
    ASSUME NEW seq, NEW places, NEW f, Lists(seq, places, f), NEW z \in Place,
           \A p \in places : Earlier(p, z) /\ f[p] # f[z]
    PROVE  Lists(Append(seq, f[z]), places \cup {z}, f)
  <1> DEFINE t == Append(seq, f[z])
             k == Len(seq)
  <1>1. /\ IsSequence(t) /\ DOMAIN t = 1 .. k + 1 /\ k \in Nat
        /\ t[k + 1] = f[z] /\ \A i \in 1 .. k : t[i] = seq[i]
        /\ ToSet(t) = ToSet(seq) \cup {f[z]}
    <2>1. IsSequence(seq)
      BY DEF Lists
    <2>2. /\ IsSequence(t) /\ Len(t) = k + 1
          /\ t[k + 1] = f[z] /\ \A i \in 1 .. k : t[i] = seq[i]
          /\ ToSet(t) = ToSet(seq) \cup {f[z]}
      BY <2>1, Appended
    <2>3. DOMAIN t = 1 .. k + 1
      BY <2>2 DEF IsSequence
    <2> QED BY <2>2, <2>3, ListedIs
  <1> HIDE DEF t, k
  <1>2. ToSet(t) = {f[p] : p \in places \cup {z}}
    BY <1>1 DEF Lists
  <1>3. ASSUME NEW p \in places \cup {z}, NEW q \in places \cup {z}, NEW n \in DOMAIN t,
               t[n] = f[q], NEW m \in 1 .. n - 1, t[m] = f[p]
        PROVE  Earlier(p, q)
    <2>1. m \in 1 .. k /\ t[m] = seq[m] /\ n \in Nat /\ m < n /\ n \in 1 .. k + 1
      BY <1>1, <1>3
    <2>2. PICK r \in places : seq[m] = f[r]
      BY <2>1, ListedIs DEF k
    <2>3. p \in places
      BY <2>1, <2>2, <1>3
    <2>4. CASE n = k + 1
      <3>1. q = z
        BY <2>4, <1>1, <1>3
      <3> QED BY <3>1, <2>3
    <2>5. CASE n # k + 1
      <3>1. n \in 1 .. k /\ t[n] = seq[n]
        BY <2>1, <2>5, <1>1
      <3>2. PICK u \in places : seq[n] = f[u]
        BY <3>1, ListedIs DEF k
      <3>3. q \in places
        BY <3>1, <3>2, <1>3
      <3>4. seq[m] = f[p] /\ seq[n] = f[q] /\ m < n
        BY <3>1, <2>1, <1>3
      <3>5. \A i, j \in 1 .. k : i < j /\ seq[i] = f[p] /\ seq[j] = f[q] => Earlier(p, q)
        BY <2>3, <3>3, ListedIs DEF k
      <3> QED BY <3>1, <3>4, <3>5, <2>1
    <2> QED BY <2>4, <2>5
  <1>4. places \cup {z} \subseteq Place
    BY DEF Lists
  <1> QED BY <1>1, <1>2, <1>3, <1>4 DEF Lists, t

\* What a list has of a set, in a function that goes along it.
Goes(s, S, m, g) ==
    g = [i \in 0 .. m |-> IF i = 0 THEN << >>
                          ELSE IF s[i] \in S THEN Append(g[i - 1], s[i]) ELSE g[i - 1]]

\* There is such a function.
LEMMA GoesIs ==
    ASSUME NEW s, NEW S, NEW m \in Nat
    PROVE  \E g : Goes(s, S, m, g)
  <1> DEFINE Known(k) == \E g : Goes(s, S, k, g)
  <1> SUFFICES ASSUME ~Known(m) PROVE FALSE
    OBVIOUS
  <1> DEFINE Bad == {k \in Nat : ~Known(k)}
  <1> HIDE DEF Known
  <1>1. \A k : k \in Bad <=> k \in Nat /\ ~Known(k)
    OBVIOUS
  <1> HIDE DEF Bad
  <1>2. Bad \in SUBSET Nat /\ Bad # {}
    BY <1>1
  <1>3. PICK k \in Bad : \A j \in Bad : k <= j
    BY <1>2, Least
  <1>4. k \in Nat /\ ~Known(k)
    BY <1>1, <1>3
  <1>5. k # 0
    <2> DEFINE g == [i \in 0 .. 0 |-> << >>]
    <2>1. g = [i \in 0 .. 0 |-> IF i = 0 THEN << >>
                               ELSE IF s[i] \in S THEN Append(g[i - 1], s[i]) ELSE g[i - 1]]
      OBVIOUS
    <2> HIDE DEF g
    <2>2. Goes(s, S, 0, g)
      BY <2>1 DEF Goes
    <2> QED BY <2>2, <1>4 DEF Known
  <1>6. k - 1 \in Nat /\ ~(k <= k - 1)
    BY <1>4, <1>5
  <1>7. PICK g : Goes(s, S, k - 1, g)
    BY <1>1, <1>3, <1>6 DEF Known
  <1> DEFINE last == IF s[k] \in S THEN Append(g[k - 1], s[k]) ELSE g[k - 1]
             h == [i \in 0 .. k |-> IF i = k THEN last ELSE g[i]]
  <1>8. \A i \in 0 .. k - 1 :
           g[i] = IF i = 0 THEN << >>
                  ELSE IF s[i] \in S THEN Append(g[i - 1], s[i]) ELSE g[i - 1]
    BY <1>7 DEF Goes
  <1>9. /\ \A i \in 0 .. k - 1 : h[i] = g[i]
        /\ h[k] = last /\ h = [i \in 0 .. k |-> h[i]]
    <2> HIDE DEF last
    <2> QED BY <1>4, <1>5
  <1> HIDE DEF h
  <1>10. ASSUME NEW i \in 0 .. k
         PROVE  h[i] = IF i = 0 THEN << >>
                       ELSE IF s[i] \in S THEN Append(h[i - 1], s[i]) ELSE h[i - 1]
    <2>1. CASE i = k
      <3>1. k - 1 \in 0 .. k - 1
        BY <1>6
      <3>2. h[k - 1] = g[k - 1]
        BY <3>1, <1>9
      <3> QED BY <2>1, <3>2, <1>5, <1>9
    <2>2. CASE i # k
      <3>1. i \in 0 .. k - 1 /\ (i # 0 => i - 1 \in 0 .. k - 1)
        BY <2>2, <1>4
      <3> QED BY <3>1, <1>8, <1>9
    <2> QED BY <2>1, <2>2
  <1>11. Goes(s, S, k, h)
    <2>1. h = [i \in 0 .. k |-> IF i = 0 THEN << >>
                               ELSE IF s[i] \in S THEN Append(h[i - 1], s[i]) ELSE h[i - 1]]
      BY <1>9, <1>10
    <2> QED BY <2>1 DEF Goes
  <1> QED BY <1>11, <1>4 DEF Known

\* What it has of the places is listed.
LEMMA GoesLists ==
    ASSUME NEW s, NEW places, NEW f, Lists(s, places, f), NEW S,
           NEW g, Goes(s, S, Len(s), g),
           \A p, q \in places : f[p] = f[q] => p = q
    PROVE  Lists(g[Len(s)], {p \in places : f[p] \in S}, f)
  <1> DEFINE Upto(i) == {p \in places : f[p] \in S /\ \E j \in 1 .. i : s[j] = f[p]}
             Bad == {i \in 0 .. Len(s) : ~Lists(g[i], Upto(i), f)}
  <1>1. Len(s) \in Nat
    BY ListedIs
  <1>2. \A i \in 0 .. Len(s) :
           g[i] = IF i = 0 THEN << >>
                  ELSE IF s[i] \in S THEN Append(g[i - 1], s[i]) ELSE g[i - 1]
    BY DEF Goes
  <1>3. \A i, p : p \in Upto(i) <=>
                      p \in places /\ f[p] \in S /\ \E j \in 1 .. i : s[j] = f[p]
    OBVIOUS
  <1> HIDE DEF Upto
  <1>4. Bad = {}
    <2> SUFFICES ASSUME Bad # {} PROVE FALSE
      OBVIOUS
    <2>1. \A i : i \in Bad <=> i \in 0 .. Len(s) /\ ~Lists(g[i], Upto(i), f)
      OBVIOUS
    <2> HIDE DEF Bad
    <2>2. Bad \in SUBSET Nat
      BY <2>1, <1>1
    <2>3. PICK k \in Bad : \A j \in Bad : k <= j
      BY <2>2, Least
    <2>4. k \in 0 .. Len(s) /\ ~Lists(g[k], Upto(k), f)
      BY <2>1, <2>3
    <2>5. k # 0
      <3>1. g[0] = << >> /\ Upto(0) = {}
        BY <1>1, <1>2, <1>3
      <3> QED BY <3>1, <2>4, NoneListed
    <2>6. k - 1 \in 0 .. Len(s) /\ ~(k <= k - 1) /\ k \in 1 .. Len(s)
      BY <2>4, <2>5, <1>1
    <2>7. Lists(g[k - 1], Upto(k - 1), f)
      BY <2>1, <2>3, <2>6
    <2>8. PICK z \in places : s[k] = f[z]
      BY <2>6, ListedIs
    <2>9. \A j \in 1 .. k : j \in 1 .. k - 1 \/ j = k
      BY <2>6
    <2>10. \A j \in 1 .. k - 1 : j \in 1 .. Len(s) /\ j < k /\ j \in 1 .. k
      BY <2>6, <1>1
    <2>11. k \in 1 .. k
      BY <2>6
    <2>12. g[k] = IF s[k] \in S THEN Append(g[k - 1], s[k]) ELSE g[k - 1]
      <3>1. g[k] = IF k = 0 THEN << >>
                   ELSE IF s[k] \in S THEN Append(g[k - 1], s[k]) ELSE g[k - 1]
        BY <2>4, <1>2
      <3> QED BY <3>1, <2>5
    <2>13. CASE s[k] \in S
      <3>1. g[k] = Append(g[k - 1], f[z])
        BY <2>13, <2>12, <2>8
      <3>2. z \in Place /\ places \subseteq Place
        BY DEF Lists
      <3>3. \A p \in Upto(k - 1) : Earlier(p, z) /\ f[p] # f[z]
        <4> TAKE p \in Upto(k - 1)
        <4>1. PICK j \in 1 .. k - 1 : s[j] = f[p] /\ p \in places
          BY <1>3
        <4>2. Earlier(p, z)
          BY <4>1, <2>8, <2>6, <2>10, ListedIs
        <4>3. f[p] # f[z]
          <5> SUFFICES ASSUME f[p] = f[z] PROVE FALSE
            OBVIOUS
          <5>1. Earlier(z, z)
            BY <4>1, <2>8, <2>6, <2>10, ListedIs
          <5> QED BY <5>1, <3>2, EarlierIs
        <4> QED BY <4>2, <4>3
      <3>4. Lists(Append(g[k - 1], f[z]), Upto(k - 1) \cup {z}, f)
        BY <2>7, <3>2, <3>3, OneMoreListed
      <3>5. Upto(k) = Upto(k - 1) \cup {z}
        <4>1. \A p \in places : s[k] = f[p] => p = z
          BY <2>8
        <4> QED BY <4>1, <1>3, <2>8, <2>9, <2>10, <2>11, <2>13
      <3> QED BY <3>1, <3>4, <3>5, <2>4
    <2>14. CASE s[k] \notin S
      <3>1. g[k] = g[k - 1]
        BY <2>14, <2>12
      <3>2. \A p : p \in Upto(k) <=> p \in Upto(k - 1)
        <4>1. \A p : f[p] \in S => s[k] # f[p]
          BY <2>14
        <4> QED BY <4>1, <1>3, <2>9, <2>10
      <3>3. Upto(k) = Upto(k - 1)
        BY <3>2
      <3> QED BY <3>1, <3>3, <2>7, <2>4
    <2> QED BY <2>13, <2>14
  <1>5. Upto(Len(s)) = {p \in places : f[p] \in S}
    BY <1>3, ListedIs
  <1>6. Len(s) \in 0 .. Len(s)
    BY <1>1
  <1> QED BY <1>4, <1>5, <1>6
-------------------------------------------------------------------------------
(* What is heard of the declarations                                           *)

EventF == [p \in Place |-> EventAt(p)]
DefF   == [p \in Place |-> DefAt(p)]

\* Those that were read, up to the m-th attribute of the one that is being read.
Reached(p, m) ==
    \/ p[1] <= read
    \/ p[1] = read + 1 /\ 0 < p[2] /\ p[2] <= m

HeardSoFar(m)    == Lists(declarationsHeard, {p \in FirstDeclarations : Reached(p, m)}, EventF)
KnownSoFar(e, m) ==
    Lists(AttributesOf(attlists, e), {p \in Counting(e, "anywhere") : Reached(p, m)}, DefF)

\* m attributes have been read, if not since the declaration was scanned again.
Mark(m) ==
    /\ m \in Nat /\ defsRead \in Nat /\ defsRead <= m
    /\ m > 0 => MoreDeclarations("attlist") /\ m <= Len(Next1.defs)

HeardInv == \E m \in Nat : Mark(m) /\ HeardSoFar(m) /\ \A e : KnownSoFar(e, m)

\* What counts is settled by the document.
LEMMA SamePlaces ==
    ASSUME UNCHANGED doctype
    PROVE  /\ \A e, a : DeclaredAt(e, a)' = DeclaredAt(e, a)
           /\ \A e, a : Counting(e, a)' = Counting(e, a)
           /\ FirstDeclarations' = FirstDeclarations
           /\ EventF' = EventF /\ DefF' = DefF
           /\ \A p : DefAt(p)' = DefAt(p)
  <1>1. \A p : DefAt(p)' = DefAt(p) /\ EventAt(p)' = EventAt(p)
    BY DEF DefAt, EventAt
  <1>2. Attlists' = Attlists
    BY DEF Attlists
  <1>3. \A e, a : DeclaredAt(e, a)' = DeclaredAt(e, a)
    BY <1>1, <1>2 DEF DeclaredAt
  <1>4. \A e, a : Counting(e, a)' = Counting(e, a)
    BY <1>1, <1>3 DEF Counting
  <1>5. FirstElements' = FirstElements
    BY SameMeaning DEF FirstElements
  <1>6. FirstDeclarations' = FirstDeclarations
    <2>1. \A i \in Attlists : doctype'.declarations[i].element = doctype.declarations[i].element
      OBVIOUS
    <2>2. {doctype'.declarations[i].element : i \in Attlists'}
            = {doctype.declarations[i].element : i \in Attlists}
      BY <1>2
    <2>3. UNION {Counting(e, "anywhere")' : e \in {doctype'.declarations[i].element : i \in Attlists'}}
            = UNION {Counting(e, "anywhere") : e \in {doctype.declarations[i].element : i \in Attlists}}
      BY <1>4, <2>2
    <2> QED BY <1>5, <2>3 DEF FirstDeclarations
  <1> QED BY <1>1, <1>3, <1>4, <1>6 DEF EventF, DefF

\* What counts is the first declaration of an element or of an attribute.
LEMMA FirstDeclarationsAre ==
    ASSUME doctype \in Doctypes, NEW p
    PROVE  /\ p \in FirstDeclarations <=>
                \/ /\ p \in Place /\ p[2] = 0 /\ p[1] \in FirstElements
                   /\ EventF[p] = <<doctype.declarations[p[1]].name>>
                \/ /\ p \in Place /\ p[2] # 0
                   /\ p \in Counting(doctype.declarations[p[1]].element, "anywhere")
                   /\ EventF[p] = <<doctype.declarations[p[1]].element, DefAt(p).name>>
           /\ p \in FirstDeclarations => p \in Place
  <1>1. \A i \in FirstElements : i \in Nat
    BY DoctypeShape DEF FirstElements
  <1>2. ASSUME NEW i \in FirstElements, p = <<i, 0>>
        PROVE  p \in Place /\ p[2] = 0 /\ p[1] \in FirstElements
               /\ EventF[p] = <<doctype.declarations[p[1]].name>>
    BY <1>1, <1>2 DEF Place, EventF, EventAt
  <1>3. ASSUME NEW e, p \in Counting(e, "anywhere")
        PROVE  /\ p \in Place /\ p[2] # 0 /\ p[1] \in Attlists
               /\ e = doctype.declarations[p[1]].element
               /\ EventF[p] = <<doctype.declarations[p[1]].element, DefAt(p).name>>
    <2>1. /\ p \in Place /\ p[2] # 0 /\ p[1] \in 1 .. Len(doctype.declarations)
          /\ e = doctype.declarations[p[1]].element
          /\ doctype.declarations[p[1]].kind = "attlist"
      <3>1. p \in DeclaredAt(e, "anywhere")
        BY <1>3, CountingIs
      <3> QED BY <3>1, DeclaredAtIs
    <2>2. p[1] \in Attlists
      BY <2>1, DoctypeShape DEF Attlists
    <2>3. EventF[p] = <<doctype.declarations[p[1]].element, DefAt(p).name>>
      BY <2>1 DEF EventF, EventAt, DefAt
    <2> QED BY <2>1, <2>2, <2>3
  <1>4. p \in FirstDeclarations <=>
          \/ \E i \in FirstElements : p = <<i, 0>>
          \/ \E i \in Attlists : p \in Counting(doctype.declarations[i].element, "anywhere")
    BY DEF FirstDeclarations
  <1>5. ASSUME p \in Place, p[2] = 0, p[1] \in FirstElements
        PROVE  \E i \in FirstElements : p = <<i, 0>>
    BY <1>5 DEF Place
  <1> QED BY <1>2, <1>3, <1>4, <1>5

\* Different ones are heard of differently, and so are those of one element.
LEMMA HeardApart ==
    ASSUME doctype \in Doctypes
    PROVE  /\ \A p, q \in FirstDeclarations : EventF[p] = EventF[q] => p = q
           /\ \A e : \A p, q \in Counting(e, "anywhere") : DefF[p] = DefF[q] => p = q
  <1>1. ASSUME NEW p \in FirstDeclarations, NEW q \in FirstDeclarations, EventF[p] = EventF[q]
        PROVE  p = q
    <2>0. /\ \A a, b, c : <<a>> # <<b, c>>
          /\ p \in Place /\ q \in Place
      BY FirstDeclarationsAre
    <2>1. CASE p[2] = 0
      <3>1. /\ q[2] = 0 /\ p[1] \in FirstElements /\ q[1] \in FirstElements
            /\ doctype.declarations[p[1]].name = doctype.declarations[q[1]].name
        BY <1>1, <2>0, <2>1, FirstDeclarationsAre
      <3>2. p[1] \in ElementDeclarations(doctype.declarations[q[1]].name)
            /\ q[1] \in ElementDeclarations(doctype.declarations[p[1]].name)
        BY <3>1 DEF FirstElements, ElementDeclarations
      <3>3. p[1] <= q[1] /\ q[1] <= p[1]
        BY <3>1, <3>2 DEF FirstElements
      <3> QED BY <3>1, <3>3, <2>0, <2>1 DEF Place
    <2>2. CASE p[2] # 0
      <3>1. /\ q[2] # 0
            /\ p \in Counting(doctype.declarations[p[1]].element, "anywhere")
            /\ q \in Counting(doctype.declarations[q[1]].element, "anywhere")
            /\ doctype.declarations[p[1]].element = doctype.declarations[q[1]].element
            /\ DefAt(p).name = DefAt(q).name
        BY <1>1, <2>0, <2>2, FirstDeclarationsAre
      <3> QED BY <3>1, OneCounts
    <2> QED BY <2>1, <2>2
  <1>2. ASSUME NEW e, NEW p \in Counting(e, "anywhere"), NEW q \in Counting(e, "anywhere"), DefF[p] = DefF[q]
        PROVE  p = q
    <2>1. DefF[p] = DefAt(p) /\ DefF[q] = DefAt(q)
      BY CountingIs DEF DefF
    <2>2. DefAt(p).name = DefAt(q).name
      BY <1>2, <2>1
    <2> QED BY <2>2, OneCounts
  <1> QED BY <1>1, <1>2

\* The step that reads an element declaration.
LEMMA ElementHeard ==
    ASSUME DtdInv, HeardInv, ElementDeclaration
    PROVE  HeardInv'
  <1> DEFINE n == read + 1
             d == doctype.declarations[n]
             z == <<n, 0>>
  <1>1. /\ n \in 1 .. Len(doctype.declarations) /\ d.kind = "element" /\ read' = n
        /\ read \in Nat /\ n \in Nat /\ doctype \in Doctypes /\ ~MoreDeclarations("attlist")
        /\ UNCHANGED <<doctype, defsRead, attlists>>
    <2>1. read < Len(doctype.declarations) /\ d.kind = "element" /\ read' = n
          /\ ~MoreDeclarations("attlist")
      BY DEF ElementDeclaration, MoreDeclarations, Next1
    <2>2. read \in 0 .. Len(doctype.declarations) /\ Len(doctype.declarations) \in Nat
          /\ doctype \in Doctypes
      BY DoctypeShape DEF DtdInv
    <2>3. UNCHANGED <<doctype, defsRead, attlists>>
      BY DEF ElementDeclaration, sessionVars
    <2> QED BY <2>1, <2>2, <2>3
  <1>2. Mark(0) /\ HeardSoFar(0) /\ \A e : KnownSoFar(e, 0)
    <2>1. PICK m \in Nat : Mark(m) /\ HeardSoFar(m) /\ \A e : KnownSoFar(e, m)
      BY DEF HeardInv
    <2>2. m = 0
      BY <2>1, <1>1 DEF Mark
    <2> QED BY <2>1, <2>2
  <1>3. Mark(0)'
    BY <1>1, <1>2 DEF Mark
  <1> HIDE DEF n, d
  <1>4. \A p \in Place : Reached(p, 0)' <=> Reached(p, 0) \/ p[1] = n
    <2>1. \A p \in Place : Reached(p, 0)' <=> p[1] <= n
      BY <1>1 DEF Reached, Place
    <2>2. \A p \in Place : Reached(p, 0) <=> p[1] <= read
      BY <1>1 DEF Reached, Place
    <2>3. \A p \in Place : p[1] \in Nat
      BY DEF Place
    <2> QED BY <2>1, <2>2, <2>3, <1>1 DEF n
  <1>5. \A e : \A p \in Counting(e, "anywhere") : p \in Place /\ p[1] # n
    <2> TAKE e
    <2> TAKE p \in Counting(e, "anywhere")
    <2>1. p \in DeclaredAt(e, "anywhere") /\ p \in Place
      BY CountingIs, <1>1
    <2>2. doctype.declarations[p[1]].kind = "attlist"
      BY <2>1, <1>1, DeclaredAtIs
    <2> QED BY <2>1, <2>2, <1>1 DEF d
  <1>6. ASSUME NEW e
        PROVE  KnownSoFar(e, 0)'
    <2>1. {p \in Counting(e, "anywhere") : Reached(p, 0)'}
            = {p \in Counting(e, "anywhere") : Reached(p, 0)}
      BY <1>4, <1>5
    <2>2. AttributesOf(attlists, e)' = AttributesOf(attlists, e)
      BY <1>1 DEF AttributesOf
    <2>3. {p \in Counting(e, "anywhere") : Reached(p, 0)}'
            = {p \in Counting(e, "anywhere") : Reached(p, 0)}
      BY <2>1, <1>1, SamePlaces
    <2>4. DefF' = DefF
      BY <1>1, SamePlaces
    <2> QED BY <1>2, <2>2, <2>3, <2>4 DEF KnownSoFar
  <1>7. \A p \in FirstDeclarations : p \in Place /\ (p[1] = n => p = z /\ n \in FirstElements)
    <2> TAKE p \in FirstDeclarations
    <2>1. p \in Place
      BY <1>1, FirstDeclarationsAre
    <2>2. (p[2] = 0 /\ p[1] \in FirstElements) \/ \E e : p \in Counting(e, "anywhere")
      BY <1>1, FirstDeclarationsAre
    <2> QED BY <2>1, <2>2, <1>5 DEF Place
  <1>8. d.name \in DOMAIN elements <=>
           \E i \in 1 .. read : /\ doctype.declarations[i].kind = "element"
                                /\ doctype.declarations[i].name = d.name
    BY DEF DtdInv, ElementsRead
  <1>9. n \in FirstElements <=> d.name \notin DOMAIN elements
    <2>1. n \in ElementDeclarations(d.name) /\ n \in DOMAIN doctype.declarations
      BY <1>1, DoctypeShape DEF ElementDeclarations, d
    <2>2. \A i : i \in ElementDeclarations(d.name) <=>
             /\ i \in 1 .. Len(doctype.declarations)
             /\ doctype.declarations[i].kind = "element"
             /\ doctype.declarations[i].name = d.name
      BY <1>1, DoctypeShape DEF ElementDeclarations
    <2>3. n \in FirstElements <=> \A i \in ElementDeclarations(d.name) : n <= i
      BY <2>1, <1>1 DEF FirstElements, d
    <2>4. \A i \in 1 .. Len(doctype.declarations) : i \in 1 .. read <=> ~(n <= i)
      BY <1>1 DEF n
    <2>5. \A i \in 1 .. read : i \in 1 .. Len(doctype.declarations)
      BY <1>1 DEF n
    <2> QED BY <2>2, <2>3, <2>4, <2>5, <1>8
  <1>10. EventF' = EventF /\ FirstDeclarations' = FirstDeclarations
    BY <1>1, SamePlaces
  <1>11. CASE d.name \in DOMAIN elements
    <2>1. declarationsHeard' = declarationsHeard
      BY <1>11 DEF ElementDeclaration, Next1, d, n
    <2>2. {p \in FirstDeclarations : Reached(p, 0)'} = {p \in FirstDeclarations : Reached(p, 0)}
      BY <1>4, <1>7, <1>9, <1>11
    <2>3. {p \in FirstDeclarations : Reached(p, 0)}' = {p \in FirstDeclarations : Reached(p, 0)}
      BY <2>2, <1>10
    <2>4. HeardSoFar(0)'
      BY <1>2, <1>10, <2>1, <2>3 DEF HeardSoFar
    <2> QED BY <1>3, <1>6, <2>4 DEF HeardInv
  <1>12. CASE d.name \notin DOMAIN elements
    <2> DEFINE before == {p \in FirstDeclarations : Reached(p, 0)}
    <2>1. n \in FirstElements
      BY <1>9, <1>12
    <2>2. z \in FirstDeclarations /\ z \in Place /\ EventF[z] = <<d.name>>
      <3>1. z \in FirstDeclarations
        BY <2>1 DEF FirstDeclarations
      <3>2. z \in Place /\ z[1] = n /\ z[2] = 0
        BY <1>1 DEF Place
      <3>3. \A p \in Place : p[1] = n /\ p[2] = 0 => EventF[p] = EventAt(p)
        BY DEF EventF
      <3>4. \A p \in Place : p[1] = n /\ p[2] = 0 => EventAt(p) = <<d.name>>
        BY DEF EventAt, d
      <3> QED BY <3>1, <3>2, <3>3, <3>4
    <2>3. declarationsHeard' = Append(declarationsHeard, EventF[z])
      BY <2>2, <1>12 DEF ElementDeclaration, Next1, d, n
    <2>4. \A p \in before : p \in FirstDeclarations /\ Earlier(p, z)
      <3>2. \A p \in before : p \in Place /\ p[1] \in Nat /\ p[2] \in Nat
        BY <1>7 DEF Place
      <3>1. \A p \in before : p[1] <= read
        BY <3>2 DEF Reached
      <3> QED BY <3>1, <3>2, <1>1 DEF Earlier, n
    <2>5. \A p \in before : EventF[p] # EventF[z]
      <3>1. \A p \in before : p # z
        BY <2>2, <2>4, EarlierIs
      <3> QED BY <3>1, <2>2, <2>4, <1>1, HeardApart
    <2>6. {p \in FirstDeclarations : Reached(p, 0)'} = before \cup {z}
      BY <1>4, <1>7, <2>2
    <2> HIDE DEF before, z
    <2>7. Lists(declarationsHeard', before \cup {z}, EventF)
      <3>1. Lists(declarationsHeard, before, EventF)
        BY <1>2 DEF HeardSoFar, before
      <3> QED BY <3>1, <2>2, <2>3, <2>4, <2>5, OneMoreListed
    <2>8. {p \in FirstDeclarations : Reached(p, 0)}' = before \cup {z}
      BY <2>6, <1>10
    <2>9. HeardSoFar(0)'
      BY <1>10, <2>7, <2>8 DEF HeardSoFar
    <2> QED BY <1>3, <1>6, <2>9 DEF HeardInv
  <1> QED BY <1>11, <1>12

\* The list of another element, and that of an element with one more attribute.
LEMMA ListsOf ==
    ASSUME NEW lists, NEW e, NEW list
    PROVE  /\ AttributesOf(Put(lists, e, list), e) = list
           /\ \A other : other # e =>
                AttributesOf(Put(lists, e, list), other) = AttributesOf(lists, other)
  BY DEF AttributesOf, Put

\* The step that reads an attribute of an ATTLIST, perhaps again.
LEMMA AttributeDeclared ==
    ASSUME DtdInv, HeardInv, DeclareAttribute
    PROVE  HeardInv'
  <1>n. PICK n : n = read + 1
    OBVIOUS
  <1>d. PICK d : d = doctype.declarations[n]
    OBVIOUS
  <1>k. PICK k : k = defsRead + 1
    OBVIOUS
  <1> DEFINE z == <<n, k>>
             def == d.defs[k]
             list == AttributesOf(attlists, d.element)
  <1>1. /\ n \in 1 .. Len(doctype.declarations) /\ n \in Nat /\ d.kind = "attlist"
        /\ read \in Nat /\ doctype \in Doctypes
        /\ UNCHANGED <<doctype, read>> /\ defsRead' = k /\ defsRead < Len(d.defs)
        /\ attlists' = WithAttribute(d.element, def)
        /\ declarationsHeard' = IF Declares(list, def.name) THEN declarationsHeard
                                ELSE Append(declarationsHeard, <<d.element, def.name>>)
    <2>1. read < Len(doctype.declarations) /\ d.kind = "attlist"
          /\ UNCHANGED read /\ defsRead' = k /\ defsRead < Len(d.defs)
          /\ attlists' = WithAttribute(d.element, def)
          /\ declarationsHeard' = IF Declares(list, def.name) THEN declarationsHeard
                                  ELSE Append(declarationsHeard, <<d.element, def.name>>)
      BY <1>n, <1>d, <1>k DEF DeclareAttribute, MoreDeclarations, Next1
    <2>2. read \in 0 .. Len(doctype.declarations) /\ Len(doctype.declarations) \in Nat
          /\ doctype \in Doctypes
      BY DoctypeShape DEF DtdInv
    <2>3. UNCHANGED doctype
      BY DEF DeclareAttribute, sessionVars
    <2> QED BY <2>1, <2>2, <2>3, <1>n, <1>d
  <1>2. PICK m \in Nat : Mark(m) /\ HeardSoFar(m) /\ \A e : KnownSoFar(e, m)
    BY DEF HeardInv
  <1>3. defsRead \in Nat /\ defsRead <= m /\ (m > 0 => m <= Len(d.defs)) /\ k \in Nat /\ k > 0
        /\ Len(d.defs) \in Nat
    <2>1. IsSequence(d.defs)
      BY <1>1, <1>d, DoctypeShape DEF DeclarationAssumption
    <2> QED BY <2>1, <1>2, <1>n, <1>d, <1>k DEF Mark, Next1, IsSequence
  <1>4. z \in Place /\ z[1] = n /\ z[2] = k /\ DefAt(z) = def
        /\ z \in DeclaredAt(d.element, "anywhere")
    <2>1. z \in Place /\ z[1] = n /\ z[2] = k
      BY <1>1, <1>3 DEF Place
    <2>2. DefAt(z) = def
      BY <2>1, <1>d DEF DefAt
    <2>3. k \in 1 .. Len(d.defs)
      BY <1>1, <1>3, <1>k
    <2> HIDE DEF z
    <2> QED BY <2>1, <2>2, <2>3, <1>1, <1>d, DeclaredAtIs
  <1>5. EventF' = EventF /\ DefF' = DefF /\ FirstDeclarations' = FirstDeclarations
        /\ \A e : Counting(e, "anywhere")' = Counting(e, "anywhere")
    BY <1>1, SamePlaces
  <1>6. \A i, p : Reached(p, i)' <=> Reached(p, i)
    BY <1>1 DEF Reached
  <1>7. Next1' = d /\ MoreDeclarations("attlist")'
    BY <1>1, <1>n, <1>d DEF Next1, MoreDeclarations
  <1> HIDE DEF z
  <1>8. \A p \in Counting(d.element, "anywhere") :
           p \in Place /\ p \in DeclaredAt(d.element, "anywhere") /\ DefF[p] = DefAt(p)
    BY CountingIs, <1>1 DEF DefF
  <1>9. Declares(list, def.name) <=>
           \E p \in Counting(d.element, "anywhere") : Reached(p, m) /\ DefAt(p).name = def.name
    <2> DEFINE known == {p \in Counting(d.element, "anywhere") : Reached(p, m)}
    <2>1. Lists(list, known, DefF)
      BY <1>2 DEF KnownSoFar
    <2>2. \A p : p \in known <=> p \in Counting(d.element, "anywhere") /\ Reached(p, m)
      OBVIOUS
    <2> HIDE DEF known, list, def
    <2>3. DOMAIN list = 1 .. Len(list)
      BY <2>1, ListedIs
    <2>4. Declares(list, def.name) <=> \E i \in 1 .. Len(list) : list[i].name = def.name
      BY <2>3 DEF Declares
    <2>5. \A i \in 1 .. Len(list) : \E p \in known : list[i] = DefF[p]
      BY <2>1, ListedIs
    <2>6. \A p \in known : \E i \in 1 .. Len(list) : list[i] = DefF[p]
      BY <2>1, ListedIs
    <2>7. (\E i \in 1 .. Len(list) : list[i].name = def.name) <=> \E p \in known : DefF[p].name = def.name
      BY <2>5, <2>6
    <2> QED BY <2>2, <2>4, <2>7, <1>8
  <1>10. CASE Declares(list, def.name) /\ defsRead < m
    <2>1. attlists' = attlists /\ declarationsHeard' = declarationsHeard
      BY <1>1, <1>10 DEF WithAttribute
    <2>2. Mark(m)'
      BY <1>1, <1>2, <1>3, <1>7, <1>10, <1>k DEF Mark
    <2>3. HeardSoFar(m)'
      BY <2>1, <1>2, <1>5, <1>6 DEF HeardSoFar
    <2>4. ASSUME NEW e
          PROVE  KnownSoFar(e, m)'
      <3>1. AttributesOf(attlists, e)' = AttributesOf(attlists, e)
        BY <2>1 DEF AttributesOf
      <3> QED BY <3>1, <1>2, <1>5, <1>6 DEF KnownSoFar
    <2> QED BY <2>2, <2>3, <2>4 DEF HeardInv
  <1>11. ASSUME defsRead < m
         PROVE  Declares(list, def.name)
    <2>1. Reached(z, m)
      BY <1>1, <1>3, <1>4, <1>11, <1>n, <1>k DEF Reached
    <2>2. PICK f \in Counting(d.element, "anywhere") :
             DefAt(f).name = DefAt(z).name /\ (f = z \/ Earlier(f, z))
      BY <1>1, <1>4, OneCounts
    <2>3. f \in Place /\ f[1] \in 1 .. Len(doctype.declarations)
          /\ f[2] \in 1 .. Len(doctype.declarations[f[1]].defs)
      BY <1>1, <1>8, DeclaredAtIs
    <2>4. f[2] > 0 /\ f[1] \in Nat /\ f[2] \in Nat
      BY <2>3 DEF Place
    <2>5. Reached(f, m)
      BY <2>1, <2>2, <2>4, <1>1, <1>3, <1>4, <1>n DEF Earlier, Reached
    <2> QED BY <2>2, <2>5, <1>4, <1>9
  <1>12. CASE defsRead = m
    <2>1. k = m + 1
      BY <1>12, <1>k
    <2>2. Mark(k)'
      BY <1>1, <1>3, <1>7, <1>k DEF Mark
    <2>3. \A p \in Place : Reached(p, k) <=> Reached(p, m) \/ p = z
      <3>1. \A p \in Place : p = z <=> p[1] = n /\ p[2] = k
        BY <1>4 DEF Place
      <3>2. \A p \in Place : p[1] \in Nat /\ p[2] \in Nat
        BY DEF Place
      <3>3. \A i \in Nat : 0 < i /\ i <= k <=> (0 < i /\ i <= m) \/ i = k
        BY <2>1, <1>2
      <3> QED BY <3>1, <3>2, <3>3, <1>n DEF Reached
    <2>4. \A p \in Place : Reached(p, m) => Earlier(p, z)
      <3>1. \A p \in Place : p[1] \in Nat /\ p[2] \in Nat
        BY DEF Place
      <3> QED BY <3>1, <1>1, <1>2, <1>4, <1>n, <2>1 DEF Reached, Earlier
    <2>5. z \in Counting(d.element, "anywhere") <=> ~Declares(list, def.name)
      <3>1. ASSUME z \in Counting(d.element, "anywhere"), Declares(list, def.name)
            PROVE  FALSE
        <4>1. PICK p \in Counting(d.element, "anywhere") : Reached(p, m) /\ DefAt(p).name = def.name
          BY <1>9, <3>1
        <4>2. p = z
          BY <4>1, <3>1, <1>1, <1>4, OneCounts
        <4> QED BY <4>1, <4>2, <2>4, <1>4, EarlierIs
      <3>2. ASSUME z \notin Counting(d.element, "anywhere")
            PROVE  Declares(list, def.name)
        <4>1. PICK f \in Counting(d.element, "anywhere") :
                 DefAt(f).name = DefAt(z).name /\ (f = z \/ Earlier(f, z))
          BY <1>1, <1>4, OneCounts
        <4>2. Earlier(f, z) /\ f \in Place
          BY <4>1, <3>2, <1>8
        <4>3. f[2] > 0 /\ f[1] \in Nat /\ f[2] \in Nat
          <5>1. f[2] \in 1 .. Len(doctype.declarations[f[1]].defs)
            BY <1>1, <1>8, DeclaredAtIs
          <5> QED BY <5>1, <4>2 DEF Place
        <4>4. Reached(f, m)
          BY <4>2, <4>3, <1>1, <1>2, <1>4, <1>n, <2>1 DEF Earlier, Reached
        <4> QED BY <4>1, <4>4, <1>4, <1>9
      <3> QED BY <3>1, <3>2
    <2>6. CASE Declares(list, def.name)
      <3>1. attlists' = attlists /\ declarationsHeard' = declarationsHeard
        BY <1>1, <2>6 DEF WithAttribute
      <3>2. z \notin Counting(d.element, "anywhere")
        BY <2>5, <2>6
      <3>3. \A e : z \in Counting(e, "anywhere") => e = d.element
        BY <1>1, <1>4, <1>d, CountingIs, DeclaredAtIs
      <3>4. z \notin FirstDeclarations
        BY <3>2, <1>1, <1>3, <1>4, <1>d, FirstDeclarationsAre
      <3>5. HeardSoFar(k)'
        <4>1. {p \in FirstDeclarations : Reached(p, k)} = {p \in FirstDeclarations : Reached(p, m)}
          BY <3>4, <2>3, <1>1, FirstDeclarationsAre
        <4> QED BY <4>1, <3>1, <1>2, <1>5, <1>6 DEF HeardSoFar
      <3>6. ASSUME NEW e
            PROVE  KnownSoFar(e, k)'
        <4>1. AttributesOf(attlists, e)' = AttributesOf(attlists, e)
          BY <3>1 DEF AttributesOf
        <4>2. z \notin Counting(e, "anywhere")
          BY <3>2, <3>3
        <4>3. {p \in Counting(e, "anywhere") : Reached(p, k)} = {p \in Counting(e, "anywhere") : Reached(p, m)}
          BY <4>2, <2>3, <1>1, CountingIs
        <4> QED BY <4>1, <4>3, <1>2, <1>5, <1>6 DEF KnownSoFar
      <3> QED BY <2>2, <3>5, <3>6, <1>3 DEF HeardInv
    <2>7. CASE ~Declares(list, def.name)
      <3>1. z \in Counting(d.element, "anywhere")
        BY <2>5, <2>7
      <3>2. z \in FirstDeclarations /\ EventF[z] = <<d.element, def.name>>
        <4>1. z[2] # 0 /\ doctype.declarations[z[1]].element = d.element /\ z \in Place
              /\ DefAt(z) = def
          BY <1>3, <1>4, <1>d
        <4> HIDE DEF def
        <4>3. EventF[z] = <<doctype.declarations[z[1]].element, DefAt(z).name>>
          BY <4>1 DEF EventF, EventAt, DefAt
        <4>2. z \in FirstDeclarations
          BY <4>1, <4>3, <3>1, <1>1, FirstDeclarationsAre
        <4> QED BY <4>1, <4>2, <4>3
      <3>3. DefF[z] = def
        BY <1>4 DEF DefF
      <3>4. /\ attlists' = Put(attlists, d.element, Append(list, DefF[z]))
            /\ declarationsHeard' = Append(declarationsHeard, EventF[z])
        BY <1>1, <2>7, <3>2, <3>3 DEF WithAttribute
      <3>5. HeardSoFar(k)'
        <4> DEFINE before == {p \in FirstDeclarations : Reached(p, m)}
        <4>1. {p \in FirstDeclarations : Reached(p, k)} = before \cup {z}
          BY <3>2, <2>3, <1>1, FirstDeclarationsAre
        <4>2. \A p \in before : p \in FirstDeclarations /\ Earlier(p, z) /\ p # z
          <5>1. \A p \in before : p \in FirstDeclarations /\ p \in Place /\ Reached(p, m)
            BY <1>1, FirstDeclarationsAre
          <5> QED BY <5>1, <2>4, <1>4, EarlierIs
        <4>3. \A p \in before : Earlier(p, z) /\ EventF[p] # EventF[z]
          BY <4>2, <3>2, <1>1, HeardApart
        <4>4. Lists(declarationsHeard, before, EventF)
          BY <1>2 DEF HeardSoFar
        <4> HIDE DEF before
        <4>5. Lists(Append(declarationsHeard, EventF[z]), before \cup {z}, EventF)
          BY <4>3, <4>4, <1>4, OneMoreListed
        <4>6. {p \in FirstDeclarations : Reached(p, k)}' = before \cup {z}
          BY <4>1, <1>5, <1>6
        <4> QED BY <4>6, <4>5, <3>4, <1>5 DEF HeardSoFar
      <3>6. KnownSoFar(d.element, k)'
        <4> DEFINE before == {p \in Counting(d.element, "anywhere") : Reached(p, m)}
        <4>1. {p \in Counting(d.element, "anywhere") : Reached(p, k)} = before \cup {z}
          BY <3>1, <2>3, <1>8
        <4>2. \A p \in before : p \in Counting(d.element, "anywhere") /\ Earlier(p, z) /\ p # z
          BY <1>8, <2>4, <1>4, EarlierIs
        <4>3. \A p \in before : Earlier(p, z) /\ DefF[p] # DefF[z]
          BY <4>2, <3>1, <1>1, HeardApart
        <4>4. Lists(list, before, DefF)
          BY <1>2 DEF KnownSoFar
        <4> HIDE DEF before
        <4>5. Lists(Append(list, DefF[z]), before \cup {z}, DefF)
          BY <4>3, <4>4, <1>4, OneMoreListed
        <4>6. AttributesOf(attlists', d.element) = Append(list, DefF[z])
          <5> DEFINE longer == Append(list, DefF[z])
          <5>1. attlists' = Put(attlists, d.element, longer)
            BY <3>4
          <5> HIDE DEF longer
          <5>2. AttributesOf(Put(attlists, d.element, longer), d.element) = longer
            BY DEF AttributesOf, Put
          <5> QED BY <5>1, <5>2 DEF longer
        <4>7. {p \in Counting(d.element, "anywhere") : Reached(p, k)}' = before \cup {z}
          BY <4>1, <1>5, <1>6
        <4>8. AttributesOf(attlists, d.element)' = Append(list, DefF[z])
          BY <4>6
        <4> QED BY <4>5, <4>7, <4>8, <1>5 DEF KnownSoFar
      <3>7. ASSUME NEW e, e # d.element
            PROVE  KnownSoFar(e, k)'
        <4>1. AttributesOf(attlists', e) = AttributesOf(attlists, e)
          BY <3>4, <3>7, ListsOf
        <4>2. z \notin Counting(e, "anywhere")
          BY <3>7, <1>1, <1>4, <1>d, CountingIs, DeclaredAtIs
        <4>3. {p \in Counting(e, "anywhere") : Reached(p, k)} = {p \in Counting(e, "anywhere") : Reached(p, m)}
          BY <4>2, <2>3, <1>1, CountingIs
        <4> QED BY <4>1, <4>3, <1>2, <1>5, <1>6 DEF KnownSoFar
      <3>8. \A e : KnownSoFar(e, k)'
        BY <3>6, <3>7
      <3> QED BY <2>2, <3>5, <3>8, <1>3 DEF HeardInv
    <2> QED BY <2>6, <2>7
  <1> QED BY <1>2, <1>3, <1>10, <1>11, <1>12

\* A step that reads none of the declarations.
LEMMA HeardLeftAlone ==
    ASSUME HeardInv, UNCHANGED <<doctype, read, defsRead, attlists, declarationsHeard>>
    PROVE  HeardInv'
  <1>1. PICK m \in Nat : Mark(m) /\ HeardSoFar(m) /\ \A e : KnownSoFar(e, m)
    BY DEF HeardInv
  <1>2. Mark(m)'
    BY <1>1 DEF Mark, MoreDeclarations, Next1
  <1>3. EventF' = EventF /\ DefF' = DefF /\ FirstDeclarations' = FirstDeclarations
        /\ (\A e : Counting(e, "anywhere")' = Counting(e, "anywhere"))
        /\ \A p : Reached(p, m)' <=> Reached(p, m)
    BY SamePlaces DEF Reached
  <1>4. HeardSoFar(m)'
    BY <1>1, <1>3 DEF HeardSoFar
  <1>5. ASSUME NEW e
        PROVE  KnownSoFar(e, m)'
    <2>1. AttributesOf(attlists, e)' = AttributesOf(attlists, e)
      BY DEF AttributesOf
    <2> QED BY <1>1, <1>3, <2>1 DEF KnownSoFar
  <1> QED BY <1>2, <1>4, <1>5 DEF HeardInv

\* An ATTLIST that is scanned again has been heard of as far as before.
LEMMA HeardAgain ==
    ASSUME HeardInv, ScanAgain
    PROVE  HeardInv'
  <1>0. UNCHANGED <<doctype, read, attlists, declarationsHeard>> /\ defsRead' = 0
    BY DEF ScanAgain, sessionVars
  <1>1. PICK m \in Nat : Mark(m) /\ HeardSoFar(m) /\ \A e : KnownSoFar(e, m)
    BY DEF HeardInv
  <1>2. Mark(m)'
    BY <1>0, <1>1 DEF Mark, MoreDeclarations, Next1
  <1>3. EventF' = EventF /\ DefF' = DefF /\ FirstDeclarations' = FirstDeclarations
        /\ (\A e : Counting(e, "anywhere")' = Counting(e, "anywhere"))
        /\ \A p : Reached(p, m)' <=> Reached(p, m)
    BY <1>0, SamePlaces DEF Reached
  <1>4. HeardSoFar(m)'
    BY <1>0, <1>1, <1>3 DEF HeardSoFar
  <1>5. ASSUME NEW e
        PROVE  KnownSoFar(e, m)'
    <2>1. AttributesOf(attlists, e)' = AttributesOf(attlists, e)
      BY <1>0 DEF AttributesOf
    <2> QED BY <1>1, <1>3, <2>1 DEF KnownSoFar
  <1> QED BY <1>2, <1>4, <1>5 DEF HeardInv

\* At its end all of its attributes have been read.
LEMMA HeardToTheEnd ==
    ASSUME DtdInv, HeardInv, EndOfAttlist
    PROVE  HeardInv'
  <1>0. UNCHANGED <<doctype, attlists, declarationsHeard>> /\ defsRead' = 0 /\ read' = read + 1
        /\ defsRead = Len(Next1.defs) /\ Next1.kind = "attlist"
        /\ read < Len(doctype.declarations)
    BY DEF EndOfAttlist, MoreDeclarations, sessionVars
  <1>1. PICK m \in Nat : Mark(m) /\ HeardSoFar(m) /\ \A e : KnownSoFar(e, m)
    BY DEF HeardInv
  <1>2. doctype \in Doctypes /\ read \in Nat
    BY DoctypeShape DEF DtdInv
  <1>3. m = Len(Next1.defs)
    <2>1. Next1 \in {doctype.declarations[read + 1]} /\ read + 1 \in DOMAIN doctype.declarations
      BY <1>0, <1>2, DoctypeShape DEF Next1
    <2>2. IsSequence(Next1.defs)
      BY <1>0, <1>2, <2>1, DoctypeShape DEF DeclarationAssumption
    <2>3. Len(Next1.defs) \in Nat
      BY <2>2 DEF IsSequence
    <2> QED BY <1>0, <1>1, <2>3 DEF Mark
  <1>4. Mark(0)'
    BY <1>0 DEF Mark
  <1>5. EventF' = EventF /\ DefF' = DefF /\ FirstDeclarations' = FirstDeclarations
        /\ (\A e : Counting(e, "anywhere")' = Counting(e, "anywhere"))
    BY <1>0, SamePlaces
  <1>6. \A p \in Place : Reached(p, 0)' <=> p[1] <= read + 1
    BY <1>0, <1>2 DEF Reached, Place
  <1>7. ASSUME NEW e, NEW p \in Counting(e, "anywhere")
        PROVE  p \in Place /\ (Reached(p, 0)' <=> Reached(p, m))
    <2>1. p \in DeclaredAt(e, "anywhere") /\ p \in Place
      BY <1>2, CountingIs
    <2>2. p[2] \in 1 .. Len(doctype.declarations[p[1]].defs)
      BY <2>1, <1>2, DeclaredAtIs
    <2>3. p[1] \in Nat /\ p[2] \in Nat
      BY <2>1 DEF Place
    <2>4. p[1] = read + 1 => 0 < p[2] /\ p[2] <= m
      BY <2>2, <2>3, <1>1, <1>3 DEF Next1
    <2>5. Reached(p, m) <=> p[1] <= read + 1
      BY <2>3, <2>4, <1>2 DEF Reached
    <2> QED BY <2>1, <2>5, <1>6
  <1>8. ASSUME NEW p \in FirstDeclarations
        PROVE  Reached(p, 0)' <=> Reached(p, m)
    <2>1. CASE p[2] # 0
      <3>1. p \in Counting(doctype.declarations[p[1]].element, "anywhere")
        BY <2>1, <1>2, FirstDeclarationsAre
      <3> QED BY <3>1, <1>7
    <2>2. CASE p[2] = 0
      <3>1. p \in Place /\ p[1] \in FirstElements
        BY <2>2, <1>2, FirstDeclarationsAre
      <3>2. p[1] # read + 1
        BY <3>1, <1>0 DEF FirstElements, Next1
      <3>3. p[1] \in Nat
        BY <3>1 DEF Place
      <3>4. Reached(p, m) <=> p[1] <= read + 1
        BY <3>2, <3>3, <1>2 DEF Reached
      <3> QED BY <3>1, <3>4, <1>6
    <2> QED BY <2>1, <2>2
  <1>9. HeardSoFar(0)'
    <2>1. {p \in FirstDeclarations : Reached(p, 0)}' = {p \in FirstDeclarations : Reached(p, m)}
      BY <1>5, <1>8
    <2> QED BY <2>1, <1>0, <1>1, <1>5 DEF HeardSoFar
  <1>10. ASSUME NEW e
         PROVE  KnownSoFar(e, 0)'
    <2>1. {p \in Counting(e, "anywhere") : Reached(p, 0)}'
            = {p \in Counting(e, "anywhere") : Reached(p, m)}
      BY <1>5, <1>7
    <2>2. AttributesOf(attlists, e)' = AttributesOf(attlists, e)
      BY <1>0 DEF AttributesOf
    <2> QED BY <2>1, <2>2, <1>1, <1>5 DEF KnownSoFar
  <1> QED BY <1>4, <1>9, <1>10 DEF HeardInv

NothingRead ==
    doctype \in Doctypes /\ read = 0 /\ defsRead = 0 /\ attlists = << >> /\ declarationsHeard = << >>

\* Before the first declaration nothing has been heard.
LEMMA NothingHeard ==
    NothingRead => HeardInv
  <1> SUFFICES ASSUME NothingRead PROVE HeardInv
    OBVIOUS
  <1> USE DEF NothingRead
  <1>1. Mark(0)
    BY DEF Mark
  <1>2. \A p \in Place : p[1] # 0 => ~Reached(p, 0)
    BY DEF Place, Reached
  <1>3. \A e : \A p \in Counting(e, "anywhere") : p \in Place /\ p[1] # 0
    <2> TAKE e
    <2> TAKE p \in Counting(e, "anywhere")
    <2>1. p \in DeclaredAt(e, "anywhere") /\ p \in Place
      BY CountingIs
    <2>2. p[1] \in 1 .. Len(doctype.declarations)
      BY <2>1, DeclaredAtIs
    <2> QED BY <2>1, <2>2, DoctypeShape
  <1>4. \A p \in FirstDeclarations : p \in Place /\ p[1] # 0
    <2> TAKE p \in FirstDeclarations
    <2>1. p \in Place
      BY FirstDeclarationsAre
    <2>2. CASE p[2] = 0
      <3>1. p[1] \in FirstElements
        BY <2>2, FirstDeclarationsAre
      <3> QED BY <2>1, <3>1, DoctypeShape DEF FirstElements
    <2>3. CASE p[2] # 0
      BY <2>3, <1>3, FirstDeclarationsAre
    <2> QED BY <2>1, <2>2, <2>3
  <1>5. HeardSoFar(0)
    <2>1. {p \in FirstDeclarations : Reached(p, 0)} = {}
      BY <1>2, <1>4
    <2> QED BY <2>1, NoneListed DEF HeardSoFar
  <1>6. ASSUME NEW e
        PROVE  KnownSoFar(e, 0)
    <2>1. {p \in Counting(e, "anywhere") : Reached(p, 0)} = {}
      BY <1>2, <1>3
    <2>2. AttributesOf(attlists, e) = << >>
      BY DEF AttributesOf
    <2> QED BY <2>1, <2>2, NoneListed DEF KnownSoFar
  <1> QED BY <1>1, <1>5, <1>6 DEF HeardInv

\* So every step keeps what is known of the declarations heard.
LEMMA HeardKept ==
    ASSUME DtdInv, HeardInv, [Next]_vars
    PROVE  HeardInv'
  <1>1. CASE ElementDeclaration
    BY <1>1, ElementHeard
  <1>2. CASE DeclareAttribute
    BY <1>2, AttributeDeclared
  <1>3. CASE ScanAgain
    BY <1>3, HeardAgain
  <1>4. CASE EndOfAttlist
    BY <1>4, HeardToTheEnd
  <1>5. CASE EndOfProlog
    <2>1. UNCHANGED <<doctype, read, defsRead, attlists, declarationsHeard>>
      BY <1>5 DEF EndOfProlog, sessionVars
    <2> QED BY <2>1, HeardLeftAlone
  <1>6. ASSUME UNCHANGED <<dtdVars, doctype>>
        PROVE  HeardInv'
    <2>1. UNCHANGED <<doctype, read, defsRead, attlists, declarationsHeard>>
      BY <1>6 DEF dtdVars
    <2> QED BY <2>1, HeardLeftAlone
  <1>7. ASSUME NEW name \in doctype.tags, StartTag(name)
        PROVE  HeardInv'
    BY <1>6, <1>7 DEF StartTag, sessionVars
  <1>8. ASSUME NEW a \in doctype.attributes, Attribute(a[1], a[2])
        PROVE  HeardInv'
    BY <1>6, <1>8 DEF Attribute, sessionVars
  <1>9. CASE TagEnd \/ EmptyTagEnd \/ EndTag \/ Close \/ AnyContentStep \/ UNCHANGED vars
    BY <1>6, <1>9 DEF TagEnd, EmptyTagEnd, EndOfAttributes, EndTag, Close, AnyContentStep,
                      Content, vars, sessionVars
  <1>10. CASE Reset
    <2>1. NothingRead'
      BY <1>10 DEF Reset, NothingRead
    <2>2. (NothingRead => HeardInv)'
      BY NothingHeard, PTL
    <2> QED BY <2>1, <2>2
  <1> QED BY <1>1, <1>2, <1>3, <1>4, <1>5, <1>7, <1>8, <1>9, <1>10, ContentSteps DEF Next

\* Once the prolog has ended, all has been read.
LEMMA AllReached ==
    ASSUME DtdInv, HeardInv, prologEnded
    PROVE  /\ Lists(declarationsHeard, FirstDeclarations, EventF)
           /\ \A e : Lists(AttributesOf(attlists, e), Counting(e, "anywhere"), DefF)
  <1>1. PICK m \in Nat : Mark(m) /\ HeardSoFar(m) /\ \A e : KnownSoFar(e, m)
    BY DEF HeardInv
  <1>2. doctype \in Doctypes /\ read = Len(doctype.declarations) /\ read \in Nat
    BY DoctypeShape DEF DtdInv
  <1>3. ASSUME NEW e, NEW p \in Counting(e, "anywhere")
        PROVE  Reached(p, m)
    <2>1. p \in DeclaredAt(e, "anywhere") /\ p \in Place
      BY <1>2, CountingIs
    <2>2. p[1] \in 1 .. Len(doctype.declarations)
      BY <2>1, <1>2, DeclaredAtIs
    <2> QED BY <2>2, <1>2 DEF Reached
  <1>4. ASSUME NEW p \in FirstDeclarations
        PROVE  Reached(p, m)
    <2>1. CASE p[2] = 0
      <3>1. p[1] \in FirstElements
        BY <2>1, <1>2, FirstDeclarationsAre
      <3>2. p[1] \in 1 .. Len(doctype.declarations)
        BY <3>1, <1>2, DoctypeShape DEF FirstElements
      <3> QED BY <3>2, <1>2 DEF Reached
    <2>2. CASE p[2] # 0
      BY <2>2, <1>2, <1>3, FirstDeclarationsAre
    <2> QED BY <2>1, <2>2
  <1>5. {p \in FirstDeclarations : Reached(p, m)} = FirstDeclarations
    BY <1>4
  <1>6. \A e : {p \in Counting(e, "anywhere") : Reached(p, m)} = Counting(e, "anywhere")
    BY <1>3
  <1> QED BY <1>1, <1>5, <1>6 DEF HeardSoFar, KnownSoFar

\* Every declaration that counts is heard once, in order, for every prolog and
\* wherever an ATTLIST of it was scanned again.
THEOREM DeclarationsAreHeardOnce == Spec => []DeclarationsHeardOnce
  <1>1. Init => DtdInv /\ HeardInv
    <2> SUFFICES ASSUME Init
                 PROVE  DtdInv /\ HeardInv
      OBVIOUS
    <2>1. DtdInv
      BY DtdAtFirst
    <2>2. HeardInv
      BY NothingHeard DEF Init, NothingRead
    <2> QED BY <2>1, <2>2
  <1>2. DtdInv /\ HeardInv /\ [Next]_vars => DtdInv' /\ HeardInv'
    BY DtdKept, HeardKept
  <1>3. DtdInv /\ HeardInv => DeclarationsHeardOnce
    <2> SUFFICES ASSUME DtdInv, HeardInv, prologEnded
                 PROVE  ListsInOrder(declarationsHeard, FirstDeclarations, EventAt)
      BY DEF DeclarationsHeardOnce
    <2>1. Lists(declarationsHeard, FirstDeclarations, EventF)
      BY AllReached
    <2>2. \A p \in FirstDeclarations : EventF[p] = EventAt(p)
      BY <2>1 DEF Lists, EventF
    <2>3. ToSet(declarationsHeard) = {EventF[p] : p \in FirstDeclarations}
      BY <2>1 DEF Lists
    <2>4. {EventF[p] : p \in FirstDeclarations} = {EventAt(p) : p \in FirstDeclarations}
      BY <2>2
    <2>5. \A p, q \in FirstDeclarations : \A n \in DOMAIN declarationsHeard :
             declarationsHeard[n] = EventF[q] =>
                \A m \in 1 .. n - 1 : declarationsHeard[m] = EventF[p] => Earlier(p, q)
      BY <2>1 DEF Lists
    <2> QED BY <2>2, <2>3, <2>4, <2>5 DEF ListsInOrder
  <1> QED BY <1>1, <1>2, <1>3, PTL DEF Spec
-------------------------------------------------------------------------------
(* What is heard of a tag                                                      *)

\* The definition an attribute gets is its meaning by the declarations.
LEMMA DefinitionIs ==
    ASSUME DtdInv, HeardInv, prologEnded, NEW e, NEW name
    PROVE  /\ Declares(AttributesOf(attlists, e), name)
                <=> \E p \in Counting(e, "anywhere") : DefAt(p).name = name
           /\ Definition(e, name) = Meaning(Counting(e, "anywhere"), name)
  <1> DEFINE list == AttributesOf(attlists, e)
             counting == Counting(e, "anywhere")
             own == {p \in counting : DefAt(p).name = name}
  <1>1. Lists(list, counting, DefF) /\ doctype \in Doctypes
    BY AllReached DEF DtdInv
  <1>2. \A p \in counting : DefF[p] = DefAt(p)
    BY <1>1 DEF Lists, DefF
  <1>3. \A p, q \in counting : DefAt(p).name = DefAt(q).name => p = q
    BY <1>1, OneCounts
  <1>4. Definition(e, name) = IF Declares(list, name)
                              THEN list[CHOOSE i \in DOMAIN list : list[i].name = name]
                              ELSE Undeclared(name)
    BY DEF Definition
  <1>5. Meaning(counting, name) = IF own = {} THEN Undeclared(name) ELSE DefAt(CHOOSE p \in own : TRUE)
    BY DEF Meaning
  <1>6. \A p : p \in own <=> p \in counting /\ DefAt(p).name = name
    OBVIOUS
  <1> HIDE DEF list, counting, own
  <1>7. /\ DOMAIN list = 1 .. Len(list)
        /\ \A n \in 1 .. Len(list) : \E p \in counting : list[n] = DefF[p]
        /\ \A p \in counting : \E n \in 1 .. Len(list) : list[n] = DefF[p]
    BY <1>1, ListedIs
  <1>8. Declares(list, name) <=> \E p \in counting : DefAt(p).name = name
    <2>1. \A n \in 1 .. Len(list) : \E p \in counting : list[n] = DefAt(p)
      BY <1>2, <1>7
    <2>2. \A p \in counting : \E n \in 1 .. Len(list) : list[n] = DefAt(p)
      BY <1>2, <1>7
    <2>3. Declares(list, name) <=> \E n \in 1 .. Len(list) : list[n].name = name
      BY <1>7 DEF Declares
    <2> QED BY <2>1, <2>2, <2>3
  <1>9. CASE Declares(list, name)
    <2> DEFINE i == CHOOSE j \in DOMAIN list : list[j].name = name
    <2>1. i \in DOMAIN list /\ list[i].name = name
      BY <1>9 DEF Declares
    <2>2. Definition(e, name) = list[i]
      BY <1>4, <1>9
    <2> HIDE DEF i
    <2>3. PICK p \in counting : list[i] = DefAt(p)
      BY <2>1, <1>2, <1>7
    <2>4. p \in own /\ \A q \in own : q = p
      BY <2>1, <2>3, <1>3, <1>6
    <2>5. Meaning(counting, name) = DefAt(p)
      BY <2>4, <1>5
    <2> QED BY <2>2, <2>3, <2>5, <1>8 DEF list, counting
  <1>10. CASE ~Declares(list, name)
    <2>1. own = {}
      BY <1>6, <1>8, <1>10
    <2> QED BY <2>1, <1>4, <1>5, <1>8, <1>10 DEF list, counting
  <1> QED BY <1>9, <1>10

\* What is heard of an attribute is heard under its name.
LEMMA MeaningNamed ==
    ASSUME NEW counting, NEW name
    PROVE  Meaning(counting, name).name = name
  <1> DEFINE own == {p \in counting : DefAt(p).name = name}
  <1>1. CASE own = {}
    BY <1>1 DEF Meaning, Undeclared
  <1>2. CASE own # {}
    BY <1>2 DEF Meaning
  <1> QED BY <1>1, <1>2

DefaultF == [p \in Place |-> HeardByDefault(p)]

\* The places of the defaults that an element takes, if it has seen the others.
Left(e) == {p \in Counting(e, "anywhere") :
               DefAt(p).default # NoDefault /\ DefAt(p).name \notin seenAttributes}

\* The scanner finds them, in the order they are declared.
LEMMA DefaultedIs ==
    ASSUME DtdInv, HeardInv, prologEnded
    PROVE  Lists(Defaulted, Left(Last(elementStack)), DefF)
  <1> DEFINE e == Last(elementStack)
             counting == Counting(e, "anywhere")
             S == {d \in Absent : d.default # NoDefault}
             s == OwnAttributes
             m == Len(OwnAttributes)
  <1>1. Lists(s, counting, DefF) /\ doctype \in Doctypes /\ m \in Nat
    <2>1. Lists(s, counting, DefF)
      BY AllReached DEF OwnAttributes
    <2> QED BY <2>1, ListedIs DEF DtdInv
  <1>2. \A i : s[i] \in S <=> OwnAttributes[i] \in Absent /\ OwnAttributes[i].default # NoDefault
    OBVIOUS
  <1> DEFINE upto == CHOOSE f : f = [i \in 0 .. m |->
                        IF i = 0 THEN << >>
                        ELSE IF OwnAttributes[i] \in Absent /\ OwnAttributes[i].default # NoDefault
                             THEN Append(f[i - 1], OwnAttributes[i]) ELSE f[i - 1]]
  <1>3. Defaulted = upto[m]
    BY DEF Defaulted
  <1>4. ASSUME NEW f
        PROVE  [i \in 0 .. m |->
                        IF i = 0 THEN << >>
                        ELSE IF OwnAttributes[i] \in Absent /\ OwnAttributes[i].default # NoDefault
                             THEN Append(f[i - 1], OwnAttributes[i]) ELSE f[i - 1]]
               = [i \in 0 .. m |-> IF i = 0 THEN << >>
                          ELSE IF s[i] \in S THEN Append(f[i - 1], s[i]) ELSE f[i - 1]]
    BY <1>2
  <1>5. \A f : Goes(s, S, m, f) <=> f = [i \in 0 .. m |->
                        IF i = 0 THEN << >>
                        ELSE IF OwnAttributes[i] \in Absent /\ OwnAttributes[i].default # NoDefault
                             THEN Append(f[i - 1], OwnAttributes[i]) ELSE f[i - 1]]
    BY <1>4 DEF Goes
  <1>6. \E f : Goes(s, S, m, f)
    <2> HIDE DEF S, m
    <2> QED BY <1>1, GoesIs
  <1>7. Goes(s, S, m, upto)
    BY <1>5, <1>6
  <1> HIDE DEF upto
  <1>8. \A p, q \in counting : DefF[p] = DefF[q] => p = q
    BY <1>1, HeardApart
  <1>9. Lists(upto[m], {p \in counting : DefF[p] \in S}, DefF)
    <2> HIDE DEF S, counting
    <2> QED BY <1>1, <1>7, <1>8, GoesLists
  <1>10. ASSUME NEW p \in counting
         PROVE  DefF[p] \in S <=> DefAt(p).default # NoDefault /\ DefAt(p).name \notin seenAttributes
    <2>1. DefF[p] = DefAt(p) /\ p \in counting
      BY <1>1 DEF Lists, DefF
    <2>2. \E n \in 1 .. m : s[n] = DefF[p]
      <3> HIDE DEF counting
      <3> QED BY <1>1, <2>1, ListedIs
    <2>3. DefAt(p) \in ToSet(OwnAttributes)
      BY <2>1, <2>2, <1>1, ListedIs DEF ToSet
    <2> QED BY <2>1, <2>3 DEF Absent
  <1>11. {p \in counting : DefF[p] \in S} = Left(e)
    BY <1>10 DEF Left
  <1> QED BY <1>3, <1>9, <1>11

\* A sequence that says of the same places something else.
LEMMA ListedThrough ==
    ASSUME NEW s, NEW places, NEW f, Lists(s, places, f),
           NEW t, IsSequence(t), Len(t) = Len(s), NEW g,
           \A n \in 1 .. Len(s) : \A p \in places : s[n] = f[p] => t[n] = g[p],
           \A p, q \in places : g[p] = g[q] => p = q
    PROVE  Lists(t, places, g)
  <1>1. /\ Len(s) \in Nat /\ DOMAIN t = 1 .. Len(s)
        /\ \A n \in 1 .. Len(s) : \E p \in places : s[n] = f[p]
        /\ \A p \in places : \E n \in 1 .. Len(s) : s[n] = f[p]
        /\ \A p, q \in places : \A i, n \in 1 .. Len(s) :
                i < n /\ s[i] = f[p] /\ s[n] = f[q] => Earlier(p, q)
    <2>1. DOMAIN t = 1 .. Len(t)
      BY DEF IsSequence
    <2>2. DOMAIN t = 1 .. Len(s)
      BY <2>1
    <2>3. \A p, q \in places : \A i, n \in 1 .. Len(s) :
                i < n /\ s[i] = f[p] /\ s[n] = f[q] => Earlier(p, q)
      <3> SUFFICES ASSUME NEW p \in places, NEW q \in places,
                          NEW i \in 1 .. Len(s), NEW n \in 1 .. Len(s),
                          i < n, s[i] = f[p], s[n] = f[q]
                   PROVE  Earlier(p, q)
        OBVIOUS
      <3> QED BY ListedIs
    <2>4. /\ Len(s) \in Nat
          /\ \A n \in 1 .. Len(s) : \E p \in places : s[n] = f[p]
          /\ \A p \in places : \E n \in 1 .. Len(s) : s[n] = f[p]
      BY ListedIs
    <2> QED BY <2>2, <2>3, <2>4
  <1>2. ToSet(t) = {g[p] : p \in places}
    <2>1. \A n \in 1 .. Len(s) : \E p \in places : t[n] = g[p]
      BY <1>1
    <2>2. \A p \in places : \E n \in 1 .. Len(s) : t[n] = g[p]
      BY <1>1
    <2>3. \A x : x \in ToSet(t) <=> \E n \in 1 .. Len(s) : x = t[n]
      BY <1>1 DEF ToSet
    <2>4. \A x : x \in ToSet(t) <=> x \in {g[p] : p \in places}
      BY <2>1, <2>2, <2>3
    <2> QED BY <2>4
  <1>3. \A n \in 1 .. Len(s) : \A p \in places : t[n] = g[p] => s[n] = f[p]
    BY <1>1
  <1>4. ASSUME NEW p \in places, NEW q \in places, NEW n \in DOMAIN t, t[n] = g[q],
               NEW i \in 1 .. n - 1, t[i] = g[p]
        PROVE  Earlier(p, q)
    <2>1. n \in 1 .. Len(s) /\ i \in 1 .. Len(s) /\ i < n
      BY <1>1, <1>4
    <2>2. s[n] = f[q] /\ s[i] = f[p]
      BY <2>1, <1>3, <1>4
    <2> QED BY <2>1, <2>2, <1>1
  <1>5. places \subseteq Place
    BY DEF Lists
  <1> QED BY <1>2, <1>4, <1>5 DEF Lists

TagCounts == Counting(tag.element, "anywhere")

\* An attribute whose value the declarations outside may change.
ChangedOutside(n) ==
    LET def == Meaning(TagCounts, tag.written[n][1])
    IN  def.external /\ def.type # "CDATA"

TagComplete == tag # NoTag /\ ~inStartTag

TagInv ==
    /\ tag # NoTag \/ inStartTag => prologEnded
    /\ inStartTag => tag.element = Last(elementStack)
    /\ IsSequence(tag.written)
    /\ \A name : name \in seenAttributes <=> \E n \in DOMAIN tag.written : tag.written[n][1] = name
    /\ tag.heard = [n \in DOMAIN tag.written |->
                       HeardAs(TagCounts, tag.written[n][1], tag.written[n][2])]
    /\ TagComplete => Lists(tag.defaulted, Omitted(TagCounts), DefaultF)
    /\ doctype.validating /\ doctype.standalone =>
          /\ \A n \in DOMAIN tag.written :
                ChangedOutside(n) => <<"standalone", tag.written[n][1]>> \in tag.complaints
          /\ TagComplete =>
                \A p \in Omitted(TagCounts) :
                   DefAt(p).external => <<"standalone", DefAt(p).name>> \in tag.complaints

\* What an attribute is heard as is settled by the document.
LEMMA SameHeard ==
    ASSUME UNCHANGED doctype
    PROVE  \A counting, name, raw :
              /\ Meaning(counting, name)' = Meaning(counting, name)
              /\ HeardAs(counting, name, raw)' = HeardAs(counting, name, raw)
  <1> TAKE counting, name, raw
  <1>1. Meaning(counting, name)' = Meaning(counting, name)
    BY DEF Meaning, DefAt
  <1>2. (\E p \in counting : DefAt(p).name = name)' = (\E p \in counting : DefAt(p).name = name)
    BY DEF DefAt
  <1>3. HeardAs(counting, name, raw)' = HeardAs(counting, name, raw)
    BY <1>1, <1>2 DEF HeardAs
  <1> QED BY <1>1, <1>3

\* A step that leaves the tag alone.
LEMMA TagLeftAlone ==
    ASSUME TagInv, UNCHANGED <<doctype, tag, seenAttributes, inStartTag>>,
           prologEnded => prologEnded',
           inStartTag => UNCHANGED elementStack
    PROVE  TagInv'
  <1>1. /\ \A e, a : Counting(e, a)' = Counting(e, a)
        /\ \A p : DefAt(p)' = DefAt(p)
    BY SamePlaces
  <1>2. TagCounts' = TagCounts
    BY <1>1 DEF TagCounts
  <1>3. \A counting : Omitted(counting)' = Omitted(counting)
    BY <1>1 DEF Omitted
  <1>4. DefaultF' = DefaultF
    BY <1>1 DEF DefaultF, HeardByDefault
  <1>5. \A counting, name, raw : /\ HeardAs(counting, name, raw)' = HeardAs(counting, name, raw)
                                 /\ Meaning(counting, name)' = Meaning(counting, name)
    BY SameHeard
  <1>6. \A n : ChangedOutside(n)' <=> ChangedOutside(n)
    BY <1>2, <1>5 DEF ChangedOutside
  <1>7. TagComplete' <=> TagComplete
    BY DEF TagComplete
  <1>8. (tag # NoTag \/ inStartTag => prologEnded)'
    BY DEF TagInv
  <1>9. (inStartTag => tag.element = Last(elementStack))'
    BY DEF TagInv
  <1>10. IsSequence(tag.written)'
    BY DEF TagInv, IsSequence
  <1>11. (\A name : name \in seenAttributes <=> \E n \in DOMAIN tag.written : tag.written[n][1] = name)'
    BY DEF TagInv
  <1>12. (tag.heard = [n \in DOMAIN tag.written |->
                       HeardAs(TagCounts, tag.written[n][1], tag.written[n][2])])'
    BY <1>2, <1>5 DEF TagInv
  <1>13. (TagComplete => Lists(tag.defaulted, Omitted(TagCounts), DefaultF))'
    BY <1>2, <1>3, <1>4, <1>7 DEF TagInv
  <1>14. (doctype.validating /\ doctype.standalone =>
            \A n \in DOMAIN tag.written :
                ChangedOutside(n) => <<"standalone", tag.written[n][1]>> \in tag.complaints)'
    BY <1>6 DEF TagInv
  <1>15. (doctype.validating /\ doctype.standalone /\ TagComplete =>
                \A p \in Omitted(TagCounts) :
                   DefAt(p).external => <<"standalone", DefAt(p).name>> \in tag.complaints)'
    BY <1>1, <1>2, <1>3, <1>7 DEF TagInv
  <1> QED BY <1>8, <1>9, <1>10, <1>11, <1>12, <1>13, <1>14, <1>15 DEF TagInv

NoTagYet == tag = NoTag /\ seenAttributes = {} /\ ~inStartTag

\* Before the first tag.
LEMMA NothingOfATag == NoTagYet => TagInv
  <1> SUFFICES ASSUME NoTagYet PROVE TagInv
    OBVIOUS
  <1>1. tag.written = << >> /\ tag.heard = << >> /\ ~TagComplete /\ DOMAIN << >> = {}
    <2>1. tag.written = << >> /\ tag.heard = << >>
      BY DEF NoTagYet, NoTag
    <2>2. ~TagComplete
      BY DEF NoTagYet, TagComplete
    <2> QED BY <2>1, <2>2
  <1>2. IsSequence(tag.written)
    BY <1>1, EmptySequence
  <1>3. tag.heard = [n \in DOMAIN tag.written |->
                       HeardAs(TagCounts, tag.written[n][1], tag.written[n][2])]
    BY <1>1
  <1> QED BY <1>1, <1>2, <1>3 DEF NoTagYet, TagInv

\* At its start nothing has been heard of it.
LEMMA StartKeepsTag ==
    ASSUME DtdInv, NEW name, StartTag(name)
    PROVE  TagInv'
  <1>1. /\ prologEnded /\ UNCHANGED prologEnded /\ elementStack' = Append(elementStack, name)
        /\ inStartTag' /\ seenAttributes' = {}
        /\ tag'.element = name /\ tag'.written = << >> /\ tag'.heard = << >>
    BY DEF StartTag, InContent, dtdVars
  <1>2. Last(elementStack') = name
    <2>1. Append(elementStack, name)[Len(elementStack) + 1] = name
          /\ Len(Append(elementStack, name)) = Len(elementStack) + 1
      BY Appended DEF DtdInv
    <2> QED BY <1>1, <2>1 DEF Last
  <1>3. DOMAIN << >> = {} /\ ~TagComplete'
    BY <1>1 DEF TagComplete
  <1>4. IsSequence(tag.written)'
    BY <1>1, EmptySequence DEF IsSequence
  <1>5. (tag.heard = [n \in DOMAIN tag.written |->
                       HeardAs(TagCounts, tag.written[n][1], tag.written[n][2])])'
    BY <1>1, <1>3
  <1>6. (\A other : other \in seenAttributes <=> \E n \in DOMAIN tag.written : tag.written[n][1] = other)'
    BY <1>1, <1>3
  <1> QED BY <1>1, <1>2, <1>3, <1>4, <1>5, <1>6 DEF TagInv

\* A function on the first numbers is a sequence.
LEMMA FunctionIsSequence ==
    ASSUME NEW n \in Nat, NEW t, t = [i \in 1 .. n |-> t[i]]
    PROVE  IsSequence(t) /\ Len(t) = n
  <1>1. DOMAIN t = 1 .. n
    OBVIOUS
  <1>2. \A i \in 1 .. n : t[i] \in ToSet(t)
    BY <1>1 DEF ToSet
  <1>3. t \in [1 .. n -> ToSet(t)]
    BY <1>2
  <1>4. t \in Seq(ToSet(t)) /\ Len(t) = n
    BY <1>3
  <1> QED BY <1>4 DEF IsSequence

\* An attribute is heard after the others, as its declaration says.
LEMMA AttributeKeepsTag ==
    ASSUME DtdInv, HeardInv, TagInv, NEW name, NEW raw, Attribute(name, raw)
    PROVE  TagInv'
  <1> DEFINE element == Last(elementStack)
             declared == Declares(AttributesOf(attlists, element), name)
             def == Definition(element, name)
             value == IF def.type = "CDATA" THEN raw ELSE Collapse(raw)
             m == Len(tag.written) + 1
             h == HeardAs(TagCounts, name, raw)
  <1>1. /\ prologEnded /\ element = tag.element /\ inStartTag
        /\ IsSequence(tag.written) /\ DOMAIN tag.written = 1 .. Len(tag.written)
        /\ Len(tag.written) \in Nat
    <2>1. inStartTag
      BY DEF Attribute
    <2>2. prologEnded /\ element = tag.element /\ IsSequence(tag.written)
      BY <2>1 DEF TagInv
    <2> QED BY <2>1, <2>2 DEF IsSequence
  <1>2. UNCHANGED <<doctype, prologEnded, elementStack, inStartTag>>
    BY DEF Attribute, dtdVars, sessionVars
  <1>3. /\ tag'.element = tag.element
        /\ tag'.written = Append(tag.written, <<name, raw>>)
        /\ tag'.heard = Append(tag.heard, Heard(def, declared, TRUE, value))
        /\ seenAttributes' = seenAttributes \cup {name}
    BY <1>1 DEF Attribute
  <1>4. tag.complaints \subseteq tag'.complaints
        /\ (doctype.validating /\ doctype.standalone /\ def.external /\ def.type # "CDATA"
               => <<"standalone", name>> \in tag'.complaints)
    <2> DEFINE said == Complain(When(~declared, "undeclared")
                    \cup When(/\ doctype.standalone /\ def.external
                              /\ def.type # "CDATA", "standalone")
                    \cup ValueComplaints(def, value))
                \cup When(name = SpaceAttribute /\ ~IsWordOf(value, SpaceTokens), "space")
    <2>1. tag'.complaints = tag.complaints \cup About(name, said)
      BY DEF Attribute
    <2>2. doctype.validating /\ doctype.standalone /\ def.external /\ def.type # "CDATA"
              => "standalone" \in said
      <3> HIDE DEF declared, def, value
      <3> QED BY DEF Complain, When
    <2> HIDE DEF said
    <2> QED BY <2>1, <2>2 DEF About
  <1>5. def = Meaning(TagCounts, name)
        /\ (declared <=> \E p \in TagCounts : DefAt(p).name = name)
    BY <1>1, DefinitionIs DEF TagCounts
  <1>6. Heard(def, declared, TRUE, value) = h
    <2>1. declared = \E p \in TagCounts : DefAt(p).name = name
      <3>1. declared \in BOOLEAN
        BY DEF Declares
      <3>2. (\E p \in TagCounts : DefAt(p).name = name) \in BOOLEAN
        OBVIOUS
      <3> QED BY <3>1, <3>2, <1>5
    <2>2. value = Normalised(Meaning(TagCounts, name), raw)
      BY <1>5 DEF Normalised
    <2>3. h = Heard(Meaning(TagCounts, name), \E p \in TagCounts : DefAt(p).name = name, TRUE,
                    Normalised(Meaning(TagCounts, name), raw))
      BY DEF HeardAs
    <2> HIDE DEF declared, value, h, def
    <2> QED BY <2>1, <2>2, <2>3, <1>5
  <1>7. /\ TagCounts' = TagCounts
        /\ (\A counting, other, r : /\ HeardAs(counting, other, r)' = HeardAs(counting, other, r)
                                    /\ Meaning(counting, other)' = Meaning(counting, other))
    <2>1. \A e, a : Counting(e, a)' = Counting(e, a)
      BY <1>2, SamePlaces
    <2>2. TagCounts' = TagCounts
      BY <2>1, <1>3 DEF TagCounts
    <2> QED BY <2>2, <1>2, SameHeard
  <1>8. /\ IsSequence(tag'.written) /\ DOMAIN tag'.written = 1 .. m
        /\ tag'.written[m] = <<name, raw>>
        /\ \A n \in 1 .. m - 1 : tag'.written[n] = tag.written[n]
        /\ m \in Nat /\ m >= 1
    <2>1. /\ IsSequence(tag'.written) /\ Len(tag'.written) = m
          /\ tag'.written[m] = <<name, raw>>
          /\ \A n \in 1 .. Len(tag.written) : tag'.written[n] = tag.written[n]
      BY <1>1, <1>3, Appended
    <2>2. DOMAIN tag'.written = 1 .. m
      BY <2>1 DEF IsSequence
    <2> QED BY <2>1, <2>2, <1>1
  <1>9. /\ tag'.heard = [n \in 1 .. m |-> tag'.heard[n]] /\ tag'.heard[m] = h
        /\ \A n \in 1 .. m - 1 : tag'.heard[n] = HeardAs(TagCounts, tag.written[n][1], tag.written[n][2])
    <2>1. tag.heard = [n \in 1 .. Len(tag.written) |->
                         HeardAs(TagCounts, tag.written[n][1], tag.written[n][2])]
      BY <1>1 DEF TagInv
    <2>2. IsSequence(tag.heard) /\ Len(tag.heard) = Len(tag.written)
      BY <2>1, <1>1, FunctionIsSequence
    <2>3. tag'.heard = Append(tag.heard, h)
      BY <1>3, <1>6
    <2> HIDE DEF h
    <2>4. /\ IsSequence(tag'.heard) /\ Len(tag'.heard) = m /\ tag'.heard[m] = h
          /\ \A n \in 1 .. m - 1 : tag'.heard[n] = tag.heard[n]
      <3>1. \A n \in 1 .. m - 1 : n \in 1 .. Len(tag.heard)
        BY <2>2, <1>1
      <3> QED BY <3>1, <2>2, <2>3, Appended
    <2>5. tag'.heard = [n \in 1 .. m |-> tag'.heard[n]]
      BY <2>4 DEF IsSequence
    <2>6. \A n \in 1 .. m - 1 : tag.heard[n] = HeardAs(TagCounts, tag.written[n][1], tag.written[n][2])
      BY <2>1, <1>1
    <2> QED BY <2>4, <2>5, <2>6
  <1> HIDE DEF m, def, declared, value, h, element
  <1>10. \A n \in 1 .. m : n \in 1 .. m - 1 \/ n = m
    BY <1>8
  <1>11. (tag.heard = [n \in DOMAIN tag.written |->
                       HeardAs(TagCounts, tag.written[n][1], tag.written[n][2])])'
    <2>1. \A n \in 1 .. m : tag'.heard[n] = HeardAs(TagCounts, tag'.written[n][1], tag'.written[n][2])
      <3> TAKE n \in 1 .. m
      <3>1. CASE n \in 1 .. m - 1
        BY <3>1, <1>8, <1>9
      <3>2. CASE n = m
        <4>1. tag'.written[n][1] = name /\ tag'.written[n][2] = raw
          BY <3>2, <1>8
        <4> QED BY <3>2, <4>1, <1>9 DEF h
      <3> QED BY <3>1, <3>2, <1>10
    <2>2. tag'.heard = [n \in 1 .. m |-> HeardAs(TagCounts, tag'.written[n][1], tag'.written[n][2])]
      BY <2>1, <1>9
    <2>3. tag'.heard = [n \in DOMAIN tag'.written |->
                          HeardAs(TagCounts, tag'.written[n][1], tag'.written[n][2])]
      BY <2>2, <1>8
    <2>4. \A n : HeardAs(TagCounts, tag.written[n][1], tag.written[n][2])'
                   = HeardAs(TagCounts, tag'.written[n][1], tag'.written[n][2])
      BY <1>7
    <2> QED BY <2>3, <2>4
  <1>12. (\A other : other \in seenAttributes <=> \E n \in DOMAIN tag.written : tag.written[n][1] = other)'
    <2>1. \A other : other \in seenAttributes <=> \E n \in 1 .. m - 1 : tag.written[n][1] = other
      <3>1. 1 .. m - 1 = DOMAIN tag.written
        BY <1>1 DEF m
      <3> QED BY <3>1 DEF TagInv
    <2>2. \A other : other \in seenAttributes' <=> \E n \in 1 .. m : tag'.written[n][1] = other
      <3>1. 1 .. m - 1 \subseteq 1 .. m /\ m \in 1 .. m
        BY <1>8
      <3> QED BY <2>1, <3>1, <1>3, <1>8, <1>10
    <2> QED BY <2>2, <1>8
  <1>13. (doctype.validating /\ doctype.standalone =>
            \A n \in DOMAIN tag.written :
                ChangedOutside(n) => <<"standalone", tag.written[n][1]>> \in tag.complaints)'
    <2> SUFFICES ASSUME doctype.validating, doctype.standalone, NEW n \in 1 .. m, ChangedOutside(n)'
                 PROVE  <<"standalone", tag'.written[n][1]>> \in tag'.complaints
      BY <1>2, <1>8
    <2>1. /\ Meaning(TagCounts, tag'.written[n][1]).external
          /\ Meaning(TagCounts, tag'.written[n][1]).type # "CDATA"
      BY <1>7 DEF ChangedOutside
    <2>2. CASE n = m
      BY <2>1, <2>2, <1>4, <1>5, <1>8
    <2>3. CASE n \in 1 .. m - 1
      <3>1. ChangedOutside(n) /\ n \in DOMAIN tag.written
        BY <2>1, <2>3, <1>1, <1>8 DEF ChangedOutside, m
      <3> QED BY <3>1, <2>3, <1>4, <1>8 DEF TagInv
    <2> QED BY <2>2, <2>3, <1>10
  <1>14. ~TagComplete' /\ (tag.element = Last(elementStack))' /\ prologEnded'
    BY <1>1, <1>2, <1>3 DEF TagComplete, element
  <1>15. IsSequence(tag.written)'
    BY <1>8 DEF IsSequence
  <1> QED BY <1>11, <1>12, <1>13, <1>14, <1>15 DEF TagInv

\* At its end it has the defaults of those left out, and the complaints of them.
LEMMA EndKeepsTag ==
    ASSUME DtdInv, HeardInv, TagInv, EndOfAttributes
    PROVE  TagInv'
  <1> DEFINE e == Last(elementStack)
             t == [i \in DOMAIN Defaulted |->
                      Heard(Defaulted[i], TRUE, FALSE, Defaulted[i].default)]
  <1>1. /\ inStartTag /\ ~inStartTag' /\ UNCHANGED <<doctype, prologEnded, seenAttributes>>
        /\ tag'.element = tag.element /\ tag'.written = tag.written /\ tag'.heard = tag.heard
        /\ tag'.defaulted = t
        /\ tag'.complaints = tag.complaints \cup Complain(DefaultComplaints)
    BY DEF EndOfAttributes, dtdVars, sessionVars
  <1>2. prologEnded /\ tag.element = e /\ IsSequence(tag.written)
        /\ \A name : name \in seenAttributes <=> \E n \in DOMAIN tag.written : tag.written[n][1] = name
    BY <1>1 DEF TagInv
  <1>3. Lists(Defaulted, Left(e), DefF)
    BY <1>2, DefaultedIs
  <1> HIDE DEF e
  <1>4. /\ TagCounts' = TagCounts /\ TagCounts = Counting(e, "anywhere")
        /\ (\A p : DefAt(p)' = DefAt(p))
        /\ DefaultF' = DefaultF
    <2>1. /\ \A x, a : Counting(x, a)' = Counting(x, a)
          /\ \A p : DefAt(p)' = DefAt(p)
      BY <1>1, SamePlaces
    <2> QED BY <2>1, <1>1, <1>2 DEF TagCounts, DefaultF, HeardByDefault
  <1>5. Omitted(TagCounts)' = Left(e)
    <2>1. \A p : (\A n \in DOMAIN tag'.written : tag'.written[n][1] # DefAt(p).name)
                    <=> DefAt(p).name \notin seenAttributes
      BY <1>1, <1>2
    <2>2. Omitted(TagCounts)' = {p \in TagCounts :
                /\ DefAt(p).default # NoDefault
                /\ \A n \in DOMAIN tag'.written : tag'.written[n][1] # DefAt(p).name}
      BY <1>4 DEF Omitted
    <2> QED BY <2>1, <2>2, <1>4 DEF Left
  <1>6. \A p \in Left(e) : p \in Place /\ p \in Counting(e, "anywhere")
                           /\ DefF[p] = DefAt(p) /\ DefaultF[p] = HeardByDefault(p)
    BY <1>3 DEF Lists, Left, DefF, DefaultF
  <1>7. Lists(t, Left(e), DefaultF)
    <2>1. /\ Len(Defaulted) \in Nat /\ DOMAIN Defaulted = 1 .. Len(Defaulted)
          /\ \A n \in 1 .. Len(Defaulted) : \E p \in Left(e) : Defaulted[n] = DefF[p]
      BY <1>3, ListedIs
    <2>2. \A n \in 1 .. Len(Defaulted) :
             t[n] = Heard(Defaulted[n], TRUE, FALSE, Defaulted[n].default)
      BY <2>1
    <2>3. IsSequence(t) /\ Len(t) = Len(Defaulted)
      <3>1. t = [i \in 1 .. Len(Defaulted) |-> t[i]]
        BY <2>1
      <3> HIDE DEF t
      <3> QED BY <2>1, <3>1, FunctionIsSequence
    <2> HIDE DEF t
    <2>4. \A n \in 1 .. Len(Defaulted) : \A p \in Left(e) :
             Defaulted[n] = DefF[p] => t[n] = DefaultF[p]
      BY <2>2, <1>6 DEF HeardByDefault
    <2>5. \A p, q \in Left(e) : DefaultF[p] = DefaultF[q] => p = q
      <3>1. \A p \in Left(e) : DefaultF[p].name = DefAt(p).name
        <4>1. \A d, x : Heard(d, TRUE, FALSE, x).name = d.name
          BY DEF Heard
        <4>2. \A p : HeardByDefault(p).name = DefAt(p).name
          BY <4>1 DEF HeardByDefault
        <4> QED BY <1>6, <4>2
      <3>2. doctype \in Doctypes
        BY DEF DtdInv
      <3> QED BY <3>1, <3>2, <1>6, OneCounts
    <2> QED BY <1>3, <2>3, <2>4, <2>5, ListedThrough
  <1> HIDE DEF t
  <1>8. (TagComplete => Lists(tag.defaulted, Omitted(TagCounts), DefaultF))'
    BY <1>1, <1>4, <1>5, <1>7
  <1>9. (doctype.validating /\ doctype.standalone =>
                \A p \in Omitted(TagCounts) :
                   DefAt(p).external => <<"standalone", DefAt(p).name>> \in tag.complaints)'
    <2> SUFFICES ASSUME doctype.validating, doctype.standalone, NEW p \in Left(e), DefAt(p).external
                 PROVE  <<"standalone", DefAt(p).name>> \in tag'.complaints
      BY <1>1, <1>4, <1>5
    <2>1. DefAt(p) \in ToSet(Defaulted)
      <3>1. ToSet(Defaulted) = {DefF[q] : q \in Left(e)}
        BY <1>3 DEF Lists
      <3> QED BY <3>1, <1>6
    <2>2. <<"standalone", DefAt(p).name>> \in DefaultComplaints
      BY <2>1 DEF DefaultComplaints
    <2> QED BY <2>2, <1>1 DEF Complain
  <1>10. (doctype.validating /\ doctype.standalone =>
            \A n \in DOMAIN tag.written :
                ChangedOutside(n) => <<"standalone", tag.written[n][1]>> \in tag.complaints)'
    <2>1. \A n : ChangedOutside(n)' <=> ChangedOutside(n)
      BY <1>1, <1>4, SameHeard DEF ChangedOutside
    <2> QED BY <2>1, <1>1 DEF TagInv
  <1>11. (tag.heard = [n \in DOMAIN tag.written |->
                       HeardAs(TagCounts, tag.written[n][1], tag.written[n][2])])'
    <2>1. \A n : HeardAs(TagCounts, tag.written[n][1], tag.written[n][2])'
                   = HeardAs(TagCounts, tag.written[n][1], tag.written[n][2])
      BY <1>1, <1>4, SameHeard
    <2> QED BY <2>1, <1>1 DEF TagInv
  <1>12. IsSequence(tag.written)'
    BY <1>1, <1>2 DEF IsSequence
  <1>13. (\A name : name \in seenAttributes <=> \E n \in DOMAIN tag.written : tag.written[n][1] = name)'
    BY <1>1, <1>2
  <1> QED BY <1>1, <1>2, <1>8, <1>9, <1>10, <1>11, <1>12, <1>13 DEF TagInv

\* So every step keeps what is known of the tag.
LEMMA TagKept ==
    ASSUME DtdInv, HeardInv, TagInv, [Next]_vars
    PROVE  TagInv'
  <1>1. CASE ElementDeclaration \/ DeclareAttribute \/ ScanAgain \/ EndOfAttlist \/ EndOfProlog
    <2>1. UNCHANGED <<doctype, tag, seenAttributes, inStartTag, elementStack>>
          /\ (prologEnded => prologEnded')
      <3>1. CASE ElementDeclaration
        BY <3>1 DEF ElementDeclaration, contentVars, tagVars, sessionVars
      <3>2. CASE DeclareAttribute \/ ScanAgain \/ EndOfAttlist
        BY <3>2 DEF DeclareAttribute, ScanAgain, EndOfAttlist, contentVars, tagVars, sessionVars
      <3>3. CASE EndOfProlog
        BY <3>3 DEF EndOfProlog, contentVars, tagVars, sessionVars
      <3> QED BY <1>1, <3>1, <3>2, <3>3
    <2> QED BY <2>1, TagLeftAlone
  <1>2. ASSUME NEW name \in doctype.tags, StartTag(name)
        PROVE  TagInv'
    BY <1>2, StartKeepsTag
  <1>3. ASSUME NEW a \in doctype.attributes, Attribute(a[1], a[2])
        PROVE  TagInv'
    BY <1>3, AttributeKeepsTag
  <1>4. CASE TagEnd \/ EmptyTagEnd
    BY <1>4, EndKeepsTag DEF TagEnd, EmptyTagEnd
  <1>5. CASE EndTag \/ Close \/ AnyContentStep
    <2>1. UNCHANGED <<doctype, tag, seenAttributes, inStartTag, prologEnded>> /\ ~inStartTag
      BY <1>5 DEF EndTag, Close, AnyContentStep, Content, InElement, InContent, dtdVars,
                  tagVars, sessionVars
    <2> QED BY <2>1, TagLeftAlone
  <1>6. CASE Reset
    <2>1. NoTagYet'
      BY <1>6 DEF Reset, NoTagYet
    <2>2. (NoTagYet => TagInv)'
      BY NothingOfATag, PTL
    <2> QED BY <2>1, <2>2
  <1>7. CASE UNCHANGED vars
    <2>1. UNCHANGED <<doctype, tag, seenAttributes, inStartTag, elementStack, prologEnded>>
      BY <1>7 DEF vars, dtdVars, contentVars, tagVars, sessionVars
    <2> QED BY <2>1, TagLeftAlone
  <1> QED BY <1>1, <1>2, <1>3, <1>4, <1>5, <1>6, <1>7, ContentSteps DEF Next

\* All that is known at every moment of the declarations and of the tag.
AttributesInv == DtdInv /\ HeardInv /\ TagInv

\* It is.
LEMMA AttributesFollowed == Spec => []AttributesInv
  <1>1. Init => AttributesInv
    <2> SUFFICES ASSUME Init
                 PROVE  AttributesInv
      OBVIOUS
    <2>1. HeardInv
      BY NothingHeard DEF Init, NothingRead
    <2>2. TagInv
      BY NothingOfATag DEF Init, NoTagYet
    <2> QED BY <2>1, <2>2, DtdAtFirst DEF AttributesInv
  <1>2. AttributesInv /\ [Next]_vars => AttributesInv'
    BY DtdKept, HeardKept, TagKept DEF AttributesInv
  <1> QED BY <1>1, <1>2, PTL DEF Spec

\* At the end of a start tag the application has all its attributes as the
\* declarations that count say, those left out by their defaults, in order.
THEOREM AttributesAreHeard == Spec => []AttributesHeard
  <1>1. AttributesInv => AttributesHeard
    <2> SUFFICES ASSUME AttributesInv, TagComplete
                 PROVE  /\ tag.heard = [n \in DOMAIN tag.written |->
                              HeardAs(TagCounts, tag.written[n][1], tag.written[n][2])]
                        /\ ListsInOrder(tag.defaulted, Omitted(TagCounts), HeardByDefault)
      BY DEF AttributesHeard, TagComplete, TagCounts
    <2>1. Lists(tag.defaulted, Omitted(TagCounts), DefaultF)
      BY DEF AttributesInv, TagInv
    <2>2. \A p \in Omitted(TagCounts) : DefaultF[p] = HeardByDefault(p)
      BY <2>1 DEF Lists, DefaultF
    <2>3. ToSet(tag.defaulted) = {DefaultF[p] : p \in Omitted(TagCounts)}
      BY <2>1 DEF Lists
    <2>4. {DefaultF[p] : p \in Omitted(TagCounts)} = {HeardByDefault(p) : p \in Omitted(TagCounts)}
      BY <2>2
    <2>5. \A p, q \in Omitted(TagCounts) : \A n \in DOMAIN tag.defaulted :
             tag.defaulted[n] = DefaultF[q] =>
                \A m \in 1 .. n - 1 : tag.defaulted[m] = DefaultF[p] => Earlier(p, q)
      BY <2>1 DEF Lists
    <2>6. ListsInOrder(tag.defaulted, Omitted(TagCounts), HeardByDefault)
      BY <2>2, <2>3, <2>4, <2>5 DEF ListsInOrder
    <2> QED BY <2>6 DEF AttributesInv, TagInv
  <1> QED BY <1>1, AttributesFollowed, PTL
-------------------------------------------------------------------------------
(* Declarations outside the document                                           *)

\* If no declaration outside comes before one inside, those that count inside are
\* those that count and are inside.
LEMMA InsideIs ==
    ASSUME doctype \in Doctypes, NEW e, InsideFirst(e)
    PROVE  /\ \A p : p \in Counting(e, "inside") <=>
                        p \in Counting(e, "anywhere") /\ ~DefAt(p).external
           /\ \A name :
                (\E p \in Counting(e, "inside") : DefAt(p).name = name)
                <=> \E p \in Counting(e, "anywhere") : DefAt(p).name = name /\ ~DefAt(p).external
  <1> DEFINE All == DeclaredAt(e, "anywhere")
             Inside == DeclaredAt(e, "inside")
  <1>1. \A p : p \in Inside <=> p \in All /\ ~DefAt(p).external
    <2> TAKE p
    <2>1. "anywhere" # "inside"
      OBVIOUS
    <2> QED BY <2>1, DeclaredAtIs
  <1>2. \A p \in All : p \in Place
    BY DeclaredAtIs
  <1>3. \A p, q \in All : DefAt(p).name = DefAt(q).name /\ ~DefAt(p).external /\ DefAt(q).external
            => Earlier(p, q)
    BY DEF InsideFirst
  <1>4. /\ Counting(e, "anywhere") \subseteq All
        /\ Counting(e, "inside") \subseteq Inside
        /\ \A p \in All : p \in Counting(e, "anywhere") <=>
              \A q \in All : Earlier(q, p) => DefAt(q).name # DefAt(p).name
        /\ \A p \in Inside : p \in Counting(e, "inside") <=>
              \A q \in Inside : Earlier(q, p) => DefAt(q).name # DefAt(p).name
    BY CountingIs
  <1> HIDE DEF All, Inside
  <1>5. ASSUME NEW p, p \in Counting(e, "inside")
        PROVE  p \in Counting(e, "anywhere") /\ ~DefAt(p).external
    <2>1. p \in All /\ ~DefAt(p).external
      BY <1>1, <1>4, <1>5
    <2>2. ASSUME NEW q \in All, Earlier(q, p), DefAt(q).name = DefAt(p).name
          PROVE  FALSE
      <3>1. CASE DefAt(q).external
        <4>1. Earlier(p, q)
          BY <1>3, <2>1, <2>2, <3>1
        <4> QED BY <4>1, <2>1, <2>2, <1>2, EarlierIs
      <3>2. CASE ~DefAt(q).external
        <4>1. q \in Inside /\ p \in Inside
          BY <1>1, <2>1, <2>2, <3>2
        <4> QED BY <4>1, <1>4, <1>5, <2>2
      <3> QED BY <3>1, <3>2
    <2> QED BY <2>1, <2>2, <1>4
  <1>6. ASSUME NEW p, p \in Counting(e, "anywhere"), ~DefAt(p).external
        PROVE  p \in Counting(e, "inside")
    <2>1. p \in All /\ p \in Inside /\ \A q \in Inside : q \in All
      BY <1>1, <1>4, <1>6
    <2> QED BY <2>1, <1>4, <1>6
  <1> QED BY <1>5, <1>6

\* What an attribute means, if one place that counts has its name or none has.
LEMMA MeaningOf ==
    ASSUME NEW counting, NEW name,
           \A p, q \in counting : DefAt(p).name = DefAt(q).name => p = q
    PROVE  /\ \A p \in counting : DefAt(p).name = name => Meaning(counting, name) = DefAt(p)
           /\ (\A p \in counting : DefAt(p).name # name) => Meaning(counting, name) = Undeclared(name)
  <1> DEFINE own == {p \in counting : DefAt(p).name = name}
  <1>1. Meaning(counting, name) = IF own = {} THEN Undeclared(name) ELSE DefAt(CHOOSE p \in own : TRUE)
    BY DEF Meaning
  <1>2. ASSUME NEW p \in counting, DefAt(p).name = name
        PROVE  Meaning(counting, name) = DefAt(p)
    <2>1. own = {p}
      BY <1>2
    <2> QED BY <2>1, <1>1
  <1>3. ASSUME \A p \in counting : DefAt(p).name # name
        PROVE  Meaning(counting, name) = Undeclared(name)
    BY <1>1, <1>3
  <1> QED BY <1>2, <1>3

\* Without the declarations outside an attribute would have another value only if
\* it is declared outside with a type that is not CDATA.
LEMMA SameValue ==
    ASSUME doctype \in Doctypes, NEW e, InsideFirst(e), NEW name, NEW raw,
           ~(/\ Meaning(Counting(e, "anywhere"), name).external
             /\ Meaning(Counting(e, "anywhere"), name).type # "CDATA")
    PROVE  Normalised(Meaning(Counting(e, "anywhere"), name), raw)
             = Normalised(Meaning(Counting(e, "inside"), name), raw)
  <1> DEFINE all == Counting(e, "anywhere")
             inside == Counting(e, "inside")
  <1>1. /\ \A p, q \in all : DefAt(p).name = DefAt(q).name => p = q
        /\ \A p, q \in inside : DefAt(p).name = DefAt(q).name => p = q
    BY OneCounts
  <1>2. \A p : p \in inside <=> p \in all /\ ~DefAt(p).external
    BY InsideIs
  <1> HIDE DEF all, inside
  <1>3. CASE \E p \in inside : DefAt(p).name = name
    <2>1. PICK p \in inside : DefAt(p).name = name
      BY <1>3
    <2>2. Meaning(inside, name) = DefAt(p) /\ Meaning(all, name) = DefAt(p)
      BY <2>1, <1>1, <1>2, MeaningOf
    <2> QED BY <2>2 DEF all, inside
  <1>4. CASE \A p \in inside : DefAt(p).name # name
    <2>1. Meaning(inside, name) = Undeclared(name)
      BY <1>1, <1>4, MeaningOf
    <2>2. Normalised(Meaning(inside, name), raw) = raw
      BY <2>1 DEF Normalised, Undeclared
    <2>3. CASE \A p \in all : DefAt(p).name # name
      <3>1. Meaning(all, name) = Undeclared(name)
        BY <1>1, <2>3, MeaningOf
      <3> QED BY <2>1, <3>1 DEF all, inside
    <2>4. CASE \E p \in all : DefAt(p).name = name
      <3>1. PICK p \in all : DefAt(p).name = name
        BY <2>4
      <3>2. Meaning(all, name) = DefAt(p) /\ DefAt(p).external
        BY <3>1, <1>1, <1>2, <1>4, MeaningOf
      <3>3. Meaning(all, name).type = "CDATA"
        BY <3>2 DEF all
      <3> QED BY <2>2, <3>3 DEF Normalised, all, inside
    <2> QED BY <2>3, <2>4
  <1> QED BY <1>3, <1>4

\* Two sequences, one after the other.
LEMMA JoinedHas ==
    ASSUME NEW s, IsSequence(s), NEW t, IsSequence(t)
    PROVE  ToSet(s \o t) = ToSet(s) \cup ToSet(t)
  <1> DEFINE S == ToSet(s) \cup ToSet(t)
             u == s \o t
  <1>1. s \in Seq(S) /\ t \in Seq(S)
    BY DEF IsSequence
  <1>2. /\ Len(s) \in Nat /\ Len(t) \in Nat
        /\ DOMAIN s = 1 .. Len(s) /\ DOMAIN t = 1 .. Len(t)
    BY <1>1
  <1>3. /\ DOMAIN u = 1 .. Len(s) + Len(t)
        /\ \A i \in 1 .. Len(s) + Len(t) : u[i] = IF i <= Len(s) THEN s[i] ELSE t[i - Len(s)]
    <2> HIDE DEF S
    <2> QED BY <1>1
  <1> HIDE DEF u
  <1>4. \A i \in 1 .. Len(s) : u[i] = s[i] /\ i \in DOMAIN u
    BY <1>2, <1>3
  <1>5. \A i \in 1 .. Len(t) : u[Len(s) + i] = t[i] /\ Len(s) + i \in DOMAIN u
    BY <1>2, <1>3
  <1>6. \A i \in DOMAIN u : \/ i \in 1 .. Len(s)
                            \/ i - Len(s) \in 1 .. Len(t) /\ i = Len(s) + (i - Len(s))
    BY <1>2, <1>3
  <1>7. \A x : x \in ToSet(u) <=> \E i \in DOMAIN u : x = u[i]
    BY DEF ToSet
  <1>8. \A x : x \in ToSet(s) \cup ToSet(t) <=>
           (\E i \in 1 .. Len(s) : x = s[i]) \/ (\E i \in 1 .. Len(t) : x = t[i])
    BY <1>2 DEF ToSet
  <1>9. \A x : x \in ToSet(u) <=> x \in ToSet(s) \cup ToSet(t)
    <2>1. \A i \in DOMAIN u : \/ \E j \in 1 .. Len(s) : u[i] = s[j]
                              \/ \E j \in 1 .. Len(t) : u[i] = t[j]
      BY <1>4, <1>5, <1>6
    <2>2. \A j \in 1 .. Len(s) : \E i \in DOMAIN u : s[j] = u[i]
      BY <1>4
    <2>3. \A j \in 1 .. Len(t) : \E i \in DOMAIN u : t[j] = u[i]
      BY <1>5
    <2> QED BY <2>1, <2>2, <2>3, <1>7, <1>8
  <1>10. ToSet(u) = ToSet(s) \cup ToSet(t)
    BY <1>9
  <1> QED BY <1>10 DEF u

\* Of a document that is standalone and valid in this, the application hears what
\* it would hear without the declarations outside: whatever they change, where no
\* parameter entity declares an attribute before the document does, is complained
\* of.
THEOREM StandaloneIsKept == Spec => []StandaloneKept
  <1> DEFINE e == tag.element
             Pair(h) == <<h.name, h.value>>
  <1>1. AttributesInv => StandaloneKept
    <2> SUFFICES ASSUME AttributesInv, doctype.validating, doctype.standalone, TagComplete,
                        InsideFirst(e), \A c \in tag.complaints : c[1] # "standalone"
                 PROVE  {<<h.name, h.value>> : h \in ToSet(tag.heard \o tag.defaulted)} = ValuesInside
      BY DEF StandaloneKept, TagComplete
    <2> DEFINE value(w) == <<w[1], Normalised(Meaning(TagCounts, w[1]), w[2])>>
               inside == Counting(e, "inside")
               left(p) == <<DefAt(p).name, DefAt(p).default>>
    <2>1. /\ doctype \in Doctypes
          /\ IsSequence(tag.written) /\ DOMAIN tag.written = 1 .. Len(tag.written)
          /\ Len(tag.written) \in Nat
          /\ tag.heard = [n \in DOMAIN tag.written |->
                            HeardAs(TagCounts, tag.written[n][1], tag.written[n][2])]
          /\ Lists(tag.defaulted, Omitted(TagCounts), DefaultF)
      <3>1. /\ doctype \in Doctypes
            /\ IsSequence(tag.written)
            /\ tag.heard = [n \in DOMAIN tag.written |->
                              HeardAs(TagCounts, tag.written[n][1], tag.written[n][2])]
            /\ Lists(tag.defaulted, Omitted(TagCounts), DefaultF)
        BY DEF AttributesInv, DtdInv, TagInv
      <3> QED BY <3>1 DEF IsSequence
    <2>2. /\ \A n \in DOMAIN tag.written : ~ChangedOutside(n)
          /\ \A p \in Omitted(TagCounts) : ~DefAt(p).external
      <3>1. \A a, b : <<a, b>>[1] = a
        OBVIOUS
      <3> QED BY <3>1 DEF AttributesInv, TagInv
    <2>3. Omitted(TagCounts) = Omitted(inside)
      <3>1. \A p : p \in inside <=> p \in TagCounts /\ ~DefAt(p).external
        BY <2>1, InsideIs DEF TagCounts
      <3>2. \A counting, p : p \in Omitted(counting) <=>
               /\ p \in counting /\ DefAt(p).default # NoDefault
               /\ \A n \in DOMAIN tag.written : tag.written[n][1] # DefAt(p).name
        BY DEF Omitted
      <3> HIDE DEF inside
      <3>3. \A p : p \in Omitted(TagCounts) <=> p \in Omitted(inside)
        BY <3>1, <3>2, <2>2
      <3>4. Omitted(TagCounts) \subseteq TagCounts /\ Omitted(inside) \subseteq inside
        BY DEF Omitted
      <3> QED BY <3>3, <3>4
    <2>4. \A n \in 1 .. Len(tag.written) :
             value(tag.written[n]) = <<tag.written[n][1], Normalised(Meaning(inside, tag.written[n][1]), tag.written[n][2])>>
      <3> TAKE n \in 1 .. Len(tag.written)
      <3>1. ~ChangedOutside(n)
        BY <2>1, <2>2
      <3> QED BY <3>1, <2>1, SameValue DEF ChangedOutside, TagCounts
    <2>5. \A n \in 1 .. Len(tag.written) : Pair(tag.heard[n]) = value(tag.written[n])
      <3> TAKE n \in 1 .. Len(tag.written)
      <3>1. tag.heard[n] = HeardAs(TagCounts, tag.written[n][1], tag.written[n][2])
        BY <2>1
      <3>2. \A c, name, raw : /\ HeardAs(c, name, raw).name = Meaning(c, name).name
                              /\ HeardAs(c, name, raw).value = Normalised(Meaning(c, name), raw)
        BY DEF HeardAs, Heard
      <3> QED BY <3>1, <3>2, MeaningNamed
    <2>6. \A p \in Omitted(TagCounts) : Pair(DefaultF[p]) = left(p)
      <3>1. \A p \in Omitted(TagCounts) : DefaultF[p] = HeardByDefault(p)
        BY <2>1 DEF Lists, DefaultF
      <3>2. \A p : HeardByDefault(p).name = DefAt(p).name /\ HeardByDefault(p).value = DefAt(p).default
        BY DEF HeardByDefault, Heard
      <3> QED BY <3>1, <3>2
    <2>7. ToSet(tag.heard \o tag.defaulted) = ToSet(tag.heard) \cup ToSet(tag.defaulted)
      <3>1. IsSequence(tag.heard)
        <4>1. tag.heard = [n \in 1 .. Len(tag.written) |-> tag.heard[n]]
          BY <2>1
        <4> QED BY <4>1, <2>1, FunctionIsSequence
      <3> QED BY <3>1, <2>1, JoinedHas DEF Lists
    <2>8. ToSet(tag.heard) = {tag.heard[n] : n \in 1 .. Len(tag.written)}
      <3>1. DOMAIN tag.heard = 1 .. Len(tag.written)
        BY <2>1
      <3> QED BY <3>1 DEF ToSet
    <2>9. ToSet(tag.defaulted) = {DefaultF[p] : p \in Omitted(TagCounts)}
      BY <2>1 DEF Lists
    <2>10. ToSet(tag.written) = {tag.written[n] : n \in 1 .. Len(tag.written)}
      BY <2>1 DEF ToSet
    <2>11. ValuesInside =
              {<<w[1], Normalised(Meaning(inside, w[1]), w[2])>> : w \in ToSet(tag.written)}
                \cup {left(p) : p \in Omitted(inside)}
      BY DEF ValuesInside
    <2>12. \A x : x \in {Pair(h) : h \in ToSet(tag.heard \o tag.defaulted)} <=>
              \/ \E n \in 1 .. Len(tag.written) : x = Pair(tag.heard[n])
              \/ \E p \in Omitted(TagCounts) : x = Pair(DefaultF[p])
      BY <2>7, <2>8, <2>9
    <2>13. \A x : x \in ValuesInside <=>
              \/ \E n \in 1 .. Len(tag.written) :
                    x = <<tag.written[n][1], Normalised(Meaning(inside, tag.written[n][1]), tag.written[n][2])>>
              \/ \E p \in Omitted(inside) : x = left(p)
      BY <2>10, <2>11
    <2> HIDE DEF value, inside, left, Pair
    <2>14. \A x : x \in {Pair(h) : h \in ToSet(tag.heard \o tag.defaulted)} <=> x \in ValuesInside
      <3> TAKE x
      <3>1. (\E n \in 1 .. Len(tag.written) : x = Pair(tag.heard[n])) <=>
               \E n \in 1 .. Len(tag.written) :
                  x = <<tag.written[n][1], Normalised(Meaning(inside, tag.written[n][1]), tag.written[n][2])>>
        BY <2>4, <2>5
      <3>2. (\E p \in Omitted(TagCounts) : x = Pair(DefaultF[p])) <=>
               \E p \in Omitted(inside) : x = left(p)
        BY <2>3, <2>6
      <3> QED BY <3>1, <3>2, <2>12, <2>13
    <2>15. {Pair(h) : h \in ToSet(tag.heard \o tag.defaulted)} = ValuesInside
      BY <2>14, <2>11
    <2> QED BY <2>15 DEF Pair
  <1> QED BY <1>1, AttributesFollowed, PTL
===============================================================================
