----------------------- MODULE NamespaceFilter_proofs ------------------------
(***************************************************************************)
(* Theorems about the namespace filter, for every set of names, prefixes   *)
(* and values, every depth, and every number of resets.                    *)
(*                                                                         *)
(* The argument.  For the scopes, a handler method is one of five kinds of *)
(* step: it leaves them alone, opens one, declares a prefix in the         *)
(* innermost one, closes it, or the parser is reset.  The first four do to *)
(* the tracker what they do to the scanner's elements and to the           *)
(* application's scopes, so a difference can only come from a reset.       *)
(*                                                                         *)
(* For the verdict, what a document means is read off the list of open     *)
(* elements by level: an operation touches the innermost level only, so    *)
(* the environments of the others, and the verdicts on them, stay.         *)
(***************************************************************************)
EXTENDS NamespaceFilter, NamespaceScopeTracker_proofs, WellFoundedInduction

-----------------------------------------------------------------------------
(* The inductive invariant                                                 *)

TagIsOpen == tag # "none" => open # <<>>

\* What the filter has collected is what the scanner has passed on.
ValueFollowed ==
    tag = "value" =>
        /\ attr.name \in AttributeNames
        /\ current_is_namespace_decl <=> IsNamespaceDecl(attr.name)
        /\ current_is_namespace_decl =>
            /\ current_attr_name = attr.name
            /\ value_first_chunk => attr.value = <<>>
            /\ ~value_first_chunk => value_builder = attr.value

\* Until a failure the application has a scope for every open element.
AppFollows == ~failed => Len(app.scopes) = Len(open) + 1

FInv ==
    /\ ScannerType /\ FilterType /\ app \in App
    /\ TrackerInv
    /\ RootScopeKept
    /\ TagIsOpen
    /\ ValueFollowed
    /\ AppFollows
-----------------------------------------------------------------------------
(* The kinds of steps                                                      *)

\* What a namespace event does to the application's scopes.
Redeclared(list, prefix, uri) == [list EXCEPT ![Len(list)][prefix] = uri]

Quiet ==
    /\ UNCHANGED tracker
    /\ app'.scopes = app.scopes
    /\ Len(open') = Len(open)
    /\ failed => failed'

Opens ==
    /\ PushContext
    /\ Len(open') = Len(open) + 1
    /\ ~failed
    /\ ~failed' => app'.scopes = Append(app.scopes, app.scopes[Len(app.scopes)])

DeclaresIn(prefix, uri) ==
    /\ DeclarePrefix(prefix, uri)
    /\ open # <<>> /\ Len(open') = Len(open)
    /\ ~failed
    /\ app'.scopes = Redeclared(app.scopes, prefix, uri)

Closes ==
    /\ PopContext
    /\ open # <<>> /\ Len(open') = Len(open) - 1
    /\ ~failed
    /\ app'.scopes = SubSeq(app.scopes, 1, Len(app.scopes) - 1)

Abandons ==
    /\ UNCHANGED tracker
    /\ open' = <<>> /\ resets' # resets
    /\ app' = FreshApp

StepKind ==
    \/ Quiet \/ Opens \/ Closes \/ Abandons
    \/ \E prefix \in Prefix, uri \in Uri : DeclaresIn(prefix, uri)
-----------------------------------------------------------------------------
(* Values of declarations                                                  *)

\* A prefix that a declaration names is a prefix.
LEMMA DeclaredPrefix ==
    ASSUME NEW name \in AttributeNames, IsNamespaceDecl(name)
    PROVE  (IF name.prefix = "" THEN "" ELSE name.local) \in Prefix
<1>1. CASE name.prefix = ""
    BY <1>1, PrefixAssumption
<1>2. CASE name.prefix # ""
  <2>1. Name("", "xmlns").prefix = ""
    BY DEF Name
  <2>2. name.prefix = "xmlns"
    BY <1>2, <2>1 DEF IsNamespaceDecl
  <2>3. QED
    BY <1>2, <2>2, NamesAssumption
<1>3. QED
    BY <1>1, <1>2

\* The pieces of a value make up the value.
LEMMA PiecesMakeValue ==
    ASSUME NEW value \in Seq(STRING), NEW seen \in Seq(STRING),
           NEW to \in 0 .. Len(value), Len(seen) <= to,
           SubSeq(value, 1, Len(seen)) = seen
    PROVE  /\ SubSeq(value, Len(seen) + 1, to) \in Seq(STRING)
           /\ seen \o SubSeq(value, Len(seen) + 1, to) \in Seq(STRING)
           /\ to = Len(value) => seen \o SubSeq(value, Len(seen) + 1, to) = value
<1> DEFINE n == Len(seen)
<1>1. Len(value) \in Nat /\ n \in Nat /\ n \in 1 - 1 .. Len(value) /\ to \in n .. Len(value)
    BY LenProperties
<1>2. 1 \in 1 .. Len(value) + 1
    BY <1>1
<1>3. SubSeq(value, 1, n) \o SubSeq(value, n + 1, to) = SubSeq(value, 1, to)
    BY <1>1, <1>2, ConcatAdjacentSubSeq
<1>4. to = Len(value) => SubSeq(value, 1, to) = value
    BY SubSeqFull
<1>5. SubSeq(value, n + 1, to) \in Seq(STRING)
  <2>1. \A i \in n + 1 .. to : value[i] \in STRING
    BY <1>1, ElementOfSeq
  <2>2. n + 1 \in Int /\ to \in Int
    BY <1>1
  <2>3. QED
    BY <2>1, <2>2, SubSeqProperties
<1>6. seen \o SubSeq(value, n + 1, to) \in Seq(STRING)
    BY <1>5, ConcatProperties
<1>7. QED
    BY <1>3, <1>4, <1>5, <1>6

\* What attribute_value_content does, and that a declaration is judged by the
\* whole value.
LEMMA ValueIs ==
    ASSUME FInv, AttributeValueContent
    PROVE  \E value \in Uri, text \in Seq(STRING), end \in BOOLEAN :
             /\ end => text = value
             /\ attr' = IF end THEN NoAttr ELSE [attr EXCEPT !.value = text]
             /\ tag' = IF end THEN "tag" ELSE "value"
             /\ open' = IF end THEN [open EXCEPT ![Len(open)].attrs =
                                        @ \cup {<<attr.name, text>>}]
                        ELSE open
             /\ \/ /\ current_is_namespace_decl /\ ~end
                   /\ value_builder' = text /\ value_first_chunk' = FALSE
                   /\ UNCHANGED <<tracker, app, failed>>
                \/ /\ current_is_namespace_decl /\ end
                   /\ value_builder' \in Seq(STRING) /\ value_first_chunk' \in BOOLEAN
                   /\ DeclareNamespace(attr.name, value)
                \/ /\ ~current_is_namespace_decl
                   /\ UNCHANGED <<value_builder, value_first_chunk, tracker, app, failed>>
<1> DEFINE Possible == IF IsNamespaceDecl(attr.name) THEN Values ELSE {<<>>}
<1>1. PICK value \in Possible :
      \E to \in 0 .. Len(value), end \in BOOLEAN :
        LET from  == Len(attr.value)
            piece == SubSeq(value, from + 1, to)
        IN  /\ from <= to /\ SubSeq(value, 1, from) = attr.value
            /\ end => to = Len(value)
            /\ ValueOfDeclaration(piece, end) \/ ValueOfPlainAttribute
            /\ attr' = IF end THEN NoAttr ELSE [attr EXCEPT !.value = @ \o piece]
            /\ tag' = IF end THEN "tag" ELSE "value"
            /\ open' = IF end THEN [open EXCEPT ![Len(open)].attrs =
                                        @ \cup {<<attr.name, attr.value \o piece>>}]
                       ELSE open
    BY DEF AttributeValueContent
<1>2. PICK to \in 0 .. Len(value), end \in BOOLEAN :
        LET from  == Len(attr.value)
            piece == SubSeq(value, from + 1, to)
        IN  /\ from <= to /\ SubSeq(value, 1, from) = attr.value
            /\ end => to = Len(value)
            /\ ValueOfDeclaration(piece, end) \/ ValueOfPlainAttribute
            /\ attr' = IF end THEN NoAttr ELSE [attr EXCEPT !.value = @ \o piece]
            /\ tag' = IF end THEN "tag" ELSE "value"
            /\ open' = IF end THEN [open EXCEPT ![Len(open)].attrs =
                                        @ \cup {<<attr.name, attr.value \o piece>>}]
                       ELSE open
    BY <1>1
<1> DEFINE piece == SubSeq(value, Len(attr.value) + 1, to)
           text  == attr.value \o piece
<1>3. value \in Uri /\ value \in Seq(STRING)
    BY ValuesAssumption, UriAssumption DEF Unbound
<1>4. tag = "value" /\ attr.value \in Seq(STRING)
    BY DEF FInv, ScannerType, AttributeValueContent
<1>5. piece \in Seq(STRING) /\ text \in Seq(STRING) /\ (end => text = value)
    BY <1>2, <1>3, <1>4, PiecesMakeValue
<1>6. current_is_namespace_decl =>
        Collected(piece) = text /\ current_attr_name = attr.name
  <2>1. ASSUME value_first_chunk, attr.value = <<>> PROVE text = piece
    BY <1>5, <2>1, ConcatEmptySeq
  <2>2. QED
    BY <1>4, <2>1 DEF Collected, FInv, ValueFollowed
<1>7. attr' = IF end THEN NoAttr ELSE [attr EXCEPT !.value = text]
  <2>1. attr' = IF end THEN NoAttr ELSE [attr EXCEPT !.value = @ \o piece]
    BY <1>2
  <2>2. QED
    BY <2>1
<1>8. /\ tag' = IF end THEN "tag" ELSE "value"
      /\ open' = IF end THEN [open EXCEPT ![Len(open)].attrs =
                                        @ \cup {<<attr.name, text>>}]
                 ELSE open
    BY <1>2
<1>9. ValueOfDeclaration(piece, end) \/ ValueOfPlainAttribute
    BY <1>2
<1> HIDE DEF piece, text
<1>10. CASE ValueOfDeclaration(piece, end) /\ ~end
  <2>1. /\ current_is_namespace_decl
        /\ value_builder' = text /\ value_first_chunk' = FALSE
        /\ UNCHANGED <<tracker, app, failed>>
    BY <1>6, <1>10 DEF ValueOfDeclaration
  <2>2. QED
    BY <1>3, <1>5, <1>7, <1>8, <1>10, <2>1
<1>11. CASE ValueOfDeclaration(piece, end) /\ end
  <2>1. current_is_namespace_decl /\ DeclareNamespace(attr.name, value)
    BY <1>5, <1>6, <1>11 DEF ValueOfDeclaration
  <2>2. value_builder' \in Seq(STRING) /\ value_first_chunk' \in BOOLEAN
    BY <1>5, <1>6, <1>11, <2>1 DEF ValueOfDeclaration, FInv, FilterType
  <2>3. QED
    BY <1>3, <1>5, <1>7, <1>8, <1>11, <2>1, <2>2
<1>12. CASE ValueOfPlainAttribute
    BY <1>3, <1>5, <1>7, <1>8, <1>12 DEF ValueOfPlainAttribute
<1>13. QED
    BY <1>9, <1>10, <1>11, <1>12
-----------------------------------------------------------------------------
(* What the application records                                            *)

\* The application's scopes change as the filter's do.
LEMMA AppRecords ==
    ASSUME NEW a \in App
    PROVE  /\ \A name : /\ Starts(a, name).scopes = Append(a.scopes, a.scopes[Len(a.scopes)])
                       /\ Starts(a, name).tag = "open"
                       /\ Starts(a, name).element = name
                       /\ Starts(a, name).attributes = {}
           /\ \A prefix, uri :
                /\ Hears(a, prefix, uri).scopes = Redeclared(a.scopes, prefix, uri)
                /\ Hears(a, prefix, uri).tag = a.tag
                /\ Hears(a, prefix, uri).element = a.element
                /\ Hears(a, prefix, uri).attributes = a.attributes
           /\ \A name : /\ Attribute(a, name).scopes = a.scopes
                       /\ Attribute(a, name).tag = a.tag
                       /\ Attribute(a, name).element = a.element
                       /\ Attribute(a, name).attributes = a.attributes \cup {name}
           /\ EndsTag(a).scopes = a.scopes /\ EndsTag(a).tag = "ended"
           /\ EndsTag(a).element = a.element /\ EndsTag(a).attributes = a.attributes
           /\ EndsElement(a).scopes = SubSeq(a.scopes, 1, Len(a.scopes) - 1)
           /\ EndsElement(a).tag = "none"
BY DEF App, Starts, Hears, Redeclared, Attribute, EndsTag, EndsElement

\* What it records keeps its types.
LEMMA AppTypes ==
    ASSUME NEW a \in App, Len(a.scopes) > 0
    PROVE  /\ \A name \in ElementNames : Starts(a, name) \in App
           /\ \A prefix \in Prefix, uri \in Uri :
                Hears(a, prefix, uri) \in App /\ Len(Hears(a, prefix, uri).scopes) = Len(a.scopes)
           /\ \A name \in AttributeNames : Attribute(a, name) \in App
           /\ EndsTag(a) \in App
           /\ EndsElement(a) \in App
<1>1. a.scopes \in Seq([Prefix -> Uri]) /\ Len(a.scopes) \in 1 .. Len(a.scopes)
  <2>1. a.scopes \in Seq([Prefix -> Uri])
    BY DEF App
  <2>2. QED
    BY <2>1, LenProperties
<1>2. a.scopes[Len(a.scopes)] \in [Prefix -> Uri]
    BY <1>1, ElementOfSeq
<1>3. ASSUME NEW name \in ElementNames PROVE Starts(a, name) \in App
  <2>1. Append(a.scopes, a.scopes[Len(a.scopes)]) \in Seq([Prefix -> Uri])
    BY <1>1, <1>2, AppendProperties
  <2>2. QED
    BY <2>1 DEF App, Starts
<1>4. ASSUME NEW prefix \in Prefix, NEW uri \in Uri
      PROVE  Hears(a, prefix, uri) \in App /\ Len(Hears(a, prefix, uri).scopes) = Len(a.scopes)
  <2> DEFINE top == [a.scopes[Len(a.scopes)] EXCEPT ![prefix] = uri]
  <2>1. top \in [Prefix -> Uri]
    BY <1>2
  <2>2. /\ [a.scopes EXCEPT ![Len(a.scopes)] = top] \in Seq([Prefix -> Uri])
        /\ Len([a.scopes EXCEPT ![Len(a.scopes)] = top]) = Len(a.scopes)
    BY <1>1, <2>1, ExceptSeq
  <2>3. Redeclared(a.scopes, prefix, uri) = [a.scopes EXCEPT ![Len(a.scopes)] = top]
    BY DEF Redeclared
  <2>4. Hears(a, prefix, uri).scopes = Redeclared(a.scopes, prefix, uri)
    BY AppRecords
  <2> HIDE DEF top
  <2>5. Hears(a, prefix, uri) \in App
    <3>1. Hears(a, prefix, uri) =
            [a EXCEPT !.scopes = Redeclared(a.scopes, prefix, uri)]
        BY DEF App, Hears, Redeclared
    <3>2. QED
        BY <2>2, <2>3, <3>1 DEF App
  <2>6. QED
    BY <2>2, <2>3, <2>4, <2>5
<1>5. ASSUME NEW name \in AttributeNames PROVE Attribute(a, name) \in App
    BY DEF App, Attribute
<1>6. EndsTag(a) \in App
    BY DEF App, EndsTag
<1>7. EndsElement(a) \in App
  <2>1. SubSeq(a.scopes, 1, Len(a.scopes) - 1) \in Seq([Prefix -> Uri])
    BY <1>1, SubSeqProperties
  <2>2. QED
    BY <2>1 DEF App, EndsElement
<1>8. QED
    BY <1>3, <1>4, <1>5, <1>6, <1>7

\* An application that has just been started.
LEMMA FreshAppType ==
    FreshApp \in App /\ FreshApp.scopes = <<Predeclared>> /\ FreshApp.tag = "none"
<1>1. Predeclared \in [Prefix -> Uri]
    BY UriAssumption DEF Predeclared
<1>2. <<Predeclared>> \in Seq([Prefix -> Uri])
    BY <1>1
<1> HIDE DEF Predeclared
<1>3. QED
    BY <1>2 DEF FreshApp, App
-----------------------------------------------------------------------------
(* The scopes in each step                                                 *)

\* A stack without its top.
LEMMA ButLast ==
    ASSUME NEW S, NEW s \in Seq(S), s # <<>>
    PROVE  /\ SubSeq(s, 1, Len(s) - 1) \in Seq(S)
           /\ Len(SubSeq(s, 1, Len(s) - 1)) = Len(s) - 1
<1> DEFINE n == Len(s) - 1
<1>1. Len(s) \in Nat /\ Len(s) > 0
    OBVIOUS
<1>2. \A i \in 1 .. n : s[i] \in S
    BY <1>1, ElementOfSeq
<1>3. n \in Nat
    BY <1>1
<1> HIDE DEF n
<1>4. SubSeq(s, 1, n) \in Seq(S) /\ Len(SubSeq(s, 1, n)) = IF 1 <= n THEN n - 1 + 1 ELSE 0
    BY <1>2, <1>3, SubSeqProperties
<1>5. SubSeq(s, 1, n) \in Seq(S) /\ Len(SubSeq(s, 1, n)) = n
    BY <1>3, <1>4
<1>6. QED
    BY <1>5, Zenon DEF n

\* What the invariant says of a parse that goes on.
LEMMA GoingOn ==
    ASSUME FInv
    PROVE  /\ open \in Seq(OpenElement) /\ Len(open) \in Nat
           /\ open # <<>> => Len(open) > 0
           /\ app \in App
           /\ ~failed => Len(app.scopes) = Len(open) + 1 /\ Len(app.scopes) > 0
           /\ scope_depth \in Nat /\ scope_depth >= Len(open)
<1>1. open \in Seq(OpenElement) /\ Len(open) \in Nat
    BY LenProperties DEF FInv, ScannerType
<1>2. open # <<>> => Len(open) > 0
    BY <1>1
<1>3. scope_depth \in Nat
    BY DEF FInv, TrackerInv, Sound
<1>4. QED
    BY <1>1, <1>2, <1>3 DEF FInv, RootScopeKept, AppFollows

\* A value opens and closes no element.
LEMMA SameElements ==
    ASSUME FInv, AttributeValueContent
    PROVE  Len(open') = Len(open)
<1>1. PICK text \in Seq(STRING), end \in BOOLEAN :
            open' = IF end THEN [open EXCEPT ![Len(open)].attrs = @ \cup {<<attr.name, text>>}]
                    ELSE open
    BY ValueIs
<1>2. CASE ~end
    BY <1>1, <1>2
<1>3. CASE end
    BY <1>1, <1>3, GoingOn
<1>4. QED
    BY <1>2, <1>3

\* A declaration is refused, or made on both sides.
LEMMA DeclareIs ==
    ASSUME FInv, ~failed, open # <<>>, Len(open') = Len(open),
           NEW name \in AttributeNames, IsNamespaceDecl(name), NEW uri \in Uri,
           DeclareNamespace(name, uri)
    PROVE  /\ Quiet \/ \E p \in Prefix, u \in Uri : DeclaresIn(p, u)
           /\ app' \in App /\ failed' \in BOOLEAN
           /\ app'.tag = app.tag /\ app'.element = app.element
           /\ app'.attributes \subseteq app.attributes \cup {name}
<1> DEFINE prefix == IF name.prefix = "" THEN "" ELSE name.local
           told   == Hears(app, prefix, uri)
<1>1. app \in App /\ Len(app.scopes) > 0
    BY GoingOn
<1>2. CASE Reserved(name, uri)
  <2>1. UNCHANGED <<tracker, app>> /\ failed' \in {TRUE, ~Lenient}
    BY <1>2 DEF DeclareNamespace, Refuse
  <2>2. QED
    BY <1>1, <2>1, SettingsAssumption DEF Quiet
<1>3. CASE ~Reserved(name, uri)
  <2>1. prefix \in Prefix
    BY DeclaredPrefix
  <2>2. /\ DeclarePrefix(prefix, uri) /\ failed' = failed
        /\ app' = IF NamespacePrefixes THEN Attribute(told, name) ELSE told
    BY <1>3 DEF DeclareNamespace
  <2> HIDE DEF prefix
  <2>3. told \in App /\ Len(told.scopes) > 0
    BY <1>1, <2>1, AppTypes
  <2>4. /\ told.scopes = Redeclared(app.scopes, prefix, uri)
        /\ told.tag = app.tag /\ told.element = app.element
        /\ told.attributes = app.attributes
    BY <1>1, AppRecords
  <2> HIDE DEF told
  <2>5. /\ app' \in App /\ app'.scopes = told.scopes
        /\ app'.tag = told.tag /\ app'.element = told.element
        /\ app'.attributes \subseteq told.attributes \cup {name}
    <3>1. CASE app' = told
        BY <2>3, <3>1
    <3>2. CASE app' = Attribute(told, name)
        BY <2>3, <3>2, AppTypes, AppRecords
    <3>3. QED
        BY <2>2, <3>1, <3>2
  <2>6. DeclaresIn(prefix, uri)
    BY <2>2, <2>4, <2>5 DEF DeclaresIn
  <2>7. failed' \in BOOLEAN
    BY <2>2 DEF FInv, ScannerType
  <2>8. QED
    BY <2>1, <2>4, <2>5, <2>6, <2>7
<1>4. QED
    BY <1>2, <1>3

\* Each handler method is one of the five kinds of step.
LEMMA Kinds ==
    ASSUME FInv, Next
    PROVE  StepKind
<1>1. CASE StartDocument
    BY <1>1 DEF StartDocument, StepKind, Quiet
<1>2. CASE StartElement
  <2>1. PICK q_name \in ElementNames :
            /\ open' = Append(open, Element(q_name))
            /\ app' = IF failed' THEN app ELSE Starts(app, q_name)
    BY <1>2 DEF StartElement
  <2>2. Len(open') = Len(open) + 1
    BY <2>1, GoingOn
  <2>3. ~failed' => app'.scopes = Append(app.scopes, app.scopes[Len(app.scopes)])
    BY <2>1, GoingOn, AppRecords
  <2>4. QED
    BY <1>2, <2>2, <2>3 DEF StartElement, StepKind, Opens
<1>3. CASE StartAttribute
  <2>1. UNCHANGED <<open, tracker>> /\ ~failed
    BY <1>3 DEF StartAttribute
  <2>2. app'.scopes = app.scopes
    <3>1. PICK name \in AttributeNames : StartDeclaration(name) \/ StartPlainAttribute(name)
        BY <1>3 DEF StartAttribute
    <3>2. app' = app \/ app' = Attribute(app, name)
        BY <3>1 DEF StartDeclaration, StartPlainAttribute
    <3>3. QED
        BY <3>2, GoingOn, AppRecords
  <2>3. QED
    BY <2>1, <2>2 DEF StepKind, Quiet
<1>4. CASE AttributeValueContent
  <2>1. ~failed /\ open # <<>> /\ attr.name \in AttributeNames
        /\ (current_is_namespace_decl <=> IsNamespaceDecl(attr.name))
    BY <1>4 DEF AttributeValueContent, FInv, TagIsOpen, ValueFollowed
  <2>2. PICK value \in Uri :
             \/ UNCHANGED <<tracker, app, failed>>
             \/ /\ current_is_namespace_decl
                /\ DeclareNamespace(attr.name, value)
    BY <1>4, ValueIs
  <2>3. Len(open') = Len(open)
    BY <1>4, SameElements
  <2>4. QED
    BY <2>1, <2>2, <2>3, DeclareIs DEF StepKind, Quiet
<1>5. CASE EndAttributes
    BY <1>5, GoingOn, AppRecords DEF EndAttributes, StepKind, Quiet
<1>6. CASE EndElement
  <2>1. Len(open') = Len(open) - 1 /\ open # <<>>
    BY <1>6, GoingOn, ButLast DEF EndElement
  <2>2. app'.scopes = SubSeq(app.scopes, 1, Len(app.scopes) - 1)
    BY <1>6, GoingOn, AppRecords DEF EndElement
  <2>3. QED
    BY <1>6, <2>1, <2>2 DEF EndElement, StepKind, Closes
<1>7. CASE Reset
  <2>1. resets' # resets
    BY <1>7 DEF Reset, FInv, ScannerType
  <2>2. QED
    BY <1>7, <2>1 DEF Reset, StepKind, Abandons
<1>8. QED
    BY <1>1, <1>2, <1>3, <1>4, <1>5, <1>6, <1>7 DEF Next

\* The root scope is not left, the tracker does what its caller may ask of it,
\* and its depth follows the scanner's elements.
LEMMA ScopesKept ==
    ASSUME FInv, StepKind
    PROVE  /\ [TrackerNext]_tracker /\ TrackerInv'
           /\ RootScopeKept' /\ AppFollows'
           /\ ~Abandons => scope_depth' - Len(open') = scope_depth - Len(open)
<1>1. /\ Len(open) \in Nat /\ scope_depth \in Nat /\ scope_depth >= Len(open)
      /\ open # <<>> => Len(open) > 0
      /\ ~failed => Len(app.scopes) = Len(open) + 1
      /\ app.scopes \in Seq([Prefix -> Uri])
      /\ RootScopeKept /\ AppFollows /\ TrackerInv
    BY GoingOn DEF FInv, App
<1>2. SUFFICES /\ [TrackerNext]_tracker
               /\ RootScopeKept' /\ AppFollows'
               /\ ~Abandons => scope_depth' - Len(open') = scope_depth - Len(open)
    BY <1>1, TrackerStep
<1>3. CASE Quiet
    BY <1>1, <1>3 DEF Quiet, tracker, RootScopeKept, AppFollows
<1>4. CASE Opens
  <2>1. AppFollows'
    <3>1. ASSUME ~failed' PROVE Len(app'.scopes) = Len(app.scopes) + 1
        BY <1>1, <1>4, <3>1 DEF Opens
    <3>2. QED
        BY <1>1, <1>4, <3>1 DEF Opens, AppFollows
  <2>2. QED
    BY <1>1, <1>4, <2>1 DEF Opens, PushContext, TrackerNext, RootScopeKept
<1>5. ASSUME NEW p \in Prefix, NEW u \in Uri, DeclaresIn(p, u)
      PROVE  /\ [TrackerNext]_tracker
             /\ RootScopeKept' /\ AppFollows'
             /\ ~Abandons => scope_depth' - Len(open') = scope_depth - Len(open)
  <2>1. Len(app'.scopes) = Len(app.scopes)
    <3>1. /\ Len(app.scopes) \in 1 .. Len(app.scopes)
          /\ app.scopes[Len(app.scopes)] \in [Prefix -> Uri]
        BY <1>1, <1>5, ElementOfSeq DEF DeclaresIn
    <3>2. Len(Redeclared(app.scopes, p, u)) = Len(app.scopes)
        BY <1>1, <3>1, ExceptSeq DEF Redeclared
    <3>3. QED
        BY <1>5, <3>2 DEF DeclaresIn
  <2>2. QED
    BY <1>1, <1>5, <2>1
       DEF DeclaresIn, DeclarePrefix, TrackerNext, RootScopeKept, AppFollows
<1>6. CASE Closes
  <2>1. Len(app'.scopes) = Len(app.scopes) - 1
    BY <1>1, <1>6, ButLast DEF Closes
  <2>2. QED
    BY <1>1, <1>6, <2>1 DEF Closes, PopContext, TrackerNext, RootScopeKept, AppFollows
<1>7. CASE Abandons
  <2>1. Len(app'.scopes) = 1 /\ Len(open') = 0
    BY <1>7, FreshAppType DEF Abandons
  <2>2. QED
    BY <1>1, <1>7, <2>1 DEF Abandons, tracker, RootScopeKept, AppFollows
<1>8. QED
    BY <1>3, <1>4, <1>5, <1>6, <1>7 DEF StepKind
-----------------------------------------------------------------------------
(* The types and what the filter collects, in each step                    *)

\* The types of what a step does not touch.
LEMMA Types ==
    ASSUME FInv
    PROVE  ScannerType /\ FilterType /\ app \in App /\ TagIsOpen /\ ValueFollowed
BY DEF FInv

\* Each step keeps the types, and what is collected of a declaration's value
\* is what the scanner has passed on.
LEMMA TypesKept ==
    ASSUME FInv, Next
    PROVE  ScannerType' /\ FilterType' /\ app' \in App /\ TagIsOpen' /\ ValueFollowed'
<1> USE Types
<1>1. CASE StartDocument
  <2>1. PICK v \in Versions : /\ version' = IF v = "none" THEN "1.0" ELSE v
                              /\ xml11' = IF v = "none" THEN xml11 ELSE v = "1.1"
    BY <1>1 DEF StartDocument
  <2>2. version' \in {"1.0", "1.1"} /\ xml11' \in BOOLEAN
    BY <2>1, SettingsAssumption DEF FilterType
  <2>3. ScannerType'
    BY <1>1, <2>2 DEF StartDocument, ScannerType
  <2>4. FilterType'
    BY <1>1, <2>2 DEF StartDocument, FilterType, current
  <2>5. TagIsOpen' /\ ValueFollowed' /\ app' \in App
    BY <1>1 DEF StartDocument, current, TagIsOpen, ValueFollowed
  <2>6. QED
    BY <2>3, <2>4, <2>5
<1>2. CASE StartElement
  <2>1. PICK q_name \in ElementNames :
            /\ open' = Append(open, Element(q_name))
            /\ element_qname' = q_name
            /\ IF ValidQName(q_name) THEN UNCHANGED failed ELSE Refuse
            /\ app' = IF failed' THEN app ELSE Starts(app, q_name)
    BY <1>2 DEF StartElement
  <2>2. failed' \in BOOLEAN
    BY <2>1, SettingsAssumption DEF Refuse, ScannerType
  <2>3. app' \in App
    BY <1>2, <2>1, GoingOn, AppTypes DEF StartElement
  <2>4. open' \in Seq(OpenElement) /\ open' # <<>>
    <3>1. Element(q_name) \in OpenElement
        BY DEF Element, OpenElement
    <3>2. QED
        BY <2>1, <3>1, AppendProperties DEF ScannerType
  <2>5. ScannerType'
    BY <1>2, <2>2, <2>4 DEF StartElement, ScannerType
  <2>6. FilterType'
    BY <1>2, <2>1 DEF StartElement, FilterType, current
  <2>7. QED
    BY <1>2, <2>3, <2>4, <2>5, <2>6 DEF StartElement, TagIsOpen, ValueFollowed
<1>3. CASE StartAttribute
  <2>1. PICK name \in AttributeNames :
            /\ attr' = [name |-> name, value |-> <<>>]
            /\ StartDeclaration(name) \/ StartPlainAttribute(name)
    BY <1>3 DEF StartAttribute
  <2>2. UNCHANGED <<doc, version, open, resets, xml11, element_qname>> /\ tag' = "value"
    BY <1>3 DEF StartAttribute
  <2>3. open # <<>>
    BY <1>3 DEF StartAttribute, TagIsOpen
  <2>4. attr' \in [name : AttributeNames \cup {NoName}, value : Seq(STRING)]
    BY <2>1
  <2>5. CASE StartDeclaration(name)
    <3>1. ScannerType'
        BY <2>2, <2>4, <2>5 DEF StartDeclaration, ScannerType
    <3>2. FilterType'
        BY <2>2, <2>5 DEF StartDeclaration, FilterType
    <3>3. ValueFollowed'
        BY <2>1, <2>5 DEF StartDeclaration, ValueFollowed
    <3>4. QED
        BY <2>2, <2>3, <2>5, <3>1, <3>2, <3>3 DEF StartDeclaration, TagIsOpen
  <2>6. CASE StartPlainAttribute(name)
    <3>1. failed' \in BOOLEAN
        BY <2>6, SettingsAssumption DEF StartPlainAttribute, Refuse, ScannerType
    <3>2. ScannerType'
        BY <2>2, <2>4, <3>1 DEF ScannerType
    <3>3. pending_attr_qnames' \in Seq(AttributeNames)
        BY <2>6, AppendProperties DEF StartPlainAttribute, FilterType
    <3>4. FilterType'
        BY <2>2, <2>6, <3>3 DEF StartPlainAttribute, FilterType
    <3>5. ValueFollowed'
        BY <2>1, <2>6 DEF StartPlainAttribute, ValueFollowed
    <3>6. app' \in App
      <4>1. ~failed
        BY <1>3 DEF StartAttribute
      <4>2. app' = app \/ app' = Attribute(app, name)
        BY <2>6 DEF StartPlainAttribute
      <4>3. QED
        BY <4>1, <4>2, GoingOn, AppTypes
    <3>7. QED
        BY <2>2, <2>3, <3>2, <3>4, <3>5, <3>6 DEF TagIsOpen
  <2>7. QED
    BY <2>1, <2>5, <2>6
<1>4. CASE AttributeValueContent
  <2>1. /\ UNCHANGED <<doc, version, resets, xml11, element_qname, pending_attr_qnames,
                       current_attr_name, current_is_namespace_decl>>
        /\ ~failed /\ open # <<>> /\ attr.name \in AttributeNames
        /\ current_is_namespace_decl <=> IsNamespaceDecl(attr.name)
        /\ current_is_namespace_decl => current_attr_name = attr.name
    BY <1>4 DEF AttributeValueContent, TagIsOpen, ValueFollowed
  <2>2. PICK value \in Uri, text \in Seq(STRING), end \in BOOLEAN :
             /\ end => text = value
             /\ attr' = IF end THEN NoAttr ELSE [attr EXCEPT !.value = text]
             /\ tag' = IF end THEN "tag" ELSE "value"
             /\ open' = IF end THEN [open EXCEPT ![Len(open)].attrs =
                                        @ \cup {<<attr.name, text>>}]
                        ELSE open
             /\ \/ /\ current_is_namespace_decl /\ ~end
                   /\ value_builder' = text /\ value_first_chunk' = FALSE
                   /\ UNCHANGED <<tracker, app, failed>>
                \/ /\ current_is_namespace_decl /\ end
                   /\ value_builder' \in Seq(STRING) /\ value_first_chunk' \in BOOLEAN
                   /\ DeclareNamespace(attr.name, value)
                \/ /\ ~current_is_namespace_decl
                   /\ UNCHANGED <<value_builder, value_first_chunk, tracker, app, failed>>
    BY <1>4, ValueIs
  <2>3. open' \in Seq(OpenElement) /\ Len(open') = Len(open) /\ open' # <<>>
    <3>1. CASE ~end
        BY <2>1, <2>2, <3>1 DEF ScannerType
    <3>2. CASE end
      <4> DEFINE top == [open[Len(open)] EXCEPT !.attrs = @ \cup {<<attr.name, text>>}]
      <4>1. Len(open) \in 1 .. Len(open) /\ open \in Seq(OpenElement)
        BY <2>1, GoingOn
      <4>2. open[Len(open)] \in OpenElement
        BY <4>1, ElementOfSeq
      <4>3. top \in OpenElement
        BY <2>1, <2>2, <3>2, <4>2 DEF OpenElement
      <4>4. open' = [open EXCEPT ![Len(open)] = top]
        BY <2>2, <3>2
      <4> HIDE DEF top
      <4>5. open' \in Seq(OpenElement) /\ Len(open') = Len(open)
        BY <4>1, <4>3, <4>4, ExceptSeq
      <4>6. QED
        BY <4>1, <4>5
    <3>3. QED
        BY <3>1, <3>2
  <2>4. app' \in App /\ failed' \in BOOLEAN
    BY <2>1, <2>2, <2>3, DeclareIs DEF ScannerType
  <2>5. attr' \in [name : AttributeNames \cup {NoName}, value : Seq(STRING)]
    <3>1. NoAttr \in [name : AttributeNames \cup {NoName}, value : Seq(STRING)]
        BY DEF NoAttr
    <3>2. [attr EXCEPT !.value = text] \in [name : AttributeNames \cup {NoName}, value : Seq(STRING)]
        BY DEF ScannerType
    <3>3. QED
        BY <2>2, <3>1, <3>2
  <2>6. ScannerType'
    BY <2>1, <2>2, <2>3, <2>4, <2>5 DEF ScannerType
  <2>7. FilterType'
    BY <2>1, <2>2 DEF FilterType
  <2>8. ValueFollowed'
    <3>1. CASE end
        BY <2>2, <3>1 DEF ValueFollowed
    <3>2. CASE ~end
      <4>1. attr'.name = attr.name /\ attr'.value = text
        BY <2>2, <3>2 DEF ScannerType
      <4>2. QED
        BY <2>1, <2>2, <3>2, <4>1 DEF ValueFollowed
    <3>3. QED
        BY <3>1, <3>2
  <2>9. QED
    BY <2>3, <2>4, <2>6, <2>7, <2>8 DEF TagIsOpen
<1>5. CASE EndAttributes
  <2>1. failed' \in BOOLEAN
    BY <1>5, SettingsAssumption DEF EndAttributes, Refuse, ScannerType
  <2>2. app' \in App
    BY <1>5, GoingOn, AppTypes DEF EndAttributes
  <2>3. ScannerType'
    BY <1>5, <2>1 DEF EndAttributes, ScannerType
  <2>4. FilterType'
    BY <1>5 DEF EndAttributes, FilterType, current
  <2>5. QED
    BY <1>5, <2>2, <2>3, <2>4 DEF EndAttributes, TagIsOpen, ValueFollowed
<1>6. CASE EndElement
  <2>1. app' \in App
    BY <1>6, GoingOn, AppTypes DEF EndElement
  <2>2. open' \in Seq(OpenElement)
    BY <1>6, GoingOn, ButLast DEF EndElement
  <2>3. doc' \in {"new", "open", "done"}
    BY <1>6 DEF EndElement, ScannerType
  <2>4. ScannerType'
    BY <1>6, <2>2, <2>3 DEF EndElement, ScannerType
  <2>5. FilterType'
    BY <1>6 DEF EndElement, FilterType, current
  <2>6. QED
    BY <1>6, <2>1, <2>4, <2>5 DEF EndElement, TagIsOpen, ValueFollowed
<1>7. CASE Reset
  <2>1. app' \in App
    BY <1>7, FreshAppType DEF Reset
  <2>2. NoAttr \in [name : AttributeNames \cup {NoName}, value : Seq(STRING)]
    BY DEF NoAttr
  <2>3. resets' \in 0 .. MaxResets
    BY <1>7, SettingsAssumption DEF Reset, ScannerType
  <2>4. ScannerType'
    BY <1>7, <2>2, <2>3, EmptySeq DEF Reset, ScannerType
  <2>5. FilterType'
    BY <1>7 DEF Reset, FilterType, current
  <2>6. QED
    BY <1>7, <2>1, <2>4, <2>5 DEF Reset, TagIsOpen, ValueFollowed
<1>8. QED
    BY <1>1, <1>2, <1>3, <1>4, <1>5, <1>6, <1>7 DEF Next
-----------------------------------------------------------------------------
(* Types, the root scope, and the tracker's caller                         *)

\* The filter starts with the tracker's root scope and no element.
LEMMA FInvInit == Init => FInv
<1>1. SUFFICES ASSUME Init PROVE FInv
    OBVIOUS
<1>2. TrackerInv
    BY <1>1, TrackerInvInit DEF Init
<1>3. /\ NoAttr \in [name : AttributeNames \cup {NoName}, value : Seq(STRING)]
      /\ 0 \in 0 .. MaxResets
    BY SettingsAssumption DEF NoAttr
<1>4. ScannerType
    BY <1>1, <1>3, EmptySeq DEF Init, ScannerType
<1>5. FilterType
    BY <1>1, EmptySeq DEF Init, FilterType
<1>6. Len(<<>>) = 0 /\ Len(<<Predeclared>>) = 1
    OBVIOUS
<1>7. app \in App /\ AppFollows
    BY <1>1, <1>6, FreshAppType DEF Init, AppFollows
<1>8. RootScopeKept /\ TagIsOpen /\ ValueFollowed
    BY <1>1, <1>6 DEF Init, NewTracker, RootScopeKept, TagIsOpen, ValueFollowed
<1>9. QED
    BY <1>2, <1>4, <1>5, <1>7, <1>8 DEF FInv

\* The invariant is kept, and the tracker is used as TrackerNext says.
LEMMA FInvStep ==
    FInv /\ [Next]_vars => FInv' /\ [TrackerNext]_tracker
<1>1. SUFFICES ASSUME FInv, [Next]_vars PROVE FInv' /\ [TrackerNext]_tracker
    OBVIOUS
<1>2. CASE Next
    BY <1>1, <1>2, Kinds, ScopesKept, TypesKept DEF FInv
<1>3. CASE UNCHANGED vars
  <2>1. UNCHANGED <<doc, version, open, tag, attr, failed, resets, bindings, scope_depth,
                    xml11, element_qname, pending_attr_qnames, current_attr_name,
                    current_is_namespace_decl, value_first_chunk, value_builder, app>>
    BY <1>3 DEF vars, scanner, tracker, current
  <2>2. ScannerType' /\ FilterType' /\ app' \in App /\ TagIsOpen' /\ ValueFollowed'
    BY <1>1, <2>1, Types DEF ScannerType, FilterType, TagIsOpen, ValueFollowed
  <2>3. TrackerInv' /\ RootScopeKept' /\ AppFollows'
    BY <1>1, <2>1 DEF FInv, TrackerInv, RootScopeKept, AppFollows
  <2>4. QED
    BY <2>1, <2>2, <2>3 DEF FInv, tracker
<1>4. QED
    BY <1>1, <1>2, <1>3

\* The invariant holds throughout.
LEMMA FInvAlways == Spec => []FInv
<1>1. QED
    BY FInvInit, FInvStep, PTL DEF Spec

\* Every variable of the filter, the scanner's side and the application's side
\* keeps its type: in particular what is declared is a prefix and the whole
\* value of an attribute (namespace.rs, start_attribute to end_attributes).
THEOREM FilterTypes == Spec => []TypeOK
<1>1. FInv => TypeOK
    BY DEF FInv, TypeOK, TrackerInv, Sound, TrackerType, Bindings
<1>2. QED
    BY <1>1, FInvAlways, PTL

\* pop_context is never called on the root scope, whatever fails and whenever
\* the parser is reset (namespace.rs, end_element).
THEOREM RootScopeStays == Spec => []RootScopeKept
<1>1. FInv => RootScopeKept
    BY DEF FInv
<1>2. QED
    BY <1>1, FInvAlways, PTL

\* The filter uses its tracker as NamespaceScopeTracker expects: it closes the
\* scopes it opened, and declares what has a prefix and a namespace name.
THEOREM FilterUsesTracker == Spec => TrackerSpec
<1>1. Init => NewTracker
    BY DEF Init
<1>2. FInv /\ [Next]_vars => [TrackerNext]_tracker
    BY FInvStep
<1>3. QED
    BY <1>1, <1>2, FInvAlways, PTL DEF Spec, TrackerSpec

\* So prefixes are scoped lexically in every document the filter sees.
THEOREM FilterScopesLexically == Spec => LexicalScoping
BY FilterUsesTracker, TrackerImplementsStack, PTL

\* The tracker's scopes and the scanner's elements drift apart in one way: a
\* reset of the parser while an element is open (parser.rs, reset).
THEOREM DriftNeedsReset == Spec => DriftsOnlyByReset
<1>1. ASSUME FInv, [Next]_vars
      PROVE  [scope_depth' - Len(open') = scope_depth - Len(open)
                \/ (resets' # resets /\ open # <<>>)]_vars
  <2>1. SUFFICES ASSUME Next
                 PROVE  \/ scope_depth' - Len(open') = scope_depth - Len(open)
                        \/ resets' # resets /\ open # <<>>
    BY <1>1
  <2>2. StepKind
    BY <1>1, <2>1, Kinds
  <2>3. CASE ~Abandons
    BY <1>1, <2>2, <2>3, ScopesKept
  <2>4. CASE Abandons
    BY <2>4 DEF Abandons, tracker
  <2>5. QED
    BY <2>3, <2>4
<1>2. QED
    BY <1>1, FInvAlways, PTL DEF Spec, DriftsOnlyByReset
-----------------------------------------------------------------------------
(* The application's scopes                                                *)

\* Nothing is declared outside of the root element.
SInv == ScopesAgree /\ ScopesNow[1] = Predeclared

\* What each operation of the tracker does to its scopes.
LEMMA ScopesNowSteps ==
    ASSUME TrackerInv
    PROVE  /\ ScopesNow \in Seq([Prefix -> Uri]) /\ Len(ScopesNow) = scope_depth + 1
           /\ scope_depth \in Nat
           /\ UNCHANGED tracker => ScopesNow' = ScopesNow
           /\ PushContext => ScopesNow' = Append(ScopesNow, ScopesNow[Len(ScopesNow)])
           /\ scope_depth > 0 /\ PopContext =>
                ScopesNow' = SubSeq(ScopesNow, 1, Len(ScopesNow) - 1)
           /\ \A p \in Prefix, u \in Uri :
                DeclarePrefix(p, u) => ScopesNow' = Redeclared(ScopesNow, p, u)
<1>1. Sound(bindings, scope_depth) /\ scope_depth \in Nat
    BY DEF TrackerInv, Sound
<1>2. /\ ScopesNow = Stack(bindings, scope_depth)
      /\ ScopesNow' = Stack(bindings', scope_depth')
    BY DEF ScopesNow, Stack
<1>3. ScopesNow \in Seq([Prefix -> Uri]) /\ Len(ScopesNow) = scope_depth + 1
    BY <1>1, <1>2, StackType
<1>4. UNCHANGED tracker => ScopesNow' = ScopesNow
    BY <1>2 DEF tracker
<1>5. PushContext => ScopesNow' = Append(ScopesNow, ScopesNow[Len(ScopesNow)])
    BY <1>1, <1>2, PushStack DEF PushContext
<1>6. ASSUME scope_depth > 0, PopContext
      PROVE  ScopesNow' = SubSeq(ScopesNow, 1, Len(ScopesNow) - 1)
  <2>1. bindings' = Popped(bindings, scope_depth) /\ scope_depth' = scope_depth - 1
    BY <1>6 DEF PopContext, Popped
  <2>2. QED
    BY <1>1, <1>2, <1>6, <2>1, PopStack
<1>7. ASSUME NEW p \in Prefix, NEW u \in Uri, DeclarePrefix(p, u)
      PROVE  ScopesNow' = Redeclared(ScopesNow, p, u)
  <2>1. bindings' = Declared(bindings, scope_depth, p, u) /\ scope_depth' = scope_depth
    BY <1>7 DEF DeclarePrefix, Declared
  <2>2. QED
    BY <1>1, <1>2, <2>1, DeclareStack DEF Redeclared
<1>8. QED
    BY <1>1, <1>3, <1>4, <1>5, <1>6, <1>7

\* The root scope lies under every scope that opens, changes or closes.
LEMMA RootUnderneath ==
    ASSUME NEW S, NEW list \in Seq(S), Len(list) > 0
    PROVE  /\ Append(list, list[Len(list)])[1] = list[1]
           /\ Len(list) > 1 => \A p, u : Redeclared(list, p, u)[1] = list[1]
           /\ Len(list) > 1 => SubSeq(list, 1, Len(list) - 1)[1] = list[1]
<1>1. Len(list) \in Nat /\ 1 \in 1 .. Len(list)
    OBVIOUS
<1>2. list[Len(list)] \in S
    BY <1>1, ElementOfSeq
<1>3. Append(list, list[Len(list)])[1] = list[1]
    BY <1>1, <1>2, AppendProperties
<1>4. ASSUME Len(list) > 1, NEW p, NEW u PROVE Redeclared(list, p, u)[1] = list[1]
    BY <1>1, <1>4 DEF Redeclared
<1>5. ASSUME Len(list) > 1 PROVE SubSeq(list, 1, Len(list) - 1)[1] = list[1]
  <2> DEFINE n == Len(list) - 1
  <2>1. n \in Nat /\ 1 \in 1 .. n - 1 + 1 /\ 1 + 1 - 1 = 1
    BY <1>1, <1>5
  <2>2. \A i \in 1 .. n : list[i] \in S
    BY <1>1, ElementOfSeq
  <2> HIDE DEF n
  <2>3. \A i \in 1 .. n - 1 + 1 : SubSeq(list, 1, n)[i] = list[1 + i - 1]
    BY <2>1, <2>2, SubSeqProperties
  <2>4. SubSeq(list, 1, n)[1] = list[1 + 1 - 1]
    BY <2>1, <2>3
  <2>5. QED
    BY <2>1, <2>4 DEF n
<1>6. QED
    BY <1>3, <1>4, <1>5

\* The same change to the same scopes.
LEMMA SInvStep ==
    ASSUME FInv, SInv, [Next]_vars
    PROVE  SInv'
<1>1. /\ TrackerInv
      /\ ScopesNow \in Seq([Prefix -> Uri]) /\ Len(ScopesNow) = scope_depth + 1
      /\ Len(open) \in Nat /\ scope_depth \in Nat /\ scope_depth >= Len(open)
      /\ open # <<>> => Len(open) > 0
      /\ ScopesNow[1] = Predeclared
      /\ Len(ScopesNow) > 0
    BY ScopesNowSteps, GoingOn DEF FInv, SInv
<1>2. CASE UNCHANGED vars
  <2>1. UNCHANGED <<bindings, scope_depth, open, failed, app>>
    BY <1>2 DEF vars, scanner, tracker
  <2>2. ScopesNow' = ScopesNow
    BY <2>1 DEF ScopesNow
  <2>3. QED
    BY <2>1, <2>2 DEF SInv, ScopesAgree, Clean
<1>3. CASE Next
  <2>1. StepKind /\ (~Abandons => (Clean' <=> Clean))
    <3>1. StepKind
        BY <1>3, Kinds
    <3>2. FInv'
        BY FInvStep
    <3>3. Len(open') \in Nat /\ scope_depth' \in Nat
      <4>1. open' \in Seq(OpenElement) /\ scope_depth' \in Nat
        BY <3>2 DEF FInv, ScannerType, TrackerInv, Sound
      <4>2. QED
        BY <4>1, LenProperties
    <3>4. QED
        BY <1>1, <3>1, <3>3, ScopesKept DEF Clean
  <2>2. CASE Quiet /\ ~Abandons
    <3>1. ScopesNow' = ScopesNow
        BY <1>1, <2>2, ScopesNowSteps DEF Quiet
    <3>2. QED
        BY <2>1, <2>2, <3>1 DEF Quiet, SInv, ScopesAgree
  <2>3. CASE Opens /\ ~Abandons
    <3>1. ScopesNow' = Append(ScopesNow, ScopesNow[Len(ScopesNow)])
        BY <1>1, <2>3, ScopesNowSteps DEF Opens
    <3>2. ScopesNow'[1] = Predeclared
        BY <1>1, <3>1, RootUnderneath
    <3>3. ScopesAgree'
        BY <2>1, <2>3, <3>1 DEF Opens, SInv, ScopesAgree
    <3>4. QED
        BY <3>2, <3>3 DEF SInv
  <2>4. ASSUME NEW p \in Prefix, NEW u \in Uri, DeclaresIn(p, u), ~Abandons PROVE SInv'
    <3>1. ScopesNow' = Redeclared(ScopesNow, p, u)
        BY <1>1, <2>4, ScopesNowSteps DEF DeclaresIn
    <3>2. Len(ScopesNow) > 1
        BY <1>1, <2>4 DEF DeclaresIn
    <3>3. ScopesNow'[1] = Predeclared
        BY <1>1, <3>1, <3>2, RootUnderneath
    <3>4. ScopesAgree'
        BY <2>1, <2>4, <3>1 DEF DeclaresIn, SInv, ScopesAgree
    <3>5. QED
        BY <3>3, <3>4 DEF SInv
  <2>5. CASE Closes /\ ~Abandons
    <3>1. ScopesNow' = SubSeq(ScopesNow, 1, Len(ScopesNow) - 1) /\ Len(ScopesNow) > 1
        BY <1>1, <2>5, ScopesNowSteps DEF Closes
    <3>2. ScopesNow'[1] = Predeclared
        BY <1>1, <3>1, RootUnderneath
    <3>3. ScopesAgree'
        BY <2>1, <2>5, <3>1 DEF Closes, SInv, ScopesAgree
    <3>4. QED
        BY <3>2, <3>3 DEF SInv
  <2>6. CASE Abandons
    <3>1. ScopesNow' = ScopesNow /\ scope_depth' = scope_depth
        BY <1>1, <2>6, ScopesNowSteps DEF Abandons, tracker
    <3>2. ASSUME Clean' PROVE ScopesNow = <<Predeclared>>
      <4>1. scope_depth = 0
        BY <2>6, <3>1, <3>2 DEF Clean, Abandons
      <4>2. Len(ScopesNow) = 1
        BY <1>1, <4>1
      <4>3. ScopesNow = [k \in 1 .. 1 |-> ScopesNow[1]]
        BY <4>1 DEF ScopesNow
      <4>4. QED
        BY <1>1, <4>3
    <3>3. app'.scopes = <<Predeclared>>
        BY <2>6, FreshAppType DEF Abandons
    <3>4. QED
        BY <1>1, <3>1, <3>2, <3>3 DEF SInv, ScopesAgree
  <2>7. QED
    BY <2>1, <2>2, <2>3, <2>4, <2>5, <2>6 DEF StepKind
<1>4. QED
    BY <1>2, <1>3

\* The invariant of the scopes holds throughout.
LEMMA SInvAlways == Spec => []SInv
<1>1. Init => SInv
  <2>1. SUFFICES ASSUME Init PROVE SInv
    OBVIOUS
  <2>2. ScopesNow = <<Predeclared>> /\ app.scopes = <<Predeclared>>
    BY <2>1, TrackerInvInit, FreshAppType DEF Init
  <2>3. QED
    BY <2>2 DEF SInv, ScopesAgree
<1>2. FInv /\ SInv /\ [Next]_vars => SInv'
    BY SInvStep
<1>3. QED
    BY <1>1, <1>2, FInvAlways, PTL DEF Spec

\* Unless a document was abandoned in the middle, an application that keeps
\* scopes by the namespace events and end_element knows what the filter knows
\* (namespace.rs, declare_namespace and end_element; docs/namespaces.html).
THEOREM ApplicationKnowsScopes == Spec => []ScopesAgree
<1>1. SInv => ScopesAgree
    BY DEF SInv
<1>2. QED
    BY <1>1, SInvAlways, PTL
-----------------------------------------------------------------------------
(* The tags the application hears of                                       *)

Prefixed(attributes) == {n \in attributes : n.prefix # "" /\ ~IsNamespaceDecl(n)}

Pending(name) == \E i \in DOMAIN pending_attr_qnames : pending_attr_qnames[i] = name

\* Every attribute with a prefix that was passed on is held for end_attributes.
TagFollowed ==
    ~failed /\ tag # "none" =>
        /\ app.tag = "open"
        /\ app.element = element_qname
        /\ \A n \in Prefixed(app.attributes) : Pending(n)

TagInv == TagFollowed /\ ReportedTagsLegal

\* get_uri answers for the innermost scope.
LEMMA GetUriIs ==
    ASSUME TrackerInv, NEW prefix
    PROVE  GetUri(prefix) = UriAt(bindings, prefix, scope_depth)
<1>1. \A i \in DOMAIN bindings : bindings[i].level <= scope_depth
    BY DEF TrackerInv, Sound
<1>2. {i \in DOMAIN bindings : bindings[i].prefix = prefix} = Of(bindings, prefix, scope_depth)
    BY <1>1 DEF Of
<1>3. QED
    BY <1>2 DEF GetUri, UriAt

\* end_attributes lets a tag through only if it is legal in the filter's
\* innermost scope.
LEMMA ResolvedIsLegal ==
    ASSUME FInv, TagFollowed, EndAttributes, Resolved
    PROVE  LegalIn(ScopesNow[Len(ScopesNow)], app.element, app.attributes)
<1> DEFINE env == ScopesNow[Len(ScopesNow)]
<1>1. TrackerInv /\ scope_depth \in Nat /\ Len(ScopesNow) = scope_depth + 1
    BY ScopesNowSteps DEF FInv
<1>2. \A prefix \in Prefix : env[prefix] = GetUri(prefix)
  <2>1. env = ScopeAt(bindings, scope_depth)
    BY <1>1 DEF ScopesNow
  <2>2. QED
    BY <1>1, <2>1, GetUriIs DEF ScopeAt
<1>3. app.element = element_qname /\ \A n \in Prefixed(app.attributes) : Pending(n)
    BY DEF EndAttributes, TagFollowed
<1>4. element_qname.prefix \in Prefix
  <2>1. element_qname \in ElementNames \cup {NoName}
    BY DEF FInv, FilterType
  <2>2. NoName.prefix \in Prefix
    BY PrefixAssumption DEF NoName, Name
  <2>3. \A name \in ElementNames : name.prefix \in Prefix
    BY NamesAssumption DEF QName
  <2>4. QED
    BY <2>1, <2>2, <2>3
<1>5. \A n \in Prefixed(app.attributes) : n.prefix \in Prefix
  <2>1. app.attributes \subseteq AttributeNames
    BY DEF FInv, App
  <2>2. QED
    BY <2>1, NamesAssumption DEF Prefixed, QName
<1> HIDE DEF env
<1>6. element_qname.prefix = "" \/ env[element_qname.prefix] # Unbound
    BY <1>2, <1>4 DEF Resolved, Bound
<1>7. ASSUME NEW n \in Prefixed(app.attributes) PROVE env[n.prefix] # Unbound
    BY <1>2, <1>3, <1>5 DEF Resolved, Bound, Pending
<1>8. ASSUME NEW m \in Prefixed(app.attributes), NEW n \in Prefixed(app.attributes),
             m.local = n.local, env[m.prefix] = env[n.prefix]
      PROVE  m = n
  <2>1. PICK i \in DOMAIN pending_attr_qnames : pending_attr_qnames[i] = m
    BY <1>3 DEF Pending
  <2>2. PICK j \in DOMAIN pending_attr_qnames : pending_attr_qnames[j] = n
    BY <1>3 DEF Pending
  <2>3. SameExpandedName(m, n)
    BY <1>2, <1>5, <1>8 DEF SameExpandedName
  <2>4. i = j
    BY <2>1, <2>2, <2>3 DEF Resolved
  <2>5. QED
    BY <2>1, <2>2, <2>4
<1>9. QED
    BY <1>3, <1>6, <1>7, <1>8 DEF LegalIn, Prefixed, env

\* A scope that is clean after a step was clean before it.
LEMMA CleanBefore ==
    ASSUME FInv, Next, Clean', ~Reset
    PROVE  Clean
<1>1. Len(open) \in Nat /\ scope_depth \in Nat
    BY GoingOn
<1>2. Len(open') \in Nat /\ scope_depth' \in Nat
  <2>1. FInv'
    BY FInvStep
  <2>2. open' \in Seq(OpenElement) /\ scope_depth' \in Nat
    BY <2>1 DEF FInv, ScannerType, TrackerInv, Sound
  <2>3. QED
    BY <2>2, LenProperties
<1>3. ~Abandons
    BY DEF Next, Abandons, StartDocument, StartElement, StartAttribute,
           AttributeValueContent, EndAttributes, EndElement
<1>4. QED
    BY <1>1, <1>2, <1>3, Kinds, ScopesKept DEF Clean

\* Nothing the application heard of the tag before changes until it ends.
LEMMA TagInvStep ==
    ASSUME FInv, SInv, TagInv, [Next]_vars
    PROVE  TagInv'
<1> USE DEF TagInv
<1>1. app \in App /\ TagFollowed
    BY GoingOn
<1>2. CASE UNCHANGED vars
  <2>1. UNCHANGED <<bindings, scope_depth, open, tag, failed, app, element_qname,
                    pending_attr_qnames>>
    BY <1>2 DEF vars, scanner, tracker
  <2>2. QED
    BY <2>1 DEF TagFollowed, Pending, ReportedTagsLegal, Clean
<1>3. ASSUME Next, ~Reset, app' = app PROVE ReportedTagsLegal'
    BY <1>3, CleanBefore DEF ReportedTagsLegal
<1>4. ASSUME app'.tag # "ended" PROVE ReportedTagsLegal'
    BY <1>4 DEF ReportedTagsLegal
<1>5. CASE StartDocument
  <2>1. UNCHANGED <<tag, failed, app, element_qname, pending_attr_qnames>> /\ ~Reset
    BY <1>5 DEF StartDocument, Reset
  <2>2. QED
    BY <1>3, <1>5, <2>1 DEF Next, TagFollowed, Pending
<1>6. CASE StartElement
  <2>1. ~Reset
    BY <1>6 DEF StartElement, Reset, FInv, ScannerType
  <2>2. PICK q_name \in ElementNames :
            /\ element_qname' = q_name
            /\ app' = IF failed' THEN app ELSE Starts(app, q_name)
    BY <1>6 DEF StartElement
  <2>3. CASE failed'
    BY <1>3, <1>6, <2>1, <2>2, <2>3 DEF Next, TagFollowed
  <2>4. CASE ~failed'
    <3>1. /\ app'.tag = "open" /\ app'.element = element_qname'
          /\ app'.attributes = {}
        BY <1>1, <2>2, <2>4, AppRecords
    <3>2. Prefixed(app'.attributes) = {}
        BY <3>1 DEF Prefixed
    <3>3. TagFollowed'
        BY <3>1, <3>2 DEF TagFollowed
    <3>4. QED
        BY <1>4, <3>1, <3>3
  <2>5. QED
    BY <2>3, <2>4
<1>7. CASE StartAttribute
  <2>1. ~failed /\ tag = "tag" /\ tag' = "value" /\ element_qname' = element_qname
    BY <1>7 DEF StartAttribute
  <2>2. PICK name \in AttributeNames : StartDeclaration(name) \/ StartPlainAttribute(name)
    BY <1>7 DEF StartAttribute
  <2>3. /\ app.tag = "open" /\ app.element = element_qname
        /\ \A n \in Prefixed(app.attributes) : Pending(n)
    BY <1>1, <2>1 DEF TagFollowed
  <2>4. CASE StartDeclaration(name)
    BY <1>4, <2>1, <2>3, <2>4 DEF StartDeclaration, TagFollowed, Pending
  <2>5. CASE StartPlainAttribute(name) /\ failed'
    <3>1. app' = app
        BY <2>5 DEF StartPlainAttribute
    <3>2. QED
        BY <1>4, <2>3, <2>5, <3>1 DEF TagFollowed
  <2>6. CASE StartPlainAttribute(name) /\ ~failed'
    <3>1. /\ app' = Attribute(app, name)
          /\ pending_attr_qnames' = IF ~HasColon(name) THEN pending_attr_qnames
                                    ELSE Append(pending_attr_qnames, name)
        BY <2>6 DEF StartPlainAttribute
    <3>2. /\ app'.tag = "open" /\ app'.element = element_qname'
          /\ app'.attributes = app.attributes \cup {name}
      <4>1. /\ Attribute(app, name).tag = app.tag
            /\ Attribute(app, name).element = app.element
            /\ Attribute(app, name).attributes = app.attributes \cup {name}
        BY <1>1, AppRecords
      <4>2. QED
        BY <2>1, <2>3, <3>1, <4>1
    <3>3. /\ pending_attr_qnames \in Seq(AttributeNames)
          /\ DOMAIN pending_attr_qnames = 1 .. Len(pending_attr_qnames)
          /\ Len(pending_attr_qnames) \in Nat
        BY LenProperties DEF FInv, FilterType
    <3>4. ASSUME NEW n \in Prefixed(app'.attributes) PROVE Pending(n)'
      <4>1. CASE ~HasColon(name)
        <5>1. n \in Prefixed(app.attributes)
            BY <3>2, <4>1 DEF Prefixed, HasColon
        <5>2. QED
            BY <2>3, <3>1, <4>1, <5>1 DEF Pending
      <4>2. CASE HasColon(name)
        <5>1. /\ pending_attr_qnames' = Append(pending_attr_qnames, name)
              /\ pending_attr_qnames' \in Seq(AttributeNames)
              /\ Len(pending_attr_qnames') = Len(pending_attr_qnames) + 1
              /\ \A i \in 1 .. Len(pending_attr_qnames) :
                    pending_attr_qnames'[i] = pending_attr_qnames[i]
              /\ pending_attr_qnames'[Len(pending_attr_qnames) + 1] = name
          <6> DEFINE longer == Append(pending_attr_qnames, name)
          <6>1. /\ longer \in Seq(AttributeNames)
                /\ Len(longer) = Len(pending_attr_qnames) + 1
                /\ \A i \in 1 .. Len(pending_attr_qnames) : longer[i] = pending_attr_qnames[i]
                /\ longer[Len(pending_attr_qnames) + 1] = name
            BY <3>3, AppendProperties
          <6>2. pending_attr_qnames' = longer
            BY <3>1, <4>2
          <6> HIDE DEF longer
          <6>3. QED
            BY <6>1, <6>2 DEF longer
        <5>2. DOMAIN pending_attr_qnames' = 1 .. Len(pending_attr_qnames) + 1
            BY <5>1, LenProperties
        <5>3. CASE n = name
            BY <3>3, <5>1, <5>2, <5>3 DEF Pending
        <5>4. CASE n # name
          <6>1. Pending(n)
            BY <2>3, <3>2, <5>4 DEF Prefixed
          <6>2. PICK i \in DOMAIN pending_attr_qnames : pending_attr_qnames[i] = n
            BY <6>1 DEF Pending
          <6>3. i \in DOMAIN pending_attr_qnames' /\ pending_attr_qnames'[i] = n
            BY <3>3, <5>1, <5>2, <6>2
          <6>4. QED
            BY <6>3 DEF Pending
        <5>5. QED
            BY <5>3, <5>4
      <4>3. QED
        BY <4>1, <4>2
    <3>5. QED
        BY <1>4, <3>2, <3>4 DEF TagFollowed
  <2>7. QED
    BY <2>2, <2>4, <2>5, <2>6
<1>8. CASE AttributeValueContent
  <2>1. /\ tag = "value" /\ ~failed /\ element_qname' = element_qname
        /\ pending_attr_qnames' = pending_attr_qnames
        /\ open # <<>> /\ attr.name \in AttributeNames
        /\ current_is_namespace_decl <=> IsNamespaceDecl(attr.name)
    BY <1>8 DEF AttributeValueContent, FInv, TagIsOpen, ValueFollowed
  <2>2. /\ app.tag = "open" /\ app.element = element_qname
        /\ \A n \in Prefixed(app.attributes) : Pending(n)
    BY <1>1, <2>1 DEF TagFollowed
  <2>3. Len(open') = Len(open)
    BY <1>8, SameElements
  <2>4. /\ app'.tag = app.tag /\ app'.element = app.element
        /\ Prefixed(app'.attributes) \subseteq Prefixed(app.attributes)
    <3>1. PICK value \in Uri :
             \/ app' = app
             \/ current_is_namespace_decl /\ DeclareNamespace(attr.name, value)
        BY <1>8, ValueIs
    <3>2. CASE app' = app
        BY <3>2
    <3>3. CASE current_is_namespace_decl /\ DeclareNamespace(attr.name, value)
      <4>1. /\ app'.tag = app.tag /\ app'.element = app.element
            /\ app'.attributes \subseteq app.attributes \cup {attr.name}
        BY <2>1, <2>3, <3>3, DeclareIs
      <4>2. IsNamespaceDecl(attr.name)
        BY <2>1, <3>3
      <4>3. QED
        BY <4>1, <4>2 DEF Prefixed
    <3>4. QED
        BY <3>1, <3>2, <3>3
  <2>5. QED
    BY <1>4, <2>1, <2>2, <2>4 DEF TagFollowed, Pending
<1>9. CASE EndAttributes
  <2>1. ~failed /\ tag = "tag" /\ tag' = "none" /\ ~Reset
    BY <1>9 DEF EndAttributes, Reset, FInv, ScannerType
  <2>2. TagFollowed'
    BY <2>1 DEF TagFollowed
  <2>3. CASE ~Resolved
    BY <1>3, <1>9, <2>1, <2>2, <2>3 DEF EndAttributes, Next
  <2>4. CASE Resolved
    <3>1. app' = EndsTag(app)
        BY <1>9, <2>4 DEF EndAttributes
    <3>2. /\ app'.scopes = app.scopes /\ app'.element = app.element
          /\ app'.attributes = app.attributes
        BY <1>1, <3>1, AppRecords
    <3>3. ASSUME Clean' PROVE app.scopes = ScopesNow
        BY <1>9, <2>1, <3>3, CleanBefore DEF Next, SInv, ScopesAgree
    <3>4. LegalIn(ScopesNow[Len(ScopesNow)], app.element, app.attributes)
        BY <1>1, <1>9, <2>4, ResolvedIsLegal
    <3>5. ReportedTagsLegal'
        BY <3>2, <3>3, <3>4 DEF ReportedTagsLegal
    <3>6. QED
        BY <2>2, <3>5
  <2>5. QED
    BY <2>3, <2>4
<1>10. CASE EndElement
    BY <1>1, <1>4, <1>10, AppRecords DEF EndElement, TagFollowed
<1>11. CASE Reset
    BY <1>4, <1>11, FreshAppType DEF Reset, TagFollowed
<1>12. QED
    BY <1>2, <1>5, <1>6, <1>7, <1>8, <1>9, <1>10, <1>11 DEF Next

\* Whatever the order of a tag's attributes and declarations, once the tag
\* ends every prefix the application has heard of resolves in its own scopes
\* and no two attributes are the same by expanded name (namespace.rs,
\* start_attribute and end_attributes).
THEOREM TagsAreLegal == Spec => []ReportedTagsLegal
<1>1. Init => TagInv
    BY FreshAppType DEF Init, TagInv, TagFollowed, ReportedTagsLegal
<1>2. FInv /\ SInv /\ TagInv /\ [Next]_vars => TagInv'
    BY TagInvStep
<1>3. TagInv => ReportedTagsLegal
    BY DEF TagInv
<1>4. QED
    BY <1>1, <1>2, <1>3, FInvAlways, SInvAlways, PTL DEF Spec
-----------------------------------------------------------------------------
(* Environments, read off the open elements                                *)

\* Positions up to a bound have a last one.
LEMMA LastExists ==
    ASSUME NEW k \in Nat, NEW S, S \subseteq 0 .. k
    PROVE  HasLast(S)
<1> DEFINE R == OpToRel(<, Nat)
           T == {k - j : j \in S}
<1>1. IsWellFoundedOn(R, Nat)
    BY NatLessThanWellFounded, Zenon
<1>2. SUFFICES ASSUME S # {} PROVE HasLast(S)
    BY DEF HasLast
<1>3. T \subseteq Nat /\ T # {}
  <2> HIDE DEF R
  <2>1. \A j \in S : k - j \in Nat
    OBVIOUS
  <2>2. QED
    BY <1>2, <2>1
<1>4. \E x \in T : \A y \in T : ~(<<y, x>> \in R)
  <2> HIDE DEF R, T
  <2>1. QED
    BY <1>1, <1>3, WFMin
<1>5. PICK x \in T : \A y \in T : ~(y < x)
    BY <1>3, <1>4 DEF OpToRel
<1> HIDE DEF R
<1>6. PICK i \in S : x = k - i
    OBVIOUS
<1>7. ASSUME NEW j \in S PROVE j <= i
  <2>1. k - j \in T
    OBVIOUS
  <2>2. ~(k - j < k - i)
    BY <1>5, <1>6, <2>1
  <2>3. i \in 0 .. k /\ j \in 0 .. k
    OBVIOUS
  <2> HIDE DEF T
  <2>4. QED
    BY <2>2, <2>3, SMT
<1>8. QED
    BY <1>7 DEF HasLast

\* The level that decides on a prefix.
LEMMA InnermostLevel ==
    ASSUME NEW list, NEW prefix, NEW k \in Nat
    PROVE  LET L == Levels(list, prefix, k)
           IN  /\ L \subseteq 1 .. k /\ L \subseteq Nat
               /\ L # {} => Max(L) \in L /\ \A j \in L : j <= Max(L)
<1> DEFINE L == Levels(list, prefix, k)
<1>1. L \subseteq 1 .. k /\ L \subseteq 0 .. k /\ L \subseteq Nat
    BY DEF Levels
<1> HIDE DEF L
<1>2. HasLast(L)
    BY <1>1, LastExists
<1>3. L # {} => Max(L) \in L /\ \A j \in L : j <= Max(L)
    BY <1>1, <1>2, MaxIsIn
<1>4. QED
    BY <1>1, <1>3 DEF L

\* What decides on a prefix is what the levels up to k declare.
LEMMA UriSame ==
    ASSUME NEW list, NEW other, NEW prefix, NEW k \in Nat,
           \A j \in 1 .. k : Given(other, prefix, j) = Given(list, prefix, j)
    PROVE  UriOf(other, prefix, k) = UriOf(list, prefix, k)
<1> DEFINE L == Levels(list, prefix, k)
<1>1. Levels(other, prefix, k) = L
    BY DEF Levels
<1>2. CASE L = {}
    BY <1>1, <1>2 DEF UriOf
<1>3. CASE L # {}
  <2>1. Max(L) \in 1 .. k
    BY <1>3, InnermostLevel
  <2> HIDE DEF L
  <2>2. GivenUri(other, prefix, Max(L)) = GivenUri(list, prefix, Max(L))
    BY <2>1 DEF GivenUri
  <2>3. QED
    BY <1>1, <1>3, <2>2 DEF UriOf, L
<1>4. QED
    BY <1>2, <1>3

\* Lists that declare the same have the same environments.
LEMMA EnvSame ==
    ASSUME NEW list, NEW other, NEW k \in Nat,
           \A j \in 1 .. k, prefix \in Prefix : Given(other, prefix, j) = Given(list, prefix, j)
    PROVE  EnvironmentOf(other, k) = EnvironmentOf(list, k)
<1>1. \A prefix \in Prefix : UriOf(other, prefix, k) = UriOf(list, prefix, k)
    BY UriSame
<1>2. QED
    BY <1>1 DEF EnvironmentOf

\* A level decides, or leaves it to the levels around it.
LEMMA UriStep ==
    ASSUME NEW list, NEW prefix, NEW k \in Nat \ {0}
    PROVE  UriOf(list, prefix, k) =
             IF Given(list, prefix, k) = {} THEN UriOf(list, prefix, k - 1)
             ELSE GivenUri(list, prefix, k)
<1> DEFINE L == Levels(list, prefix, k)
<1>1. CASE Given(list, prefix, k) = {}
  <2>1. Levels(list, prefix, k - 1) = L
    BY <1>1 DEF Levels
  <2>2. QED
    BY <1>1, <2>1 DEF UriOf
<1>2. CASE Given(list, prefix, k) # {}
  <2>1. k \in L /\ L \subseteq Nat /\ \A j \in L : j <= k
    BY <1>2 DEF Levels
  <2>2. L # {} /\ Max(L) = k
    <3> HIDE DEF L
    <3>1. QED
        BY <2>1, MaxIsLast
  <2>3. QED
    BY <1>2, <2>2 DEF UriOf
<1>3. QED
    BY <1>1, <1>2

\* The prefix a declaration declares.
DeclaredBy(name) == IF name.prefix = "" THEN "" ELSE name.local

\* xmlns: without a prefix declares none; declare_namespace refuses it.
DeclaresSome(name) == name.prefix = "" \/ name.local # ""

\* A declaration declares one prefix, any other attribute none.
LEMMA DeclaresOne ==
    ASSUME NEW b, NEW name \in AttributeNames, b[1] = name,
           IsNamespaceDecl(name) => DeclaresSome(name), NEW p
    PROVE  Declares(b, p) <=> IsNamespaceDecl(name) /\ p = DeclaredBy(name)
<1>1. name \in QName
    BY NamesAssumption
<1>2. \A q, l : name = Name(q, l) <=> name.prefix = q /\ name.local = l
    BY <1>1 DEF QName, Name
<1>3. CASE p = ""
  <2>1. Declares(b, p) <=> name = Name("", "xmlns")
    BY <1>3 DEF Declares
  <2>2. QED
    BY <1>2, <1>3, <2>1 DEF IsNamespaceDecl, DeclaredBy, DeclaresSome
<1>4. CASE p # ""
  <2>1. Declares(b, p) <=> name.prefix = "xmlns" /\ name.local = p
    BY <1>2, <1>4 DEF Declares
  <2>2. CASE name.prefix = ""
    BY <1>4, <2>1, <2>2 DEF DeclaredBy
  <2>3. CASE name.prefix # ""
    <3>1. IsNamespaceDecl(name) <=> name.prefix = "xmlns"
        BY <1>2, <2>3 DEF IsNamespaceDecl
    <3>2. DeclaredBy(name) = name.local
        BY <2>3 DEF DeclaredBy
    <3>3. QED
        BY <1>4, <2>1, <3>1, <3>2
  <2>4. QED
    BY <2>2, <2>3
<1>5. QED
    BY <1>3, <1>4

\* An element that is opened has the environment of its parent.
LEMMA EnvOpened ==
    ASSUME NEW list \in Seq(OpenElement), NEW name \in ElementNames,
           NEW after, after = Append(list, Element(name))
    PROVE  /\ \A k \in 0 .. Len(list) : EnvironmentOf(after, k) = EnvironmentOf(list, k)
           /\ EnvironmentOf(after, Len(list) + 1) = EnvironmentOf(list, Len(list))
<1>1. Element(name) \in OpenElement /\ Element(name).attrs = {}
    BY DEF Element, OpenElement
<1>2. /\ Len(list) \in Nat /\ Len(after) = Len(list) + 1
      /\ \A k \in 1 .. Len(list) : after[k] = list[k]
      /\ after[Len(list) + 1] = Element(name)
    BY <1>1, AppendProperties, LenProperties
<1>3. ASSUME NEW k \in 0 .. Len(list) PROVE EnvironmentOf(after, k) = EnvironmentOf(list, k)
  <2>1. k \in Nat /\ \A j \in 1 .. k : j \in 1 .. Len(list)
    BY <1>2
  <2>2. \A j \in 1 .. k, prefix \in Prefix : Given(after, prefix, j) = Given(list, prefix, j)
    BY <1>2, <2>1 DEF Given
  <2>3. QED
    BY <2>1, <2>2, EnvSame
<1>4. EnvironmentOf(after, Len(list) + 1) = EnvironmentOf(after, Len(list))
  <2> DEFINE n == Len(list) + 1
  <2>1. n \in Nat \ {0} /\ n - 1 = Len(list)
    BY <1>2
  <2>2. \A prefix : Given(after, prefix, n) = {}
    BY <1>1, <1>2 DEF Given
  <2> HIDE DEF n
  <2>3. \A prefix : UriOf(after, prefix, n) = UriOf(after, prefix, n - 1)
    BY <2>1, <2>2, UriStep
  <2>4. QED
    BY <2>1, <2>3 DEF EnvironmentOf, n
<1>5. Len(list) \in 0 .. Len(list)
    BY <1>2
<1>6. QED
    BY <1>3, <1>4, <1>5

WithAttribute(list, a) == [list EXCEPT ![Len(list)].attrs = @ \cup {a}]

\* The innermost open element.
LEMMA OpenFacts ==
    ASSUME NEW list \in Seq(OpenElement), list # <<>>
    PROVE  /\ Len(list) \in Nat \ {0} /\ Len(list) \in DOMAIN list
           /\ DOMAIN list = 1 .. Len(list)
           /\ list[Len(list)] \in OpenElement
<1>1. Len(list) \in Nat /\ Len(list) # 0 /\ DOMAIN list = 1 .. Len(list)
    OBVIOUS
<1>2. Len(list) \in 1 .. Len(list)
    BY <1>1
<1>3. QED
    BY <1>1, <1>2, ElementOfSeq

\* What an attribute that is given changes.
LEMMA AttributeAdded ==
    ASSUME NEW list \in Seq(OpenElement), list # <<>>, NEW a
    PROVE  LET after == WithAttribute(list, a)
           IN  /\ Len(after) = Len(list) /\ DOMAIN after = DOMAIN list
               /\ \A k \in 1 .. Len(list) : k # Len(list) => after[k] = list[k]
               /\ after[Len(list)].attrs = list[Len(list)].attrs \cup {a}
               /\ after[Len(list)].name = list[Len(list)].name
BY OpenFacts DEF WithAttribute, OpenElement

Rebound(env, prefix, uri) == [env EXCEPT ![prefix] = uri]

\* An attribute that is given changes the environment by what it declares.
LEMMA EnvGiven ==
    ASSUME NEW list \in Seq(OpenElement), list # <<>>, NEW n, n = Len(list),
           NEW b, NEW name \in AttributeNames, b[1] = name,
           IsNamespaceDecl(name) => DeclaresSome(name),
           \A a \in list[n].attrs : a[1] # name,
           NEW after, after = WithAttribute(list, b)
    PROVE  /\ \A k \in 0 .. n - 1 : EnvironmentOf(after, k) = EnvironmentOf(list, k)
           /\ ~IsNamespaceDecl(name) => EnvironmentOf(after, n) = EnvironmentOf(list, n)
           /\ IsNamespaceDecl(name) =>
                EnvironmentOf(after, n) =
                    Rebound(EnvironmentOf(list, n), DeclaredBy(name), b[2])
<1>1. n \in Nat \ {0}
    BY OpenFacts
<1>2. /\ \A k \in 1 .. n : k # n => after[k] = list[k]
      /\ after[n].attrs = list[n].attrs \cup {b}
    BY AttributeAdded
<1>3. ASSUME NEW k \in 0 .. n - 1 PROVE EnvironmentOf(after, k) = EnvironmentOf(list, k)
  <2>1. k \in Nat /\ \A j \in 1 .. k : j \in 1 .. n /\ j # n
    BY <1>1
  <2>2. \A j \in 1 .. k, prefix \in Prefix : Given(after, prefix, j) = Given(list, prefix, j)
    BY <1>2, <2>1 DEF Given
  <2>3. QED
    BY <2>1, <2>2, EnvSame
<1>4. \A prefix : Declares(b, prefix) <=> IsNamespaceDecl(name) /\ prefix = DeclaredBy(name)
    BY DeclaresOne
<1>5. ASSUME NEW prefix, ~Declares(b, prefix)
      PROVE  UriOf(after, prefix, n) = UriOf(list, prefix, n)
  <2>1. Given(after, prefix, n) = Given(list, prefix, n)
    BY <1>2, <1>5 DEF Given
  <2>2. UriOf(after, prefix, n - 1) = UriOf(list, prefix, n - 1)
    <3>1. n - 1 \in Nat /\ \A j \in 1 .. n - 1 : j \in 1 .. n /\ j # n
        BY <1>1
    <3>2. \A j \in 1 .. n - 1 : Given(after, prefix, j) = Given(list, prefix, j)
        BY <1>2, <3>1 DEF Given
    <3>3. QED
        BY <3>1, <3>2, UriSame
  <2>3. GivenUri(after, prefix, n) = GivenUri(list, prefix, n)
    BY <2>1 DEF GivenUri
  <2>4. QED
    BY <1>1, <2>1, <2>2, <2>3, UriStep
<1>6. CASE ~IsNamespaceDecl(name)
    BY <1>3, <1>4, <1>5, <1>6 DEF EnvironmentOf
<1>7. CASE IsNamespaceDecl(name)
  <2> DEFINE p == DeclaredBy(name)
  <2>1. p \in Prefix
    BY <1>7, DeclaredPrefix DEF DeclaredBy
  <2>2. Given(after, p, n) = {b}
    <3>1. ASSUME NEW a \in list[n].attrs PROVE ~Declares(a, p)
      <4>1. a[1] # name /\ a[1] = a[1]
        BY <3>1
      <4>2. Declares(a, p) => a[1] = name
        <5>1. name = Name(name.prefix, name.local)
            BY NamesAssumption DEF QName, Name
        <5>2. CASE name.prefix = ""
          <6>1. name = Name("", "xmlns") /\ p = ""
            BY <1>7, <5>2 DEF IsNamespaceDecl, DeclaredBy
          <6>2. QED
            BY <6>1 DEF Declares
        <5>3. CASE name.prefix # ""
          <6>1. Name("", "xmlns").prefix = ""
            BY DEF Name
          <6>2. name.prefix = "xmlns" /\ p = name.local /\ p # ""
            BY <1>7, <5>3, <6>1 DEF IsNamespaceDecl, DeclaredBy, DeclaresSome
          <6>3. QED
            BY <5>1, <6>2 DEF Declares
        <5>4. QED
            BY <5>2, <5>3
      <4>3. QED
        BY <4>1, <4>2
    <3>2. Declares(b, p)
        BY <1>4, <1>7
    <3>3. QED
        BY <1>2, <3>1, <3>2 DEF Given
  <2>3. UriOf(after, p, n) = b[2]
    <3>1. UriOf(after, p, n) = (CHOOSE a \in {b} : TRUE)[2]
        BY <1>1, <2>2, UriStep DEF GivenUri
    <3>2. (CHOOSE a \in {b} : TRUE) = b
        OBVIOUS
    <3>3. QED
        BY <3>1, <3>2
  <2>4. \A q \in Prefix : q # p => UriOf(after, q, n) = UriOf(list, q, n)
    BY <1>4, <1>5
  <2> HIDE DEF p
  <2>5. EnvironmentOf(after, n) = Rebound(EnvironmentOf(list, n), p, b[2])
    BY <2>1, <2>3, <2>4 DEF EnvironmentOf, Rebound
  <2>6. QED
    BY <1>3, <1>7, <2>5 DEF p
<1>8. QED
    BY <1>6, <1>7

\* An element that is closed leaves its parent's environment.
LEMMA EnvClosed ==
    ASSUME NEW list \in Seq(OpenElement), list # <<>>,
           NEW after, after = SubSeq(list, 1, Len(list) - 1)
    PROVE  \A k \in 0 .. Len(list) - 1 : EnvironmentOf(after, k) = EnvironmentOf(list, k)
<1>1. Len(list) \in Nat \ {0}
    BY LenProperties
<1>2. \A j \in 1 .. Len(list) - 1 : after[j] = list[j]
    BY <1>1
<1>3. ASSUME NEW k \in 0 .. Len(list) - 1 PROVE EnvironmentOf(after, k) = EnvironmentOf(list, k)
  <2>1. k \in Nat /\ \A j \in 1 .. k : j \in 1 .. Len(list) - 1
    BY <1>1
  <2>2. \A j \in 1 .. k, prefix \in Prefix : Given(after, prefix, j) = Given(list, prefix, j)
    BY <1>2, <2>1 DEF Given
  <2>3. QED
    BY <2>1, <2>2, EnvSame
<1>4. QED
    BY <1>3

\* Outside of the root element only the predeclared prefixes are bound.
LEMMA EnvOutside ==
    ASSUME NEW list
    PROVE  EnvironmentOf(list, 0) = Predeclared
<1>1. \A prefix : Levels(list, prefix, 0) = {}
    BY DEF Levels
<1>2. \A prefix : UriOf(list, prefix, 0) = Predeclared[prefix]
    BY <1>1 DEF UriOf
<1>3. QED
    BY <1>2 DEF EnvironmentOf, Predeclared
-----------------------------------------------------------------------------
(* What the application hears, and what is written                         *)

\* The attribute whose value is being passed on is not one the tag has.
AttributeIsNew == tag = "value" => \A a \in Top.attrs : a[1] # attr.name

\* A document begins outside of every element, and with no failure.
NewDocument == doc = "new" => open = <<>> /\ tag = "none" /\ ~failed

Heard ==
    ~failed => \A k \in 0 .. Len(open) : app.scopes[k + 1] = EnvironmentOf(open, k)

HeardInv == AttributeIsNew /\ NewDocument /\ Heard

\* No attribute is given twice.
LEMMA AttributeIsNewStep ==
    ASSUME FInv, AttributeIsNew, Next
    PROVE  AttributeIsNew'
<1>1. CASE StartDocument
    BY <1>1 DEF StartDocument, AttributeIsNew, Top
<1>2. CASE StartAttribute
  <2>1. PICK name \in AttributeNames \ NamesIn(Top) : attr' = [name |-> name, value |-> <<>>]
    BY <1>2 DEF StartAttribute
  <2>2. attr'.name = name /\ open' = open
    BY <1>2, <2>1 DEF StartAttribute
  <2>3. \A a \in Top.attrs : a[1] # name
    BY <2>1 DEF NamesIn
  <2>4. QED
    BY <2>2, <2>3 DEF AttributeIsNew, Top
<1>3. CASE AttributeValueContent
  <2>1. PICK text \in Seq(STRING), end \in BOOLEAN :
             /\ attr' = IF end THEN NoAttr ELSE [attr EXCEPT !.value = text]
             /\ tag' = IF end THEN "tag" ELSE "value"
             /\ ~end => open' = open
    BY <1>3, ValueIs
  <2>2. CASE end
    BY <2>1, <2>2 DEF AttributeIsNew
  <2>3. CASE ~end
    <3>1. attr'.name = attr.name /\ open' = open /\ tag = "value"
        BY <1>3, <2>1, <2>3 DEF FInv, ScannerType, AttributeValueContent
    <3>2. QED
        BY <3>1 DEF AttributeIsNew, Top
  <2>4. QED
    BY <2>2, <2>3
<1>4. CASE StartElement \/ EndAttributes \/ EndElement \/ Reset
    BY <1>4 DEF StartElement, EndAttributes, EndElement, Reset, AttributeIsNew
<1>5. QED
    BY <1>1, <1>2, <1>3, <1>4 DEF Next

\* Only a reset begins another document.
LEMMA NewDocumentStep ==
    ASSUME FInv, NewDocument, Next
    PROVE  NewDocument'
<1>1. CASE Reset
    BY <1>1 DEF Reset, NewDocument
<1>2. CASE StartDocument \/ StartElement
    BY <1>2 DEF StartDocument, StartElement, NewDocument
<1>3. CASE StartAttribute \/ AttributeValueContent \/ EndAttributes
  <2>1. tag # "none" /\ doc' = doc
    BY <1>3 DEF StartAttribute, AttributeValueContent, EndAttributes
  <2>2. QED
    BY <2>1 DEF NewDocument
<1>4. CASE EndElement
  <2>1. open # <<>> /\ (doc' = "done" \/ doc' = doc)
    BY <1>4 DEF EndElement
  <2>2. QED
    BY <2>1 DEF NewDocument
<1>5. QED
    BY <1>1, <1>2, <1>3, <1>4 DEF Next

\* A declaration that is made is one that can be.
LEMMA DeclarationMade ==
    ASSUME FInv, ~Lenient, ~failed', NEW name \in AttributeNames, IsNamespaceDecl(name),
           NEW uri \in Uri, DeclareNamespace(name, uri)
    PROVE  /\ ~Reserved(name, uri) /\ DeclaresSome(name)
           /\ DeclaredBy(name) \in Prefix
           /\ DeclarePrefix(DeclaredBy(name), uri)
           /\ app'.scopes = Redeclared(app.scopes, DeclaredBy(name), uri)
<1>1. ~Reserved(name, uri)
  <2>1. ASSUME Reserved(name, uri) PROVE FALSE
    <3>1. Refuse
        BY <2>1 DEF DeclareNamespace
    <3>2. QED
        BY <3>1 DEF Refuse
  <2>2. QED
    BY <2>1
<1>2. DeclaresSome(name)
    BY <1>1 DEF Reserved, DeclaresSome
<1>3. DeclaredBy(name) \in Prefix
    BY DeclaredPrefix DEF DeclaredBy
<1>4. /\ DeclarePrefix(DeclaredBy(name), uri) /\ failed' = failed
      /\ \/ app' = Hears(app, DeclaredBy(name), uri)
         \/ app' = Attribute(Hears(app, DeclaredBy(name), uri), name)
    BY <1>1 DEF DeclareNamespace, DeclaredBy
<1>5. app \in App /\ Len(app.scopes) > 0
    BY <1>4, GoingOn
<1>6. Hears(app, DeclaredBy(name), uri) \in App
    BY <1>3, <1>5, AppTypes
<1>7. app'.scopes = Hears(app, DeclaredBy(name), uri).scopes
    BY <1>4, <1>6, AppRecords
<1>8. QED
    BY <1>1, <1>2, <1>3, <1>4, <1>5, <1>7, AppRecords

\* A scope that changes is the innermost.
LEMMA RedeclaredIs ==
    ASSUME NEW list \in Seq([Prefix -> Uri]), NEW n \in Nat, Len(list) = n + 1,
           NEW p \in Prefix, NEW uri \in Uri
    PROVE  /\ \A k \in 0 .. n - 1 : Redeclared(list, p, uri)[k + 1] = list[k + 1]
           /\ Redeclared(list, p, uri)[n + 1] = Rebound(list[n + 1], p, uri)
<1>1. DOMAIN list = 1 .. n + 1 /\ n + 1 \in DOMAIN list
    OBVIOUS
<1>2. \A k \in 0 .. n - 1 : k + 1 \in DOMAIN list /\ k + 1 # n + 1
    BY <1>1
<1>3. QED
    BY <1>1, <1>2 DEF Redeclared, Rebound

\* The scopes of an application that hears what the innermost of a list of
\* open elements is given.
Follows(scopes, list) == \A k \in 0 .. Len(list) : scopes[k + 1] = EnvironmentOf(list, k)

\* Hearing a declaration keeps pace with it.
LEMMA FollowsGiven ==
    ASSUME NEW list \in Seq(OpenElement), list # <<>>,
           NEW scopes \in Seq([Prefix -> Uri]), Len(scopes) = Len(list) + 1,
           Follows(scopes, list),
           NEW b, NEW name \in AttributeNames, b[1] = name, b[2] \in Uri,
           IsNamespaceDecl(name) => DeclaresSome(name) /\ DeclaredBy(name) \in Prefix,
           \A a \in list[Len(list)].attrs : a[1] # name
    PROVE  Follows(IF IsNamespaceDecl(name) THEN Redeclared(scopes, DeclaredBy(name), b[2])
                                            ELSE scopes,
                   WithAttribute(list, b))
<1> DEFINE after == WithAttribute(list, b)
           n == Len(list)
           told == Redeclared(scopes, DeclaredBy(name), b[2])
<1>1. n \in Nat \ {0} /\ Len(after) = n
    BY OpenFacts, AttributeAdded
<1>2. \A k \in 0 .. n - 1 : EnvironmentOf(after, k) = EnvironmentOf(list, k)
    BY EnvGiven
<1>3. CASE ~IsNamespaceDecl(name)
  <2>1. EnvironmentOf(after, n) = EnvironmentOf(list, n)
    BY <1>3, EnvGiven
  <2> HIDE DEF after, n
  <2>2. ASSUME NEW k \in 0 .. n PROVE EnvironmentOf(after, k) = EnvironmentOf(list, k)
    BY <1>1, <1>2, <2>1
  <2>3. Follows(scopes, after)
    BY <1>1, <2>2 DEF Follows, n
  <2>4. QED
    BY <1>3, <2>3 DEF after
<1>4. CASE IsNamespaceDecl(name)
  <2> DEFINE p == DeclaredBy(name)
  <2>p. DeclaresSome(name) /\ p \in Prefix
    BY <1>4
  <2>1. EnvironmentOf(after, n) = Rebound(EnvironmentOf(list, n), p, b[2])
    BY <1>4, <2>p, EnvGiven
  <2> HIDE DEF p
  <2>2. /\ \A k \in 0 .. n - 1 : told[k + 1] = scopes[k + 1]
        /\ told[n + 1] = Rebound(scopes[n + 1], p, b[2])
    BY <1>1, <2>p, RedeclaredIs DEF p
  <2>3. \A k \in 0 .. n : scopes[k + 1] = EnvironmentOf(list, k)
    BY DEF Follows
  <2> HIDE DEF after, n, told
  <2>4. ASSUME NEW k \in 0 .. n PROVE told[k + 1] = EnvironmentOf(after, k)
    <3>1. CASE k = n
        BY <1>1, <2>1, <2>2, <2>3, <3>1
    <3>2. CASE k # n
      <4>1. k \in 0 .. n - 1
        BY <1>1, <3>2
      <4>2. QED
        BY <1>2, <2>2, <2>3, <4>1
    <3>3. QED
        BY <3>1, <3>2
  <2>5. Follows(told, after)
    BY <1>1, <2>4 DEF Follows
  <2>6. QED
    BY <1>4, <2>5 DEF after, told, p
<1>5. QED
    BY <1>3, <1>4

\* The application's scopes follow a value.
LEMMA HeardAfterValue ==
    ASSUME FInv, AttributeIsNew, Heard, ~Lenient, AttributeValueContent
    PROVE  Heard'
<1> SUFFICES ASSUME ~failed' PROVE Follows(app'.scopes, open')
    BY DEF Heard, Follows
<1>1. /\ ~failed /\ open # <<>> /\ attr.name \in AttributeNames
      /\ current_is_namespace_decl <=> IsNamespaceDecl(attr.name)
      /\ \A a \in open[Len(open)].attrs : a[1] # attr.name
    BY DEF AttributeValueContent, FInv, TagIsOpen, ValueFollowed, AttributeIsNew, Top
<1>2. /\ open \in Seq(OpenElement)
      /\ app.scopes \in Seq([Prefix -> Uri]) /\ Len(app.scopes) = Len(open) + 1
      /\ Follows(app.scopes, open)
    BY <1>1, GoingOn DEF App, Heard, Follows
<1>3. PICK value \in Uri, text \in Seq(STRING), end \in BOOLEAN :
             /\ end => text = value
             /\ open' = IF end THEN [open EXCEPT ![Len(open)].attrs =
                                        @ \cup {<<attr.name, text>>}]
                        ELSE open
             /\ \/ /\ current_is_namespace_decl /\ ~end
                   /\ UNCHANGED <<tracker, app, failed>>
                \/ /\ current_is_namespace_decl /\ end
                   /\ DeclareNamespace(attr.name, value)
                \/ /\ ~current_is_namespace_decl
                   /\ UNCHANGED <<tracker, app, failed>>
    BY ValueIs
<1>4. CASE ~end
    BY <1>2, <1>3, <1>4
<1>5. CASE end
  <2> DEFINE b == <<attr.name, value>>
  <2>1. open' = WithAttribute(open, b) /\ b[1] = attr.name /\ b[2] = value
    BY <1>3, <1>5 DEF WithAttribute
  <2> HIDE DEF b
  <2>2. CASE ~IsNamespaceDecl(attr.name)
    <3>1. UNCHANGED app
        BY <1>1, <1>3, <1>5, <2>2
    <3>2. QED
        BY <1>1, <1>2, <2>1, <2>2, <3>1, FollowsGiven
  <2>3. CASE IsNamespaceDecl(attr.name)
    <3>1. DeclareNamespace(attr.name, value)
        BY <1>1, <1>3, <1>5, <2>3
    <3>2. /\ DeclaresSome(attr.name) /\ DeclaredBy(attr.name) \in Prefix
          /\ app'.scopes = Redeclared(app.scopes, DeclaredBy(attr.name), value)
        BY <1>1, <2>3, <3>1, DeclarationMade
    <3>3. QED
        BY <1>1, <1>2, <2>1, <2>3, <3>2, FollowsGiven
  <2>4. QED
    BY <2>2, <2>3
<1>6. QED
    BY <1>4, <1>5

\* An element that is opened, or closed.
LEMMA FollowsOpened ==
    ASSUME NEW list \in Seq(OpenElement), NEW name \in ElementNames,
           NEW scopes \in Seq([Prefix -> Uri]), Len(scopes) = Len(list) + 1,
           Follows(scopes, list)
    PROVE  Follows(Append(scopes, scopes[Len(scopes)]), Append(list, Element(name)))
<1> DEFINE after == Append(list, Element(name))
           told == Append(scopes, scopes[Len(scopes)])
           n == Len(list)
<1>1. n \in Nat /\ Len(after) = n + 1 /\ n + 1 \in DOMAIN scopes
    BY LenProperties, AppendProperties
<1>2. /\ \A k \in 0 .. n : told[k + 1] = scopes[k + 1]
      /\ told[n + 1 + 1] = scopes[n + 1]
  <2>1. scopes[Len(scopes)] \in [Prefix -> Uri]
    BY <1>1, ElementOfSeq
  <2>2. \A k \in 0 .. n : k + 1 \in 1 .. Len(scopes)
    BY <1>1
  <2>3. QED
    BY <1>1, <2>1, <2>2, AppendProperties
<1>3. /\ \A k \in 0 .. n : EnvironmentOf(after, k) = EnvironmentOf(list, k)
      /\ EnvironmentOf(after, n + 1) = EnvironmentOf(list, n)
    BY EnvOpened
<1>4. \A k \in 0 .. n : scopes[k + 1] = EnvironmentOf(list, k)
    BY DEF Follows
<1> HIDE DEF after, told, n
<1>5. ASSUME NEW k \in 0 .. n + 1 PROVE told[k + 1] = EnvironmentOf(after, k)
  <2>1. CASE k = n + 1
    BY <1>1, <1>2, <1>3, <1>4, <2>1
  <2>2. CASE k # n + 1
    <3>1. k \in 0 .. n
        BY <1>1, <2>2
    <3>2. QED
        BY <1>2, <1>3, <1>4, <3>1
  <2>3. QED
    BY <2>1, <2>2
<1>6. Follows(told, after)
    BY <1>1, <1>5 DEF Follows
<1>7. QED
    BY <1>6 DEF told, after

\* So does an element that ends.
LEMMA FollowsClosed ==
    ASSUME NEW list \in Seq(OpenElement), list # <<>>,
           NEW scopes \in Seq([Prefix -> Uri]), Len(scopes) = Len(list) + 1,
           Follows(scopes, list)
    PROVE  Follows(SubSeq(scopes, 1, Len(scopes) - 1), SubSeq(list, 1, Len(list) - 1))
<1> DEFINE after == SubSeq(list, 1, Len(list) - 1)
           told == SubSeq(scopes, 1, Len(scopes) - 1)
           n == Len(list)
<1>1. n \in Nat \ {0} /\ Len(after) = n - 1
    BY OpenFacts, ButLast
<1>2. \A k \in 0 .. n - 1 : told[k + 1] = scopes[k + 1]
    BY <1>1
<1>3. \A k \in 0 .. n - 1 : EnvironmentOf(after, k) = EnvironmentOf(list, k)
    BY EnvClosed
<1>4. \A k \in 0 .. n : scopes[k + 1] = EnvironmentOf(list, k)
    BY DEF Follows
<1> HIDE DEF after, told, n
<1>5. \A k \in 0 .. n - 1 : told[k + 1] = EnvironmentOf(after, k)
    BY <1>1, <1>2, <1>3, <1>4
<1>6. Follows(told, after)
    BY <1>1, <1>5 DEF Follows
<1>7. QED
    BY <1>6 DEF told, after

\* Both begin with the predeclared prefixes.
LEMMA FollowsNone == Follows(<<Predeclared>>, <<>>)
<1>1. Len(<<>>) = 0 /\ <<Predeclared>>[0 + 1] = Predeclared
    OBVIOUS
<1>2. EnvironmentOf(<<>>, 0) = Predeclared
    BY EnvOutside
<1>3. QED
    BY <1>1, <1>2 DEF Follows

\* Each step keeps the application's scopes as the document has them.
LEMMA HeardStep ==
    ASSUME FInv, AttributeIsNew, Heard, ~Lenient, Next
    PROVE  Heard'
<1> USE DEF Heard
<1>1. /\ open \in Seq(OpenElement) /\ app \in App
      /\ ~failed => /\ app.scopes \in Seq([Prefix -> Uri])
                    /\ Len(app.scopes) = Len(open) + 1 /\ Follows(app.scopes, open)
    BY GoingOn DEF App, Follows
<1>2. SUFFICES ASSUME ~failed' PROVE Follows(app'.scopes, open')
    BY DEF Follows
<1> HIDE DEF Heard
<1>3. CASE StartDocument
    BY <1>1, <1>2, <1>3 DEF StartDocument
<1>4. CASE StartElement
  <2>1. PICK q_name \in ElementNames :
            /\ open' = Append(open, Element(q_name))
            /\ app' = IF failed' THEN app ELSE Starts(app, q_name)
    BY <1>4 DEF StartElement
  <2>2. ~failed /\ app'.scopes = Append(app.scopes, app.scopes[Len(app.scopes)])
    BY <1>1, <1>2, <1>4, <2>1, AppRecords DEF StartElement
  <2>3. QED
    BY <1>1, <2>1, <2>2, FollowsOpened
<1>5. CASE StartAttribute
  <2>1. ~failed /\ open' = open
    BY <1>5 DEF StartAttribute
  <2>2. app'.scopes = app.scopes
    <3>1. PICK name \in AttributeNames : StartDeclaration(name) \/ StartPlainAttribute(name)
        BY <1>5 DEF StartAttribute
    <3>2. app' = app \/ app' = Attribute(app, name)
        BY <3>1 DEF StartDeclaration, StartPlainAttribute
    <3>3. QED
        BY <1>1, <3>2, AppRecords
  <2>3. QED
    BY <1>1, <2>1, <2>2
<1>6. CASE AttributeValueContent
    BY <1>2, <1>6, HeardAfterValue DEF Heard, Follows
<1>7. CASE EndAttributes
    BY <1>1, <1>2, <1>7, AppRecords DEF EndAttributes
<1>8. CASE EndElement
  <2>1. ~failed /\ open # <<>> /\ open' = SubSeq(open, 1, Len(open) - 1)
    BY <1>8 DEF EndElement
  <2>2. app'.scopes = SubSeq(app.scopes, 1, Len(app.scopes) - 1)
    BY <1>1, <1>8, AppRecords DEF EndElement
  <2>3. QED
    BY <1>1, <2>1, <2>2, FollowsClosed
<1>9. CASE Reset
    BY <1>9, FollowsNone, FreshAppType DEF Reset
<1>10. QED
    BY <1>3, <1>4, <1>5, <1>6, <1>7, <1>8, <1>9 DEF Next

\* The invariant of what is heard holds throughout.
LEMMA HeardInvAlways == ASSUME ~Lenient PROVE Spec => []HeardInv
<1>1. Init => HeardInv
  <2>1. SUFFICES ASSUME Init PROVE HeardInv
    OBVIOUS
  <2>2. Follows(app.scopes, open)
    BY <2>1, FollowsNone, FreshAppType DEF Init
  <2>3. QED
    BY <2>1, <2>2 DEF Init, HeardInv, AttributeIsNew, NewDocument, Heard, Follows
<1>2. FInv /\ HeardInv /\ [Next]_vars => HeardInv'
  <2>1. SUFFICES ASSUME FInv, HeardInv, [Next]_vars PROVE HeardInv'
    OBVIOUS
  <2>2. CASE Next
    BY <2>1, <2>2, AttributeIsNewStep, NewDocumentStep, HeardStep DEF HeardInv
  <2>3. CASE UNCHANGED vars
    <3>1. UNCHANGED <<doc, open, tag, attr, failed, app>>
        BY <2>3 DEF vars, scanner
    <3>2. QED
        BY <2>1, <3>1 DEF HeardInv, AttributeIsNew, NewDocument, Heard, Top
  <2>4. QED
    BY <2>1, <2>2, <2>3
<1>3. QED
    BY <1>1, <1>2, FInvAlways, PTL DEF Spec

\* What an application learns of prefixes from namespace events is what the
\* document declares, for every element that is open, in whatever pieces the
\* values came and whatever documents, abandoned or not, came before
\* (namespace.rs, attribute_value_content and declare_namespace).
THEOREM ApplicationHearsDeclarations ==
    ASSUME ~Lenient PROVE Spec => []HeardAsWritten
<1>1. FInv /\ HeardInv => HeardAsWritten
  <2>1. SUFFICES ASSUME FInv, HeardInv, ~failed, NEW k \in DOMAIN open
                 PROVE  app.scopes[k + 1] = EnvironmentOf(open, k)
    BY DEF HeardAsWritten
  <2>2. k \in 0 .. Len(open)
    BY <2>1, GoingOn
  <2>3. QED
    BY <2>1, <2>2 DEF HeardInv, Heard
<1>2. QED
    BY <1>1, FInvAlways, HeardInvAlways, PTL
-----------------------------------------------------------------------------
(* The verdict on a tag                                                    *)

NamesOfTag == NamesIn(Top) \cup IF tag = "value" THEN {attr.name} ELSE {}

\* The attributes held for end_attributes are those of the tag with a prefix,
\* each of them once.
Held ==
    ~failed /\ tag # "none" =>
        /\ element_qname = Top.name
        /\ \A i, j \in DOMAIN pending_attr_qnames :
            pending_attr_qnames[i] = pending_attr_qnames[j] => i = j
        /\ \A n : Pending(n) <=> n \in Prefixed(NamesOfTag)

\* What is known of the verdict in the middle of a tag.
Judged ==
    Clean /\ xml11 = (version = "1.1") =>
        IF ~failed
        THEN /\ \A k \in DOMAIN open : k < Len(open) \/ tag = "none" => TagLegal(open, version, k)
             /\ tag # "none" => LegalSoFar(Top, version)
             /\ tag = "value" /\ ~IsNamespaceDecl(attr.name) => WellFormedName(attr.name)
        ELSE IF tag = "none" THEN ~TagLegal(open, version, Len(open))
        ELSE \/ ~LegalSoFar(Top, version)
             \/ tag = "value" /\ ~WellFormedName(attr.name)

VerdictInv == Held /\ Judged

\* Without a lenient application a refusal ends the parse.
LEMMA RefusalEnds ==
    ASSUME ~Lenient, Refuse
    PROVE  failed'
BY DEF Refuse

\* The names a tag has after a value.
LEMMA NamesAfterValue ==
    ASSUME FInv, AttributeValueContent
    PROVE  /\ NamesOfTag' = NamesOfTag /\ Top'.name = Top.name
           /\ tag = "value" /\ tag' # "none"
<1>1. tag = "value" /\ open # <<>> /\ open \in Seq(OpenElement)
    BY DEF AttributeValueContent, FInv, TagIsOpen, ScannerType
<1>2. PICK value, text \in Seq(STRING), end \in BOOLEAN :
             /\ attr' = IF end THEN NoAttr ELSE [attr EXCEPT !.value = text]
             /\ tag' = IF end THEN "tag" ELSE "value"
             /\ open' = IF end THEN [open EXCEPT ![Len(open)].attrs =
                                        @ \cup {<<attr.name, text>>}]
                        ELSE open
    BY ValueIs
<1>3. CASE ~end
  <2>1. attr'.name = attr.name
    BY <1>2, <1>3 DEF FInv, ScannerType
  <2>2. QED
    BY <1>1, <1>2, <1>3, <2>1 DEF NamesOfTag, Top
<1>4. CASE end
  <2> DEFINE b == <<attr.name, text>>
  <2>1. open' = WithAttribute(open, b) /\ b[1] = attr.name /\ tag' = "tag"
    BY <1>2, <1>4 DEF WithAttribute
  <2> HIDE DEF b
  <2>2. /\ Len(open') = Len(open)
        /\ open'[Len(open)].attrs = open[Len(open)].attrs \cup {b}
        /\ open'[Len(open)].name = open[Len(open)].name
    BY <1>1, <2>1, AttributeAdded
  <2>3. NamesIn(Top)' = NamesIn(Top) \cup {attr.name}
    BY <2>1, <2>2 DEF NamesIn, Top
  <2>4. QED
    BY <1>1, <2>1, <2>2, <2>3 DEF NamesOfTag, Top
<1>5. QED
    BY <1>3, <1>4

\* Each step holds the attributes it passes on.
LEMMA HeldStep ==
    ASSUME FInv, Held, ~Lenient, Next
    PROVE  Held'
<1>1. CASE StartElement
  <2>1. PICK q_name \in ElementNames :
            open' = Append(open, Element(q_name)) /\ element_qname' = q_name
    BY <1>1 DEF StartElement
  <2>2. Top' = Element(q_name)
    BY <2>1, GoingOn, AppendProperties DEF Top
  <2>3. NamesIn(Element(q_name)) = {} /\ Element(q_name).name = q_name
    BY DEF NamesIn, Element
  <2>4. tag' = "tag" /\ pending_attr_qnames' = <<>>
    BY <1>1 DEF StartElement
  <2>5. NamesOfTag' = {}
    BY <2>2, <2>3, <2>4 DEF NamesOfTag, NamesIn
  <2>6. \A n : ~Pending(n)' /\ n \notin Prefixed(NamesOfTag)'
    BY <2>4, <2>5 DEF Pending, Prefixed
  <2>7. QED
    BY <2>1, <2>2, <2>3, <2>4, <2>6 DEF Held
<1>2. CASE StartAttribute
  <2>1. /\ ~failed /\ tag = "tag" /\ tag' = "value"
        /\ UNCHANGED <<open, element_qname>>
    BY <1>2 DEF StartAttribute
  <2>2. PICK name \in AttributeNames \ NamesIn(Top) :
            /\ attr' = [name |-> name, value |-> <<>>]
            /\ StartDeclaration(name) \/ StartPlainAttribute(name)
    BY <1>2 DEF StartAttribute
  <2>3. NamesOfTag = NamesIn(Top) /\ NamesOfTag' = NamesIn(Top) \cup {name}
    BY <2>1, <2>2 DEF NamesOfTag, NamesIn, Top
  <2>4. /\ element_qname = Top.name
        /\ \A i, j \in DOMAIN pending_attr_qnames :
            pending_attr_qnames[i] = pending_attr_qnames[j] => i = j
        /\ \A n : Pending(n) <=> n \in Prefixed(NamesOfTag)
    BY <2>1 DEF Held
  <2>5. CASE pending_attr_qnames' = pending_attr_qnames /\ name \notin Prefixed({name})
    <3>1. Prefixed(NamesOfTag') = Prefixed(NamesOfTag)
        BY <2>3, <2>5 DEF Prefixed
    <3>2. \A n : Pending(n)' <=> n \in Prefixed(NamesOfTag)'
        BY <2>4, <2>5, <3>1 DEF Pending, Prefixed
    <3>3. QED
        BY <2>1, <2>4, <2>5, <3>2 DEF Held, Top
  <2>6. CASE /\ pending_attr_qnames' = Append(pending_attr_qnames, name)
             /\ name \in Prefixed({name})
    <3> DEFINE P == pending_attr_qnames
               m == Len(pending_attr_qnames)
    <3>1. P \in Seq(AttributeNames) /\ m \in Nat /\ DOMAIN P = 1 .. m
        BY LenProperties DEF FInv, FilterType
    <3>2. /\ DOMAIN P' = 1 .. m + 1 /\ P'[m + 1] = name
          /\ \A i \in 1 .. m : P'[i] = P[i]
        BY <2>6, <3>1, AppendProperties
    <3>3. \A i \in 1 .. m : P[i] # name
      <4>1. ~Pending(name)
        BY <2>2, <2>3, <2>4 DEF Prefixed
      <4>2. QED
        BY <3>1, <4>1 DEF Pending
    <3>4. \A n : Pending(n)' <=> Pending(n) \/ n = name
        BY <3>1, <3>2 DEF Pending
    <3>5. \A n : n \in Prefixed(NamesOfTag') <=> n \in Prefixed(NamesOfTag) \/ n = name
        BY <2>3, <2>6 DEF Prefixed
    <3>6. \A n : Pending(n)' <=> n \in Prefixed(NamesOfTag)'
        BY <2>4, <3>4, <3>5 DEF Prefixed
    <3>7. \A i, j \in DOMAIN P' : P'[i] = P'[j] => i = j
        BY <2>4, <3>1, <3>2, <3>3
    <3>8. QED
        BY <2>1, <2>4, <3>6, <3>7 DEF Held, Top
  <2>7. CASE StartDeclaration(name)
    BY <2>5, <2>7 DEF StartDeclaration, Prefixed
  <2>8. CASE StartPlainAttribute(name) /\ ~failed'
    <3>1. ValidQName(name) /\ ~IsNamespaceDecl(name)
        BY <2>8, RefusalEnds DEF StartPlainAttribute
    <3>2. pending_attr_qnames' = IF ~HasColon(name) THEN pending_attr_qnames
                                 ELSE Append(pending_attr_qnames, name)
        BY <2>8 DEF StartPlainAttribute
    <3>3. HasColon(name) <=> name \in Prefixed({name})
        BY <3>1 DEF HasColon, Prefixed
    <3>4. QED
        BY <2>5, <2>6, <3>2, <3>3
  <2>9. CASE failed'
    BY <2>9 DEF Held
  <2>10. QED
    BY <2>2, <2>7, <2>8, <2>9
<1>3. CASE AttributeValueContent
  <2>1. NamesOfTag' = NamesOfTag /\ Top'.name = Top.name /\ tag # "none"
    BY <1>3, NamesAfterValue
  <2>2. ~failed /\ UNCHANGED <<element_qname, pending_attr_qnames>>
    BY <1>3 DEF AttributeValueContent
  <2>3. Prefixed(NamesOfTag)' = Prefixed(NamesOfTag)
    BY <2>1 DEF Prefixed
  <2>4. QED
    BY <2>1, <2>2, <2>3 DEF Held, Pending
<1>4. CASE StartDocument \/ EndAttributes \/ EndElement \/ Reset
  <2>1. CASE StartDocument
    <3>1. UNCHANGED <<open, tag, attr, failed, element_qname, pending_attr_qnames>>
        BY <2>1 DEF StartDocument
    <3>2. NamesOfTag' = NamesOfTag /\ Top' = Top
        BY <3>1 DEF NamesOfTag, NamesIn, Top
    <3>3. QED
        BY <3>1, <3>2 DEF Held, Pending, Prefixed
  <2>2. CASE EndAttributes \/ EndElement \/ Reset
    BY <2>2 DEF EndAttributes, EndElement, Reset, Held
  <2>3. QED
    BY <1>4, <2>1, <2>2
<1>5. QED
    BY <1>1, <1>2, <1>3, <1>4 DEF Next

\* What declare_namespace refuses is what no document may declare.
LEMMA ReservedIsIllegal ==
    ASSUME NEW b, NEW name \in AttributeNames, b[1] = name, IsNamespaceDecl(name),
           NEW v, xml11 = (v = "1.1")
    PROVE  Reserved(name, b[2]) <=> ~LegalDeclaration(b, v)
<1>1. XmlUri # <<>> /\ XmlUri # XmlnsUri
  <2>1. Len(XmlUri) = 2 /\ Len(<<>>) = 0
    BY DEF XmlUri
  <2>2. XmlUri[2] = "1998" /\ XmlnsUri[2] = "2000"
    BY DEF XmlUri, XmlnsUri
  <2>3. XmlUri # <<>>
    BY <2>1
  <2>4. XmlUri # XmlnsUri
    BY <2>2
  <2>5. QED
    BY <2>3, <2>4
<1>2. CASE name.prefix = ""
    BY <1>2 DEF Reserved, LegalDeclaration
<1>3. CASE name.prefix # ""
  <2> DEFINE l == name.local
             u == b[2]
  <2>1. Reserved(name, u) <=> \/ l \in {"", "xmlns"}
                              \/ u = <<>> /\ ~xml11
                              \/ (l = "xml") # (u = XmlUri)
                              \/ u = XmlnsUri
    BY <1>3 DEF Reserved
  <2>2. CASE l = "xml"
    <3>1. LegalDeclaration(b, v) <=> u = XmlUri
        BY <1>3, <2>2 DEF LegalDeclaration
    <3> HIDE DEF l, u
    <3>2. QED
        BY <1>1, <2>1, <2>2, <3>1 DEF u
  <2>3. CASE l \in {"", "xmlns"}
    <3>1. ~LegalDeclaration(b, v)
        BY <1>3, <2>3 DEF LegalDeclaration
    <3>2. QED
        BY <2>1, <2>3, <3>1
  <2>4. CASE l \notin {"", "xml", "xmlns"}
    <3>1. LegalDeclaration(b, v) <=> u \notin {XmlUri, XmlnsUri} /\ (u = <<>> => v = "1.1")
        BY <1>3, <2>4 DEF LegalDeclaration
    <3> HIDE DEF l, u
    <3>2. QED
        BY <2>1, <2>4, <3>1 DEF u
  <2>5. QED
    BY <2>2, <2>3, <2>4
<1>4. QED
    BY <1>2, <1>3

\* The verdict on a tag depends on the tag and its environment.
LEMMA SameTag ==
    ASSUME NEW list, NEW after, NEW k, NEW v, after[k] = list[k],
           EnvironmentOf(after, k) = EnvironmentOf(list, k)
    PROVE  TagLegal(after, v, k) <=> TagLegal(list, v, k)
BY DEF TagLegal

\* An element that is open legally stays so when others open, are given
\* attributes, and close.
LEMMA SameTagsOpened ==
    ASSUME NEW list \in Seq(OpenElement), NEW v, NEW name \in ElementNames,
           NEW k \in 1 .. Len(list)
    PROVE  TagLegal(Append(list, Element(name)), v, k) <=> TagLegal(list, v, k)
<1>1. Element(name) \in OpenElement /\ k \in 0 .. Len(list)
    BY LenProperties DEF Element, OpenElement
<1>2. Append(list, Element(name))[k] = list[k]
    BY <1>1, AppendProperties
<1>3. EnvironmentOf(Append(list, Element(name)), k) = EnvironmentOf(list, k)
    BY <1>1, EnvOpened
<1>4. QED
    BY <1>2, <1>3, SameTag

\* An attribute of the innermost element does not touch the others.
LEMMA SameTagsGiven ==
    ASSUME NEW list \in Seq(OpenElement), NEW v, list # <<>>,
           NEW k \in 1 .. Len(list) - 1, NEW b, b[1] \in AttributeNames,
           \A a \in list[Len(list)].attrs : a[1] # b[1],
           IsNamespaceDecl(b[1]) => DeclaresSome(b[1])
    PROVE  TagLegal(WithAttribute(list, b), v, k) <=> TagLegal(list, v, k)
<1>1. k \in 0 .. Len(list) - 1 /\ k \in 1 .. Len(list) /\ k # Len(list)
    BY LenProperties
<1>2. WithAttribute(list, b)[k] = list[k]
    BY <1>1, AttributeAdded
<1>3. EnvironmentOf(WithAttribute(list, b), k) = EnvironmentOf(list, k)
    BY <1>1, EnvGiven
<1>4. QED
    BY <1>2, <1>3, SameTag

\* Nor does the end of the innermost element.
LEMMA SameTagsClosed ==
    ASSUME NEW list \in Seq(OpenElement), NEW v, list # <<>>,
           NEW k \in 1 .. Len(list) - 1
    PROVE  TagLegal(SubSeq(list, 1, Len(list) - 1), v, k) <=> TagLegal(list, v, k)
<1>1. SubSeq(list, 1, Len(list) - 1)[k] = list[k] /\ k \in 0 .. Len(list) - 1
    BY LenProperties
<1>2. EnvironmentOf(SubSeq(list, 1, Len(list) - 1), k) = EnvironmentOf(list, k)
    BY <1>1, EnvClosed
<1>3. QED
    BY <1>1, <1>2, SameTag

\* end_attributes resolves a tag exactly if the tag is legal where it stands.
LEMMA ResolvedIfLegal ==
    ASSUME FInv, SInv, Heard, Held, Clean, EndAttributes
    PROVE  Resolved <=>
             LegalIn(EnvironmentOf(open, Len(open)), Top.name, NamesIn(Top))
<1> DEFINE env == EnvironmentOf(open, Len(open))
           names == NamesIn(Top)
           held == pending_attr_qnames
<1>1. ~failed /\ tag = "tag"
    BY DEF EndAttributes
<1>2. \A prefix \in Prefix : env[prefix] = GetUri(prefix)
  <2>1. TrackerInv /\ scope_depth \in Nat /\ scope_depth = Len(open)
    BY ScopesNowSteps DEF FInv, Clean
  <2>2. app.scopes[Len(open) + 1] = env
    BY <1>1, <2>1 DEF Heard
  <2>3. app.scopes = ScopesNow
    BY <1>1 DEF SInv, ScopesAgree
  <2>4. ScopesNow[scope_depth + 1] = ScopeAt(bindings, scope_depth)
    BY <2>1 DEF ScopesNow
  <2> HIDE DEF env
  <2>5. env = ScopeAt(bindings, scope_depth)
    BY <2>1, <2>2, <2>3, <2>4
  <2>6. QED
    BY <2>1, <2>5, GetUriIs DEF ScopeAt
<1>3. /\ element_qname = Top.name
      /\ \A i, j \in DOMAIN held : held[i] = held[j] => i = j
      /\ \A n : Pending(n) <=> n \in Prefixed(names)
    BY <1>1 DEF Held, NamesOfTag
<1>4. element_qname.prefix \in Prefix
  <2>1. element_qname \in ElementNames \cup {NoName}
    BY DEF FInv, FilterType
  <2>2. NoName.prefix \in Prefix
    BY PrefixAssumption DEF NoName, Name
  <2>3. \A name \in ElementNames : name.prefix \in Prefix
    BY NamesAssumption DEF QName
  <2>4. QED
    BY <2>1, <2>2, <2>3
<1>5. \A n : n \in Prefixed(names) <=> \E i \in DOMAIN held : held[i] = n
    BY <1>3 DEF Pending
<1>6. \A i \in DOMAIN held : held[i].prefix \in Prefix
  <2>1. \A i \in DOMAIN held : held[i] \in AttributeNames
    BY ElementOfSeq DEF FInv, FilterType
  <2>2. QED
    BY <2>1, NamesAssumption DEF QName
<1> HIDE DEF env, names, held
<1>7. LegalIn(env, Top.name, names) <=>
        /\ Top.name.prefix = "" \/ env[Top.name.prefix] # Unbound
        /\ \A n \in Prefixed(names) : env[n.prefix] # Unbound
        /\ \A m, n \in Prefixed(names) :
            m.local = n.local /\ env[m.prefix] = env[n.prefix] => m = n
    BY DEF LegalIn, Prefixed
<1>8. Resolved <=>
        /\ element_qname.prefix = "" \/ env[element_qname.prefix] # Unbound
        /\ \A i \in DOMAIN held : env[held[i].prefix] # Unbound
        /\ \A i, j \in DOMAIN held :
            i # j => ~(held[i].local = held[j].local /\ env[held[i].prefix] = env[held[j].prefix])
  <2>1. element_qname.prefix = "" \/ Bound(element_qname.prefix) <=>
          element_qname.prefix = "" \/ env[element_qname.prefix] # Unbound
    BY <1>2, <1>4 DEF Bound
  <2>2. \A i \in DOMAIN held : Bound(held[i].prefix) <=> env[held[i].prefix] # Unbound
    BY <1>2, <1>6 DEF Bound
  <2>3. \A i, j \in DOMAIN held : SameExpandedName(held[i], held[j]) <=>
            held[i].local = held[j].local /\ env[held[i].prefix] = env[held[j].prefix]
    BY <1>2, <1>6 DEF SameExpandedName
  <2>4. Resolved <=>
        /\ element_qname.prefix = "" \/ Bound(element_qname.prefix)
        /\ \A i \in DOMAIN held : Bound(held[i].prefix)
        /\ \A i, j \in DOMAIN held : i # j => ~SameExpandedName(held[i], held[j])
    BY DEF Resolved, held
  <2>5. QED
    BY <2>1, <2>2, <2>3, <2>4
<1>9. (\A i \in DOMAIN held : env[held[i].prefix] # Unbound) <=>
      (\A n \in Prefixed(names) : env[n.prefix] # Unbound)
    BY <1>5
<1>10. (\A i, j \in DOMAIN held :
            i # j => ~(held[i].local = held[j].local /\ env[held[i].prefix] = env[held[j].prefix])) <=>
       (\A m, n \in Prefixed(names) :
            m.local = n.local /\ env[m.prefix] = env[n.prefix] => m = n)
    BY <1>3, <1>5 DEF held
<1>11. QED
    BY <1>3, <1>7, <1>8, <1>9, <1>10 DEF env, names

\* A value that is complete makes the tag illegal exactly if it is refused.
LEMMA JudgedAfterValue ==
    ASSUME FInv, AttributeIsNew, Judged, ~Lenient, AttributeValueContent,
           Clean, xml11 = (version = "1.1")
    PROVE  Judged'
<1>1. /\ ~failed /\ open # <<>> /\ attr.name \in AttributeNames /\ tag = "value"
      /\ current_is_namespace_decl <=> IsNamespaceDecl(attr.name)
      /\ \A a \in open[Len(open)].attrs : a[1] # attr.name
      /\ open \in Seq(OpenElement)
    BY DEF AttributeValueContent, FInv, ScannerType, TagIsOpen, ValueFollowed,
           AttributeIsNew, Top
<1>2. Len(open) \in Nat \ {0} /\ DOMAIN open = 1 .. Len(open)
    BY <1>1, OpenFacts
<1>3. /\ \A k \in 1 .. Len(open) - 1 : TagLegal(open, version, k)
      /\ LegalSoFar(open[Len(open)], version)
      /\ ~IsNamespaceDecl(attr.name) => WellFormedName(attr.name)
    BY <1>1, <1>2 DEF Judged, Top
<1>4. PICK value \in Uri, text \in Seq(STRING), end \in BOOLEAN :
             /\ end => text = value
             /\ attr' = IF end THEN NoAttr ELSE [attr EXCEPT !.value = text]
             /\ tag' = IF end THEN "tag" ELSE "value"
             /\ open' = IF end THEN [open EXCEPT ![Len(open)].attrs =
                                        @ \cup {<<attr.name, text>>}]
                        ELSE open
             /\ \/ /\ current_is_namespace_decl /\ ~end
                   /\ UNCHANGED <<tracker, app, failed>>
                \/ /\ current_is_namespace_decl /\ end
                   /\ DeclareNamespace(attr.name, value)
                \/ /\ ~current_is_namespace_decl
                   /\ UNCHANGED <<tracker, app, failed>>
    BY ValueIs
<1>5. version' = version
    BY DEF AttributeValueContent
<1>6. CASE ~end
  <2>1. UNCHANGED failed /\ open' = open /\ tag' = tag
    BY <1>1, <1>4, <1>6
  <2>2. attr'.name = attr.name
    BY <1>4, <1>6 DEF FInv, ScannerType
  <2>3. QED
    BY <1>1, <1>2, <1>3, <1>5, <2>1, <2>2 DEF Judged, Top
<1>7. CASE end
  <2> DEFINE b == <<attr.name, value>>
             n == Len(open)
  <2>1. open' = WithAttribute(open, b) /\ b[1] = attr.name /\ b[2] = value
    BY <1>4, <1>7 DEF WithAttribute
  <2>2. tag' = "tag"
    BY <1>4, <1>7
  <2> HIDE DEF b
  <2>3. /\ Len(open') = n /\ DOMAIN open' = 1 .. n
        /\ open'[n].attrs = open[n].attrs \cup {b} /\ open'[n].name = open[n].name
    BY <1>1, <1>2, <2>1, AttributeAdded
  <2>4. LegalSoFar(open'[n], version) <=>
            IF IsNamespaceDecl(attr.name) THEN LegalDeclaration(b, version)
                                          ELSE WellFormedName(attr.name)
    BY <1>3, <2>1, <2>3 DEF LegalSoFar
  <2> HIDE DEF n
  <2>5. ASSUME IsNamespaceDecl(attr.name) => DeclaresSome(attr.name),
               ~failed', LegalSoFar(open'[n], version)
        PROVE  Judged'
    <3>1. \A k \in 1 .. n - 1 : TagLegal(open', version, k)
        BY <1>1, <1>3, <2>1, <2>5, SameTagsGiven DEF n
    <3>2. QED
        BY <1>2, <1>5, <2>2, <2>3, <2>5, <3>1 DEF Judged, Top, n
  <2>6. CASE ~IsNamespaceDecl(attr.name)
    <3>1. ~failed'
        BY <1>1, <1>4, <1>7, <2>6
    <3>2. QED
        BY <1>3, <2>4, <2>5, <2>6, <3>1
  <2>7. CASE IsNamespaceDecl(attr.name)
    <3>1. DeclareNamespace(attr.name, value)
        BY <1>1, <1>4, <1>7, <2>7
    <3>2. Reserved(attr.name, value) <=> ~LegalDeclaration(b, version)
        BY <1>1, <2>1, <2>7, ReservedIsIllegal
    <3>3. CASE Reserved(attr.name, value)
      <4>1. failed'
        BY <3>1, <3>3, RefusalEnds DEF DeclareNamespace
      <4>2. ~LegalSoFar(open'[n], version)
        BY <2>4, <2>7, <3>2, <3>3
      <4>3. QED
        BY <1>5, <2>2, <2>3, <4>1, <4>2 DEF Judged, Top
    <3>4. CASE ~Reserved(attr.name, value)
      <4>1. ~failed'
        BY <1>1, <3>1, <3>4 DEF DeclareNamespace
      <4>2. DeclaresSome(attr.name)
        BY <3>4 DEF Reserved, DeclaresSome
      <4>3. QED
        BY <2>4, <2>5, <2>7, <3>2, <3>4, <4>1, <4>2
    <3>5. QED
        BY <3>3, <3>4
  <2>8. QED
    BY <2>6, <2>7
<1>8. QED
    BY <1>6, <1>7

\* Each step judges what it adds to a tag as the reference does.
LEMMA JudgedStep ==
    ASSUME FInv, SInv, HeardInv, VerdictInv, ~Lenient, Next
    PROVE  Judged'
<1> SUFFICES ASSUME Clean', xml11' = (version' = "1.1") PROVE Judged'
    BY DEF Judged
<1>1. CASE StartDocument
  <2>1. open' = <<>> /\ tag' = "none" /\ ~failed'
    BY <1>1 DEF StartDocument, HeardInv, NewDocument
  <2>2. QED
    BY <2>1 DEF Judged
<1>2. CASE Reset
    BY <1>2 DEF Reset, Judged
<1>3. ASSUME ~Reset, ~StartDocument
      PROVE  /\ version' = version /\ Clean /\ xml11 = (version = "1.1")
             /\ ~failed /\ open \in Seq(OpenElement) /\ Len(open) \in Nat
             /\ \A k \in 1 .. Len(open) :
                    k < Len(open) \/ tag = "none" => TagLegal(open, version, k)
             /\ tag # "none" => LegalSoFar(open[Len(open)], version)
             /\ tag = "value" /\ ~IsNamespaceDecl(attr.name) => WellFormedName(attr.name)
             /\ tag # "none" => open # <<>>
  <2>1. UNCHANGED <<version, xml11>> /\ ~failed
    BY <1>3 DEF Next, StartElement, StartAttribute, AttributeValueContent, EndAttributes,
                EndElement
  <2>2. Clean
    BY <1>3, CleanBefore
  <2>3. open \in Seq(OpenElement) /\ Len(open) \in Nat /\ (tag # "none" => open # <<>>)
    BY GoingOn DEF FInv, TagIsOpen
  <2>4. DOMAIN open = 1 .. Len(open)
    BY <2>3
  <2>5. QED
    BY <2>1, <2>2, <2>3, <2>4 DEF VerdictInv, Judged, Top
<1>4. CASE StartElement /\ ~Reset /\ ~StartDocument
  <2>1. PICK q_name \in ElementNames :
            /\ open' = Append(open, Element(q_name))
            /\ IF ValidQName(q_name) THEN UNCHANGED failed ELSE Refuse
    BY <1>4 DEF StartElement
  <2>2. tag = "none" /\ tag' = "tag"
    BY <1>4 DEF StartElement
  <2>3. /\ Len(open') = Len(open) + 1 /\ DOMAIN open' = 1 .. Len(open) + 1
        /\ open'[Len(open) + 1] = Element(q_name)
    BY <1>3, <1>4, <2>1, AppendProperties
  <2>4. LegalSoFar(Element(q_name), version) <=> ValidQName(q_name)
    BY DEF LegalSoFar, Element, ValidQName, WellFormedName
  <2>5. CASE ~ValidQName(q_name)
    <3>1. failed'
        BY <2>1, <2>5, RefusalEnds
    <3>2. QED
        BY <1>3, <1>4, <2>2, <2>3, <2>4, <2>5, <3>1 DEF Judged, Top
  <2>6. CASE ValidQName(q_name)
    <3>1. ~failed'
        BY <1>3, <1>4, <2>1, <2>6
    <3>2. \A k \in 1 .. Len(open) : TagLegal(open', version, k)
        BY <1>3, <1>4, <2>1, <2>2, SameTagsOpened
    <3>3. QED
        BY <1>3, <1>4, <2>2, <2>3, <2>4, <2>6, <3>1, <3>2 DEF Judged, Top
  <2>7. QED
    BY <2>5, <2>6
<1>5. CASE StartAttribute /\ ~Reset /\ ~StartDocument
  <2>1. PICK name \in AttributeNames :
            /\ attr' = [name |-> name, value |-> <<>>]
            /\ StartDeclaration(name) \/ StartPlainAttribute(name)
    BY <1>5 DEF StartAttribute
  <2>2. tag = "tag" /\ tag' = "value" /\ open' = open /\ attr'.name = name
    BY <1>5, <2>1 DEF StartAttribute
  <2>3. /\ failed' => ~WellFormedName(name)
        /\ ~failed' /\ ~IsNamespaceDecl(name) => WellFormedName(name)
    <3>1. CASE StartDeclaration(name)
        BY <1>3, <1>5, <3>1 DEF StartDeclaration
    <3>2. CASE StartPlainAttribute(name)
        BY <1>3, <1>5, <3>2, RefusalEnds DEF StartPlainAttribute, ValidQName, WellFormedName
    <3>3. QED
        BY <2>1, <3>1, <3>2
  <2>4. DOMAIN open = 1 .. Len(open)
    BY <1>3, <1>5
  <2>5. QED
    BY <1>3, <1>5, <2>2, <2>3, <2>4 DEF Judged, Top
<1>6. CASE AttributeValueContent /\ ~Reset /\ ~StartDocument
    BY <1>3, <1>6, JudgedAfterValue DEF HeardInv, VerdictInv
<1>7. CASE EndAttributes /\ ~Reset /\ ~StartDocument
  <2>1. tag = "tag" /\ tag' = "none" /\ open' = open
    BY <1>7 DEF EndAttributes
  <2>2. Len(open) > 0 /\ DOMAIN open = 1 .. Len(open)
    BY <1>3, <1>7, <2>1
  <2>3. Resolved <=> TagLegal(open, version, Len(open))
    <3>1. LegalSoFar(open[Len(open)], version)
        BY <1>3, <1>7, <2>1
    <3>2. Resolved <=>
            LegalIn(EnvironmentOf(open, Len(open)), Top.name, NamesIn(Top))
        BY <1>3, <1>7, ResolvedIfLegal DEF HeardInv, VerdictInv
    <3>3. QED
        BY <3>1, <3>2 DEF TagLegal, Top
  <2>4. failed' <=> ~Resolved
    <3>1. CASE Resolved
        BY <1>3, <1>7, <3>1 DEF EndAttributes
    <3>2. CASE ~Resolved
        BY <1>7, <3>2, RefusalEnds DEF EndAttributes
    <3>3. QED
        BY <3>1, <3>2
  <2>5. CASE failed'
    BY <1>3, <1>7, <2>1, <2>3, <2>4, <2>5 DEF Judged
  <2>6. CASE ~failed'
    <3>1. \A k \in 1 .. Len(open) : TagLegal(open, version, k)
      <4>1. ASSUME NEW k \in 1 .. Len(open) PROVE k < Len(open) \/ k = Len(open)
        BY <1>3, <1>7
      <4>2. QED
        BY <1>3, <1>7, <2>3, <2>4, <2>6, <4>1
    <3>2. QED
        BY <1>3, <1>7, <2>1, <2>2, <2>6, <3>1 DEF Judged
  <2>7. QED
    BY <2>5, <2>6
<1>8. CASE EndElement /\ ~Reset /\ ~StartDocument
  <2>1. /\ tag = "none" /\ tag' = "none" /\ open # <<>> /\ failed' = failed
        /\ open' = SubSeq(open, 1, Len(open) - 1)
    BY <1>8 DEF EndElement
  <2>2. open' \in Seq(OpenElement) /\ Len(open') = Len(open) - 1
    BY <1>3, <1>8, <2>1, ButLast
  <2>3. DOMAIN open' = 1 .. Len(open) - 1
    BY <2>2
  <2>4. \A k \in 1 .. Len(open) - 1 : TagLegal(open', version, k)
    <3>1. \A k \in 1 .. Len(open) - 1 : k \in 1 .. Len(open)
        BY <1>3, <1>8
    <3>2. QED
        BY <1>3, <1>8, <2>1, <3>1, SameTagsClosed
  <2>5. QED
    BY <1>3, <1>8, <2>1, <2>3, <2>4 DEF Judged
<1>9. QED
    BY <1>1, <1>2, <1>4, <1>5, <1>6, <1>7, <1>8 DEF Next

\* The invariant of the verdict holds throughout.
LEMMA VerdictInvAlways == ASSUME ~Lenient PROVE Spec => []VerdictInv
<1>1. Init => VerdictInv
  <2>1. SUFFICES ASSUME Init PROVE VerdictInv
    OBVIOUS
  <2>2. open = <<>> /\ tag = "none" /\ ~failed
    BY <2>1 DEF Init
  <2>3. QED
    BY <2>2 DEF VerdictInv, Held, Judged
<1>2. FInv /\ SInv /\ HeardInv /\ VerdictInv /\ [Next]_vars => VerdictInv'
  <2>1. SUFFICES ASSUME FInv, SInv, HeardInv, VerdictInv, [Next]_vars PROVE VerdictInv'
    OBVIOUS
  <2>2. CASE Next
    BY <2>1, <2>2, HeldStep, JudgedStep DEF VerdictInv
  <2>3. CASE UNCHANGED vars
    <3>1. UNCHANGED <<version, open, tag, attr, failed, scope_depth, xml11, element_qname,
                      pending_attr_qnames>>
        BY <2>3 DEF vars, scanner, tracker
    <3>2. Held'
      <4>1. NamesOfTag' = NamesOfTag /\ Top' = Top
        BY <3>1 DEF NamesOfTag, NamesIn, Top
      <4>2. QED
        BY <2>1, <3>1, <4>1 DEF VerdictInv, Held, Pending, Prefixed
    <3>3. Judged'
        BY <2>1, <3>1 DEF VerdictInv, Judged, Clean, Top
    <3>4. QED
        BY <3>2, <3>3 DEF VerdictInv
  <2>4. QED
    BY <2>1, <2>2, <2>3
<1>3. QED
    BY <1>1, <1>2, FInvAlways, SInvAlways, HeardInvAlways, PTL DEF Spec

\* A start tag is let through exactly if it satisfies the namespace
\* constraints where it stands, wherever its declarations are written and
\* however their values are cut; a refusal in the middle of the tag is of one
\* that could not satisfy them any more (namespace.rs, start_attribute,
\* declare_namespace and end_attributes).
THEOREM VerdictIsTheReferences ==
    ASSUME ~Lenient PROVE Spec => []VerdictExact
<1>1. VerdictInv => VerdictExact
    BY DEF VerdictInv, Judged, VerdictExact
<1>2. QED
    BY <1>1, VerdictInvAlways, PTL
=============================================================================
