-------------------- MODULE NamespaceScopeTracker_proofs --------------------
(***************************************************************************)
(* The flat list of bindings implements a stack of environments, for every *)
(* set of prefixes and namespace names and every depth.                    *)
(*                                                                         *)
(* The finite sets of positions the code looks through have a last element *)
(* because each step keeps one: that is part of the invariant.             *)
(***************************************************************************)
EXTENDS NamespaceScopeTracker, SequenceTheorems, TLAPS

\* The positions of a set have a last one, unless there are none.
HasLast(S) == S = {} \/ \E i \in S : \A j \in S : j <= i

\* The bindings of the scopes up to a depth come before all others.
Layered(list, depth) ==
    \A d \in 0 .. depth : \E m \in 0 .. Len(list) :
        \A i \in DOMAIN list : list[i].level <= d <=> i <= m

Bindings == Seq(Binding)

\* What push_context, pop_context and declare_prefix keep of a list and the
\* depth of its innermost scope.
Sound(list, depth) ==
    /\ list \in Bindings
    /\ depth \in Nat
    /\ \A i \in DOMAIN list : list[i].level <= depth
    /\ Layered(list, depth)
    /\ \A prefix \in Prefix, d \in 0 .. depth : HasLast(Of(list, prefix, d))

TrackerInv == Sound(bindings, scope_depth)

\* What declare_prefix and pop_context make of the list.
Declared(list, depth, prefix, uri) == Append(list, Bind(prefix, uri, depth))

Popped(list, depth) ==
    IF Outer(list, depth) = {} THEN <<>> ELSE SubSeq(list, 1, Max(Outer(list, depth)))
-----------------------------------------------------------------------------
(* Last elements                                                           *)

\* The largest position of a set is the one Max chooses.
LEMMA MaxIsLast ==
    ASSUME NEW S, S \subseteq Nat, NEW i \in S, \A j \in S : j <= i
    PROVE  Max(S) = i
<1>1. \A j \in S : i >= j
    BY SMT
<1>2. ASSUME NEW k \in S, \A j \in S : k >= j PROVE k = i
    BY <1>2, SMT
<1>3. QED
    BY <1>1, <1>2 DEF Max

\* What Max chooses is in the set.
LEMMA MaxIsIn ==
    ASSUME NEW S, S \subseteq Nat, S # {}, HasLast(S)
    PROVE  Max(S) \in S /\ \A j \in S : j <= Max(S)
<1>1. PICK i \in S : \A j \in S : j <= i
    BY DEF HasLast
<1>2. QED
    BY <1>1, MaxIsLast

\* What a list of bindings is made of.
LEMMA ListFacts ==
    ASSUME NEW list \in Bindings
    PROVE  /\ DOMAIN list = 1 .. Len(list) /\ Len(list) \in Nat
           /\ \A i \in DOMAIN list : list[i] \in Binding
           /\ \A i \in DOMAIN list : list[i].level \in Nat
<1>1. DOMAIN list = 1 .. Len(list) /\ Len(list) \in Nat
    BY DEF Bindings
<1>2. \A i \in 1 .. Len(list) : list[i] \in Binding
    BY DEF Bindings
<1>3. \A b \in Binding : b.level \in Nat
    BY DEF Binding
<1>4. QED
    BY <1>1, <1>2, <1>3

\* The positions of a prefix are positions of the list.
LEMMA OfType ==
    ASSUME NEW list \in Bindings, NEW prefix, NEW d
    PROVE  Of(list, prefix, d) \subseteq 1 .. Len(list) /\ Of(list, prefix, d) \subseteq Nat
BY DEF Of, Bindings

\* A lookup gives a namespace name.
LEMMA UriAtType ==
    ASSUME NEW list \in Bindings, NEW prefix, NEW d, HasLast(Of(list, prefix, d))
    PROVE  UriAt(list, prefix, d) \in Uri
<1>1. CASE Of(list, prefix, d) = {}
    BY <1>1, UriAssumption DEF UriAt
<1>2. CASE Of(list, prefix, d) # {}
  <2>1. Max(Of(list, prefix, d)) \in 1 .. Len(list)
    BY <1>2, MaxIsIn, OfType
  <2>2. list[Max(Of(list, prefix, d))] \in Binding
    BY <2>1 DEF Bindings
  <2>3. QED
    BY <1>2, <2>2 DEF UriAt, Binding
<1>3. QED
    BY <1>1, <1>2
-----------------------------------------------------------------------------
(* push_context                                                            *)

\* A scope that has just been opened knows what its parent knows.
LEMMA OfDeeper ==
    ASSUME NEW list \in Bindings, NEW depth \in Nat, NEW prefix,
           \A i \in DOMAIN list : list[i].level <= depth
    PROVE  Of(list, prefix, depth + 1) = Of(list, prefix, depth)
BY ListFacts DEF Of

\* push_context keeps the list sound, and the scope it opens is its parent's.
LEMMA PushSound ==
    ASSUME NEW list, NEW depth, Sound(list, depth)
    PROVE  /\ Sound(list, depth + 1)
           /\ \A q \in Prefix : UriAt(list, q, depth + 1) = UriAt(list, q, depth)
<1>1. /\ list \in Bindings /\ depth \in Nat
      /\ \A i \in DOMAIN list : list[i].level <= depth
    BY DEF Sound
<1>2. \A q : Of(list, q, depth + 1) = Of(list, q, depth)
    BY <1>1, OfDeeper
<1>3. \A i \in DOMAIN list : list[i].level <= depth + 1
    BY <1>1, ListFacts
<1>4. ASSUME NEW d \in 0 .. depth + 1
      PROVE  \E m \in 0 .. Len(list) : \A i \in DOMAIN list : list[i].level <= d <=> i <= m
  <2>1. CASE d = depth + 1
    BY <1>1, <1>3, <2>1, ListFacts
  <2>2. CASE d # depth + 1
    <3>1. d \in 0 .. depth
        BY <1>1, <2>2
    <3>2. QED
        BY <3>1 DEF Sound, Layered
  <2>3. QED
    BY <2>1, <2>2
<1>5. ASSUME NEW q \in Prefix, NEW d \in 0 .. depth + 1 PROVE HasLast(Of(list, q, d))
  <2>1. CASE d = depth + 1
    BY <1>1, <1>2, <2>1 DEF Sound
  <2>2. CASE d # depth + 1
    <3>1. d \in 0 .. depth
        BY <1>1, <2>2
    <3>2. QED
        BY <3>1 DEF Sound
  <2>3. QED
    BY <2>1, <2>2
<1>6. Sound(list, depth + 1)
  <2>1. Layered(list, depth + 1)
    BY <1>4 DEF Layered
  <2>2. depth + 1 \in Nat
    BY <1>1
  <2>3. QED
    BY <1>1, <1>3, <1>5, <2>1, <2>2 DEF Sound
<1>7. \A q \in Prefix : UriAt(list, q, depth + 1) = UriAt(list, q, depth)
    BY <1>2 DEF UriAt
<1>8. QED
    BY <1>6, <1>7
-----------------------------------------------------------------------------
(* declare_prefix                                                          *)

\* A new binding is seen at its own depth and under its own prefix only.
LEMMA OfAppended ==
    ASSUME NEW list \in Bindings, NEW depth \in Nat, NEW d \in 0 .. depth,
           NEW p \in Prefix, NEW q \in Prefix, NEW u \in Uri,
           NEW after, after = Declared(list, depth, p, u)
    PROVE  /\ after \in Bindings /\ Len(after) = Len(list) + 1
           /\ \A i \in 1 .. Len(list) : after[i] = list[i]
           /\ after[Len(list) + 1] = Bind(p, u, depth)
           /\ d < depth \/ q # p => Of(after, q, d) = Of(list, q, d)
           /\ Of(after, p, depth) = Of(list, p, depth) \cup {Len(list) + 1}
<1>1. Bind(p, u, depth) \in Binding
    BY DEF Bind, Binding
<1>2. after \in Bindings /\ Len(after) = Len(list) + 1
    BY <1>1 DEF Bindings, Declared
<1>3. \A i \in 1 .. Len(list) : after[i] = list[i]
    BY <1>1 DEF Bindings, Declared
<1>4. after[Len(list) + 1] = Bind(p, u, depth)
    BY <1>1 DEF Bindings, Declared
<1>5. /\ after[Len(list) + 1].prefix = p
      /\ after[Len(list) + 1].level = depth
    BY <1>4 DEF Bind
<1>6. DOMAIN after = 1 .. Len(list) + 1 /\ DOMAIN list = 1 .. Len(list) /\ Len(list) \in Nat
    BY <1>2 DEF Bindings
<1>7. d < depth \/ q # p => Of(after, q, d) = Of(list, q, d)
    BY <1>3, <1>5, <1>6 DEF Of
<1>8. Of(after, p, depth) = Of(list, p, depth) \cup {Len(list) + 1}
    BY <1>3, <1>5, <1>6 DEF Of
<1>9. QED
    BY <1>2, <1>3, <1>4, <1>7, <1>8

\* declare_prefix keeps the list sound and changes one entry of one scope.
LEMMA DeclareSound ==
    ASSUME NEW list, NEW depth, Sound(list, depth), NEW p \in Prefix, NEW u \in Uri,
           NEW after, after = Declared(list, depth, p, u)
    PROVE  /\ Sound(after, depth)
           /\ UriAt(after, p, depth) = u
           /\ \A q \in Prefix, d \in 0 .. depth :
                d < depth \/ q # p => UriAt(after, q, d) = UriAt(list, q, d)
<1>1. /\ list \in Bindings /\ depth \in Nat /\ depth \in 0 .. depth
      /\ \A i \in DOMAIN list : list[i].level <= depth
    BY DEF Sound
<1>2. /\ after \in Bindings /\ Len(after) = Len(list) + 1
      /\ \A i \in 1 .. Len(list) : after[i] = list[i]
      /\ after[Len(list) + 1] = Bind(p, u, depth)
      /\ Of(after, p, depth) = Of(list, p, depth) \cup {Len(list) + 1}
    BY <1>1, OfAppended
<1>3. \A q \in Prefix, d \in 0 .. depth :
        d < depth \/ q # p => Of(after, q, d) = Of(list, q, d)
    BY <1>1, OfAppended
<1>4. /\ DOMAIN list = 1 .. Len(list) /\ Len(list) \in Nat
      /\ DOMAIN after = 1 .. Len(list) + 1
    BY <1>1, <1>2, ListFacts
<1>5. after[Len(list) + 1].level = depth /\ after[Len(list) + 1].uri = u
    BY <1>2 DEF Bind
<1>6. \A i \in DOMAIN after : after[i].level <= depth
    BY <1>1, <1>2, <1>4, <1>5
<1>7. ASSUME NEW d \in 0 .. depth
      PROVE  \E m \in 0 .. Len(after) : \A i \in DOMAIN after : after[i].level <= d <=> i <= m
  <2>1. CASE d = depth
    <3>1. \A i \in DOMAIN after : after[i].level <= d <=> i <= Len(after)
        BY <1>2, <1>4, <1>6, <2>1
    <3>2. Len(after) \in 0 .. Len(after)
        BY <1>2, <1>4
    <3>3. QED
        BY <3>1, <3>2
  <2>2. CASE d # depth
    <3>1. PICK m \in 0 .. Len(list) : \A i \in DOMAIN list : list[i].level <= d <=> i <= m
        BY DEF Sound, Layered
    <3>2. \A i \in DOMAIN list : after[i].level <= d <=> i <= m
        BY <1>2, <1>4, <3>1
    <3>3. after[Len(list) + 1].level > d /\ Len(list) + 1 > m
        BY <1>1, <1>4, <1>5, <2>2
    <3>4. \A i \in DOMAIN after : i \in DOMAIN list \/ i = Len(list) + 1
        BY <1>4
    <3>5. ~(after[Len(list) + 1].level <= d) /\ ~(Len(list) + 1 <= m)
        BY <1>1, <1>4, <1>5, <3>3
    <3>6. \A i \in DOMAIN after : after[i].level <= d <=> i <= m
        BY <3>2, <3>4, <3>5
    <3>7. m \in 0 .. Len(after)
        BY <1>2, <1>4
    <3>8. QED
        BY <3>6, <3>7
  <2>3. QED
    BY <2>1, <2>2
<1>8. /\ Of(after, p, depth) \subseteq Nat /\ Len(list) + 1 \in Of(after, p, depth)
      /\ \A j \in Of(after, p, depth) : j <= Len(list) + 1
  <2>1. Of(after, p, depth) \subseteq 1 .. Len(after)
    BY <1>2, OfType
  <2>2. QED
    BY <1>2, <1>4, <2>1
<1>9. ASSUME NEW q \in Prefix, NEW d \in 0 .. depth PROVE HasLast(Of(after, q, d))
  <2>1. CASE d < depth \/ q # p
    BY <1>3, <2>1 DEF Sound
  <2>2. CASE d = depth /\ q = p
    BY <1>8, <2>2 DEF HasLast
  <2>3. QED
    BY <1>1, <2>1, <2>2
<1>10. Sound(after, depth)
    BY <1>1, <1>2, <1>6, <1>7, <1>9 DEF Sound, Layered
<1>11. UriAt(after, p, depth) = u
  <2>1. Max(Of(after, p, depth)) = Len(list) + 1
    BY <1>8, MaxIsLast
  <2>2. QED
    BY <1>5, <1>8, <2>1 DEF UriAt
<1>12. ASSUME NEW q \in Prefix, NEW d \in 0 .. depth, d < depth \/ q # p
       PROVE  UriAt(after, q, d) = UriAt(list, q, d)
  <2>1. Of(after, q, d) = Of(list, q, d)
    BY <1>3, <1>12
  <2>2. CASE Of(list, q, d) = {}
    BY <2>1, <2>2 DEF UriAt
  <2>3. CASE Of(list, q, d) # {}
    <3>1. Max(Of(list, q, d)) \in 1 .. Len(list)
      <4>1. HasLast(Of(list, q, d))
        BY DEF Sound
      <4>2. QED
        BY <1>1, <2>3, <4>1, MaxIsIn, OfType
    <3>2. QED
        BY <1>2, <2>1, <2>3, <3>1 DEF UriAt
  <2>4. QED
    BY <2>2, <2>3
<1>13. QED
    BY <1>10, <1>11, <1>12
-----------------------------------------------------------------------------
(* pop_context                                                             *)

\* What pop_context keeps is the bindings of the outer scopes, and they are
\* the first ones of the list.
LEMMA OuterIs ==
    ASSUME NEW list \in Bindings, NEW depth \in Nat \ {0}, Layered(list, depth)
    PROVE  \E m \in 0 .. Len(list) :
               /\ \A i \in DOMAIN list : list[i].level < depth <=> i <= m
               /\ Outer(list, depth) = {} <=> m = 0
               /\ m > 0 => Max(Outer(list, depth)) = m
<1>1. DOMAIN list = 1 .. Len(list) /\ Len(list) \in Nat
    BY ListFacts
<1>2. \A i \in DOMAIN list : list[i].level \in Nat
    BY ListFacts
<1>3. PICK m \in 0 .. Len(list) : \A i \in DOMAIN list : list[i].level <= depth - 1 <=> i <= m
  <2>1. depth - 1 \in 0 .. depth
    OBVIOUS
  <2>2. QED
    BY <2>1 DEF Layered
<1>4. \A i \in DOMAIN list : list[i].level < depth <=> i <= m
    BY <1>2, <1>3
<1>5. \A i : i \in Outer(list, depth) <=> i \in 1 .. m
    BY <1>1, <1>4 DEF Outer
<1>6. ASSUME m > 0 PROVE Max(Outer(list, depth)) = m
  <2>1. /\ Outer(list, depth) \subseteq Nat
        /\ m \in Outer(list, depth)
        /\ \A j \in Outer(list, depth) : j <= m
    BY <1>1, <1>5, <1>6
  <2>2. QED
    BY <2>1, MaxIsLast
<1>7. Outer(list, depth) = {} <=> m = 0
  <2>1. ASSUME m > 0 PROVE m \in Outer(list, depth)
    BY <1>1, <1>5, <2>1
  <2>2. ASSUME m = 0 PROVE Outer(list, depth) = {}
    <3>1. \A i : i \notin Outer(list, depth)
        BY <1>5, <2>2
    <3>2. QED
        BY <3>1
  <2>3. m > 0 \/ m = 0
    BY <1>1
  <2>4. QED
    BY <2>1, <2>2, <2>3
<1>8. QED
    BY <1>4, <1>6, <1>7

\* The list that is left.
LEMMA PoppedIs ==
    ASSUME NEW list \in Bindings, NEW depth \in Nat \ {0}, Layered(list, depth),
           NEW after, after = Popped(list, depth)
    PROVE  /\ after \in Bindings
           /\ DOMAIN after \subseteq DOMAIN list
           /\ \A i \in DOMAIN list : list[i].level < depth <=> i \in DOMAIN after
           /\ \A i \in DOMAIN after : after[i] = list[i]
<1>1. DOMAIN list = 1 .. Len(list) /\ Len(list) \in Nat
    BY ListFacts
<1>2. PICK m \in 0 .. Len(list) :
               /\ \A i \in DOMAIN list : list[i].level < depth <=> i <= m
               /\ Outer(list, depth) = {} <=> m = 0
               /\ m > 0 => Max(Outer(list, depth)) = m
    BY OuterIs
<1>3. CASE m = 0
  <2>1. after = <<>>
    BY <1>2, <1>3 DEF Popped
  <2>2. QED
    BY <1>1, <1>2, <1>3, <2>1 DEF Bindings
<1>4. CASE m > 0
  <2>1. after = SubSeq(list, 1, m)
    BY <1>2, <1>4 DEF Popped
  <2>2. SubSeq(list, 1, m) \in Bindings /\ Len(SubSeq(list, 1, m)) = m
    BY <1>1, <1>4 DEF Bindings
  <2>3. \A i \in 1 .. m : SubSeq(list, 1, m)[i] = list[i]
    BY <1>1, <1>4 DEF Bindings
  <2>4. after \in Bindings /\ Len(after) = m
    BY <2>1, <2>2
  <2>5. DOMAIN after = 1 .. m
    BY <2>4, ListFacts
  <2>6. QED
    BY <1>1, <1>2, <2>1, <2>3, <2>4, <2>5
<1>5. m = 0 \/ m > 0
    BY <1>1
<1>6. QED
    BY <1>3, <1>4, <1>5, Zenon

\* pop_context keeps the list sound, and the scopes that stay as they were.
LEMMA PopSound ==
    ASSUME NEW list, NEW depth, Sound(list, depth), depth > 0, NEW after, after = Popped(list, depth)
    PROVE  /\ Sound(after, depth - 1)
           /\ \A q \in Prefix, d \in 0 .. depth - 1 : UriAt(after, q, d) = UriAt(list, q, d)
<1>1. /\ list \in Bindings /\ depth \in Nat \ {0} /\ Layered(list, depth)
      /\ depth - 1 \in Nat
    BY DEF Sound
<1>2. /\ after \in Bindings
      /\ DOMAIN after \subseteq DOMAIN list
      /\ \A i \in DOMAIN list : list[i].level < depth <=> i \in DOMAIN after
      /\ \A i \in DOMAIN after : after[i] = list[i]
    BY <1>1, PoppedIs
<1>3. /\ DOMAIN list = 1 .. Len(list) /\ Len(list) \in Nat
      /\ DOMAIN after = 1 .. Len(after) /\ Len(after) \in Nat
      /\ \A i \in DOMAIN list : list[i].level \in Nat
    BY <1>1, <1>2, ListFacts
<1>4. \A i \in DOMAIN after : after[i].level <= depth - 1
  <2>1. SUFFICES ASSUME NEW i \in DOMAIN after PROVE after[i].level <= depth - 1
    OBVIOUS
  <2>2. i \in DOMAIN list /\ list[i].level < depth /\ after[i] = list[i]
    BY <1>2
  <2>3. list[i].level \in Nat
    BY <1>3, <2>2
  <2>4. QED
    BY <1>1, <2>2, <2>3
<1>5. ASSUME NEW d \in 0 .. depth - 1
      PROVE  \E m \in 0 .. Len(after) : \A i \in DOMAIN after : after[i].level <= d <=> i <= m
  <2>1. d \in 0 .. depth /\ d < depth
    BY <1>1
  <2>2. PICK m \in 0 .. Len(list) : \A i \in DOMAIN list : list[i].level <= d <=> i <= m
    BY <1>1, <2>1 DEF Layered
  <2>3. \A i \in DOMAIN after : after[i].level <= d <=> i <= m
    BY <1>2, <2>2
  <2>4. m \in 0 .. Len(after)
    <3>1. ASSUME m > 0 PROVE m \in DOMAIN after
      <4>1. m \in DOMAIN list /\ list[m].level <= d
        BY <1>3, <2>2, <3>1
      <4>2. QED
        BY <1>1, <1>2, <1>3, <2>1, <4>1
    <3>2. QED
        BY <1>3, <2>2, <3>1
  <2>5. QED
    BY <2>3, <2>4
<1>6. ASSUME NEW q \in Prefix, NEW d \in 0 .. depth - 1
      PROVE  Of(after, q, d) = Of(list, q, d)
  <2>1. ASSUME NEW i \in DOMAIN list, list[i].level <= d PROVE i \in DOMAIN after
    BY <1>1, <1>2, <1>3, <2>1
  <2>2. QED
    BY <1>2, <2>1 DEF Of
<1>7. ASSUME NEW q \in Prefix, NEW d \in 0 .. depth - 1 PROVE HasLast(Of(list, q, d))
    BY <1>1 DEF Sound
<1>8. Sound(after, depth - 1)
    BY <1>1, <1>2, <1>4, <1>5, <1>6, <1>7 DEF Sound, Layered
<1>9. ASSUME NEW q \in Prefix, NEW d \in 0 .. depth - 1
      PROVE  UriAt(after, q, d) = UriAt(list, q, d)
  <2>1. CASE Of(list, q, d) = {}
    BY <1>6, <2>1 DEF UriAt
  <2>2. CASE Of(list, q, d) # {}
    <3>1. Max(Of(after, q, d)) \in DOMAIN after
        BY <1>2, <1>3, <1>6, <1>7, <2>2, MaxIsIn, OfType
    <3>2. QED
        BY <1>2, <1>6, <2>2, <3>1 DEF UriAt
  <2>3. QED
    BY <2>1, <2>2
<1>10. QED
    BY <1>8, <1>9
-----------------------------------------------------------------------------
(* new and reset                                                           *)

\* The root scope with its two bindings.
LEMMA NewSound ==
    ASSUME NEW list, list = <<Bind("xml", XmlUri, 0), Bind("xmlns", XmlnsUri, 0)>>
    PROVE  /\ Sound(list, 0)
           /\ \A q \in Prefix : UriAt(list, q, 0) = Predeclared[q]
<1>1. Bind("xml", XmlUri, 0) \in Binding /\ Bind("xmlns", XmlnsUri, 0) \in Binding
    BY PrefixAssumption, UriAssumption DEF Bind, Binding
<1>2. list \in Bindings /\ Len(list) = 2 /\ DOMAIN list = 1 .. 2
    BY <1>1 DEF Bindings
<1>3. /\ list[1].prefix = "xml" /\ list[1].uri = XmlUri /\ list[1].level = 0
      /\ list[2].prefix = "xmlns" /\ list[2].uri = XmlnsUri /\ list[2].level = 0
    BY DEF Bind
<1>4. \A i \in DOMAIN list : list[i].level = 0
    BY <1>2, <1>3
<1>5. Layered(list, 0)
  <2>1. \A i \in DOMAIN list : list[i].level <= 0 <=> i <= 2
    BY <1>2, <1>4
  <2>2. QED
    BY <1>2, <2>1 DEF Layered
<1>6. ASSUME NEW q \in Prefix
      PROVE  HasLast(Of(list, q, 0)) /\ UriAt(list, q, 0) = Predeclared[q]
  <2>1. \A i : i \in Of(list, q, 0) <=> (i = 1 /\ q = "xml") \/ (i = 2 /\ q = "xmlns")
    BY <1>2, <1>3 DEF Of
  <2>2. CASE q = "xml"
    <3>1. Of(list, q, 0) = {1}
        BY <2>1, <2>2
    <3>2. Max({1}) = 1
        BY MaxIsLast
    <3>3. QED
        BY <1>3, <2>2, <3>1, <3>2 DEF HasLast, UriAt, Predeclared
  <2>3. CASE q = "xmlns"
    <3>1. Of(list, q, 0) = {2}
        BY <2>1, <2>3
    <3>2. Max({2}) = 2
        BY MaxIsLast
    <3>3. QED
        BY <1>3, <2>3, <3>1, <3>2 DEF HasLast, UriAt, Predeclared
  <2>4. CASE q # "xml" /\ q # "xmlns"
    <3>1. Of(list, q, 0) = {}
        BY <2>1, <2>4
    <3>2. QED
        BY <2>4, <3>1 DEF HasLast, UriAt, Predeclared
  <2>5. QED
    BY <2>2, <2>3, <2>4
<1>7. Sound(list, 0)
  <2>1. \A i \in DOMAIN list : list[i].level <= 0
    BY <1>4
  <2>2. \A q \in Prefix, d \in 0 .. 0 : HasLast(Of(list, q, d))
    BY <1>6
  <2>3. QED
    BY <1>2, <1>5, <2>1, <2>2 DEF Sound
<1>8. QED
    BY <1>6, <1>7
-----------------------------------------------------------------------------
(* The scopes as a stack                                                   *)

Stack(list, depth) == [k \in 1 .. depth + 1 |-> ScopeAt(list, k - 1)]

\* One environment per scope.
LEMMA StackType ==
    ASSUME NEW list, NEW depth, Sound(list, depth)
    PROVE  /\ Stack(list, depth) \in Seq([Prefix -> Uri])
           /\ Len(Stack(list, depth)) = depth + 1
           /\ \A k \in 1 .. depth + 1 : Stack(list, depth)[k] = ScopeAt(list, k - 1)
<1>1. list \in Bindings /\ depth \in Nat /\ depth + 1 \in Nat
    BY DEF Sound
<1>2. ASSUME NEW k \in 1 .. depth + 1 PROVE ScopeAt(list, k - 1) \in [Prefix -> Uri]
  <2>1. k - 1 \in 0 .. depth
    BY <1>1
  <2>2. \A q \in Prefix : UriAt(list, q, k - 1) \in Uri
    BY <1>1, <2>1, UriAtType DEF Sound
  <2>3. QED
    BY <2>2 DEF ScopeAt
<1>3. Stack(list, depth) \in [1 .. depth + 1 -> [Prefix -> Uri]]
    BY <1>2 DEF Stack
<1>4. Stack(list, depth) \in Seq([Prefix -> Uri])
    BY <1>1, <1>3, SeqDef
<1>5. Len(Stack(list, depth)) = depth + 1
    BY <1>1, <1>3, <1>4, LenProperties
<1>6. QED
    BY <1>4, <1>5 DEF Stack

\* Two stacks of the same scopes are the same stack.
LEMMA StackEqual ==
    ASSUME NEW list, NEW depth, Sound(list, depth),
           NEW t \in Seq([Prefix -> Uri]), Len(t) = depth + 1,
           \A k \in 1 .. depth + 1 : t[k] = ScopeAt(list, k - 1)
    PROVE  Stack(list, depth) = t
<1>1. \A k \in 1 .. Len(Stack(list, depth)) : Stack(list, depth)[k] = t[k]
    BY StackType
<1>2. QED
    BY <1>1, StackType, SeqEqual

\* push_context opens a scope.
LEMMA PushStack ==
    ASSUME NEW list, NEW depth, Sound(list, depth)
    PROVE  LET S == Stack(list, depth)
           IN  Stack(list, depth + 1) = Append(S, S[Len(S)])
<1> DEFINE S == Stack(list, depth)
           T == Append(S, S[depth + 1])
<1>1. depth \in Nat /\ depth + 1 \in 1 .. depth + 1
    BY DEF Sound
<1>2. /\ S \in Seq([Prefix -> Uri]) /\ Len(S) = depth + 1
      /\ \A k \in 1 .. depth + 1 : S[k] = ScopeAt(list, k - 1)
    BY StackType
<1>3. S[depth + 1] \in [Prefix -> Uri]
    BY <1>1, <1>2, ElementOfSeq
<1> HIDE DEF S
<1>4. /\ T \in Seq([Prefix -> Uri]) /\ Len(T) = Len(S) + 1
      /\ \A k \in 1 .. Len(S) : T[k] = S[k]
      /\ T[Len(S) + 1] = S[depth + 1]
    BY <1>2, <1>3, AppendProperties
<1> HIDE DEF T
<1>5. ScopeAt(list, depth + 1) = ScopeAt(list, depth)
    BY PushSound DEF ScopeAt
<1>6. ASSUME NEW k \in 1 .. (depth + 1) + 1 PROVE T[k] = ScopeAt(list, k - 1)
  <2>1. CASE k = depth + 2
    <3>1. k - 1 = depth + 1 /\ (depth + 1) - 1 = depth /\ Len(S) + 1 = k
        BY <1>1, <1>2, <2>1
    <3>2. T[k] = S[depth + 1] /\ S[depth + 1] = ScopeAt(list, depth)
        BY <1>1, <1>2, <1>4, <3>1
    <3>3. QED
        BY <1>5, <3>1, <3>2
  <2>2. CASE k # depth + 2
    <3>1. k \in 1 .. depth + 1
        BY <1>1, <2>2
    <3>2. QED
        BY <1>2, <1>4, <3>1
  <2>3. QED
    BY <2>1, <2>2
<1>7. Sound(list, depth + 1) /\ Len(T) = (depth + 1) + 1
    BY <1>2, <1>4, PushSound
<1>8. Stack(list, depth + 1) = T
    BY <1>4, <1>6, <1>7, StackEqual
<1>9. QED
    BY <1>2, <1>8 DEF S, T

\* declare_prefix changes one entry of the innermost scope.
LEMMA DeclareStack ==
    ASSUME NEW list, NEW depth, Sound(list, depth), NEW p \in Prefix, NEW u \in Uri
    PROVE  LET S == Stack(list, depth)
           IN  Stack(Declared(list, depth, p, u), depth) = [S EXCEPT ![Len(S)][p] = u]
<1> DEFINE S == Stack(list, depth)
           T == [S EXCEPT ![Len(S)][p] = u]
           after == Declared(list, depth, p, u)
<1>1. depth \in Nat /\ depth + 1 \in 1 .. depth + 1
    BY DEF Sound
<1>2. /\ S \in Seq([Prefix -> Uri]) /\ Len(S) = depth + 1
      /\ \A k \in 1 .. depth + 1 : S[k] = ScopeAt(list, k - 1)
    BY StackType
<1>3. /\ Sound(after, depth)
      /\ UriAt(after, p, depth) = u
      /\ \A q \in Prefix, d \in 0 .. depth :
            d < depth \/ q # p => UriAt(after, q, d) = UriAt(list, q, d)
    BY DeclareSound
<1> HIDE DEF after, S
<1>4. /\ T \in Seq([Prefix -> Uri]) /\ Len(T) = depth + 1
      /\ \A k \in 1 .. depth : T[k] = S[k]
      /\ T[depth + 1] = [S[depth + 1] EXCEPT ![p] = u]
  <2>1. S[depth + 1] \in [Prefix -> Uri]
    BY <1>1, <1>2, ElementOfSeq
  <2>2. [S[depth + 1] EXCEPT ![p] = u] \in [Prefix -> Uri]
    BY <2>1
  <2>3. S \in [1 .. depth + 1 -> [Prefix -> Uri]]
    BY <1>2, LenProperties
  <2>4. T \in [1 .. depth + 1 -> [Prefix -> Uri]]
    BY <1>1, <1>2, <2>2, <2>3
  <2>5. T \in Seq([Prefix -> Uri])
    <3>1. \A W \in [1 .. depth + 1 -> [Prefix -> Uri]] : W \in Seq([Prefix -> Uri])
        BY <1>1, SeqDef
    <3>2. QED
        BY <2>4, <3>1
  <2>6. Len(T) = depth + 1
    BY <1>1, <2>4, <2>5, LenProperties
  <2>7. QED
    BY <1>1, <1>2, <2>3, <2>5, <2>6
<1> HIDE DEF T
<1>5. ASSUME NEW k \in 1 .. depth + 1 PROVE T[k] = ScopeAt(after, k - 1)
  <2>1. CASE k = depth + 1
    <3>1. T[k] = [ScopeAt(list, depth) EXCEPT ![p] = u]
        BY <1>1, <1>2, <1>4, <2>1
    <3>2. [ScopeAt(list, depth) EXCEPT ![p] = u] = ScopeAt(after, depth)
      <4>1. \A q \in Prefix : UriAt(after, q, depth) = IF q = p THEN u ELSE UriAt(list, q, depth)
        BY <1>1, <1>3
      <4>2. QED
        BY <4>1 DEF ScopeAt
    <3>3. QED
        BY <1>1, <2>1, <3>1, <3>2
  <2>2. CASE k # depth + 1
    <3>1. k - 1 \in 0 .. depth /\ k - 1 < depth /\ k \in 1 .. depth
        BY <1>1, <2>2
    <3>2. ScopeAt(after, k - 1) = ScopeAt(list, k - 1)
        BY <1>3, <3>1 DEF ScopeAt
    <3>3. QED
        BY <1>2, <1>4, <3>1, <3>2
  <2>3. QED
    BY <2>1, <2>2
<1>6. Stack(after, depth) = T
    BY <1>3, <1>4, <1>5, StackEqual
<1>7. QED
    BY <1>6 DEF S, T, after

\* pop_context closes the innermost scope.
LEMMA PopStack ==
    ASSUME NEW list, NEW depth, Sound(list, depth), depth > 0
    PROVE  LET S == Stack(list, depth)
           IN  Stack(Popped(list, depth), depth - 1) = SubSeq(S, 1, Len(S) - 1)
<1> DEFINE S == Stack(list, depth)
           T == SubSeq(S, 1, depth)
           after == Popped(list, depth)
<1>1. depth \in Nat \ {0}
    BY DEF Sound
<1>2. /\ S \in Seq([Prefix -> Uri]) /\ Len(S) = depth + 1
      /\ \A k \in 1 .. depth + 1 : S[k] = ScopeAt(list, k - 1)
    BY StackType
<1>3. /\ Sound(after, depth - 1)
      /\ \A q \in Prefix, d \in 0 .. depth - 1 : UriAt(after, q, d) = UriAt(list, q, d)
    BY PopSound
<1> HIDE DEF after, S
<1>4. /\ T \in Seq([Prefix -> Uri]) /\ Len(T) = depth
      /\ \A k \in 1 .. depth : T[k] = S[k]
  <2>1. \A k \in 1 .. depth : S[k] \in [Prefix -> Uri]
    BY <1>1, <1>2, ElementOfSeq
  <2>2. /\ T \in Seq([Prefix -> Uri])
        /\ Len(T) = IF 1 <= depth THEN depth - 1 + 1 ELSE 0
        /\ \A k \in 1 .. depth - 1 + 1 : T[k] = S[1 + k - 1]
    BY <1>1, <2>1, SubSeqProperties
  <2>3. QED
    BY <1>1, <2>2
<1> HIDE DEF T
<1>5. ASSUME NEW k \in 1 .. (depth - 1) + 1 PROVE T[k] = ScopeAt(after, k - 1)
  <2>1. k \in 1 .. depth /\ k \in 1 .. depth + 1 /\ k - 1 \in 0 .. depth - 1
    BY <1>1
  <2>2. ScopeAt(after, k - 1) = ScopeAt(list, k - 1)
    BY <1>3, <2>1 DEF ScopeAt
  <2>3. QED
    BY <1>2, <1>4, <2>1, <2>2
<1>6. Len(T) = (depth - 1) + 1 /\ Len(S) - 1 = depth
    BY <1>1, <1>2, <1>4
<1>7. Stack(after, depth - 1) = T
    BY <1>3, <1>4, <1>5, <1>6, StackEqual
<1>8. QED
    BY <1>6, <1>7 DEF S, T, after
-----------------------------------------------------------------------------
(* The tracker                                                             *)

\* The invariant at the start ...
LEMMA TrackerInvInit ==
    NewTracker => TrackerInv /\ ScopesNow = <<Predeclared>>
<1>1. SUFFICES ASSUME NewTracker PROVE TrackerInv /\ ScopesNow = <<Predeclared>>
    OBVIOUS
<1>2. Sound(bindings, 0) /\ \A q \in Prefix : UriAt(bindings, q, 0) = Predeclared[q]
    BY <1>1, NewSound DEF NewTracker
<1>3. TrackerInv
    BY <1>1, <1>2 DEF TrackerInv, NewTracker
<1>4. ScopeAt(bindings, 0) = Predeclared
    BY <1>2 DEF ScopeAt, Predeclared
<1>5. ScopesNow = [k \in 1 .. 1 |-> Predeclared]
    BY <1>1, <1>4 DEF ScopesNow, NewTracker
<1>6. [k \in 1 .. 1 |-> Predeclared] = <<Predeclared>>
    OBVIOUS
<1>7. QED
    BY <1>3, <1>5, <1>6

\* ... and after a reset.
LEMMA TrackerInvReset ==
    ResetTracker => TrackerInv' /\ (ScopesNow = <<Predeclared>>)'
<1>1. ResetTracker => NewTracker'
    BY DEF ResetTracker
<1>2. QED
    BY <1>1, TrackerInvInit, PTL

\* A step of the tracker keeps the invariant and is a step of the stack.
LEMMA TrackerStep ==
    TrackerInv /\ [TrackerNext]_tracker => TrackerInv' /\ [Scopes!Next]_ScopesNow
<1>1. SUFFICES ASSUME TrackerInv, [TrackerNext]_tracker
               PROVE  TrackerInv' /\ [Scopes!Next]_ScopesNow
    OBVIOUS
<1>2. Sound(bindings, scope_depth) /\ scope_depth \in Nat
    BY <1>1 DEF TrackerInv, Sound
<1>3. /\ ScopesNow = Stack(bindings, scope_depth)
      /\ ScopesNow' = Stack(bindings', scope_depth')
    BY DEF ScopesNow, Stack
<1>4. CASE PushContext
  <2>1. Sound(bindings, scope_depth + 1)
    BY <1>2, PushSound
  <2>2. TrackerInv'
    BY <1>4, <2>1 DEF PushContext, TrackerInv
  <2>3. Scopes!Open
    BY <1>2, <1>3, <1>4, PushStack DEF PushContext, Scopes!Open
  <2>4. QED
    BY <2>2, <2>3 DEF Scopes!Next
<1>5. CASE scope_depth > 0 /\ PopContext
  <2>1. bindings' = Popped(bindings, scope_depth) /\ scope_depth' = scope_depth - 1
    BY <1>5 DEF PopContext, Popped
  <2>2. TrackerInv'
    BY <1>2, <1>5, <2>1, PopSound DEF TrackerInv
  <2>3. ScopesNow' = SubSeq(ScopesNow, 1, Len(ScopesNow) - 1)
    BY <1>2, <1>3, <1>5, <2>1, PopStack
  <2>4. Len(ScopesNow) > 1
    BY <1>2, <1>3, <1>5, StackType
  <2>5. QED
    BY <2>2, <2>3, <2>4 DEF Scopes!Next, Scopes!Close
<1>6. ASSUME NEW p \in Prefix, NEW u \in Uri, DeclarePrefix(p, u)
      PROVE  TrackerInv' /\ [Scopes!Next]_ScopesNow
  <2>1. bindings' = Declared(bindings, scope_depth, p, u) /\ scope_depth' = scope_depth
    BY <1>6 DEF DeclarePrefix, Declared
  <2>2. TrackerInv'
    BY <1>2, <2>1, DeclareSound DEF TrackerInv
  <2>3. Scopes!Declare(p, u)
    BY <1>2, <1>3, <2>1, DeclareStack DEF Scopes!Declare
  <2>4. QED
    BY <2>2, <2>3 DEF Scopes!Next
<1>7. CASE ResetTracker
  <2>1. TrackerInv' /\ (ScopesNow = <<Predeclared>>)'
    BY <1>7, TrackerInvReset
  <2>2. QED
    BY <2>1 DEF Scopes!Next, Scopes!Restart, Scopes!Init, Predeclared
<1>8. CASE UNCHANGED tracker
    BY <1>1, <1>8 DEF tracker, TrackerInv, ScopesNow
<1>9. QED
    BY <1>1, <1>4, <1>5, <1>6, <1>7, <1>8 DEF TrackerNext

\* However scopes and declarations follow each other, the list of the code
\* keeps its bindings in the order of their scopes, none deeper than the
\* innermost one (namespace.rs, push_context to reset).
THEOREM TrackerSound == TrackerSpec => []TrackerInv
<1>1. NewTracker => TrackerInv
    BY TrackerInvInit
<1>2. TrackerInv /\ [TrackerNext]_tracker => TrackerInv'
    BY TrackerStep
<1>3. QED
    BY <1>1, <1>2, PTL DEF TrackerSpec

\* The list of the code is a stack of environments: get_uri answers for every
\* element as if it had a table of its own (LexicalScoping).
THEOREM TrackerImplementsStack == TrackerSpec => LexicalScoping
<1>1. NewTracker => Scopes!Init
    BY TrackerInvInit DEF Scopes!Init
<1>2. TrackerInv /\ [TrackerNext]_tracker => [Scopes!Next]_ScopesNow
    BY TrackerStep
<1>3. QED
    BY <1>1, <1>2, TrackerSound, PTL DEF TrackerSpec, LexicalScoping, Scopes!Spec
=============================================================================
