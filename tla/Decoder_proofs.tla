--------------------------- MODULE Decoder_proofs ---------------------------
(***************************************************************************)
(* What holds of the decoder for every set of documents, wherever their    *)
(* chunks are cut.  The first half shows that reading the mark and the     *)
(* declaration of a beginning of a document, if it comes to a decision,    *)
(* comes to the one that the whole document leads to; the second that the  *)
(* decoder keeps that beginning until it has decided.                      *)
(***************************************************************************)
EXTENDS Decoder, TLAPS, WellFoundedInduction

\* Bytes and characters; the provers do not see that a literal is a STRING.
Char == STRING \cup {"non-ASCII"}

\* c is a beginning of w.
Begins(c, w) ==
    /\ c \in Seq(Char) /\ w \in Seq(Char)
    /\ Len(c) <= Len(w)
    /\ \A i \in 1 .. Len(c) : c[i] = w[i]

ReadResults == {"Ok", "Underflow", "Failure"}
-------------------------------------------------------------------------------
(* The first position                                                          *)

\* A set of natural numbers has a smallest one, and Min is it.
LEMMA MinOf ==
    ASSUME NEW S \in SUBSET Nat, S # {}
    PROVE  Min(S) \in S /\ \A j \in S : Min(S) <= j
  <1>1. \E m \in S : \A j \in S : ~ <<j, m>> \in OpToRel(<, Nat)
    BY WFMin, NatLessThanWellFounded
  <1>2. PICK m \in S : \A j \in S : ~ <<j, m>> \in OpToRel(<, Nat)
    BY <1>1
  <1>3. \A j \in S : ~ (j < m)
    BY <1>2 DEF OpToRel
  <1>4. \A j \in S : m <= j
    BY <1>3
  <1> QED BY <1>4 DEF Min

\* First finds the first position of a character of S, or the one past the end.
LEMMA FirstIs ==
    ASSUME NEW c, c \in Seq(Char), NEW i \in Nat \ {0}, NEW S
    PROVE  /\ First(c, i, S) \in Nat \ {0} /\ i <= First(c, i, S)
           /\ First(c, i, S) <= Len(c) => c[First(c, i, S)] \in S
           /\ \A j \in i .. First(c, i, S) - 1 : j <= Len(c) => c[j] \notin S
  <1> DEFINE P == {j \in i .. Len(c) + 1 : j = Len(c) + 1 \/ c[j] \in S}
  <1>1. Len(c) \in Nat
    OBVIOUS
  <1>2. CASE i > Len(c)
    <2>1. First(c, i, S) = i
      BY <1>2 DEF First
    <2> QED BY <1>1, <1>2, <2>1
  <1>3. CASE ~(i > Len(c))
    <2>1. First(c, i, S) = Min(P)
      BY <1>3 DEF First
    <2>2. P \in SUBSET Nat /\ Len(c) + 1 \in P
      BY <1>1, <1>3
    <2>3. Min(P) \in P /\ \A j \in P : Min(P) <= j
      BY <2>2, MinOf
    <2> DEFINE f == Min(P)
    <2>4. /\ f \in i .. Len(c) + 1 /\ (f = Len(c) + 1 \/ c[f] \in S)
          /\ \A j \in P : f <= j
      BY <2>3
    <2> HIDE DEF f
    <2>5. \A j \in i .. f - 1 : j <= Len(c) => c[j] \notin S
      BY <1>1, <2>4
    <2>6. f = First(c, i, S)
      BY <2>1 DEF f
    <2> QED BY <1>1, <2>4, <2>5, <2>6
  <1> QED BY <1>2, <1>3

\* No other position is the first.
LEMMA FirstUnique ==
    ASSUME NEW c, c \in Seq(Char), NEW i \in Nat \ {0}, NEW S,
           NEW f \in Nat, i <= f, f <= Len(c), c[f] \in S,
           \A j \in i .. f - 1 : c[j] \notin S
    PROVE  First(c, i, S) = f
  <1> DEFINE g == First(c, i, S)
  <1>1. /\ g \in Nat \ {0} /\ i <= g /\ Len(c) \in Nat
        /\ g <= Len(c) => c[g] \in S
        /\ \A j \in i .. g - 1 : j <= Len(c) => c[j] \notin S
    BY FirstIs
  <1> HIDE DEF g
  <1>2. ~(g < f)
    BY <1>1
  <1>3. ~(f < g)
    BY <1>1
  <1>4. g = f
    BY <1>1, <1>2, <1>3
  <1> QED BY <1>4 DEF g

\* What is found in a beginning is what is found in the whole.
LEMMA FirstStable ==
    ASSUME NEW c, NEW w, Begins(c, w), NEW i \in Nat \ {0}, NEW S, First(c, i, S) <= Len(c)
    PROVE  First(w, i, S) = First(c, i, S)
  <1> DEFINE f == First(c, i, S)
  <1>1. /\ f \in Nat \ {0} /\ i <= f /\ f <= Len(c) /\ c[f] \in S
        /\ \A j \in i .. f - 1 : j <= Len(c) => c[j] \notin S
    BY FirstIs DEF Begins
  <1> HIDE DEF f
  <1>2. /\ w \in Seq(Char) /\ Len(c) \in Nat /\ Len(w) \in Nat /\ Len(c) <= Len(w)
        /\ \A j \in 1 .. Len(c) : c[j] = w[j]
    BY DEF Begins
  <1>3. f <= Len(w) /\ w[f] \in S /\ \A j \in i .. f - 1 : w[j] \notin S
    BY <1>1, <1>2
  <1>4. First(w, i, S) = f
    BY <1>1, <1>2, <1>3, FirstUnique
  <1> QED BY <1>4 DEF f

\* The same of the first position with another character.
LEMMA PastStable ==
    ASSUME NEW c, NEW w, Begins(c, w), NEW i \in Nat \ {0}, NEW S, Past(c, i, S) <= Len(c)
    PROVE  Past(w, i, S) = Past(c, i, S)
  <1> DEFINE f == Past(c, i, S)
  <1>1. f = First(c, i, ToSet(c) \ S) /\ c \in Seq(Char)
    BY DEF Past, Begins
  <1>2. /\ f \in Nat \ {0} /\ i <= f /\ f <= Len(c) /\ c[f] \in ToSet(c) \ S
        /\ \A j \in i .. f - 1 : j <= Len(c) => c[j] \notin ToSet(c) \ S
    BY <1>1, FirstIs
  <1>3. Past(w, i, S) = First(w, i, ToSet(w) \ S)
    BY DEF Past
  <1> HIDE DEF f
  <1>4. /\ w \in Seq(Char) /\ Len(c) \in Nat /\ Len(w) \in Nat /\ Len(c) <= Len(w)
        /\ \A j \in 1 .. Len(c) : c[j] = w[j]
        /\ \A j \in 1 .. Len(w) : w[j] \in ToSet(w)
        /\ \A j \in 1 .. Len(c) : c[j] \in ToSet(c)
    BY DEF Begins, ToSet
  <1>5. f <= Len(w) /\ w[f] \in ToSet(w) \ S /\ \A j \in i .. f - 1 : w[j] \notin ToSet(w) \ S
    BY <1>2, <1>4
  <1>6. First(w, i, ToSet(w) \ S) = f
    BY <1>2, <1>4, <1>5, FirstUnique
  <1> QED BY <1>3, <1>6 DEF f

\* Past goes forward.
LEMMA PastIs ==
    ASSUME NEW c, c \in Seq(Char), NEW i \in Nat \ {0}, NEW S
    PROVE  Past(c, i, S) \in Nat \ {0} /\ i <= Past(c, i, S)
  BY FirstIs DEF Past

\* What is read, not waited for, is read of the whole.
LEMMA ReadStable ==
    ASSUME NEW c, NEW w, Begins(c, w), NEW i \in Nat \ {0}, NEW S, Read(c, i, S) # "Underflow"
    PROVE  i <= Len(c) /\ Read(w, i, S) = Read(c, i, S)
  BY DEF Begins, Read

\* The results of reading.
LEMMA ReadIs == ASSUME NEW c, NEW i, NEW S PROVE Read(c, i, S) \in ReadResults
  BY DEF Read, ReadResults
-------------------------------------------------------------------------------
(* The declaration                                                             *)

\* Where the parts of an attribute begin, and what reading them results in.
NameAt(c, i)  == Past(c, i, Space)
EqualAt(c, i) == Past(c, NameAt(c, i) + 1, Space)
QuoteAt(c, i) == Past(c, EqualAt(c, i) + 1, Space)
StopAt(c, i)  == First(c, QuoteAt(c, i) + 1, Quotes \cup Invalid)

ValueRead(c, i) == Read(c, StopAt(c, i), {c[QuoteAt(c, i)]})
AttributeRead(c, i, name) ==
    Then(Read(c, i, Space), Then(Read(c, NameAt(c, i), {name}),
    Then(Read(c, EqualAt(c, i), {"="}), Then(Read(c, QuoteAt(c, i), Quotes), ValueRead(c, i)))))

\* An attribute, by its parts.
LEMMA AttributeIs ==
    ASSUME NEW c, NEW i, NEW name
    PROVE  try_read_attribute(c, i, name) =
             [result |-> AttributeRead(c, i, name),
              pos    |-> IF AttributeRead(c, i, name) = "Ok" THEN StopAt(c, i) + 1 ELSE i,
              value  |-> IF AttributeRead(c, i, name) = "Ok"
                         THEN SubSeq(c, QuoteAt(c, i) + 1, StopAt(c, i) - 1) ELSE <<None>>]
  BY ZenonT(60) DEF try_read_attribute, AttributeRead, ValueRead, NameAt, EqualAt, QuoteAt, StopAt

\* The parts come one after another.
LEMMA PartsInOrder ==
    ASSUME NEW c, c \in Seq(Char), NEW i \in Nat \ {0}
    PROVE  /\ NameAt(c, i) \in Nat \ {0} /\ EqualAt(c, i) \in Nat \ {0}
           /\ QuoteAt(c, i) \in Nat \ {0} /\ StopAt(c, i) \in Nat \ {0}
           /\ QuoteAt(c, i) < StopAt(c, i)
  <1>1. NameAt(c, i) \in Nat \ {0}
    BY PastIs DEF NameAt
  <1>2. EqualAt(c, i) \in Nat \ {0}
    BY <1>1, PastIs DEF EqualAt
  <1>3. QuoteAt(c, i) \in Nat \ {0}
    BY <1>2, PastIs DEF QuoteAt
  <1>4. QuoteAt(c, i) + 1 \in Nat \ {0}
    BY <1>3
  <1>5. StopAt(c, i) \in Nat \ {0} /\ QuoteAt(c, i) + 1 <= StopAt(c, i)
    BY <1>4, FirstIs DEF StopAt
  <1> QED BY <1>1, <1>2, <1>3, <1>5

\* Reading goes on only after what was read.
LEMMA ThenIs ==
    ASSUME NEW r \in ReadResults, NEW n \in ReadResults
    PROVE  /\ Then(r, n) \in ReadResults
           /\ Then(r, n) = "Ok" <=> r = "Ok" /\ n = "Ok"
           /\ r = "Ok" => Then(r, n) = n
           /\ r # "Ok" => Then(r, n) = r
  BY DEF Then, ReadResults

\* The result of an attribute is one of reading; an attribute read ends in the text.
LEMMA AttributeResult ==
    ASSUME NEW c, NEW i, NEW name
    PROVE  AttributeRead(c, i, name) \in ReadResults
  <1>1. /\ Read(c, i, Space) \in ReadResults /\ Read(c, NameAt(c, i), {name}) \in ReadResults
        /\ Read(c, EqualAt(c, i), {"="}) \in ReadResults
        /\ Read(c, QuoteAt(c, i), Quotes) \in ReadResults /\ ValueRead(c, i) \in ReadResults
    BY ReadIs DEF ValueRead
  <1> QED BY <1>1, ThenIs DEF AttributeRead

\* Where an attribute leaves off is a position.
LEMMA AttributePosition ==
    ASSUME NEW c, c \in Seq(Char), NEW i \in Nat \ {0}, NEW name
    PROVE  try_read_attribute(c, i, name).pos \in Nat \ {0}
  <1>1. StopAt(c, i) \in Nat \ {0}
    BY PartsInOrder
  <1>2. CASE AttributeRead(c, i, name) = "Ok"
    <2>1. try_read_attribute(c, i, name).pos = StopAt(c, i) + 1
      BY <1>2, AttributeIs
    <2> QED BY <1>1, <2>1
  <1>3. CASE AttributeRead(c, i, name) # "Ok"
    BY <1>3, AttributeIs
  <1> QED BY <1>2, <1>3

\* Sequences of the same elements are the same.
LEMMA SameSequence ==
    ASSUME NEW s, s \in Seq(Char), NEW t, t \in Seq(Char), Len(s) = Len(t),
           \A i \in 1 .. Len(s) : s[i] = t[i]
    PROVE  s = t
  OBVIOUS

\* A part of a beginning is a part of the whole.
LEMMA SubSeqStable ==
    ASSUME NEW c, NEW w, Begins(c, w), NEW a \in Nat \ {0}, NEW b \in Nat, b <= Len(c)
    PROVE  SubSeq(c, a, b) = SubSeq(w, a, b)
  <1> DEFINE n == IF a <= b THEN b - a + 1 ELSE 0
             part(s) == SubSeq(s, a, b)
  <1>1. /\ c \in Seq(Char) /\ w \in Seq(Char) /\ Len(c) <= Len(w)
        /\ Len(c) \in Nat /\ Len(w) \in Nat /\ n \in Nat
        /\ \A i \in 1 .. Len(c) : c[i] = w[i]
    BY DEF Begins
  <1>2. \A s \in {c, w} : /\ part(s) \in Seq(Char) /\ Len(part(s)) = n
                         /\ \A i \in 1 .. n : part(s)[i] = s[a + i - 1]
    BY <1>1
  <1>3. \A i \in 1 .. n : a + i - 1 \in 1 .. Len(c)
    BY <1>1
  <1> HIDE DEF n, part
  <1>4. \A i \in 1 .. n : part(c)[i] = part(w)[i]
    BY <1>1, <1>2, <1>3
  <1>5. part(c) = part(w)
    BY <1>2, <1>4, SameSequence
  <1> QED BY <1>5 DEF part

\* An attribute that is read, or refused, in a beginning is so in the whole.
LEMMA AttributeStable ==
    ASSUME NEW c, NEW w, Begins(c, w), NEW i \in Nat \ {0}, NEW name,
           AttributeRead(c, i, name) # "Underflow"
    PROVE  try_read_attribute(w, i, name) = try_read_attribute(c, i, name)
  <1> DEFINE r1(x) == Read(x, i, Space)
             r2(x) == Read(x, NameAt(x, i), {name})
             r3(x) == Read(x, EqualAt(x, i), {"="})
             r4(x) == Read(x, QuoteAt(x, i), Quotes)
             r5(x) == ValueRead(x, i)
             same  == AttributeRead(w, i, name) = AttributeRead(c, i, name)
             refused == same /\ AttributeRead(c, i, name) # "Ok"
  <1>1. \A x : /\ r1(x) \in ReadResults /\ r2(x) \in ReadResults /\ r3(x) \in ReadResults
               /\ r4(x) \in ReadResults /\ r5(x) \in ReadResults
               /\ AttributeRead(x, i, name) = Then(r1(x), Then(r2(x), Then(r3(x), Then(r4(x), r5(x)))))
    BY ReadIs DEF ValueRead, AttributeRead
  <1>2. /\ c \in Seq(Char) /\ w \in Seq(Char)
        /\ NameAt(c, i) \in Nat \ {0} /\ EqualAt(c, i) \in Nat \ {0}
        /\ QuoteAt(c, i) \in Nat \ {0} /\ StopAt(c, i) \in Nat \ {0}
        /\ NameAt(c, i) + 1 \in Nat \ {0} /\ EqualAt(c, i) + 1 \in Nat \ {0}
        /\ QuoteAt(c, i) + 1 \in Nat \ {0}
    <2>1. c \in Seq(Char) /\ w \in Seq(Char)
      BY DEF Begins
    <2>2. /\ NameAt(c, i) \in Nat \ {0} /\ EqualAt(c, i) \in Nat \ {0}
          /\ QuoteAt(c, i) \in Nat \ {0} /\ StopAt(c, i) \in Nat \ {0}
      BY <2>1, PartsInOrder
    <2> QED BY <2>1, <2>2
  <1>3. r1(c) # "Underflow" /\ r1(w) = r1(c)
    <2>1. r1(c) # "Underflow"
      BY <1>1, ThenIs DEF ReadResults, Then
    <2> QED BY <2>1, ReadStable
  <1>4. r1(c) = "Ok" => /\ r2(c) # "Underflow" /\ NameAt(w, i) = NameAt(c, i) /\ r2(w) = r2(c)
    <2> SUFFICES ASSUME r1(c) = "Ok"
                 PROVE  /\ r2(c) # "Underflow" /\ NameAt(w, i) = NameAt(c, i) /\ r2(w) = r2(c)
      OBVIOUS
    <2>1. r2(c) # "Underflow"
      BY <1>1, ThenIs DEF ReadResults, Then
    <2>2. NameAt(c, i) <= Len(c)
      BY <2>1, <1>2, ReadStable
    <2>3. NameAt(w, i) = NameAt(c, i)
      BY <2>2, PastStable DEF NameAt
    <2>4. Read(w, NameAt(c, i), {name}) = r2(c)
      BY <2>1, <1>2, ReadStable
    <2> QED BY <2>1, <2>3, <2>4
  <1>5. r1(c) = "Ok" /\ r2(c) = "Ok" =>
          /\ r3(c) # "Underflow" /\ EqualAt(w, i) = EqualAt(c, i) /\ r3(w) = r3(c)
    <2> SUFFICES ASSUME r1(c) = "Ok", r2(c) = "Ok"
                 PROVE  /\ r3(c) # "Underflow" /\ EqualAt(w, i) = EqualAt(c, i) /\ r3(w) = r3(c)
      OBVIOUS
    <2>1. r3(c) # "Underflow"
      BY <1>1, ThenIs DEF ReadResults, Then
    <2>2. EqualAt(c, i) <= Len(c)
      BY <2>1, <1>2, ReadStable
    <2>3. EqualAt(w, i) = EqualAt(c, i)
      BY <2>2, <1>2, <1>4, PastStable DEF EqualAt
    <2>4. Read(w, EqualAt(c, i), {"="}) = r3(c)
      BY <2>1, <1>2, ReadStable
    <2> QED BY <2>1, <2>3, <2>4
  <1>6. r1(c) = "Ok" /\ r2(c) = "Ok" /\ r3(c) = "Ok" =>
          /\ r4(c) # "Underflow" /\ QuoteAt(w, i) = QuoteAt(c, i) /\ r4(w) = r4(c)
          /\ QuoteAt(c, i) <= Len(c)
    <2> SUFFICES ASSUME r1(c) = "Ok", r2(c) = "Ok", r3(c) = "Ok"
                 PROVE  /\ r4(c) # "Underflow" /\ QuoteAt(w, i) = QuoteAt(c, i) /\ r4(w) = r4(c)
                        /\ QuoteAt(c, i) <= Len(c)
      OBVIOUS
    <2>1. r4(c) # "Underflow"
      BY <1>1, ThenIs DEF ReadResults, Then
    <2>2. QuoteAt(c, i) <= Len(c)
      BY <2>1, <1>2, ReadStable
    <2>3. QuoteAt(w, i) = QuoteAt(c, i)
      BY <2>2, <1>2, <1>4, <1>5, PastStable DEF QuoteAt
    <2>4. Read(w, QuoteAt(c, i), Quotes) = r4(c)
      BY <2>1, <1>2, ReadStable
    <2> QED BY <2>1, <2>2, <2>3, <2>4
  <1>7. r1(c) = "Ok" /\ r2(c) = "Ok" /\ r3(c) = "Ok" /\ r4(c) = "Ok" =>
          /\ r5(c) # "Underflow" /\ StopAt(w, i) = StopAt(c, i) /\ r5(w) = r5(c)
          /\ StopAt(c, i) <= Len(c)
    <2> SUFFICES ASSUME r1(c) = "Ok", r2(c) = "Ok", r3(c) = "Ok", r4(c) = "Ok"
                 PROVE  /\ r5(c) # "Underflow" /\ StopAt(w, i) = StopAt(c, i) /\ r5(w) = r5(c)
                        /\ StopAt(c, i) <= Len(c)
      OBVIOUS
    <2> DEFINE q == c[QuoteAt(c, i)]
    <2>1. r5(c) # "Underflow"
      BY <1>1, ThenIs DEF ReadResults, Then
    <2>2. StopAt(c, i) <= Len(c)
      BY <2>1, <1>2, ReadStable DEF ValueRead
    <2>3. StopAt(w, i) = StopAt(c, i)
      BY <2>2, <1>2, <1>6, FirstStable DEF StopAt
    <2>4. w[QuoteAt(w, i)] = q
      BY <1>2, <1>6 DEF Begins
    <2>5. Read(w, StopAt(c, i), {q}) = Read(c, StopAt(c, i), {q})
      BY <2>1, <1>2, ReadStable DEF ValueRead
    <2> QED BY <2>1, <2>2, <2>3, <2>4, <2>5 DEF ValueRead
  <1>8. AttributeRead(w, i, name) = AttributeRead(c, i, name)
    <2> HIDE DEF r1, r2, r3, r4, r5
    <2> QED BY <1>1, <1>3, <1>4, <1>5, <1>6, <1>7 DEF ReadResults, Then
  <1>9. CASE AttributeRead(c, i, name) # "Ok"
    BY <1>8, <1>9, AttributeIs
  <1>10. CASE AttributeRead(c, i, name) = "Ok"
    <2>1. r1(c) = "Ok" /\ r2(c) = "Ok" /\ r3(c) = "Ok" /\ r4(c) = "Ok"
      <3> HIDE DEF r1, r2, r3, r4, r5
      <3> QED BY <1>1, <1>10 DEF ReadResults, Then
    <2>2. /\ QuoteAt(w, i) = QuoteAt(c, i) /\ StopAt(w, i) = StopAt(c, i) /\ StopAt(c, i) <= Len(c)
      BY <2>1, <1>6, <1>7
    <2>3. SubSeq(c, QuoteAt(c, i) + 1, StopAt(c, i) - 1) = SubSeq(w, QuoteAt(c, i) + 1, StopAt(c, i) - 1)
      <3> DEFINE a == QuoteAt(c, i) + 1
                 b == StopAt(c, i) - 1
      <3>1. a \in Nat \ {0} /\ b \in Nat /\ b <= Len(c)
        BY <1>2, <2>2 DEF Begins
      <3> HIDE DEF a, b
      <3>2. SubSeq(c, a, b) = SubSeq(w, a, b)
        BY <3>1, SubSeqStable
      <3> QED BY <3>2 DEF a, b
    <2> QED BY <1>8, <1>10, <2>2, <2>3, AttributeIs
  <1> QED BY <1>9, <1>10

\* The attributes of a declaration, and what reading it results in.
Version(c)     == try_read_attribute(c, 2, "version")
Encoding(c)    == try_read_attribute(c, Version(c).pos, "encoding")
Standalone(c, external) ==
    IF external THEN NoAttribute(Encoding(c).pos)
    ELSE try_read_attribute(c, Encoding(c).pos, "standalone")
EndAt(c, external) == Past(c, Standalone(c, external).pos, Space)

VersionRead(c, external)  == IF external THEN IfPresent(Version(c).result) ELSE Version(c).result
EncodingRead(c, external) == IF external THEN Encoding(c).result ELSE IfPresent(Encoding(c).result)
EndRead(c, external)      == Read(c, EndAt(c, external), {"?>"})
DeclarationRead(c, external) ==
    Then(Read(c, 1, {"<?xml"}), Then(VersionRead(c, external), Then(EncodingRead(c, external),
    Then(IfPresent(Standalone(c, external).result), EndRead(c, external)))))
LegalRead(c, external) ==
    /\ Version(c).value \in {<<"1.0">>, <<"1.1">>} \cup (IF external THEN {<<None>>} ELSE {})
    /\ Standalone(c, external).value \in {<<"yes">>, <<"no">>, <<None>>}

\* A declaration, by its parts.
LEMMA DeclarationIs ==
    ASSUME NEW c, NEW external
    PROVE  ParseDeclaration(c, external) =
             [result     |-> IF DeclarationRead(c, external) = "Ok" /\ ~LegalRead(c, external)
                             THEN "Failure" ELSE DeclarationRead(c, external),
              version    |-> Version(c).value, encoding |-> Encoding(c).value,
              standalone |-> Standalone(c, external).value, consumed |-> EndAt(c, external)]
  BY DEF ParseDeclaration, XmlOrTextDeclaration, DeclarationRead, LegalRead, VersionRead,
         EncodingRead, EndRead, Version, Encoding, Standalone, EndAt

\* A declaration ends at a position.
LEMMA DeclarationEnds ==
    ASSUME NEW c, c \in Seq(Char), NEW external \in BOOLEAN
    PROVE  ParseDeclaration(c, external).consumed \in Nat
  <1>1. 2 \in Nat \ {0}
    OBVIOUS
  <1>2. Version(c).pos \in Nat \ {0}
    BY <1>1, AttributePosition DEF Version
  <1>3. Encoding(c).pos \in Nat \ {0}
    BY <1>2, AttributePosition DEF Encoding
  <1>4. Standalone(c, external).pos \in Nat \ {0}
    BY <1>3, AttributePosition DEF Standalone, NoAttribute
  <1>5. EndAt(c, external) \in Nat
    BY <1>4, PastIs DEF EndAt
  <1> QED BY <1>5, DeclarationIs

\* What reading an attribute results in.
LEMMA AttributeResultIs ==
    ASSUME NEW c, NEW i, NEW name
    PROVE  /\ try_read_attribute(c, i, name).result = AttributeRead(c, i, name)
           /\ try_read_attribute(c, i, name).result \in ReadResults
           /\ IfPresent(try_read_attribute(c, i, name).result) \in ReadResults
           /\ IfPresent(try_read_attribute(c, i, name).result) # "Underflow" <=>
                 AttributeRead(c, i, name) # "Underflow"
  <1>1. /\ try_read_attribute(c, i, name).result = AttributeRead(c, i, name)
        /\ AttributeRead(c, i, name) \in ReadResults
    BY AttributeIs, AttributeResult
  <1> QED BY <1>1 DEF IfPresent, ReadResults

\* A declaration that is accepted, or refused, in a beginning is so in the whole.
LEMMA DeclarationStable ==
    ASSUME NEW c, NEW w, Begins(c, w), NEW external \in BOOLEAN,
           ParseDeclaration(c, external).result # "Underflow"
    PROVE  /\ ParseDeclaration(w, external).result = ParseDeclaration(c, external).result
           /\ ParseDeclaration(c, external).result = "Ok" =>
                 ParseDeclaration(w, external) = ParseDeclaration(c, external)
  <1> DEFINE r1(x) == Read(x, 1, {"<?xml"})
             r2(x) == VersionRead(x, external)
             r3(x) == EncodingRead(x, external)
             r4(x) == IfPresent(Standalone(x, external).result)
             r5(x) == EndRead(x, external)
             read(x) == DeclarationRead(x, external)
  <1>0. c \in Seq(Char) /\ w \in Seq(Char) /\ 1 \in Nat \ {0} /\ 2 \in Nat \ {0}
    BY DEF Begins
  <1>1. \A x : read(x) = Then(r1(x), Then(r2(x), Then(r3(x), Then(r4(x), r5(x)))))
    BY DEF DeclarationRead
  <1>2. \A x : /\ r1(x) \in ReadResults /\ r2(x) \in ReadResults /\ r3(x) \in ReadResults
               /\ r4(x) \in ReadResults /\ r5(x) \in ReadResults
    <2> TAKE x
    <2>1. r1(x) \in ReadResults /\ r5(x) \in ReadResults
      BY ReadIs DEF EndRead
    <2>2. r2(x) \in ReadResults
      BY AttributeResultIs DEF VersionRead, Version
    <2>3. r3(x) \in ReadResults
      BY AttributeResultIs DEF EncodingRead, Encoding
    <2>4. r4(x) \in ReadResults
      <3>1. CASE external
        BY <3>1 DEF Standalone, NoAttribute, IfPresent, ReadResults
      <3>2. CASE ~external
        BY <3>2, AttributeResultIs DEF Standalone
      <3> QED BY <3>1, <3>2
    <2> QED BY <2>1, <2>2, <2>3, <2>4
  <1>3. ParseDeclaration(c, external).result =
          IF read(c) = "Ok" /\ ~LegalRead(c, external) THEN "Failure" ELSE read(c)
    BY DeclarationIs
  <1>4. read(c) # "Underflow"
    BY <1>3
  <1>5. r1(c) # "Underflow" /\ r1(w) = r1(c)
    <2>1. r1(c) # "Underflow"
      BY <1>1, <1>2, <1>4 DEF ReadResults, Then
    <2> QED BY <2>1, <1>0, ReadStable
  <1>6. r1(c) = "Ok" => Version(w) = Version(c) /\ r2(w) = r2(c)
    <2> SUFFICES ASSUME r1(c) = "Ok" PROVE Version(w) = Version(c) /\ r2(w) = r2(c)
      OBVIOUS
    <2>1. r2(c) # "Underflow"
      BY <1>1, <1>2, <1>4 DEF ReadResults, Then
    <2>2. AttributeRead(c, 2, "version") # "Underflow"
      BY <2>1, AttributeResultIs DEF VersionRead, Version
    <2>3. Version(w) = Version(c)
      BY <2>2, <1>0, AttributeStable DEF Version
    <2> QED BY <2>3 DEF VersionRead
  <1>7. Version(c).pos \in Nat \ {0} /\ Encoding(c).pos \in Nat \ {0}
    <2>1. Version(c).pos \in Nat \ {0}
      BY <1>0, AttributePosition DEF Version
    <2> QED BY <1>0, <2>1, AttributePosition DEF Encoding
  <1>8. r1(c) = "Ok" /\ r2(c) = "Ok" => Encoding(w) = Encoding(c) /\ r3(w) = r3(c)
    <2> SUFFICES ASSUME r1(c) = "Ok", r2(c) = "Ok" PROVE Encoding(w) = Encoding(c) /\ r3(w) = r3(c)
      OBVIOUS
    <2>1. r3(c) # "Underflow"
      BY <1>1, <1>2, <1>4 DEF ReadResults, Then
    <2>2. AttributeRead(c, Version(c).pos, "encoding") # "Underflow"
      BY <2>1, AttributeResultIs DEF EncodingRead, Encoding
    <2>3. Encoding(w) = Encoding(c)
      BY <2>2, <1>6, <1>7, AttributeStable DEF Encoding
    <2> QED BY <2>3 DEF EncodingRead
  <1>9. r1(c) = "Ok" /\ r2(c) = "Ok" /\ r3(c) = "Ok" =>
          /\ Standalone(w, external) = Standalone(c, external) /\ r4(w) = r4(c)
          /\ Standalone(c, external).pos \in Nat \ {0}
    <2> SUFFICES ASSUME r1(c) = "Ok", r2(c) = "Ok", r3(c) = "Ok"
                 PROVE  /\ Standalone(w, external) = Standalone(c, external)
                        /\ Standalone(c, external).pos \in Nat \ {0}
      OBVIOUS
    <2>1. r4(c) # "Underflow"
      BY <1>1, <1>2, <1>4 DEF ReadResults, Then
    <2>2. CASE external
      BY <2>2, <1>7, <1>8 DEF Standalone, NoAttribute
    <2>3. CASE ~external
      <3>1. AttributeRead(c, Encoding(c).pos, "standalone") # "Underflow"
        BY <2>1, <2>3, AttributeResultIs DEF Standalone
      <3>2. try_read_attribute(w, Encoding(c).pos, "standalone") =
              try_read_attribute(c, Encoding(c).pos, "standalone")
        BY <3>1, <1>7, AttributeStable
      <3> QED BY <2>3, <3>2, <1>0, <1>7, <1>8, AttributePosition DEF Standalone
    <2> QED BY <2>2, <2>3
  <1>10. r1(c) = "Ok" /\ r2(c) = "Ok" /\ r3(c) = "Ok" /\ r4(c) = "Ok" =>
           EndAt(w, external) = EndAt(c, external) /\ r5(w) = r5(c)
    <2> SUFFICES ASSUME r1(c) = "Ok", r2(c) = "Ok", r3(c) = "Ok", r4(c) = "Ok"
                 PROVE  EndAt(w, external) = EndAt(c, external) /\ r5(w) = r5(c)
      OBVIOUS
    <2>1. r5(c) # "Underflow"
      BY <1>1, <1>2, <1>4 DEF ReadResults, Then
    <2>2. EndAt(c, external) \in Nat \ {0}
      BY <1>0, <1>9, PastIs DEF EndAt
    <2>3. EndAt(c, external) <= Len(c) /\ Read(w, EndAt(c, external), {"?>"}) = r5(c)
      BY <2>1, <2>2, ReadStable DEF EndRead
    <2>4. EndAt(w, external) = EndAt(c, external)
      BY <2>3, <1>9, PastStable DEF EndAt
    <2> QED BY <2>3, <2>4 DEF EndRead
  <1> HIDE DEF r1, r2, r3, r4, r5, read
  <1>11. read(w) = read(c)
    BY <1>1, <1>2, <1>4, <1>5, <1>6, <1>8, <1>9, <1>10 DEF ReadResults, Then
  <1>12. read(c) = "Ok" => /\ Version(w) = Version(c) /\ Encoding(w) = Encoding(c)
                           /\ Standalone(w, external) = Standalone(c, external)
                           /\ EndAt(w, external) = EndAt(c, external)
    <2>1. read(c) = "Ok" => r1(c) = "Ok" /\ r2(c) = "Ok" /\ r3(c) = "Ok" /\ r4(c) = "Ok"
      BY <1>1, <1>2 DEF ReadResults, Then
    <2> QED BY <2>1, <1>6, <1>8, <1>9, <1>10
  <1> USE DEF read
  <1>13. CASE read(c) # "Ok"
    BY <1>11, <1>13, DeclarationIs
  <1>14. CASE read(c) = "Ok"
    BY <1>11, <1>12, <1>14, DeclarationIs DEF LegalRead
  <1> QED BY <1>13, <1>14
-------------------------------------------------------------------------------
(* Characters and the byte order mark                                          *)

AllMarks == Marks \cup {None}

\* A character takes one, two or four bytes.
LEMMA UnitSizes == ASSUME NEW b \in AllMarks PROVE UnitSize(b) \in {1, 2, 4}
  BY DEF UnitSize, AllMarks, Marks, None

\* As many characters can be read as there are units.
LEMMA Units ==
    ASSUME NEW n \in {1, 2, 4}, NEW m \in Nat
    PROVE  /\ m \div n \in Nat
           /\ \A i \in 1 .. m \div n : n * (i - 1) + 1 \in Nat \ {0} /\ n * i \in Nat /\ n * i <= m
           /\ \A k \in Nat : m <= k => m \div n <= k \div n
  <1>1. CASE n = 1 BY <1>1
  <1>2. CASE n = 2 BY <1>2
  <1>3. CASE n = 4 BY <1>3
  <1> QED BY <1>1, <1>2, <1>3

\* The characters of bytes, one by one.
LEMMA CharsAre ==
    ASSUME NEW bytes, bytes \in Seq(Char), NEW b \in AllMarks
    PROVE  /\ ReadChars(bytes, b) \in Seq(Char)
           /\ Len(ReadChars(bytes, b)) = Len(bytes) \div UnitSize(b)
           /\ \A i \in 1 .. Len(bytes) \div UnitSize(b) :
                 ReadChars(bytes, b)[i] =
                   AsciiOf(SubSeq(bytes, UnitSize(b) * (i - 1) + 1, UnitSize(b) * i), b)
  <1> DEFINE n == UnitSize(b)
             k == Len(bytes) \div n
             char(i) == AsciiOf(SubSeq(bytes, n * (i - 1) + 1, n * i), b)
  <1>1. n \in {1, 2, 4} /\ Len(bytes) \in Nat
    BY UnitSizes
  <1>2. ReadChars(bytes, b) = [i \in 1 .. k |-> char(i)]
    BY DEF ReadChars
  <1>3. ASSUME NEW i \in 1 .. k PROVE char(i) \in Char
    <2> DEFINE unit == SubSeq(bytes, n * (i - 1) + 1, n * i)
               at   == IF b \in {"Utf16Le", "Utf32Le"} THEN 1 ELSE n
    <2> HIDE DEF n
    <2>1. n * (i - 1) + 1 \in Nat \ {0} /\ n * i \in Nat /\ n * i <= Len(bytes) /\ i \in Nat
      BY <1>1, Units
    <2>2. /\ unit \in Seq(Char) /\ Len(unit) = n
      <3>1. CASE n = 1 BY <1>1, <2>1, <3>1
      <3>2. CASE n = 2 BY <1>1, <2>1, <3>2
      <3>3. CASE n = 4 BY <1>1, <2>1, <3>3
      <3> QED BY <1>1, <3>1, <3>2, <3>3
    <2>3. at \in 1 .. n
      BY <1>1
    <2> HIDE DEF unit, at
    <2>4. unit[at] \in Char
      BY <2>2, <2>3
    <2>5. char(i) = unit[at] \/ char(i) = "non-ASCII"
      BY <2>2 DEF AsciiOf, unit, at
    <2> QED BY <2>4, <2>5 DEF Char
  <1> HIDE DEF char
  <1>4. k \in Nat
    BY <1>1, Units
  <1> HIDE DEF n, k
  <1>5. ReadChars(bytes, b) \in [1 .. k -> Char]
    BY <1>2, <1>3
  <1>6. ReadChars(bytes, b) \in Seq(Char) /\ Len(ReadChars(bytes, b)) = k
    BY <1>4, <1>5
  <1> QED BY <1>2, <1>6 DEF n, k, char

\* The characters of a beginning are a beginning of the characters.
LEMMA CharsStable ==
    ASSUME NEW c, NEW w, Begins(c, w), NEW b \in AllMarks
    PROVE  Begins(ReadChars(c, b), ReadChars(w, b))
  <1> DEFINE n == UnitSize(b)
             cs == ReadChars(c, b)
             ws == ReadChars(w, b)
  <1>1. /\ c \in Seq(Char) /\ w \in Seq(Char) /\ Len(c) \in Nat /\ Len(w) \in Nat
        /\ Len(c) <= Len(w) /\ n \in {1, 2, 4}
    BY UnitSizes DEF Begins
  <1>2. /\ cs \in Seq(Char) /\ ws \in Seq(Char)
        /\ Len(cs) = Len(c) \div n /\ Len(ws) = Len(w) \div n
        /\ \A i \in 1 .. Len(c) \div n : cs[i] = AsciiOf(SubSeq(c, n * (i - 1) + 1, n * i), b)
        /\ \A i \in 1 .. Len(w) \div n : ws[i] = AsciiOf(SubSeq(w, n * (i - 1) + 1, n * i), b)
    BY <1>1, CharsAre
  <1> HIDE DEF n, cs, ws
  <1>3. Len(c) \div n <= Len(w) \div n /\ Len(c) \div n \in Nat /\ Len(w) \div n \in Nat
    BY <1>1, Units
  <1>4. ASSUME NEW i \in 1 .. Len(c) \div n PROVE cs[i] = ws[i]
    <2> DEFINE a == n * (i - 1) + 1
               z == n * i
    <2>1. a \in Nat \ {0} /\ z \in Nat /\ z <= Len(c)
      BY <1>1, Units
    <2>2. cs[i] = AsciiOf(SubSeq(c, a, z), b) /\ ws[i] = AsciiOf(SubSeq(w, a, z), b)
      BY <1>2, <1>3
    <2> HIDE DEF a, z
    <2>3. SubSeq(c, a, z) = SubSeq(w, a, z)
      BY <2>1, SubSeqStable
    <2> QED BY <2>2, <2>3
  <1>5. Begins(cs, ws)
    BY <1>2, <1>3, <1>4 DEF Begins
  <1> QED BY <1>5 DEF cs, ws

\* What begins with a signature.
Starts(t, b) ==
    \/ b = "Utf8"    /\ Len(t) >= 3 /\ t[1] = "EF" /\ t[2] = "BB" /\ t[3] = "BF"
    \/ b = "Utf16Be" /\ Len(t) >= 2 /\ t[1] = "FE" /\ t[2] = "FF"
    \/ b = "Utf16Le" /\ Len(t) >= 2 /\ t[1] = "FF" /\ t[2] = "FE"
    \/ b = "Utf32Le" /\ Len(t) >= 4 /\ t[1] = "FF" /\ t[2] = "FE" /\ t[3] = "00" /\ t[4] = "00"
    \/ b = "Utf32Be" /\ Len(t) >= 4 /\ t[1] = "00" /\ t[2] = "00" /\ t[3] = "FE" /\ t[4] = "FF"

\* The signatures, one by one.
LEMMA Signatures ==
    /\ DOMAIN Signature = Marks
    /\ \A b \in Marks : Signature[b] \in Seq(NonAscii \cup {"00"})
    /\ /\ Len(Signature["Utf8"]) = 3 /\ Signature["Utf8"][1] = "EF"
       /\ Signature["Utf8"][2] = "BB" /\ Signature["Utf8"][3] = "BF"
    /\ Len(Signature["Utf16Be"]) = 2 /\ Signature["Utf16Be"][1] = "FE" /\ Signature["Utf16Be"][2] = "FF"
    /\ Len(Signature["Utf16Le"]) = 2 /\ Signature["Utf16Le"][1] = "FF" /\ Signature["Utf16Le"][2] = "FE"
    /\ /\ Len(Signature["Utf32Le"]) = 4
       /\ Signature["Utf32Le"][1] = "FF" /\ Signature["Utf32Le"][2] = "FE"
       /\ Signature["Utf32Le"][3] = "00" /\ Signature["Utf32Le"][4] = "00"
    /\ /\ Len(Signature["Utf32Be"]) = 4
       /\ Signature["Utf32Be"][1] = "00" /\ Signature["Utf32Be"][2] = "00"
       /\ Signature["Utf32Be"][3] = "FE" /\ Signature["Utf32Be"][4] = "FF"
  BY DEF Signature, Marks, NonAscii

\* Their lengths.
LEMMA SignatureLengths ==
    \A b \in Marks :
        /\ b = "Utf8" => Len(Signature[b]) = 3
        /\ b \in {"Utf16Be", "Utf16Le"} => Len(Signature[b]) = 2
        /\ b \in {"Utf32Be", "Utf32Le"} => Len(Signature[b]) = 4
  <1> SUFFICES ASSUME NEW b \in Marks
               PROVE  /\ b = "Utf8" => Len(Signature[b]) = 3
                      /\ b \in {"Utf16Be", "Utf16Le"} => Len(Signature[b]) = 2
                      /\ b \in {"Utf32Be", "Utf32Le"} => Len(Signature[b]) = 4
    OBVIOUS
  <1>1. CASE b = "Utf8" BY <1>1, Signatures
  <1>2. CASE b = "Utf16Be" BY <1>2, Signatures
  <1>3. CASE b = "Utf16Le" BY <1>3, Signatures
  <1>4. CASE b = "Utf32Be" BY <1>4, Signatures
  <1>5. CASE b = "Utf32Le" BY <1>5, Signatures
  <1> QED BY <1>1, <1>2, <1>3, <1>4, <1>5 DEF Marks

\* A stream has a mark for a prefix if its first bytes are those of the mark.
LEMMA PrefixIs ==
    ASSUME NEW S, NEW s, s \in Seq(S), NEW t, t \in Seq(Char)
    PROVE  IsPrefix(s, t) <=> Len(s) <= Len(t) /\ \A i \in 1 .. Len(s) : s[i] = t[i]
  <1>1. Len(s) \in Nat /\ Len(t) \in Nat
    OBVIOUS
  <1>2. CASE Len(s) <= Len(t)
    <2>1. /\ SubSeq(s, 1, Len(s)) = [i \in 1 .. Len(s) |-> s[i]]
          /\ SubSeq(t, 1, Len(s)) = [i \in 1 .. Len(s) |-> t[i]]
      BY <1>1, <1>2
    <2> QED BY <1>2, <2>1 DEF IsPrefix
  <1>3. CASE ~(Len(s) <= Len(t))
    BY <1>3 DEF IsPrefix
  <1> QED BY <1>2, <1>3

\* The same, for the lengths that marks have.
LEMMA ShortPrefixes ==
    ASSUME NEW S, NEW s, s \in Seq(S), NEW t, t \in Seq(Char)
    PROVE  /\ Len(s) = 2 => (IsPrefix(s, t) <=> Len(t) >= 2 /\ s[1] = t[1] /\ s[2] = t[2])
           /\ Len(s) = 3 => (IsPrefix(s, t) <=>
                 Len(t) >= 3 /\ s[1] = t[1] /\ s[2] = t[2] /\ s[3] = t[3])
           /\ Len(s) = 4 => (IsPrefix(s, t) <=>
                 Len(t) >= 4 /\ s[1] = t[1] /\ s[2] = t[2] /\ s[3] = t[3] /\ s[4] = t[4])
  <1>1. IsPrefix(s, t) <=> Len(s) <= Len(t) /\ \A i \in 1 .. Len(s) : s[i] = t[i]
    BY PrefixIs
  <1>2. Len(t) \in Nat
    OBVIOUS
  <1>3. ASSUME Len(s) = 2
        PROVE  IsPrefix(s, t) <=> Len(t) >= 2 /\ s[1] = t[1] /\ s[2] = t[2]
    <2>1. (\A i \in 1 .. 2 : s[i] = t[i]) <=> s[1] = t[1] /\ s[2] = t[2]
      OBVIOUS
    <2> QED BY <1>1, <1>2, <1>3, <2>1
  <1>4. ASSUME Len(s) = 3
        PROVE  IsPrefix(s, t) <=> Len(t) >= 3 /\ s[1] = t[1] /\ s[2] = t[2] /\ s[3] = t[3]
    <2>1. (\A i \in 1 .. 3 : s[i] = t[i]) <=> s[1] = t[1] /\ s[2] = t[2] /\ s[3] = t[3]
      OBVIOUS
    <2> QED BY <1>1, <1>2, <1>4, <2>1
  <1>5. ASSUME Len(s) = 4
        PROVE  IsPrefix(s, t) <=>
                 Len(t) >= 4 /\ s[1] = t[1] /\ s[2] = t[2] /\ s[3] = t[3] /\ s[4] = t[4]
    <2>1. (\A i \in 1 .. 4 : s[i] = t[i]) <=>
            s[1] = t[1] /\ s[2] = t[2] /\ s[3] = t[3] /\ s[4] = t[4]
      OBVIOUS
    <2> QED BY <1>1, <1>2, <1>5, <2>1
  <1> QED BY <1>3, <1>4, <1>5

\* The same, of each mark.
LEMMA StartsIs ==
    ASSUME NEW t, t \in Seq(Char), NEW b \in Marks
    PROVE  IsPrefix(Signature[b], t) <=> Starts(t, b)
  <1> DEFINE s == Signature[b]
  <1>1. s \in Seq(NonAscii \cup {"00"})
    BY Signatures
  <1>2. /\ Len(s) = 2 => (IsPrefix(s, t) <=> Len(t) >= 2 /\ s[1] = t[1] /\ s[2] = t[2])
        /\ Len(s) = 3 => (IsPrefix(s, t) <=>
              Len(t) >= 3 /\ s[1] = t[1] /\ s[2] = t[2] /\ s[3] = t[3])
        /\ Len(s) = 4 => (IsPrefix(s, t) <=>
              Len(t) >= 4 /\ s[1] = t[1] /\ s[2] = t[2] /\ s[3] = t[3] /\ s[4] = t[4])
    <2> HIDE DEF s
    <2> QED BY <1>1, ShortPrefixes
  <1>3. \/ b = "Utf8" \/ b = "Utf16Be" \/ b = "Utf16Le" \/ b = "Utf32Le" \/ b = "Utf32Be"
    BY DEF Marks
  <1>4. CASE b = "Utf8"
    BY <1>2, <1>4, Signatures DEF Starts
  <1>5. CASE b = "Utf16Be"
    BY <1>2, <1>5, Signatures DEF Starts
  <1>6. CASE b = "Utf16Le"
    BY <1>2, <1>6, Signatures DEF Starts
  <1>7. CASE b = "Utf32Le"
    BY <1>2, <1>7, Signatures DEF Starts
  <1>8. CASE b = "Utf32Be"
    BY <1>2, <1>8, Signatures DEF Starts
  <1> QED BY <1>3, <1>4, <1>5, <1>6, <1>7, <1>8

\* The marks a stream begins with.
MarksOf(t) == {b \in Marks : Starts(t, b)}

\* The longest of them is the stream's; it fits in the stream.
LEMMA BomIs ==
    ASSUME NEW t, t \in Seq(Char)
    PROVE  /\ MarksOf(t) = {} => BomOf(t) = None
           /\ MarksOf(t) # {} =>
                 /\ BomOf(t) \in MarksOf(t)
                 /\ BomOf(t) =
                      CHOOSE b \in MarksOf(t) : \A c \in MarksOf(t) : Len(Signature[c]) <= Len(Signature[b])
           /\ BomOf(t) \in AllMarks
           /\ MarkLength(BomOf(t)) \in Nat /\ MarkLength(BomOf(t)) <= Len(t)
  <1>1. {b \in DOMAIN Signature : IsPrefix(Signature[b], t)} = MarksOf(t)
    BY Signatures, StartsIs DEF MarksOf
  <1>2. Len(t) \in Nat
    OBVIOUS
  <1>3. CASE MarksOf(t) = {}
    <2>1. BomOf(t) = None
      BY <1>1, <1>3 DEF BomOf
    <2> QED BY <1>2, <1>3, <2>1 DEF AllMarks, MarkLength
  <1>4. CASE MarksOf(t) # {}
    <2> DEFINE longest(b) == \A c \in MarksOf(t) : Len(Signature[c]) <= Len(Signature[b])
    <2>1. BomOf(t) = CHOOSE b \in MarksOf(t) : longest(b)
      BY <1>1, <1>4 DEF BomOf
    <2>2. \E b \in MarksOf(t) : longest(b)
      <3> DEFINE size(b) == Len(Signature[b])
      <3>1. \A b \in Marks :
              /\ b = "Utf8" => size(b) = 3
              /\ b \in {"Utf16Be", "Utf16Le"} => size(b) = 2
              /\ b \in {"Utf32Be", "Utf32Le"} => size(b) = 4
        BY SignatureLengths
      <3>2. MarksOf(t) \subseteq Marks
        BY DEF MarksOf
      <3>3. \E b \in MarksOf(t) : \A c \in MarksOf(t) : size(c) <= size(b)
        <4> HIDE DEF size
        <4>1. CASE "Utf32Le" \in MarksOf(t)
          BY <3>1, <3>2, <4>1 DEF Marks
        <4>2. CASE "Utf32Be" \in MarksOf(t)
          BY <3>1, <3>2, <4>2 DEF Marks
        <4>3. CASE "Utf32Le" \notin MarksOf(t) /\ "Utf32Be" \notin MarksOf(t) /\ "Utf8" \in MarksOf(t)
          BY <3>1, <3>2, <4>3 DEF Marks
        <4>4. CASE /\ "Utf32Le" \notin MarksOf(t) /\ "Utf32Be" \notin MarksOf(t)
                   /\ "Utf8" \notin MarksOf(t)
          BY <1>4, <3>1, <3>2, <4>4 DEF Marks
        <4> QED BY <4>1, <4>2, <4>3, <4>4
      <3> QED BY <3>3
    <2>3. BomOf(t) \in MarksOf(t)
      <3> HIDE DEF longest
      <3> QED BY <2>1, <2>2
    <2>4. BomOf(t) \in Marks /\ Starts(t, BomOf(t)) /\ BomOf(t) # None
      BY <2>3 DEF MarksOf, Marks, None
    <2>5. MarkLength(BomOf(t)) = Len(Signature[BomOf(t)])
      BY <2>4 DEF MarkLength
    <2>6. MarkLength(BomOf(t)) \in Nat /\ MarkLength(BomOf(t)) <= Len(t)
      <3> DEFINE b == BomOf(t)
      <3>1. b \in Marks /\ Starts(t, b) /\ MarkLength(b) = Len(Signature[b])
        BY <2>4, <2>5
      <3> HIDE DEF b
      <3> DEFINE n == Len(Signature[b])
      <3>2. /\ b = "Utf8" => n = 3
            /\ b \in {"Utf16Be", "Utf16Le"} => n = 2
            /\ b \in {"Utf32Be", "Utf32Le"} => n = 4
        BY <3>1, SignatureLengths
      <3>3. MarkLength(b) = n
        BY <3>1
      <3> HIDE DEF n
      <3>4. n \in Nat /\ n <= Len(t)
        BY <1>2, <3>1, <3>2 DEF Starts, Marks
      <3> QED BY <3>3, <3>4 DEF b
    <2> QED BY <1>4, <2>1, <2>3, <2>4, <2>6 DEF AllMarks
  <1> QED BY <1>3, <1>4

\* The mark of a beginning that is long enough to be judged is that of the whole.
LEMMA BomStable ==
    ASSUME NEW c, NEW w, Begins(c, w), Len(c) >= BytesNeeded(c)
    PROVE  BomOf(w) = BomOf(c)
  <1>1. /\ c \in Seq(Char) /\ w \in Seq(Char) /\ Len(c) \in Nat /\ Len(w) \in Nat /\ Len(c) <= Len(w)
        /\ \A i \in 1 .. Len(c) : c[i] = w[i]
    BY DEF Begins
  <1>2. /\ IsPrefix(<<"FF", "FE">>, c) <=> Len(c) >= 2 /\ c[1] = "FF" /\ c[2] = "FE"
        /\ IsPrefix(<<"00", "00">>, c) <=> Len(c) >= 2 /\ c[1] = "00" /\ c[2] = "00"
        /\ IsPrefix(<<"EF", "BB">>, c) <=> Len(c) >= 2 /\ c[1] = "EF" /\ c[2] = "BB"
    <2>1. ASSUME NEW x, NEW y
          PROVE  IsPrefix(<<x, y>>, c) <=> Len(c) >= 2 /\ c[1] = x /\ c[2] = y
      <3> DEFINE s == <<x, y>>
      <3>1. s \in Seq({x, y}) /\ Len(s) = 2 /\ s[1] = x /\ s[2] = y
        OBVIOUS
      <3> HIDE DEF s
      <3>2. IsPrefix(s, c) <=> Len(c) >= 2 /\ s[1] = c[1] /\ s[2] = c[2]
        BY <1>1, <3>1, ShortPrefixes
      <3>3. IsPrefix(s, c) <=> Len(c) >= 2 /\ c[1] = x /\ c[2] = y
        BY <3>1, <3>2
      <3> QED BY <3>3 DEF s
    <2> QED BY <2>1
  <1>3. Len(c) >= 2
    BY <1>1, <1>2 DEF BytesNeeded
  <1>4. c[1] = "FF" /\ c[2] = "FE" => Len(c) >= 4
    BY <1>2, <1>3 DEF BytesNeeded
  <1>5. c[1] = "00" /\ c[2] = "00" => Len(c) >= 4
    BY <1>2, <1>3 DEF BytesNeeded
  <1>6. c[1] = "EF" /\ c[2] = "BB" => Len(c) >= 3
    BY <1>2, <1>3 DEF BytesNeeded
  <1>7. \A b \in Marks : Starts(w, b) <=> Starts(c, b)
    BY <1>1, <1>3, <1>4, <1>5, <1>6 DEF Starts, Marks
  <1>8. MarksOf(w) = MarksOf(c)
    BY <1>7 DEF MarksOf
  <1> QED BY <1>1, <1>8, BomIs
-------------------------------------------------------------------------------
(* The engines                                                                 *)

\* The states g of an engine, byte by byte, up to the m-th of bytes.
Steps(cs, open, bytes, m, g) ==
    g = [i \in 0 .. m |->
            IF i = 0 THEN [open |-> open, text |-> <<>>, written |-> 0, unread |-> FALSE]
            ELSE DecodeByte(cs, Reserved(bytes), g[i - 1], bytes[i])]

\* There are such states.
LEMMA StepsExist ==
    ASSUME NEW cs, NEW open, NEW bytes, NEW m \in Nat
    PROVE  \E g : Steps(cs, open, bytes, m, g)
  <1> DEFINE Known(k) == \E g : Steps(cs, open, bytes, k, g)
             first == [open |-> open, text |-> <<>>, written |-> 0, unread |-> FALSE]
             step(g, i) == DecodeByte(cs, Reserved(bytes), g[i - 1], bytes[i])
             Bad == {k \in Nat : ~Known(k)}
  <1> SUFFICES ASSUME ~Known(m) PROVE FALSE
    OBVIOUS
  <1>1. \A k, g : Steps(cs, open, bytes, k, g) <=>
                    g = [i \in 0 .. k |-> IF i = 0 THEN first ELSE step(g, i)]
    BY DEF Steps
  <1>2. \A g, h, i : g[i - 1] = h[i - 1] => step(g, i) = step(h, i)
    OBVIOUS
  <1>3. \A k : (\E g : g = [i \in 0 .. k |-> IF i = 0 THEN first ELSE step(g, i)]) => Known(k)
    BY <1>1
  <1>4. \A k : Known(k) => \E g : g = [i \in 0 .. k |-> IF i = 0 THEN first ELSE step(g, i)]
    BY <1>1
  <1> HIDE DEF Known, first, step
  <1>5. Bad \in SUBSET Nat /\ Bad # {}
    OBVIOUS
  <1> DEFINE k == Min(Bad)
  <1>6. k \in Bad /\ \A j \in Bad : k <= j
    BY <1>5, MinOf
  <1> HIDE DEF k
  <1>7. k \in Nat /\ ~Known(k) /\ \A j \in Nat : j < k => Known(j)
    BY <1>6
  <1> HIDE DEF Bad
  <1>8. k # 0
    <2> SUFFICES ASSUME k = 0 PROVE FALSE
      OBVIOUS
    <2> DEFINE g == [i \in 0 .. 0 |-> first]
    <2>1. g = [i \in 0 .. 0 |-> IF i = 0 THEN first ELSE step(g, i)]
      OBVIOUS
    <2> HIDE DEF g
    <2> QED BY <1>3, <1>7, <2>1
  <1>9. k - 1 \in Nat /\ k - 1 < k /\ k - 1 \in 0 .. k - 1
    BY <1>7, <1>8
  <1>10. PICK g : g = [i \in 0 .. k - 1 |-> IF i = 0 THEN first ELSE step(g, i)]
    BY <1>4, <1>7, <1>9
  <1> DEFINE last == step(g, k)
             h == [i \in 0 .. k |-> IF i = k THEN last ELSE g[i]]
  <1>11. \A i \in 0 .. k - 1 : g[i] = IF i = 0 THEN first ELSE step(g, i)
    BY <1>10
  <1>12. /\ \A i \in 0 .. k - 1 : h[i] = g[i]
         /\ h[k] = last /\ h = [i \in 0 .. k |-> h[i]]
    <2> HIDE DEF last
    <2> QED BY <1>7, <1>8
  <1> HIDE DEF h
  <1>13. ASSUME NEW i \in 0 .. k PROVE h[i] = IF i = 0 THEN first ELSE step(h, i)
    <2>1. CASE i = k
      <3>1. h[k - 1] = g[k - 1]
        BY <1>9, <1>12
      <3> QED BY <2>1, <3>1, <1>2, <1>8, <1>12
    <2>2. CASE i # k
      <3>1. i \in 0 .. k - 1 /\ (i # 0 => i - 1 \in 0 .. k - 1)
        BY <2>2, <1>7
      <3>2. i # 0 => step(h, i) = step(g, i)
        BY <3>1, <1>2, <1>12
      <3> QED BY <3>1, <3>2, <1>11, <1>12
    <2> QED BY <2>1, <2>2
  <1>14. h = [i \in 0 .. k |-> IF i = 0 THEN first ELSE step(h, i)]
    BY <1>12, <1>13
  <1> QED BY <1>3, <1>7, <1>14

\* Decode is the last of them.
LEMMA DecodeIs ==
    ASSUME NEW cs, NEW open, NEW bytes, Len(bytes) \in Nat
    PROVE  \E g : Steps(cs, open, bytes, Len(bytes), g) /\ Decode(cs, open, bytes) = g[Len(bytes)]
  <1> DEFINE after == CHOOSE g : Steps(cs, open, bytes, Len(bytes), g)
  <1>1. Decode(cs, open, bytes) = after[Len(bytes)]
    BY DEF Decode, Steps
  <1>2. \E g : Steps(cs, open, bytes, Len(bytes), g)
    BY StepsExist
  <1>3. Steps(cs, open, bytes, Len(bytes), after)
    BY <1>2
  <1> QED BY <1>1, <1>3

IsEngine(st) == st \in [open : {st.open}, text : {st.text}, written : Nat, unread : BOOLEAN]

\* A byte writes at most three, and is left unread only when a character might not
\* fit, and only by encoding_rs.
LEMMA OneByteMore ==
    ASSUME NEW cs, NEW reserved \in Nat, NEW st, IsEngine(st), NEW byte
    PROVE  LET r == DecodeByte(cs, reserved, st, byte)
           IN  /\ IsEngine(r) /\ r.written <= st.written + 3
               /\ r.unread => st.unread \/ (IsLibrary(cs) /\ st.written + 4 > reserved)
  <1> DEFINE bytes == Append(st.open, byte)
             c     == Character(cs, bytes)
             more  == Append(st.text, c)
             full  == IsLibrary(cs) /\ st.written + LongestChar(cs) > reserved
             sum   == st.written + Utf8Length(c)
             r     == DecodeByte(cs, reserved, st, byte)
  <1>1. r = IF st.unread \/ full THEN [st EXCEPT !.unread = TRUE]
            ELSE IF c = None THEN [st EXCEPT !.open = bytes]
            ELSE [st EXCEPT !.open = <<>>, !.text = more, !.written = sum]
    BY DEF DecodeByte
  <1>2. Utf8Length(c) \in 1 .. 3 /\ LongestChar(cs) \in 3 .. 4
    BY DEF Utf8Length, LongestChar
  <1>3. st.written \in Nat /\ st.unread \in BOOLEAN
    BY DEF IsEngine
  <1>4. sum \in Nat /\ sum <= st.written + 3
    BY <1>2, <1>3
  <1>5. full => IsLibrary(cs) /\ st.written + 4 > reserved
    BY <1>2, <1>3
  <1> SUFFICES /\ IsEngine(r) /\ r.written <= st.written + 3
               /\ r.unread => st.unread \/ (IsLibrary(cs) /\ st.written + 4 > reserved)
    OBVIOUS
  <1> HIDE DEF c, bytes, more, full, sum, r
  <1>6. CASE st.unread \/ full
    <2>1. r = [st EXCEPT !.unread = TRUE]
      BY <1>1, <1>6
    <2>2. IsEngine(r) /\ r.written = st.written
      BY <1>3, <2>1 DEF IsEngine
    <2>3. st.unread \/ (IsLibrary(cs) /\ st.written + 4 > reserved)
      BY <1>5, <1>6
    <2> HIDE DEF IsEngine
    <2> QED BY <1>3, <2>2, <2>3
  <1>7. CASE ~(st.unread \/ full) /\ c = None
    BY <1>1, <1>3, <1>7 DEF IsEngine
  <1>8. CASE ~(st.unread \/ full) /\ c # None
    BY <1>1, <1>3, <1>4, <1>8 DEF IsEngine
  <1> QED BY <1>6, <1>7, <1>8 DEF r

\* Only of a piece long enough to fill its output are bytes left unread, and
\* only by encoding_rs.
LEMMA PieceRead ==
    ASSUME NEW cs, NEW open, NEW bytes, Len(bytes) \in Nat
    PROVE  LET r == Decode(cs, open, bytes)
           IN  r.unread \in BOOLEAN /\ (r.unread => IsLibrary(cs) /\ Len(bytes) > ShortPiece)
  <1> DEFINE n == Len(bytes)
             room == Reserved(bytes)
  <1>1. n \in Nat /\ room \in Nat /\ room = n + 16
    BY DEF Reserved
  <1>2. PICK g : Steps(cs, open, bytes, n, g) /\ Decode(cs, open, bytes) = g[n]
    BY DecodeIs
  <1>3. /\ g[0] = [open |-> open, text |-> <<>>, written |-> 0, unread |-> FALSE]
        /\ \A i \in 1 .. n : g[i] = DecodeByte(cs, room, g[i - 1], bytes[i])
    <2>1. g = [i \in 0 .. n |->
                 IF i = 0 THEN [open |-> open, text |-> <<>>, written |-> 0, unread |-> FALSE]
                 ELSE DecodeByte(cs, room, g[i - 1], bytes[i])]
      BY <1>2 DEF Steps
    <2> HIDE DEF n, room
    <2>2. \A i \in 0 .. n : g[i] =
             IF i = 0 THEN [open |-> open, text |-> <<>>, written |-> 0, unread |-> FALSE]
             ELSE DecodeByte(cs, room, g[i - 1], bytes[i])
      BY <2>1
    <2>3. 0 \in 0 .. n /\ \A i \in 1 .. n : i \in 0 .. n /\ i # 0
      BY <1>1
    <2> QED BY <2>2, <2>3
  <1> HIDE DEF n, room
  <1> DEFINE Fine(i) == /\ IsEngine(g[i]) /\ g[i].written <= 3 * i
                        /\ g[i].unread => IsLibrary(cs) /\ 2 * n > 15
             Bad == {i \in 0 .. n : ~Fine(i)}
  <1>4. Fine(0)
    BY <1>3 DEF IsEngine
  <1>5. ASSUME NEW i \in 1 .. n, Fine(i - 1) PROVE Fine(i)
    <2> DEFINE st == g[i - 1]
               r  == DecodeByte(cs, room, st, bytes[i])
    <2>1. IsEngine(st) /\ st.written <= 3 * (i - 1) /\ (st.unread => IsLibrary(cs) /\ 2 * n > 15)
      BY <1>5
    <2>2. g[i] = r
      BY <1>3
    <2> HIDE DEF st, r
    <2>3. /\ IsEngine(r) /\ r.written <= st.written + 3
          /\ r.unread => st.unread \/ (IsLibrary(cs) /\ st.written + 4 > room)
      BY <1>1, <2>1, OneByteMore DEF r
    <2>4. st.written \in Nat /\ r.written \in Nat
      BY <2>1, <2>3 DEF IsEngine
    <2>5. r.written <= 3 * i
      BY <1>1, <2>1, <2>3, <2>4
    <2>6. st.written + 4 > room => 2 * n > 15
      BY <1>1, <2>1, <2>4
    <2> QED BY <2>1, <2>2, <2>3, <2>5, <2>6
  <1>6. Fine(n)
    <2> HIDE DEF Fine
    <2> SUFFICES ASSUME ~Fine(n) PROVE FALSE
      OBVIOUS
    <2>1. Bad \in SUBSET Nat /\ Bad # {}
      BY <1>1
    <2> DEFINE k == Min(Bad)
    <2>2. k \in Bad /\ \A j \in Bad : k <= j
      BY <2>1, MinOf
    <2> HIDE DEF k
    <2>3. k \in 0 .. n /\ ~Fine(k)
      BY <2>2
    <2>4. k \in 1 .. n /\ k - 1 \in 0 .. n /\ ~(k <= k - 1)
      BY <1>1, <1>4, <2>3
    <2>5. Fine(k - 1)
      BY <2>2, <2>4
    <2> QED BY <1>5, <2>3, <2>4, <2>5
  <1>7. g[n].unread \in BOOLEAN /\ (g[n].unread => IsLibrary(cs) /\ 2 * n > 15)
    BY <1>6 DEF IsEngine
  <1>8. 2 * n > 15 => n > ShortPiece
    BY <1>1 DEF ShortPiece
  <1> QED BY <1>2, <1>7, <1>8 DEF n
-------------------------------------------------------------------------------
(* The decoder and the scanner                                                 *)

IsDecoder(d) ==
    d \in [state : {"Init", "SeenBom", "Content", "Closed"}, bom : AllMarks, prelude : Seq(Char),
           charset : Charsets \cup {None}, xml11 : BOOLEAN, bytes_mode : BOOLEAN,
           engine : {d.engine}, finished : BOOLEAN, last_char : {d.last_char},
           had_incomplete : BOOLEAN, unread : {d.unread}]

IsScanner(s) ==
    s \in [encoding : Charsets \cup {None}, xml11 : BOOLEAN, standalone : BOOLEAN,
           text : {s.text}, ended : BOOLEAN]

\* What a call may leave as it is: all that the declaration said.
Settings(d, s) ==
    <<d.state, d.bom, d.charset, d.xml11, d.bytes_mode, s.encoding, s.xml11, s.standalone, s.ended>>

\* What an engine has left unread was of long pieces, and it was encoding_rs's.
LongUnread(d) ==
    /\ \A n \in d.unread : n > ShortPiece
    /\ d.unread # {} => ~d.bytes_mode /\ IsLibrary(d.charset)

\* The decoder after its declaration: it keeps no undecided bytes, in byte mode
\* none at all, and the scanner knows its encoding.
Reading(d, s) ==
    /\ d.state = "Content" /\ d.charset \in Charsets /\ d.prelude = <<>>
    /\ d.bytes_mode => d.charset = "UTF-8" /\ ~d.xml11 /\ d.engine = <<>>
    /\ s.encoding = d.charset /\ ~s.ended
    /\ LongUnread(d)

\* Content is decoded, or an error returned.
LEMMA FeedContent ==
    ASSUME NEW d, NEW s, IsDecoder(d), IsScanner(s), Reading(d, s),
           NEW bytes, Len(bytes) \in Nat, NEW last \in BOOLEAN
    PROVE  LET r == feed_content(d, s, bytes, last)
           IN  /\ IsDecoder(r.dec) /\ IsScanner(r.scanner) /\ Reading(r.dec, r.scanner)
               /\ Settings(r.dec, r.scanner) = Settings(d, s)
               /\ r.error \subseteq {"decoder", "panic"}
               /\ "panic" \in r.error => d.finished
               /\ r.dec.finished => d.finished \/ last
               /\ last /\ r.error = {} /\ ~r.dec.had_incomplete => r.dec.engine = <<>>
  <1> DEFINE wide    == d.charset \in {"UTF-32LE", "UTF-32BE"}
             library == ~d.bytes_mode /\ IsLibrary(d.charset)
             o       == IF d.bytes_mode THEN [text |-> bytes, open |-> <<>>, unread |-> FALSE]
                        ELSE Decode(d.charset, d.engine, bytes)
             bad     == ~d.bytes_mode /\ "bad" \in ToSet(o.text)
             torn    == last /\ (bad \/ o.open # <<>>)
             done    == last /\ library /\ ~o.unread
             left    == d.unread \cup (IF o.unread THEN {Len(bytes)} ELSE {})
             chars   == IF last /\ library /\ o.open # <<>> THEN Append(o.text, "bad") ELSE o.text
             next    == [d EXCEPT !.engine = IF last /\ library THEN <<>> ELSE o.open,
                                  !.finished = done, !.had_incomplete = @ \/ torn,
                                  !.unread = left]
             text    == Normalized(chars, d.last_char, d.xml11)
             r       == feed_content(d, s, bytes, last)
             ch      == IF chars = <<>> THEN next.last_char ELSE Last(chars)
             tx      == s.text \o text
  <1>1. r = IF library /\ d.finished THEN Result(d, s, {"panic"})
            ELSE IF bad /\ wide THEN Result([d EXCEPT !.engine = @ \o bytes], s, {"decoder"})
            ELSE IF bad /\ ~last THEN Result(next, s, {"decoder"})
            ELSE Result([next EXCEPT !.last_char = ch], [s EXCEPT !.text = tx], {})
    BY DEF feed_content
  <1>2. d.bytes_mode => o.open = <<>>
    OBVIOUS
  <1>3. /\ wide \in BOOLEAN /\ library \in BOOLEAN /\ bad \in BOOLEAN /\ torn \in BOOLEAN
        /\ done \in BOOLEAN /\ (done => last)
    BY DEF IsLibrary
  <1>4. bad => ~d.bytes_mode
    OBVIOUS
  <1>5. torn <=> last /\ (bad \/ o.open # <<>>)
    OBVIOUS
  <1>6. library => ~d.bytes_mode
    OBVIOUS
  <1> DEFINE open == o.open
             grown == d.engine \o bytes
  <1>7. next = [d EXCEPT !.engine = IF last /\ library THEN <<>> ELSE open,
                         !.finished = done, !.had_incomplete = @ \/ torn, !.unread = left]
    OBVIOUS
  <1>8. [d EXCEPT !.engine = @ \o bytes] = [d EXCEPT !.engine = grown]
    OBVIOUS
  <1>9. /\ \A n \in left : n > ShortPiece
        /\ left # {} => ~d.bytes_mode /\ IsLibrary(d.charset)
    <2>1. d.bytes_mode => ~o.unread
      OBVIOUS
    <2>2. ~d.bytes_mode => o.unread \in BOOLEAN
                           /\ (o.unread => IsLibrary(d.charset) /\ Len(bytes) > ShortPiece)
      <3>1. ~d.bytes_mode => o = Decode(d.charset, d.engine, bytes)
        OBVIOUS
      <3> HIDE DEF o
      <3> QED BY <3>1, PieceRead
    <2> HIDE DEF o
    <2> QED BY <2>1, <2>2 DEF Reading, LongUnread
  <1> HIDE DEF ch, tx, next, text, chars, torn, bad, o, library, wide, open, grown, done, left
  <1>10. /\ IsDecoder(next) /\ Reading(next, s) /\ Settings(next, s) = Settings(d, s)
         /\ next.finished = done
         /\ next.had_incomplete <=> d.had_incomplete \/ torn
         /\ next.engine = IF last /\ library THEN <<>> ELSE open
    BY <1>2, <1>3, <1>6, <1>7, <1>9 DEF IsDecoder, Reading, LongUnread, Settings, open
  <1>11. CASE library /\ d.finished
    BY <1>1, <1>11 DEF Result
  <1>12. CASE ~(library /\ d.finished) /\ bad /\ wide
    <2> DEFINE e == [d EXCEPT !.engine = grown]
    <2>1. r = Result(e, s, {"decoder"})
      BY <1>1, <1>8, <1>12
    <2>2. IsDecoder(e) /\ Reading(e, s) /\ Settings(e, s) = Settings(d, s) /\ e.finished = d.finished
      BY <1>4, <1>12 DEF IsDecoder, Reading, LongUnread, Settings
    <2> HIDE DEF e
    <2> QED BY <2>1, <2>2 DEF Result
  <1>13. CASE ~(library /\ d.finished) /\ ~(bad /\ wide) /\ bad /\ ~last
    BY <1>1, <1>3, <1>10, <1>13 DEF Result
  <1>14. CASE ~(library /\ d.finished) /\ ~(bad /\ wide) /\ ~(bad /\ ~last)
    <2> DEFINE e == [next EXCEPT !.last_char = ch]
               t == [s EXCEPT !.text = tx]
    <2>1. r = Result(e, t, {})
      BY <1>1, <1>14
    <2>2. /\ IsDecoder(e) /\ Reading(e, s) /\ Settings(e, s) = Settings(next, s)
          /\ e.finished = next.finished /\ e.had_incomplete = next.had_incomplete
          /\ e.engine = next.engine
      BY <1>10 DEF IsDecoder, Reading, LongUnread, Settings
    <2> HIDE DEF e
    <2>3. IsScanner(t) /\ Reading(e, t) /\ Settings(e, t) = Settings(e, s)
      BY <2>2 DEF IsScanner, Reading, Settings
    <2> HIDE DEF t
    <2>4. last /\ ~e.had_incomplete => e.engine = <<>>
      BY <1>5, <1>10, <2>2 DEF open
    <2> QED BY <1>3, <1>10, <2>1, <2>2, <2>3, <2>4 DEF Result
  <1> QED BY <1>11, <1>12, <1>13, <1>14
-------------------------------------------------------------------------------
(* The declaration decides                                                     *)

\* A mark that is no mark means UTF-8, a mark its own encoding.
LEMMA BomCharsets == ASSUME NEW b \in AllMarks PROVE BomCharset(b) \in Charsets
  BY DEF BomCharset, AllMarks, Marks, Charsets, None

\* The label of a declaration leads to an encoding or is refused; no label is
\* never refused.
LEMMA CharsetForIs ==
    ASSUME NEW b \in AllMarks, NEW name
    PROVE  /\ CharsetFor(b, name) \in Charsets \cup {None}
           /\ CharsetFor(b, <<None>>) \in Charsets
  <1>1. BomCharset(b) \in Charsets
    BY BomCharsets
  <1>2. charset_for_label(name) \in Charsets \cup {None}
    <2>1. <<"UTF-8">>[1] = "UTF-8" /\ <<"UTF-16LE">>[1] = "UTF-16LE" /\ <<"UTF-16BE">>[1] = "UTF-16BE"
          /\ <<"UTF-32LE">>[1] = "UTF-32LE" /\ <<"UTF-32BE">>[1] = "UTF-32BE"
          /\ <<"ISO-8859-1">>[1] = "ISO-8859-1" /\ <<"KOI8-R">>[1] = "KOI8-R"
      OBVIOUS
    <2>2. name \in {<<"UTF-8">>, <<"UTF-16LE">>, <<"UTF-16BE">>, <<"UTF-32LE">>, <<"UTF-32BE">>,
                   <<"ISO-8859-1">>, <<"KOI8-R">>} => name[1] \in Charsets
      BY <2>1 DEF Charsets
    <2>3. charset_for_label(name) \in {"UTF-16LE", name[1], None}
      BY DEF charset_for_label
    <2> QED BY <2>2 DEF charset_for_label, Charsets
  <1>3. CharsetFor(b, name) \in {BomCharset(b), None, charset_for_label(name)}
    BY DEF CharsetFor
  <1>4. CharsetFor(b, <<None>>) = BomCharset(b)
    BY DEF CharsetFor
  <1> QED BY <1>1, <1>2, <1>3, <1>4

\* Before its declaration the decoder keeps what it was given after the mark, n
\* bytes of document D with it, and tells the scanner nothing that D does not
\* declare.  whole: no close came before the end; first: there was no reset.
Undecided(D, d, s, n, whole, first) ==
    /\ d.state \in {"Init", "SeenBom"} /\ d.charset = None
    /\ ~d.bytes_mode /\ d.engine = <<>> /\ ~d.finished /\ ~d.had_incomplete /\ d.unread = {}
    /\ s.encoding = None /\ s.text = <<>> /\ ~s.ended
    /\ MarkLength(d.bom) <= n
    /\ d.prelude = SubSeq(D.bytes, MarkLength(d.bom) + 1, n)
    /\ d.state = "Init" => d.bom = None
    /\ whole => /\ d.state = "SeenBom" => d.bom = BomOf(D.bytes)
                /\ d.xml11 => Is11(D)
                /\ s.standalone => IsStandalone(D)
                /\ first /\ s.xml11 => Is11(D)

\* From then on it does as D declares.
AsDeclared(D, d, s, first) ==
    /\ d.bom = BomOf(D.bytes) /\ d.charset = EncodingOf(D) /\ d.xml11 = Is11(D)
    /\ IsVersioned(D) \/ first => s.xml11 = Is11(D)
    /\ s.standalone = IsStandalone(D)

\* p is what the document declares, so far as it declares anything.
Declares(D, p) ==
    /\ p.result = "Ok" <=> IsDeclared(D)
    /\ IsDeclared(D) => p = DeclarationOf(D)

\* r is the outcome of deciding on the declaration: the encoding is fixed, or the
\* declaration refused and nothing else has happened.
Decided(D, r, n, whole, first, last) ==
    /\ IsDecoder(r.dec) /\ IsScanner(r.scanner)
    /\ \/ Undecided(D, r.dec, r.scanner, n, whole, first) /\ r.error = {"decoder"}
       \/ Reading(r.dec, r.scanner) /\ (whole => AsDeclared(D, r.dec, r.scanner, first))
    /\ r.error \subseteq {"decoder"}
    /\ r.dec.finished => last
    /\ last /\ r.error = {} /\ ~r.dec.had_incomplete => r.dec.engine = <<>>

\* The declaration fixes the encoding, or is refused and nothing else happens.
LEMMA SetupDecides ==
    ASSUME NEW D, NEW d, NEW s, NEW n \in Nat, NEW whole \in BOOLEAN, NEW first \in BOOLEAN,
           NEW last \in BOOLEAN, NEW p,
           IsDecoder(d), IsScanner(s), Undecided(D, d, s, n, whole, first), d.state = "SeenBom",
           whole => Declares(D, p), p.result = "Ok" => p.consumed \in Nat
    PROVE  Decided(D, setup_charset_decoder(d, s, p, last), n, whole, first, last)
  <1> DEFINE found == p.result = "Ok"
             is11  == IF found /\ p.version # <<None>> THEN p.version = <<"1.1">> ELSE d.xml11
             label == IF found THEN p.encoding ELSE <<None>>
             cs    == CharsetFor(d.bom, label)
             x11   == IF found /\ p.version # <<None>> THEN is11 ELSE s.xml11
             alone == IF found /\ p.standalone # <<None>> THEN p.standalone = <<"yes">> ELSE s.standalone
             told  == [s EXCEPT !.xml11 = x11, !.standalone = alone]
             body  == IF found THEN SubSeq(d.prelude, UnitSize(d.bom) * p.consumed + 1, Len(d.prelude))
                      ELSE d.prelude
             ready == [d EXCEPT !.state = "Content", !.xml11 = is11, !.charset = cs, !.prelude = <<>>,
                                !.bytes_mode = cs = "UTF-8" /\ ~is11]
             known == [told EXCEPT !.encoding = cs]
             r     == setup_charset_decoder(d, s, p, last)
  <1> SUFFICES Decided(D, r, n, whole, first, last)
    OBVIOUS
  <1>1. r = IF cs = None THEN Result([d EXCEPT !.xml11 = is11], told, {"decoder"})
            ELSE feed_content(ready, known, body, last)
    BY DEF setup_charset_decoder
  <1>2. d.bom \in AllMarks /\ cs \in Charsets \cup {None} /\ is11 \in BOOLEAN /\ x11 \in BOOLEAN
        /\ alone \in BOOLEAN
    BY CharsetForIs DEF IsDecoder, IsScanner
  <1>3. whole => /\ is11 => Is11(D)
                 /\ alone => IsStandalone(D)
                 /\ first /\ x11 => Is11(D)
    BY DEF Declares, Undecided, Is11, IsStandalone, None
  <1>4. whole => /\ is11 = Is11(D) /\ alone = IsStandalone(D)
                 /\ IsVersioned(D) \/ first => x11 = Is11(D)
    BY <1>2, <1>3 DEF Declares, Undecided, Is11, IsStandalone, IsVersioned, None
  <1>5. whole => cs = EncodingOf(D) /\ d.bom = BomOf(D.bytes)
    BY DEF Declares, Undecided, EncodingOf
  <1>6. Len(body) \in Nat
    <2>1. d.prelude \in Seq(Char) /\ UnitSize(d.bom) \in {1, 2, 4}
      BY <1>2, UnitSizes DEF IsDecoder
    <2>2. CASE p.result = "Ok"
      <3> DEFINE k == UnitSize(d.bom) * p.consumed + 1
      <3>1. k \in Nat \ {0}
        BY <2>1, <2>2
      <3>2. body = SubSeq(d.prelude, k, Len(d.prelude))
        BY <2>2
      <3> HIDE DEF k
      <3>3. Len(SubSeq(d.prelude, k, Len(d.prelude))) \in Nat
        BY <2>1, <3>1
      <3> HIDE DEF body
      <3> QED BY <3>2, <3>3
    <2>3. CASE p.result # "Ok"
      BY <2>1, <2>3
    <2> QED BY <2>2, <2>3
  <1> HIDE DEF is11, cs, x11, alone, body, found, label, r
  <1>7. /\ IsScanner(told) /\ told.xml11 = x11 /\ told.standalone = alone
        /\ told.text = s.text /\ told.encoding = s.encoding /\ told.ended = s.ended
    BY <1>2 DEF IsScanner
  <1> HIDE DEF told
  <1>8. CASE cs = None
    <2> DEFINE e == [d EXCEPT !.xml11 = is11]
    <2>1. r = Result(e, told, {"decoder"})
      BY <1>1, <1>8
    <2>2. IsDecoder(e)
      BY <1>2 DEF IsDecoder
    <2>3. /\ e.state = d.state /\ e.bom = d.bom /\ e.prelude = d.prelude /\ e.charset = d.charset
          /\ e.bytes_mode = d.bytes_mode /\ e.engine = d.engine /\ e.finished = d.finished
          /\ e.had_incomplete = d.had_incomplete /\ e.unread = d.unread /\ e.xml11 = is11
      BY DEF IsDecoder
    <2> HIDE DEF e
    <2>4. Undecided(D, e, told, n, whole, first)
      BY <1>3, <1>7, <2>3 DEF Undecided
    <2> QED BY <1>7, <2>1, <2>2, <2>3, <2>4 DEF Result, Undecided, Decided
  <1>9. CASE cs # None
    <2>1. r = feed_content(ready, known, body, last)
      BY <1>1, <1>9
    <2>2. /\ IsDecoder(ready) /\ ready.state = "Content" /\ ready.charset = cs /\ ready.prelude = <<>>
          /\ ready.xml11 = is11 /\ ready.bytes_mode = (cs = "UTF-8" /\ ~is11) /\ ready.bom = d.bom
          /\ ready.engine = d.engine /\ ready.finished = d.finished
          /\ ready.had_incomplete = d.had_incomplete /\ ready.unread = d.unread
      <3>1. <<>> \in Seq(Char)
        OBVIOUS
      <3> QED BY <1>2, <3>1 DEF IsDecoder
    <2>3. /\ IsScanner(known) /\ known.encoding = cs /\ known.xml11 = x11 /\ known.standalone = alone
          /\ known.ended = s.ended
      BY <1>2, <1>7 DEF IsScanner
    <2> HIDE DEF ready, known
    <2>4. Reading(ready, known) /\ ~ready.finished
      BY <1>2, <1>9, <2>2, <2>3 DEF Reading, LongUnread, Undecided
    <2>5. /\ IsDecoder(r.dec) /\ IsScanner(r.scanner) /\ Reading(r.dec, r.scanner)
          /\ Settings(r.dec, r.scanner) = Settings(ready, known)
          /\ r.error \subseteq {"decoder", "panic"}
          /\ "panic" \in r.error => ready.finished
          /\ r.dec.finished => ready.finished \/ last
          /\ last /\ r.error = {} /\ ~r.dec.had_incomplete => r.dec.engine = <<>>
      BY <1>6, <2>1, <2>2, <2>3, <2>4, FeedContent
    <2>6. /\ r.dec.bom = d.bom /\ r.dec.charset = cs /\ r.dec.xml11 = is11
          /\ r.scanner.xml11 = x11 /\ r.scanner.standalone = alone
      BY <2>2, <2>3, <2>5 DEF Settings
    <2>7. whole => AsDeclared(D, r.dec, r.scanner, first)
      BY <1>4, <1>5, <2>6 DEF AsDeclared
    <2>8. r.error \subseteq {"decoder"} /\ (r.dec.finished => last)
      BY <2>4, <2>5
    <2> QED BY <2>5, <2>7, <2>8 DEF Decided
  <1> QED BY <1>8, <1>9
-------------------------------------------------------------------------------
(* What has arrived                                                            *)

\* One sequence after another.
LEMMA Joined ==
    ASSUME NEW s, s \in Seq(Char), NEW t, t \in Seq(Char)
    PROVE  /\ s \o t \in Seq(Char) /\ Len(s \o t) = Len(s) + Len(t)
           /\ \A i \in 1 .. Len(s) + Len(t) :
                 (s \o t)[i] = IF i <= Len(s) THEN s[i] ELSE t[i - Len(s)]
  OBVIOUS

\* Parts of a stream, one after another and one in another.
LEMMA Parts ==
    ASSUME NEW b, b \in Seq(Char), NEW k \in Nat, NEW m \in Nat, NEW n \in Nat,
           k <= m, m <= n, n <= Len(b)
    PROVE  /\ SubSeq(b, k + 1, n) \in Seq(Char) /\ Len(SubSeq(b, k + 1, n)) = n - k
           /\ SubSeq(b, k + 1, m) \o SubSeq(b, m + 1, n) = SubSeq(b, k + 1, n)
           /\ SubSeq(SubSeq(b, 1, n), k + 1, n) = SubSeq(b, k + 1, n)
           /\ SubSeq(b, n + 1, n) = <<>>
           /\ Begins(SubSeq(b, k + 1, n), SubSeq(b, k + 1, Len(b)))
  <1>1. Len(b) \in Nat
    OBVIOUS
  <1>2. ASSUME NEW x \in Nat, NEW y \in Nat, x <= y, y <= Len(b)
        PROVE  /\ SubSeq(b, x + 1, y) \in Seq(Char) /\ Len(SubSeq(b, x + 1, y)) = y - x
               /\ \A i \in 1 .. y - x : SubSeq(b, x + 1, y)[i] = b[x + i]
    BY <1>1, <1>2
  <1> DEFINE left  == SubSeq(b, k + 1, m)
             right == SubSeq(b, m + 1, n)
             all   == SubSeq(b, k + 1, n)
             top   == SubSeq(b, 1, n)
             whole == SubSeq(b, k + 1, Len(b))
  <1>3. /\ left \in Seq(Char) /\ Len(left) = m - k /\ \A i \in 1 .. m - k : left[i] = b[k + i]
        /\ right \in Seq(Char) /\ Len(right) = n - m /\ \A i \in 1 .. n - m : right[i] = b[m + i]
        /\ all \in Seq(Char) /\ Len(all) = n - k /\ \A i \in 1 .. n - k : all[i] = b[k + i]
        /\ whole \in Seq(Char) /\ Len(whole) = Len(b) - k
        /\ \A i \in 1 .. Len(b) - k : whole[i] = b[k + i]
    BY <1>1, <1>2
  <1>4. top \in Seq(Char) /\ Len(top) = n /\ \A i \in 1 .. n : top[i] = b[i]
    BY <1>1
  <1>5. SubSeq(b, n + 1, n) = <<>>
    BY <1>1
  <1>6. SubSeq(top, k + 1, n) = all
    <2>1. /\ SubSeq(top, k + 1, n) \in Seq(Char) /\ Len(SubSeq(top, k + 1, n)) = n - k
          /\ \A i \in 1 .. n - k : SubSeq(top, k + 1, n)[i] = top[k + i]
      <3> HIDE DEF top
      <3> QED BY <1>4
    <2> DEFINE part == SubSeq(top, k + 1, n)
    <2> HIDE DEF top, all, part
    <2>2. \A i \in 1 .. n - k : part[i] = all[i]
      BY <1>3, <1>4, <2>1 DEF part
    <2>3. part \in Seq(Char) /\ Len(part) = n - k
      BY <2>1 DEF part
    <2>4. part = all
      BY <1>3, <2>2, <2>3
    <2> QED BY <2>4 DEF part
  <1> HIDE DEF left, right, all, top, whole
  <1>7. left \o right = all
    <2>1. /\ left \o right \in Seq(Char) /\ Len(left \o right) = Len(left) + Len(right)
          /\ \A i \in 1 .. Len(left) + Len(right) :
                (left \o right)[i] = IF i <= Len(left) THEN left[i] ELSE right[i - Len(left)]
      BY <1>3, Joined
    <2>2. Len(left \o right) = n - k
      BY <1>3, <2>1
    <2>3. ASSUME NEW i \in 1 .. n - k PROVE (left \o right)[i] = all[i]
      <3>1. all[i] = b[k + i]
        BY <1>3
      <3>2. (left \o right)[i] = IF i <= m - k THEN left[i] ELSE right[i - (m - k)]
        <4>1. Len(left) = m - k /\ Len(right) = n - m
          BY <1>3
        <4>2. i \in 1 .. Len(left) + Len(right)
          BY <4>1
        <4>3. (left \o right)[i] = IF i <= Len(left) THEN left[i] ELSE right[i - Len(left)]
          BY <2>1, <4>2
        <4> QED BY <4>1, <4>3
      <3>3. CASE i <= m - k
        BY <1>3, <3>1, <3>2, <3>3
      <3>4. CASE ~(i <= m - k)
        <4>1. i - (m - k) \in 1 .. n - m /\ m + (i - (m - k)) = k + i
          BY <3>4
        <4>2. right[i - (m - k)] = b[m + (i - (m - k))]
          BY <1>3, <4>1
        <4> QED BY <3>1, <3>2, <3>4, <4>1, <4>2
      <3> QED BY <3>3, <3>4
    <2> QED BY <1>3, <2>1, <2>2, <2>3, SameSequence
  <1>8. Begins(all, whole)
    <2>1. Len(all) <= Len(whole)
      BY <1>1, <1>3
    <2>2. ASSUME NEW i \in 1 .. n - k PROVE all[i] = whole[i]
      <3>1. i \in 1 .. Len(b) - k
        BY <1>1
      <3> QED BY <1>3, <3>1
    <2> QED BY <1>3, <2>1, <2>2 DEF Begins
  <1> QED BY <1>3, <1>5, <1>6, <1>7, <1>8 DEF left, right, all, top, whole

\* A document is a sequence of bytes.
LEMMA DocumentIs ==
    ASSUME NEW D \in Documents
    PROVE  D.bytes \in Seq(Char) /\ Len(D.bytes) \in Nat /\ D.external \in BOOLEAN
  <1>1. D.bytes \in Seq(STRING) /\ D.external \in BOOLEAN
    BY DecoderAssumption
  <1>2. Len(D.bytes) \in Nat /\ D.bytes \in [1 .. Len(D.bytes) -> Char]
    BY <1>1 DEF Char
  <1> QED BY <1>1, <1>2

\* What is read of a beginning, if it is decided on, is what the document declares.
LEMMA DeclarationDecided ==
    ASSUME NEW D \in Documents, NEW n \in Nat, n <= Len(D.bytes),
           MarkLength(BomOf(D.bytes)) <= n,
           NEW p,
           p = ParseDeclaration(ReadChars(SubSeq(D.bytes, MarkLength(BomOf(D.bytes)) + 1, n),
                                          BomOf(D.bytes)), D.external),
           p.result # "Underflow" \/ n = Len(D.bytes)
    PROVE  Declares(D, p)
  <1> DEFINE b == BomOf(D.bytes)
             c == SubSeq(D.bytes, MarkLength(b) + 1, n)
             w == SubSeq(D.bytes, MarkLength(b) + 1, Len(D.bytes))
             cs == ReadChars(c, b)
             ws == ReadChars(w, b)
  <1>1. D.bytes \in Seq(Char) /\ Len(D.bytes) \in Nat /\ D.external \in BOOLEAN
    BY DocumentIs
  <1>2. b \in AllMarks /\ MarkLength(b) \in Nat
    BY <1>1, BomIs
  <1>3. DeclarationOf(D) = ParseDeclaration(ws, D.external) /\ p = ParseDeclaration(cs, D.external)
    BY DEF DeclarationOf, BodyOf
  <1>4. Begins(c, w)
    BY <1>1, <1>2, Parts
  <1> HIDE DEF c, w, b
  <1>5. Begins(cs, ws)
    BY <1>2, <1>4, CharsStable
  <1>6. CASE n = Len(D.bytes)
    <2>1. c = w
      BY <1>6 DEF c, w
    <2> QED BY <1>3, <2>1 DEF Declares, IsDeclared
  <1>7. CASE p.result # "Underflow"
    <2> HIDE DEF cs, ws
    <2>1. /\ ParseDeclaration(ws, D.external).result = ParseDeclaration(cs, D.external).result
          /\ ParseDeclaration(cs, D.external).result = "Ok" =>
                ParseDeclaration(ws, D.external) = ParseDeclaration(cs, D.external)
      BY <1>1, <1>3, <1>5, <1>7, DeclarationStable
    <2> QED BY <1>3, <2>1 DEF Declares, IsDeclared
  <1> QED BY <1>6, <1>7
-------------------------------------------------------------------------------
(* Every call keeps what was said                                              *)

\* What an error-free end of the stream leaves.
AllDecoded(r) == r.error = {} /\ ~r.dec.had_incomplete => r.dec.engine = <<>>

\* A decoder that is ready to be told of n bytes of D, with the scanner it tells.
Ready(D, d, s, n, whole, first) ==
    /\ IsDecoder(d) /\ IsScanner(s)
    /\ \/ Undecided(D, d, s, n, whole, first)
       \/ Reading(d, s) /\ (whole => AsDeclared(D, d, s, first))

\* The declaration is decided on, or waited for.
LEMMA DeclarationAwaited ==
    ASSUME doc \in Documents, NEW n \in Nat, n <= Len(doc.bytes),
           NEW d, NEW s, NEW whole \in BOOLEAN, NEW first \in BOOLEAN, NEW final \in BOOLEAN,
           final /\ whole => n = Len(doc.bytes),
           IsDecoder(d), IsScanner(s), Undecided(doc, d, s, n, whole, first), d.state = "SeenBom"
    PROVE  LET r == parse_declaration(d, s, final)
           IN  /\ Ready(doc, r.dec, r.scanner, n, whole, first)
               /\ r.error \subseteq {"decoder"}
               /\ r.dec.finished => final
               /\ final => AllDecoded(r)
               /\ final /\ r.error = {} => Reading(r.dec, r.scanner)
  <1> DEFINE p == ParseDeclaration(ReadChars(d.prelude, d.bom), doc.external)
             r == parse_declaration(d, s, final)
  <1>1. r = DecideOn(d, s, p, final)
    BY DEF parse_declaration
  <1>2. CASE p.result = "Underflow" /\ ~final
    <2>1. r = Result(d, s, {})
      BY <1>1, <1>2 DEF DecideOn
    <2> QED BY <1>2, <2>1 DEF Result, Ready, Undecided
  <1>3. CASE ~(p.result = "Underflow" /\ ~final)
    <2>1. r = setup_charset_decoder(d, s, p, final)
      BY <1>1, <1>3 DEF DecideOn
    <2>2. whole => Declares(doc, p)
      <3> SUFFICES ASSUME whole PROVE Declares(doc, p)
        OBVIOUS
      <3>1. /\ d.bom = BomOf(doc.bytes) /\ MarkLength(d.bom) <= n
            /\ d.prelude = SubSeq(doc.bytes, MarkLength(d.bom) + 1, n)
        BY DEF Undecided
      <3>2. p.result # "Underflow" \/ n = Len(doc.bytes)
        BY <1>3
      <3>3. p = ParseDeclaration(ReadChars(SubSeq(doc.bytes, MarkLength(BomOf(doc.bytes)) + 1, n),
                                           BomOf(doc.bytes)), doc.external)
        BY <3>1
      <3>4. MarkLength(BomOf(doc.bytes)) <= n
        BY <3>1
      <3> HIDE DEF p
      <3> QED BY <3>2, <3>3, <3>4, DeclarationDecided
    <2>3. p.consumed \in Nat
      <3>1. ReadChars(d.prelude, d.bom) \in Seq(Char)
        BY CharsAre DEF IsDecoder
      <3> QED BY <3>1, DocumentIs, DeclarationEnds
    <2> DEFINE q == setup_charset_decoder(d, s, p, final)
    <2> HIDE DEF p, r
    <2>4. Decided(doc, q, n, whole, first, final)
      BY <2>2, <2>3, SetupDecides DEF q
    <2>5. r = q
      BY <2>1
    <2> HIDE DEF q
    <2> QED BY <2>4, <2>5 DEF Decided, Ready, AllDecoded, r
  <1> QED BY <1>2, <1>3

\* The mark is looked for in what has come.
LEMMA MarkSeen ==
    ASSUME NEW D \in Documents, NEW n \in Nat, n <= Len(D.bytes),
           NEW d, NEW s, NEW whole \in BOOLEAN, NEW first \in BOOLEAN,
           IsDecoder(d), IsScanner(s), Undecided(D, d, s, n, whole, first), d.state = "Init",
           whole => n = Len(D.bytes) \/ Len(d.prelude) >= BytesNeeded(d.prelude)
    PROVE  /\ IsDecoder(SeenBom(d)) /\ SeenBom(d).state = "SeenBom"
           /\ Undecided(D, SeenBom(d), s, n, whole, first)
  <1> DEFINE b   == BomOf(d.prelude)
             pre == SubSeq(d.prelude, MarkLength(b) + 1, Len(d.prelude))
             e   == [d EXCEPT !.state = "SeenBom", !.bom = b, !.prelude = pre]
  <1>1. SeenBom(d) = e
    BY DEF SeenBom
  <1>2. D.bytes \in Seq(Char) /\ Len(D.bytes) \in Nat
    BY DocumentIs
  <1>3. MarkLength(d.bom) = 0 /\ d.prelude = SubSeq(D.bytes, 1, n)
    <2>1. d.bom = None /\ d.prelude = SubSeq(D.bytes, MarkLength(d.bom) + 1, n)
      BY DEF Undecided
    <2>2. MarkLength(d.bom) = 0
      BY <2>1 DEF MarkLength
    <2> QED BY <2>1, <2>2
  <1>4. /\ d.prelude \in Seq(Char) /\ Len(d.prelude) = n
        /\ Begins(d.prelude, D.bytes)
    <2>1. SubSeq(D.bytes, 1, n) \in Seq(Char) /\ Len(SubSeq(D.bytes, 1, n)) = n
      BY <1>2
    <2>2. \A i \in 1 .. n : SubSeq(D.bytes, 1, n)[i] = D.bytes[i]
      BY <1>2
    <2> QED BY <1>2, <1>3, <2>1, <2>2 DEF Begins
  <1>5. b \in AllMarks /\ MarkLength(b) \in Nat /\ MarkLength(b) <= n
    BY <1>4, BomIs
  <1>6. pre = SubSeq(D.bytes, MarkLength(b) + 1, n) /\ pre \in Seq(Char)
    BY <1>2, <1>3, <1>4, <1>5, Parts
  <1>7. whole => b = BomOf(D.bytes)
    <2>1. CASE n = Len(D.bytes)
      <3>1. d.prelude = D.bytes
        BY <1>2, <1>4, <2>1, SameSequence DEF Begins
      <3> QED BY <3>1
    <2>2. CASE Len(d.prelude) >= BytesNeeded(d.prelude)
      BY <1>4, <2>2, BomStable
    <2> QED BY <2>1, <2>2
  <1> HIDE DEF pre, b
  <1>8. IsDecoder(e)
    BY <1>5, <1>6 DEF IsDecoder
  <1>9. /\ e.state = "SeenBom" /\ e.bom = b /\ e.prelude = pre /\ e.charset = d.charset
        /\ e.bytes_mode = d.bytes_mode /\ e.engine = d.engine /\ e.finished = d.finished
        /\ e.had_incomplete = d.had_incomplete /\ e.unread = d.unread /\ e.xml11 = d.xml11
    BY DEF IsDecoder
  <1> HIDE DEF e
  <1>10. Undecided(D, e, s, n, whole, first)
    BY <1>5, <1>6, <1>7, <1>9 DEF Undecided
  <1> QED BY <1>1, <1>8, <1>9, <1>10

\* The decoder is told of the bytes up to n.
LEMMA Advances ==
    ASSUME doc \in Documents, arrived \in Nat, NEW n \in Nat, arrived <= n, n <= Len(doc.bytes),
           NEW whole \in BOOLEAN, NEW first \in BOOLEAN, NEW final \in BOOLEAN,
           final /\ whole => n = Len(doc.bytes),
           Ready(doc, dec, scanner, arrived, whole, first)
    PROVE  LET r == advance(dec, scanner, SubSeq(doc.bytes, arrived + 1, n), final)
           IN  /\ Ready(doc, r.dec, r.scanner, n, whole, first)
               /\ r.error \subseteq {"decoder", "panic"}
               /\ "panic" \in r.error => dec.finished
               /\ r.dec.finished => dec.finished \/ final
               /\ final => AllDecoded(r)
               /\ final /\ r.error = {} => Reading(r.dec, r.scanner)
               /\ dec.charset # None => Settings(r.dec, r.scanner) = Settings(dec, scanner)
  <1> DEFINE data == SubSeq(doc.bytes, arrived + 1, n)
             pre  == dec.prelude \o data
             more == [dec EXCEPT !.prelude = pre]
             r    == advance(dec, scanner, data, final)
  <1>1. IsDecoder(dec) /\ IsScanner(scanner) /\ doc.bytes \in Seq(Char) /\ Len(doc.bytes) \in Nat
    BY DocumentIs DEF Ready
  <1>2. r = CASE dec.state = "Content" -> feed_content(dec, scanner, data, final)
              [] dec.state = "SeenBom" -> parse_declaration(more, scanner, final)
              [] dec.state = "Init" /\ ~final /\ Len(more.prelude) < BytesNeeded(more.prelude) ->
                     Result(more, scanner, {})
              [] OTHER -> parse_declaration(SeenBom(more), scanner, final)
    BY DEF advance
  <1>3. CASE Reading(dec, scanner) /\ (whole => AsDeclared(doc, dec, scanner, first))
    <2>1. r = feed_content(dec, scanner, data, final)
      BY <1>2, <1>3 DEF Reading
    <2>2. Len(data) \in Nat
      BY <1>1
    <2>3. IsDecoder(dec) /\ IsScanner(scanner) /\ Reading(dec, scanner)
      BY <1>1, <1>3
    <2> HIDE DEF r, data
    <2>4. /\ IsDecoder(r.dec) /\ IsScanner(r.scanner) /\ Reading(r.dec, r.scanner)
          /\ Settings(r.dec, r.scanner) = Settings(dec, scanner)
          /\ r.error \subseteq {"decoder", "panic"}
          /\ "panic" \in r.error => dec.finished
          /\ r.dec.finished => dec.finished \/ final
          /\ final /\ r.error = {} /\ ~r.dec.had_incomplete => r.dec.engine = <<>>
      BY <2>1, <2>2, <2>3, FeedContent
    <2>5. whole => AsDeclared(doc, r.dec, r.scanner, first)
      BY <1>3, <2>4 DEF AsDeclared, Settings
    <2> QED BY <2>4, <2>5 DEF Ready, AllDecoded, r, data
  <1>4. CASE Undecided(doc, dec, scanner, arrived, whole, first)
    <2> DEFINE k == MarkLength(dec.bom)
    <2>1. k \in Nat /\ k <= arrived
      <3>1. dec.bom \in AllMarks
        BY <1>1 DEF IsDecoder
      <3>2. \A b \in Marks : Len(Signature[b]) \in Nat
        BY SignatureLengths DEF Marks
      <3> QED BY <1>4, <3>1, <3>2 DEF Undecided, MarkLength, AllMarks
    <2>2. pre = SubSeq(doc.bytes, k + 1, n) /\ pre \in Seq(Char)
      <3> HIDE DEF k
      <3>1. SubSeq(doc.bytes, k + 1, arrived) \o data = SubSeq(doc.bytes, k + 1, n)
            /\ SubSeq(doc.bytes, k + 1, n) \in Seq(Char)
        BY <1>1, <2>1, Parts
      <3> QED BY <1>4, <3>1 DEF Undecided, k
    <2> HIDE DEF pre, data
    <2>3. IsDecoder(more)
      BY <1>1, <2>2 DEF IsDecoder
    <2>4. /\ more.state = dec.state /\ more.bom = dec.bom /\ more.prelude = pre
          /\ more.charset = dec.charset /\ more.bytes_mode = dec.bytes_mode
          /\ more.engine = dec.engine /\ more.finished = dec.finished
          /\ more.had_incomplete = dec.had_incomplete /\ more.unread = dec.unread
          /\ more.xml11 = dec.xml11
      BY <1>1 DEF IsDecoder
    <2> HIDE DEF more
    <2>5. Undecided(doc, more, scanner, n, whole, first)
      BY <1>4, <2>1, <2>2, <2>4 DEF Undecided
    <2>6. dec.charset = None /\ dec.state \in {"Init", "SeenBom"}
      BY <1>4 DEF Undecided
    <2>7. CASE dec.state = "SeenBom"
      <3>1. r = parse_declaration(more, scanner, final)
        BY <1>2, <2>7
      <3> HIDE DEF r
      <3>2. /\ Ready(doc, r.dec, r.scanner, n, whole, first)
            /\ r.error \subseteq {"decoder"}
            /\ r.dec.finished => final
            /\ final => AllDecoded(r)
            /\ final /\ r.error = {} => Reading(r.dec, r.scanner)
        BY <1>1, <2>3, <2>4, <2>5, <2>7, <3>1, DeclarationAwaited
      <3> QED BY <2>6, <3>2 DEF r, data
    <2>8. CASE dec.state = "Init" /\ ~final /\ Len(pre) < BytesNeeded(pre)
      <3>1. r = Result(more, scanner, {})
        BY <1>2, <2>4, <2>8
      <3>2. r.dec = more /\ r.scanner = scanner /\ r.error = {}
        BY <3>1 DEF Result
      <3>3. ~more.finished
        BY <2>5 DEF Undecided
      <3> HIDE DEF r
      <3> QED BY <1>1, <2>3, <2>5, <2>6, <2>8, <3>2, <3>3 DEF Ready, r, data
    <2>9. CASE dec.state = "Init" /\ ~(~final /\ Len(pre) < BytesNeeded(pre))
      <3>1. r = parse_declaration(SeenBom(more), scanner, final)
        BY <1>2, <2>4, <2>9
      <3>2. whole => n = Len(doc.bytes) \/ Len(pre) >= BytesNeeded(pre)
        <4>1. Len(pre) \in Nat /\ BytesNeeded(pre) \in Nat
          BY <2>2 DEF BytesNeeded
        <4> QED BY <2>9, <4>1
      <3>3. /\ IsDecoder(SeenBom(more)) /\ SeenBom(more).state = "SeenBom"
            /\ Undecided(doc, SeenBom(more), scanner, n, whole, first)
        BY <1>1, <2>3, <2>4, <2>5, <2>9, <3>2, MarkSeen
      <3> HIDE DEF r
      <3>4. /\ Ready(doc, r.dec, r.scanner, n, whole, first)
            /\ r.error \subseteq {"decoder"}
            /\ r.dec.finished => final
            /\ final => AllDecoded(r)
            /\ final /\ r.error = {} => Reading(r.dec, r.scanner)
        BY <1>1, <3>1, <3>3, DeclarationAwaited
      <3> QED BY <2>6, <3>4 DEF r, data
    <2> QED BY <2>6, <2>7, <2>8, <2>9
  <1> QED BY <1>3, <1>4 DEF Ready
-------------------------------------------------------------------------------
(* The inductive invariant                                                     *)

\* The decoder after the end of a stream: it holds nothing that was not decoded.
Ended(D, d, s, whole, first) ==
    /\ IsDecoder(d) /\ IsScanner(s)
    /\ d.state = "Closed" /\ d.charset \in Charsets /\ d.prelude = <<>>
    /\ d.bytes_mode => d.charset = "UTF-8" /\ ~d.xml11
    /\ s.encoding = d.charset /\ s.ended
    /\ whole => AsDeclared(D, d, s, first)
    /\ d.engine = <<>> /\ ~d.had_incomplete
    /\ d.bytes_mode => ~HasIncompleteTrailingBytes(s)
    /\ LongUnread(d)

\* What a call that failed leaves behind.
FailureInv ==
    /\ failed \subseteq {"decoder", "scanner", "panic"}
    /\ closed \in BOOLEAN /\ cut \in BOOLEAN /\ (cut => closed)
    /\ dec.finished => closed
    /\ dec.state = "Closed" => closed
    /\ closed /\ failed = {} => dec.state = "Closed"
    /\ "panic" \in failed => "receive" \in AfterFailure

DecoderInv ==
    /\ doc \in Documents /\ arrived \in 0 .. Len(doc.bytes) /\ resets \in 0 .. MaxResets
    /\ \/ Ready(doc, dec, scanner, arrived, ~cut, resets = 0)
       \/ Ended(doc, dec, scanner, ~cut, resets = 0)
    /\ FailureInv

\* At first nothing is said, and nothing has come.
LEMMA NewIsReady ==
    ASSUME NEW D \in Documents, NEW is11 \in BOOLEAN, NEW whole \in BOOLEAN, NEW first \in BOOLEAN,
           first => ~is11
    PROVE  Ready(D, NewDecoder, NewScanner(is11), 0, whole, first)
  <1>1. D.bytes \in Seq(Char) /\ Len(D.bytes) \in Nat
    BY DocumentIs
  <1>2. SubSeq(D.bytes, 1, 0) = <<>> /\ <<>> \in Seq(Char)
    BY <1>1
  <1> DEFINE d == NewDecoder
             s == NewScanner(is11)
  <1>3. IsDecoder(d)
    BY <1>2 DEF IsDecoder, NewDecoder, AllMarks
  <1>4. IsScanner(s)
    BY DEF IsScanner, NewScanner
  <1>5. /\ d.state = "Init" /\ d.bom = None /\ d.prelude = <<>> /\ d.charset = None
        /\ ~d.xml11 /\ ~d.bytes_mode /\ d.engine = <<>> /\ ~d.finished /\ ~d.had_incomplete
        /\ d.unread = {}
    BY DEF NewDecoder
  <1>6. /\ s.encoding = None /\ s.xml11 = is11 /\ ~s.standalone /\ s.text = <<>> /\ ~s.ended
    BY DEF NewScanner
  <1> HIDE DEF d, s
  <1>7. MarkLength(None) = 0
    BY DEF MarkLength
  <1>8. Undecided(D, d, s, 0, whole, first)
    BY <1>2, <1>5, <1>6, <1>7 DEF Undecided
  <1> QED BY <1>3, <1>4, <1>8 DEF Ready, d, s

\* Initially.
LEMMA DecoderInit == Init => DecoderInv
  <1> SUFFICES ASSUME Init PROVE DecoderInv
    OBVIOUS
  <1>1. doc \in Documents /\ arrived = 0 /\ resets = 0 /\ failed = {} /\ closed = FALSE /\ cut = FALSE
        /\ dec = NewDecoder /\ scanner = NewScanner(FALSE)
    BY DEF Init
  <1>2. Len(doc.bytes) \in Nat /\ MaxResets \in Nat
    BY <1>1, DocumentIs, DecoderAssumption
  <1>3. Ready(doc, NewDecoder, NewScanner(FALSE), 0, ~cut, resets = 0)
    BY <1>1, NewIsReady
  <1>4. dec.state = "Init" /\ ~dec.finished
    BY <1>1 DEF NewDecoder
  <1>5. FailureInv
    BY <1>1, <1>4 DEF FailureInv
  <1>6. Ready(doc, dec, scanner, arrived, ~cut, resets = 0)
    BY <1>1, <1>3
  <1>7. arrived \in 0 .. Len(doc.bytes) /\ resets \in 0 .. MaxResets
    BY <1>1, <1>2
  <1> QED BY <1>1, <1>5, <1>6, <1>7 DEF DecoderInv

\* What is ready of a whole stream is so of a stream cut off.
LEMMA ReadyOfLess ==
    ASSUME NEW D, NEW d, NEW s, NEW n, NEW whole \in BOOLEAN, NEW first,
           Ready(D, d, s, n, TRUE, first)
    PROVE  Ready(D, d, s, n, whole, first)
  <1>1. Undecided(D, d, s, n, TRUE, first) => Undecided(D, d, s, n, whole, first)
    BY DEF Undecided
  <1> QED BY <1>1 DEF Ready

\* A chunk is received.
LEMMA DecoderReceive == DecoderInv /\ receive => DecoderInv'
  <1> SUFFICES ASSUME DecoderInv, receive PROVE DecoderInv'
    OBVIOUS
  <1> DEFINE first == resets = 0
  <1>1. /\ doc \in Documents /\ arrived \in 0 .. Len(doc.bytes) /\ resets \in 0 .. MaxResets
        /\ doc' = doc /\ closed' = closed /\ cut' = cut /\ resets' = resets
        /\ FailureInv /\ cut \in BOOLEAN /\ closed \in BOOLEAN
    BY DEF DecoderInv, receive, FailureInv
  <1>2. PICK n \in ChunkEnds :
          /\ arrived' = n
          /\ Returns(IF dec.state = "Closed" THEN Result(dec, scanner, {"decoder"})
                     ELSE advance(dec, scanner, SubSeq(doc.bytes, arrived + 1, n), FALSE))
    BY DEF receive
  <1>3. n \in Nat /\ arrived \in Nat /\ arrived <= n /\ n <= Len(doc.bytes) /\ Len(doc.bytes) \in Nat
    BY <1>1, DocumentIs DEF ChunkEnds
  <1>4. n \in 0 .. Len(doc.bytes)
    BY <1>3
  <1>5. CASE Ended(doc, dec, scanner, ~cut, first)
    <2>1. dec.state = "Closed"
      BY <1>5 DEF Ended
    <2>2. Returns(Result(dec, scanner, {"decoder"}))
      BY <1>2, <2>1
    <2>3. dec' = dec /\ scanner' = scanner /\ failed' = failed \cup {"decoder"}
      BY <2>2 DEF Returns, Becomes, Refusable, Result
    <2>4. Ended(doc', dec', scanner', ~cut', resets' = 0)
      BY <1>1, <1>5, <2>3
    <2>5. FailureInv'
      BY <1>1, <2>3 DEF FailureInv
    <2> QED BY <1>1, <1>2, <1>4, <2>4, <2>5 DEF DecoderInv
  <1>6. CASE Ready(doc, dec, scanner, arrived, ~cut, first)
    <2> DEFINE r == advance(dec, scanner, SubSeq(doc.bytes, arrived + 1, n), FALSE)
    <2>1. dec.state # "Closed"
      BY <1>6 DEF Ready, Undecided, Reading
    <2>2. Returns(r)
      BY <1>2, <2>1
    <2>3. /\ Ready(doc, r.dec, r.scanner, n, ~cut, first)
          /\ r.error \subseteq {"decoder", "panic"}
          /\ "panic" \in r.error => dec.finished
          /\ r.dec.finished => dec.finished
      <3>1. (~cut) \in BOOLEAN /\ first \in BOOLEAN /\ FALSE \in BOOLEAN
        OBVIOUS
      <3>2. /\ Ready(doc, r.dec, r.scanner, n, ~cut, first)
            /\ r.error \subseteq {"decoder", "panic"}
            /\ "panic" \in r.error => dec.finished
            /\ r.dec.finished => dec.finished \/ FALSE
        BY <1>1, <1>3, <1>6, <3>1, Advances
      <3> QED BY <3>2
    <2> HIDE DEF r
    <2>4. /\ dec' = r.dec /\ scanner' = r.scanner
          /\ failed' \in {failed \cup r.error, failed \cup r.error \cup {"scanner"}}
      <3>1. Becomes(r) \/ Becomes(Refusable(r))
        BY <2>2 DEF Returns
      <3> QED BY <3>1 DEF Becomes, Refusable, Result
    <2>5. arrived' = n /\ doc' = doc /\ (~cut') = (~cut) /\ (resets' = 0) = first
      BY <1>1, <1>2
    <2>6. Ready(doc', dec', scanner', arrived', ~cut', resets' = 0)
      BY <2>3, <2>4, <2>5
    <2>7. dec'.state # "Closed"
      BY <2>3, <2>4 DEF Ready, Undecided, Reading
    <2>8. closed => failed # {}
      BY <1>1, <2>1 DEF FailureInv
    <2>9. "panic" \in r.error => "receive" \in AfterFailure
      <3> SUFFICES ASSUME "panic" \in r.error PROVE "receive" \in AfterFailure
        OBVIOUS
      <3>1. failed # {}
        BY <1>1, <2>3, <2>8 DEF FailureInv
      <3> QED BY <3>1 DEF receive, MayCall
    <2>10. FailureInv'
      <3>1. failed \subseteq {"decoder", "scanner", "panic"} /\ (dec.finished => closed)
            /\ (cut => closed) /\ ("panic" \in failed => "receive" \in AfterFailure)
        BY <1>1 DEF FailureInv
      <3>2. /\ failed' \subseteq {"decoder", "scanner", "panic"}
            /\ "panic" \in failed' => "receive" \in AfterFailure
            /\ failed # {} => failed' # {}
        BY <2>3, <2>4, <2>9, <3>1
      <3>3. dec'.finished => closed'
        BY <1>1, <2>3, <2>4, <3>1
      <3> QED BY <1>1, <2>7, <2>8, <3>1, <3>2, <3>3 DEF FailureInv
    <2> QED BY <1>1, <1>2, <1>4, <2>6, <2>10 DEF DecoderInv
  <1> QED BY <1>1, <1>5, <1>6 DEF DecoderInv

\* The end of the stream, or the whole of it cut off.
LEMMA DecoderClose == DecoderInv /\ close => DecoderInv'
  <1> SUFFICES ASSUME DecoderInv, close PROVE DecoderInv'
    OBVIOUS
  <1> DEFINE first == resets = 0
             r == advance(dec, scanner, <<>>, TRUE)
             whole == arrived = Len(doc.bytes)
  <1>1. /\ doc \in Documents /\ arrived \in 0 .. Len(doc.bytes) /\ resets \in 0 .. MaxResets
        /\ doc' = doc /\ arrived' = arrived /\ resets' = resets
        /\ ~closed /\ closed' = TRUE /\ cut' = (arrived < Len(doc.bytes)) /\ Ends(r)
        /\ FailureInv
    BY DEF DecoderInv, close
  <1>2. arrived \in Nat /\ arrived <= Len(doc.bytes) /\ Len(doc.bytes) \in Nat
        /\ doc.bytes \in Seq(Char)
    BY <1>1, DocumentIs
  <1>3. ~cut /\ ~dec.finished /\ dec.state # "Closed"
    BY <1>1 DEF FailureInv
  <1>4. Ready(doc, dec, scanner, arrived, whole, first)
    <2>1. Ready(doc, dec, scanner, arrived, TRUE, first)
      BY <1>3 DEF DecoderInv, Ended, Ready, Undecided
    <2> QED BY <2>1, ReadyOfLess
  <1>5. SubSeq(doc.bytes, arrived + 1, arrived) = <<>>
    BY <1>2
  <1>6. /\ Ready(doc, r.dec, r.scanner, arrived, whole, first)
        /\ r.error \subseteq {"decoder"}
        /\ AllDecoded(r)
        /\ r.error = {} => Reading(r.dec, r.scanner)
    <2>1. /\ whole \in BOOLEAN /\ first \in BOOLEAN /\ TRUE \in BOOLEAN
          /\ TRUE /\ whole => arrived = Len(doc.bytes)
      OBVIOUS
    <2>2. \A final \in BOOLEAN :
             LET q == advance(dec, scanner, SubSeq(doc.bytes, arrived + 1, arrived), final)
             IN  /\ Ready(doc, q.dec, q.scanner, arrived, whole, first)
                 /\ q.error \subseteq {"decoder", "panic"}
                 /\ "panic" \in q.error => dec.finished
                 /\ final => AllDecoded(q)
                 /\ final /\ q.error = {} => Reading(q.dec, q.scanner)
      <3>1. TAKE final \in BOOLEAN
      <3>2. final /\ whole => arrived = Len(doc.bytes)
        OBVIOUS
      <3>3. arrived <= arrived
        BY <1>2
      <3> HIDE DEF whole, first
      <3> QED BY <1>1, <1>2, <1>4, <2>1, <3>2, <3>3, Advances
    <2>3. /\ Ready(doc, r.dec, r.scanner, arrived, whole, first)
          /\ r.error \subseteq {"decoder", "panic"}
          /\ "panic" \in r.error => dec.finished
          /\ AllDecoded(r)
          /\ r.error = {} => Reading(r.dec, r.scanner)
      BY <1>5, <2>2
    <2> HIDE DEF r
    <2> QED BY <1>3, <2>3
  <1> HIDE DEF r
  <1>7. (~cut') = whole /\ (resets' = 0) = first /\ cut' \in BOOLEAN
    <2>1. (arrived < Len(doc.bytes)) = ~whole
      BY <1>2
    <2>2. cut' = ~whole
      BY <1>1, <2>1
    <2> HIDE DEF whole
    <2>3. whole \in BOOLEAN
      BY DEF whole
    <2>4. (~cut') = whole /\ cut' \in BOOLEAN
      BY <2>2, <2>3
    <2> QED BY <1>1, <2>4
  <1>8. ASSUME dec' = r.dec, scanner' = r.scanner,
               failed' # {}, failed' \subseteq failed \cup {"decoder", "scanner"}
        PROVE  DecoderInv'
    <2>1. Ready(doc', dec', scanner', arrived', ~cut', resets' = 0)
      BY <1>1, <1>6, <1>7, <1>8
    <2>2. FailureInv'
      BY <1>1, <1>7, <1>8 DEF FailureInv
    <2> QED BY <1>1, <2>1, <2>2 DEF DecoderInv
  <1>9. CASE Becomes(Refusable(r)) /\ r.scanner.text # scanner.text
    BY <1>6, <1>8, <1>9 DEF Becomes, Refusable, Result
  <1>10. CASE r.error # {} /\ Becomes(r)
    BY <1>6, <1>8, <1>10 DEF Becomes
  <1>11. CASE Becomes(Result(r.dec, r.scanner, {"decoder"}))
    BY <1>8, <1>11 DEF Becomes, Result
  <1>12. CASE Becomes(Result(r.dec, r.scanner, {"scanner"}))
    BY <1>8, <1>12 DEF Becomes, Result
  <1>13. CASE /\ r.error = {} /\ ~r.dec.had_incomplete
              /\ ~(r.dec.bytes_mode /\ HasIncompleteTrailingBytes(r.scanner))
              /\ Becomes(Result([r.dec EXCEPT !.state = "Closed"],
                                [r.scanner EXCEPT !.ended = TRUE], {}))
    <2> DEFINE d == [r.dec EXCEPT !.state = "Closed"]
               s == [r.scanner EXCEPT !.ended = TRUE]
    <2>1. dec' = d /\ scanner' = s /\ failed' = failed
      BY <1>13 DEF Becomes, Result
    <2>2. IsDecoder(r.dec) /\ IsScanner(r.scanner) /\ Reading(r.dec, r.scanner)
          /\ r.dec.engine = <<>> /\ (whole => AsDeclared(doc, r.dec, r.scanner, first))
      BY <1>6, <1>13 DEF Ready, AllDecoded, Undecided, Reading
    <2>3. /\ IsDecoder(d) /\ d.state = "Closed" /\ d.bom = r.dec.bom /\ d.prelude = r.dec.prelude
          /\ d.charset = r.dec.charset /\ d.bytes_mode = r.dec.bytes_mode
          /\ d.engine = r.dec.engine /\ d.finished = r.dec.finished
          /\ d.had_incomplete = r.dec.had_incomplete /\ d.unread = r.dec.unread
          /\ d.xml11 = r.dec.xml11
      BY <2>2 DEF IsDecoder
    <2>4. /\ IsScanner(s) /\ s.encoding = r.scanner.encoding /\ s.xml11 = r.scanner.xml11
          /\ s.standalone = r.scanner.standalone /\ s.text = r.scanner.text /\ s.ended
      BY <2>2 DEF IsScanner
    <2> HIDE DEF d, s
    <2>5. d.bytes_mode => ~HasIncompleteTrailingBytes(s)
      BY <1>13, <2>3, <2>4 DEF HasIncompleteTrailingBytes
    <2>6. whole => AsDeclared(doc, d, s, first)
      BY <2>2, <2>3, <2>4 DEF AsDeclared
    <2>7. Ended(doc, d, s, whole, first)
      BY <1>13, <2>2, <2>3, <2>4, <2>5, <2>6 DEF Ended, Reading, LongUnread
    <2>8. Ended(doc', dec', scanner', ~cut', resets' = 0)
      BY <1>1, <1>7, <2>1, <2>7
    <2>9. FailureInv'
      BY <1>1, <2>1, <2>3 DEF FailureInv
    <2> QED BY <1>1, <2>8, <2>9 DEF DecoderInv
  <1> QED BY <1>1, <1>9, <1>10, <1>11, <1>12, <1>13 DEF Ends

\* The parser is used again.
LEMMA DecoderReset == DecoderInv /\ reset => DecoderInv'
  <1> SUFFICES ASSUME DecoderInv, reset PROVE DecoderInv'
    OBVIOUS
  <1>1. /\ resets \in 0 .. MaxResets /\ resets < MaxResets /\ resets' = resets + 1
        /\ doc' \in LaterDocuments /\ arrived' = 0 /\ dec' = NewDecoder
        /\ scanner' = NewScanner(scanner.xml11)
        /\ failed' = {} /\ closed' = FALSE /\ cut' = FALSE
    BY DEF DecoderInv, reset
  <1>2. MaxResets \in Nat /\ doc' \in Documents
    BY <1>1, DecoderAssumption
  <1>3. Len(doc'.bytes) \in Nat
    BY <1>2, DocumentIs
  <1>4. scanner.xml11 \in BOOLEAN
    BY DEF DecoderInv, Ready, Ended, IsScanner
  <1>5. resets' \in 0 .. MaxResets /\ (resets' = 0) = FALSE
    BY <1>1, <1>2
  <1>6. Ready(doc', NewDecoder, NewScanner(scanner.xml11), 0, TRUE, FALSE)
    BY <1>2, <1>4, NewIsReady
  <1>7. (~cut') = TRUE
    BY <1>1
  <1>8. Ready(doc', dec', scanner', arrived', ~cut', resets' = 0)
    BY <1>1, <1>5, <1>6, <1>7
  <1>9. dec'.state = "Init" /\ ~dec'.finished
    BY <1>1 DEF NewDecoder
  <1>10. FailureInv'
    BY <1>1, <1>9 DEF FailureInv
  <1>11. arrived' \in 0 .. Len(doc'.bytes)
    BY <1>1, <1>3
  <1> QED BY <1>2, <1>5, <1>8, <1>10, <1>11 DEF DecoderInv

\* Every step keeps the invariant.
LEMMA DecoderNext == DecoderInv /\ [Next]_vars => DecoderInv'
  <1> SUFFICES ASSUME DecoderInv, [Next]_vars PROVE DecoderInv'
    OBVIOUS
  <1>1. CASE receive
    BY <1>1, DecoderReceive
  <1>2. CASE close
    BY <1>2, DecoderClose
  <1>3. CASE reset
    BY <1>3, DecoderReset
  <1>4. CASE UNCHANGED vars
    BY <1>4 DEF vars, DecoderInv, FailureInv
  <1> QED BY <1>1, <1>2, <1>3, <1>4 DEF Next

\* The invariant holds of every behaviour.
LEMMA DecoderInvariant == Spec => []DecoderInv
  BY DecoderInit, DecoderNext, PTL DEF Spec

\* What the invariant says of every state.
LEMMA DecoderInvIs ==
    ASSUME DecoderInv
    PROVE  TypeOK /\ SettingsAreDeclared /\ UndecidedKept /\ NoByteLeft /\ PanicIsEarned
  <1> DEFINE first == resets = 0
  <1>1. None \notin Charsets /\ AllMarks = Marks \cup {None}
    BY DEF None, Charsets, AllMarks
  <1>2. /\ arrived \in 0 .. Len(doc.bytes) /\ resets \in 0 .. MaxResets
        /\ failed \subseteq {"decoder", "scanner", "panic"}
        /\ PanicIsEarned /\ IsDecoder(dec)
    BY DEF DecoderInv, FailureInv, PanicIsEarned, Ready, Ended
  <1>3. /\ dec.state \in {"Init", "SeenBom", "Content", "Closed"} /\ dec.bom \in AllMarks
        /\ dec.charset \in Charsets \cup {None}
    BY <1>2 DEF IsDecoder
  <1>4. CASE Undecided(doc, dec, scanner, arrived, ~cut, first)
    BY <1>1, <1>2, <1>3, <1>4 DEF Undecided, TypeOK, SettingsAreDeclared, UndecidedKept, NoByteLeft
  <1>5. CASE Reading(dec, scanner) /\ (~cut => AsDeclared(doc, dec, scanner, first))
    <2>1. TypeOK
      BY <1>1, <1>2, <1>3, <1>5 DEF Reading, TypeOK
    <2>2. SettingsAreDeclared
      BY <1>5 DEF AsDeclared, SettingsAreDeclared
    <2>3. UndecidedKept /\ NoByteLeft
      BY <1>1, <1>5 DEF Reading, LongUnread, UndecidedKept, NoByteLeft
    <2> QED BY <1>2, <2>1, <2>2, <2>3
  <1>6. CASE Ended(doc, dec, scanner, ~cut, first)
    <2>1. TypeOK
      BY <1>1, <1>2, <1>3, <1>6 DEF Ended, TypeOK
    <2>2. SettingsAreDeclared
      BY <1>6 DEF Ended, AsDeclared, SettingsAreDeclared
    <2>3. UndecidedKept /\ NoByteLeft
      BY <1>1, <1>6 DEF Ended, LongUnread, UndecidedKept, NoByteLeft
    <2> QED BY <1>2, <2>1, <2>2, <2>3
  <1> QED BY <1>4, <1>5, <1>6 DEF DecoderInv, Ready
-------------------------------------------------------------------------------
(* Theorems                                                                    *)

\* The decoder's fields go together as its state says: only a decoder that has
\* read its declaration has an encoding and may be in byte mode.
THEOREM DecoderTypes == Spec => []TypeOK
  <1>1. DecoderInv => TypeOK
    BY DecoderInvIs
  <1> QED BY <1>1, DecoderInvariant, PTL

\* Whatever the documents and wherever their chunks are cut, the encoding, the
\* version and standalone are those that the whole document declares.
THEOREM TheDeclarationIsObeyed == Spec => []SettingsAreDeclared
  <1>1. DecoderInv => SettingsAreDeclared
    BY DecoderInvIs
  <1> QED BY <1>1, DecoderInvariant, PTL

\* Until then no byte after the mark is lost, and no text passed on.
THEOREM UndecidedBytesAreKept == Spec => []UndecidedKept
  <1>1. DecoderInv => UndecidedKept
    BY DecoderInvIs
  <1> QED BY <1>1, DecoderInvariant, PTL

\* A document is reported ended only when neither the engine nor the text passed
\* on as bytes holds an open sequence; and whatever the cuts, feed_content loses
\* bytes only of pieces of more than seven, and only those an encoding_rs engine
\* left unread: never in byte mode, in UTF-32 or in ISO-8859-1.
THEOREM NothingIsLeftOfShortPieces == Spec => []NoByteLeft
  <1>1. DecoderInv => NoByteLeft
    BY DecoderInvIs
  <1> QED BY <1>1, DecoderInvariant, PTL

\* No panic without a receive after an error.
THEOREM PanicsAreEarned == Spec => []PanicIsEarned
  <1>1. DecoderInv => PanicIsEarned
    BY DecoderInvIs
  <1> QED BY <1>1, DecoderInvariant, PTL

\* A step that is not a reset leaves what was settled.
LEMMA StepSettles == DecoderInv /\ [Next]_vars => [Settles]_vars
  <1> SUFFICES ASSUME DecoderInv, Next, dec.charset # None, resets' = resets
               PROVE  Settles
    BY DEF Settles
  <1> DEFINE first == resets = 0
  <1>1. /\ doc \in Documents /\ arrived \in 0 .. Len(doc.bytes) /\ cut \in BOOLEAN
        /\ resets \in 0 .. MaxResets
    BY DEF DecoderInv, FailureInv
  <1>2. doc.bytes \in Seq(Char) /\ Len(doc.bytes) \in Nat /\ arrived \in Nat
    BY <1>1, DocumentIs
  <1>3. ASSUME NEW r, IsDecoder(r.dec), IsScanner(r.scanner),
               Settings(r.dec, r.scanner) = Settings(dec, scanner),
               dec' = r.dec \/ dec' = [r.dec EXCEPT !.state = "Closed"],
               scanner' = r.scanner \/ scanner' = [r.scanner EXCEPT !.ended = TRUE]
        PROVE  Settles
    <2>1. /\ dec'.bom = r.dec.bom /\ dec'.charset = r.dec.charset /\ dec'.xml11 = r.dec.xml11
          /\ dec'.bytes_mode = r.dec.bytes_mode
      BY <1>3 DEF IsDecoder
    <2>2. /\ scanner'.encoding = r.scanner.encoding /\ scanner'.xml11 = r.scanner.xml11
          /\ scanner'.standalone = r.scanner.standalone
      BY <1>3 DEF IsScanner
    <2> QED BY <1>3, <2>1, <2>2 DEF Settings, Settles
  <1>4. CASE receive
    <2>1. PICK n \in ChunkEnds :
            Returns(IF dec.state = "Closed" THEN Result(dec, scanner, {"decoder"})
                    ELSE advance(dec, scanner, SubSeq(doc.bytes, arrived + 1, n), FALSE))
      BY <1>4 DEF receive
    <2>2. n \in Nat /\ arrived <= n /\ n <= Len(doc.bytes)
      BY <1>1, <1>2 DEF ChunkEnds
    <2>3. CASE Ended(doc, dec, scanner, ~cut, first)
      <3>1. dec' = dec /\ scanner' = scanner
        BY <2>1, <2>3 DEF Ended, Returns, Becomes, Refusable, Result
      <3> QED BY <3>1 DEF Settles
    <2>4. CASE Ready(doc, dec, scanner, arrived, ~cut, first)
      <3> DEFINE r == advance(dec, scanner, SubSeq(doc.bytes, arrived + 1, n), FALSE)
      <3>1. Returns(r)
        BY <2>1, <2>4 DEF Ready, Undecided, Reading
      <3>2. (~cut) \in BOOLEAN /\ first \in BOOLEAN /\ FALSE \in BOOLEAN
        OBVIOUS
      <3>3. /\ Ready(doc, r.dec, r.scanner, n, ~cut, first)
            /\ dec.charset # None => Settings(r.dec, r.scanner) = Settings(dec, scanner)
        BY <1>1, <1>2, <2>2, <2>4, <3>2, Advances
      <3> HIDE DEF r
      <3>4. dec' = r.dec /\ scanner' = r.scanner
        BY <3>1 DEF Returns, Becomes, Refusable, Result
      <3> QED BY <1>3, <3>3, <3>4 DEF Ready
    <2> QED BY <2>3, <2>4 DEF DecoderInv
  <1>5. CASE close
    <2> DEFINE r == advance(dec, scanner, <<>>, TRUE)
               whole == arrived = Len(doc.bytes)
    <2>1. Ends(r) /\ ~cut
      BY <1>5 DEF close, DecoderInv, FailureInv
    <2>2. Ready(doc, dec, scanner, arrived, whole, first)
      <3>1. Ready(doc, dec, scanner, arrived, TRUE, first)
        BY <1>5, <2>1 DEF close, DecoderInv, FailureInv, Ended
      <3> QED BY <3>1, ReadyOfLess
    <2>3. \A final \in BOOLEAN :
             LET q == advance(dec, scanner, SubSeq(doc.bytes, arrived + 1, arrived), final)
             IN  /\ Ready(doc, q.dec, q.scanner, arrived, whole, first)
                 /\ dec.charset # None => Settings(q.dec, q.scanner) = Settings(dec, scanner)
      <3>1. TAKE final \in BOOLEAN
      <3>2. /\ final /\ whole => arrived = Len(doc.bytes)
            /\ whole \in BOOLEAN /\ first \in BOOLEAN
        OBVIOUS
      <3>3. arrived <= arrived /\ arrived <= Len(doc.bytes)
        BY <1>1, <1>2
      <3> HIDE DEF whole, first
      <3> QED BY <1>1, <1>2, <2>2, <3>2, <3>3, Advances
    <2>4. SubSeq(doc.bytes, arrived + 1, arrived) = <<>>
      BY <1>2
    <2>5. /\ Ready(doc, r.dec, r.scanner, arrived, whole, first)
          /\ Settings(r.dec, r.scanner) = Settings(dec, scanner)
      BY <2>3, <2>4
    <2> HIDE DEF r
    <2>6. /\ dec' = r.dec \/ dec' = [r.dec EXCEPT !.state = "Closed"]
          /\ scanner' = r.scanner \/ scanner' = [r.scanner EXCEPT !.ended = TRUE]
      BY <2>1 DEF Ends, Becomes, Refusable, Result
    <2> QED BY <1>3, <2>5, <2>6 DEF Ready
  <1>6. CASE reset
    BY <1>1, <1>6, DecoderAssumption DEF reset
  <1> QED BY <1>4, <1>5, <1>6 DEF Next

\* What the declaration has settled stays so until the parser is reused.
THEOREM SettledForGood == Spec => SettledOnce
  BY DecoderInvariant, StepSettles, PTL DEF Spec, SettledOnce
=============================================================================
