---------------------------- MODULE Writer_proofs ----------------------------
(***************************************************************************)
(* What is proved of XmlWriter (Writer.tla), for every charset, threshold, *)
(* set of texts and sink.                                                  *)
(*                                                                         *)
(* Every call is a chain of writes between changes of flags and stacks.    *)
(* Output(u, v) says what a chain may do to the buffer: continue it, with  *)
(* the byte order mark first if that was pending.  It is transitive, so a  *)
(* call is proved link by link; the texts, whose loops are a flattened     *)
(* sequence and a recursive function, by their smallest counterexample.    *)
(*                                                                         *)
(* The invariant adds that a mark can be pending only before anything has  *)
(* been written, at the start of the document and outside elements, which  *)
(* is where the calls that do not ask for it (characters, indentation)     *)
(* cannot be made; and, for the namespaces, that the declarations written  *)
(* and the bindings recorded agree at every depth, not only the innermost, *)
(* for an end tag uncovers the others.                                     *)
(***************************************************************************)
EXTENDS Writer, SequenceTheorems, WellFoundedInduction, TLAPS

-----------------------------------------------------------------------------
(* Sequences of whatever is written                                        *)

IsSomeSeq(s) == \E S : s \in Seq(S)

\* t begins with s.
Continues(s, t) == Len(s) <= Len(t) /\ \A i \in 1 .. Len(s) : t[i] = s[i]

\* One sequence after another.
LEMMA ConcatIs ==
    ASSUME NEW s, NEW t, IsSomeSeq(s), IsSomeSeq(t)
    PROVE  /\ IsSomeSeq(s \o t)
           /\ Len(s \o t) = Len(s) + Len(t) /\ Len(s) \in Nat /\ Len(t) \in Nat
           /\ \A i \in 1 .. Len(s) + Len(t) :
                (s \o t)[i] = IF i <= Len(s) THEN s[i] ELSE t[i - Len(s)]
<1>1. PICK S : s \in Seq(S)
      BY DEF IsSomeSeq
<1>2. PICK T : t \in Seq(T)
      BY DEF IsSomeSeq
<1>3. s \in Seq(S \cup T) /\ t \in Seq(S \cup T)
      BY <1>1, <1>2
<1> QED BY <1>3 DEF IsSomeSeq

\* Short sequences.
LEMMA Tuples ==
    /\ IsSomeSeq(<<>>)
    /\ \A a : IsSomeSeq(<<a>>) /\ <<a>>[1] = a /\ Len(<<a>>) = 1
    /\ \A a, b : IsSomeSeq(<<a, b>>)
    /\ \A a, b, c : IsSomeSeq(<<a, b, c>>)
    /\ \A a, b, c, d : IsSomeSeq(<<a, b, c, d>>)
    /\ \A a, b, c, d, e : IsSomeSeq(<<a, b, c, d, e>>)
<1>1. <<>> \in Seq({})
      OBVIOUS
<1>2. \A a : <<a>> \in Seq({a}) /\ <<a>>[1] = a /\ Len(<<a>>) = 1
      OBVIOUS
<1>3. \A a, b : <<a, b>> \in Seq({a, b})
      OBVIOUS
<1>4. \A a, b, c : <<a, b, c>> \in Seq({a, b, c})
      OBVIOUS
<1>5. \A a, b, c, d : <<a, b, c, d>> \in Seq({a, b, c, d})
      OBVIOUS
<1>6. \A a, b, c, d, e : <<a, b, c, d, e>> \in Seq({a, b, c, d, e})
      OBVIOUS
<1> QED BY <1>1, <1>2, <1>3, <1>4, <1>5, <1>6 DEF IsSomeSeq

\* What continues a continuation continues its beginning.
LEMMA ContinuesOn ==
    ASSUME NEW s, NEW t, NEW u, IsSomeSeq(s), IsSomeSeq(t), IsSomeSeq(u),
           Continues(s, t), Continues(t, u)
    PROVE  Continues(s, u)
<1>1. Len(s) \in Nat /\ Len(t) \in Nat /\ Len(u) \in Nat
      BY DEF IsSomeSeq
<1> QED BY <1>1 DEF Continues

\* A sequence continues itself, and what is appended to it continues it.
LEMMA ContinuesConcat ==
    ASSUME NEW s, NEW t, IsSomeSeq(s), IsSomeSeq(t)
    PROVE  Continues(s, s) /\ Continues(s, s \o t)
<1>1. Len(s) \in Nat /\ Len(t) \in Nat
      BY DEF IsSomeSeq
<1> QED BY <1>1, ConcatIs DEF Continues

-----------------------------------------------------------------------------
(* Loops over a text                                                       *)

\* A set of natural numbers has a smallest one.
LEMMA Least ==
    ASSUME NEW S \in SUBSET Nat, S # {}
    PROVE  \E m \in S : \A j \in S : m <= j
<1>1. \E m \in S : \A j \in S : ~ <<j, m>> \in OpToRel(<, Nat)
      BY WFMin, NatLessThanWellFounded
<1>2. PICK m \in S : \A j \in S : ~ <<j, m>> \in OpToRel(<, Nat)
      BY <1>1
<1>3. \A j \in S : ~ (j < m)
      BY <1>2 DEF OpToRel
<1> QED BY <1>3

\* FlattenSeq of sequences over S is one over S.
LEMMA FlattenIs ==
    ASSUME NEW S, NEW n \in Nat, NEW f \in [1 .. n -> Seq(S)]
    PROVE  FlattenSeq(f) \in Seq(S)
<1> DEFINE Entry(g, i) == IF i = 1 THEN f[i] ELSE g[i - 1] \o f[i]
           Flat(m, g) == g = [i \in 1 .. m |-> Entry(g, i)]
<1>1. Len(f) = n /\ f \in Seq(Seq(S))
      OBVIOUS
<1>2. CASE n = 0
  <2>1. FlattenSeq(f) = f
        BY <1>1, <1>2 DEF FlattenSeq
  <2>2. f = <<>>
        BY <1>1, <1>2, EmptySeq
  <2> QED BY <2>1, <2>2
<1>3. CASE n # 0
  <2>1. FlattenSeq(f) = (CHOOSE g : Flat(n, g))[n]
        BY <1>1, <1>3 DEF FlattenSeq
  <2>2. ASSUME NEW g, Flat(n, g)
        PROVE  \A i \in 1 .. n : g[i] \in Seq(S)
    <3>0. \A i \in 1 .. n : g[i] = IF i = 1 THEN f[i] ELSE g[i - 1] \o f[i]
          BY <2>2
    <3> HIDE DEF Flat
    <3>1. SUFFICES ASSUME NEW k \in 1 .. n, g[k] \notin Seq(S)
                   PROVE  FALSE
          OBVIOUS
    <3> DEFINE Bad == {i \in 1 .. n : g[i] \notin Seq(S)}
    <3>3. \A i : i \in Bad <=> i \in 1 .. n /\ g[i] \notin Seq(S)
          OBVIOUS
    <3> HIDE DEF Bad
    <3>2. Bad \in SUBSET Nat /\ Bad # {}
      <4>1. k \in Bad /\ \A i \in Bad : i \in Nat
            BY <3>1, <3>3
      <4> QED BY <4>1
    <3>4. \E m \in Bad : \A j \in Bad : m <= j
          BY <3>2, Least
    <3>5. PICK m \in Bad : \A j \in Bad : m <= j
          BY <3>4
    <3>6. m \in 1 .. n /\ g[m] \notin Seq(S)
          BY <3>3
    <3>7. m # 1
          BY <3>0, <3>6
    <3>8. m - 1 \in 1 .. n /\ ~ (m <= m - 1)
          BY <3>6, <3>7
    <3>9. g[m - 1] \in Seq(S)
          BY <3>8, <3>5, <3>3
    <3>10. f[m] \in Seq(S) /\ g[m] = g[m - 1] \o f[m]
          BY <3>6, <3>7, <3>0
    <3> QED BY <3>6, <3>9, <3>10
  <2> DEFINE Flattens(m) == \E g : Flat(m, g)
  <2>3. \A m \in 1 .. n : Flattens(m)
    <3> HIDE DEF Flattens
    <3>1. SUFFICES ASSUME NEW k \in 1 .. n, ~Flattens(k)
                   PROVE  FALSE
          OBVIOUS
    <3> DEFINE Bad == {m \in 1 .. n : ~Flattens(m)}
    <3>3. \A m : m \in Bad <=> m \in 1 .. n /\ ~Flattens(m)
          OBVIOUS
    <3> HIDE DEF Bad
    <3>2. Bad \in SUBSET Nat /\ Bad # {}
      <4>1. k \in Bad /\ \A i \in Bad : i \in Nat
            BY <3>1, <3>3
      <4> QED BY <4>1
    <3>4. \E m \in Bad : \A j \in Bad : m <= j
          BY <3>2, Least
    <3>5. PICK m \in Bad : \A j \in Bad : m <= j
          BY <3>4
    <3>6. m \in 1 .. n /\ ~Flattens(m)
          BY <3>3
    <3>7. m # 1
      <4>1. Flat(1, [i \in 1 .. 1 |-> f[1]])
            OBVIOUS
      <4>2. Flattens(1)
        <5> HIDE DEF Flat
        <5> QED BY <4>1 DEF Flattens
      <4> QED BY <4>2, <3>6
    <3>8. m - 1 \in 1 .. n /\ ~ (m <= m - 1)
          BY <3>6, <3>7
    <3>9. Flattens(m - 1)
          BY <3>8, <3>5, <3>3
    <3>10. PICK g : Flat(m - 1, g)
      <4> HIDE DEF Flat
      <4> QED BY <3>9 DEF Flattens
    <3> DEFINE h == [i \in 1 .. m |-> IF i = m THEN g[m - 1] \o f[m] ELSE g[i]]
    <3>11. \A i \in 1 .. m - 1 : g[i] = IF i = 1 THEN f[i] ELSE g[i - 1] \o f[i]
          BY <3>10
    <3>12. \A i \in 1 .. m - 1 : h[i] = g[i]
          BY <3>6
    <3>13. h[m] = h[m - 1] \o f[m]
      <4>1. m \in 1 .. m /\ m - 1 \in 1 .. m - 1
            BY <3>6, <3>8
      <4>2. h[m] = g[m - 1] \o f[m]
            BY <4>1
      <4>3. h[m - 1] = g[m - 1]
            BY <4>1, <3>12
      <4> QED BY <4>2, <4>3
    <3>14. h = [i \in 1 .. m |-> h[i]]
          OBVIOUS
    <3> HIDE DEF h
    <3>15. ASSUME NEW i \in 1 .. m
           PROVE  h[i] = IF i = 1 THEN f[i] ELSE h[i - 1] \o f[i]
      <4>1. CASE i = m
            BY <4>1, <3>7, <3>13
      <4>2. CASE i = 1
            BY <4>2, <3>7, <3>8, <3>11, <3>12
      <4>3. CASE i # m /\ i # 1
        <5>1. i \in 1 .. m - 1 /\ i - 1 \in 1 .. m - 1
              BY <4>3, <3>6
        <5> QED BY <5>1, <4>3, <3>11, <3>12
      <4> QED BY <4>1, <4>2, <4>3
    <3>16. h = [i \in 1 .. m |-> IF i = 1 THEN f[i] ELSE h[i - 1] \o f[i]]
      <4> HIDE DEF Flat
      <4> QED BY <3>14, <3>15
    <3>17. Flat(m, h)
          BY <3>16
    <3> HIDE DEF Flat
    <3>18. Flattens(m)
          BY <3>17 DEF Flattens
    <3> QED BY <3>18, <3>6
  <2> HIDE DEF Flat
  <2>4. Flat(n, CHOOSE g : Flat(n, g))
        BY <1>3, <2>3
  <2> QED BY <1>3, <2>1, <2>2, <2>4
<1> QED BY <1>2, <1>3

-----------------------------------------------------------------------------
(* Output                                                                  *)

Fields == {"charset", "xml11", "standalone", "indent", "pendingBom", "buffer",
           "sink", "elementStack", "namespaceStack", "pendingStartTag",
           "hasContent", "hasNestedElements", "atDocumentStart", "inCdata",
           "inDtd", "dtdInternalSubsetOpen", "inExternalSubset"}

IsWriter(v) ==
    /\ DOMAIN v = Fields
    /\ IsSomeSeq(v.buffer)
    /\ v.pendingBom \in BOOLEAN

\* From u to v the buffer has grown, and begins what has grown with the byte
\* order mark if that was pending; it stays pending only if nothing is written.
Output(u, v) ==
    /\ Continues(u.buffer, v.buffer)
    /\ v.pendingBom => u.pendingBom /\ v.buffer = u.buffer
    /\ u.pendingBom /\ ~v.pendingBom =>
         Len(u.buffer) < Len(v.buffer) /\ v.buffer[Len(u.buffer) + 1] = "BOM"
    /\ v.charset = u.charset /\ v.sink = u.sink

\* Nothing but the output distinguishes u and v.
Frame(u, v) ==
    /\ v.charset = u.charset /\ v.xml11 = u.xml11
    /\ v.standalone = u.standalone /\ v.indent = u.indent
    /\ v.elementStack = u.elementStack /\ v.namespaceStack = u.namespaceStack
    /\ v.pendingStartTag = u.pendingStartTag /\ v.hasContent = u.hasContent
    /\ v.hasNestedElements = u.hasNestedElements
    /\ v.atDocumentStart = u.atDocumentStart
    /\ v.inCdata = u.inCdata /\ v.inDtd = u.inDtd
    /\ v.dtdInternalSubsetOpen = u.dtdInternalSubsetOpen
    /\ v.inExternalSubset = u.inExternalSubset

Writes(u, v) == IsWriter(v) /\ Output(u, v) /\ Frame(u, v)

\* A call that writes nothing.
LEMMA OutputNothing ==
    ASSUME NEW u, IsWriter(u)
    PROVE  Output(u, u) /\ Writes(u, u)
<1>1. Continues(u.buffer, u.buffer)
      BY ContinuesConcat DEF IsWriter
<1>2. Output(u, u)
      BY <1>1 DEF Output
<1> QED BY <1>2 DEF Writes, Frame

\* One call after another.
LEMMA OutputOn ==
    ASSUME NEW u, NEW v, NEW x, IsWriter(u), IsWriter(v), IsWriter(x),
           Output(u, v), Output(v, x)
    PROVE  Output(u, x)
<1>1. Continues(u.buffer, v.buffer) /\ Continues(v.buffer, x.buffer)
      BY DEF Output
<1>2. Continues(u.buffer, x.buffer)
      BY <1>1, ContinuesOn DEF IsWriter
<1>3. Len(u.buffer) \in Nat /\ Len(v.buffer) \in Nat /\ Len(x.buffer) \in Nat
      BY DEF IsWriter, IsSomeSeq
<1>4. x.pendingBom => u.pendingBom /\ x.buffer = u.buffer
      BY DEF Output
<1>5. x.charset = u.charset /\ x.sink = u.sink
      BY DEF Output
<1>6. ASSUME u.pendingBom, ~x.pendingBom
      PROVE  Len(u.buffer) < Len(x.buffer) /\ x.buffer[Len(u.buffer) + 1] = "BOM"
  <2>1. CASE v.pendingBom
        BY <2>1, <1>6 DEF Output
  <2>2. CASE ~v.pendingBom
    <3>1. Len(u.buffer) < Len(v.buffer) /\ v.buffer[Len(u.buffer) + 1] = "BOM"
          BY <2>2, <1>6 DEF Output
    <3>2. Len(u.buffer) + 1 \in 1 .. Len(v.buffer)
          BY <3>1, <1>3
    <3> QED BY <3>1, <3>2, <1>1, <1>3 DEF Continues
  <2> QED BY <2>1, <2>2
<1> QED BY <1>2, <1>4, <1>5, <1>6 DEF Output

\* Writes after writes.
LEMMA WritesOn ==
    ASSUME NEW u, NEW v, NEW x, IsWriter(u), Writes(u, v), Writes(v, x)
    PROVE  Writes(u, x)
<1>1. Output(u, x)
      BY OutputOn DEF Writes
<1>2. Frame(u, x)
      BY DEF Writes, Frame
<1> QED BY <1>1, <1>2 DEF Writes

\* What goes to the buffer when no byte order mark is pending.
LEMMA BufferedWrites ==
    ASSUME NEW u, NEW s, IsWriter(u), ~u.pendingBom, IsSomeSeq(s)
    PROVE  Writes(u, Buffered(u, s)) /\ ~Buffered(u, s).pendingBom
<1> DEFINE v == Buffered(u, s)
<1>1. /\ v.buffer = u.buffer \o s /\ v.pendingBom = u.pendingBom
      /\ DOMAIN v = Fields /\ v.sink = u.sink
      BY DEF Buffered, IsWriter, Fields
<1>2. Frame(u, v)
      BY DEF Buffered, IsWriter, Fields, Frame
<1>3. IsSomeSeq(v.buffer) /\ Continues(u.buffer, v.buffer)
      BY <1>1, ConcatIs, ContinuesConcat DEF IsWriter
<1>4. IsWriter(v)
      BY <1>1, <1>3 DEF IsWriter
<1>5. v.charset = u.charset
      BY <1>2 DEF Frame
<1> HIDE DEF v
<1>6. Output(u, v)
      BY <1>1, <1>3, <1>5 DEF Output
<1> QED BY <1>1, <1>2, <1>4, <1>6 DEF Writes, v

\* A mark that is pending is written (emit_bom_if_needed).
LEMMA EmitBomWrites ==
    ASSUME NEW u, IsWriter(u)
    PROVE  Writes(u, EmitBomIfNeeded(u)) /\ ~EmitBomIfNeeded(u).pendingBom
<1> DEFINE v == EmitBomIfNeeded(u)
<1>1. CASE ~u.pendingBom
      BY <1>1, OutputNothing DEF EmitBomIfNeeded
<1>2. CASE u.pendingBom
  <2>1. /\ v.buffer = Append(u.buffer, "BOM") /\ v.pendingBom = FALSE
        /\ DOMAIN v = Fields /\ v.sink = u.sink
        BY <1>2 DEF EmitBomIfNeeded, IsWriter, Fields
  <2>2. Frame(u, v)
        BY <1>2 DEF EmitBomIfNeeded, IsWriter, Fields, Frame
  <2>5. v.charset = u.charset
        BY <2>2 DEF Frame
  <2> HIDE DEF v
  <2>3. /\ IsSomeSeq(v.buffer) /\ Continues(u.buffer, v.buffer)
        /\ Len(u.buffer) < Len(v.buffer) /\ v.buffer[Len(u.buffer) + 1] = "BOM"
    <3>1. PICK S : u.buffer \in Seq(S)
          BY DEF IsWriter, IsSomeSeq
    <3>2. u.buffer \in Seq(S \cup {"BOM"})
          BY <3>1
    <3>3. v.buffer \in Seq(S \cup {"BOM"})
          BY <2>1, <3>2
    <3>4. /\ Len(v.buffer) = Len(u.buffer) + 1 /\ Len(u.buffer) \in Nat
          /\ v.buffer[Len(u.buffer) + 1] = "BOM"
          /\ \A i \in 1 .. Len(u.buffer) : v.buffer[i] = u.buffer[i]
          BY <2>1, <3>2
    <3> QED BY <3>3, <3>4 DEF IsSomeSeq, Continues
  <2>4. IsWriter(v)
        BY <2>1, <2>3 DEF IsWriter
  <2>6. Output(u, v)
        BY <1>2, <2>1, <2>3, <2>5 DEF Output
  <2> QED BY <2>1, <2>2, <2>4, <2>6 DEF Writes, v
<1> QED BY <1>1, <1>2

\* A text can be encoded.
LEMMA EncodedIs ==
    ASSUME NEW u, NEW s, IsSomeSeq(s)
    PROVE  IsSomeSeq(Encoded(u, s))
<1>1. PICK S : s \in Seq(S)
      BY DEF IsSomeSeq
<1> DEFINE f == [i \in 1 .. Len(s) |->
                    IF s[i] \in Unmappable[u.charset] THEN <<>> ELSE <<s[i]>>]
<1>2. Len(s) \in Nat /\ \A i \in 1 .. Len(s) : s[i] \in S
      BY <1>1
<1>3. \A i \in 1 .. Len(s) : <<s[i]>> \in Seq(S) /\ <<>> \in Seq(S)
      BY <1>2
<1>4. f \in [1 .. Len(s) -> Seq(S)]
      BY <1>3
<1> HIDE DEF f
<1>5. FlattenSeq(f) \in Seq(S)
      BY <1>2, <1>4, FlattenIs
<1>6. Encoded(u, s) = FlattenSeq(f)
      BY DEF Encoded, f
<1> QED BY <1>5, <1>6 DEF IsSomeSeq

\* A text is written as it is, after the mark (write_raw_str).
LEMMA RawStrWrites ==
    ASSUME NEW u, NEW s, IsWriter(u), IsSomeSeq(s)
    PROVE  Writes(u, WriteRawStr(u, s)) /\ ~WriteRawStr(u, s).pendingBom
<1> DEFINE v == EmitBomIfNeeded(u)
           x == Buffered(v, Encoded(u, s))
<1>1. Writes(u, v) /\ ~v.pendingBom
      BY EmitBomWrites
<1>2. IsWriter(v)
      BY <1>1 DEF Writes
<1>3. IsSomeSeq(Encoded(u, s))
      BY EncodedIs
<1>4. WriteRawStr(u, s) = x
      BY DEF WriteRawStr
<1> HIDE DEF v
<1>5. Writes(v, x) /\ ~x.pendingBom
      BY <1>1, <1>2, <1>3, BufferedWrites
<1> HIDE DEF x
<1>6. Writes(u, x)
      BY <1>1, <1>5, WritesOn
<1> QED BY <1>4, <1>5, <1>6

\* A character reference is written as a text is.
LEMMA CharacterReferenceWrites ==
    ASSUME NEW u, NEW c, IsWriter(u)
    PROVE  Writes(u, WriteCharacterReference(u, c))
           /\ ~WriteCharacterReference(u, c).pendingBom
<1>1. IsSomeSeq(<<CharacterReference(c)>>)
      BY Tuples
<1> QED BY <1>1, RawStrWrites DEF WriteCharacterReference

\* A character is written (write_encoded_code_point) when no mark is pending.
LEMMA CodePointWrites ==
    ASSUME NEW u, NEW c, IsWriter(u), ~u.pendingBom
    PROVE  Writes(u, WriteEncodedCodePoint(u, c))
           /\ ~WriteEncodedCodePoint(u, c).pendingBom
<1>1. IsSomeSeq(<<c>>)
      BY Tuples
<1>2. CASE c \in Unmappable[u.charset]
      BY <1>2, CharacterReferenceWrites DEF WriteEncodedCodePoint
<1>3. CASE c \notin Unmappable[u.charset]
      BY <1>1, <1>3, BufferedWrites DEF WriteEncodedCodePoint
<1> QED BY <1>2, <1>3

\* A text of any length is written, character by character, if no byte order
\* mark is pending.
LEMMA EscapedWrites ==
    ASSUME NEW v, NEW s, NEW named, NEW referenced,
           IsWriter(v), ~v.pendingBom, IsSomeSeq(s)
    PROVE  Writes(v, WriteEscaped(v, s, named, referenced))
           /\ ~WriteEscaped(v, s, named, referenced).pendingBom
<1> DEFINE One(u, c) ==
              IF c \in named THEN WriteRawStr(u, <<NamedReference[c]>>)
              ELSE IF c \in referenced THEN WriteCharacterReference(u, c)
              ELSE WriteEncodedCodePoint(u, c)
           n == Len(s)
           Run(m, g) == g = [i \in 0 .. m |-> IF i = 0 THEN v ELSE One(g[i - 1], s[i])]
           Runs(m) == \E g : Run(m, g)
           Good(u) == Writes(v, u) /\ ~u.pendingBom
<1>1. n \in Nat
      BY DEF IsSomeSeq
<1>2. WriteEscaped(v, s, named, referenced) = (CHOOSE g : Run(n, g))[n]
      BY DEF WriteEscaped
<1>3. ASSUME NEW u, NEW c, Good(u)
      PROVE  Good(One(u, c))
  <2>1. IsWriter(u)
        BY <1>3 DEF Writes
  <2>2. Writes(u, One(u, c)) /\ ~One(u, c).pendingBom
    <3>1. CASE c \in named
      <4>1. IsSomeSeq(<<NamedReference[c]>>)
            BY Tuples
      <4> QED BY <2>1, <3>1, <4>1, RawStrWrites
    <3>2. CASE c \notin named /\ c \in referenced
          BY <2>1, <3>2, CharacterReferenceWrites
    <3>3. CASE c \notin named /\ c \notin referenced
          BY <2>1, <1>3, <3>3, CodePointWrites
    <3> QED BY <3>1, <3>2, <3>3
  <2> HIDE DEF One
  <2>3. Writes(v, u)
        BY <1>3
  <2> QED BY <2>2, <2>3, WritesOn
<1>4. Good(v)
      BY OutputNothing
<1> HIDE DEF One, n, Good
<1>5. ASSUME NEW g, Run(n, g)
      PROVE  \A i \in 0 .. n : Good(g[i])
  <2>0. \A i \in 0 .. n : g[i] = IF i = 0 THEN v ELSE One(g[i - 1], s[i])
        BY <1>5
  <2> HIDE DEF Run
  <2>1. SUFFICES ASSUME NEW k \in 0 .. n, ~Good(g[k])
                 PROVE  FALSE
        OBVIOUS
  <2> DEFINE Bad == {i \in 0 .. n : ~Good(g[i])}
  <2>2. \A i : i \in Bad <=> i \in 0 .. n /\ ~Good(g[i])
        OBVIOUS
  <2> HIDE DEF Bad
  <2>3. Bad \in SUBSET Nat /\ Bad # {}
    <3>1. k \in Bad /\ \A i \in Bad : i \in Nat
          BY <2>1, <2>2
    <3> QED BY <3>1
  <2>4. \E m \in Bad : \A j \in Bad : m <= j
        BY <2>3, Least
  <2>5. PICK m \in Bad : \A j \in Bad : m <= j
        BY <2>4
  <2>6. m \in 0 .. n /\ ~Good(g[m])
        BY <2>2
  <2>7. m # 0
        BY <2>0, <2>6, <1>1, <1>4
  <2>8. m - 1 \in 0 .. n /\ ~ (m <= m - 1)
        BY <2>6, <2>7, <1>1
  <2>9. Good(g[m - 1])
        BY <2>8, <2>5, <2>2
  <2>10. g[m] = One(g[m - 1], s[m])
        BY <2>6, <2>7, <2>0
  <2> QED BY <2>6, <2>9, <2>10, <1>3
<1>6. \A m \in 0 .. n : Runs(m)
  <2> HIDE DEF Runs
  <2>1. SUFFICES ASSUME NEW k \in 0 .. n, ~Runs(k)
                 PROVE  FALSE
        OBVIOUS
  <2> DEFINE Bad == {m \in 0 .. n : ~Runs(m)}
  <2>2. \A m : m \in Bad <=> m \in 0 .. n /\ ~Runs(m)
        OBVIOUS
  <2> HIDE DEF Bad
  <2>3. Bad \in SUBSET Nat /\ Bad # {}
    <3>1. k \in Bad /\ \A i \in Bad : i \in Nat
          BY <2>1, <2>2
    <3> QED BY <3>1
  <2>4. \E m \in Bad : \A j \in Bad : m <= j
        BY <2>3, Least
  <2>5. PICK m \in Bad : \A j \in Bad : m <= j
        BY <2>4
  <2>6. m \in 0 .. n /\ ~Runs(m)
        BY <2>2
  <2>7. m # 0
    <3>1. Run(0, [i \in 0 .. 0 |-> v])
          OBVIOUS
    <3>2. Runs(0)
      <4> HIDE DEF Run
      <4> QED BY <3>1 DEF Runs
    <3> QED BY <3>2, <2>6
  <2>8. m - 1 \in 0 .. n /\ ~ (m <= m - 1)
        BY <2>6, <2>7, <1>1
  <2>9. Runs(m - 1)
        BY <2>8, <2>5, <2>2
  <2>10. PICK g : Run(m - 1, g)
    <3> HIDE DEF Run
    <3> QED BY <2>9 DEF Runs
  <2> DEFINE h == [i \in 0 .. m |-> IF i = m THEN One(g[m - 1], s[m]) ELSE g[i]]
  <2>11. \A i \in 0 .. m - 1 : g[i] = IF i = 0 THEN v ELSE One(g[i - 1], s[i])
        BY <2>10
  <2>12. \A i \in 0 .. m - 1 : h[i] = g[i]
        BY <2>6
  <2>13. h[m] = One(h[m - 1], s[m])
    <3>1. m \in 0 .. m /\ m - 1 \in 0 .. m - 1
          BY <2>6, <2>8
    <3>2. h[m] = One(g[m - 1], s[m])
          BY <3>1
    <3>3. h[m - 1] = g[m - 1]
          BY <3>1, <2>12
    <3> QED BY <3>2, <3>3
  <2>14. h = [i \in 0 .. m |-> h[i]]
        OBVIOUS
  <2> HIDE DEF h
  <2>15. ASSUME NEW i \in 0 .. m
         PROVE  h[i] = IF i = 0 THEN v ELSE One(h[i - 1], s[i])
    <3>1. CASE i = m
          BY <3>1, <2>7, <2>13
    <3>2. CASE i = 0
          BY <3>2, <2>7, <2>8, <2>11, <2>12
    <3>3. CASE i # m /\ i # 0
      <4>1. i \in 0 .. m - 1 /\ i - 1 \in 0 .. m - 1
            BY <3>3, <2>6, <1>1
      <4> QED BY <4>1, <3>3, <2>11, <2>12
    <3> QED BY <3>1, <3>2, <3>3
  <2>16. h = [i \in 0 .. m |-> IF i = 0 THEN v ELSE One(h[i - 1], s[i])]
    <3> HIDE DEF Run
    <3> QED BY <2>14, <2>15
  <2>17. Run(m, h)
        BY <2>16
  <2> HIDE DEF Run
  <2>18. Runs(m)
        BY <2>17 DEF Runs
  <2> QED BY <2>18, <2>6
<1> HIDE DEF Run
<1>7. Run(n, CHOOSE g : Run(n, g))
      BY <1>1, <1>6 DEF Runs
<1>8. Good((CHOOSE g : Run(n, g))[n])
      BY <1>1, <1>5, <1>7
<1> QED BY <1>2, <1>8 DEF Good

\* Sequences of one and of two elements of a set.
LEMMA PairsIn ==
    ASSUME NEW T
    PROVE  \A c \in T, d \in T : <<c>> \in Seq(T) /\ <<c, d>> \in Seq(T)
      OBVIOUS

\* A text some characters of which are written as two pieces.
LEMMA SanitizedIs ==
    ASSUME NEW s, IsSomeSeq(s), NEW f, NEW a,
           \A i \in 1 .. Len(s) : f[i] \in {<<s[i]>>, <<s[i], " ">>, <<a>>}
    PROVE  IsSomeSeq(FlattenSeq([i \in 1 .. Len(s) |-> f[i]]))
<1>1. PICK S : s \in Seq(S)
      BY DEF IsSomeSeq
<1>2. Len(s) \in Nat /\ \A i \in 1 .. Len(s) : s[i] \in S
      BY ONLY <1>1
<1> DEFINE T == S \cup {" ", a}
<1>3. \A i \in 1 .. Len(s) : <<s[i]>> \in Seq(T) /\ <<s[i], " ">> \in Seq(T) /\ <<a>> \in Seq(T)
  <2>1. " " \in T /\ a \in T /\ \A i \in 1 .. Len(s) : s[i] \in T
        BY ONLY <1>2
  <2> HIDE DEF T
  <2>2. \A c \in T, d \in T : <<c>> \in Seq(T) /\ <<c, d>> \in Seq(T)
        BY PairsIn
  <2> QED BY ONLY <2>1, <2>2
<1> HIDE DEF T
<1>4. \A i \in 1 .. Len(s) : f[i] \in Seq(T)
      BY <1>3
<1> DEFINE g == [i \in 1 .. Len(s) |-> f[i]]
<1>5. g \in [1 .. Len(s) -> Seq(T)]
      BY <1>4
<1> HIDE DEF g
<1>6. FlattenSeq(g) \in Seq(T)
      BY <1>2, <1>5, FlattenIs
<1> QED BY <1>6 DEF IsSomeSeq, g

\* The text of a comment.
LEMMA CommentContentWrites ==
    ASSUME NEW u, NEW s, IsWriter(u), IsSomeSeq(s)
    PROVE  Writes(u, WriteCommentContent(u, s))
<1> DEFINE f == [i \in 1 .. Len(s) |->
                    IF s[i] = "-" /\ (i = Len(s) \/ s[i + 1] = "-")
                    THEN <<s[i], " ">> ELSE <<s[i]>>]
<1>1. /\ f = [i \in 1 .. Len(s) |-> f[i]]
      /\ \A i \in 1 .. Len(s) : f[i] \in {<<s[i]>>, <<s[i], " ">>, <<" ">>}
      OBVIOUS
<1>2. WriteCommentContent(u, s) = WriteRawStr(u, FlattenSeq(f))
      BY DEF WriteCommentContent
<1> HIDE DEF f
<1>3. IsSomeSeq(FlattenSeq(f))
      BY <1>1, SanitizedIs
<1> QED BY <1>2, <1>3, RawStrWrites

\* The data of a processing instruction.
LEMMA PiDataWrites ==
    ASSUME NEW u, NEW s, IsWriter(u), IsSomeSeq(s)
    PROVE  Writes(u, WritePiData(u, s))
<1> DEFINE f == [i \in 1 .. Len(s) |->
                    IF s[i] = "?" /\ i < Len(s) /\ s[i + 1] = ">"
                    THEN <<s[i], " ">> ELSE <<s[i]>>]
<1>1. /\ f = [i \in 1 .. Len(s) |-> f[i]]
      /\ \A i \in 1 .. Len(s) : f[i] \in {<<s[i]>>, <<s[i], " ">>, <<" ">>}
      OBVIOUS
<1>2. WritePiData(u, s) = WriteRawStr(u, FlattenSeq(f))
      BY DEF WritePiData
<1> HIDE DEF f
<1>3. IsSomeSeq(FlattenSeq(f))
      BY <1>1, SanitizedIs
<1> QED BY <1>2, <1>3, RawStrWrites

\* A literal.
LEMMA QuotedWrites ==
    ASSUME NEW u, NEW id, IsWriter(u), IsSomeSeq(id)
    PROVE  Writes(u, Quoted(u, id))
<1> DEFINE f == [i \in 1 .. Len(id) |->
                    IF id[i] = "\"" THEN <<"&quot;">> ELSE <<id[i]>>]
           x == WriteRawStr(u, <<"\"">>)
           y == WriteEscapedId(x, id)
<1>1. /\ f = [i \in 1 .. Len(id) |-> f[i]]
      /\ \A i \in 1 .. Len(id) : f[i] \in {<<id[i]>>, <<id[i], " ">>, <<"&quot;">>}
      OBVIOUS
<1>2. y = WriteRawStr(x, FlattenSeq(f))
      BY DEF WriteEscapedId
<1>3. Quoted(u, id) = WriteRawStr(y, <<"\"">>)
      BY DEF Quoted
<1>4. IsSomeSeq(<<"\"">>)
      BY Tuples
<1>5. Writes(u, x)
      BY <1>4, RawStrWrites
<1> HIDE DEF f, x, y
<1>6. IsSomeSeq(FlattenSeq(f))
      BY <1>1, SanitizedIs
<1>7. IsWriter(x)
      BY <1>5 DEF Writes
<1>8. Writes(x, y)
      BY <1>2, <1>6, <1>7, RawStrWrites
<1>9. IsWriter(y)
      BY <1>8 DEF Writes
<1>10. Writes(y, Quoted(u, id))
      BY <1>3, <1>4, <1>9, RawStrWrites
<1>11. Writes(u, y)
      BY <1>5, <1>8, WritesOn
<1> QED BY <1>10, <1>11, WritesOn

\* An external identifier.
LEMMA ExternalIdWrites ==
    ASSUME NEW u, NEW public, NEW system, NEW needsSystem,
           IsWriter(u), IsSomeSeq(public), IsSomeSeq(system)
    PROVE  Writes(u, WriteExternalId(u, public, system, needsSystem))
<1> DEFINE v == WriteExternalId(u, public, system, needsSystem)
<1>1. CASE public # <<>>
  <2> DEFINE x == WriteRawStr(u, <<" ", "PUBLIC", " ">>)
             p == Quoted(x, public)
             q == WriteRawStr(p, <<" ">>)
  <2>1. v = IF system = <<>> /\ ~needsSystem THEN p ELSE Quoted(q, system)
        BY <1>1 DEF WriteExternalId
  <2>2. IsSomeSeq(<<" ", "PUBLIC", " ">>) /\ IsSomeSeq(<<" ">>)
        BY Tuples
  <2>3. Writes(u, x)
        BY <2>2, RawStrWrites
  <2> HIDE DEF v, x
  <2>4. Writes(x, p)
        BY <2>3, QuotedWrites DEF Writes
  <2> HIDE DEF p
  <2>5. Writes(p, q)
        BY <2>2, <2>4, RawStrWrites DEF Writes
  <2> HIDE DEF q
  <2>6. Writes(q, Quoted(q, system))
        BY <2>5, QuotedWrites DEF Writes
  <2>7. Writes(u, p)
        BY <2>3, <2>4, WritesOn
  <2>8. Writes(u, q)
        BY <2>5, <2>7, WritesOn
  <2>9. Writes(u, Quoted(q, system))
        BY <2>6, <2>8, WritesOn
  <2>10. CASE system = <<>> /\ ~needsSystem
        BY <2>1, <2>7, <2>10 DEF v
  <2>11. CASE ~(system = <<>> /\ ~needsSystem)
        BY <2>1, <2>9, <2>11 DEF v
  <2> QED BY <2>10, <2>11
<1>2. CASE public = <<>> /\ system # <<>>
  <2> DEFINE x == WriteRawStr(u, <<" ", "SYSTEM", " ">>)
  <2>1. v = Quoted(x, system)
        BY <1>2 DEF WriteExternalId
  <2>2. IsSomeSeq(<<" ", "SYSTEM", " ">>)
        BY Tuples
  <2>3. Writes(u, x)
        BY <2>2, RawStrWrites
  <2> HIDE DEF v, x
  <2>4. Writes(x, Quoted(x, system))
        BY <2>3, QuotedWrites DEF Writes
  <2>5. Writes(u, v)
        BY <2>1, <2>3, <2>4, WritesOn
  <2> QED BY <2>5 DEF v
<1>3. CASE public = <<>> /\ system = <<>>
      BY <1>3, OutputNothing DEF WriteExternalId
<1> QED BY <1>1, <1>2, <1>3

\* An attribute value, an entity value, a text.
LEMMA EscapesWrite ==
    ASSUME NEW u, NEW s, IsWriter(u), ~u.pendingBom, IsSomeSeq(s)
    PROVE  /\ Writes(u, WriteEscapedCharacters(u, s))
           /\ Writes(u, WriteEscapedAttributeValue(u, s))
           /\ Writes(u, WriteEscapedEntityValue(u, s))
           /\ Writes(u, WriteEscapedNamespaceUri(u, s))
      BY EscapedWrites DEF WriteEscapedCharacters, WriteEscapedAttributeValue,
                           WriteEscapedEntityValue, WriteEscapedNamespaceUri

-----------------------------------------------------------------------------
(* The calls that leave the stacks alone                                   *)

\* The output of a charset with a mark begins with it.
BomFirst(v) ==
    IF v.pendingBom
    THEN v.charset \in Bom /\ Len(v.sink) = 0 /\ Len(v.buffer) = 0
    ELSE v.charset \in Bom =>
            IF Len(v.sink) > 0 THEN v.sink[1] = "BOM"
            ELSE Len(v.buffer) > 0 /\ v.buffer[1] = "BOM"

Good(v) ==
    /\ IsWriter(v)
    /\ IsSomeSeq(v.sink) /\ IsSomeSeq(v.elementStack) /\ IsSomeSeq(v.namespaceStack)
    /\ \A i \in 1 .. Len(v.elementStack) : IsSomeSeq(v.elementStack[i])
    /\ Len(v.namespaceStack) = Len(v.elementStack) + 1
    /\ v.pendingStartTag => Len(v.elementStack) > 0 /\ ~v.hasContent
    /\ v.dtdInternalSubsetOpen => v.inDtd
    /\ v.pendingBom => Len(v.elementStack) = 0 /\ v.atDocumentStart
    /\ BomFirst(v)

\* No call but start_element opens a start tag; a subset is opened only in a
\* document type declaration.
Flags(u, v) ==
    /\ v.pendingStartTag => u.pendingStartTag /\ (v.hasContent => u.hasContent)
    /\ v.dtdInternalSubsetOpen /\ ~v.inDtd => u.dtdInternalSubsetOpen /\ ~u.inDtd

Stacks(u, v) ==
    v.elementStack = u.elementStack /\ v.namespaceStack = u.namespaceStack

Moves(u, v) == IsWriter(v) /\ Output(u, v) /\ Stacks(u, v) /\ Flags(u, v)

\* What is added to an output that begins with its mark leaves the mark first.
LEMMA BomStaysFirst ==
    ASSUME NEW u, NEW v, IsWriter(u), IsWriter(v), BomFirst(u), Output(u, v)
    PROVE  BomFirst(v)
<1>1. Len(u.buffer) \in Nat /\ Len(v.buffer) \in Nat
      BY DEF IsWriter, IsSomeSeq
<1>2. v.sink = u.sink /\ v.charset = u.charset
      BY DEF Output
<1>3. CASE v.pendingBom
  <2>1. u.pendingBom /\ v.buffer = u.buffer
        BY <1>3 DEF Output
  <2> QED BY <2>1, <1>2, <1>3 DEF BomFirst
<1>4. CASE ~v.pendingBom /\ u.pendingBom
  <2>1. Len(u.buffer) < Len(v.buffer) /\ v.buffer[Len(u.buffer) + 1] = "BOM"
        BY <1>4 DEF Output
  <2>2. Len(u.sink) = 0 /\ Len(u.buffer) = 0
        BY <1>4 DEF BomFirst
  <2>3. Len(v.buffer) > 0 /\ v.buffer[1] = "BOM" /\ Len(v.sink) = 0
        BY <2>1, <2>2, <1>1, <1>2
  <2> QED BY <2>3, <1>4 DEF BomFirst
<1>5. CASE ~v.pendingBom /\ ~u.pendingBom
  <2>1. Len(u.buffer) > 0 => Len(v.buffer) > 0 /\ v.buffer[1] = u.buffer[1]
        BY <1>1 DEF Output, Continues
  <2> QED BY <2>1, <1>2, <1>5 DEF BomFirst
<1> QED BY <1>3, <1>4, <1>5

\* A call that leaves the stacks alone keeps what is known of the writer, if it
\* does not pass the start of the document without writing.
LEMMA MovesKeepGood ==
    ASSUME NEW u, NEW v, Good(u), Moves(u, v),
           v.pendingBom => v.atDocumentStart = u.atDocumentStart
    PROVE  Good(v)
<1>1. IsWriter(u) /\ IsWriter(v) /\ BomFirst(u) /\ Output(u, v)
      BY DEF Good, Moves
<1>2. BomFirst(v)
      BY <1>1, BomStaysFirst
<1>3. v.sink = u.sink /\ (v.pendingBom => u.pendingBom)
      BY DEF Moves, Output
<1> QED BY <1>1, <1>2, <1>3 DEF Good, Moves, Stacks, Flags

\* A text that is written leaves stacks and flags alone.
LEMMA WritesMoves ==
    ASSUME NEW u, NEW v, Writes(u, v)
    PROVE  /\ Moves(u, v) /\ IsWriter(v) /\ v.atDocumentStart = u.atDocumentStart
           /\ v.inDtd = u.inDtd
      BY DEF Writes, Frame, Moves, Stacks, Flags

\* One call after another.
LEMMA MovesOn ==
    ASSUME NEW u, NEW v, NEW x, IsWriter(u), Moves(u, v), Moves(v, x)
    PROVE  Moves(u, x)
<1>1. Output(u, x)
      BY OutputOn DEF Moves
<1>2. Stacks(u, x) /\ Flags(u, x)
      BY DEF Moves, Stacks, Flags
<1> QED BY <1>1, <1>2 DEF Moves

\* A call that writes, after one that changes the state.
LEMMA RawStrMoves ==
    ASSUME NEW u, NEW v, NEW s, IsWriter(u), Moves(u, v), IsSomeSeq(s)
    PROVE  /\ Moves(u, WriteRawStr(v, s)) /\ IsWriter(WriteRawStr(v, s))
           /\ ~WriteRawStr(v, s).pendingBom
           /\ WriteRawStr(v, s).inDtd = v.inDtd
<1> DEFINE x == WriteRawStr(v, s)
<1>1. IsWriter(v)
      BY DEF Moves
<1>2. Writes(v, x) /\ ~x.pendingBom
      BY <1>1, RawStrWrites
<1> HIDE DEF x
<1>3. Moves(v, x) /\ IsWriter(x) /\ x.inDtd = v.inDtd
      BY <1>2, WritesMoves
<1>4. Moves(u, x)
      BY <1>3, MovesOn
<1> QED BY <1>2, <1>3, <1>4 DEF x

\* A change of flags only.
LEMMA FlagsMove ==
    ASSUME NEW u, NEW v, IsWriter(u), DOMAIN v = Fields,
           v.buffer = u.buffer, v.pendingBom = u.pendingBom,
           v.charset = u.charset, v.sink = u.sink, Stacks(u, v), Flags(u, v)
    PROVE  Moves(u, v)
<1>1. IsWriter(v)
      BY DEF IsWriter
<1>2. Continues(u.buffer, v.buffer)
      BY ContinuesConcat DEF IsWriter
<1>3. Output(u, v)
      BY <1>2 DEF Output
<1> QED BY <1>1, <1>3 DEF Moves

\* An open start tag is closed (close_pending_start_tag).
LEMMA CloseMoves ==
    ASSUME NEW v, NEW mark, IsWriter(v)
    PROVE  LET x == ClosePendingStartTag(v, mark) IN
           /\ Moves(v, x) /\ IsWriter(x) /\ ~x.pendingStartTag
           /\ x.atDocumentStart = v.atDocumentStart /\ x.inDtd = v.inDtd
           /\ (x.pendingBom => v.pendingBom)
<1> DEFINE c == IF v.pendingStartTag
                THEN [WriteRawStr(v, <<">">>) EXCEPT !.pendingStartTag = FALSE]
                ELSE v
           x == [c EXCEPT !.hasContent = @ \/ mark]
<1>1. ClosePendingStartTag(v, mark) = x
      BY DEF ClosePendingStartTag
<1>2. /\ Moves(v, c) /\ IsWriter(c) /\ ~c.pendingStartTag
      /\ c.atDocumentStart = v.atDocumentStart /\ c.inDtd = v.inDtd
  <2>1. CASE ~v.pendingStartTag
        BY <2>1, OutputNothing, WritesMoves
  <2>2. CASE v.pendingStartTag
    <3> DEFINE r == WriteRawStr(v, <<">">>)
    <3>1. IsSomeSeq(<<">">>)
          BY Tuples
    <3>2. Writes(v, r)
          BY <3>1, RawStrWrites
    <3>3. c = [r EXCEPT !.pendingStartTag = FALSE]
          BY <2>2
    <3> HIDE DEF r, c
    <3>4. Moves(v, r) /\ IsWriter(r) /\ r.atDocumentStart = v.atDocumentStart
          /\ r.inDtd = v.inDtd
          BY <3>2, WritesMoves
    <3>5. /\ DOMAIN c = Fields /\ c.buffer = r.buffer /\ c.pendingBom = r.pendingBom
          /\ c.charset = r.charset /\ c.sink = r.sink /\ Stacks(r, c) /\ Flags(r, c)
          /\ ~c.pendingStartTag
          /\ c.atDocumentStart = r.atDocumentStart /\ c.inDtd = r.inDtd
          BY <3>3, <3>4 DEF IsWriter, Fields, Stacks, Flags
    <3>6. Moves(r, c)
          BY <3>4, <3>5, FlagsMove
    <3>7. Moves(v, c)
          BY <3>4, <3>6, MovesOn
    <3> QED BY <3>4, <3>5, <3>6, <3>7 DEF Moves
  <2> QED BY <2>1, <2>2
<1> HIDE DEF c
<1>3. /\ DOMAIN x = Fields /\ x.buffer = c.buffer /\ x.pendingBom = c.pendingBom
      /\ x.charset = c.charset /\ x.sink = c.sink /\ Stacks(c, x) /\ Flags(c, x)
      /\ ~x.pendingStartTag
      /\ x.atDocumentStart = c.atDocumentStart /\ x.inDtd = c.inDtd
      BY <1>2 DEF IsWriter, Fields, Stacks, Flags
<1> HIDE DEF x
<1>4. Moves(c, x)
      BY <1>2, <1>3, FlagsMove
<1>5. Moves(v, x)
      BY <1>2, <1>4, MovesOn
<1>6. x.pendingBom => v.pendingBom
      BY <1>5 DEF Moves, Output
<1> QED BY <1>1, <1>2, <1>3, <1>5, <1>6 DEF Moves

\* A line break and the blanks after it (write_indent).
LEMMA IndentWrites ==
    ASSUME NEW v, IsWriter(v), ~v.pendingBom, IsSomeSeq(v.elementStack)
    PROVE  Writes(v, WriteIndent(v))
<1> DEFINE s == [i \in 1 .. Len(v.elementStack) |-> " "]
<1>1. Len(v.elementStack) \in Nat
      BY DEF IsSomeSeq
<1>2. s \in Seq({" "})
      BY <1>1
<1>3. IsSomeSeq(s) /\ IsSomeSeq(<<"\n">>)
      BY <1>2, Tuples DEF IsSomeSeq
<1> HIDE DEF s
<1>4. IsSomeSeq(<<"\n">> \o s)
      BY <1>3, ConcatIs
<1>5. WriteIndent(v) = Buffered(v, <<"\n">> \o s)
      BY DEF WriteIndent, s
<1> QED BY <1>4, <1>5, BufferedWrites

\* Before a child element, a comment or a processing instruction.
LEMMA IndentedMoves ==
    ASSUME NEW v, IsWriter(v), v.pendingBom => v.atDocumentStart,
           IsSomeSeq(v.elementStack)
    PROVE  Moves(v, Indented(v)) /\ IsWriter(Indented(v))
<1> DEFINE c == IF v.indent /\ ~v.atDocumentStart THEN WriteIndent(v) ELSE v
           x == [c EXCEPT !.atDocumentStart = FALSE]
<1>1. Indented(v) = x
      BY DEF Indented
<1>2. Writes(v, c)
  <2>1. CASE v.indent /\ ~v.atDocumentStart
        BY <2>1, IndentWrites
  <2>2. CASE ~(v.indent /\ ~v.atDocumentStart)
        BY <2>2, OutputNothing
  <2> QED BY <2>1, <2>2
<1> HIDE DEF c
<1>3. Moves(v, c) /\ IsWriter(c)
      BY <1>2, WritesMoves
<1>4. /\ DOMAIN x = Fields /\ x.buffer = c.buffer /\ x.pendingBom = c.pendingBom
      /\ x.charset = c.charset /\ x.sink = c.sink /\ Stacks(c, x) /\ Flags(c, x)
      BY <1>3 DEF IsWriter, Fields, Stacks, Flags
<1> HIDE DEF x
<1>5. Moves(c, x)
      BY <1>3, <1>4, FlagsMove
<1>6. Moves(v, x)
      BY <1>3, <1>5, MovesOn
<1> QED BY <1>1, <1>5, <1>6 DEF Moves

\* A step of a chain that writes.
LEMMA WritesAfter ==
    ASSUME NEW u, NEW v, NEW x, IsWriter(u), Moves(u, v), Writes(v, x)
    PROVE  /\ Moves(u, x) /\ IsWriter(x) /\ (~v.pendingBom => ~x.pendingBom)
           /\ x.inDtd = v.inDtd /\ x.atDocumentStart = v.atDocumentStart
<1>1. Moves(v, x) /\ IsWriter(x)
      BY WritesMoves
<1>2. Moves(u, x)
      BY <1>1, MovesOn
<1> QED BY <1>1, <1>2 DEF Writes, Output, Frame

\* What of the invariant the calls below need.
LEMMA GoodParts ==
    ASSUME NEW v, Good(v)
    PROVE  /\ IsWriter(v) /\ IsSomeSeq(v.elementStack)
           /\ (v.pendingBom => v.atDocumentStart)
           /\ (Len(v.elementStack) > 0 => ~v.pendingBom)
      BY DEF Good

\* A call that has written.
LEMMA MovesGoodBomless ==
    ASSUME NEW u, NEW v, Good(u), Moves(u, v), ~v.pendingBom
    PROVE  Good(v)
      BY MovesKeepGood

\* write_attribute.
LEMMA AttributeMoves ==
    ASSUME NEW v, NEW qName, NEW value, Good(v), IsSomeSeq(qName), IsSomeSeq(value)
    PROVE  LET x == WriteAttributeOutput(v, qName, value) IN
           Moves(v, x) /\ Good(x)
<1> DEFINE s == <<" ">> \o qName \o <<"=\"">>
           a == WriteRawStr(v, s)
           b == WriteEscapedAttributeValue(a, value)
           x == WriteRawStr(b, <<"\"">>)
<1>1. IsSomeSeq(s) /\ IsSomeSeq(<<"\"">>)
  <2>1. IsSomeSeq(<<" ">>) /\ IsSomeSeq(<<"=\"">>) /\ IsSomeSeq(<<"\"">>)
        BY Tuples
  <2>2. IsSomeSeq(<<" ">> \o qName)
        BY <2>1, ConcatIs
  <2> QED BY <2>1, <2>2, ConcatIs
<1>2. WriteAttributeOutput(v, qName, value) = x
      BY DEF WriteAttributeOutput
<1> HIDE DEF s
<1>3. Writes(v, a) /\ ~a.pendingBom /\ IsWriter(v)
      BY <1>1, RawStrWrites DEF Good
<1> HIDE DEF a
<1>4. IsWriter(a)
      BY <1>3 DEF Writes
<1>5. Writes(a, b)
      BY <1>3, <1>4, EscapesWrite
<1> HIDE DEF b
<1>6. Writes(v, b)
      BY <1>3, <1>5, WritesOn
<1>7. Moves(v, b)
      BY <1>6, WritesMoves
<1>8. Moves(v, x) /\ ~x.pendingBom
      BY <1>1, <1>3, <1>7, RawStrMoves
<1> HIDE DEF x
<1> QED BY <1>2, <1>8, MovesGoodBomless

\* write_characters, in an element.
LEMMA CharactersMove ==
    ASSUME NEW v, NEW text, Good(v), Len(v.elementStack) > 0, IsSomeSeq(text)
    PROVE  LET x == WriteCharacters(v, text) IN Moves(v, x) /\ Good(x)
<1> DEFINE c == ClosePendingStartTag(v, TRUE)
           x == WriteCharacters(v, text)
<1>1. IsWriter(v) /\ ~v.pendingBom
      BY GoodParts
<1>2. Moves(v, c) /\ IsWriter(c) /\ ~c.pendingBom
      BY <1>1, CloseMoves
<1>3. x = IF v.inCdata THEN WriteRawStr(c, text) ELSE WriteEscapedCharacters(c, text)
      BY DEF WriteCharacters
<1> HIDE DEF c
<1>4. Writes(c, x)
      BY <1>2, <1>3, RawStrWrites, EscapesWrite
<1> HIDE DEF x
<1>5. Moves(v, x) /\ ~x.pendingBom
      BY <1>1, <1>2, <1>4, WritesAfter
<1> QED BY <1>5, MovesGoodBomless DEF x

\* write_start_cdata.
LEMMA StartCdataMoves ==
    ASSUME NEW v, Good(v)
    PROVE  Moves(v, WriteStartCdata(v)) /\ Good(WriteStartCdata(v))
<1> DEFINE c == ClosePendingStartTag(v, TRUE)
           d == [c EXCEPT !.inCdata = TRUE]
           x == WriteRawStr(d, <<"<![CDATA[">>)
<1>1. x = WriteStartCdata(v)
      BY DEF WriteStartCdata
<1>2. IsWriter(v) /\ Moves(v, c) /\ IsWriter(c)
      BY GoodParts, CloseMoves
<1> HIDE DEF c
<1>3. /\ DOMAIN d = Fields /\ d.buffer = c.buffer /\ d.pendingBom = c.pendingBom
      /\ d.charset = c.charset /\ d.sink = c.sink /\ Stacks(c, d) /\ Flags(c, d)
      BY <1>2 DEF IsWriter, Fields, Stacks, Flags
<1> HIDE DEF d
<1>4. Moves(c, d)
      BY <1>2, <1>3, FlagsMove
<1>5. Moves(v, d)
      BY <1>2, <1>4, MovesOn
<1>6. IsSomeSeq(<<"<![CDATA[">>)
      BY Tuples
<1>7. Moves(v, x) /\ ~x.pendingBom
      BY <1>2, <1>5, <1>6, RawStrMoves
<1> HIDE DEF x
<1> QED BY <1>1, <1>7, MovesGoodBomless

\* write_end_cdata.
LEMMA EndCdataMoves ==
    ASSUME NEW v, Good(v)
    PROVE  Moves(v, WriteEndCdata(v)) /\ Good(WriteEndCdata(v))
<1> DEFINE d == [v EXCEPT !.inCdata = FALSE]
           x == WriteRawStr(d, <<"]", "]", ">">>)
<1>1. x = WriteEndCdata(v)
      BY DEF WriteEndCdata
<1>2. IsWriter(v)
      BY GoodParts
<1>3. /\ DOMAIN d = Fields /\ d.buffer = v.buffer /\ d.pendingBom = v.pendingBom
      /\ d.charset = v.charset /\ d.sink = v.sink /\ Stacks(v, d) /\ Flags(v, d)
      BY <1>2 DEF IsWriter, Fields, Stacks, Flags
<1> HIDE DEF d
<1>4. Moves(v, d)
      BY <1>2, <1>3, FlagsMove
<1>6. IsSomeSeq(<<"]", "]", ">">>)
      BY Tuples
<1>7. Moves(v, x) /\ ~x.pendingBom
      BY <1>2, <1>4, <1>6, RawStrMoves
<1> HIDE DEF x
<1> QED BY <1>1, <1>7, MovesGoodBomless

\* write_raw and write_entity_ref.
LEMMA RawMoves ==
    ASSUME NEW v, NEW s, Good(v), IsSomeSeq(s)
    PROVE  LET x == WriteRawStr(ClosePendingStartTag(v, TRUE), s) IN
           Moves(v, x) /\ Good(x)
<1> DEFINE c == ClosePendingStartTag(v, TRUE)
           x == WriteRawStr(c, s)
<1>1. IsWriter(v) /\ Moves(v, c)
      BY GoodParts, CloseMoves
<1> HIDE DEF c
<1>2. Moves(v, x) /\ ~x.pendingBom
      BY <1>1, RawStrMoves
<1>3. Good(x)
  <2> HIDE DEF x
  <2> QED BY <1>2, MovesGoodBomless
<1> QED BY <1>2, <1>3 DEF c

\* write_processing_instruction.
LEMMA ProcessingInstructionMoves ==
    ASSUME NEW v, NEW target, NEW data, Good(v), IsSomeSeq(data)
    PROVE  LET x == WriteProcessingInstruction(v, target, data) IN
           Moves(v, x) /\ Good(x)
<1> DEFINE c == ClosePendingStartTag(v, TRUE)
           d == Indented(c)
           e == WriteRawStr(d, <<"<?", target>>)
           f == IF data = <<>> THEN e ELSE WritePiData(WriteRawStr(e, <<" ">>), data)
           x == WriteRawStr(f, <<"?", ">">>)
<1>1. WriteProcessingInstruction(v, target, data) = x
      BY DEF WriteProcessingInstruction
<1>2. IsSomeSeq(<<"<?", target>>) /\ IsSomeSeq(<<" ">>) /\ IsSomeSeq(<<"?", ">">>)
      BY Tuples
<1>3. IsWriter(v) /\ Moves(v, c) /\ IsWriter(c) /\ (c.pendingBom => c.atDocumentStart)
      BY GoodParts, CloseMoves
<1>4. IsSomeSeq(c.elementStack)
      BY <1>3, GoodParts DEF Moves, Stacks
<1> HIDE DEF c
<1>5. Moves(c, d)
      BY <1>3, <1>4, IndentedMoves
<1>6. Moves(v, d)
      BY <1>3, <1>5, MovesOn
<1> HIDE DEF d
<1>7. Moves(v, e) /\ IsWriter(e)
      BY <1>2, <1>3, <1>6, RawStrMoves
<1> HIDE DEF e
<1>8. Moves(v, f)
  <2>1. CASE data = <<>>
        BY <2>1, <1>7
  <2>2. CASE data # <<>>
    <3> DEFINE g == WriteRawStr(e, <<" ">>)
    <3>1. Moves(v, g) /\ IsWriter(g)
          BY <1>2, <1>3, <1>7, RawStrMoves
    <3>2. f = WritePiData(g, data)
          BY <2>2
    <3> HIDE DEF f, g
    <3>3. Writes(g, f)
          BY <3>1, <3>2, PiDataWrites
    <3> QED BY <1>3, <3>1, <3>3, WritesAfter
  <2> QED BY <2>1, <2>2
<1> HIDE DEF f
<1>9. Moves(v, x) /\ ~x.pendingBom
      BY <1>2, <1>3, <1>8, RawStrMoves
<1> HIDE DEF x
<1> QED BY <1>1, <1>9, MovesGoodBomless

\* The internal subset is opened in a document type declaration.
LEMMA OpenSubsetMoves ==
    ASSUME NEW v, IsWriter(v), v.inDtd
    PROVE  LET x == OpenInternalSubsetIfNeeded(v) IN
           Moves(v, x) /\ IsWriter(x)
<1> DEFINE x == OpenInternalSubsetIfNeeded(v)
<1>1. CASE v.dtdInternalSubsetOpen
      BY <1>1, OutputNothing, WritesMoves DEF OpenInternalSubsetIfNeeded
<1>2. CASE ~v.dtdInternalSubsetOpen
  <2> DEFINE r == WriteRawStr(v, <<" ", "[", "\n">>)
  <2>1. x = [r EXCEPT !.dtdInternalSubsetOpen = TRUE]
        BY <1>2 DEF OpenInternalSubsetIfNeeded
  <2>2. IsSomeSeq(<<" ", "[", "\n">>)
        BY Tuples
  <2>3. Moves(v, r) /\ IsWriter(r) /\ r.inDtd = v.inDtd
        BY <2>2, RawStrWrites, WritesMoves
  <2> HIDE DEF r, x
  <2>4. /\ DOMAIN x = Fields /\ x.buffer = r.buffer /\ x.pendingBom = r.pendingBom
        /\ x.charset = r.charset /\ x.sink = r.sink /\ Stacks(r, x) /\ Flags(r, x)
        BY <2>1, <2>3 DEF IsWriter, Fields, Stacks, Flags
  <2>5. Moves(r, x)
        BY <2>3, <2>4, FlagsMove
  <2>6. Moves(v, x)
        BY <2>3, <2>5, MovesOn
  <2> QED BY <2>5, <2>6 DEF x, Moves
<1> QED BY <1>1, <1>2

\* write_comment, in a document type declaration and elsewhere.
LEMMA CommentMoves ==
    ASSUME NEW v, NEW text, Good(v), IsSomeSeq(text)
    PROVE  Moves(v, WriteComment(v, text)) /\ Good(WriteComment(v, text))
<1> DEFINE c == ClosePendingStartTag(v, TRUE)
           o == OpenInternalSubsetIfNeeded(c)
           p == IF v.inDtd THEN [o EXCEPT !.atDocumentStart = FALSE] ELSE Indented(c)
           q == WriteRawStr(p, <<"<!--">>)
           r == WriteCommentContent(q, text)
           s == WriteRawStr(r, <<"-", "-", ">">>)
           t == WriteRawStr(s, <<"\n">>)
<1>1. WriteComment(v, text) = IF v.inDtd /\ ~ShouldWriteDeclaration(v) THEN v
                              ELSE IF v.inDtd THEN t ELSE s
      BY DEF WriteComment
<1>2. IsSomeSeq(<<"<!--">>) /\ IsSomeSeq(<<"-", "-", ">">>) /\ IsSomeSeq(<<"\n">>)
      BY Tuples
<1>3. /\ IsWriter(v) /\ Moves(v, c) /\ IsWriter(c) /\ (c.pendingBom => c.atDocumentStart)
      /\ c.inDtd = v.inDtd
      BY GoodParts, CloseMoves
<1>4. IsSomeSeq(c.elementStack)
      BY <1>3, GoodParts DEF Moves, Stacks
<1> HIDE DEF c
<1>5. Moves(c, p)
  <2>1. CASE ~v.inDtd
        BY <2>1, <1>3, <1>4, IndentedMoves
  <2>2. CASE v.inDtd
    <3>1. p = [o EXCEPT !.atDocumentStart = FALSE]
          BY <2>2
    <3>2. Moves(c, o) /\ IsWriter(o)
          BY <1>3, <2>2, OpenSubsetMoves
    <3> HIDE DEF o, p
    <3>3. /\ DOMAIN p = Fields /\ p.buffer = o.buffer /\ p.pendingBom = o.pendingBom
          /\ p.charset = o.charset /\ p.sink = o.sink /\ Stacks(o, p) /\ Flags(o, p)
          BY <3>1, <3>2 DEF IsWriter, Fields, Stacks, Flags
    <3>4. Moves(o, p)
          BY <3>2, <3>3, FlagsMove
    <3> QED BY <1>3, <3>2, <3>4, MovesOn
  <2> QED BY <2>1, <2>2
<1> HIDE DEF p
<1>6. Moves(v, p)
      BY <1>3, <1>5, MovesOn
<1>7. Moves(v, q) /\ IsWriter(q)
      BY <1>2, <1>3, <1>6, RawStrMoves
<1> HIDE DEF q
<1>8. Writes(q, r)
      BY <1>7, CommentContentWrites
<1>9. Moves(v, r)
      BY <1>3, <1>7, <1>8, WritesAfter
<1> HIDE DEF r
<1>10. Moves(v, s) /\ ~s.pendingBom
      BY <1>2, <1>3, <1>9, RawStrMoves
<1> HIDE DEF s
<1>11. Moves(v, t) /\ ~t.pendingBom
      BY <1>2, <1>3, <1>10, RawStrMoves
<1> HIDE DEF t
<1>12. Moves(v, v)
      BY <1>3, OutputNothing, WritesMoves
<1> QED BY <1>1, <1>10, <1>11, <1>12, MovesGoodBomless

-----------------------------------------------------------------------------
(* The document type declaration                                           *)

\* write_start_dtd.
LEMMA StartDtdMoves ==
    ASSUME NEW v, NEW name, NEW public, NEW system,
           Good(v), IsSomeSeq(public), IsSomeSeq(system)
    PROVE  LET x == WriteStartDtd(v, name, public, system) IN
           Moves(v, x) /\ Good(x)
<1> DEFINE d == [v EXCEPT !.inDtd = TRUE, !.dtdInternalSubsetOpen = FALSE,
                          !.inExternalSubset = FALSE]
           b == WriteRawStr(d, <<"<!DOCTYPE", " ", name>>)
           e == WriteExternalId(b, public, system, TRUE)
           x == IF v.standalone THEN b ELSE e
<1>1. WriteStartDtd(v, name, public, system) = x
      BY DEF WriteStartDtd
<1>2. IsWriter(v)
      BY GoodParts
<1>3. /\ DOMAIN d = Fields /\ d.buffer = v.buffer /\ d.pendingBom = v.pendingBom
      /\ d.charset = v.charset /\ d.sink = v.sink /\ Stacks(v, d) /\ Flags(v, d)
      BY <1>2 DEF IsWriter, Fields, Stacks, Flags
<1> HIDE DEF d
<1>4. Moves(v, d)
      BY <1>2, <1>3, FlagsMove
<1>5. IsSomeSeq(<<"<!DOCTYPE", " ", name>>)
      BY Tuples
<1>6. Moves(v, b) /\ IsWriter(b) /\ ~b.pendingBom
      BY <1>2, <1>4, <1>5, RawStrMoves
<1> HIDE DEF b
<1>7. Writes(b, e)
      BY <1>6, ExternalIdWrites
<1>8. Moves(v, e) /\ ~e.pendingBom
      BY <1>2, <1>6, <1>7, WritesAfter
<1> HIDE DEF e
<1>9. Moves(v, x) /\ ~x.pendingBom
      BY <1>6, <1>8
<1> HIDE DEF x
<1> QED BY <1>1, <1>9, MovesGoodBomless

\* write_end_dtd.
LEMMA EndDtdMoves ==
    ASSUME NEW v, Good(v)
    PROVE  Moves(v, WriteEndDtd(v)) /\ Good(WriteEndDtd(v))
<1> DEFINE m == IF v.dtdInternalSubsetOpen THEN <<"]", ">">> ELSE <<">">>
           c == WriteRawStr(v, m)
           p == IF v.indent THEN WriteRawStr(c, <<"\n">>) ELSE c
           x == [p EXCEPT !.inDtd = FALSE, !.dtdInternalSubsetOpen = FALSE,
                          !.inExternalSubset = FALSE]
<1>1. WriteEndDtd(v) = x
      BY DEF WriteEndDtd
<1>2. IsWriter(v) /\ Moves(v, v)
      BY GoodParts, OutputNothing, WritesMoves
<1>3. IsSomeSeq(m) /\ IsSomeSeq(<<"\n">>)
      BY Tuples
<1> HIDE DEF m
<1>4. Moves(v, c) /\ ~c.pendingBom
      BY <1>2, <1>3, RawStrMoves
<1> HIDE DEF c
<1>5. Moves(v, p) /\ ~p.pendingBom
      BY <1>2, <1>3, <1>4, RawStrMoves
<1> HIDE DEF p
<1>6. IsWriter(p)
      BY <1>5 DEF Moves
<1>7. /\ DOMAIN x = Fields /\ x.buffer = p.buffer /\ x.pendingBom = p.pendingBom
      /\ x.charset = p.charset /\ x.sink = p.sink /\ Stacks(p, x) /\ Flags(p, x)
      BY <1>6 DEF IsWriter, Fields, Stacks, Flags
<1> HIDE DEF x
<1>8. Moves(p, x)
      BY <1>6, <1>7, FlagsMove
<1>9. Moves(v, x) /\ ~x.pendingBom
      BY <1>2, <1>5, <1>7, <1>8, MovesOn
<1> QED BY <1>1, <1>9, MovesGoodBomless

\* What stands before the body of a declaration.
Opening(v, keyword, name) ==
    WriteRawStr(OpenInternalSubsetIfNeeded(v), <<" ", keyword, " ">> \o name)

\* The keyword and the name of a declaration.
LEMMA OpeningMoves ==
    ASSUME NEW v, NEW keyword, NEW name, IsWriter(v), v.inDtd, IsSomeSeq(name)
    PROVE  LET x == Opening(v, keyword, name) IN
           Moves(v, x) /\ IsWriter(x) /\ ~x.pendingBom
<1> DEFINE o == OpenInternalSubsetIfNeeded(v)
           s == <<" ", keyword, " ">> \o name
<1>1. Moves(v, o)
      BY OpenSubsetMoves
<1>2. IsSomeSeq(<<" ", keyword, " ">>)
      BY Tuples
<1>3. IsSomeSeq(s)
      BY <1>2, ConcatIs
<1>4. Opening(v, keyword, name) = WriteRawStr(o, s)
      BY DEF Opening
<1> HIDE DEF o, s
<1> QED BY <1>1, <1>3, <1>4, RawStrMoves

\* A declaration whose body writes.
LEMMA DeclarationMoves ==
    ASSUME NEW v, NEW keyword, NEW name, NEW body, Good(v), IsSomeSeq(name), v.inDtd,
           Writes(Opening(v, keyword, name), body)
    PROVE  LET x == WriteRawStr(body, <<">", "\n">>) IN Moves(v, x) /\ Good(x)
<1> DEFINE x == WriteRawStr(body, <<">", "\n">>)
<1>1. IsWriter(v)
      BY GoodParts
<1>2. Moves(v, Opening(v, keyword, name))
      BY <1>1, OpeningMoves
<1>3. Moves(v, body)
      BY <1>1, <1>2, WritesAfter
<1>4. IsSomeSeq(<<">", "\n">>)
      BY Tuples
<1>5. Moves(v, x) /\ ~x.pendingBom
      BY <1>1, <1>3, <1>4, RawStrMoves
<1> HIDE DEF x
<1> QED BY <1>5, MovesGoodBomless DEF x

\* A declaration that is not written.
LEMMA StaysGood ==
    ASSUME NEW v, Good(v)
    PROVE  Moves(v, v) /\ Good(v)
<1>1. IsWriter(v)
      BY GoodParts
<1> QED BY <1>1, OutputNothing, WritesMoves

\* write_element_decl.
LEMMA ElementDeclMoves ==
    ASSUME NEW v, NEW name, NEW model, Good(v)
    PROVE  LET x == WriteElementDecl(v, name, model) IN Moves(v, x) /\ Good(x)
<1> DEFINE o == Opening(v, "<!ELEMENT", <<name>>)
           b == WriteRawStr(o, <<" ", model>>)
           x == WriteRawStr(b, <<">", "\n">>)
<1>1. WriteElementDecl(v, name, model) = IF ~ShouldWriteDeclaration(v) THEN v ELSE x
      BY DEF WriteElementDecl, WriteDeclaration, Opening
<1>2. CASE ~ShouldWriteDeclaration(v)
      BY <1>1, <1>2, StaysGood
<1>3. CASE ShouldWriteDeclaration(v)
  <2>1. v.inDtd /\ IsWriter(v)
        BY <1>3, GoodParts DEF ShouldWriteDeclaration
  <2>2. IsSomeSeq(<<name>>) /\ IsSomeSeq(<<" ", model>>)
        BY Tuples
  <2>3. IsWriter(o)
        BY <2>1, <2>2, OpeningMoves
  <2>4. Writes(o, b)
        BY <2>2, <2>3, RawStrWrites
  <2> HIDE DEF b
  <2>5. Moves(v, x) /\ Good(x)
        BY <2>1, <2>2, <2>4, DeclarationMoves
  <2> HIDE DEF x
  <2> QED BY <1>1, <1>3, <2>5
<1> QED BY <1>2, <1>3

\* The name of a general or parameter entity.
LEMMA EntityNameIs ==
    ASSUME NEW name, NEW parameter
    PROVE  IsSomeSeq(EntityName(name, parameter))
      BY Tuples DEF EntityName

\* write_internal_entity_decl.
LEMMA InternalEntityDeclMoves ==
    ASSUME NEW v, NEW name, NEW parameter, NEW value, Good(v), IsSomeSeq(value)
    PROVE  LET x == WriteInternalEntityDecl(v, name, parameter, value) IN
           Moves(v, x) /\ Good(x)
<1> DEFINE n == EntityName(name, parameter)
           o == Opening(v, "<!ENTITY", n)
           q == WriteRawStr(o, <<" ", "\"">>)
           e == WriteEscapedEntityValue(q, value)
           b == WriteRawStr(e, <<"\"">>)
           x == WriteRawStr(b, <<">", "\n">>)
<1>1. WriteInternalEntityDecl(v, name, parameter, value)
        = IF ~ShouldWriteDeclaration(v) THEN v ELSE x
      BY DEF WriteInternalEntityDecl, WriteDeclaration, Opening
<1>2. CASE ~ShouldWriteDeclaration(v)
      BY <1>1, <1>2, StaysGood
<1>3. CASE ShouldWriteDeclaration(v)
  <2>1. v.inDtd /\ IsWriter(v)
        BY <1>3, GoodParts DEF ShouldWriteDeclaration
  <2>2. IsSomeSeq(n) /\ IsSomeSeq(<<" ", "\"">>) /\ IsSomeSeq(<<"\"">>)
        BY Tuples, EntityNameIs
  <2> HIDE DEF n
  <2>3. IsWriter(o)
        BY <2>1, <2>2, OpeningMoves
  <2>4. Writes(o, q) /\ ~q.pendingBom
        BY <2>2, <2>3, RawStrWrites
  <2> HIDE DEF q
  <2>5. IsWriter(q)
        BY <2>4 DEF Writes
  <2>6. Writes(q, e)
        BY <2>4, <2>5, EscapesWrite
  <2>7. Writes(o, e)
        BY <2>3, <2>4, <2>6, WritesOn
  <2> HIDE DEF e
  <2>8. IsWriter(e)
        BY <2>6 DEF Writes
  <2>9. Writes(e, b)
        BY <2>2, <2>8, RawStrWrites
  <2> HIDE DEF b
  <2>10. Writes(o, b)
        BY <2>3, <2>7, <2>9, WritesOn
  <2>11. Moves(v, x) /\ Good(x)
        BY <2>1, <2>2, <2>10, DeclarationMoves
  <2> HIDE DEF x
  <2> QED BY <1>1, <1>3, <2>11
<1> QED BY <1>2, <1>3

\* write_attribute_decl.
LEMMA AttributeDeclMoves ==
    ASSUME NEW v, NEW eName, NEW aName, NEW mode, NEW hasValue, NEW value,
           Good(v), IsSomeSeq(value)
    PROVE  LET x == WriteAttributeDecl(v, eName, aName, mode, hasValue, value) IN
           Moves(v, x) /\ Good(x)
<1> DEFINE n == <<eName, " ", aName, " ", "CDATA">>
           o == Opening(v, "<!ATTLIST", n)
           m == IF mode = None THEN o ELSE WriteRawStr(o, <<" ", mode>>)
           q == WriteRawStr(m, <<" ", "\"">>)
           e == WriteEscapedAttributeValue(q, value)
           f == WriteRawStr(e, <<"\"">>)
           b == IF hasValue THEN f ELSE m
           x == WriteRawStr(b, <<">", "\n">>)
<1>1. WriteAttributeDecl(v, eName, aName, mode, hasValue, value)
        = IF ~ShouldWriteDeclaration(v) THEN v ELSE x
      BY DEF WriteAttributeDecl, WriteDeclaration, Opening
<1>2. CASE ~ShouldWriteDeclaration(v)
      BY <1>1, <1>2, StaysGood
<1>3. CASE ShouldWriteDeclaration(v)
  <2>1. v.inDtd /\ IsWriter(v)
        BY <1>3, GoodParts DEF ShouldWriteDeclaration
  <2>2. IsSomeSeq(n) /\ IsSomeSeq(<<" ", mode>>) /\ IsSomeSeq(<<" ", "\"">>) /\ IsSomeSeq(<<"\"">>)
        BY Tuples
  <2> HIDE DEF n
  <2>3. IsWriter(o)
        BY <2>1, <2>2, OpeningMoves
  <2>4. Writes(o, m)
        BY <2>2, <2>3, RawStrWrites, OutputNothing
  <2> HIDE DEF m
  <2>5. IsWriter(m)
        BY <2>4 DEF Writes
  <2>6. Writes(m, q) /\ ~q.pendingBom
        BY <2>2, <2>5, RawStrWrites
  <2> HIDE DEF q
  <2>7. IsWriter(q)
        BY <2>6 DEF Writes
  <2>8. Writes(q, e)
        BY <2>6, <2>7, EscapesWrite
  <2>9. Writes(m, e)
        BY <2>5, <2>6, <2>8, WritesOn
  <2> HIDE DEF e
  <2>10. IsWriter(e)
        BY <2>8 DEF Writes
  <2>11. Writes(e, f)
        BY <2>2, <2>10, RawStrWrites
  <2> HIDE DEF f
  <2>12. Writes(m, f)
        BY <2>5, <2>9, <2>11, WritesOn
  <2>13. Writes(m, b)
        BY <2>5, <2>12, OutputNothing
  <2> HIDE DEF b
  <2>14. Writes(o, b)
        BY <2>3, <2>4, <2>13, WritesOn
  <2>15. Moves(v, x) /\ Good(x)
        BY <2>1, <2>2, <2>14, DeclarationMoves
  <2> HIDE DEF x
  <2> QED BY <1>1, <1>3, <2>15
<1> QED BY <1>2, <1>3

\* The three declarations that have an external identifier.
LEMMA ExternalDeclMoves ==
    ASSUME NEW v, NEW keyword, NEW name, NEW public, NEW system, NEW needsSystem,
           Good(v), v.inDtd, IsSomeSeq(name), IsSomeSeq(public), IsSomeSeq(system)
    PROVE  LET e == WriteExternalId(Opening(v, keyword, name), public, system, needsSystem)
           IN  /\ Writes(Opening(v, keyword, name), e)
               /\ Moves(v, WriteRawStr(e, <<">", "\n">>))
               /\ Good(WriteRawStr(e, <<">", "\n">>))
<1> DEFINE o == Opening(v, keyword, name)
           e == WriteExternalId(o, public, system, needsSystem)
<1>1. IsWriter(v)
      BY GoodParts
<1>2. IsWriter(o)
      BY <1>1, OpeningMoves
<1>3. Writes(o, e)
      BY <1>2, ExternalIdWrites
<1> HIDE DEF e
<1>4. Moves(v, WriteRawStr(e, <<">", "\n">>)) /\ Good(WriteRawStr(e, <<">", "\n">>))
      BY <1>3, DeclarationMoves
<1> QED BY <1>3, <1>4 DEF e

\* write_external_entity_decl.
LEMMA ExternalEntityDeclMoves ==
    ASSUME NEW v, NEW name, NEW parameter, NEW public, NEW system,
           Good(v), IsSomeSeq(public), IsSomeSeq(system)
    PROVE  LET x == WriteExternalEntityDecl(v, name, parameter, public, system) IN
           Moves(v, x) /\ Good(x)
<1> DEFINE n == EntityName(name, parameter)
           x == WriteRawStr(WriteExternalId(Opening(v, "<!ENTITY", n), public, system, TRUE),
                            <<">", "\n">>)
<1>1. WriteExternalEntityDecl(v, name, parameter, public, system)
        = IF ~ShouldWriteDeclaration(v) THEN v ELSE x
      BY DEF WriteExternalEntityDecl, WriteDeclaration, Opening
<1>2. CASE ~ShouldWriteDeclaration(v)
      BY <1>1, <1>2, StaysGood
<1>3. CASE ShouldWriteDeclaration(v)
  <2>1. v.inDtd /\ IsSomeSeq(n)
        BY <1>3, EntityNameIs DEF ShouldWriteDeclaration
  <2>2. Moves(v, x) /\ Good(x)
        BY <2>1, ExternalDeclMoves
  <2> QED BY <1>1, <1>3, <2>2
<1> QED BY <1>2, <1>3

\* write_notation_decl.
LEMMA NotationDeclMoves ==
    ASSUME NEW v, NEW name, NEW public, NEW system,
           Good(v), IsSomeSeq(public), IsSomeSeq(system)
    PROVE  LET x == WriteNotationDecl(v, name, public, system) IN
           Moves(v, x) /\ Good(x)
<1> DEFINE x == WriteRawStr(WriteExternalId(Opening(v, "<!NOTATION", <<name>>),
                                            public, system, FALSE),
                            <<">", "\n">>)
<1>1. WriteNotationDecl(v, name, public, system)
        = IF ~ShouldWriteDeclaration(v) THEN v ELSE x
      BY DEF WriteNotationDecl, WriteDeclaration, Opening
<1>2. CASE ~ShouldWriteDeclaration(v)
      BY <1>1, <1>2, StaysGood
<1>3. CASE ShouldWriteDeclaration(v)
  <2>1. v.inDtd /\ IsSomeSeq(<<name>>)
        BY <1>3, Tuples DEF ShouldWriteDeclaration
  <2>2. Moves(v, x) /\ Good(x)
        BY <2>1, ExternalDeclMoves
  <2> QED BY <1>1, <1>3, <2>2
<1> QED BY <1>2, <1>3

\* write_unparsed_entity_decl.
LEMMA UnparsedEntityDeclMoves ==
    ASSUME NEW v, NEW name, NEW public, NEW system, NEW notation,
           Good(v), IsSomeSeq(public), IsSomeSeq(system)
    PROVE  LET x == WriteUnparsedEntityDecl(v, name, public, system, notation) IN
           Moves(v, x) /\ Good(x)
<1> DEFINE o == Opening(v, "<!ENTITY", <<name>>)
           e == WriteExternalId(o, public, system, TRUE)
           b == WriteRawStr(e, <<" ", "NDATA", " ", notation>>)
           x == WriteRawStr(b, <<">", "\n">>)
<1>1. WriteUnparsedEntityDecl(v, name, public, system, notation)
        = IF ~ShouldWriteDeclaration(v) THEN v ELSE x
      BY DEF WriteUnparsedEntityDecl, WriteDeclaration, Opening
<1>2. CASE ~ShouldWriteDeclaration(v)
      BY <1>1, <1>2, StaysGood
<1>3. CASE ShouldWriteDeclaration(v)
  <2>1. v.inDtd /\ IsSomeSeq(<<name>>) /\ IsWriter(v)
        BY <1>3, Tuples, GoodParts DEF ShouldWriteDeclaration
  <2>2. Writes(o, e) /\ IsWriter(o)
        BY <2>1, ExternalDeclMoves, OpeningMoves
  <2> HIDE DEF e
  <2>3. IsWriter(e)
        BY <2>2 DEF Writes
  <2>4. IsSomeSeq(<<" ", "NDATA", " ", notation>>)
        BY Tuples
  <2>5. Writes(e, b)
        BY <2>3, <2>4, RawStrWrites
  <2> HIDE DEF b
  <2>6. Writes(o, b)
        BY <2>2, <2>5, WritesOn
  <2>7. Moves(v, x) /\ Good(x)
        BY <2>1, <2>6, DeclarationMoves
  <2> HIDE DEF x
  <2> QED BY <1>1, <1>3, <2>7
<1> QED BY <1>2, <1>3

-----------------------------------------------------------------------------
(* Elements and namespace declarations                                     *)

\* A stack whose top is removed.
LEMMA FrontIs ==
    ASSUME NEW s, IsSomeSeq(s), Len(s) > 0
    PROVE  /\ IsSomeSeq(Front(s)) /\ Len(Front(s)) = Len(s) - 1
           /\ \A i \in 1 .. Len(s) - 1 : Front(s)[i] = s[i]
<1>1. PICK S : s \in Seq(S)
      BY DEF IsSomeSeq
<1>2. Len(s) \in Nat /\ \A i \in 1 .. Len(s) : s[i] \in S
      BY ONLY <1>1
<1>3. Front(s) = SubSeq(s, 1, Len(s) - 1)
      BY DEF Front
<1> DEFINE n == Len(s) - 1
<1>4. n \in Nat /\ \A i \in 1 .. n : s[i] \in S
      BY <1>2
<1>5. Front(s) = SubSeq(s, 1, n)
      BY <1>3
<1> HIDE DEF n
<1>6. /\ SubSeq(s, 1, n) \in Seq(S)
      /\ Len(SubSeq(s, 1, n)) = IF 1 <= n THEN n - 1 + 1 ELSE 0
      /\ \A i \in 1 .. n - 1 + 1 : SubSeq(s, 1, n)[i] = s[1 + i - 1]
      BY <1>4, SubSeqProperties
<1> DEFINE t == SubSeq(s, 1, n)
<1> HIDE DEF t
<1>7. /\ t \in Seq(S) /\ Len(t) = IF 1 <= n THEN n - 1 + 1 ELSE 0
      /\ \A i \in 1 .. n - 1 + 1 : t[i] = s[1 + i - 1]
      BY <1>6 DEF t
<1>8. Len(t) = n /\ \A i \in 1 .. n : t[i] = s[i]
      BY ONLY <1>4, <1>7
<1>9. Front(s) = t /\ IsSomeSeq(t)
      BY <1>5, <1>7 DEF t, IsSomeSeq
<1> QED BY <1>8, <1>9 DEF n

\* A stack to which something is added.
LEMMA AppendIs ==
    ASSUME NEW s, IsSomeSeq(s), NEW a
    PROVE  /\ IsSomeSeq(Append(s, a)) /\ Len(Append(s, a)) = Len(s) + 1
           /\ Append(s, a)[Len(s) + 1] = a
           /\ \A i \in 1 .. Len(s) : Append(s, a)[i] = s[i]
<1>1. PICK S : s \in Seq(S)
      BY DEF IsSomeSeq
<1>2. s \in Seq(S \cup {a})
      BY <1>1
<1>3. Append(s, a) \in Seq(S \cup {a})
      BY <1>2
<1> QED BY <1>2, <1>3 DEF IsSomeSeq

\* The same output in another state.
LEMMA OutputSame ==
    ASSUME NEW u, NEW v, IsWriter(u), DOMAIN v = Fields,
           v.buffer = u.buffer, v.pendingBom = u.pendingBom,
           v.charset = u.charset, v.sink = u.sink
    PROVE  IsWriter(v) /\ Output(u, v)
<1>1. IsWriter(v)
      BY DEF IsWriter
<1>2. Continues(u.buffer, v.buffer)
      BY ContinuesConcat DEF IsWriter
<1> QED BY <1>1, <1>2 DEF Output

\* write_start_element: a start tag is opened, and a scope without bindings.
LEMMA StartElementWrites ==
    ASSUME NEW v, NEW qName, Good(v), IsSomeSeq(qName)
    PROVE  LET x == OpenStartTag(v, qName) IN
           /\ Output(v, x) /\ Good(x)
           /\ x.namespaceStack = Append(v.namespaceStack, <<>>)
<1> DEFINE c == ClosePendingStartTag(v, FALSE)
           d == Indented(c)
           s == <<"<">> \o qName
           o == WriteRawStr(d, s)
           x == [o EXCEPT !.namespaceStack = Append(@, <<>>),
                          !.elementStack = Append(@, qName),
                          !.pendingStartTag = TRUE,
                          !.hasContent = FALSE,
                          !.hasNestedElements = FALSE]
<1>1. OpenStartTag(v, qName) = x
      BY DEF OpenStartTag
<1>2. IsSomeSeq(s)
      BY Tuples, ConcatIs
<1> HIDE DEF s
<1>3. IsWriter(v) /\ Moves(v, c) /\ IsWriter(c) /\ (c.pendingBom => c.atDocumentStart)
      BY GoodParts, CloseMoves
<1>4. IsSomeSeq(c.elementStack)
      BY <1>3, GoodParts DEF Moves, Stacks
<1> HIDE DEF c
<1>5. Moves(c, d)
      BY <1>3, <1>4, IndentedMoves
<1>6. Moves(v, d)
      BY <1>3, <1>5, MovesOn
<1> HIDE DEF d
<1>7. Moves(v, o) /\ ~o.pendingBom /\ IsWriter(o)
      BY <1>2, <1>3, <1>6, RawStrMoves
<1> HIDE DEF o
<1>8. Good(o)
      BY <1>7, MovesGoodBomless
<1>9. /\ DOMAIN x = Fields /\ x.buffer = o.buffer /\ x.pendingBom = o.pendingBom
      /\ x.charset = o.charset /\ x.sink = o.sink
      /\ x.namespaceStack = Append(o.namespaceStack, <<>>)
      /\ x.elementStack = Append(o.elementStack, qName)
      /\ ~x.hasContent
      /\ x.dtdInternalSubsetOpen = o.dtdInternalSubsetOpen /\ x.inDtd = o.inDtd
      BY <1>7 DEF IsWriter, Fields
<1> HIDE DEF x
<1>10. IsWriter(x) /\ Output(o, x)
      BY <1>7, <1>9, OutputSame
<1>11. Output(v, x)
      BY <1>3, <1>7, <1>10, OutputOn DEF Moves
<1>12. x.namespaceStack = Append(v.namespaceStack, <<>>)
      BY <1>7, <1>9 DEF Moves, Stacks
<1>13. Good(x)
  <2>1. BomFirst(x)
        BY <1>7, <1>8, <1>10, BomStaysFirst DEF Good
  <2>2. /\ IsSomeSeq(x.elementStack) /\ IsSomeSeq(x.namespaceStack)
        /\ Len(x.elementStack) = Len(o.elementStack) + 1
        /\ Len(x.namespaceStack) = Len(o.namespaceStack) + 1
        /\ Len(o.elementStack) \in Nat
    <3>1. IsSomeSeq(o.elementStack) /\ IsSomeSeq(o.namespaceStack)
          BY <1>8 DEF Good
    <3>2. Len(o.elementStack) \in Nat
          BY <3>1 DEF IsSomeSeq
    <3> QED BY <1>9, <3>1, <3>2, AppendIs
  <2>3. \A i \in 1 .. Len(x.elementStack) : IsSomeSeq(x.elementStack[i])
    <3>1. SUFFICES ASSUME NEW i \in 1 .. Len(x.elementStack)
                   PROVE  IsSomeSeq(x.elementStack[i])
          OBVIOUS
    <3>2. CASE i = Len(o.elementStack) + 1
      <4>1. x.elementStack[i] = qName
            BY <3>2, <1>8, <1>9, AppendIs DEF Good
      <4> QED BY <4>1
    <3>3. CASE i \in 1 .. Len(o.elementStack)
      <4>1. x.elementStack[i] = o.elementStack[i]
            BY <3>3, <1>8, <1>9, AppendIs DEF Good
      <4> QED BY <4>1, <3>3, <1>8 DEF Good
    <3> QED BY <2>2, <3>2, <3>3
  <2>4. IsSomeSeq(x.sink) /\ ~x.pendingBom /\ (x.dtdInternalSubsetOpen => x.inDtd)
        BY <1>7, <1>8, <1>9 DEF Good
  <2>5. Len(x.elementStack) > 0 /\ Len(x.namespaceStack) = Len(x.elementStack) + 1
        BY <2>2, <1>8 DEF Good
  <2> QED BY <2>1, <2>2, <2>3, <2>4, <2>5, <1>9, <1>10 DEF Good
<1> QED BY <1>1, <1>11, <1>12, <1>13

\* write_end_element: the element and its scope end, in an empty-element tag or
\* in an end tag.
LEMMA EndElementWrites ==
    ASSUME NEW v, Good(v), Len(v.elementStack) > 0
    PROVE  LET x == WriteEndElement(v) IN
           /\ Output(v, x) /\ Good(x)
           /\ x.namespaceStack = Front(v.namespaceStack)
<1> DEFINE n == Len(v.elementStack)
           qName == v.elementStack[n]
           p == [v EXCEPT !.elementStack = Front(@), !.namespaceStack = Front(@)]
           c == ClosePendingStartTag(p, FALSE)
           d == IF v.indent /\ v.hasNestedElements THEN WriteIndent(c) ELSE c
           s == <<"</">> \o qName \o <<">">>
           e == IF v.pendingStartTag /\ ~v.hasContent
                THEN [WriteRawStr(p, <<"/>">>) EXCEPT !.pendingStartTag = FALSE]
                ELSE WriteRawStr(d, s)
           x == [e EXCEPT !.hasContent = TRUE, !.hasNestedElements = TRUE]
<1>1. WriteEndElement(v) = x
      BY DEF WriteEndElement
<1>2. IsWriter(v) /\ ~v.pendingBom /\ n \in Nat
      BY GoodParts DEF IsSomeSeq
<1>3. /\ IsSomeSeq(Front(v.elementStack)) /\ IsSomeSeq(Front(v.namespaceStack))
      /\ Len(Front(v.elementStack)) = n - 1 /\ Len(Front(v.namespaceStack)) = n
      /\ \A i \in 1 .. n - 1 : IsSomeSeq(Front(v.elementStack)[i])
  <2>1. IsSomeSeq(v.elementStack) /\ IsSomeSeq(v.namespaceStack) /\ Len(v.namespaceStack) = n + 1
        /\ \A i \in 1 .. n : IsSomeSeq(v.elementStack[i])
        BY DEF Good
  <2>2. /\ IsSomeSeq(Front(v.elementStack)) /\ Len(Front(v.elementStack)) = n - 1
        /\ \A i \in 1 .. n - 1 : Front(v.elementStack)[i] = v.elementStack[i]
        BY <2>1, FrontIs
  <2>3. IsSomeSeq(Front(v.namespaceStack)) /\ Len(Front(v.namespaceStack)) = n
        BY <2>1, <1>2, FrontIs
  <2> QED BY <2>1, <2>2, <2>3, <1>2
<1>4. IsSomeSeq(s) /\ IsSomeSeq(<<"/>">>)
  <2>1. IsSomeSeq(qName) /\ IsSomeSeq(<<"</">>) /\ IsSomeSeq(<<">">>) /\ IsSomeSeq(<<"/>">>)
        BY Tuples, <1>2 DEF Good
  <2> HIDE DEF qName
  <2>2. IsSomeSeq(<<"</">> \o qName)
        BY <2>1, ConcatIs
  <2> QED BY <2>1, <2>2, ConcatIs
<1>5. /\ DOMAIN p = Fields /\ p.buffer = v.buffer /\ p.pendingBom = v.pendingBom
      /\ p.charset = v.charset /\ p.sink = v.sink
      /\ p.elementStack = Front(v.elementStack)
      /\ p.namespaceStack = Front(v.namespaceStack)
      /\ p.pendingStartTag = v.pendingStartTag
      /\ p.inDtd = v.inDtd /\ p.dtdInternalSubsetOpen = v.dtdInternalSubsetOpen
      BY <1>2 DEF IsWriter, Fields
<1> HIDE DEF p, s, n, qName
<1>6. IsWriter(p) /\ Output(v, p) /\ ~p.pendingBom
      BY <1>2, <1>5, OutputSame
<1>7. Moves(p, e) /\ IsWriter(e) /\ ~e.pendingBom /\ ~e.pendingStartTag
  <2>1. CASE v.pendingStartTag
    <3> DEFINE r == WriteRawStr(p, <<"/>">>)
    <3>1. e = [r EXCEPT !.pendingStartTag = FALSE]
          BY <2>1 DEF Good
    <3>2. Writes(p, r) /\ ~r.pendingBom
          BY <1>4, <1>6, RawStrWrites
    <3>3. Moves(p, r) /\ IsWriter(r)
          BY <3>2, WritesMoves
    <3> HIDE DEF r, e
    <3>4. /\ DOMAIN e = Fields /\ e.buffer = r.buffer /\ e.pendingBom = r.pendingBom
          /\ e.charset = r.charset /\ e.sink = r.sink /\ Stacks(r, e) /\ Flags(r, e)
          /\ ~e.pendingStartTag
          BY <3>1, <3>3 DEF IsWriter, Fields, Stacks, Flags
    <3>5. Moves(r, e)
          BY <3>3, <3>4, FlagsMove
    <3>6. Moves(p, e)
          BY <1>6, <3>3, <3>5, MovesOn
    <3> QED BY <3>2, <3>4, <3>5, <3>6 DEF Moves
  <2>2. CASE ~v.pendingStartTag
    <3>1. Moves(p, c) /\ IsWriter(c) /\ ~c.pendingBom /\ ~c.pendingStartTag
          BY <1>6, CloseMoves
    <3>2. IsSomeSeq(c.elementStack)
          BY <3>1, <1>3, <1>5 DEF Moves, Stacks
    <3>3. e = WriteRawStr(d, s)
          BY <2>2
    <3> HIDE DEF c, e
    <3>4. Writes(c, d)
          BY <3>1, <3>2, IndentWrites, OutputNothing
    <3> HIDE DEF d
    <3>5. Moves(p, d) /\ IsWriter(d)
          BY <1>6, <3>1, <3>4, WritesAfter
    <3>6. Moves(p, e) /\ IsWriter(e) /\ ~e.pendingBom
          BY <1>4, <1>6, <3>3, <3>5, RawStrMoves
    <3>7. ~p.pendingStartTag
          BY <2>2, <1>5
    <3> QED BY <3>6, <3>7 DEF Moves, Flags
  <2> QED BY <2>1, <2>2
<1> HIDE DEF e
<1>8. /\ DOMAIN x = Fields /\ x.buffer = e.buffer /\ x.pendingBom = e.pendingBom
      /\ x.charset = e.charset /\ x.sink = e.sink
      /\ x.namespaceStack = e.namespaceStack /\ x.elementStack = e.elementStack
      /\ ~x.pendingStartTag
      /\ x.dtdInternalSubsetOpen = e.dtdInternalSubsetOpen /\ x.inDtd = e.inDtd
      BY <1>7 DEF IsWriter, Fields
<1> HIDE DEF x
<1>9. IsWriter(x) /\ Output(e, x)
      BY <1>7, <1>8, OutputSame
<1>10. Output(v, e)
      BY <1>2, <1>6, <1>7, OutputOn DEF Moves
<1>11. Output(v, x)
      BY <1>2, <1>7, <1>9, <1>10, OutputOn
<1>12. x.elementStack = Front(v.elementStack) /\ x.namespaceStack = Front(v.namespaceStack)
      BY <1>5, <1>7, <1>8 DEF Moves, Stacks
<1>13. BomFirst(x)
      BY <1>2, <1>9, <1>11, BomStaysFirst DEF Good
<1>14. x.dtdInternalSubsetOpen => x.inDtd
      BY <1>5, <1>7, <1>8 DEF Moves, Flags, Good
<1>15. x.sink = v.sink /\ IsSomeSeq(v.sink)
      BY <1>11 DEF Output, Good
<1>16. Len(x.elementStack) = n - 1 /\ Len(x.namespaceStack) = n
      BY <1>3, <1>12
<1>17. /\ IsSomeSeq(x.elementStack) /\ IsSomeSeq(x.namespaceStack)
       /\ Len(x.namespaceStack) = Len(x.elementStack) + 1
       /\ \A i \in 1 .. Len(x.elementStack) : IsSomeSeq(x.elementStack[i])
      BY <1>2, <1>3, <1>12, <1>16
<1>18. Good(x)
      BY <1>7, <1>8, <1>9, <1>13, <1>14, <1>15, <1>17 DEF Good
<1> QED BY <1>1, <1>11, <1>12, <1>18

\* A binding that enters the innermost scope.
LEMMA BindIs ==
    ASSUME NEW s, IsSomeSeq(s), Len(s) > 0, NEW prefix, NEW uri
    PROVE  LET t == Bind(s, prefix, uri) IN
           /\ IsSomeSeq(t) /\ Len(t) = Len(s)
           /\ \A i \in 1 .. Len(s) - 1 : t[i] = s[i]
           /\ DOMAIN t[Len(s)] = DOMAIN s[Len(s)] \cup {prefix}
           /\ t[Len(s)][prefix] = uri
           /\ \A p \in DOMAIN s[Len(s)] : p # prefix => t[Len(s)][p] = s[Len(s)][p]
<1> DEFINE top == s[Len(s)]
           new == [p \in DOMAIN top \cup {prefix} |-> IF p = prefix THEN uri ELSE top[p]]
           t == Bind(s, prefix, uri)
<1>1. t = [s EXCEPT ![Len(s)] = new]
      BY DEF Bind
<1>2. /\ DOMAIN new = DOMAIN top \cup {prefix} /\ new[prefix] = uri
      /\ \A p \in DOMAIN top : p # prefix => new[p] = top[p]
      OBVIOUS
<1>3. PICK S : s \in Seq(S)
      BY DEF IsSomeSeq
<1> HIDE DEF new, t
<1>4. s \in Seq(S \cup {new}) /\ Len(s) \in Nat
      BY <1>3
<1>5. t \in Seq(S \cup {new}) /\ Len(t) = Len(s)
      BY <1>1, <1>4
<1>6. t[Len(s)] = new /\ \A i \in 1 .. Len(s) - 1 : t[i] = s[i]
      BY <1>1, <1>4
<1> QED BY <1>2, <1>5, <1>6 DEF t, IsSomeSeq

\* write_namespace: the scope learns the binding, the output only a new one.
LEMMA NamespaceWrites ==
    ASSUME NEW v, NEW prefix, NEW uri, Good(v)
    PROVE  LET x == WriteNamespace(v, prefix, uri) IN
           /\ Output(v, x) /\ Good(x)
           /\ x.namespaceStack = Bind(v.namespaceStack, prefix, uri)
<1> DEFINE d == WriteNamespaceDeclaration(v, prefix, uri)
           x == [d EXCEPT !.namespaceStack = Bind(@, prefix, uri)]
<1>1. WriteNamespace(v, prefix, uri) = x
      BY DEF WriteNamespace
<1>2. IsWriter(v)
      BY GoodParts
<1>3. Writes(v, d)
  <2>1. CASE Redundant(v, prefix, uri)
        BY <2>1, <1>2, OutputNothing DEF WriteNamespaceDeclaration
  <2>2. CASE ~Redundant(v, prefix, uri)
    <3> DEFINE m == IF prefix = None THEN <<"xmlns">> ELSE <<"xmlns", ":", prefix>>
               s == <<" ">> \o m \o <<"=\"">>
               t == IF uri = None THEN <<>> ELSE <<uri>>
               a == WriteRawStr(v, s)
               b == WriteEscapedNamespaceUri(a, t)
    <3>1. d = WriteRawStr(b, <<"\"">>)
          BY <2>2 DEF WriteNamespaceDeclaration
    <3>2. IsSomeSeq(m) /\ IsSomeSeq(t) /\ IsSomeSeq(<<" ">>) /\ IsSomeSeq(<<"=\"">>) /\ IsSomeSeq(<<"\"">>)
          BY Tuples
    <3> HIDE DEF m, t, d
    <3>3. IsSomeSeq(<<" ">> \o m)
          BY <3>2, ConcatIs
    <3>4. IsSomeSeq(s)
          BY <3>2, <3>3, ConcatIs
    <3> HIDE DEF s
    <3>5. Writes(v, a) /\ ~a.pendingBom
          BY <1>2, <3>4, RawStrWrites
    <3> HIDE DEF a
    <3>6. IsWriter(a)
          BY <3>5 DEF Writes
    <3>7. Writes(a, b)
          BY <3>2, <3>5, <3>6, EscapesWrite
    <3> HIDE DEF b
    <3>8. IsWriter(b)
          BY <3>7 DEF Writes
    <3>9. Writes(b, d)
          BY <3>1, <3>2, <3>8, RawStrWrites
    <3>10. Writes(v, b)
          BY <1>2, <3>5, <3>7, WritesOn
    <3> QED BY <1>2, <3>9, <3>10, WritesOn
  <2> QED BY <2>1, <2>2
<1> HIDE DEF d
<1>4. /\ IsWriter(d) /\ Moves(v, d) /\ d.atDocumentStart = v.atDocumentStart
      /\ Output(v, d)
      BY <1>3, WritesMoves DEF Writes
<1>5. Good(d)
      BY <1>4, MovesKeepGood
<1>6. /\ DOMAIN x = Fields /\ x.buffer = d.buffer /\ x.pendingBom = d.pendingBom
      /\ x.charset = d.charset /\ x.sink = d.sink
      /\ x.namespaceStack = Bind(d.namespaceStack, prefix, uri)
      /\ x.elementStack = d.elementStack
      /\ x.pendingStartTag = d.pendingStartTag /\ x.hasContent = d.hasContent
      /\ x.atDocumentStart = d.atDocumentStart
      /\ x.dtdInternalSubsetOpen = d.dtdInternalSubsetOpen /\ x.inDtd = d.inDtd
      BY <1>4 DEF IsWriter, Fields
<1> HIDE DEF x
<1>7. IsWriter(x) /\ Output(d, x)
      BY <1>4, <1>6, OutputSame
<1>8. Output(v, x)
      BY <1>2, <1>4, <1>7, OutputOn
<1>9. d.namespaceStack = v.namespaceStack
      BY <1>4 DEF Moves, Stacks
<1>10. BomFirst(x)
      BY <1>4, <1>5, <1>7, BomStaysFirst DEF Good
<1>11. IsSomeSeq(x.namespaceStack) /\ Len(x.namespaceStack) = Len(d.namespaceStack)
  <2>1. IsSomeSeq(d.namespaceStack) /\ Len(d.namespaceStack) > 0
        BY <1>5 DEF Good, IsSomeSeq
  <2> QED BY <2>1, <1>6, BindIs
<1>12. Good(x)
      BY <1>5, <1>6, <1>7, <1>10, <1>11 DEF Good
<1> QED BY <1>1, <1>6, <1>8, <1>9, <1>12

-----------------------------------------------------------------------------
(* The sink                                                                *)

\* What a call may leave of the writer v.
Sent(v, x) == x = v \/ \E outcome \in Outcomes : x = Send(v, outcome)

\* The sink and the buffer change hands, and nothing else.
LEMMA SendIs ==
    ASSUME NEW v, NEW outcome, Good(v),
           outcome \in {"taken", "refused", "cut"}
    PROVE  LET x == Send(v, outcome) IN
           /\ DOMAIN x = Fields /\ Frame(v, x) /\ x.pendingBom = v.pendingBom
           /\ \/ x.sink = v.sink \o v.buffer /\ x.buffer = <<>>
              \/ x = v
              \/ /\ outcome = "cut" /\ Len(v.buffer) > 0
                 /\ x.sink = v.sink \o Front(v.buffer) /\ x.buffer = v.buffer
<1> DEFINE x == Send(v, outcome)
<1>1. DOMAIN v = Fields /\ IsSomeSeq(v.buffer)
      BY DEF Good, IsWriter
<1>2. v.buffer # <<>> => Len(v.buffer) > 0
  <2>1. PICK S : v.buffer \in Seq(S)
        BY <1>1 DEF IsSomeSeq
  <2>2. Len(v.buffer) \in Nat
        BY <2>1
  <2>3. v.buffer = <<>> <=> Len(v.buffer) = 0
        BY <2>1, EmptySeq
  <2> QED BY <2>2, <2>3
<1>3. CASE outcome = "taken" \/ v.buffer = <<>>
  <2>1. x = [v EXCEPT !.sink = @ \o v.buffer, !.buffer = <<>>]
        BY <1>3 DEF Send
  <2> HIDE DEF x
  <2> QED BY <1>1, <2>1 DEF Fields, Frame, x
<1>4. CASE outcome = "refused" /\ v.buffer # <<>>
  <2>1. x = v
        BY <1>4 DEF Send
  <2> QED BY <1>1, <2>1 DEF Frame
<1>5. CASE outcome = "cut" /\ v.buffer # <<>>
  <2>1. x = [v EXCEPT !.sink = @ \o Front(v.buffer)]
        BY <1>5 DEF Send
  <2> HIDE DEF x
  <2> QED BY <1>1, <1>2, <1>5, <2>1 DEF Fields, Frame, x
<1> QED BY <1>3, <1>4, <1>5

\* c is s and then t.
Joined(s, t, c) ==
    /\ IsSomeSeq(c) /\ Len(c) = Len(s) + Len(t)
    /\ \A i \in 1 .. Len(s) : c[i] = s[i]
    /\ \A i \in 1 .. Len(t) : c[Len(s) + i] = t[i]

\* One sequence after another, as Joined says it.
LEMMA JoinedIs ==
    ASSUME NEW s, NEW t, IsSomeSeq(s), IsSomeSeq(t)
    PROVE  Joined(s, t, s \o t)
<1>1. PICK S : s \in Seq(S)
      BY DEF IsSomeSeq
<1>2. PICK T : t \in Seq(T)
      BY DEF IsSomeSeq
<1>3. s \in Seq(S \cup T) /\ t \in Seq(S \cup T)
      BY <1>1, <1>2
<1> QED BY <1>3 DEF IsSomeSeq, Joined

\* The mark stays first when what follows the sink changes hands.
LEMMA BomFirstJoined ==
    ASSUME NEW s, NEW b, NEW c, Joined(s, b, c), IsSomeSeq(s), IsSomeSeq(b),
           IF Len(s) > 0 THEN s[1] = "BOM" ELSE Len(b) > 0 /\ b[1] = "BOM"
    PROVE  Len(c) > 0 /\ c[1] = "BOM"
<1>1. Len(s) \in Nat /\ Len(b) \in Nat
      BY DEF IsSomeSeq
<1>2. /\ Len(c) = Len(s) + Len(b)
      /\ \A i \in 1 .. Len(s) : c[i] = s[i]
      /\ \A i \in 1 .. Len(b) : c[Len(s) + i] = b[i]
      BY DEF Joined
<1>3. CASE Len(s) > 0
      BY ONLY <1>1, <1>2, <1>3, IF Len(s) > 0 THEN s[1] = "BOM" ELSE Len(b) > 0 /\ b[1] = "BOM"
<1>4. CASE Len(s) = 0
  <2>1. Len(b) > 0 /\ b[1] = "BOM"
        BY <1>4
  <2>2. c[Len(s) + 1] = b[1]
        BY ONLY <1>1, <1>2, <2>1
  <2> QED BY ONLY <1>1, <1>2, <1>4, <2>1, <2>2
<1> QED BY <1>1, <1>3, <1>4

\* Whatever the sink does, what is known of the writer remains; a sink that
\* takes all or nothing leaves what has been written.
LEMMA SentIs ==
    ASSUME NEW v, NEW x, Good(v), Sent(v, x)
    PROVE  /\ Good(x) /\ x.namespaceStack = v.namespaceStack
           /\ x.charset = v.charset
           /\ ("cut" \notin Outcomes => Written(x) = Written(v))
<1>1. CASE x = v
      BY <1>1
<1>2. CASE x # v
  <2>1. PICK outcome \in Outcomes : x = Send(v, outcome)
        BY <1>2 DEF Sent
  <2>2. outcome \in {"taken", "refused", "cut"}
        BY ConstantsAssumption DEF ConstantsAssumption
  <2>3. /\ DOMAIN x = Fields /\ Frame(v, x) /\ x.pendingBom = v.pendingBom
        /\ \/ x.sink = v.sink \o v.buffer /\ x.buffer = <<>>
           \/ /\ outcome = "cut" /\ Len(v.buffer) > 0
              /\ x.sink = v.sink \o Front(v.buffer) /\ x.buffer = v.buffer
        BY <1>2, <2>1, <2>2, SendIs
  <2>4. /\ IsSomeSeq(v.sink) /\ IsSomeSeq(v.buffer) /\ v.pendingBom \in BOOLEAN
        /\ Len(v.sink) \in Nat /\ Len(v.buffer) \in Nat
        BY DEF Good, IsWriter, IsSomeSeq
  <2>5. ASSUME IsWriter(x), IsSomeSeq(x.sink), BomFirst(x)
        PROVE  Good(x)
        BY <2>3, <2>5 DEF Good, Frame
  <2>6. BomFirst(v)
        BY DEF Good
  <2>7. CASE x.sink = v.sink \o v.buffer /\ x.buffer = <<>>
    <3>1. Joined(v.sink, v.buffer, x.sink)
          BY <2>4, <2>7, JoinedIs
    <3>2. IsSomeSeq(x.buffer) /\ Len(x.buffer) = 0
          BY <2>7, Tuples
    <3>3. x.charset = v.charset
          BY <2>3 DEF Frame
    <3>4. BomFirst(x)
      <4>1. CASE v.pendingBom
        <5>1. Len(v.sink) = 0 /\ Len(v.buffer) = 0 /\ v.charset \in Bom
              BY <4>1, <2>6 DEF BomFirst
        <5>2. Len(x.sink) = 0
              BY <5>1, <3>1 DEF Joined
        <5> QED BY <4>1, <2>3, <3>2, <3>3, <5>1, <5>2 DEF BomFirst
      <4>2. CASE ~v.pendingBom /\ v.charset \in Bom
        <5>1. IF Len(v.sink) > 0 THEN v.sink[1] = "BOM"
              ELSE Len(v.buffer) > 0 /\ v.buffer[1] = "BOM"
              BY <4>2, <2>6 DEF BomFirst
        <5>2. Len(x.sink) > 0 /\ x.sink[1] = "BOM"
              BY <5>1, <2>4, <3>1, BomFirstJoined
        <5> QED BY <5>2, <4>2, <2>3, <3>3 DEF BomFirst
      <4>3. CASE ~v.pendingBom /\ v.charset \notin Bom
            BY <4>3, <2>3, <3>3 DEF BomFirst
      <4> QED BY <4>1, <4>2, <4>3
    <3>5. IsWriter(x)
          BY <2>3, <2>4, <3>2 DEF IsWriter
    <3>6. Good(x)
          BY <2>5, <3>1, <3>4, <3>5 DEF Joined
    <3>7. Written(x) = Written(v)
      <4>1. PICK S : x.sink \in Seq(S)
            BY <3>1 DEF IsSomeSeq, Joined
      <4>2. x.sink \o <<>> = x.sink
            BY <4>1
      <4> QED BY <4>2, <2>7 DEF Written
    <3> QED BY <2>3, <3>6, <3>7 DEF Frame
  <2>8. CASE /\ outcome = "cut" /\ Len(v.buffer) > 0
             /\ x.sink = v.sink \o Front(v.buffer) /\ x.buffer = v.buffer
    <3> DEFINE f == Front(v.buffer)
    <3>0. /\ IsSomeSeq(f) /\ Len(f) = Len(v.buffer) - 1
          /\ \A i \in 1 .. Len(v.buffer) - 1 : f[i] = v.buffer[i]
          BY <2>4, <2>8, FrontIs
    <3> HIDE DEF f
    <3>1. Joined(v.sink, f, x.sink)
          BY <2>4, <2>8, <3>0, JoinedIs DEF f
    <3>3. x.charset = v.charset
          BY <2>3 DEF Frame
    <3>4. BomFirst(x)
      <4>1. CASE v.pendingBom
            BY <4>1, <2>6, <2>8 DEF BomFirst
      <4>2. CASE ~v.pendingBom /\ v.charset \in Bom
        <5>1. IF Len(v.sink) > 0 THEN v.sink[1] = "BOM"
              ELSE Len(v.buffer) > 0 /\ v.buffer[1] = "BOM"
              BY <4>2, <2>6 DEF BomFirst
        <5>2. IF Len(x.sink) > 0 THEN x.sink[1] = "BOM"
              ELSE Len(v.buffer) > 0 /\ v.buffer[1] = "BOM"
          <6>1. CASE Len(v.sink) = 0 /\ Len(f) = 0
            <7>1. Len(x.sink) = 0
                  BY <6>1, <3>1 DEF Joined
            <7> QED BY <5>1, <6>1, <7>1
          <6>2. CASE Len(v.sink) > 0
            <7>1. Len(x.sink) > 0 /\ x.sink[1] = "BOM"
                  BY <5>1, <6>2, <2>4, <3>0, <3>1, BomFirstJoined
            <7> QED BY <7>1
          <6>3. CASE Len(v.sink) = 0 /\ Len(f) # 0
            <7>3. Len(v.buffer) > 0 /\ v.buffer[1] = "BOM"
                  BY <6>3, <5>1
            <7>4. Len(f) > 0 /\ 1 \in 1 .. Len(v.buffer) - 1
              <8>1. Len(v.buffer) \in Nat /\ Len(f) = Len(v.buffer) - 1
                    BY <2>4, <3>0
              <8>2. Len(v.buffer) > 0
                    BY <7>3
              <8>3. \A a \in Nat : a > 0 /\ a - 1 # 0 => a - 1 > 0 /\ 1 \in 1 .. a - 1
                    OBVIOUS
              <8> QED BY <8>1, <8>2, <8>3, <6>3
            <7>1. Len(f) > 0 /\ f[1] = v.buffer[1] /\ v.buffer[1] = "BOM"
                  BY <7>3, <7>4, <3>0
            <7>2. Len(x.sink) > 0 /\ x.sink[1] = "BOM"
                  BY <6>3, <7>1, <2>4, <3>0, <3>1, BomFirstJoined
            <7> QED BY <7>2
          <6> QED BY <6>1, <6>2, <6>3, <2>4
        <5> QED BY <5>2, <4>2, <2>3, <2>8, <3>3 DEF BomFirst
      <4>3. CASE ~v.pendingBom /\ v.charset \notin Bom
            BY <4>3, <2>3, <3>3 DEF BomFirst
      <4> QED BY <4>1, <4>2, <4>3
    <3>5. IsWriter(x)
          BY <2>3, <2>4, <2>8 DEF IsWriter
    <3>6. Good(x)
          BY <2>5, <3>1, <3>4, <3>5 DEF Joined
    <3>7. "cut" \in Outcomes
          BY <2>8
    <3> QED BY <2>3, <3>6, <3>7 DEF Frame
  <2> QED BY <2>3, <2>7, <2>8
<1> QED BY <1>1, <1>2

\* What has been written is continued by a call.
LEMMA WrittenOn ==
    ASSUME NEW u, NEW v, Good(u), Good(v), Output(u, v)
    PROVE  IsPrefix(Written(u), Written(v))
<1>1. /\ IsSomeSeq(u.sink) /\ IsSomeSeq(u.buffer) /\ IsSomeSeq(v.buffer) /\ v.sink = u.sink
      /\ Continues(u.buffer, v.buffer)
      BY DEF Good, IsWriter, Output
<1>2. Len(u.sink) \in Nat /\ Len(u.buffer) \in Nat /\ Len(v.buffer) \in Nat
      BY <1>1 DEF IsSomeSeq
<1> DEFINE s == Written(u)
           t == Written(v)
           n == Len(s)
           m == Len(u.sink)
<1>3. Joined(u.sink, u.buffer, s) /\ Joined(u.sink, v.buffer, t)
      BY <1>1, JoinedIs DEF Written
<1> HIDE DEF s, t
<1>9. n = m + Len(u.buffer) /\ Len(t) = m + Len(v.buffer)
      BY <1>3 DEF Joined
<1>4. /\ IsSomeSeq(s) /\ IsSomeSeq(t)
      /\ \A i \in 1 .. m : s[i] = u.sink[i] /\ t[i] = u.sink[i]
      /\ \A i \in 1 .. Len(u.buffer) : s[m + i] = u.buffer[i]
      /\ \A i \in 1 .. Len(v.buffer) : t[m + i] = v.buffer[i]
      BY <1>3 DEF Joined
<1>8. Len(u.buffer) <= Len(v.buffer) /\ \A i \in 1 .. Len(u.buffer) : v.buffer[i] = u.buffer[i]
      BY <1>1 DEF Continues
<1>10. Len(u.buffer) <= Len(v.buffer)
      BY <1>8
<1> HIDE DEF n, m
<1>11. m \in Nat
      BY <1>2 DEF m
<1>5. n <= Len(t) /\ n \in Nat /\ Len(t) \in Nat
      BY ONLY <1>2, <1>9, <1>10, <1>11
<1>6. \A i \in 1 .. n : t[i] = s[i]
  <2>1. SUFFICES ASSUME NEW i \in 1 .. n PROVE t[i] = s[i]
        OBVIOUS
  <2>2. CASE i <= m
    <3>1. i \in 1 .. m
          BY ONLY <1>5, <1>11, <2>1, <2>2, i \in 1 .. n
    <3> QED BY <3>1, <1>4
  <2>3. CASE ~(i <= m)
    <3> DEFINE j == i - m
    <3>1. j \in 1 .. Len(u.buffer) /\ j \in 1 .. Len(v.buffer) /\ i = m + j
          BY ONLY <1>2, <1>5, <1>9, <1>10, <1>11, <2>3, i \in 1 .. n
    <3> HIDE DEF j
    <3>2. s[m + j] = u.buffer[j] /\ t[m + j] = v.buffer[j] /\ v.buffer[j] = u.buffer[j]
          BY <3>1, <1>4, <1>8
    <3> QED BY <3>1, <3>2
  <2> QED BY <2>2, <2>3
<1>7. SubSeq(s, 1, n) = SubSeq(t, 1, n)
  <2>1. PICK S : s \in Seq(S)
        BY <1>4 DEF IsSomeSeq
  <2>2. \A i \in 1 .. n : s[i] \in S
        BY ONLY <2>1 DEF n
  <2>3. \A i \in 1 .. n : t[i] \in S
        BY <2>2, <1>6
  <2> HIDE DEF n
  <2>4. /\ SubSeq(s, 1, n) \in Seq(S)
        /\ Len(SubSeq(s, 1, n)) = IF 1 <= n THEN n - 1 + 1 ELSE 0
        /\ \A i \in 1 .. n - 1 + 1 : SubSeq(s, 1, n)[i] = s[1 + i - 1]
        BY <1>5, <2>2, SubSeqProperties
  <2>5. /\ SubSeq(t, 1, n) \in Seq(S)
        /\ Len(SubSeq(t, 1, n)) = IF 1 <= n THEN n - 1 + 1 ELSE 0
        /\ \A i \in 1 .. n - 1 + 1 : SubSeq(t, 1, n)[i] = t[1 + i - 1]
        BY <1>5, <2>3, SubSeqProperties
  <2> DEFINE a == SubSeq(s, 1, n)
             b == SubSeq(t, 1, n)
  <2>6. a \in Seq(S) /\ b \in Seq(S) /\ Len(a) = n /\ Len(b) = n
        BY <2>4, <2>5, <1>5
  <2>7. \A i \in 1 .. n : a[i] = s[i] /\ b[i] = t[i]
        BY <2>4, <2>5, <1>5
  <2>8. \A i \in 1 .. n : a[i] = b[i]
        BY <2>7, <1>6
  <2> HIDE DEF a, b
  <2>9. a = b
        BY <2>6, <2>8, SeqEqual
  <2> QED BY <2>9 DEF a, b
<1> QED BY <1>5, <1>7 DEF IsPrefix, s, t, n

-----------------------------------------------------------------------------
(* Bindings                                                                *)

\* A set of positions has a last one.
LEMMA LastOne ==
    ASSUME NEW k \in Nat, NEW S \in SUBSET (1 .. k), S # {}
    PROVE  \E i \in S : \A j \in S : j <= i
<1> DEFINE T == {k - i : i \in S}
<1>1. T \in SUBSET Nat /\ T # {}
  <2>1. PICK i \in S : TRUE
        OBVIOUS
  <2>2. k - i \in T
        OBVIOUS
  <2>3. \A j \in S : k - j \in Nat
        OBVIOUS
  <2> QED BY <2>2, <2>3
<1>2. \A i \in S : k - i \in T /\ i \in Int
      OBVIOUS
<1>3. \A t \in T : \E i \in S : t = k - i
      OBVIOUS
<1> HIDE DEF T
<1>4. \E m \in T : \A t \in T : m <= t
      BY <1>1, Least
<1>5. PICK m \in T : \A t \in T : m <= t
      BY <1>4
<1>6. PICK i \in S : m = k - i
      BY <1>3
<1>7. \A j \in S : k - i <= k - j
      BY <1>2, <1>5, <1>6
<1>8. \A j \in S : j <= i
      BY <1>2, <1>7
<1> QED BY <1>8

\* Two scopes say the same of a prefix.
Alike(a, b, prefix) ==
    /\ prefix \in DOMAIN a <=> prefix \in DOMAIN b
    /\ prefix \in DOMAIN a => a[prefix] = b[prefix]

\* Two stacks whose scopes agree about a prefix give it the same binding.
LEMMA BindingSame ==
    ASSUME NEW s, NEW t, NEW k \in Nat, NEW prefix,
           \A i \in 1 .. k : Alike(s[i], t[i], prefix)
    PROVE  Binding(s, k, prefix) = Binding(t, k, prefix)
<1> DEFINE b == {i \in 1 .. k : prefix \in DOMAIN s[i]}
           c == {i \in 1 .. k : prefix \in DOMAIN t[i]}
           last == CHOOSE i \in b : \A j \in b : j <= i
<1>1. b = c
      BY DEF Alike
<1>2. /\ Binding(s, k, prefix) = IF b = {} THEN "unbound"
                                 ELSE s[CHOOSE i \in b : \A j \in b : j <= i][prefix]
      /\ Binding(t, k, prefix) = IF c = {} THEN "unbound"
                                 ELSE t[CHOOSE i \in c : \A j \in c : j <= i][prefix]
      BY DEF Binding
<1>3. b \in SUBSET (1 .. k) /\ \A i \in b : s[i][prefix] = t[i][prefix]
      BY DEF Alike
<1> HIDE DEF b, c
<1>4. CASE b = {}
      BY <1>1, <1>2, <1>4
<1>5. CASE b # {}
  <2>1. \E i \in b : \A j \in b : j <= i
        BY <1>3, <1>5, LastOne
  <2>2. last \in b
        BY <2>1
  <2>3. /\ Binding(s, k, prefix) = s[last][prefix]
        /\ Binding(t, k, prefix) = t[last][prefix]
        BY <1>1, <1>2, <1>5
  <2> HIDE DEF last
  <2> QED BY <1>3, <2>2, <2>3
<1> QED BY <1>4, <1>5

\* A prefix the last scope binds has that binding.
LEMMA BindingTop ==
    ASSUME NEW s, NEW k \in Nat \ {0}, NEW prefix, prefix \in DOMAIN s[k]
    PROVE  Binding(s, k, prefix) = s[k][prefix]
<1> DEFINE b == {i \in 1 .. k : prefix \in DOMAIN s[i]}
           last == CHOOSE i \in b : \A j \in b : j <= i
<1>1. k \in b /\ \A j \in b : j <= k /\ j \in Int
      OBVIOUS
<1>2. Binding(s, k, prefix) = IF b = {} THEN "unbound" ELSE s[last][prefix]
      BY DEF Binding
<1> HIDE DEF b
<1>3. last \in b /\ \A j \in b : j <= last
      BY <1>1
<1> HIDE DEF last
<1>4. last = k
      BY <1>1, <1>3
<1> QED BY <1>1, <1>2, <1>4

\* A prefix the last scope does not bind has the binding of the scopes before.
LEMMA BindingUnder ==
    ASSUME NEW s, NEW k \in Nat \ {0}, NEW prefix, prefix \notin DOMAIN s[k]
    PROVE  Binding(s, k, prefix) = Binding(s, k - 1, prefix)
<1> DEFINE b == {i \in 1 .. k : prefix \in DOMAIN s[i]}
           c == {i \in 1 .. k - 1 : prefix \in DOMAIN s[i]}
<1>1. b = c
      OBVIOUS
<1>2. /\ Binding(s, k, prefix) = IF b = {} THEN "unbound"
                                 ELSE s[CHOOSE i \in b : \A j \in b : j <= i][prefix]
      /\ Binding(s, k - 1, prefix) = IF c = {} THEN "unbound"
                                     ELSE s[CHOOSE i \in c : \A j \in c : j <= i][prefix]
      BY DEF Binding
<1> HIDE DEF b, c
<1> QED BY <1>1, <1>2

\* In every open element the declarations written and the bindings recorded
\* give every prefix the same URI.
Agree(d, ns) ==
    \A k \in 1 .. Len(ns) : \A prefix :
        Meant(prefix, Binding(d, k, prefix)) = Meant(prefix, Binding(ns, k, prefix))

Matching(ns, d) == IsSomeSeq(d) /\ Len(d) = Len(ns) /\ Agree(d, ns)

\* A stack that begins as another one.
LEMMA BindingBelow ==
    ASSUME NEW s, NEW t, NEW k \in Nat, \A i \in 1 .. k : s[i] = t[i], NEW prefix
    PROVE  Binding(s, k, prefix) = Binding(t, k, prefix)
<1>1. \A i \in 1 .. k : Alike(s[i], t[i], prefix)
      BY DEF Alike
<1> QED BY <1>1, BindingSame

\* A new element has no bindings of its own.
LEMMA MatchingStart ==
    ASSUME NEW ns, NEW d, IsSomeSeq(ns), Matching(ns, d)
    PROVE  Matching(Append(ns, <<>>), Append(d, <<>>))
<1> DEFINE n == Len(ns)
           x == Append(ns, <<>>)
           y == Append(d, <<>>)
<1>1. IsSomeSeq(d) /\ Len(d) = n /\ n \in Nat
      BY DEF Matching, IsSomeSeq
<1>2. /\ Len(x) = n + 1 /\ x[n + 1] = <<>> /\ \A i \in 1 .. n : x[i] = ns[i]
      /\ Len(y) = n + 1 /\ y[n + 1] = <<>> /\ \A i \in 1 .. n : y[i] = d[i]
      /\ IsSomeSeq(y)
      BY <1>1, AppendIs
<1> HIDE DEF n, x, y
<1>3. ASSUME NEW k \in 1 .. n, NEW prefix
      PROVE  Meant(prefix, Binding(y, k, prefix)) = Meant(prefix, Binding(x, k, prefix))
  <2>1. k \in Nat /\ (\A i \in 1 .. k : x[i] = ns[i]) /\ (\A i \in 1 .. k : y[i] = d[i])
        BY <1>1, <1>2
  <2>2. Binding(x, k, prefix) = Binding(ns, k, prefix) /\ Binding(y, k, prefix) = Binding(d, k, prefix)
        BY <2>1, BindingBelow
  <2> QED BY <2>2 DEF Matching, Agree, n
<1>4. ASSUME NEW prefix
      PROVE  Meant(prefix, Binding(y, n + 1, prefix)) = Meant(prefix, Binding(x, n + 1, prefix))
  <2> DEFINE m == n + 1
  <2>1. m \in Nat \ {0} /\ m - 1 = n
        BY <1>1
  <2>2. prefix \notin DOMAIN x[m] /\ prefix \notin DOMAIN y[m]
        BY <1>2
  <2> HIDE DEF m
  <2>6. /\ Binding(x, m, prefix) = Binding(x, m - 1, prefix)
        /\ Binding(y, m, prefix) = Binding(y, m - 1, prefix)
        BY <2>1, <2>2, BindingUnder
  <2>3. Binding(x, n + 1, prefix) = Binding(x, n, prefix) /\ Binding(y, n + 1, prefix) = Binding(y, n, prefix)
        BY <2>1, <2>6 DEF m
  <2>4. CASE n = 0
    <3>1. Binding(x, n, prefix) = "unbound" /\ Binding(y, n, prefix) = "unbound"
          BY <2>4 DEF Binding
    <3> QED BY <2>3, <3>1
  <2>5. CASE n # 0
    <3>1. n \in 1 .. n
          BY <2>5, <1>1
    <3> QED BY <3>1, <2>3, <1>3
  <2> QED BY <2>4, <2>5
<1>5. \A k \in 1 .. n + 1 : k \in 1 .. n \/ k = n + 1
      BY <1>1
<1>6. Agree(y, x)
      BY <1>2, <1>3, <1>4, <1>5 DEF Agree
<1>7. Matching(x, y)
      BY <1>2, <1>6 DEF Matching
<1> QED BY <1>7 DEF x, y

\* The bindings of an element end with it.
LEMMA MatchingEnd ==
    ASSUME NEW ns, NEW d, IsSomeSeq(ns), Len(ns) > 0, Matching(ns, d)
    PROVE  Matching(Front(ns), Front(d))
<1> DEFINE n == Len(ns)
           x == Front(ns)
           y == Front(d)
<1>1. IsSomeSeq(d) /\ Len(d) = n /\ n \in Nat /\ n > 0
      BY DEF Matching, IsSomeSeq
<1>2. /\ Len(x) = n - 1 /\ \A i \in 1 .. n - 1 : x[i] = ns[i]
      /\ IsSomeSeq(y)
      /\ Len(y) = n - 1 /\ \A i \in 1 .. n - 1 : y[i] = d[i]
      BY <1>1, FrontIs
<1> HIDE DEF n, x, y
<1>3. ASSUME NEW k \in 1 .. n - 1, NEW prefix
      PROVE  Meant(prefix, Binding(y, k, prefix)) = Meant(prefix, Binding(x, k, prefix))
  <2>1. /\ k \in Nat /\ k \in 1 .. n
        /\ (\A i \in 1 .. k : x[i] = ns[i]) /\ (\A i \in 1 .. k : y[i] = d[i])
        BY <1>1, <1>2
  <2>2. Binding(x, k, prefix) = Binding(ns, k, prefix) /\ Binding(y, k, prefix) = Binding(d, k, prefix)
        BY <2>1, BindingBelow
  <2> QED BY <2>1, <2>2 DEF Matching, Agree, n
<1>6. Agree(y, x)
      BY <1>2, <1>3 DEF Agree
<1>7. Matching(x, y)
      BY <1>2, <1>6 DEF Matching
<1> QED BY <1>7 DEF x, y

\* A declaration that is left out says what is already so; one that is written
\* says it.
LEMMA MatchingBind ==
    ASSUME NEW ns, NEW d, IsSomeSeq(ns), Len(ns) > 0, Matching(ns, d),
           NEW prefix, NEW uri, NEW e,
           \/ e = Bind(d, prefix, uri)
           \/ /\ e = d
              /\ LET bound == Binding(ns, Len(ns), prefix)
                 IN  bound = uri \/ (prefix = None /\ uri = None /\ bound = "unbound")
    PROVE  Matching(Bind(ns, prefix, uri), e)
<1> DEFINE n == Len(ns)
           x == Bind(ns, prefix, uri)
<1>1. IsSomeSeq(d) /\ Len(d) = n /\ n \in Nat \ {0}
      BY DEF Matching, IsSomeSeq
<1>2. /\ Len(x) = n /\ \A i \in 1 .. n - 1 : x[i] = ns[i]
      /\ DOMAIN x[n] = DOMAIN ns[n] \cup {prefix} /\ x[n][prefix] = uri
      /\ \A p \in DOMAIN ns[n] : p # prefix => x[n][p] = ns[n][p]
      BY BindIs
<1>3. \/ /\ IsSomeSeq(e) /\ Len(e) = n /\ \A i \in 1 .. n - 1 : e[i] = d[i]
         /\ DOMAIN e[n] = DOMAIN d[n] \cup {prefix} /\ e[n][prefix] = uri
         /\ \A p \in DOMAIN d[n] : p # prefix => e[n][p] = d[n][p]
      \/ /\ e = d
         /\ \/ Binding(ns, n, prefix) = uri
            \/ prefix = None /\ uri = None /\ Binding(ns, n, prefix) = "unbound"
  <2>1. CASE e = Bind(d, prefix, uri)
        BY <2>1, <1>1, BindIs
  <2>2. CASE e # Bind(d, prefix, uri)
        BY <2>2
  <2> QED BY <2>1, <2>2
<1> HIDE DEF n, x
<1>4. /\ IsSomeSeq(e) /\ Len(e) = n /\ \A i \in 1 .. n - 1 : e[i] = d[i]
      /\ \A p : p # prefix =>
           /\ p \in DOMAIN e[n] <=> p \in DOMAIN d[n]
           /\ p \in DOMAIN e[n] => e[n][p] = d[n][p]
      BY <1>1, <1>3
<1>5. \A k \in 1 .. n : \A p :
        Meant(p, Binding(d, k, p)) = Meant(p, Binding(ns, k, p))
      BY DEF Matching, Agree, n
<1>6. ASSUME NEW k \in 1 .. n, NEW p, k # n \/ p # prefix
      PROVE  Binding(x, k, p) = Binding(ns, k, p) /\ Binding(e, k, p) = Binding(d, k, p)
  <2>1. k \in Nat
        OBVIOUS
  <2>2. \A i \in 1 .. k : i \in 1 .. n - 1 \/ (i = n /\ k = n)
        BY <1>1
  <2>3. ASSUME NEW i \in 1 .. k PROVE Alike(x[i], ns[i], p)
    <3>2. CASE i \in 1 .. n - 1
      <4>1. x[i] = ns[i]
            BY <3>2, <1>2
      <4> QED BY <4>1 DEF Alike
    <3>3. CASE i = n /\ p # prefix
          BY <3>3, <1>2 DEF Alike
    <3> QED BY <1>6, <2>2, <3>2, <3>3
  <2>4. ASSUME NEW i \in 1 .. k PROVE Alike(e[i], d[i], p)
    <3>2. CASE i \in 1 .. n - 1
      <4>1. e[i] = d[i]
            BY <3>2, <1>4
      <4> QED BY <4>1 DEF Alike
    <3>3. CASE i = n /\ p # prefix
          BY <3>3, <1>4 DEF Alike
    <3> QED BY <1>6, <2>2, <3>2, <3>3
  <2>5. Binding(x, k, p) = Binding(ns, k, p)
        BY <2>1, <2>3, BindingSame
  <2>6. Binding(e, k, p) = Binding(d, k, p)
        BY <2>1, <2>4, BindingSame
  <2> QED BY <2>5, <2>6
<1>7. Meant(prefix, Binding(e, n, prefix)) = Meant(prefix, Binding(x, n, prefix))
  <2>1. Binding(x, n, prefix) = uri
        BY <1>1, <1>2, BindingTop
  <2>2. CASE prefix \in DOMAIN e[n] /\ e[n][prefix] = uri
    <3>1. Binding(e, n, prefix) = uri
          BY <2>2, <1>1, BindingTop
    <3> QED BY <2>1, <3>1
  <2>3. CASE e = d /\ Binding(ns, n, prefix) = uri
    <3>1. n \in 1 .. n
          BY <1>1
    <3> QED BY <3>1, <2>1, <2>3, <1>5
  <2>4. CASE e = d /\ prefix = None /\ uri = None /\ Binding(ns, n, prefix) = "unbound"
    <3>1. n \in 1 .. n
          BY <1>1
    <3>2. Meant(prefix, Binding(e, n, prefix)) = Meant(prefix, Binding(ns, n, prefix))
          BY <3>1, <2>4, <1>5
    <3> QED BY <3>2, <2>1, <2>4 DEF Meant
  <2> QED BY <1>3, <2>2, <2>3, <2>4
<1>8. ASSUME NEW k \in 1 .. n, NEW p
      PROVE  Meant(p, Binding(e, k, p)) = Meant(p, Binding(x, k, p))
  <2>1. CASE k = n /\ p = prefix
        BY <2>1, <1>7
  <2>2. CASE k # n \/ p # prefix
        BY <2>2, <1>5, <1>6
  <2> QED BY <2>1, <2>2
<1>9. Agree(e, x)
      BY <1>2, <1>8 DEF Agree
<1>10. Matching(x, e)
      BY <1>2, <1>4, <1>9 DEF Matching
<1> QED BY <1>10 DEF x

-----------------------------------------------------------------------------
(* The writer                                                              *)

Results == {"ok", "InvalidInput", "sink"}

Inv ==
    /\ Good(w)
    /\ result \in Results
    /\ Matching(w.namespaceStack, declared)

\* A writer that has just been made.
LEMMA InvInit ==
    ASSUME Init
    PROVE  Inv
<1>1. PICK charset \in DOMAIN Unmappable, xml11 \in BOOLEAN, standalone \in BOOLEAN,
           indent \in BOOLEAN : w = NewWriter(charset, xml11, standalone, indent)
      BY DEF Init
<1>2. IsSomeSeq(<<>>) /\ Len(<<>>) = 0
      BY Tuples
<1>3. IsSomeSeq(<< <<>> >>) /\ Len(<< <<>> >>) = 1
      BY Tuples
<1>4. /\ DOMAIN w = Fields /\ w.buffer = <<>> /\ w.sink = <<>>
      /\ w.elementStack = <<>> /\ w.namespaceStack = << <<>> >>
      /\ w.pendingBom = (charset \in Bom) /\ w.charset = charset
      /\ w.pendingStartTag = FALSE /\ w.atDocumentStart = TRUE
      /\ w.dtdInternalSubsetOpen = FALSE
      BY <1>1 DEF NewWriter, Fields
<1>5. IsWriter(w)
      BY <1>2, <1>4 DEF IsWriter
<1>6. BomFirst(w)
      BY <1>2, <1>4 DEF BomFirst
<1>7. Good(w)
      BY <1>2, <1>3, <1>4, <1>5, <1>6 DEF Good
<1>8. declared = w.namespaceStack
      BY <1>4 DEF Init, NoBindings
<1>9. Matching(w.namespaceStack, declared)
      BY <1>3, <1>4, <1>8 DEF Matching, Agree
<1> QED BY <1>7, <1>9 DEF Inv, Init, Results

\* A call that returns makes of the writer u one, v, of which the sink may take
\* the buffer, and adds to what is declared what it writes.
Made(u, v, d) ==
    Output(u, v) /\ Good(v) /\ Matching(v.namespaceStack, d)

Ends(x, r) == \E v : Made(w, v, declared') /\ Sent(v, x) /\ r \in Results

\* The last step of a call.
LEMMA FinishIs ==
    ASSUME NEW v, Finish(v)
    PROVE  Sent(v, w') /\ result' \in Results
      BY DEF Finish, Sent, Results

\* A call that leaves the stacks alone.
LEMMA MovesMade ==
    ASSUME NEW u, NEW v, NEW d, Moves(u, v), Good(v), Matching(u.namespaceStack, d)
    PROVE  Made(u, v, d)
      BY DEF Moves, Stacks, Made

\* A call that leaves stacks and declarations alone.
LEMMA CallEnds ==
    ASSUME Inv, NEW v, Moves(w, v), Good(v), Call(Finish(v))
    PROVE  Ends(w', result')
<1>1. Finish(v) /\ declared' = declared
      BY DEF Call
<1>2. Sent(v, w') /\ result' \in Results
      BY <1>1, FinishIs
<1>3. Matching(w.namespaceStack, declared')
      BY <1>1 DEF Inv
<1>4. Made(w, v, declared')
      BY <1>3, MovesMade
<1> QED BY <1>2, <1>4 DEF Ends

\* A call that only changes a flag, or nothing.
LEMMA RestEnds ==
    ASSUME Inv, Moves(w, w'), Good(w'), declared' = declared, result' \in Results
    PROVE  Ends(w', result')
<1>1. Matching(w.namespaceStack, declared')
      BY DEF Inv
<1>2. Made(w, w', declared')
      BY <1>1 DEF Moves, Stacks, Made
<1>3. Sent(w', w')
      BY DEF Sent
<1> QED BY <1>2, <1>3 DEF Ends

\* A call that is refused, or does nothing.
LEMMA UnchangedEnds ==
    ASSUME Inv, w' = w, declared' = declared, result' \in Results
    PROVE  Ends(w', result')
<1>1. Moves(w, w) /\ Good(w)
      BY StaysGood DEF Inv
<1> QED BY <1>1, RestEnds

\* The texts of the calls.
LEMMA PieceTexts ==
    ASSUME NEW s \in Seq(Piece)
    PROVE  IsSomeSeq(s)
      BY DEF IsSomeSeq

\* The calls for elements, attributes and namespace declarations.
LEMMA ElementEnds ==
    ASSUME Inv, Element
    PROVE  Ends(w', result')
<1>1. Good(w) /\ Matching(w.namespaceStack, declared) /\ IsSomeSeq(w.namespaceStack)
      /\ Len(w.namespaceStack) = Len(w.elementStack) + 1 /\ Len(w.elementStack) \in Nat
      BY DEF Inv, Good, IsSomeSeq
<1>2. ASSUME NEW qName \in Seq(Piece), StartElement(qName)
      PROVE  Ends(w', result')
  <2> DEFINE v == OpenStartTag(w, qName)
  <2>1. /\ Output(w, v) /\ Good(v)
        /\ v.namespaceStack = Append(w.namespaceStack, <<>>)
        BY <1>1, PieceTexts, StartElementWrites
  <2>2. Finish(v) /\ declared' = Append(declared, <<>>)
        BY <1>2 DEF StartElement, NoBindings
  <2> HIDE DEF v
  <2>3. Matching(v.namespaceStack, declared')
        BY <1>1, <2>1, <2>2, MatchingStart
  <2> QED BY <2>1, <2>2, <2>3, FinishIs DEF Ends, Made
<1>3. ASSUME NEW qName \in Seq(Piece), NEW value \in Seq(Piece), Attribute(qName, value)
      PROVE  Ends(w', result')
  <2> DEFINE v == WriteAttributeOutput(w, qName, value)
  <2>1. Moves(w, v) /\ Good(v)
        BY <1>1, PieceTexts, AttributeMoves
  <2>2. CASE w.pendingStartTag
    <3>1. Call(Finish(v))
          BY <1>3, <2>2 DEF Attribute, InStartTag, Call
    <3> HIDE DEF v
    <3> QED BY <2>1, <3>1, CallEnds
  <2>3. CASE ~w.pendingStartTag
    <3>1. w' = w /\ declared' = declared /\ result' \in Results
          BY <1>3, <2>3 DEF Attribute, InStartTag, InvalidInput, Call, Results
    <3> QED BY <3>1, UnchangedEnds
  <2> QED BY <2>2, <2>3
<1>4. ASSUME NEW prefix \in Piece \cup {None}, NEW uri \in Piece \cup {None},
             Namespace(prefix, uri)
      PROVE  Ends(w', result')
  <2> DEFINE v == WriteNamespace(w, prefix, uri)
  <2>1. CASE ~w.pendingStartTag
    <3>1. w' = w /\ declared' = declared /\ result' \in Results
          BY <1>4, <2>1 DEF Namespace, InvalidInput, Call, Results
    <3> QED BY <3>1, UnchangedEnds
  <2>2. CASE w.pendingStartTag
    <3>1. /\ w' = v /\ result' = "ok"
          /\ declared' = IF Redundant(w, prefix, uri) THEN declared
                         ELSE Bind(declared, prefix, uri)
          BY <1>4, <2>2 DEF Namespace
    <3>2. /\ Output(w, v) /\ Good(v)
          /\ v.namespaceStack = Bind(w.namespaceStack, prefix, uri)
          BY <1>1, NamespaceWrites
    <3>3. \/ declared' = Bind(declared, prefix, uri)
          \/ /\ declared' = declared
             /\ LET bound == Binding(w.namespaceStack, Len(w.namespaceStack), prefix)
                IN  bound = uri \/ (prefix = None /\ uri = None /\ bound = "unbound")
      <4>1. CASE Redundant(w, prefix, uri)
            BY <3>1, <4>1 DEF Redundant, GetNamespaceUriForPrefix
      <4>2. CASE ~Redundant(w, prefix, uri)
            BY <3>1, <4>2
      <4> QED BY <4>1, <4>2
    <3>4. Len(w.namespaceStack) > 0
          BY <1>1
    <3>5. Matching(Bind(w.namespaceStack, prefix, uri), declared')
          BY <1>1, <3>3, <3>4, MatchingBind
    <3> HIDE DEF v
    <3>6. Made(w, v, declared')
          BY <3>2, <3>5 DEF Made
    <3>7. Sent(v, w') /\ result' \in Results
          BY <3>1 DEF Sent, Results
    <3> QED BY <3>6, <3>7 DEF Ends
  <2> QED BY <2>1, <2>2
<1>5. ASSUME EndElement
      PROVE  Ends(w', result')
  <2>1. w.elementStack = <<>> <=> Len(w.elementStack) = 0
    <3>1. PICK S : w.elementStack \in Seq(S)
          BY <1>1 DEF Good, IsSomeSeq
    <3> QED BY <3>1, EmptySeq
  <2>2. CASE w.elementStack = <<>>
    <3>1. w' = w /\ declared' = declared /\ result' \in Results
          BY <1>5, <2>2 DEF EndElement, InvalidInput, Call, Results
    <3> QED BY <3>1, UnchangedEnds
  <2>3. CASE w.elementStack # <<>>
    <3> DEFINE v == WriteEndElement(w)
    <3>1. Finish(v) /\ declared' = Front(declared)
          BY <1>5, <2>3 DEF EndElement
    <3>2. Len(w.elementStack) > 0 /\ Len(w.namespaceStack) > 0
          BY <1>1, <2>1, <2>3
    <3>3. Output(w, v) /\ Good(v) /\ v.namespaceStack = Front(w.namespaceStack)
          BY <1>1, <3>2, EndElementWrites
    <3> HIDE DEF v
    <3>4. Matching(v.namespaceStack, declared')
          BY <1>1, <3>1, <3>2, <3>3, MatchingEnd
    <3> QED BY <3>1, <3>3, <3>4, FinishIs DEF Ends, Made
  <2> QED BY <2>2, <2>3
<1> QED BY <1>2, <1>3, <1>4, <1>5 DEF Element

\* The calls for content.
LEMMA ContentEnds ==
    ASSUME Inv, Content
    PROVE  Ends(w', result')
<1>1. Good(w) /\ IsWriter(w)
      BY GoodParts DEF Inv
<1>2. ASSUME InElement, NEW text \in Seq(Piece), Characters(text)
      PROVE  Ends(w', result')
  <2>1. CASE text = <<>>
    <3>1. w' = w /\ declared' = declared /\ result' \in Results
          BY <1>2, <2>1 DEF Characters, Call, Results
    <3> QED BY <3>1, UnchangedEnds
  <2>2. CASE text # <<>> /\ w.inCdata /\ ~ValidateCdataContent(w, text)
    <3> DEFINE v == ClosePendingStartTag(w, TRUE)
    <3>1. w' = v /\ declared' = declared /\ result' \in Results
          BY <1>2, <2>2 DEF Characters, Call, Results
    <3>2. Moves(w, v) /\ v.atDocumentStart = w.atDocumentStart
          BY <1>1, CloseMoves
    <3> HIDE DEF v
    <3>3. Good(v)
          BY <1>1, <3>2, MovesKeepGood
    <3> QED BY <3>1, <3>2, <3>3, RestEnds
  <2>3. CASE text # <<>> /\ ~(w.inCdata /\ ~ValidateCdataContent(w, text))
    <3> DEFINE v == WriteCharacters(w, text)
    <3>1. Call(Finish(v))
          BY <1>2, <2>3 DEF Characters, Call
    <3>2. Len(w.elementStack) > 0
      <4>1. PICK S : w.elementStack \in Seq(S)
            BY <1>1 DEF Good, IsSomeSeq
      <4>2. w.elementStack # <<>> /\ Len(w.elementStack) \in Nat
            BY <1>2, <4>1 DEF InElement
      <4> QED BY <4>1, <4>2, EmptySeq
    <3>3. Moves(w, v) /\ Good(v)
          BY <1>1, <3>2, PieceTexts, CharactersMove
    <3> HIDE DEF v
    <3> QED BY <3>1, <3>3, CallEnds
  <2> QED BY <2>1, <2>2, <2>3
<1>3. ASSUME Call(Finish(WriteStartCdata(w)))
      PROVE  Ends(w', result')
      BY <1>1, <1>3, StartCdataMoves, CallEnds
<1>4. ASSUME Call(Finish(WriteEndCdata(w)))
      PROVE  Ends(w', result')
      BY <1>1, <1>4, EndCdataMoves, CallEnds
<1>5. ASSUME NEW text \in Seq(Piece), Call(Finish(WriteComment(w, text)))
      PROVE  Ends(w', result')
  <2>1. Moves(w, WriteComment(w, text)) /\ Good(WriteComment(w, text))
        BY <1>1, PieceTexts, CommentMoves
  <2> QED BY <1>5, <2>1, CallEnds
<1>6. ASSUME NEW target \in Piece, NEW data \in Seq(Piece),
             Call(Finish(WriteProcessingInstruction(w, target, data)))
      PROVE  Ends(w', result')
  <2>1. /\ Moves(w, WriteProcessingInstruction(w, target, data))
        /\ Good(WriteProcessingInstruction(w, target, data))
        BY <1>1, PieceTexts, ProcessingInstructionMoves
  <2> QED BY <1>6, <2>1, CallEnds
<1>7. ASSUME NEW name \in Piece, Call(Finish(WriteEntityRef(w, name)))
      PROVE  Ends(w', result')
  <2>1. IsSomeSeq(<<"&", name, ";">>)
        BY Tuples
  <2>2. Moves(w, WriteEntityRef(w, name)) /\ Good(WriteEntityRef(w, name))
        BY <1>1, <2>1, RawMoves DEF WriteEntityRef
  <2> QED BY <1>7, <2>2, CallEnds
<1>8. ASSUME NEW text \in Seq(Piece), Call(Finish(WriteRaw(w, text)))
      PROVE  Ends(w', result')
  <2>1. Moves(w, WriteRaw(w, text)) /\ Good(WriteRaw(w, text))
        BY <1>1, PieceTexts, RawMoves DEF WriteRaw
  <2> QED BY <1>8, <2>1, CallEnds
<1> QED BY <1>2, <1>3, <1>4, <1>5, <1>6, <1>7, <1>8 DEF Content

\* The calls for the document type declaration.
LEMMA DtdEnds ==
    ASSUME Inv, Dtd
    PROVE  Ends(w', result')
<1>1. Good(w) /\ IsWriter(w)
      BY GoodParts DEF Inv
<1>2. ASSUME NEW name \in Piece, NEW public \in Seq(Piece), NEW system \in Seq(Piece),
             \/ Call(Finish(WriteStartDtd(w, name, public, system)))
             \/ Call(Finish(WriteNotationDecl(w, name, public, system)))
             \/ \E parameter \in BOOLEAN :
                  Call(Finish(WriteExternalEntityDecl(w, name, parameter, public, system)))
             \/ \E notation \in Piece :
                  Call(Finish(WriteUnparsedEntityDecl(w, name, public, system, notation)))
      PROVE  Ends(w', result')
  <2>0. IsSomeSeq(public) /\ IsSomeSeq(system)
        BY PieceTexts
  <2>1. ASSUME Call(Finish(WriteStartDtd(w, name, public, system)))
        PROVE  Ends(w', result')
        BY <1>1, <2>0, <2>1, StartDtdMoves, CallEnds
  <2>2. ASSUME Call(Finish(WriteNotationDecl(w, name, public, system)))
        PROVE  Ends(w', result')
        BY <1>1, <2>0, <2>2, NotationDeclMoves, CallEnds
  <2>3. ASSUME NEW parameter \in BOOLEAN,
               Call(Finish(WriteExternalEntityDecl(w, name, parameter, public, system)))
        PROVE  Ends(w', result')
        BY <1>1, <2>0, <2>3, ExternalEntityDeclMoves, CallEnds
  <2>4. ASSUME NEW notation \in Piece,
               Call(Finish(WriteUnparsedEntityDecl(w, name, public, system, notation)))
        PROVE  Ends(w', result')
        BY <1>1, <2>0, <2>4, UnparsedEntityDeclMoves, CallEnds
  <2> QED BY <1>2, <2>1, <2>2, <2>3, <2>4
<1>3. ASSUME NEW name \in Piece, NEW model \in Piece,
             Call(Finish(WriteElementDecl(w, name, model)))
      PROVE  Ends(w', result')
      BY <1>1, <1>3, ElementDeclMoves, CallEnds
<1>4. ASSUME NEW eName \in Piece, NEW aName \in Piece, NEW mode \in Piece \cup {None},
             NEW hasValue \in BOOLEAN, NEW value \in Seq(Piece),
             Call(Finish(WriteAttributeDecl(w, eName, aName, mode, hasValue, value)))
      PROVE  Ends(w', result')
  <2>1. IsSomeSeq(value)
        BY PieceTexts
  <2> QED BY <1>1, <1>4, <2>1, AttributeDeclMoves, CallEnds
<1>5. ASSUME NEW name \in Piece, NEW parameter \in BOOLEAN, NEW value \in Seq(Piece),
             Call(Finish(WriteInternalEntityDecl(w, name, parameter, value)))
      PROVE  Ends(w', result')
  <2>1. IsSomeSeq(value)
        BY PieceTexts
  <2> QED BY <1>1, <1>5, <2>1, InternalEntityDeclMoves, CallEnds
<1>6. ASSUME Call(Finish(WriteEndDtd(w)))
      PROVE  Ends(w', result')
      BY <1>1, <1>6, EndDtdMoves, CallEnds
<1>7. ASSUME StartExternalSubset \/ EndExternalSubset
      PROVE  Ends(w', result')
  <2>1. PICK b \in BOOLEAN : w' = [w EXCEPT !.inExternalSubset = b]
        BY <1>7 DEF StartExternalSubset, EndExternalSubset, Call
  <2>2. declared' = declared /\ result' \in Results
        BY <1>7 DEF StartExternalSubset, EndExternalSubset, Call, Results
  <2> DEFINE v == [w EXCEPT !.inExternalSubset = b]
  <2>3. /\ DOMAIN v = Fields /\ v.buffer = w.buffer /\ v.pendingBom = w.pendingBom
        /\ v.charset = w.charset /\ v.sink = w.sink /\ Stacks(w, v) /\ Flags(w, v)
        /\ v.atDocumentStart = w.atDocumentStart
        BY <1>1 DEF IsWriter, Fields, Stacks, Flags
  <2>4. w' = v
        BY <2>1
  <2> HIDE DEF v
  <2>5. Moves(w, v)
        BY <1>1, <2>3, FlagsMove
  <2>6. Good(v)
        BY <1>1, <2>3, <2>5, MovesKeepGood
  <2> QED BY <2>2, <2>4, <2>5, <2>6, RestEnds
<1> QED BY <1>2, <1>3, <1>4, <1>5, <1>6, <1>7 DEF Dtd

\* flush and close.
LEMMA FlushEnds ==
    ASSUME Inv, Flush
    PROVE  Ends(w', result')
<1> DEFINE v == ClosePendingStartTag(w, FALSE)
<1>1. Good(w) /\ IsWriter(w)
      BY GoodParts DEF Inv
<1>2. Moves(w, v) /\ v.atDocumentStart = w.atDocumentStart
      BY <1>1, CloseMoves
<1>3. Sent(v, w') /\ result' \in Results /\ declared' = declared
      BY DEF Flush, Sent, Results
<1> HIDE DEF v
<1>4. Good(v)
      BY <1>1, <1>2, MovesKeepGood
<1>5. Matching(w.namespaceStack, declared')
      BY <1>3 DEF Inv
<1>6. Made(w, v, declared')
      BY <1>2, <1>4, <1>5, MovesMade
<1> QED BY <1>3, <1>6 DEF Ends

\* Every step is a call.
LEMMA NextEnds ==
    ASSUME Inv, [Next]_vars
    PROVE  Ends(w', result')
<1>1. CASE Next
      BY <1>1, ElementEnds, ContentEnds, DtdEnds, FlushEnds DEF Next
<1>2. CASE UNCHANGED vars
      BY <1>2, UnchangedEnds DEF vars, Inv
<1> QED BY <1>1, <1>2

\* The invariant is inductive.
LEMMA InvNext ==
    ASSUME Inv, [Next]_vars
    PROVE  Inv'
<1>1. PICK v : Made(w, v, declared') /\ Sent(v, w') /\ result' \in Results
      BY NextEnds DEF Ends
<1>2. Good(w') /\ (w').namespaceStack = v.namespaceStack
      BY <1>1, SentIs DEF Made
<1> QED BY <1>1, <1>2 DEF Inv, Made

\* The invariant holds of every writer.
LEMMA Invariant == Spec => []Inv
<1>1. Init => Inv
      BY InvInit
<1>2. Inv /\ [Next]_vars => Inv'
      BY InvNext
<1> QED BY <1>1, <1>2, PTL DEF Spec

-----------------------------------------------------------------------------
(* Theorems                                                                *)

\* Whatever is called, every open element has a scope, an open start tag is
\* that of the innermost element and nothing stands in it yet, and only a
\* document type declaration has an internal subset.
THEOREM WriterTypes == Spec => []TypeOK
<1>1. Inv => TypeOK
  <2>1. SUFFICES ASSUME Inv PROVE TypeOK
        OBVIOUS
  <2>2. PICK S : w.elementStack \in Seq(S)
        BY <2>1 DEF Inv, Good, IsSomeSeq
  <2>3. w.pendingStartTag => w.elementStack # <<>>
        BY <2>1, <2>2, EmptySeq DEF Inv, Good
  <2> QED BY <2>1, <2>3 DEF Inv, Good, TypeOK, Results
<1> QED BY <1>1, Invariant, PTL

\* Whatever is called, the declarations that were written give every prefix, in
\* every open element, the URI the writer believes it has.
THEOREM WhatIsBoundIsWritten == Spec => []BindingsWritten
<1>1. Inv => BindingsWritten
      BY DEF Inv, Matching, Agree, BindingsWritten
<1> QED BY <1>1, Invariant, PTL

\* The output of a charset with a byte order mark begins with it.
THEOREM TheMarkComesFirst == Spec => []BeginsWithBom
<1>1. Inv => BeginsWithBom
  <2>1. SUFFICES ASSUME Inv, w.charset \in Bom, Written(w) # <<>>
                 PROVE  Written(w)[1] = "BOM"
        BY DEF BeginsWithBom
  <2>2. Good(w) /\ IsSomeSeq(w.sink) /\ IsSomeSeq(w.buffer) /\ BomFirst(w)
        BY <2>1 DEF Inv, Good, IsWriter
  <2> DEFINE s == Written(w)
  <2>3. Joined(w.sink, w.buffer, s)
        BY <2>2, JoinedIs DEF Written
  <2> HIDE DEF s
  <2>4. CASE w.pendingBom
    <3>1. Len(w.sink) = 0 /\ Len(w.buffer) = 0
          BY <2>2, <2>4 DEF BomFirst
    <3>2. Len(s) = 0 /\ IsSomeSeq(s)
          BY <2>3, <3>1 DEF Joined
    <3>3. s = <<>>
          BY <3>2, EmptySeq DEF IsSomeSeq
    <3> QED BY <2>1, <3>3 DEF s
  <2>5. CASE ~w.pendingBom
    <3>1. IF Len(w.sink) > 0 THEN w.sink[1] = "BOM"
          ELSE Len(w.buffer) > 0 /\ w.buffer[1] = "BOM"
          BY <2>1, <2>2, <2>5 DEF BomFirst
    <3>2. s[1] = "BOM"
          BY <2>2, <2>3, <3>1, BomFirstJoined
    <3> QED BY <3>2 DEF s
  <2> QED BY <2>4, <2>5
<1> QED BY <1>1, Invariant, PTL

\* Of a sink that takes the whole buffer or none of it, nothing that was
\* written is taken back, changed or written again.
THEOREM WhatIsWrittenStays ==
    ASSUME "cut" \notin Outcomes
    PROVE  Spec => NothingTakenBack
<1>1. Inv /\ [Next]_vars => [IsPrefix(Written(w), Written(w'))]_vars
  <2>1. SUFFICES ASSUME Inv, [Next]_vars
                 PROVE  IsPrefix(Written(w), Written(w'))
        OBVIOUS
  <2>2. PICK v : Made(w, v, declared') /\ Sent(v, w')
        BY <2>1, NextEnds DEF Ends
  <2>3. Good(w) /\ Good(v) /\ Output(w, v)
        BY <2>1, <2>2 DEF Inv, Made
  <2>4. Written(w') = Written(v)
        BY <2>2, <2>3, SentIs
  <2>5. IsPrefix(Written(w), Written(v))
        BY <2>3, WrittenOn
  <2> QED BY <2>4, <2>5
<1> QED BY <1>1, Invariant, PTL DEF Spec, NothingTakenBack
=============================================================================
