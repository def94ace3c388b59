--------------------------- MODULE Doctype_proofs ---------------------------
(***************************************************************************)
(* What holds of the DOCTYPE for every set of names and every document:    *)
(* the buffers never nest an entity in itself, the limit is kept, the      *)
(* first declaration of a name binds, and each is reported once.           *)
(***************************************************************************)
EXTENDS Doctype, TLAPS, FiniteSetTheorems

FrameNames == {"", "[dtd]"} \cup Param
FrameType  == [of : FrameNames, text : Seq(Token), pos : Nat \ {0}, far : BOOLEAN,
               sections : Seq(BOOLEAN)]

\* The document's buffer, which no splice changes, and the others in it.
Buffers(text, fs) ==
    /\ fs \in Seq(FrameType) /\ Len(fs) > 0
    /\ fs[1].of = "" /\ fs[1].text = text /\ ~fs[1].far
    /\ \A i \in 1 .. Len(fs) :
        /\ fs[i].pos <= Len(fs[i].text) + 1
        /\ i > 1 /\ fs[i - 1].far => fs[i].far
    /\ \A i, j \in 1 .. Len(fs) : fs[i].of = fs[j].of => i = j
-----------------------------------------------------------------------------
(* Sequences and tokens                                                    *)

\* A set of natural numbers has a smallest one, and Min is it.
LEMMA MinOf ==
    ASSUME NEW S \in SUBSET Nat, S # {}
    PROVE  Min(S) \in S /\ \A j \in S : Min(S) <= j
  <1>1. \E m \in S : \A j \in S : ~ <<j, m>> \in OpToRel(<, Nat)
    BY WFMin, NatLessThanWellFounded
  <1>2. PICK m \in S : \A j \in S : ~ <<j, m>> \in OpToRel(<, Nat)
    BY <1>1
  <1>3. \A j \in S : ~ (j < m)
    BY <1>2 DEF OpToRel
  <1>4. \A j \in S : m <= j
    BY <1>3
  <1> QED BY <1>4 DEF Min

\* What a token names.
LEMMA TokenIs ==
    ASSUME NEW t \in Token
    PROVE  /\ t.is \in {"%", "&#37;", "<!ENTITY %"} => t.of \in Param
           /\ t.is \in {"<!ENTITY", "name"} => t.of \in Name
  BY DEF Token

\* A reference is a token.
LEMMA ReferenceIsToken == ASSUME NEW p \in Param PROVE Of("%", p) \in Token
  BY DEF Token, Of

\* The last buffer is one of them.
LEMMA TopIs ==
    ASSUME NEW text, NEW fs, Buffers(text, fs)
    PROVE  /\ Len(fs) \in Nat \ {0} /\ fs \in Seq(FrameType) /\ fs[Len(fs)] \in FrameType
           /\ fs[Len(fs)].pos <= Len(fs[Len(fs)].text) + 1
           /\ Len(fs) = 1 => fs[Len(fs)].text = text /\ ~fs[Len(fs)].far
  <1>1. fs \in Seq(FrameType) /\ Len(fs) > 0
    BY DEF Buffers
  <1>2. Len(fs) \in Nat \ {0} /\ fs[Len(fs)] \in FrameType /\ Len(fs) \in 1 .. Len(fs)
    BY <1>1
  <1> QED BY <1>1, <1>2 DEF Buffers

\* The last buffer is changed, but not its name.
LEMMA BuffersChanged ==
    ASSUME NEW text, NEW fs, Buffers(text, fs),
           NEW f \in FrameType, f.of = fs[Len(fs)].of, f.far = fs[Len(fs)].far,
           f.text = fs[Len(fs)].text \/ fs[Len(fs)].far, f.pos <= Len(f.text) + 1
    PROVE  LET gs == [fs EXCEPT ![Len(fs)] = f]
           IN  Buffers(text, gs) /\ Len(gs) = Len(fs) /\ gs[Len(gs)] = f
  <1> DEFINE n == Len(fs)
             gs == [fs EXCEPT ![Len(fs)] = f]
  <1>1. n \in Nat \ {0} /\ fs \in Seq(FrameType) /\ fs[n] \in FrameType
    BY TopIs
  <1>2. gs \in Seq(FrameType) /\ Len(gs) = n /\ gs[n] = f /\ \A i \in 1 .. n : i # n => gs[i] = fs[i]
    BY <1>1
  <1> HIDE DEF n, gs
  <1>3. Len(gs) > 0
    BY <1>1, <1>2
  <1>4. \A i \in 1 .. n : gs[i].of = fs[i].of /\ gs[i].far = fs[i].far
    BY <1>1, <1>2 DEF n
  <1>5. gs[1].text = text
    <2>1. CASE n = 1
      BY <1>1, <1>2, <2>1 DEF Buffers, n
    <2>2. CASE n # 1
      <3>1. gs[1] = fs[1]
        BY <1>1, <1>2, <2>2
      <3> QED BY <3>1 DEF Buffers
    <2> QED BY <2>1, <2>2
  <1>6. \A i \in 1 .. n : gs[i].pos <= Len(gs[i].text) + 1
    BY <1>1, <1>2 DEF Buffers, n
  <1>7. \A i \in 1 .. n : i > 1 /\ gs[i - 1].far => gs[i].far
    <2>1. \A i \in 1 .. n : i > 1 => i - 1 \in 1 .. n
      BY <1>1
    <2> QED BY <1>4, <2>1 DEF Buffers, n
  <1>8. \A i, j \in 1 .. n : gs[i].of = gs[j].of => i = j
    BY <1>4 DEF Buffers, n
  <1>9. gs[1].of = "" /\ ~gs[1].far
    <2>1. 1 \in 1 .. n
      BY <1>1
    <2>2. gs[1].of = fs[1].of /\ gs[1].far = fs[1].far
      BY <1>4, <2>1
    <2> QED BY <2>2 DEF Buffers
  <1>10. Buffers(text, gs)
    BY <1>2, <1>3, <1>5, <1>6, <1>7, <1>8, <1>9 DEF Buffers
  <1> QED BY <1>2, <1>10 DEF gs, n

\* A buffer of another name is put in.
LEMMA BuffersOpened ==
    ASSUME NEW text, NEW fs, Buffers(text, fs),
           NEW f \in FrameType, \A i \in 1 .. Len(fs) : fs[i].of # f.of,
           fs[Len(fs)].far => f.far, f.pos <= Len(f.text) + 1
    PROVE  Buffers(text, Append(fs, f)) /\ Len(Append(fs, f)) = Len(fs) + 1
           /\ Append(fs, f)[Len(fs) + 1] = f
  <1> DEFINE n == Len(fs)
             gs == Append(fs, f)
  <1>1. n \in Nat \ {0} /\ fs \in Seq(FrameType)
    BY TopIs
  <1>2. gs \in Seq(FrameType) /\ Len(gs) = n + 1 /\ gs[n + 1] = f /\ \A i \in 1 .. n : gs[i] = fs[i]
    BY <1>1
  <1> HIDE DEF n, gs
  <1>3. Len(gs) > 0 /\ gs[1] = fs[1]
    BY <1>1, <1>2
  <1>4. \A i \in 1 .. n + 1 : i = n + 1 \/ i \in 1 .. n
    BY <1>1
  <1>5. \A i \in 1 .. n + 1 : gs[i].pos <= Len(gs[i].text) + 1
    BY <1>2, <1>4 DEF Buffers, n
  <1>6. \A i \in 1 .. n + 1 : i > 1 /\ gs[i - 1].far => gs[i].far
    <2> SUFFICES ASSUME NEW i \in 1 .. n + 1, i > 1, gs[i - 1].far PROVE gs[i].far
      OBVIOUS
    <2>1. i - 1 \in 1 .. n
      BY <1>1
    <2>2. fs[i - 1].far
      BY <1>2, <2>1
    <2>3. CASE i = n + 1
      <3>1. fs[n].far
        BY <1>1, <2>2, <2>3
      <3> QED BY <1>2, <2>3, <3>1 DEF n
    <2>4. CASE i \in 1 .. n
      <3>1. fs[i].far
        BY <2>2, <2>4 DEF Buffers, n
      <3> QED BY <1>2, <2>4, <3>1
    <2> QED BY <1>4, <2>3, <2>4
  <1>7. \A i, j \in 1 .. n + 1 : gs[i].of = gs[j].of => i = j
    BY <1>2, <1>4 DEF Buffers, n
  <1>8. Buffers(text, gs)
    BY <1>2, <1>3, <1>5, <1>6, <1>7 DEF Buffers
  <1> QED BY <1>2, <1>8 DEF gs, n

\* The last buffer is gone, and the one before as it was.
LEMMA BuffersClosed ==
    ASSUME NEW text, NEW fs, Buffers(text, fs), Len(fs) > 1
    PROVE  Buffers(text, Front(fs))
  <1> DEFINE n == Len(fs)
             gs == Front(fs)
  <1>1. n \in Nat /\ n > 1 /\ fs \in Seq(FrameType)
    <2>1. n \in Nat /\ fs \in Seq(FrameType)
      BY TopIs
    <2> QED BY <2>1
  <1>2. gs = SubSeq(fs, 1, n - 1)
    BY DEF Front
  <1>3. gs \in Seq(FrameType) /\ Len(gs) = n - 1 /\ \A i \in 1 .. n - 1 : gs[i] = fs[i]
    BY <1>1, <1>2
  <1> HIDE DEF n, gs
  <1>4. \A i \in 1 .. n - 1 : i \in 1 .. n
    BY <1>1
  <1>5. Len(gs) > 0 /\ gs[1] = fs[1]
    BY <1>1, <1>3
  <1>6. \A i \in 1 .. n - 1 : gs[i].pos <= Len(gs[i].text) + 1
    BY <1>3, <1>4 DEF Buffers, n
  <1>7. \A i \in 1 .. n - 1 : i > 1 /\ gs[i - 1].far => gs[i].far
    <2>1. \A i \in 1 .. n - 1 : i > 1 => i - 1 \in 1 .. n - 1
      BY <1>1
    <2> QED BY <1>3, <1>4, <2>1 DEF Buffers, n
  <1>8. \A i, j \in 1 .. n - 1 : gs[i].of = gs[j].of => i = j
    BY <1>3, <1>4 DEF Buffers, n
  <1>9. Buffers(text, gs)
    BY <1>3, <1>5, <1>6, <1>7, <1>8 DEF Buffers
  <1> QED BY <1>9 DEF gs

\* There are no more buffers than names for them.
LEMMA BuffersBounded ==
    ASSUME NEW text, NEW fs, Buffers(text, fs)
    PROVE  Len(fs) \in 1 .. Cardinality(Param) + 2
  <1> DEFINE n == Len(fs)
             names == [i \in 1 .. n |-> fs[i].of]
  <1>1. n \in Nat \ {0} /\ fs \in Seq(FrameType)
    BY TopIs
  <1>2. IsFiniteSet(Param) /\ "" \notin Param /\ "[dtd]" \notin Param
    BY DoctypeAssumption
  <1>3. IsFiniteSet(Param \cup {""}) /\ Cardinality(Param \cup {""}) = Cardinality(Param) + 1
    BY <1>2, FS_AddElement
  <1>4. "[dtd]" \notin Param \cup {""}
    BY <1>2
  <1>5. FrameNames = (Param \cup {""}) \cup {"[dtd]"}
    BY DEF FrameNames
  <1>6. IsFiniteSet(FrameNames) /\ Cardinality(FrameNames) = Cardinality(Param \cup {""}) + 1
    BY <1>3, <1>4, <1>5, FS_AddElement
  <1>7. Cardinality(Param) \in Nat
    BY <1>2, FS_CardinalityType
  <1>8. names \in Injection(1 .. n, FrameNames)
    <2>1. \A i \in 1 .. n : fs[i] \in FrameType
      BY <1>1
    <2>2. \A i \in 1 .. n : fs[i].of \in FrameNames
      BY <2>1 DEF FrameType
    <2>3. \A i, j \in 1 .. n : fs[i].of = fs[j].of => i = j
      BY DEF Buffers
    <2> QED BY <2>2, <2>3 DEF Injection, IsInjective
  <1> HIDE DEF names
  <1>9. Cardinality(1 .. n) <= Cardinality(FrameNames)
    BY <1>6, <1>8, FS_Injection
  <1>10. Cardinality(1 .. n) = n
    BY <1>1, FS_Interval
  <1>11. n <= Cardinality(Param) + 2
    <2>1. n <= Cardinality(FrameNames) /\ Cardinality(FrameNames) = (Cardinality(Param) + 1) + 1
      BY <1>3, <1>6, <1>9, <1>10
    <2> QED BY <1>1, <1>7, <2>1
  <1> QED BY <1>1, <1>7, <1>11
-----------------------------------------------------------------------------
(* The inductive invariant                                                 *)

InputInv ==
    /\ Legal(doc) /\ arrived \in 0 .. Len(doc.text) /\ chunks \in 0 .. doc.pieces
    /\ phase \in {"prolog", "subset", "after", "root", "done"}
    /\ failed \in {"none", "refused", "limit"} /\ calling \in BOOLEAN

BuffersInv == Buffers(doc.text, frames)

\* A declaration begun before pos; open: within the subset; skips: of a DOCTYPE
\* that is skipped.
DeclOK(d, pos, open, skips) ==
    /\ d \in [is : {"none", "entity", "param", "element", "section", "skipped"}, of : {d.of},
              step : {d.step}, value : Seq(Token), start : Nat, spliced : BOOLEAN]
    /\ d.is # "none" => d.start \in 1 .. pos
    /\ d.is = "entity" => d.of \in Name
    /\ d.is = "param" => d.of \in Param
    /\ ~open => d.is = "none"
    /\ ~skips => d.is # "skipped"

DeclInv == DeclOK(decl, Top.pos, phase = "subset" /\ ~closed, skipping)

EntityType == [kind : {"none", "internal", "external", "unparsed"}, text : Seq(Token), far : BOOLEAN]

\* A name that is declared waits in one table or is in the other, never in both.
TablesInv ==
    /\ general \in [Name -> EntityType] /\ pending_general \in [Name -> EntityType]
    /\ param \in [Param -> EntityType] /\ pending_param \in [Param -> EntityType]
    /\ \A n \in Name : pending_general[n].kind = "none" \/ general[n].kind = "none"
    /\ \A p \in Param : pending_param[p].kind = "none" \/ param[p].kind = "none"

CountInv == expansion_count \in Nat /\ LimitKept

CoreInv == InputInv /\ BuffersInv /\ DeclInv /\ TablesInv /\ CountInv

\* The buffer that is read, and what is there.
LEMMA AtTop ==
    ASSUME InputInv, BuffersInv
    PROVE  /\ Depth \in Nat \ {0} /\ Top \in FrameType
           /\ Top.pos \in Nat \ {0} /\ Top.pos <= Len(Top.text) + 1 /\ Len(Top.text) \in Nat
           /\ Limit \in Nat /\ Limit <= Len(Top.text)
           /\ Depth = 1 => Top.text = doc.text /\ ~Top.far
           /\ Available => Top.pos <= Limit /\ Here \in Token
  <1>1. /\ Depth \in Nat \ {0} /\ Top \in FrameType /\ Top.pos <= Len(Top.text) + 1
        /\ Depth = 1 => Top.text = doc.text /\ ~Top.far
    BY TopIs DEF BuffersInv, Depth, Top
  <1>2. Top.pos \in Nat \ {0} /\ Top.text \in Seq(Token)
    BY <1>1 DEF FrameType
  <1>3. Len(Top.text) \in Nat
    BY <1>2
  <1>4. arrived \in Nat /\ arrived <= Len(doc.text) /\ Len(doc.text) \in Nat
    BY DEF InputInv, Legal
  <1>5. Limit \in Nat /\ Limit <= Len(Top.text)
    BY <1>1, <1>3, <1>4 DEF Limit
  <1>6. Available => Top.pos <= Limit
    BY DEF Available
  <1>7. Available => Top.pos \in 1 .. Len(Top.text)
    BY <1>2, <1>3, <1>5, <1>6
  <1>8. Available => Here \in Token
    BY <1>2, <1>7 DEF Here
  <1> QED BY <1>1, <1>2, <1>3, <1>5, <1>6, <1>8

\* The buffer that is read is changed, but not its name.
LEMMA TopChanged ==
    ASSUME InputInv, BuffersInv, NEW f \in FrameType, f.of = Top.of, f.far = Top.far,
           f.text = Top.text \/ Top.far, f.pos <= Len(f.text) + 1
    PROVE  /\ Buffers(doc.text, WithTop(f)) /\ Len(WithTop(f)) = Depth
           /\ WithTop(f)[Len(WithTop(f))] = f
           /\ doc' = doc /\ frames' = WithTop(f) => BuffersInv' /\ Depth' = Depth /\ Top' = f
  <1> DEFINE gs == [frames EXCEPT ![Len(frames)] = f]
  <1>1. /\ f.of = frames[Len(frames)].of /\ f.far = frames[Len(frames)].far
        /\ f.text = frames[Len(frames)].text \/ frames[Len(frames)].far
        /\ Buffers(doc.text, frames)
    BY DEF Top, Depth, BuffersInv
  <1>2. Buffers(doc.text, gs) /\ Len(gs) = Len(frames) /\ gs[Len(gs)] = f
    BY <1>1, BuffersChanged
  <1>3. WithTop(f) = gs /\ Depth = Len(frames)
    BY DEF WithTop, Depth
  <1> HIDE DEF gs
  <1>4. /\ Buffers(doc.text, WithTop(f)) /\ Len(WithTop(f)) = Depth
        /\ WithTop(f)[Len(WithTop(f))] = f
    BY <1>2, <1>3
  <1>5. doc' = doc /\ frames' = gs => BuffersInv' /\ Depth' = Depth /\ Top' = f
    BY <1>2 DEF BuffersInv, Depth, Top
  <1> QED BY <1>3, <1>4, <1>5

\* Reading goes on at another position of the same buffer.
LEMMA Moves ==
    ASSUME InputInv, BuffersInv, NEW pos \in Nat \ {0}, pos <= Len(Top.text) + 1
    PROVE  /\ Buffers(doc.text, WithTop([Top EXCEPT !.pos = pos]))
           /\ Len(WithTop([Top EXCEPT !.pos = pos])) = Depth
           /\ doc' = doc /\ MoveTo(pos) =>
                 /\ BuffersInv' /\ Depth' = Depth
                 /\ Top' = [Top EXCEPT !.pos = pos] /\ Top'.pos = pos
  <1> DEFINE f == [Top EXCEPT !.pos = pos]
  <1>1. Top \in FrameType
    BY AtTop
  <1>2. /\ f \in FrameType /\ f.of = Top.of /\ f.far = Top.far /\ f.text = Top.text
        /\ f.pos = pos
    BY <1>1 DEF FrameType
  <1>3. MoveTo(pos) <=> frames' = WithTop(f)
    BY DEF MoveTo
  <1> HIDE DEF f
  <1>4. /\ Buffers(doc.text, WithTop(f)) /\ Len(WithTop(f)) = Depth
        /\ doc' = doc /\ frames' = WithTop(f) => BuffersInv' /\ Depth' = Depth /\ Top' = f
    BY <1>2, TopChanged
  <1>5. doc' = doc /\ frames' = WithTop(f) => Top'.pos = pos
    BY <1>2, <1>4
  <1> QED BY <1>3, <1>4, <1>5 DEF f

\* The replacement text of a parameter entity.
LEMMA ReplacementIs ==
    ASSUME InputInv, TablesInv, NEW p \in Param
    PROVE  Replacement(p) \in Seq(Token) /\ Lookup(p) \in EntityType
  <1>1. Lookup(p) \in EntityType
    BY DEF TablesInv, Lookup
  <1>2. doc.file[p] \in Seq(Token)
    BY DEF InputInv, Legal
  <1>3. << >> \in Seq(Token)
    OBVIOUS
  <1> QED BY <1>1, <1>2, <1>3 DEF Replacement, EntityType

\* The tables as they were, and the count.
LEMMA TablesKept == ASSUME TablesInv, UNCHANGED tables PROVE TablesInv'
  BY DEF TablesInv, tables

\* The count as it was.
LEMMA CountKept ==
    ASSUME CountInv, doc' = doc, expansion_count' = expansion_count,
           failed = "none" \/ failed' = failed
    PROVE  CountInv'
  BY DEF CountInv, LimitKept
-----------------------------------------------------------------------------
(* Steps of a kind                                                         *)

\* Nothing is read.
LEMMA Stays ==
    ASSUME CoreInv, Constant, UNCHANGED <<frames, decl, tables, expansion_count>>,
           failed' \in {"none", "refused", "limit"}, failed = "none"
    PROVE  CoreInv'
  <1>1. doc' = doc /\ InputInv'
    BY DEF CoreInv, InputInv, Constant, input
  <1>2. BuffersInv'
    BY <1>1 DEF CoreInv, BuffersInv
  <1>3. DeclInv'
    BY DEF CoreInv, DeclInv, Constant, Top, Depth
  <1> QED BY <1>1, <1>2, <1>3, TablesKept, CountKept DEF CoreInv

\* One token is read, and the declaration goes on or ends.
LEMMA Proceeds ==
    ASSUME CoreInv, Available, Advance, Constant, UNCHANGED <<tables, expansion_count, failed>>,
           DeclOK(decl', Top.pos + 1, phase = "subset" /\ ~closed, skipping)
    PROVE  CoreInv'
  <1>1. doc' = doc /\ InputInv'
    BY DEF CoreInv, InputInv, Constant, input
  <1>2. Top.pos + 1 \in Nat \ {0} /\ Top.pos + 1 <= Len(Top.text) + 1
    BY AtTop DEF CoreInv
  <1>3. BuffersInv' /\ Top'.pos = Top.pos + 1
    BY <1>1, <1>2, Moves DEF CoreInv, Advance
  <1>4. DeclInv'
    BY <1>3 DEF DeclInv, Constant
  <1> QED BY <1>1, <1>3, <1>4, TablesKept, CountKept DEF CoreInv

\* No declaration is being read.
LEMMA NoDeclOK ==
    ASSUME NEW pos, NEW open, NEW skips
    PROVE  DeclOK(NoDecl, pos, open, skips)
  <1>1. << >> \in Seq(Token)
    OBVIOUS
  <1> QED BY <1>1 DEF DeclOK, NoDecl, Decl

\* A declaration begins.
LEMMA DeclBegins ==
    ASSUME NEW is \in {"entity", "param", "element", "section", "skipped"}, NEW of, NEW step,
           NEW start \in Nat \ {0}, NEW skips,
           is = "entity" => of \in Name, is = "param" => of \in Param, ~skips => is # "skipped"
    PROVE  DeclOK(Decl(is, of, step, start), start + 1, TRUE, skips)
  <1>1. << >> \in Seq(Token)
    OBVIOUS
  <1> QED BY <1>1 DEF DeclOK, Decl

\* A declaration goes on.
LEMMA DeclGoesOn ==
    ASSUME NEW d, NEW pos \in Nat, NEW open, NEW skips, DeclOK(d, pos, open, skips),
           NEW step, NEW value, value \in Seq(Token)
    PROVE  DeclOK([d EXCEPT !.step = step, !.value = value], pos + 1, open, skips)
  <1> DEFINE e == [d EXCEPT !.step = step, !.value = value]
  <1>1. /\ e.is = d.is /\ e.of = d.of /\ e.start = d.start
        /\ e \in [is : {"none", "entity", "param", "element", "section", "skipped"}, of : {e.of},
                  step : {e.step}, value : Seq(Token), start : Nat, spliced : BOOLEAN]
    BY DEF DeclOK
  <1> HIDE DEF e
  <1>2. DeclOK(e, pos + 1, open, skips)
    BY <1>1 DEF DeclOK
  <1> QED BY <1>2 DEF e
-----------------------------------------------------------------------------
(* The actions                                                             *)

\* Declarations begin.
LEMMA BeginKeeps ==
    ASSUME CoreInv, BeginEntity \/ BeginElement \/ BeginSection PROVE CoreInv'
  <1>1. Available /\ Between /\ phase = "subset" /\ ~skipping
    BY DEF BeginEntity, BeginElement, BeginSection, InSubset
  <1>2. /\ Top.pos \in Nat \ {0} /\ Here \in Token
    BY <1>1, AtTop DEF CoreInv
  <1>3. (phase = "subset" /\ ~closed) = TRUE
    BY <1>1 DEF Between
  <1>4. ASSUME NEW is \in {"entity", "param", "element", "section"}, NEW of, NEW step,
               is = "entity" => of \in Name, is = "param" => of \in Param, Begins(is, of, step)
        PROVE  CoreInv'
    <2>1. DeclOK(Decl(is, of, step, Top.pos), Top.pos + 1, TRUE, skipping)
      BY <1>2, <1>4, DeclBegins
    <2>2. decl' = Decl(is, of, step, Top.pos) /\ Advance /\ Constant
          /\ UNCHANGED <<tables, expansion_count, failed>>
      BY <1>4 DEF Begins
    <2>3. DeclOK(decl', Top.pos + 1, phase = "subset" /\ ~closed, skipping)
      BY <1>3, <2>1, <2>2
    <2> QED BY <1>1, <2>2, <2>3, Proceeds
  <1>5. CASE Here.is = "<!ENTITY" /\ Begins("entity", Here.of, "value")
    BY <1>2, <1>4, <1>5, TokenIs
  <1>6. CASE Here.is = "<!ENTITY %" /\ Begins("param", Here.of, "value")
    BY <1>2, <1>4, <1>6, TokenIs
  <1>7. CASE BeginElement
    BY <1>4, <1>7 DEF BeginElement
  <1>8. CASE BeginSection
    BY <1>4, <1>8 DEF BeginSection
  <1> QED BY <1>5, <1>6, <1>7, <1>8 DEF BeginEntity

\* Declarations go on.
LEMMA StepsKeep ==
    ASSUME CoreInv, Available, NEW step, NEW value, value \in Seq(Token), Steps(step, value)
    PROVE  CoreInv'
  <1>1. Top.pos \in Nat
    BY AtTop DEF CoreInv
  <1>2. DeclOK([decl EXCEPT !.step = step, !.value = value], Top.pos + 1,
               phase = "subset" /\ ~closed, skipping)
    BY <1>1, DeclGoesOn DEF CoreInv, DeclInv
  <1> QED BY <1>2, Proceeds DEF Steps

\* The parts of a declaration, one token each.
LEMMA MiddleKeeps ==
    ASSUME CoreInv, EntityValue \/ Literal \/ UnparsedEntity \/ ElementSpec \/ SectionKeyword
    PROVE  CoreInv'
  <1>1. Available
    BY DEF EntityValue, Literal, UnparsedEntity, ElementSpec, SectionKeyword, InSubset, InLiteral
  <1>2. << >> \in Seq(Token) /\ decl.value \in Seq(Token)
    BY DEF CoreInv, DeclInv, DeclOK
  <1>3. CASE Literal
    <2>1. Here \in Token
      BY <1>1, AtTop DEF CoreInv
    <2>2. Here.is = "&#37;" => Of("%", Here.of) \in Token
      BY <2>1, TokenIs, ReferenceIsToken
    <2> DEFINE read == IF Here.is = "&#37;" THEN Of("%", Here.of) ELSE Here
    <2>3. read \in Token
      BY <2>1, <2>2
    <2> HIDE DEF read
    <2>4. Append(decl.value, read) \in Seq(Token)
      BY <1>2, <2>3
    <2>5. Steps("end", decl.value) \/ Steps(decl.step, Append(decl.value, read))
      BY <1>3 DEF Literal, read
    <2> QED BY <1>1, <1>2, <2>4, <2>5, StepsKeep
  <1>4. CASE EntityValue
    BY <1>1, <1>2, <1>4, StepsKeep DEF EntityValue
  <1>5. CASE UnparsedEntity
    BY <1>1, <1>2, <1>5, StepsKeep DEF UnparsedEntity
  <1>6. CASE ElementSpec
    BY <1>1, <1>2, <1>6, StepsKeep DEF ElementSpec
  <1>7. CASE SectionKeyword
    BY <1>1, <1>2, <1>7, StepsKeep DEF SectionKeyword
  <1> QED BY <1>3, <1>4, <1>5, <1>6, <1>7

\* The name of an element.
LEMMA ElementNameKeeps == ASSUME CoreInv, ElementName PROVE CoreInv'
  <1>1. Available /\ decl.is = "element"
    BY DEF ElementName, InSubset
  <1>2. Top.pos \in Nat
    BY AtTop DEF CoreInv
  <1> DEFINE d == [decl EXCEPT !.step = "spec", !.of = Here.of]
  <1>3. /\ d.is = "element" /\ d.start = decl.start
        /\ d \in [is : {"none", "entity", "param", "element", "section", "skipped"}, of : {d.of},
                  step : {d.step}, value : Seq(Token), start : Nat, spliced : BOOLEAN]
    BY <1>1 DEF CoreInv, DeclInv, DeclOK
  <1>4. decl' = d
    BY DEF ElementName
  <1> HIDE DEF d
  <1>5. DeclOK(d, Top.pos + 1, phase = "subset" /\ ~closed, skipping)
    BY <1>1, <1>2, <1>3 DEF CoreInv, DeclInv, DeclOK
  <1>6. DeclOK(decl', Top.pos + 1, phase = "subset" /\ ~closed, skipping)
    BY <1>4, <1>5
  <1> QED BY <1>1, <1>6, Proceeds DEF ElementName

\* A step that may change a table, with one token read and no declaration after it.
LEMMA Ends ==
    ASSUME CoreInv, Available, Advance, Constant, decl' = NoDecl,
           UNCHANGED <<expansion_count, failed>>, TablesInv'
    PROVE  CoreInv'
  <1>1. doc' = doc /\ InputInv'
    BY DEF CoreInv, InputInv, Constant, input
  <1>2. Top.pos + 1 \in Nat \ {0} /\ Top.pos + 1 <= Len(Top.text) + 1
    BY AtTop DEF CoreInv
  <1>3. BuffersInv'
    BY <1>1, <1>2, Moves DEF CoreInv, Advance
  <1>4. DeclInv'
    BY NoDeclOK DEF DeclInv
  <1> QED BY <1>1, <1>3, <1>4, CountKept DEF CoreInv

\* An entity is declared, unless it was before.
LEMMA EndOfEntityKeeps == ASSUME CoreInv, EndOfEntityDeclaration PROVE CoreInv'
  <1>1. Available /\ Advance /\ Constant /\ decl' = NoDecl /\ UNCHANGED <<expansion_count, failed>>
        /\ UNCHANGED <<general, param, elements>>
    BY DEF EndOfEntityDeclaration, InSubset
  <1>2. Declares \in EntityType
    <2>1. Top.far \in BOOLEAN
      BY AtTop DEF CoreInv, FrameType
    <2>2. decl.value \in Seq(Token)
      BY DEF CoreInv, DeclInv, DeclOK
    <2>3. decl.step \in {"end", "external", "unparsed"}
      BY DEF EndOfEntityDeclaration
    <2> QED BY <2>1, <2>2, <2>3 DEF Declares, Entity, EntityType
  <1>3. CASE decl.is = "param"
    <2>1. decl.of \in Param
      BY <1>3 DEF CoreInv, DeclInv, DeclOK
    <2>2. pending_general' = pending_general
      BY <1>3 DEF EndOfEntityDeclaration
    <2>3. \/ pending_param' = pending_param
          \/ /\ Lookup(decl.of).kind = "none"
             /\ pending_param' = [pending_param EXCEPT ![decl.of] = Declares]
      BY <1>3 DEF EndOfEntityDeclaration
    <2>4. Lookup(decl.of).kind = "none" => param[decl.of].kind = "none"
      BY DEF Lookup
    <2>5. TablesInv'
      BY <1>1, <1>2, <2>1, <2>2, <2>3, <2>4 DEF CoreInv, TablesInv
    <2> QED BY <1>1, <2>5, Ends
  <1>4. CASE decl.is = "entity"
    <2>1. decl.of \in Name
      BY <1>4 DEF CoreInv, DeclInv, DeclOK
    <2>2. pending_param' = pending_param
      BY <1>4 DEF EndOfEntityDeclaration
    <2>3. \/ pending_general' = pending_general
          \/ /\ ~Declared(decl.of)
             /\ pending_general' = [pending_general EXCEPT ![decl.of] = Declares]
      BY <1>4 DEF EndOfEntityDeclaration
    <2>4. ~Declared(decl.of) => general[decl.of].kind = "none"
      BY DEF Declared
    <2>5. TablesInv'
      BY <1>1, <1>2, <2>1, <2>2, <2>3, <2>4 DEF CoreInv, TablesInv
    <2> QED BY <1>1, <2>5, Ends
  <1> QED BY <1>3, <1>4 DEF EndOfEntityDeclaration, IsEntity

\* An element is declared.
LEMMA EndOfElementKeeps == ASSUME CoreInv, EndOfElementDeclaration PROVE CoreInv'
  <1>1. Available /\ Advance /\ Constant /\ decl' = NoDecl /\ UNCHANGED <<expansion_count, failed>>
        /\ UNCHANGED <<general, pending_general, param, pending_param>>
    BY DEF EndOfElementDeclaration, InSubset
  <1>2. TablesInv'
    BY <1>1 DEF CoreInv, TablesInv
  <1> QED BY <1>1, <1>2, Ends

\* What is skipped.
LEMMA SkipKeeps ==
    ASSUME CoreInv, SkipReference \/ BeginSkipped \/ SkipDeclaration PROVE CoreInv'
  <1>1. Available /\ skipping /\ phase = "subset"
    BY DEF SkipReference, BeginSkipped, SkipDeclaration, Skips
  <1>2. PICK step : Skipped(step)
    BY DEF SkipReference, BeginSkipped, SkipDeclaration
  <1>3. ~closed
    BY DEF SkipReference, BeginSkipped, SkipDeclaration, Between, CoreInv, DeclInv, DeclOK
  <1>4. Top.pos \in Nat \ {0}
    BY AtTop DEF CoreInv
  <1>5. DeclOK(Decl("skipped", "", step, Top.pos), Top.pos + 1, TRUE, skipping)
    BY <1>1, <1>4, DeclBegins
  <1>6. (phase = "subset" /\ ~closed) = TRUE
    BY <1>1, <1>3
  <1>7. DeclOK(decl', Top.pos + 1, phase = "subset" /\ ~closed, skipping)
    BY <1>2, <1>5, <1>6, NoDeclOK DEF Skipped
  <1> QED BY <1>1, <1>2, <1>7, Proceeds DEF Skipped

\* What ends in a refusal.
LEMMA RefusalsKeep == ASSUME CoreInv, EndWithin \/ Malformed PROVE CoreInv'
  BY Stays DEF EndWithin, Malformed, Refuse, Running, Available

\* A step between declarations.
LEMMA Outside ==
    ASSUME CoreInv, decl.is = "none", UNCHANGED <<input, calling, decl>>,
           BuffersInv', TablesInv', CountInv',
           phase' \in {"prolog", "subset", "after", "root", "done"},
           failed' \in {"none", "refused", "limit"}
    PROVE  CoreInv'
  <1>1. InputInv'
    BY DEF CoreInv, InputInv, input
  <1>2. \A pos, open, skips : DeclOK(decl, pos, open, skips)
    BY DEF CoreInv, DeclInv, DeclOK
  <1>3. DeclInv'
    BY <1>2 DEF DeclInv
  <1> QED BY <1>1, <1>3 DEF CoreInv

\* Reading goes on, or does not.
LEMMA ReadsOn ==
    ASSUME CoreInv, doc' = doc, UNCHANGED frames \/ (Available /\ Advance)
    PROVE  BuffersInv'
  <1>1. CASE UNCHANGED frames
    BY <1>1 DEF CoreInv, BuffersInv
  <1>2. CASE Available /\ Advance
    <2>1. Top.pos + 1 \in Nat \ {0} /\ Top.pos + 1 <= Len(Top.text) + 1
      BY <1>2, AtTop DEF CoreInv
    <2> QED BY <1>2, <2>1, Moves DEF CoreInv, Advance
  <1> QED BY <1>1, <1>2

\* A comment, the root element and the ] of the subset.
LEMMA PlainKeeps == ASSUME CoreInv, Root \/ Comment \/ EndOfSubset PROVE CoreInv'
  <1>1. /\ UNCHANGED <<input, calling, decl, tables, expansion_count>> /\ failed = "none"
        /\ UNCHANGED frames \/ (Available /\ Advance)
        /\ phase' \in {phase, "root"} /\ failed' \in {failed, "refused"}
    BY DEF Root, Comment, EndOfSubset, status, Refuse, Sees, Available, Running
  <1>2. doc' = doc
    BY <1>1 DEF input
  <1>3. decl.is = "none"
    BY DEF Root, Comment, EndOfSubset, Between, CoreInv, DeclInv, DeclOK
  <1>4. BuffersInv' /\ TablesInv' /\ CountInv'
    BY <1>1, <1>2, ReadsOn, TablesKept, CountKept DEF CoreInv
  <1> QED BY <1>1, <1>3, <1>4, Outside DEF CoreInv, InputInv

\* The DOCTYPE begins.
LEMMA BeginDoctypeKeeps == ASSUME CoreInv, BeginDoctype PROVE CoreInv'
  <1>1. /\ UNCHANGED <<input, calling, decl, tables, expansion_count>> /\ failed = "none"
        /\ phase' \in {phase, "subset"} /\ failed' \in {failed, "refused"} /\ Available
        /\ \/ UNCHANGED frames
           \/ Top.pos < Limit /\ (MoveTo(Top.pos + 1) \/ MoveTo(Top.pos + 2))
    BY DEF BeginDoctype, Refuse, Sees, Available, Running
  <1>2. doc' = doc
    BY <1>1 DEF input
  <1>3. decl.is = "none"
    BY DEF BeginDoctype, CoreInv, DeclInv, DeclOK
  <1>4. Top.pos < Limit => /\ Top.pos + 1 \in Nat \ {0} /\ Top.pos + 1 <= Len(Top.text) + 1
                           /\ Top.pos + 2 \in Nat \ {0} /\ Top.pos + 2 <= Len(Top.text) + 1
    BY AtTop DEF CoreInv
  <1>5. BuffersInv'
    BY <1>1, <1>2, <1>4, Moves, ReadsOn DEF CoreInv
  <1>6. TablesInv' /\ CountInv'
    BY <1>1, <1>2, TablesKept, CountKept DEF CoreInv
  <1> QED BY <1>1, <1>3, <1>5, <1>6, Outside DEF CoreInv, InputInv

\* The declarations of a subset join those before them.
LEMMA CommitKeeps == ASSUME TablesInv, Commit PROVE TablesInv'
  <1>1. ASSUME NEW S, NEW old \in [S -> EntityType], NEW new \in [S -> EntityType]
        PROVE  Merged(old, new) \in [S -> EntityType]
    BY <1>1 DEF Merged
  <1>2. Undeclared \in EntityType /\ Undeclared.kind = "none"
    <2>1. << >> \in Seq(Token)
      OBVIOUS
    <2> QED BY <2>1 DEF Undeclared, EntityType
  <1>3. /\ general' \in [Name -> EntityType] /\ param' \in [Param -> EntityType]
        /\ pending_general' = [n \in Name |-> Undeclared]
        /\ pending_param' = [p \in Param |-> Undeclared]
    BY <1>1 DEF TablesInv, Commit
  <1> QED BY <1>2, <1>3 DEF TablesInv

\* The DOCTYPE ends, or its external subset is opened.
LEMMA EndOfDoctypeKeeps == ASSUME CoreInv, EndOfDoctype PROVE CoreInv'
  <1>1. /\ UNCHANGED <<input, calling, failed, decl, expansion_count>> /\ failed = "none"
        /\ Available /\ Depth = 1 /\ phase' \in {phase, "after"} /\ Commit /\ closed
    BY DEF EndOfDoctype, Sees, Available, Running
  <1>2. doc' = doc
    BY <1>1 DEF input
  <1>3. decl.is = "none"
    BY <1>1 DEF CoreInv, DeclInv, DeclOK
  <1> DEFINE here == WithTop([Top EXCEPT !.pos = Top.pos + 1])
             dtd  == Frame("[dtd]", doc.file["[dtd]"], TRUE)
  <1>4. frames' = here \/ frames' = Append(here, dtd)
    BY DEF EndOfDoctype
  <1>5. Buffers(doc.text, here) /\ Len(here) = 1
    <2>1. Top.pos + 1 \in Nat \ {0} /\ Top.pos + 1 <= Len(Top.text) + 1
      BY <1>1, AtTop DEF CoreInv
    <2> QED BY <1>1, <2>1, Moves DEF CoreInv
  <1>6. dtd \in FrameType /\ dtd.of = "[dtd]" /\ dtd.far /\ dtd.pos = 1
    <2>1. doc.file["[dtd]"] \in Seq(Token) /\ << >> \in Seq(BOOLEAN)
      BY DEF CoreInv, InputInv, Legal
    <2> QED BY <2>1 DEF Frame, FrameType, FrameNames
  <1> HIDE DEF here, dtd
  <1>7. Buffers(doc.text, Append(here, dtd))
    <2>1. \A i \in 1 .. Len(here) : here[i].of # dtd.of
      <3>1. here[1].of = ""
        BY <1>5 DEF Buffers
      <3>2. \A i \in 1 .. Len(here) : i = 1
        BY <1>5
      <3> QED BY <1>6, <3>1, <3>2
    <2>2. dtd.pos <= Len(dtd.text) + 1
      <3>1. Len(dtd.text) \in Nat
        BY <1>6 DEF FrameType
      <3> QED BY <1>6, <3>1
    <2> QED BY <1>5, <1>6, <2>1, <2>2, BuffersOpened
  <1>8. BuffersInv'
    BY <1>2, <1>4, <1>5, <1>7 DEF BuffersInv
  <1>9. TablesInv' /\ CountInv'
    BY <1>1, <1>2, CommitKeeps, CountKept DEF CoreInv
  <1> QED BY <1>1, <1>3, <1>8, <1>9, Outside DEF CoreInv, InputInv

\* The end of what was put in the place of a reference, or of the external subset.
LEMMA EndOfBufferKeeps ==
    ASSUME CoreInv, EndOfReplacement \/ EndOfExternalSubset PROVE CoreInv'
  <1>1. /\ UNCHANGED <<input, calling, failed, decl, expansion_count>> /\ failed = "none"
        /\ Between /\ phase' \in {phase, "after"} /\ frames' = Front(frames)
    BY DEF EndOfReplacement, EndOfExternalSubset, Running, Constant
  <1>2. doc' = doc /\ decl.is = "none"
    BY <1>1 DEF input, Between
  <1>3. BuffersInv'
    <2>1. Depth > 1
      <3>1. Depth > 1 \/ Depth = 2
        BY DEF EndOfReplacement, EndOfExternalSubset
      <3> QED BY <3>1
    <2>2. Buffers(doc.text, Front(frames))
      BY <2>1, BuffersClosed DEF BuffersInv, CoreInv, Depth
    <2> QED BY <1>1, <1>2, <2>2 DEF BuffersInv
  <1>4. TablesInv'
    BY TablesKept, CommitKeeps DEF EndOfReplacement, EndOfExternalSubset, CoreInv
  <1>5. CountInv'
    BY <1>1, <1>2, CountKept DEF CoreInv
  <1> QED BY <1>1, <1>2, <1>3, <1>4, <1>5, Outside DEF CoreInv, InputInv

\* A section begins to be read, or ends.
LEMMA SectionKeeps == ASSUME CoreInv, OpenInclude \/ EndOfInclude PROVE CoreInv'
  <1>1. /\ UNCHANGED <<tables, expansion_count, failed>> /\ Constant /\ failed = "none" /\ Available
    BY DEF OpenInclude, EndOfInclude, InSubset, Available, Running
  <1>2. doc' = doc /\ UNCHANGED <<input, calling, phase>>
    BY <1>1 DEF input, Constant
  <1>3. /\ Top \in FrameType /\ Top.pos + 1 \in Nat \ {0} /\ Top.pos + 1 <= Len(Top.text) + 1
    BY <1>1, AtTop DEF CoreInv
  <1>4. ASSUME NEW sections, sections \in Seq(BOOLEAN),
               frames' = WithTop([Top EXCEPT !.pos = Top.pos + 1, !.sections = sections])
        PROVE  BuffersInv'
    <2> DEFINE f == [Top EXCEPT !.pos = Top.pos + 1, !.sections = sections]
    <2>1. f \in FrameType /\ f.of = Top.of /\ f.far = Top.far /\ f.text = Top.text /\ f.pos = Top.pos + 1
      BY <1>3, <1>4 DEF FrameType
    <2> HIDE DEF f
    <2>2. f.pos <= Len(f.text) + 1
      BY <1>3, <2>1
    <2>3. doc' = doc /\ frames' = WithTop(f) => BuffersInv'
      BY <2>1, <2>2, TopChanged DEF CoreInv
    <2> QED BY <1>2, <1>4, <2>3 DEF f
  <1>5. Top.sections \in Seq(BOOLEAN)
    BY <1>3 DEF FrameType
  <1>6. CASE OpenInclude
    <2>1. PICK opener \in FromSplice(Top.pos) :
            frames' = WithTop([Top EXCEPT !.pos = Top.pos + 1, !.sections = Append(Top.sections, opener)])
      BY <1>6 DEF OpenInclude
    <2>2. opener \in BOOLEAN
      <3>1. CASE splice.in = 0
        BY <2>1, <3>1 DEF FromSplice
      <3>2. CASE splice.in # 0 /\ splice.in = Depth
        <4>1. opener = (Top.pos < splice.end)
          BY <2>1, <3>2 DEF FromSplice
        <4> QED BY <4>1
      <3>3. CASE splice.in # 0 /\ splice.in # Depth
        BY <2>1, <3>3 DEF FromSplice
      <3> QED BY <3>1, <3>2, <3>3
    <2>3. Append(Top.sections, opener) \in Seq(BOOLEAN)
      BY <1>5, <2>2
    <2>4. BuffersInv'
      BY <1>4, <2>1, <2>3
    <2>5. DeclInv'
      BY <1>6, NoDeclOK DEF DeclInv, OpenInclude
    <2>6. InputInv'
      BY <1>1 DEF CoreInv, InputInv, Constant, input
    <2> QED BY <1>1, <1>2, <2>4, <2>5, <2>6, TablesKept, CountKept DEF CoreInv
  <1>7. CASE EndOfInclude
    <2>1. frames' = WithTop([Top EXCEPT !.pos = Top.pos + 1, !.sections = Front(Top.sections)])
      BY <1>7 DEF EndOfInclude
    <2>2. Front(Top.sections) \in Seq(BOOLEAN)
      <3> DEFINE s == Top.sections
      <3>1. s \in Seq(BOOLEAN) /\ s # << >>
        BY <1>5, <1>7 DEF EndOfInclude
      <3> HIDE DEF s
      <3>2. SubSeq(s, 1, Len(s) - 1) \in Seq(BOOLEAN)
        BY <3>1
      <3> QED BY <3>2 DEF Front, s
    <2>3. BuffersInv'
      BY <1>4, <2>1, <2>2
    <2>4. decl.is = "none" /\ decl' = decl
      BY <1>7 DEF EndOfInclude, Between
    <2>5. TablesInv' /\ CountInv'
      BY <1>1, <1>2, TablesKept, CountKept DEF CoreInv
    <2> QED BY <1>1, <1>2, <2>3, <2>4, <2>5, Outside DEF CoreInv, InputInv
  <1> QED BY <1>6, <1>7

\* A section that is ignored.
LEMMA IgnoreKeeps == ASSUME CoreInv, IgnoreSection PROVE CoreInv'
  <1>1. /\ UNCHANGED <<tables, expansion_count>> /\ Constant /\ failed = "none" /\ Available
    BY DEF IgnoreSection, InSubset, Available, Running
  <1>2. CASE Closing = {}
    BY <1>1, <1>2, Stays DEF IgnoreSection, Refuse
  <1>3. CASE Closing # {}
    <2>1. MoveTo(Min(Closing) + 1) /\ decl' = NoDecl /\ UNCHANGED failed
      BY <1>3 DEF IgnoreSection
    <2>2. /\ Top.pos \in Nat /\ Limit \in Nat /\ Limit <= Len(Top.text) /\ Len(Top.text) \in Nat
      BY AtTop DEF CoreInv
    <2>3. Closing \in SUBSET Nat /\ \A pos \in Closing : pos <= Limit
      BY <2>2 DEF Closing
    <2>4. Min(Closing) \in Closing
      BY <1>3, <2>3, MinOf
    <2>5. Min(Closing) + 1 \in Nat \ {0} /\ Min(Closing) + 1 <= Len(Top.text) + 1
      <3> DEFINE m == Min(Closing)
      <3> HIDE DEF m
      <3>1. m \in Nat /\ m <= Limit
        BY <2>3, <2>4 DEF m
      <3>2. m + 1 \in Nat \ {0} /\ m + 1 <= Len(Top.text) + 1
        BY <2>2, <3>1
      <3> QED BY <3>2 DEF m
    <2>6. doc' = doc /\ InputInv'
      BY <1>1, <2>1 DEF CoreInv, InputInv, Constant, input
    <2>7. BuffersInv'
      BY <2>1, <2>5, <2>6, Moves DEF CoreInv
    <2>8. DeclInv'
      BY <2>1, NoDeclOK DEF DeclInv
    <2> QED BY <1>1, <2>1, <2>6, <2>7, <2>8, TablesKept, CountKept DEF CoreInv
  <1> QED BY <1>2, <1>3

\* A replacement text is counted.
LEMMA Counted ==
    ASSUME CoreInv, NEW text, text \in Seq(Token), Counts(text), doc' = doc
    PROVE  CountInv' /\ failed' \in {failed, "limit"}
  <1>1. Weight(text) \in Nat
    BY DEF Weight
  <1>2. expansion_count \in Nat /\ doc.limit \in Nat
    BY DEF CoreInv, CountInv, InputInv, Legal
  <1>3. /\ expansion_count' = expansion_count + Weight(text)
        /\ failed' = IF Exceeds(text) THEN "limit" ELSE failed
    BY DEF Counts
  <1>4. doc.limit > 0 /\ ~Exceeds(text) => expansion_count + Weight(text) <= doc.limit
    BY <1>1, <1>2 DEF Exceeds
  <1>5. expansion_count' \in Nat
    BY <1>1, <1>2, <1>3
  <1>6. LimitKept'
    BY <1>3, <1>4 DEF LimitKept
  <1> QED BY <1>3, <1>5, <1>6 DEF CountInv

\* A reference to a parameter entity, wherever it is, and the text it is replaced by.
LEMMA ReferenceIs ==
    ASSUME CoreInv, Available, Here.is = "%"
    PROVE  /\ Here \in Token /\ Here.of \in Param /\ Replacement(Here.of) \in Seq(Token)
           /\ Top \in FrameType /\ Top.text \in Seq(Token) /\ Top.pos \in 1 .. Len(Top.text)
           /\ Top.pos + 1 \in Nat \ {0} /\ Top.pos + 1 <= Len(Top.text) + 1
  <1>1. Here \in Token /\ Top \in FrameType
    BY AtTop DEF CoreInv
  <1>2. Here.of \in Param
    BY <1>1, TokenIs
  <1>3. Replacement(Here.of) \in Seq(Token)
    BY <1>2, ReplacementIs DEF CoreInv
  <1>4. Top.text \in Seq(Token)
    BY <1>1 DEF FrameType
  <1>5. Top.pos \in 1 .. Len(Top.text)
    BY AtTop DEF CoreInv
  <1>6. Top.pos + 1 \in Nat \ {0} /\ Top.pos + 1 <= Len(Top.text) + 1
    BY <1>4, <1>5
  <1> QED BY <1>1, <1>2, <1>3, <1>4, <1>5, <1>6

\* A reference in a literal: the text is copied into the value.
LEMMA ReferenceInLiteralKeeps == ASSUME CoreInv, ReferenceInLiteral PROVE CoreInv'
  <1>1. Available /\ failed = "none" /\ Here.is = "%" /\ Constant /\ UNCHANGED tables
    BY DEF ReferenceInLiteral, InLiteral, InSubset, Available, Running
  <1>2. doc' = doc
    BY <1>1 DEF Constant, input
  <1>3. CASE Refusable
    BY <1>1, <1>3, Stays DEF ReferenceInLiteral, Refuse
  <1>4. CASE ~Refusable
    <2> DEFINE text == Replacement(Here.of)
               d    == [decl EXCEPT !.value = decl.value \o text]
    <2>1. text \in Seq(Token)
      BY <1>1, ReferenceIs
    <2>2. Counts(text) /\ (UNCHANGED <<decl, frames>> \/ (decl' = d /\ Advance))
      BY <1>4 DEF ReferenceInLiteral
    <2>3. decl.value \o text \in Seq(Token)
      BY <2>1 DEF CoreInv, DeclInv, DeclOK
    <2> HIDE DEF text
    <2>4. CountInv' /\ failed' \in {failed, "limit"}
      BY <1>2, <2>1, <2>2, Counted
    <2>5. InputInv'
      BY <1>1, <2>4 DEF CoreInv, InputInv, Constant, input
    <2>6. CASE UNCHANGED <<decl, frames>>
      <3>1. BuffersInv' /\ DeclInv'
        BY <1>1, <1>2, <2>6 DEF CoreInv, BuffersInv, DeclInv, Constant, Top, Depth
      <3> QED BY <1>1, <2>4, <2>5, <3>1, TablesKept DEF CoreInv
    <2>7. CASE decl' = d /\ Advance
      <3>1. BuffersInv' /\ Top'.pos = Top.pos + 1
        BY <1>1, <1>2, <2>7, ReferenceIs, Moves DEF CoreInv, Advance
      <3>2. /\ d.is = decl.is /\ d.of = decl.of /\ d.start = decl.start
            /\ d \in [is : {"none", "entity", "param", "element", "section", "skipped"}, of : {d.of},
                      step : {d.step}, value : Seq(Token), start : Nat, spliced : BOOLEAN]
        BY <2>3 DEF CoreInv, DeclInv, DeclOK
      <3>3. Top.pos \in Nat
        BY <1>1, ReferenceIs
      <3> HIDE DEF d
      <3>4. DeclOK(d, Top.pos + 1, phase = "subset" /\ ~closed, skipping)
        BY <3>2, <3>3 DEF CoreInv, DeclInv, DeclOK
      <3>5. DeclInv'
        BY <1>1, <2>7, <3>1, <3>4 DEF DeclInv, Constant
      <3> QED BY <1>1, <2>4, <2>5, <3>1, <3>5, TablesKept DEF CoreInv
    <2> QED BY <2>2, <2>6, <2>7
  <1> QED BY <1>3, <1>4

\* A reference within a declaration: the text is spliced in.
LEMMA SpliceKeeps == ASSUME CoreInv, Splice PROVE CoreInv'
  <1>1. Available /\ failed = "none" /\ Here.is = "%" /\ Constant /\ UNCHANGED tables
    BY DEF Splice, InSubset, Available, Running
  <1>2. doc' = doc
    BY <1>1 DEF Constant, input
  <1>3. CASE Refusable
    BY <1>1, <1>3, Stays DEF Splice, Refuse
  <1>4. CASE ~Refusable
    <2> DEFINE text == Replacement(Here.of)
               d    == [decl EXCEPT !.spliced = TRUE]
               left == SubSeq(Top.text, 1, Top.pos - 1)
               rest == SubSeq(Top.text, Top.pos + 1, Len(Top.text))
               all  == left \o text \o rest
               f    == [Top EXCEPT !.text = all]
    <2>1. /\ text \in Seq(Token) /\ Top \in FrameType /\ Top.text \in Seq(Token)
          /\ Top.pos \in 1 .. Len(Top.text) /\ Top.far
      BY <1>1, <1>4, ReferenceIs DEF Refusable
    <2>2. Counts(text) /\ (UNCHANGED <<decl, frames>> \/ (decl' = d /\ frames' = WithTop(f)))
      BY <1>4 DEF Splice
    <2> HIDE DEF text
    <2>3. CountInv' /\ failed' \in {failed, "limit"}
      BY <1>2, <2>1, <2>2, Counted
    <2>4. InputInv'
      BY <1>1, <2>3 DEF CoreInv, InputInv, Constant, input
    <2>5. CASE UNCHANGED <<decl, frames>>
      <3>1. BuffersInv' /\ DeclInv'
        BY <1>1, <1>2, <2>5 DEF CoreInv, BuffersInv, DeclInv, Constant, Top, Depth
      <3> QED BY <1>1, <2>3, <2>4, <3>1, TablesKept DEF CoreInv
    <2>6. CASE decl' = d /\ frames' = WithTop(f)
      <3>1. left \in Seq(Token) /\ Len(left) = Top.pos - 1 /\ rest \in Seq(Token)
        <4> DEFINE s == Top.text
                   p == Top.pos
        <4>1. s \in Seq(Token) /\ p \in 1 .. Len(s) /\ Len(s) \in Nat
          BY <2>1
        <4> HIDE DEF s, p
        <4>2. SubSeq(s, 1, p - 1) \in Seq(Token) /\ Len(SubSeq(s, 1, p - 1)) = p - 1
          BY <4>1
        <4>3. SubSeq(s, p + 1, Len(s)) \in Seq(Token)
          BY <4>1
        <4> QED BY <4>2, <4>3 DEF s, p
      <3> HIDE DEF left, rest
      <3>2. all \in Seq(Token) /\ Top.pos <= Len(all) + 1
        <4>1. left \o text \in Seq(Token) /\ Len(left \o text) = Len(left) + Len(text)
              /\ Len(text) \in Nat /\ Len(rest) \in Nat /\ Len(left) \in Nat
          <5>1. text \in Seq(Token) /\ left \in Seq(Token) /\ rest \in Seq(Token)
            BY <2>1, <3>1
          <5> QED BY <5>1
        <4>2. all \in Seq(Token)
          BY <3>1, <4>1
        <4>3. Len(all) = Len(left \o text) + Len(rest)
          BY <3>1, <4>1
        <4>4. Top.pos \in Nat
          BY <2>1
        <4> HIDE DEF all
        <4>5. Top.pos <= Len(all) + 1
          BY <3>1, <4>1, <4>3, <4>4
        <4> QED BY <4>2, <4>5
      <3> HIDE DEF all
      <3>3. f \in FrameType /\ f.of = Top.of /\ f.far = Top.far /\ f.pos = Top.pos /\ f.text = all
        BY <2>1, <3>2 DEF FrameType
      <3> HIDE DEF f
      <3>4. BuffersInv' /\ Top' = f
        BY <1>2, <2>1, <2>6, <3>2, <3>3, TopChanged DEF CoreInv
      <3>5. /\ d.is = decl.is /\ d.of = decl.of /\ d.start = decl.start
            /\ d \in [is : {"none", "entity", "param", "element", "section", "skipped"}, of : {d.of},
                      step : {d.step}, value : Seq(Token), start : Nat, spliced : BOOLEAN]
        BY DEF CoreInv, DeclInv, DeclOK
      <3> HIDE DEF d
      <3>6. DeclOK(d, Top.pos, phase = "subset" /\ ~closed, skipping)
        BY <3>5 DEF CoreInv, DeclInv, DeclOK
      <3>7. DeclInv'
        BY <1>1, <2>6, <3>3, <3>4, <3>6 DEF DeclInv, Constant
      <3> QED BY <1>1, <2>3, <2>4, <3>4, <3>7, TablesKept DEF CoreInv
    <2> QED BY <2>2, <2>5, <2>6
  <1> QED BY <1>3, <1>4

\* A reference between declarations: a buffer is put in its place.
LEMMA ReferenceKeeps == ASSUME CoreInv, Reference PROVE CoreInv'
  <1>1. Available /\ failed = "none" /\ Here.is = "%" /\ Constant /\ UNCHANGED <<tables, decl>>
        /\ decl.is = "none"
    BY DEF Reference, InSubset, Available, Running, Between
  <1>2. doc' = doc /\ UNCHANGED <<input, calling, phase>>
    BY <1>1 DEF Constant, input
  <1>3. CASE Lookup(Here.of).kind = "none" \/ Here.of \in Opened
    BY <1>1, <1>3, Stays DEF Reference, Refuse
  <1>4. CASE ~(Lookup(Here.of).kind = "none" \/ Here.of \in Opened)
    <2> DEFINE text == Replacement(Here.of)
               far  == Top.far \/ Lookup(Here.of).kind = "external"
               f    == Frame(Here.of, text, far)
               here == WithTop([Top EXCEPT !.pos = Top.pos + 1])
    <2>1. /\ text \in Seq(Token) /\ Top \in FrameType /\ Here.of \in Param
          /\ Top.pos + 1 \in Nat \ {0} /\ Top.pos + 1 <= Len(Top.text) + 1
      BY <1>1, ReferenceIs
    <2>2. Counts(text) /\ (UNCHANGED frames \/ frames' = Append(here, f))
      BY <1>4 DEF Reference
    <2> HIDE DEF text
    <2>3. CountInv' /\ failed' \in {failed, "limit"}
      BY <1>2, <2>1, <2>2, Counted
    <2>4. /\ Buffers(doc.text, here) /\ Len(here) = Depth /\ here[Len(here)].far = Top.far
          /\ \A i \in 1 .. Depth : here[i].of = frames[i].of
      <3>1. Buffers(doc.text, here) /\ Len(here) = Depth
        BY <2>1, Moves DEF CoreInv
      <3>2. /\ Depth \in Nat \ {0} /\ frames \in Seq(FrameType) /\ Depth = Len(frames)
        BY TopIs DEF CoreInv, BuffersInv, Depth
      <3>3. [Top EXCEPT !.pos = Top.pos + 1].far = Top.far /\ [Top EXCEPT !.pos = Top.pos + 1].of = Top.of
        BY <2>1 DEF FrameType
      <3>4. here[Depth] = [Top EXCEPT !.pos = Top.pos + 1]
            /\ \A i \in 1 .. Depth : i # Depth => here[i] = frames[i]
        BY <3>2 DEF WithTop
      <3> HIDE DEF here
      <3>5. Top.of = frames[Depth].of
        BY DEF Top
      <3> QED BY <3>1, <3>2, <3>3, <3>4, <3>5
    <2>5. f \in FrameType /\ f.of = Here.of /\ f.far = far /\ f.pos = 1 /\ f.text = text
      <3>1. << >> \in Seq(BOOLEAN) /\ Here.of \in FrameNames /\ 1 \in Nat \ {0}
        <4>1. Here.of \in FrameNames
          BY <2>1 DEF FrameNames
        <4> QED BY <4>1
      <3>2. far \in BOOLEAN
        <4>1. Top.far \in BOOLEAN
          BY <2>1 DEF FrameType
        <4> QED BY <4>1
      <3> HIDE DEF far
      <3> QED BY <2>1, <3>1, <3>2 DEF Frame, FrameType
    <2> HIDE DEF f, here
    <2>6. \A i \in 1 .. Len(here) : here[i].of # f.of
      <3>1. frames[1].of = ""
        BY DEF CoreInv, BuffersInv, Buffers
      <3>2. "" \notin Param
        BY DoctypeAssumption
      <3>3. \A i \in 2 .. Depth : frames[i].of # Here.of
        BY <1>4 DEF Opened
      <3>4. Depth \in Nat
        BY AtTop DEF CoreInv
      <3>5. \A i \in 1 .. Depth : i = 1 \/ i \in 2 .. Depth
        BY <3>4
      <3> QED BY <2>1, <2>4, <2>5, <3>1, <3>2, <3>3, <3>5
    <2>7. f.pos <= Len(f.text) + 1
      <3>1. Len(f.text) \in Nat
        BY <2>1, <2>5
      <3> QED BY <2>5, <3>1
    <2>8. here[Len(here)].far => f.far
      BY <2>4, <2>5
    <2>9. Buffers(doc.text, Append(here, f))
      BY <2>4, <2>5, <2>6, <2>7, <2>8, BuffersOpened
    <2>10. BuffersInv'
      BY <1>2, <2>2, <2>9 DEF CoreInv, BuffersInv
    <2> QED BY <1>1, <1>2, <2>3, <2>10, TablesKept, Outside DEF CoreInv, InputInv
  <1> QED BY <1>3, <1>4

\* The end of what has arrived: a declaration will be read again.
LEMMA NeedMoreKeeps == ASSUME CoreInv, NeedMore PROVE CoreInv'
  <1>1. /\ UNCHANGED <<input, phase, failed, tables, expansion_count>> /\ decl' = NoDecl
        /\ calling' = FALSE
        /\ UNCHANGED frames \/ (decl.is # "none" /\ MoveTo(decl.start))
    BY DEF NeedMore, tables
  <1>2. doc' = doc /\ InputInv'
    BY <1>1 DEF CoreInv, InputInv, input
  <1>3. CASE UNCHANGED frames
    <2>1. BuffersInv'
      BY <1>2, <1>3 DEF CoreInv, BuffersInv
    <2> QED BY <1>1, <1>2, <2>1, NoDeclOK, TablesKept, CountKept DEF CoreInv, DeclInv
  <1>4. CASE decl.is # "none" /\ MoveTo(decl.start)
    <2>1. decl.start \in 1 .. Top.pos
      BY <1>4 DEF CoreInv, DeclInv, DeclOK
    <2>2. Top.pos \in Nat /\ Top.pos <= Len(Top.text) + 1 /\ Len(Top.text) \in Nat
      BY AtTop DEF CoreInv
    <2>3. decl.start \in Nat \ {0} /\ decl.start <= Len(Top.text) + 1
      BY <2>1, <2>2
    <2>4. BuffersInv'
      BY <1>2, <1>4, <2>3, Moves DEF CoreInv
    <2> QED BY <1>1, <1>2, <2>4, NoDeclOK, TablesKept, CountKept DEF CoreInv, DeclInv
  <1> QED BY <1>1, <1>3, <1>4

\* The calls of the application.
LEMMA CallsKeep == ASSUME CoreInv, Receive \/ Close PROVE CoreInv'
  <1>1. CASE Receive
    <2>1. /\ UNCHANGED <<doc, status, frames, decl, tables, expansion_count>> /\ calling' = TRUE
          /\ chunks' = chunks + 1 /\ chunks < doc.pieces /\ arrived < Len(doc.text)
          /\ arrived' \in {Len(doc.text)} \cup arrived + 1 .. Len(doc.text)
      BY <1>1 DEF Receive
    <2>2. arrived \in Nat /\ chunks \in Nat /\ Len(doc.text) \in Nat /\ doc.pieces \in Nat
      BY DEF CoreInv, InputInv, Legal
    <2>3. arrived' \in 0 .. Len(doc.text) /\ chunks' \in 0 .. doc.pieces
      BY <2>1, <2>2
    <2>4. InputInv'
      BY <2>1, <2>3 DEF CoreInv, InputInv, status
    <2>5. BuffersInv' /\ DeclInv'
      BY <2>1 DEF CoreInv, BuffersInv, DeclInv, Top, Depth, status
    <2> QED BY <2>1, <2>4, <2>5, TablesKept, CountKept DEF CoreInv, status
  <1>2. CASE Close
    <2>1. /\ UNCHANGED <<input, calling, skipping, closed, frames, decl, tables, expansion_count>>
          /\ failed = "none" /\ failed' \in {"none", "refused"} /\ phase' \in {phase, "done"}
          /\ phase' = "done" => phase = "root"
      BY <1>2 DEF Close, Refuse
    <2>2. doc' = doc /\ InputInv'
      BY <2>1 DEF CoreInv, InputInv, input
    <2>3. BuffersInv'
      BY <2>1, <2>2 DEF CoreInv, BuffersInv
    <2>4. DeclInv'
      <3>1. (phase = "subset" /\ ~closed)' = (phase = "subset" /\ ~closed)
        BY <2>1
      <3> QED BY <2>1, <3>1 DEF CoreInv, DeclInv, Top, Depth
    <2> QED BY <2>1, <2>2, <2>3, <2>4, TablesKept, CountKept DEF CoreInv
  <1> QED BY <1>1, <1>2

\* Every document begins so.
LEMMA InitCore == Init => CoreInv
  <1> SUFFICES ASSUME NEW d, Legal(d), Fresh(d) PROVE CoreInv
    BY DoctypeAssumption DEF Init
  <1>1. d.text \in Seq(Token) /\ Len(d.text) \in Nat /\ d.pieces \in Nat /\ << >> \in Seq(BOOLEAN)
    <2>1. d.text \in Seq(Token) /\ d.pieces \in Nat
      BY DEF Legal
    <2> QED BY <2>1
  <1>0. /\ doc = d /\ arrived = 0 /\ chunks = 0 /\ phase = "prolog" /\ failed = "none"
        /\ calling = FALSE /\ expansion_count = 0
    BY DEF Fresh
  <1>2. InputInv
    <2>1. 0 \in 0 .. Len(d.text) /\ 0 \in 0 .. d.pieces
      BY <1>1
    <2>2. Legal(doc) /\ arrived \in 0 .. Len(doc.text) /\ chunks \in 0 .. doc.pieces
      BY <1>0, <2>1
    <2> QED BY <1>0, <2>2 DEF InputInv
  <1>3. BuffersInv
    <2> DEFINE f == Frame("", d.text, FALSE)
    <2>1. f \in FrameType /\ f.of = "" /\ f.text = d.text /\ ~f.far /\ f.pos = 1
      BY <1>1 DEF Frame, FrameType, FrameNames
    <2>2. frames = <<f>> /\ doc = d
      BY DEF Fresh
    <2> HIDE DEF f
    <2>3. Len(frames) = 1 /\ frames[1] = f /\ frames \in Seq(FrameType)
      <3>1. ASSUME NEW g \in FrameType PROVE Len(<<g>>) = 1 /\ <<g>>[1] = g /\ <<g>> \in Seq(FrameType)
        OBVIOUS
      <3>2. f \in FrameType /\ frames = <<f>>
        BY <2>1, <2>2
      <3> QED BY ONLY <3>1, <3>2
    <2>4. f.pos <= Len(f.text) + 1
      <3>1. f.pos = 1 /\ f.text = d.text
        BY <2>1
      <3>2. 1 <= Len(d.text) + 1
        BY ONLY <1>1
      <3> QED BY <3>1, <3>2
    <2>5. \A i \in 1 .. Len(frames) : i = 1
      BY <2>3
    <2>6. frames[1].of = "" /\ frames[1].text = doc.text /\ ~frames[1].far
      BY <2>1, <2>2, <2>3
    <2>7. \A i \in 1 .. Len(frames) : frames[i].pos <= Len(frames[i].text) + 1
      BY <2>3, <2>4, <2>5
    <2>8. \A i \in 1 .. Len(frames) : ~ (i > 1)
      BY <2>5
    <2>9. \A i \in 1 .. Len(frames) : i > 1 /\ frames[i - 1].far => frames[i].far
      BY ONLY <2>8
    <2>10. \A i, j \in 1 .. Len(frames) : frames[i].of = frames[j].of => i = j
      <3>1. \A i, j \in 1 .. Len(frames) : i = 1 /\ j = 1
        BY ONLY <2>5
      <3> QED BY ONLY <3>1
    <2>11. Len(frames) > 0
      BY <2>3
    <2> QED BY <2>3, <2>6, <2>7, <2>9, <2>10, <2>11 DEF BuffersInv, Buffers
  <1>4. DeclInv
    BY NoDeclOK DEF Fresh, DeclInv
  <1>5. TablesInv
    <2>1. Undeclared \in EntityType /\ Undeclared.kind = "none"
      <3>1. << >> \in Seq(Token)
        OBVIOUS
      <3> QED BY <3>1 DEF Undeclared, EntityType
    <2> QED BY <2>1 DEF TablesInv, Fresh
  <1>6. CountInv
    <2>1. doc.limit \in Nat
      BY <1>0 DEF Legal
    <2> QED BY <1>0, <2>1 DEF CountInv, LimitKept
  <1> QED BY <1>2, <1>3, <1>4, <1>5, <1>6 DEF CoreInv

\* Every step keeps the invariant.
LEMMA NextCore == CoreInv /\ [Next]_vars => CoreInv'
  <1> SUFFICES ASSUME CoreInv, [Next]_vars PROVE CoreInv'
    OBVIOUS
  <1>1. CASE Next
    BY <1>1, BeginDoctypeKeeps, PlainKeeps, EndOfDoctypeKeeps, EndOfBufferKeeps, BeginKeeps,
       MiddleKeeps, ReferenceInLiteralKeeps, EndOfEntityKeeps, ElementNameKeeps,
       EndOfElementKeeps, SectionKeeps, IgnoreKeeps, SpliceKeeps, ReferenceKeeps, RefusalsKeep,
       SkipKeeps, NeedMoreKeeps, CallsKeep DEF Next, Scan
  <1>2. CASE UNCHANGED vars
    <2>1. UNCHANGED <<doc, arrived, chunks, phase, failed, calling, frames, decl, closed, skipping,
                      expansion_count, tables>>
      BY <1>2 DEF vars, input, status
    <2>2. InputInv' /\ BuffersInv' /\ DeclInv'
      BY <2>1 DEF CoreInv, InputInv, BuffersInv, DeclInv, Top, Depth
    <2>3. CountInv'
      BY <2>1, CountKept DEF CoreInv
    <2> QED BY <2>1, <2>2, <2>3, TablesKept DEF CoreInv
  <1> QED BY <1>1, <1>2

\* The inductive invariant: the buffers, the declaration being read, the tables
\* and the count.
THEOREM Core == Spec => []CoreInv
  BY InitCore, NextCore, PTL DEF Spec
-----------------------------------------------------------------------------
(* What it is for                                                          *)

\* The buffers are within one another, each of another entity, and no more
\* than there are entities; external text stays external however deep.
THEOREM DoctypeTypes == Spec => []TypeOK
  <1>1. CoreInv => TypeOK
    <2> SUFFICES ASSUME CoreInv PROVE TypeOK
      OBVIOUS
    <2>1. frames \in Seq(FrameType) /\ DOMAIN frames = 1 .. Len(frames) /\ Len(frames) \in Nat
      <3>1. frames \in Seq(FrameType)
        BY DEF CoreInv, BuffersInv, Buffers
      <3> QED BY <3>1
    <2>2. Len(frames) \in 1 .. Cardinality(Param) + 2
      BY BuffersBounded DEF CoreInv, BuffersInv
    <2>3. ASSUME NEW i \in DOMAIN frames
          PROVE  /\ frames[i].text \in Seq(Token) /\ frames[i].pos \in 1 .. Len(frames[i].text) + 1
                 /\ (i > 1 /\ frames[i - 1].far) => frames[i].far
      <3>1. frames[i] \in FrameType
        BY <2>1
      <3>2. frames[i].text \in Seq(Token) /\ frames[i].pos \in Nat \ {0}
        BY <3>1 DEF FrameType
      <3>3. frames[i].pos <= Len(frames[i].text) + 1
            /\ ((i > 1 /\ frames[i - 1].far) => frames[i].far)
        BY <2>1 DEF CoreInv, BuffersInv, Buffers
      <3>4. Len(frames[i].text) \in Nat
        BY <3>2
      <3> QED BY <3>2, <3>3, <3>4
    <2>4. IsInjective([i \in DOMAIN frames |-> frames[i].of])
      BY <2>1 DEF IsInjective, CoreInv, BuffersInv, Buffers
    <2> QED BY <2>2, <2>3, <2>4 DEF TypeOK, CoreInv, InputInv
  <1> QED BY <1>1, Core, PTL

\* However often the entities are referred to, no more is put in than the limit
\* allows, unless the parser has stopped.
THEOREM TheLimitIsKept == Spec => []LimitKept
  <1>1. CoreInv => LimitKept
    BY DEF CoreInv, CountInv
  <1> QED BY <1>1, Core, PTL
-----------------------------------------------------------------------------
(* The first declaration binds                                             *)

\* What is declared when the declarations of a subset join those before them.
LEMMA CommitGrows ==
    ASSUME TablesInv, Commit
    PROVE  /\ \A n \in Name : Binding(n).kind # "none" =>
                    Binding(n)' = Binding(n) /\ general'[n] = Binding(n)
           /\ \A p \in Param : Lookup(p).kind # "none" => Lookup(p)' = Lookup(p)
  <1>1. ASSUME NEW n \in Name, Binding(n).kind # "none"
        PROVE  Binding(n)' = Binding(n) /\ general'[n] = Binding(n)
    <2>1. general'[n] = IF general[n].kind # "none" THEN general[n] ELSE pending_general[n]
      BY DEF Commit, Merged, TablesInv
    <2>2. pending_general'[n].kind = "none"
      BY DEF Commit, Undeclared
    <2>3. pending_general[n].kind = "none" \/ general[n].kind = "none"
      BY DEF TablesInv
    <2> QED BY <1>1, <2>1, <2>2, <2>3 DEF Binding
  <1>2. ASSUME NEW p \in Param, Lookup(p).kind # "none" PROVE Lookup(p)' = Lookup(p)
    <2>1. param'[p] = IF param[p].kind # "none" THEN param[p] ELSE pending_param[p]
      BY DEF Commit, Merged, TablesInv
    <2>2. pending_param'[p].kind = "none"
      BY DEF Commit, Undeclared
    <2>3. pending_param[p].kind = "none" \/ param[p].kind = "none"
      BY DEF TablesInv
    <2> QED BY <1>2, <2>1, <2>2, <2>3 DEF Lookup
  <1> QED BY <1>1, <1>2

\* Nothing that is declared is lost or declared anew.
Grows ==
    /\ KeepsBindings
    /\ \A n \in Name : general[n].kind # "none" => general'[n] = general[n]
    /\ elements \subseteq elements'

\* A step that leaves the tables alone.
LEMMA NothingLost == ASSUME UNCHANGED tables PROVE Grows
  BY DEF tables, Grows, KeepsBindings, Binding, Lookup

\* A declaration of an entity, of one that is declared or not.
LEMMA EndOfEntityGrows == ASSUME CoreInv, EndOfEntityDeclaration PROVE Grows
  <1>1. UNCHANGED <<general, param, elements>>
    BY DEF EndOfEntityDeclaration
  <1>2. CASE decl.is = "param"
    <2>1. decl.of \in Param
      BY <1>2 DEF CoreInv, DeclInv, DeclOK
    <2>2. pending_general' = pending_general
      BY <1>2 DEF EndOfEntityDeclaration
    <2>3. \A p \in Param : Lookup(p).kind # "none" => pending_param'[p] = pending_param[p]
      BY <1>2, <2>1 DEF EndOfEntityDeclaration, CoreInv, TablesInv
    <2> QED BY <1>1, <2>2, <2>3 DEF Grows, KeepsBindings, Binding, Lookup
  <1>3. CASE decl.is = "entity"
    <2>1. decl.of \in Name
      BY <1>3 DEF CoreInv, DeclInv, DeclOK
    <2>2. pending_param' = pending_param
      BY <1>3 DEF EndOfEntityDeclaration
    <2>3. \A n \in Name : Binding(n).kind # "none" => pending_general'[n] = pending_general[n]
      <3>1. \A n \in Name : Binding(n).kind # "none" => Declared(n)
        BY DEF Binding, Declared
      <3>2. \/ pending_general' = pending_general
            \/ /\ ~Declared(decl.of)
               /\ pending_general' = [pending_general EXCEPT ![decl.of] = Declares]
        BY <1>3 DEF EndOfEntityDeclaration
      <3> QED BY <2>1, <3>1, <3>2 DEF CoreInv, TablesInv
    <2> QED BY <1>1, <2>2, <2>3 DEF Grows, KeepsBindings, Binding, Lookup
  <1> QED BY <1>2, <1>3 DEF EndOfEntityDeclaration, IsEntity

\* The end of a subset.
LEMMA CommitsGrow == ASSUME CoreInv, EndOfDoctype \/ EndOfExternalSubset PROVE Grows
  <1>1. Commit /\ TablesInv /\ elements' = elements
    BY DEF EndOfDoctype, EndOfExternalSubset, Commit, CoreInv
  <1>2. KeepsBindings
    BY <1>1, CommitGrows DEF KeepsBindings
  <1>3. \A n \in Name : general[n].kind # "none" => general'[n] = general[n]
    BY <1>1 DEF Commit, Merged, TablesInv
  <1> QED BY <1>1, <1>2, <1>3 DEF Grows

\* A declaration of an element.
LEMMA EndOfElementGrows == ASSUME CoreInv, EndOfElementDeclaration PROVE Grows
  BY DEF EndOfElementDeclaration, Grows, KeepsBindings, Binding, Lookup

\* No step loses a declaration or replaces it.
LEMMA EveryStepGrows == ASSUME CoreInv, [Next]_vars PROVE Grows
  <1>1. ASSUME BeginEntity \/ BeginElement \/ BeginSection \/ EntityValue \/ Literal
                 \/ UnparsedEntity \/ ElementSpec \/ SectionKeyword
        PROVE  Grows
    BY <1>1, NothingLost DEF BeginEntity, BeginElement, BeginSection, Begins, EntityValue, Literal,
       UnparsedEntity, ElementSpec, SectionKeyword, Steps
  <1>2. ASSUME SkipReference \/ BeginSkipped \/ SkipDeclaration PROVE Grows
    BY <1>2, NothingLost DEF SkipReference, BeginSkipped, SkipDeclaration, Skipped
  <1>3. ASSUME BeginDoctype \/ Root \/ Comment \/ EndOfSubset \/ ElementName \/ ReferenceInLiteral
                 \/ OpenInclude \/ EndOfInclude \/ IgnoreSection \/ Splice \/ Reference
        PROVE  Grows
    BY <1>3, NothingLost DEF BeginDoctype, Root, Comment, EndOfSubset, ElementName,
       ReferenceInLiteral, OpenInclude, EndOfInclude, IgnoreSection, Splice, Reference
  <1>4. ASSUME EndOfReplacement \/ EndWithin \/ Malformed \/ NeedMore \/ Receive \/ Close
        PROVE  Grows
    BY <1>4, NothingLost DEF EndOfReplacement, EndWithin, Malformed, NeedMore, Receive, Close
  <1>5. ASSUME UNCHANGED vars PROVE Grows
    BY <1>5, NothingLost DEF vars
  <1> QED BY <1>1, <1>2, <1>3, <1>4, <1>5, EndOfEntityGrows, CommitsGrow, EndOfElementGrows
          DEF Next, Scan

\* A name once declared is never declared anew, in whichever subset or
\* replacement text, and no commit, refusal or chunk boundary forgets it.
THEOREM TheFirstDeclarationBinds == Spec => FirstBinds
  <1>1. CoreInv /\ [Next]_vars => [KeepsBindings]_vars
    BY EveryStepGrows DEF Grows
  <1> QED BY <1>1, Core, PTL DEF Spec, FirstBinds
-----------------------------------------------------------------------------
(* What is reported                                                        *)
Kinds == {OfGeneral, OfParam, {"element"}}

IsSeq(s) == \E S : s \in Seq(S)

\* What an event names is a name of its kind.
Names(event) ==
    /\ event[1] \in OfGeneral => event[2] \in Name
    /\ event[1] \in OfParam => event[2] \in Param

Once(s) ==
    \A kinds \in Kinds : \A i, j \in 1 .. Len(s) :
        s[i][1] \in kinds /\ s[j][1] \in kinds /\ s[i][2] = s[j][2] => i = j

\* What t reports, s does not.
New(s, t) ==
    \A kinds \in Kinds : \A i \in 1 .. Len(s), j \in 1 .. Len(t) :
        ~ (s[i][1] \in kinds /\ t[j][1] \in kinds /\ s[i][2] = t[j][2])

Good(s) ==
    /\ IsSeq(s) /\ Once(s)
    /\ \A i \in 1 .. Len(s) : Names(s[i]) /\ Agrees(s[i])

HeardInv == Good(heard)

\* Two sequences, one after the other.
LEMMA Joined ==
    ASSUME NEW s, NEW t, IsSeq(s), IsSeq(t)
    PROVE  /\ IsSeq(s \o t) /\ Len(s) \in Nat /\ Len(t) \in Nat /\ Len(s \o t) = Len(s) + Len(t)
           /\ \A i \in 1 .. Len(s \o t) :
                \/ i \in 1 .. Len(s) /\ (s \o t)[i] = s[i]
                \/ i - Len(s) \in 1 .. Len(t) /\ (s \o t)[i] = t[i - Len(s)]
  <1>1. PICK S : s \in Seq(S)
    BY DEF IsSeq
  <1>2. PICK U : t \in Seq(U)
    BY DEF IsSeq
  <1>3. s \in Seq(S \cup U) /\ t \in Seq(S \cup U)
    BY <1>1, <1>2
  <1>4. s \o t \in Seq(S \cup U) /\ Len(s) \in Nat /\ Len(t) \in Nat /\ Len(s \o t) = Len(s) + Len(t)
        /\ \A i \in 1 .. Len(s) + Len(t) :
              (s \o t)[i] = IF i <= Len(s) THEN s[i] ELSE t[i - Len(s)]
    BY <1>3
  <1> DEFINE n == Len(s)
             m == Len(t)
             r == s \o t
  <1>5. n \in Nat /\ m \in Nat /\ Len(r) = n + m
        /\ \A i \in 1 .. n + m : r[i] = IF i <= n THEN s[i] ELSE t[i - n]
    BY <1>4
  <1> HIDE DEF n, m, r
  <1>6. \A i \in 1 .. Len(r) : \/ i \in 1 .. n /\ r[i] = s[i]
                               \/ i - n \in 1 .. m /\ r[i] = t[i - n]
    BY <1>5
  <1>7. IsSeq(s \o t)
    BY <1>4 DEF IsSeq
  <1> QED BY <1>4, <1>6, <1>7 DEF n, m, r

\* What is reported once, and what is reported then for the first time.
LEMMA OnceJoined ==
    ASSUME NEW s, NEW t, IsSeq(s), IsSeq(t), Once(s), Once(t), New(s, t)
    PROVE  Once(s \o t)
  <1> DEFINE n == Len(s)
             m == Len(t)
             r == s \o t
  <1>1. /\ n \in Nat
        /\ \A i \in 1 .. Len(r) : \/ i \in 1 .. n /\ r[i] = s[i]
                                  \/ i - n \in 1 .. m /\ r[i] = t[i - n]
    BY Joined
  <1> HIDE DEF r
  <1>2. \A i \in 1 .. Len(r) : i \in Nat
    OBVIOUS
  <1> SUFFICES ASSUME NEW kinds \in Kinds, NEW i \in 1 .. Len(r), NEW j \in 1 .. Len(r),
                      r[i][1] \in kinds, r[j][1] \in kinds, r[i][2] = r[j][2]
               PROVE  i = j
    BY DEF Once, r
  <1>3. CASE i \in 1 .. n /\ j \in 1 .. n /\ r[i] = s[i] /\ r[j] = s[j]
    BY <1>3 DEF Once
  <1>4. CASE i - n \in 1 .. m /\ r[i] = t[i - n] /\ j - n \in 1 .. m /\ r[j] = t[j - n]
    <2>1. i - n = j - n
      BY <1>4 DEF Once
    <2> QED BY <1>1, <1>2, <2>1
  <1>5. CASE i \in 1 .. n /\ r[i] = s[i] /\ j - n \in 1 .. m /\ r[j] = t[j - n]
    BY <1>5 DEF New
  <1>6. CASE j \in 1 .. n /\ r[j] = s[j] /\ i - n \in 1 .. m /\ r[i] = t[i - n]
    BY <1>6 DEF New
  <1> QED BY <1>1, <1>3, <1>4, <1>5, <1>6

\* What agreed with the tables still does.
LEMMA StillAgrees ==
    ASSUME Grows, NEW event, Names(event), Agrees(event)
    PROVE  Agrees(event)'
  <1>1. ASSUME event[1] \in OfGeneral
        PROVE  event[2] \in Name
    BY <1>1 DEF Names
  <1>2. ASSUME event[1] \in OfParam PROVE event[2] \in Param
    BY <1>2 DEF Names
  <1>3. CASE event[1] = "entity"
    <2>1. Binding(event[2])' = Binding(event[2])
      BY <1>1, <1>3 DEF Agrees, Grows, KeepsBindings, OfGeneral
    <2> QED BY <1>3, <2>1 DEF Agrees
  <1>4. CASE event[1] = "external entity"
    <2>1. Binding(event[2])' = Binding(event[2])
      BY <1>1, <1>4 DEF Agrees, Grows, KeepsBindings, OfGeneral
    <2> QED BY <1>4, <2>1 DEF Agrees
  <1>5. CASE event[1] = "unparsed"
    BY <1>1, <1>5 DEF Agrees, Grows, OfGeneral
  <1>6. CASE event[1] = "param"
    <2>1. Lookup(event[2])' = Lookup(event[2])
      BY <1>2, <1>6 DEF Agrees, Grows, KeepsBindings, OfParam
    <2> QED BY <1>6, <2>1 DEF Agrees
  <1>7. CASE event[1] = "external param"
    <2>1. Lookup(event[2])' = Lookup(event[2])
      BY <1>2, <1>7 DEF Agrees, Grows, KeepsBindings, OfParam
    <2> QED BY <1>7, <2>1 DEF Agrees
  <1>8. CASE event[1] = "element"
    BY <1>8 DEF Agrees, Grows
  <1>9. CASE event[1] \notin {"entity", "external entity", "unparsed", "param", "external param", "element"}
    BY <1>9 DEF Agrees
  <1> QED BY <1>3, <1>4, <1>5, <1>6, <1>7, <1>8, <1>9

\* What has been reported still agrees, each and all.
LEMMA StillGood ==
    ASSUME Grows, NEW s, Good(s)
    PROVE  Good(s)'
  <1>1. \A i \in 1 .. Len(s) : Names(s[i]) /\ Agrees(s[i])'
    BY StillAgrees DEF Good
  <1> QED BY <1>1 DEF Good

\* More is reported.
LEMMA GoodJoined ==
    ASSUME NEW s, NEW told, Good(s)', IsSeq(told), Once(told), New(s, told),
           \A i \in 1 .. Len(told) : Names(told[i]) /\ Agrees(told[i])'
    PROVE  Good(s \o told)'
  <1> DEFINE r == s \o told
  <1>1. IsSeq(s) /\ Once(s) /\ \A i \in 1 .. Len(s) : Names(s[i]) /\ Agrees(s[i])'
    BY DEF Good
  <1>2. /\ IsSeq(r)
        /\ \A i \in 1 .. Len(r) : \/ i \in 1 .. Len(s) /\ r[i] = s[i]
                                  \/ i - Len(s) \in 1 .. Len(told) /\ r[i] = told[i - Len(s)]
    BY <1>1, Joined
  <1>3. Once(r)
    BY <1>1, OnceJoined
  <1> HIDE DEF r
  <1>4. \A i \in 1 .. Len(r) : Names(r[i]) /\ Agrees(r[i])'
    <2> SUFFICES ASSUME NEW i \in 1 .. Len(r) PROVE Names(r[i]) /\ Agrees(r[i])'
      OBVIOUS
    <2>1. CASE i \in 1 .. Len(s) /\ r[i] = s[i]
      BY <1>1, <2>1
    <2>2. CASE i - Len(s) \in 1 .. Len(told) /\ r[i] = told[i - Len(s)]
      BY <2>2
    <2> QED BY <1>2, <2>1, <2>2
  <1>5. Good(r)'
    BY <1>2, <1>3, <1>4 DEF Good
  <1> QED BY <1>5 DEF r

\* What is reported and declares nothing.
Asides == {"start dtd", "comment", "nesting", "start", "end", "end dtd"}

\* Reports that declare nothing may follow.
LEMMA GoodAside ==
    ASSUME NEW s, NEW told, Good(s)', IsSeq(told), \A i \in 1 .. Len(told) : told[i][1] \in Asides
    PROVE  Good(s \o told)'
  <1>1. ASSUME NEW i \in 1 .. Len(told), NEW kinds \in Kinds PROVE told[i][1] \notin kinds
    BY <1>1 DEF Kinds, OfGeneral, OfParam, Asides
  <1>2. Once(told) /\ New(s, told)
    BY <1>1 DEF Once, New
  <1>3. ASSUME NEW i \in 1 .. Len(told) PROVE Names(told[i]) /\ Agrees(told[i])'
    BY <1>3 DEF Names, Agrees, OfGeneral, OfParam, Asides
  <1> QED BY <1>2, <1>3, GoodJoined

\* One declaration is reported.
LEMMA GoodOne ==
    ASSUME NEW s, NEW e, Good(s)', Names(e), Agrees(e)',
           \A kinds \in Kinds : \A i \in 1 .. Len(s) :
                ~ (s[i][1] \in kinds /\ e[1] \in kinds /\ s[i][2] = e[2])
    PROVE  Good(s \o <<e>>)'
  <1> DEFINE told == <<e>>
  <1>1. Len(told) = 1 /\ told[1] = e
    OBVIOUS
  <1>2. IsSeq(told)
    <2>1. told \in Seq({e})
      OBVIOUS
    <2> QED BY <2>1 DEF IsSeq
  <1> HIDE DEF told
  <1>3. \A i \in 1 .. Len(told) : i = 1
    BY <1>1
  <1>4. Once(told)
    BY <1>3 DEF Once
  <1>5. New(s, told)
    BY <1>1, <1>3 DEF New
  <1>6. \A i \in 1 .. Len(told) : Names(told[i]) /\ Agrees(told[i])'
    BY <1>1, <1>3
  <1>7. Good(s \o told)'
    BY <1>2, <1>4, <1>5, <1>6, GoodJoined
  <1> QED BY <1>7 DEF told

\* A sequence of one, of two, of none.
LEMMA ShortSeqs ==
    /\ \A e : IsSeq(<<e>>) /\ Len(<<e>>) = 1 /\ <<e>>[1] = e
    /\ \A e, f : IsSeq(<<e, f>>) /\ Len(<<e, f>>) = 2 /\ <<e, f>>[1] = e /\ <<e, f>>[2] = f
    /\ IsSeq(<< >>) /\ Len(<< >>) = 0
    /\ \A s : IsSeq(s) => s \o << >> = s /\ \A e : Append(s, e) = s \o <<e>>
  <1>1. ASSUME NEW e PROVE IsSeq(<<e>>) /\ Len(<<e>>) = 1 /\ <<e>>[1] = e
    <2>1. <<e>> \in Seq({e})
      OBVIOUS
    <2> QED BY <2>1 DEF IsSeq
  <1>2. ASSUME NEW e, NEW f
        PROVE  IsSeq(<<e, f>>) /\ Len(<<e, f>>) = 2 /\ <<e, f>>[1] = e /\ <<e, f>>[2] = f
    <2>1. <<e, f>> \in Seq({e, f})
      OBVIOUS
    <2> QED BY <2>1 DEF IsSeq
  <1>3. IsSeq(<< >>) /\ Len(<< >>) = 0
    <2>1. << >> \in Seq({})
      OBVIOUS
    <2> QED BY <2>1 DEF IsSeq
  <1>4. ASSUME NEW s, IsSeq(s), NEW e PROVE s \o << >> = s /\ Append(s, e) = s \o <<e>>
    <2>1. PICK S : s \in Seq(S)
      BY <1>4 DEF IsSeq
    <2>2. s \in Seq(S \cup {e}) /\ e \in S \cup {e}
      BY <2>1
    <2> QED BY <2>2
  <1> QED BY <1>1, <1>2, <1>3, <1>4
\* Nothing is reported, or what declares nothing.
LEMMA SaysNothing ==
    ASSUME HeardInv, Grows, NEW event, event[1] \in Asides,
           heard' = heard \/ heard' = Append(heard, event)
    PROVE  HeardInv'
  <1>1. PICK s : s = heard
    OBVIOUS
  <1>2. Good(s)' /\ IsSeq(s)
    <2>1. Good(s)
      BY <1>1 DEF HeardInv
    <2> QED BY <2>1, StillGood DEF Good
  <1>3. CASE heard' = heard
    <2>1. heard' = s
      BY <1>1, <1>3
    <2> QED BY <1>2, <2>1 DEF HeardInv, Good
  <1>4. CASE heard' = Append(heard, event)
    <2>1. heard' = s \o <<event>>
      BY <1>1, <1>2, <1>4, ShortSeqs
    <2>2. \A i \in 1 .. Len(<<event>>) : <<event>>[i][1] \in Asides
      <3>1. \A i \in 1 .. Len(<<event>>) : i = 1
        BY ShortSeqs
      <3> QED BY <3>1, ShortSeqs
    <2>3. Good(s \o <<event>>)'
      BY <1>2, <2>2, ShortSeqs, GoodAside
    <2>4. PICK r : r = s \o <<event>>
      OBVIOUS
    <2>5. Good(r)' /\ heard' = r
      BY <2>1, <2>3, <2>4
    <2> QED BY <2>5 DEF HeardInv, Good
  <1> QED BY <1>3, <1>4

\* What has been reported is declared.
LEMMA ReportedIsDeclared ==
    ASSUME CoreInv, NEW event, Names(event), Agrees(event)
    PROVE  /\ event[1] \in OfGeneral => Declared(event[2])
           /\ event[1] \in OfParam => Lookup(event[2]).kind # "none"
           /\ event[1] = "element" => event[2] \in elements
           /\ event[1] \in OfGeneral => pending_general[event[2]].kind # "unparsed"
  <1>1. event[1] \in {"entity", "external entity"} => Binding(event[2]).kind \in {"internal", "external"}
    BY DEF Agrees
  <1>2. event[1] = "unparsed" => general[event[2]].kind = "unparsed"
    BY DEF Agrees
  <1>3. event[1] \in OfGeneral => Declared(event[2])
    BY <1>1, <1>2 DEF OfGeneral, Declared, Binding
  <1>4. event[1] \in OfParam => Lookup(event[2]).kind # "none"
    BY DEF OfParam, Agrees
  <1>5. event[1] \in OfGeneral => pending_general[event[2]].kind # "unparsed"
    <2> SUFFICES ASSUME event[1] \in OfGeneral PROVE pending_general[event[2]].kind # "unparsed"
      OBVIOUS
    <2>1. event[2] \in Name
      BY DEF Names
    <2>2. pending_general[event[2]].kind = "none" \/ general[event[2]].kind = "none"
      BY <2>1 DEF CoreInv, TablesInv
    <2> QED BY <1>1, <1>2, <2>2 DEF Binding, OfGeneral
  <1> QED BY <1>3, <1>4, <1>5 DEF Agrees

\* An entity is declared and reported.
LEMMA EndOfEntityHeard == ASSUME CoreInv, HeardInv, EndOfEntityDeclaration PROVE HeardInv'
  <1>1. Grows
    BY EndOfEntityGrows
  <1>2. PICK s : s = heard
    OBVIOUS
  <1>3. Good(s)' /\ Good(s) /\ IsSeq(s)
    <2>1. Good(s)
      BY <1>2 DEF HeardInv
    <2> QED BY <1>1, <2>1, StillGood DEF Good
  <1>4. CASE heard' = heard
    <2>1. heard' = s
      BY <1>2, <1>4
    <2> QED BY <1>3, <2>1 DEF HeardInv, Good
  <1>5. ASSUME NEW e, heard' = s \o <<e>>, Good(s \o <<e>>)' PROVE HeardInv'
    <2>1. PICK r : r = s \o <<e>>
      OBVIOUS
    <2>2. Good(r)' /\ heard' = r
      BY <1>5, <2>1
    <2> QED BY <2>2 DEF HeardInv, Good
  <1>6. \A i \in 1 .. Len(s) : Names(s[i]) /\ Agrees(s[i])
    BY <1>3 DEF Good
  <1>7. decl.step \in {"end", "external", "unparsed"}
    BY DEF EndOfEntityDeclaration
  <1>8. CASE decl.is = "entity" /\ ~Declared(decl.of) /\ heard' = heard \o Report
    <2>1. /\ pending_general' = [pending_general EXCEPT ![decl.of] = Declares]
          /\ decl.of \in Name /\ pending_general \in [Name -> EntityType]
      BY <1>8 DEF EndOfEntityDeclaration, CoreInv, DeclInv, DeclOK, TablesInv
    <2>2. pending_general'[decl.of] = Declares
      BY <2>1
    <2>3. ASSUME NEW e, e[1] \in OfGeneral, e[2] = decl.of, NEW kinds \in Kinds, NEW i \in 1 .. Len(s)
          PROVE  ~ (s[i][1] \in kinds /\ e[1] \in kinds /\ s[i][2] = e[2])
      <3>1. s[i][1] \in OfGeneral => Declared(s[i][2])
        BY <1>6, ReportedIsDeclared
      <3>2. e[1] \in kinds => kinds = OfGeneral
        BY <2>3 DEF Kinds, OfGeneral, OfParam
      <3> QED BY <1>8, <2>3, <3>1, <3>2
    <2>4. CASE decl.step = "end"
      <3>1. PICK e : e = <<"entity", decl.of, decl.value>>
        OBVIOUS
      <3>2. heard' = s \o <<e>>
        BY <1>2, <1>8, <2>4, <3>1 DEF Report
      <3>3. e[1] = "entity" /\ e[2] = decl.of /\ e[3] = decl.value
        BY <3>1
      <3>4. Names(e)
        BY <2>1, <3>3 DEF Names, OfParam
      <3>5. Binding(e[2])'.kind = "internal" /\ Binding(e[2])'.text = e[3]
        BY <2>2, <2>4, <3>3 DEF Binding, Declares, Entity
      <3>6. Agrees(e)'
        BY <3>3, <3>5 DEF Agrees
      <3>7. \A kinds \in Kinds : \A i \in 1 .. Len(s) :
                ~ (s[i][1] \in kinds /\ e[1] \in kinds /\ s[i][2] = e[2])
        <4>1. e[1] \in OfGeneral
          BY <3>3 DEF OfGeneral
        <4> QED BY <2>3, <3>3, <4>1
      <3> QED BY <1>3, <1>5, <3>2, <3>4, <3>6, <3>7, GoodOne
    <2>5. CASE decl.step = "external"
      <3>1. PICK e : e = <<"external entity", decl.of>>
        OBVIOUS
      <3>2. heard' = s \o <<e>>
        BY <1>2, <1>8, <2>5, <3>1 DEF Report
      <3>3. e[1] = "external entity" /\ e[2] = decl.of
        BY <3>1
      <3>4. Names(e)
        BY <2>1, <3>3 DEF Names, OfParam
      <3>5. Binding(e[2])'.kind = "external"
        <4>1. Declares.kind = "external"
          BY <2>5 DEF Declares, Entity
        <4> QED BY <2>2, <3>3, <4>1 DEF Binding
      <3>6. Agrees(e)'
        BY <3>3, <3>5 DEF Agrees
      <3>7. \A kinds \in Kinds : \A i \in 1 .. Len(s) :
                ~ (s[i][1] \in kinds /\ e[1] \in kinds /\ s[i][2] = e[2])
        <4>1. e[1] \in OfGeneral
          BY <3>3 DEF OfGeneral
        <4> QED BY <2>3, <3>3, <4>1
      <3> QED BY <1>3, <1>5, <3>2, <3>4, <3>6, <3>7, GoodOne
    <2>6. CASE decl.step = "unparsed"
      <3>1. heard' = heard
        BY <1>2, <1>3, <1>8, <2>6, ShortSeqs DEF Report
      <3> QED BY <1>4, <3>1
    <2> QED BY <1>7, <2>4, <2>5, <2>6
  <1>9. CASE decl.is = "param" /\ Lookup(decl.of).kind = "none" /\ heard' = heard \o Report
    <2>1. /\ pending_param' = [pending_param EXCEPT ![decl.of] = Declares]
          /\ decl.of \in Param /\ pending_param \in [Param -> EntityType]
      BY <1>9 DEF EndOfEntityDeclaration, CoreInv, DeclInv, DeclOK, TablesInv
    <2>2. pending_param'[decl.of] = Declares
      BY <2>1
    <2>3. ASSUME NEW e, e[1] \in OfParam, e[2] = decl.of, NEW kinds \in Kinds, NEW i \in 1 .. Len(s)
          PROVE  ~ (s[i][1] \in kinds /\ e[1] \in kinds /\ s[i][2] = e[2])
      <3>1. s[i][1] \in OfParam => Lookup(s[i][2]).kind # "none"
        BY <1>6, ReportedIsDeclared
      <3>2. e[1] \in kinds => kinds = OfParam
        BY <2>3 DEF Kinds, OfGeneral, OfParam
      <3> QED BY <1>9, <2>3, <3>1, <3>2
    <2>4. CASE decl.step = "end"
      <3>1. PICK e : e = <<"param", decl.of, decl.value>>
        OBVIOUS
      <3>2. heard' = s \o <<e>>
        BY <1>2, <1>9, <2>4, <3>1 DEF Report
      <3>3. e[1] = "param" /\ e[2] = decl.of /\ e[3] = decl.value
        BY <3>1
      <3>4. Names(e)
        BY <2>1, <3>3 DEF Names, OfGeneral
      <3>5. Lookup(e[2])'.kind = "internal" /\ Lookup(e[2])'.text = e[3]
        BY <2>2, <2>4, <3>3 DEF Lookup, Declares, Entity
      <3>6. Agrees(e)'
        BY <3>3, <3>5 DEF Agrees
      <3>7. \A kinds \in Kinds : \A i \in 1 .. Len(s) :
                ~ (s[i][1] \in kinds /\ e[1] \in kinds /\ s[i][2] = e[2])
        <4>1. e[1] \in OfParam
          BY <3>3 DEF OfParam
        <4> QED BY <2>3, <3>3, <4>1
      <3> QED BY <1>3, <1>5, <3>2, <3>4, <3>6, <3>7, GoodOne
    <2>5. CASE decl.step = "external"
      <3>1. PICK e : e = <<"external param", decl.of>>
        OBVIOUS
      <3>2. heard' = s \o <<e>>
        BY <1>2, <1>9, <2>5, <3>1 DEF Report
      <3>3. e[1] = "external param" /\ e[2] = decl.of
        BY <3>1
      <3>4. Names(e)
        BY <2>1, <3>3 DEF Names, OfGeneral
      <3>5. Lookup(e[2])'.kind = "external"
        <4>1. Declares.kind = "external"
          BY <2>5 DEF Declares, Entity
        <4> QED BY <2>2, <3>3, <4>1 DEF Lookup
      <3>6. Agrees(e)'
        BY <3>3, <3>5 DEF Agrees
      <3>7. \A kinds \in Kinds : \A i \in 1 .. Len(s) :
                ~ (s[i][1] \in kinds /\ e[1] \in kinds /\ s[i][2] = e[2])
        <4>1. e[1] \in OfParam
          BY <3>3 DEF OfParam
        <4> QED BY <2>3, <3>3, <4>1
      <3> QED BY <1>3, <1>5, <3>2, <3>4, <3>6, <3>7, GoodOne
    <2>6. CASE decl.step = "unparsed"
      <3>1. heard' = heard
        BY <1>2, <1>3, <1>9, <2>6, ShortSeqs DEF Report
      <3> QED BY <1>4, <3>1
    <2> QED BY <1>7, <2>4, <2>5, <2>6
  <1> QED BY <1>4, <1>8, <1>9 DEF EndOfEntityDeclaration, IsEntity

\* An element is declared; of several declarations the first is reported.
LEMMA EndOfElementHeard == ASSUME CoreInv, HeardInv, EndOfElementDeclaration PROVE HeardInv'
  <1>1. Grows
    BY EndOfElementGrows
  <1>2. PICK s : s = heard
    OBVIOUS
  <1>3. PICK nest : nest = IF NestingBroken THEN <<<<"nesting">>>> ELSE << >>
    OBVIOUS
  <1>4. Good(s) /\ Good(s)' /\ Good(s \o nest)' /\ IsSeq(s) /\ IsSeq(s \o nest) /\ IsSeq(nest)
        /\ \A i \in 1 .. Len(nest) : nest[i][1] \in Asides
    <2>1. Good(s) /\ Good(s)'
      <3>1. Good(s)
        BY <1>2 DEF HeardInv
      <3> QED BY <1>1, <3>1, StillGood
    <2>2. IsSeq(nest) /\ \A i \in 1 .. Len(nest) : nest[i][1] \in Asides
      <3>1. CASE nest = << >>
        BY <3>1, ShortSeqs
      <3>2. CASE nest = <<<<"nesting">>>>
        <4>1. IsSeq(nest) /\ Len(nest) = 1 /\ nest[1] = <<"nesting">>
          BY <3>2, ShortSeqs
        <4>2. \A i \in 1 .. Len(nest) : i = 1
          BY <4>1
        <4>3. nest[1][1] = "nesting"
          BY <4>1
        <4> QED BY <4>1, <4>2, <4>3 DEF Asides
      <3> QED BY <1>3, <3>1, <3>2
    <2>3. Good(s \o nest)'
      BY <2>1, <2>2, GoodAside
    <2> QED BY <2>1, <2>2, <2>3 DEF Good
  <1>5. CASE decl.of \in elements
    <2>1. heard' = s \o nest
      BY <1>2, <1>3, <1>4, <1>5, ShortSeqs DEF EndOfElementDeclaration
    <2>2. PICK r : r = s \o nest
      OBVIOUS
    <2>3. Good(r)' /\ heard' = r
      BY <1>4, <2>1, <2>2
    <2> QED BY <2>3 DEF HeardInv, Good
  <1>6. CASE decl.of \notin elements
    <2>1. PICK e : e = <<"element", decl.of>>
      OBVIOUS
    <2>2. heard' = (s \o nest) \o <<e>> /\ elements' = elements \cup {decl.of}
      BY <1>2, <1>3, <1>6, <2>1 DEF EndOfElementDeclaration
    <2>3. e[1] = "element" /\ e[2] = decl.of
      BY <2>1
    <2>4. Names(e) /\ Agrees(e)'
      BY <2>2, <2>3 DEF Names, Agrees, OfGeneral, OfParam
    <2> DEFINE m == s \o nest
    <2>5. ASSUME NEW kinds \in Kinds, NEW i \in 1 .. Len(m)
          PROVE  ~ (m[i][1] \in kinds /\ e[1] \in kinds /\ m[i][2] = e[2])
      <3>1. e[1] \in kinds => kinds = {"element"}
        BY <2>3 DEF Kinds, OfGeneral, OfParam
      <3>2. CASE i \in 1 .. Len(s) /\ m[i] = s[i]
        <4>1. Names(s[i]) /\ Agrees(s[i])
          BY <1>4, <3>2 DEF Good
        <4>2. s[i][1] = "element" => s[i][2] \in elements
          BY <4>1, ReportedIsDeclared
        <4> QED BY <1>6, <2>3, <3>1, <3>2, <4>2
      <3>3. CASE i - Len(s) \in 1 .. Len(nest) /\ m[i] = nest[i - Len(s)]
        <4>1. m[i][1] \in Asides
          BY <1>4, <3>3
        <4> QED BY <3>1, <4>1 DEF Asides
      <3> QED BY <1>4, <3>2, <3>3, Joined
    <2>6. Good(m \o <<e>>)'
      <3>1. Good(m)' /\ \A kinds \in Kinds : \A i \in 1 .. Len(m) :
                ~ (m[i][1] \in kinds /\ e[1] \in kinds /\ m[i][2] = e[2])
        BY <1>4, <2>5
      <3> HIDE DEF m
      <3> QED BY <2>4, <3>1, GoodOne
    <2>7. PICK r : r = m \o <<e>>
      OBVIOUS
    <2>8. Good(r)' /\ heard' = r
      BY <2>2, <2>6, <2>7
    <2> QED BY <2>8 DEF HeardInv, Good
  <1> QED BY <1>5, <1>6
\* The unparsed entities are reported when their subset ends, in whatever order.
LEMMA GoodUnparsed ==
    ASSUME CoreInv, Commit, NEW s, Good(s), Good(s)', NEW S, S \subseteq UnparsedIn(pending_general),
           NEW order \in SetToSeqs(S)
    PROVE  /\ Good(s \o [i \in DOMAIN order |-> <<"unparsed", order[i]>>])'
           /\ IsSeq(s \o [i \in DOMAIN order |-> <<"unparsed", order[i]>>])
  <1> DEFINE told == [i \in DOMAIN order |-> <<"unparsed", order[i]>>]
             k    == Cardinality(S)
  <1>1. S \subseteq Name /\ \A n \in S : pending_general[n].kind = "unparsed"
    BY DEF UnparsedIn
  <1>2. IsFiniteSet(S) /\ k \in Nat
    <2>1. IsFiniteSet(S)
      BY <1>1, DoctypeAssumption, FS_Subset
    <2> QED BY <2>1, FS_CardinalityType
  <1>3. /\ order \in [1 .. k -> S] /\ \A i, j \in 1 .. k : i # j => order[i] # order[j]
    BY DEF SetToSeqs
  <1> HIDE DEF k
  <1>4. /\ told \in [1 .. k -> {<<"unparsed", n>> : n \in S}]
        /\ \A i \in 1 .. k : told[i] = <<"unparsed", order[i]>>
    BY <1>3
  <1>5. Len(told) = k /\ \A i \in 1 .. k : order[i] \in S /\ told[i][1] = "unparsed" /\ told[i][2] = order[i]
    <2>1. told \in Seq({<<"unparsed", n>> : n \in S}) /\ Len(told) = k
      BY <1>2, <1>4
    <2> HIDE DEF told
    <2> QED BY <1>3, <1>4, <2>1
  <1>6. IsSeq(told)
    <2>1. told \in Seq({<<"unparsed", n>> : n \in S})
      BY <1>2, <1>4
    <2> QED BY <2>1 DEF IsSeq
  <1> HIDE DEF told
  <1>7. "unparsed" \in OfGeneral /\ \A kinds \in Kinds : "unparsed" \in kinds => kinds = OfGeneral
    BY DEF Kinds, OfGeneral, OfParam
  <1>8. Once(told)
    <2> SUFFICES ASSUME NEW kinds \in Kinds, NEW i \in 1 .. k, NEW j \in 1 .. k, told[i][2] = told[j][2]
                 PROVE  i = j
      BY <1>5 DEF Once
    <2> QED BY <1>3, <1>5
  <1>9. New(s, told)
    <2> SUFFICES ASSUME NEW kinds \in Kinds, NEW i \in 1 .. Len(s), NEW j \in 1 .. k,
                        s[i][1] \in kinds, told[j][1] \in kinds, s[i][2] = told[j][2]
                 PROVE  FALSE
      BY <1>5 DEF New
    <2>1. s[i][1] \in OfGeneral
      BY <1>5, <1>7
    <2>2. pending_general[s[i][2]].kind # "unparsed"
      <3>1. Names(s[i]) /\ Agrees(s[i])
        BY DEF Good
      <3> QED BY <2>1, <3>1, ReportedIsDeclared
    <2> QED BY <1>1, <1>5, <2>2
  <1>10. ASSUME NEW i \in 1 .. Len(told) PROVE Names(told[i]) /\ Agrees(told[i])'
    <2>1. PICK e : e = told[i]
      OBVIOUS
    <2>2. e[1] = "unparsed" /\ e[2] \in S /\ e[2] \in Name
      BY <1>1, <1>5, <2>1
    <2>3. general'[e[2]].kind = "unparsed"
      <3>1. Binding(e[2]).kind = "unparsed"
        BY <1>1, <2>2 DEF Binding
      <3>2. general'[e[2]] = Binding(e[2])
        BY <2>2, <3>1, CommitGrows DEF CoreInv
      <3> QED BY <3>1, <3>2
    <2>4. Names(e) /\ Agrees(e)'
      BY <2>2, <2>3 DEF Names, Agrees, OfParam
    <2> QED BY <2>1, <2>4
  <1>11. Good(s \o told)'
    BY <1>6, <1>8, <1>9, <1>10, GoodJoined
  <1>12. IsSeq(s \o told)
    BY <1>11 DEF Good
  <1> QED BY <1>11, <1>12 DEF told

\* The end of the DOCTYPE and of its external subset.
LEMMA CommitsHeard == ASSUME CoreInv, HeardInv, EndOfDoctype \/ EndOfExternalSubset PROVE HeardInv'
  <1>1. Grows /\ Commit
    BY CommitsGrow DEF EndOfDoctype, EndOfExternalSubset
  <1>2. PICK s : s = heard
    OBVIOUS
  <1>3. Good(s) /\ Good(s)'
    <2>1. Good(s)
      BY <1>2 DEF HeardInv
    <2> QED BY <1>1, <2>1, StillGood
  <1>4. ASSUME NEW r, Good(r)', heard' = r PROVE HeardInv'
    BY <1>4 DEF HeardInv, Good
  <1>5. \A e : IsSeq(<<e>>) /\ (e[1] \in Asides => \A i \in 1 .. Len(<<e>>) : <<e>>[i][1] \in Asides)
    <2> SUFFICES ASSUME NEW e PROVE IsSeq(<<e>>) /\ (e[1] \in Asides => \A i \in 1 .. Len(<<e>>) : <<e>>[i][1] \in Asides)
      OBVIOUS
    <2>1. IsSeq(<<e>>) /\ Len(<<e>>) = 1 /\ <<e>>[1] = e
      BY ShortSeqs
    <2>2. \A i \in 1 .. Len(<<e>>) : i = 1
      BY <2>1
    <2> QED BY <2>1, <2>2
  <1>6. \A e, f : /\ IsSeq(<<e, f>>)
                  /\ e[1] \in Asides /\ f[1] \in Asides =>
                        \A i \in 1 .. Len(<<e, f>>) : <<e, f>>[i][1] \in Asides
    <2> SUFFICES ASSUME NEW e, NEW f
                 PROVE  /\ IsSeq(<<e, f>>)
                        /\ e[1] \in Asides /\ f[1] \in Asides =>
                              \A i \in 1 .. Len(<<e, f>>) : <<e, f>>[i][1] \in Asides
      OBVIOUS
    <2>1. IsSeq(<<e, f>>) /\ Len(<<e, f>>) = 2 /\ <<e, f>>[1] = e /\ <<e, f>>[2] = f
      BY ShortSeqs
    <2>2. \A i \in 1 .. Len(<<e, f>>) : i = 1 \/ i = 2
      BY <2>1
    <2> QED BY <2>1, <2>2
  <1> DEFINE start == <<"start", "[dtd]">>
             end   == <<"end", "[dtd]">>
             over  == <<"end dtd">>
  <1>7. start[1] \in Asides /\ end[1] \in Asides /\ over[1] \in Asides
    BY DEF Asides
  <1> HIDE DEF start, end, over
  <1>8. CASE EndOfDoctype
    <2>1. PICK order \in SetToSeqs(UnparsedIn(pending_general)) :
            LET told == heard \o [i \in DOMAIN order |-> <<"unparsed", order[i]>>]
            IN  \/ heard' = Append(told, start)
                \/ heard' = told \o <<start, end>> \o <<over>>
                \/ heard' = told \o << >> \o <<over>>
      <3>1. PICK order \in SetToSeqs(UnparsedIn(pending_general)) :
            LET told  == heard \o [i \in DOMAIN order |-> <<"unparsed", order[i]>>]
                reads == doc.far /\ doc.handling # "skip"
            IN  \/ heard' = Append(told, start)
                \/ heard' = told \o (IF reads THEN <<start, end>> ELSE << >>) \o <<over>>
        BY <1>8 DEF EndOfDoctype, start, end, over
      <3> QED BY <3>1
    <2>2. PICK told : told = s \o [i \in DOMAIN order |-> <<"unparsed", order[i]>>]
      OBVIOUS
    <2>3. Good(told)' /\ IsSeq(told)
      BY <1>1, <1>3, <2>2, GoodUnparsed
    <2>4. \/ heard' = told \o <<start>>
          \/ heard' = (told \o <<start, end>>) \o <<over>>
          \/ heard' = told \o <<over>>
      <3>1. told \o << >> = told /\ Append(told, start) = told \o <<start>>
        BY <2>3, ShortSeqs
      <3> QED BY <1>2, <2>1, <2>2, <3>1
    <2>5. Good(told \o <<start>>)' /\ Good(told \o <<over>>)'
      BY <1>5, <1>7, <2>3, GoodAside
    <2>6. Good((told \o <<start, end>>) \o <<over>>)'
      <3>1. PICK two : two = <<start, end>>
        OBVIOUS
      <3>2. IsSeq(two) /\ \A i \in 1 .. Len(two) : two[i][1] \in Asides
        BY <1>6, <1>7, <3>1
      <3>3. Good(told \o two)'
        BY <2>3, <3>2, GoodAside
      <3>4. Good((told \o two) \o <<over>>)'
        BY <1>5, <1>7, <3>3, GoodAside
      <3> QED BY <3>1, <3>4
    <2> QED BY <1>4, <2>4, <2>5, <2>6
  <1>9. CASE EndOfExternalSubset
    <2> DEFINE S == {n \in UnparsedIn(pending_general) : general[n] = Undeclared}
    <2>1. PICK order \in SetToSeqs(S) :
            heard' = heard \o [i \in DOMAIN order |-> <<"unparsed", order[i]>>] \o <<end, over>>
      BY <1>9 DEF EndOfExternalSubset, end, over
    <2>2. PICK told : told = s \o [i \in DOMAIN order |-> <<"unparsed", order[i]>>]
      OBVIOUS
    <2>3. PICK U : U = S
      OBVIOUS
    <2>4. U \subseteq UnparsedIn(pending_general) /\ order \in SetToSeqs(U)
      BY <2>3
    <2>5. Good(told)'
      BY <1>1, <1>3, <2>2, <2>4, GoodUnparsed
    <2>6. Good(told \o <<end, over>>)'
      <3>1. PICK two : two = <<end, over>>
        OBVIOUS
      <3>2. IsSeq(two) /\ \A i \in 1 .. Len(two) : two[i][1] \in Asides
        BY <1>6, <1>7, <3>1
      <3>3. Good(told \o two)'
        BY <2>5, <3>2, GoodAside
      <3> QED BY <3>1, <3>3
    <2>7. heard' = told \o <<end, over>>
      BY <1>2, <2>1, <2>2
    <2> QED BY <1>4, <2>6, <2>7
  <1> QED BY <1>8, <1>9

\* Nothing has been reported at first.
LEMMA InitHeard == ASSUME Init PROVE HeardInv
  <1>1. heard = << >>
    BY DEF Init, Fresh
  <1>2. IsSeq(<< >>) /\ Len(<< >>) = 0
    BY ShortSeqs
  <1>3. \A i \in 1 .. Len(heard) : FALSE
    BY <1>1, <1>2
  <1> QED BY <1>1, <1>2, <1>3 DEF HeardInv, Good, Once

\* Every step reports only what it may.
LEMMA NextHeard == ASSUME CoreInv, HeardInv, [Next]_vars PROVE HeardInv'
  <1>1. Grows
    BY EveryStepGrows
  <1>2. ASSUME heard' = heard PROVE HeardInv'
    <2>1. <<"comment">>[1] \in Asides
      BY DEF Asides
    <2> QED BY <1>1, <1>2, <2>1, SaysNothing
  <1>3. ASSUME NEW kind \in Asides, heard' = heard \/ heard' = Append(heard, <<kind>>)
        PROVE  HeardInv'
    <2>1. <<kind>>[1] \in Asides
      BY <1>3
    <2> QED BY <1>1, <1>3, <2>1, SaysNothing
  <1>4. CASE BeginEntity \/ BeginElement \/ BeginSection \/ EntityValue \/ Literal
               \/ UnparsedEntity \/ ElementSpec \/ SectionKeyword
    BY <1>2, <1>4 DEF BeginEntity, BeginElement, BeginSection, Begins, EntityValue, Literal,
       UnparsedEntity, ElementSpec, SectionKeyword, Steps
  <1>5. CASE SkipReference \/ BeginSkipped \/ SkipDeclaration
    BY <1>2, <1>5 DEF SkipReference, BeginSkipped, SkipDeclaration, Skipped
  <1>6. CASE Root \/ EndOfSubset \/ ElementName \/ ReferenceInLiteral \/ OpenInclude
               \/ IgnoreSection \/ Splice \/ Reference
    BY <1>2, <1>6 DEF Root, EndOfSubset, ElementName, ReferenceInLiteral, OpenInclude,
       IgnoreSection, Splice, Reference
  <1>7. CASE EndOfReplacement \/ EndWithin \/ Malformed \/ NeedMore \/ Receive \/ Close
    BY <1>2, <1>7 DEF EndOfReplacement, EndWithin, Malformed, NeedMore, Receive, Close
  <1>8. CASE UNCHANGED vars
    BY <1>2, <1>8 DEF vars
  <1>9. CASE BeginDoctype
    <2>1. heard' = heard \/ heard' = Append(heard, <<"start dtd">>)
      BY <1>9 DEF BeginDoctype, Hear
    <2> QED BY <1>3, <2>1 DEF Asides
  <1>10. CASE Comment
    <2>1. heard' = Append(heard, <<"comment">>)
      BY <1>10 DEF Comment, Hear
    <2> QED BY <1>3, <2>1 DEF Asides
  <1>11. CASE EndOfInclude
    <2>1. heard' = heard \/ heard' = Append(heard, <<"nesting">>)
      BY <1>11 DEF EndOfInclude
    <2> QED BY <1>3, <2>1 DEF Asides
  <1> QED BY <1>4, <1>5, <1>6, <1>7, <1>8, <1>9, <1>10, <1>11, EndOfEntityHeard, EndOfElementHeard,
             CommitsHeard DEF Next, Scan

\* The second invariant: what has been reported is named in its kind, agrees with
\* the tables and was reported once.
THEOREM Heard == Spec => []HeardInv
  <1>1. Init => HeardInv
    BY InitHeard
  <1>2. CoreInv /\ HeardInv /\ [Next]_vars => HeardInv'
    BY NextHeard
  <1> QED BY <1>1, <1>2, Core, PTL DEF Spec

\* No name is reported as declared twice, though it is declared in both subsets,
\* in a replacement text that is read again and across chunks.
THEOREM DeclarationsAreReportedOnce == Spec => []ReportedOnce
  <1>1. HeardInv => ReportedOnce
    <2> SUFFICES ASSUME HeardInv PROVE ReportedOnce
      OBVIOUS
    <2>1. PICK S : heard \in Seq(S)
      BY DEF HeardInv, Good, IsSeq
    <2>2. DOMAIN heard = 1 .. Len(heard)
      BY <2>1
    <2> QED BY <2>2 DEF HeardInv, Good, Once, Kinds, ReportedOnce
  <1> QED BY <1>1, Heard, PTL

\* What was reported of a name is what it stands for from then on.
THEOREM WhatIsReportedIsBound == Spec => []ReportedAsBound
  <1>1. HeardInv => ReportedAsBound
    <2> SUFFICES ASSUME HeardInv PROVE ReportedAsBound
      OBVIOUS
    <2>1. PICK S : heard \in Seq(S)
      BY DEF HeardInv, Good, IsSeq
    <2>2. DOMAIN heard = 1 .. Len(heard)
      BY <2>1
    <2> QED BY <2>2 DEF HeardInv, Good, ReportedAsBound
  <1> QED BY <1>1, Heard, PTL
=============================================================================
