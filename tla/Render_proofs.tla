----------------------------- MODULE Render_proofs ----------------------------
(***************************************************************************)
(* Proofs about Render.tla, for any snapshot, sizes and buffer.  The       *)
(* operators that build and measure a document are recursive functions;    *)
(* what they yield is shown by induction on the number of their steps,     *)
(* with the set of the numbers for which the claim holds.                  *)
(***************************************************************************)
EXTENDS Render, WellFoundedInduction, TLAPS

\* Until an append fails, the pieces are written one after the other.
ProgressInv ==
    ~failed =>
        /\ written = [i \in 1..(next - 1) |-> i]
        /\ pos = Offsets(doc)[next - 1]

\* An append fails only in a document that is too long, and the formatter
\* returns -1 of it; otherwise it returns behind the last piece.
ReturnInv ==
    /\ failed => SumOf(doc) >= BufferSize
    /\ pc \in {"idle", "render"} => rc = -1
    /\ pc \in {"returned", "printed"} =>
          IF failed THEN rc = -1 ELSE rc = pos /\ next = Len(doc) + 1

OutputInv ==
    /\ pc # "idle" => doc # <<>>
    /\ output = IF pc = "printed" /\ ~failed THEN written ELSE <<>>

IInv == TypeOK /\ ProgressInv /\ ReturnInv /\ OutputInv

-------------------------------------------------------------------------------
(* Induction *)

\* A set with 0, and with the successor of each of its numbers, has them all.
LEMMA SetInduction ==
    ASSUME NEW S, 0 \in S, \A n \in Nat : n \in S => n + 1 \in S
    PROVE  Nat \subseteq S
  <1> DEFINE T == Nat \ S
             less == OpToRel(<, Nat)
  <1>1. SUFFICES ASSUME T # {}
                 PROVE  FALSE
    OBVIOUS
  <1>2. \A x, y \in Nat : x < y => <<x, y>> \in less
    BY DEF OpToRel
  <1>3. PICK n \in T : \A m \in T : <<m, n>> \notin less
    <2>1. IsWellFoundedOn(less, Nat)
      BY NatLessThanWellFounded
    <2> HIDE DEF less
    <2> QED BY <1>1, <2>1, WFMin
  <1> HIDE DEF less
  <1>4. n # 0 /\ n - 1 \in Nat
    OBVIOUS
  <1>5. n - 1 \in S
    <2>1. <<n - 1, n>> \in less
      BY <1>2, <1>4
    <2>2. n - 1 \notin T
      BY <1>3, <2>1
    <2> QED BY <1>4, <2>2
  <1> QED BY <1>3, <1>4, <1>5

-------------------------------------------------------------------------------
(* FlattenSeq *)

\* g is the flattening of the first n sequences, step by step.
Flattens(g, seqs, n) ==
    g = [i \in 1..n |-> IF i = 1 THEN seqs[i] ELSE g[i - 1] \o seqs[i]]

LEMMA FlattenExists ==
    ASSUME NEW S, NEW seqs \in Seq(Seq(S)), NEW n \in Nat, n <= Len(seqs)
    PROVE  \E g : Flattens(g, seqs, n)
  <1> DEFINE Done(g, m) == Flattens(g, seqs, m) /\ \A i \in 1..m : g[i] \in Seq(S)
             N == {m \in Nat : m <= Len(seqs) => \E g : Done(g, m)}
  <1>1. 0 \in N
    <2> DEFINE g == [i \in 1..0 |-> <<>>]
    <2>1. Done(g, 0)
      BY DEF Flattens
    <2> QED BY <2>1
  <1>2. ASSUME NEW m \in Nat, m \in N
        PROVE  m + 1 \in N
    <2> SUFFICES ASSUME m + 1 <= Len(seqs)
                 PROVE  \E h : Done(h, m + 1)
      OBVIOUS
    <2>1. PICK g : Done(g, m)
      BY <1>2
    <2> DEFINE last == IF m = 0 THEN seqs[1] ELSE g[m] \o seqs[m + 1]
               h == [i \in 1..(m + 1) |-> IF i = m + 1 THEN last ELSE g[i]]
    <2>2. last \in Seq(S)
      BY <2>1
    <2>3. \A i \in 1..m : g[i] = IF i = 1 THEN seqs[i] ELSE g[i - 1] \o seqs[i]
      BY <2>1 DEF Flattens
    <2>4. ASSUME NEW i \in 1..(m + 1)
          PROVE  h[i] = IF i = 1 THEN seqs[i] ELSE h[i - 1] \o seqs[i]
      <3>1. CASE i = m + 1
        BY <3>1
      <3>2. CASE i \in 1..m
        BY <2>3, <3>2
      <3> QED BY <3>1, <3>2
    <2>5. Flattens(h, seqs, m + 1)
      <3> HIDE DEF last
      <3>1. h = [i \in 1..(m + 1) |-> h[i]]
        OBVIOUS
      <3> HIDE DEF h
      <3> QED BY <2>4, <3>1 DEF Flattens
    <2>6. \A i \in 1..(m + 1) : h[i] \in Seq(S)
      BY <2>1, <2>2
    <2> QED BY <2>5, <2>6
  <1> HIDE DEF N
  <1>3. Nat \subseteq N
    BY <1>1, <1>2, SetInduction
  <1> QED BY <1>3 DEF N

LEMMA FlattenedTyped ==
    ASSUME NEW S, NEW seqs \in Seq(Seq(S)), NEW g, Flattens(g, seqs, Len(seqs))
    PROVE  \A i \in 1..Len(seqs) : g[i] \in Seq(S)
  <1> DEFINE N == {m \in Nat : m \in 1..Len(seqs) => g[m] \in Seq(S)}
  <1>1. \A i \in 1..Len(seqs) :
           g[i] = IF i = 1 THEN seqs[i] ELSE g[i - 1] \o seqs[i]
    BY DEF Flattens
  <1>2. ASSUME NEW m \in Nat, m \in N
        PROVE  m + 1 \in N
    <2> SUFFICES ASSUME m + 1 \in 1..Len(seqs)
                 PROVE  g[m + 1] \in Seq(S)
      OBVIOUS
    <2>1. seqs[m + 1] \in Seq(S)
      OBVIOUS
    <2>2. CASE m = 0
      BY <1>1, <2>1, <2>2
    <2>3. CASE m # 0
      <3>1. g[m] \in Seq(S)
        BY <1>2, <2>3
      <3>2. m + 1 # 1 /\ (m + 1) - 1 = m
        BY <2>3
      <3>3. g[m + 1] = g[m] \o seqs[m + 1]
        BY <1>1, <3>2, Zenon
      <3> QED BY <2>1, <3>1, <3>3
    <2> QED BY <2>2, <2>3
  <1>3. 0 \in N
    OBVIOUS
  <1> HIDE DEF N
  <1>4. Nat \subseteq N
    BY <1>2, <1>3, SetInduction
  <1> QED BY <1>4 DEF N

\* The concatenation of sequences over S is one over S.
LEMMA FlattenTyped ==
    ASSUME NEW S, NEW seqs \in Seq(Seq(S))
    PROVE  FlattenSeq(seqs) \in Seq(S)
  <1>1. CASE Len(seqs) = 0
    BY <1>1 DEF FlattenSeq
  <1>2. CASE Len(seqs) # 0
    <2> DEFINE g == CHOOSE g : Flattens(g, seqs, Len(seqs))
    <2>1. FlattenSeq(seqs) = g[Len(seqs)]
      BY <1>2, Zenon DEF FlattenSeq, Flattens
    <2>2. PICK f : Flattens(f, seqs, Len(seqs))
      BY FlattenExists
    <2>3. Flattens(g, seqs, Len(seqs))
      BY <2>2
    <2> HIDE DEF g
    <2>4. g[Len(seqs)] \in Seq(S)
      BY <1>2, <2>3, FlattenedTyped
    <2> QED BY <2>1, <2>4
  <1> QED BY <1>1, <1>2

-------------------------------------------------------------------------------
(* Offsets *)

Places(at, sizes, n) ==
    at = [m \in 0..n |-> IF m = 0 THEN 0 ELSE at[m - 1] + sizes[m]]

LEMMA PlacesExist ==
    ASSUME NEW sizes \in Seq(Nat), NEW n \in Nat, n <= Len(sizes)
    PROVE  \E at : Places(at, sizes, n)
  <1> DEFINE N == {m \in Nat : m <= Len(sizes) => \E at : Places(at, sizes, m)}
  <1>1. 0 \in N
    <2> DEFINE at == [m \in 0..0 |-> 0]
    <2>1. at = [m \in 0..0 |-> IF m = 0 THEN 0 ELSE at[m - 1] + sizes[m]]
      OBVIOUS
    <2> HIDE DEF at
    <2>2. Places(at, sizes, 0)
      BY <2>1 DEF Places
    <2> QED BY <2>2
  <1>2. ASSUME NEW m \in Nat, m \in N
        PROVE  m + 1 \in N
    <2> SUFFICES ASSUME m + 1 <= Len(sizes)
                 PROVE  \E h : Places(h, sizes, m + 1)
      OBVIOUS
    <2>1. PICK at : Places(at, sizes, m)
      BY <1>2
    <2> DEFINE last == at[m] + sizes[m + 1]
               h == [i \in 0..(m + 1) |-> IF i = m + 1 THEN last ELSE at[i]]
    <2>2. \A i \in 0..m : at[i] = IF i = 0 THEN 0 ELSE at[i - 1] + sizes[i]
      BY <2>1 DEF Places
    <2>3. ASSUME NEW i \in 0..(m + 1)
          PROVE  h[i] = IF i = 0 THEN 0 ELSE h[i - 1] + sizes[i]
      <3>1. CASE i = m + 1
        BY <3>1
      <3>2. CASE i \in 0..m
        BY <2>2, <3>2
      <3> QED BY <3>1, <3>2
    <2>4. h = [i \in 0..(m + 1) |-> h[i]]
      <3> HIDE DEF last
      <3> QED OBVIOUS
    <2> HIDE DEF h
    <2>5. Places(h, sizes, m + 1)
      BY <2>3, <2>4 DEF Places
    <2> QED BY <2>5
  <1> HIDE DEF N
  <1>3. Nat \subseteq N
    BY <1>1, <1>2, SetInduction
  <1> QED BY <1>3 DEF N

LEMMA OffsetsDef ==
    ASSUME NEW sizes \in Seq(Nat)
    PROVE  /\ Offsets(sizes)[0] = 0
           /\ \A n \in 1..Len(sizes) :
                 Offsets(sizes)[n] = Offsets(sizes)[n - 1] + sizes[n]
  <1> DEFINE at == CHOOSE at : Places(at, sizes, Len(sizes))
  <1>1. Offsets(sizes) = at
    BY Zenon DEF Offsets, Places
  <1>2. PICK f : Places(f, sizes, Len(sizes))
    BY PlacesExist
  <1>3. Places(at, sizes, Len(sizes))
    BY <1>2
  <1> HIDE DEF at
  <1>4. \A n \in 0..Len(sizes) :
           at[n] = IF n = 0 THEN 0 ELSE at[n - 1] + sizes[n]
    BY <1>3, Zenon DEF Places
  <1>5. at[0] = 0
    <2>1. 0 \in 0..Len(sizes)
      OBVIOUS
    <2> QED BY <1>4, <2>1, Zenon
  <1>6. ASSUME NEW n \in 1..Len(sizes)
        PROVE  at[n] = at[n - 1] + sizes[n]
    <2>1. n \in 0..Len(sizes) /\ n # 0
      OBVIOUS
    <2> QED BY <1>4, <2>1, Zenon
  <1> QED BY <1>1, <1>5, <1>6, Zenon

LEMMA OffsetsTyped ==
    ASSUME NEW sizes \in Seq(Nat)
    PROVE  \A n \in 0..Len(sizes) : Offsets(sizes)[n] \in Nat
  <1> DEFINE N == {m \in Nat : m <= Len(sizes) => Offsets(sizes)[m] \in Nat}
  <1>1. 0 \in N
    BY OffsetsDef
  <1>2. ASSUME NEW m \in Nat, m \in N
        PROVE  m + 1 \in N
    <2> SUFFICES ASSUME m + 1 <= Len(sizes)
                 PROVE  Offsets(sizes)[m + 1] \in Nat
      OBVIOUS
    <2>1. /\ m + 1 \in 1..Len(sizes) /\ (m + 1) - 1 = m
          /\ sizes[m + 1] \in Nat
      OBVIOUS
    <2>2. Offsets(sizes)[m + 1] = Offsets(sizes)[(m + 1) - 1] + sizes[m + 1]
      BY <2>1, OffsetsDef, Zenon
    <2>3. Offsets(sizes)[m] \in Nat
      BY <1>2
    <2> QED BY <2>1, <2>2, <2>3
  <1> HIDE DEF N
  <1>3. Nat \subseteq N
    BY <1>1, <1>2, SetInduction
  <1> QED BY <1>3 DEF N

\* No piece of a document ends behind the document.
LEMMA OffsetsGrow ==
    ASSUME NEW sizes \in Seq(Nat), NEW n \in 0..Len(sizes)
    PROVE  Offsets(sizes)[n] <= SumOf(sizes)
  <1> DEFINE N == {m \in Nat : n + m <= Len(sizes) =>
                      Offsets(sizes)[n] <= Offsets(sizes)[n + m]}
  <1>1. 0 \in N
    BY OffsetsTyped
  <1>2. ASSUME NEW m \in Nat, m \in N
        PROVE  m + 1 \in N
    <2> SUFFICES ASSUME n + (m + 1) <= Len(sizes)
                 PROVE  Offsets(sizes)[n] <= Offsets(sizes)[n + (m + 1)]
      OBVIOUS
    <2> DEFINE k == n + (m + 1)
    <2>1. k \in 1..Len(sizes) /\ k - 1 = n + m /\ sizes[k] \in Nat
      OBVIOUS
    <2>2. Offsets(sizes)[k] = Offsets(sizes)[n + m] + sizes[k]
      BY <2>1, OffsetsDef
    <2>3. /\ Offsets(sizes)[n] \in Nat /\ Offsets(sizes)[n + m] \in Nat
          /\ Offsets(sizes)[n] <= Offsets(sizes)[n + m]
      BY <1>2, OffsetsTyped
    <2> QED BY <2>1, <2>2, <2>3
  <1> HIDE DEF N
  <1>3. Nat \subseteq N
    BY <1>1, <1>2, SetInduction
  <1>4. Len(sizes) - n \in N /\ n + (Len(sizes) - n) = Len(sizes)
    BY <1>3
  <1> QED BY <1>4 DEF N, SumOf

-------------------------------------------------------------------------------
(* Documents *)

LEMMA EntryTyped ==
    ASSUME NEW kind \in List \union {"bits", "packages", "cores"}
    PROVE  Entry(kind) \in Seq(Nat)
  BY RenderAssumption DEF Entry, Repeat

LEMMA RepeatTyped ==
    ASSUME NEW n \in Nat, NEW x \in Seq(Nat)
    PROVE  Repeat(n, x) \in Seq(Seq(Nat))
  BY DEF Repeat

LEMMA ConcatTyped ==
    ASSUME NEW s \in Seq(Nat), NEW t \in Seq(Nat), s # <<>>
    PROVE  s \o t \in Seq(Nat) /\ s \o t # <<>>
  OBVIOUS

LEMMA JsonListTyped ==
    ASSUME NEW items \in Seq(Seq(Nat))
    PROVE  JsonList(items) \in Seq(Nat)
  <1> DEFINE comma(i) == IF i > 1 THEN <<1>> ELSE <<>>
             parts == [i \in 1..Len(items) |-> comma(i) \o items[i]]
  <1>1. ASSUME NEW i \in 1..Len(items)
        PROVE  comma(i) \o items[i] \in Seq(Nat)
    <2>1. comma(i) \in Seq(Nat) /\ items[i] \in Seq(Nat)
      OBVIOUS
    <2> HIDE DEF comma
    <2> QED BY <2>1
  <1>2. parts \in Seq(Seq(Nat))
    <2> HIDE DEF comma
    <2> QED BY <1>1
  <1>3. FlattenSeq(parts) \in Seq(Nat)
    <2> HIDE DEF parts
    <2> QED BY <1>2, FlattenTyped
  <1>4. <<FrameSize>> \in Seq(Nat) /\ <<1>> \in Seq(Nat)
    BY RenderAssumption
  <1>5. JsonList(items) = <<FrameSize>> \o FlattenSeq(parts) \o <<1>>
    BY DEF JsonList
  <1> HIDE DEF parts
  <1> QED BY <1>3, <1>4, <1>5

LEMMA TableCounts ==
    ASSUME NEW t \in Tables, NEW k \in 1..Len(Lists)
    PROVE  t[Lists[k]] \in Nat /\ Lists[k] \in List
  BY RenderAssumption DEF Tables, List

LEMMA JsonTyped ==
    ASSUME NEW s \in Snapshot
    PROVE  Json(s) \in Seq(Nat) /\ Json(s) # <<>>
  <1>1. s.bits \in Nat /\ s.packages \in Seq(Nat) /\ s.tables \in Tables
    BY RenderAssumption DEF Snapshot
  <1>2. JsonCapabilities(s.bits) \in Seq(Nat)
    <2>1. <<PartSize["bits"]>> \in Seq(Nat)
      BY RenderAssumption
    <2> QED BY <1>1, <2>1, RepeatTyped, JsonListTyped DEF JsonCapabilities
  <1>3. JsonPackages(s.packages) \in Seq(Nat)
    <2> DEFINE cores == s.packages
               package(p) ==
                  Entry("packages") \o JsonList(Repeat(cores[p], Entry("cores")))
    <2>1. ASSUME NEW p \in 1..Len(cores)
          PROVE  package(p) \in Seq(Nat)
      <3>1. cores[p] \in Nat
        BY <1>1
      <3>2. Entry("packages") \in Seq(Nat) /\ Entry("cores") \in Seq(Nat)
        BY EntryTyped
      <3>3. JsonList(Repeat(cores[p], Entry("cores"))) \in Seq(Nat)
        BY <3>1, <3>2, RepeatTyped, JsonListTyped
      <3> QED BY <3>2, <3>3
    <2>2. JsonPackages(cores) = JsonList([p \in 1..Len(cores) |-> package(p)])
      BY DEF JsonPackages
    <2> HIDE DEF package
    <2>3. [p \in 1..Len(cores) |-> package(p)] \in Seq(Seq(Nat))
      BY <1>1, <2>1
    <2> QED BY <2>2, <2>3, JsonListTyped
  <1>4. JsonTables(s.tables) \in Seq(Nat)
    <2> DEFINE list(k) == JsonList(Repeat(s.tables[Lists[k]], Entry(Lists[k])))
    <2>1. ASSUME NEW k \in 1..Len(Lists)
          PROVE  list(k) \in Seq(Nat)
      <3>1. s.tables[Lists[k]] \in Nat /\ Entry(Lists[k]) \in Seq(Nat)
        BY <1>1, TableCounts, EntryTyped
      <3> QED BY <3>1, RepeatTyped, JsonListTyped
    <2>2. JsonTables(s.tables) = FlattenSeq([k \in 1..Len(Lists) |-> list(k)])
      BY DEF JsonTables
    <2> HIDE DEF list
    <2>3. [k \in 1..Len(Lists) |-> list(k)] \in Seq(Seq(Nat))
      BY <2>1, RenderAssumption
    <2> QED BY <2>2, <2>3, FlattenTyped
  <1>5. <<FrameSize>> \in Seq(Nat)
    BY RenderAssumption
  <1> DEFINE a == JsonCapabilities(s.bits)
             b == JsonPackages(s.packages)
             c == JsonTables(s.tables)
  <1>6. Json(s) = <<FrameSize>> \o a \o b \o c \o <<FrameSize>>
    BY DEF Json
  <1> HIDE DEF a, b, c
  <1>7. a \in Seq(Nat) /\ b \in Seq(Nat) /\ c \in Seq(Nat)
    BY <1>2, <1>3, <1>4 DEF a, b, c
  <1>8. /\ <<FrameSize>> \o a \o b \o c \in Seq(Nat)
        /\ Len(<<FrameSize>> \o a \o b \o c) > 0
    BY <1>5, <1>7
  <1> QED BY <1>5, <1>6, <1>8

LEMMA PrometheusTyped ==
    ASSUME NEW s \in Snapshot
    PROVE  Prometheus(s) \in Seq(Nat) /\ Prometheus(s) # <<>>
  <1>1. s.packages \in Seq(Nat) /\ s.tables \in Tables
    BY RenderAssumption DEF Snapshot
  <1>2. PrometheusPackages(s.packages) \in Seq(Nat)
    <2> DEFINE cores == s.packages
               package(p) ==
                  Entry("packages") \o FlattenSeq(Repeat(cores[p], Entry("cores")))
    <2>1. ASSUME NEW p \in 1..Len(cores)
          PROVE  package(p) \in Seq(Nat)
      <3>1. cores[p] \in Nat
        BY <1>1
      <3>2. Entry("packages") \in Seq(Nat) /\ Entry("cores") \in Seq(Nat)
        BY EntryTyped
      <3>3. FlattenSeq(Repeat(cores[p], Entry("cores"))) \in Seq(Nat)
        BY <3>1, <3>2, RepeatTyped, FlattenTyped
      <3> QED BY <3>2, <3>3
    <2>2. /\ PrometheusPackages(cores)
              = FlattenSeq([p \in 1..Len(cores) |-> package(p)])
      BY DEF PrometheusPackages
    <2> HIDE DEF package
    <2>3. [p \in 1..Len(cores) |-> package(p)] \in Seq(Seq(Nat))
      BY <1>1, <2>1
    <2> QED BY <2>2, <2>3, FlattenTyped
  <1>3. PrometheusTables(s.tables) \in Seq(Nat)
    <2> DEFINE list(k) == FlattenSeq(Repeat(s.tables[Lists[k]], Entry(Lists[k])))
    <2>1. ASSUME NEW k \in 1..Len(Lists)
          PROVE  list(k) \in Seq(Nat)
      <3>1. s.tables[Lists[k]] \in Nat /\ Entry(Lists[k]) \in Seq(Nat)
        BY <1>1, TableCounts, EntryTyped
      <3> QED BY <3>1, RepeatTyped, FlattenTyped
    <2>2. /\ PrometheusTables(s.tables)
              = FlattenSeq([k \in 1..Len(Lists) |-> list(k)])
      BY DEF PrometheusTables
    <2> HIDE DEF list
    <2>3. [k \in 1..Len(Lists) |-> list(k)] \in Seq(Seq(Nat))
      BY <2>1, RenderAssumption
    <2> QED BY <2>2, <2>3, FlattenTyped
  <1>4. Repeat(3, FrameSize) \in Seq(Nat) /\ Repeat(3, FrameSize) # <<>>
    <2>1. Repeat(3, FrameSize) \in Seq(Nat)
      BY RenderAssumption DEF Repeat
    <2>2. Repeat(3, FrameSize)[1] = FrameSize /\ Len(Repeat(3, FrameSize)) = 3
      BY RenderAssumption DEF Repeat
    <2> QED BY <2>1, <2>2
  <1> DEFINE a == Repeat(3, FrameSize)
             b == PrometheusPackages(s.packages)
             c == PrometheusTables(s.tables)
  <1>5. Prometheus(s) = a \o b \o c
    BY DEF Prometheus
  <1> HIDE DEF a, b, c
  <1>6. a \in Seq(Nat) /\ a # <<>> /\ b \in Seq(Nat) /\ c \in Seq(Nat)
    BY <1>2, <1>3, <1>4 DEF a, b, c
  <1>7. a \o b \in Seq(Nat) /\ a \o b # <<>>
    BY <1>6, ConcatTyped
  <1>8. (a \o b) \o c \in Seq(Nat) /\ (a \o b) \o c # <<>>
    BY <1>6, <1>7, ConcatTyped
  <1> QED BY <1>5, <1>8

LEMMA DocumentTyped ==
    ASSUME NEW f, NEW s \in Snapshot
    PROVE  Document(f, s) \in Seq(Nat) /\ Document(f, s) # <<>>
  BY JsonTyped, PrometheusTyped DEF Document

-------------------------------------------------------------------------------
(* The invariant *)

LEMMA InvInit == Init => IInv
  <1> SUFFICES ASSUME Init
               PROVE  IInv
    OBVIOUS
  <1>1. doc \in Seq(Nat) /\ Len(doc) = 0
    BY DEF Init
  <1>2. Offsets(doc)[0] = 0
    BY <1>1, OffsetsDef
  <1>3. TypeOK
    <2>1. next \in 1..(Len(doc) + 1) /\ pos \in 0..(BufferSize - 1)
      BY <1>1, RenderAssumption DEF Init
    <2>2. written \in Seq(1..Len(doc)) /\ output \in Seq(1..Len(doc))
      BY DEF Init
    <2>3. rc \in -1..(BufferSize - 1)
      BY RenderAssumption DEF Init
    <2> QED BY <1>1, <2>1, <2>2, <2>3 DEF Init, TypeOK
  <1>4. ProgressInv
    BY <1>2 DEF Init, ProgressInv
  <1>5. ReturnInv /\ OutputInv
    BY DEF Init, ReturnInv, OutputInv
  <1> QED BY <1>3, <1>4, <1>5 DEF IInv

\* Arithmetic of the buffer: b bytes, p of them used, a piece of a bytes.
LEMMA PieceFits ==
    ASSUME NEW a \in Nat, NEW b \in Nat, NEW p \in 0..(b - 1)
    PROVE  /\ a < b - p => p + a \in 0..(b - 1)
           /\ ~(a < b - p) => p + a >= b
  OBVIOUS

LEMMA TypeStep == TypeOK /\ [Next]_vars => TypeOK'
  <1> SUFFICES ASSUME TypeOK, [Next]_vars
               PROVE  TypeOK'
    OBVIOUS
  <1> USE DEF TypeOK
  <1>1. ASSUME NEW f \in Formats, NEW s \in Snapshot, Begin(f, s)
        PROVE  TypeOK'
    <2>1. doc' \in Seq(Nat)
      BY <1>1, DocumentTyped DEF Begin
    <2>2. next' \in 1..(Len(doc') + 1) /\ pos' \in 0..(BufferSize - 1)
      BY <1>1, <2>1, RenderAssumption DEF Begin
    <2>3. written' \in Seq(1..Len(doc')) /\ output' \in Seq(1..Len(doc'))
      BY <1>1 DEF Begin
    <2>4. rc' \in -1..(BufferSize - 1)
      BY <1>1, RenderAssumption DEF Begin
    <2> QED BY <1>1, <2>1, <2>2, <2>3, <2>4 DEF Begin
  <1>2. CASE AppendPiece
    <2>1. doc[next] \in Nat /\ next \in 1..Len(doc)
      BY <1>2 DEF AppendPiece
    <2>2. pos' \in 0..(BufferSize - 1)
      <3>1. /\ pos' = pos + doc[next] /\ doc[next] < BufferSize - pos
            /\ pos \in 0..(BufferSize - 1)
        BY <1>2 DEF AppendPiece, Fits
      <3>2. BufferSize \in Nat
        BY RenderAssumption
      <3> QED BY <2>1, <3>1, <3>2, PieceFits
    <2>3. written' \in Seq(1..Len(doc))
      BY <1>2, <2>1 DEF AppendPiece
    <2> QED BY <1>2, <2>1, <2>2, <2>3 DEF AppendPiece
  <1>3. CASE AppendFails
    BY <1>3 DEF AppendFails
  <1>4. CASE AppendRefused
    BY <1>4 DEF AppendRefused
  <1>5. CASE Return
    <2>1. rc' \in -1..(BufferSize - 1)
      BY <1>5, RenderAssumption DEF Return
    <2> QED BY <1>5, <2>1 DEF Return
  <1>6. CASE PutOut
    <2>1. output' = written \/ output' = <<>>
      BY <1>6 DEF PutOut
    <2>2. output' \in Seq(1..Len(doc))
      <3>1. <<>> \in Seq(1..Len(doc)) /\ written \in Seq(1..Len(doc))
        OBVIOUS
      <3> QED BY <2>1, <3>1, Zenon
    <2> QED BY <1>6, <2>2 DEF PutOut
  <1>7. CASE UNCHANGED vars
    BY <1>7 DEF vars
  <1> QED BY <1>1, <1>2, <1>3, <1>4, <1>5, <1>6, <1>7 DEF Next

LEMMA ProgressStep == IInv /\ [Next]_vars => ProgressInv'
  <1> SUFFICES ASSUME IInv, [Next]_vars, ~failed'
               PROVE  /\ written' = [i \in 1..(next' - 1) |-> i]
                      /\ pos' = Offsets(doc')[next' - 1]
    BY DEF ProgressInv
  <1> USE DEF IInv, TypeOK
  <1>1. ASSUME NEW f \in Formats, NEW s \in Snapshot, Begin(f, s)
        PROVE  /\ written' = [i \in 1..(next' - 1) |-> i]
               /\ pos' = Offsets(doc')[next' - 1]
    <2>1. Offsets(doc')[0] = 0
      BY <1>1, DocumentTyped, OffsetsDef DEF Begin
    <2> QED BY <1>1, <2>1 DEF Begin
  <1>2. CASE AppendPiece
    <2>1. next \in 1..Len(doc) /\ next' - 1 = next /\ doc' = doc
      BY <1>2 DEF AppendPiece
    <2>2. /\ written = [i \in 1..(next - 1) |-> i]
          /\ pos = Offsets(doc)[next - 1]
      BY <1>2 DEF AppendPiece, ProgressInv
    <2>3. pos' = Offsets(doc)[next]
      BY <1>2, <2>1, <2>2, OffsetsDef DEF AppendPiece
    <2>4. written' = [i \in 1..next |-> i]
      BY <1>2, <2>1, <2>2 DEF AppendPiece
    <2> QED BY <2>1, <2>3, <2>4
  <1>3. CASE AppendFails \/ AppendRefused
    BY <1>3 DEF AppendFails, AppendRefused
  <1>4. CASE Return \/ PutOut \/ UNCHANGED vars
    BY <1>4 DEF Return, PutOut, vars, ProgressInv
  <1> QED BY <1>1, <1>2, <1>3, <1>4 DEF Next

\* An append that fails ends behind the buffer, and so does the document.
LEMMA FailsIfTooLong ==
    ASSUME IInv, AppendFails
    PROVE  SumOf(doc) >= BufferSize
  <1> USE DEF IInv, TypeOK
  <1>1. next \in 1..Len(doc) /\ doc[next] \in Nat
    BY DEF AppendFails
  <1>2. pos = Offsets(doc)[next - 1]
    BY DEF AppendFails, ProgressInv
  <1>3. pos + doc[next] >= BufferSize
    <2>1. ~(doc[next] < BufferSize - pos) /\ pos \in 0..(BufferSize - 1)
      BY DEF AppendFails, Fits
    <2>2. BufferSize \in Nat
      BY RenderAssumption
    <2> QED BY <1>1, <2>1, <2>2, PieceFits
  <1>4. Offsets(doc)[next] >= BufferSize /\ next \in 0..Len(doc)
    <2>1. Offsets(doc)[next] = Offsets(doc)[next - 1] + doc[next]
      BY <1>1, OffsetsDef
    <2>2. Offsets(doc)[next] >= BufferSize
      BY <1>2, <1>3, <2>1, Zenon
    <2> QED BY <1>1, <2>2
  <1>5. /\ Offsets(doc)[next] <= SumOf(doc)
        /\ Offsets(doc)[next] \in Nat /\ SumOf(doc) \in Nat
    BY <1>4, OffsetsGrow, OffsetsTyped DEF SumOf
  <1> DEFINE end == Offsets(doc)[next]
             sum == SumOf(doc)
  <1>6. end \in Nat /\ sum \in Nat /\ BufferSize \in Nat
        /\ end >= BufferSize /\ end <= sum
    BY <1>4, <1>5, RenderAssumption
  <1> HIDE DEF end, sum
  <1>7. sum >= BufferSize
    BY <1>6
  <1> QED BY <1>7 DEF sum

LEMMA ReturnStep == IInv /\ [Next]_vars => ReturnInv'
  <1> SUFFICES ASSUME IInv, [Next]_vars
               PROVE  ReturnInv'
    OBVIOUS
  <1> USE DEF IInv, ReturnInv
  <1>1. ASSUME NEW f \in Formats, NEW s \in Snapshot, Begin(f, s)
        PROVE  ReturnInv'
    BY <1>1 DEF Begin
  <1>2. CASE AppendPiece \/ AppendRefused
    BY <1>2 DEF AppendPiece, AppendRefused, SumOf
  <1>3. CASE AppendFails
    <2>1. SumOf(doc)' >= BufferSize
      BY <1>3, FailsIfTooLong DEF AppendFails, SumOf
    <2> QED BY <1>3, <2>1 DEF AppendFails
  <1>4. CASE Return
    BY <1>4 DEF Return, SumOf, TypeOK
  <1>5. CASE PutOut \/ UNCHANGED vars
    BY <1>5 DEF PutOut, vars, SumOf
  <1> QED BY <1>1, <1>2, <1>3, <1>4, <1>5 DEF Next

LEMMA OutputStep == IInv /\ [Next]_vars => OutputInv'
  <1> SUFFICES ASSUME IInv, [Next]_vars
               PROVE  OutputInv'
    OBVIOUS
  <1> USE DEF IInv, OutputInv
  <1>1. ASSUME NEW f \in Formats, NEW s \in Snapshot, Begin(f, s)
        PROVE  OutputInv'
    BY <1>1, DocumentTyped DEF Begin
  <1>2. CASE AppendPiece \/ AppendRefused \/ AppendFails \/ Return
    BY <1>2 DEF AppendPiece, AppendRefused, AppendFails, Return
  <1>3. CASE PutOut
    BY <1>3, RenderAssumption DEF PutOut, ReturnInv, TypeOK
  <1>4. CASE UNCHANGED vars
    BY <1>4 DEF vars
  <1> QED BY <1>1, <1>2, <1>3, <1>4 DEF Next

\* The inductive invariant holds at all times.
THEOREM Invariant == Spec => []IInv
  <1>1. IInv /\ [Next]_vars => IInv'
    BY TypeStep, ProgressStep, ReturnStep, OutputStep DEF IInv
  <1> QED BY <1>1, InvInit, PTL DEF Spec

\* Every variable keeps its type: no position or return value leaves the buffer.
THEOREM TypeCorrect == Spec => []TypeOK
  <1>1. IInv => TypeOK
    BY DEF IInv
  <1> QED BY <1>1, Invariant, PTL

\* What is printed of a snapshot has every piece of its document, in order.
THEOREM OutputWhole == Spec => []WholeOrNothing
  <1>1. IInv => WholeOrNothing
    BY DEF IInv, TypeOK, ProgressInv, ReturnInv, OutputInv, WholeOrNothing
  <1> QED BY <1>1, Invariant, PTL

\* A snapshot is printed if, and only if, its document fits into the buffer.
THEOREM OutputUnlessTooLong == Spec => []NothingOnlyIfTooLong
  <1>1. IInv => NothingOnlyIfTooLong
    <2> SUFFICES ASSUME IInv, pc = "printed"
                 PROVE  output = <<>> <=> SumOf(doc) >= BufferSize
      BY DEF NothingOnlyIfTooLong
    <2> USE DEF IInv, TypeOK
    <2>1. CASE failed
      BY <2>1 DEF OutputInv, ReturnInv
    <2>2. CASE ~failed
      <3>1. /\ next = Len(doc) + 1
            /\ output = [i \in 1..Len(doc) |-> i] /\ pos = SumOf(doc)
        BY <2>2 DEF ReturnInv, OutputInv, ProgressInv, SumOf
      <3>2. Len(doc) \in Nat /\ Len(doc) # 0
        BY DEF OutputInv
      <3>3. Len(output) = Len(doc)
        BY <3>1, <3>2
      <3>4. ~(SumOf(doc) >= BufferSize)
        BY <3>1, RenderAssumption
      <3> QED BY <3>2, <3>3, <3>4
    <2> QED BY <2>1, <2>2
  <1> QED BY <1>1, Invariant, PTL

===============================================================================
