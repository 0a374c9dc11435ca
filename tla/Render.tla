-------------------------------- MODULE Render --------------------------------
(***************************************************************************)
(* The two formatters that write into a buffer, json.c and prometheus.c,   *)
(* and what main prints of it.  A document is the sequence of the pieces   *)
(* the formatter appends for a snapshot; of a piece only the length        *)
(* counts.  json.c returns at the first append that fails; prometheus.c    *)
(* goes on through the whole snapshot and relies on the writer to refuse   *)
(* every later piece.                                                      *)
(*                                                                         *)
(* The many appends of one object, and the metric lines of one entry, are  *)
(* Parts pieces of equal length.                                           *)
(***************************************************************************)
EXTENDS Integers, Sequences, SequencesExt

CONSTANTS
    Bits,           \* how many capability bits may be set
    Packages,       \* the packages a snapshot may have: the cores of each
    Lists,          \* the other tables, in the order of the document
    Counts,         \* how many entries each of them may have
    Parts,          \* appends that make an object
    PartSize,       \* length of one of them, by kind of object
    FrameSize,      \* length of the pieces around the lists
    BufferSize,     \* sizeof(json_buf), sizeof(prom_buf)
    Formats         \* formats the run asks for

List == {Lists[i] : i \in 1..Len(Lists)}

ASSUME RenderAssumption ==
    /\ Bits \subseteq Nat
    /\ Packages \subseteq Seq(Nat)
    /\ Lists \in Seq(List)
    /\ \A l \in List : Counts[l] \subseteq Nat
    /\ PartSize \in [List \union {"bits", "packages", "cores"} -> Nat]
    /\ Parts \in Nat /\ FrameSize \in Nat
    /\ BufferSize \in Nat \ {0}
    /\ Formats \subseteq {"json", "prometheus"}

Tables == {t \in [List -> UNION {Counts[l] : l \in List}] :
              \A l \in List : t[l] \in Counts[l]}

Snapshot == [bits : Bits, packages : Packages, tables : Tables]

-------------------------------------------------------------------------------
(* Documents *)

Repeat(n, x) == [i \in 1..n |-> x]

Entry(kind) == Repeat(Parts, PartSize[kind])

\* Brackets around the items, and a comma before every one but the first.
JsonList(items) ==
    <<FrameSize>>
        \o FlattenSeq([i \in 1..Len(items) |->
              (IF i > 1 THEN <<1>> ELSE <<>>) \o items[i]])
        \o <<1>>

JsonCapabilities(n) == JsonList(Repeat(n, <<PartSize["bits"]>>))

\* The object of a package ends with the list of its cores.
JsonPackages(cores) ==
    JsonList([p \in 1..Len(cores) |->
        Entry("packages") \o JsonList(Repeat(cores[p], Entry("cores")))])

JsonTables(tables) ==
    FlattenSeq([k \in 1..Len(Lists) |->
        JsonList(Repeat(tables[Lists[k]], Entry(Lists[k])))])

Json(s) ==
    <<FrameSize>> \o JsonCapabilities(s.bits) \o JsonPackages(s.packages)
        \o JsonTables(s.tables) \o <<FrameSize>>

\* A line per metric: those of a package, then those of its cores.
PrometheusPackages(cores) ==
    FlattenSeq([p \in 1..Len(cores) |->
        Entry("packages") \o FlattenSeq(Repeat(cores[p], Entry("cores")))])

PrometheusTables(tables) ==
    FlattenSeq([k \in 1..Len(Lists) |->
        FlattenSeq(Repeat(tables[Lists[k]], Entry(Lists[k])))])

\* No frame but the three lines of the timestamp.
Prometheus(s) ==
    Repeat(3, FrameSize) \o PrometheusPackages(s.packages)
        \o PrometheusTables(s.tables)

Document(format, s) == IF format = "json" THEN Json(s) ELSE Prometheus(s)

-------------------------------------------------------------------------------
VARIABLES
    pc,             \* "idle", "render", "returned" or "printed"
    format,         \* which formatter runs
    doc,            \* the pieces it has to append
    next,           \* the piece it is at
    pos, failed,    \* the writer
    written,        \* the pieces that make up the first pos bytes
    rc,             \* what the formatter returned
    output          \* the pieces main printed, if any

vars == <<pc, format, doc, next, pos, failed, written, rc, output>>

TypeOK ==
    /\ pc \in {"idle", "render", "returned", "printed"}
    /\ format \in Formats
    /\ doc \in Seq(Nat)
    /\ next \in 1..(Len(doc) + 1)
    /\ pos \in 0..(BufferSize - 1)
    /\ failed \in BOOLEAN
    /\ written \in Seq(1..Len(doc))
    /\ rc \in -1..(BufferSize - 1)
    /\ output \in Seq(1..Len(doc))

Init ==
    /\ pc = "idle" /\ format \in Formats
    /\ doc = <<>> /\ next = 1
    /\ pos = 0 /\ failed = FALSE /\ written = <<>>
    /\ rc = -1 /\ output = <<>>

\* main renders a snapshot, the next one in watch mode.
Begin(f, s) ==
    /\ pc \in {"idle", "printed"}
    /\ pc' = "render" /\ format' = f
    /\ doc' = Document(f, s) /\ next' = 1
    /\ pos' = 0 /\ failed' = FALSE /\ written' = <<>>
    /\ rc' = -1 /\ output' = <<>>

\* Room for the piece and the NUL that ends it; the difference of two size_t.
Fits(size) == size < BufferSize - pos

\* Faulty variant: the NUL is forgotten.
AppendNoNul ==
    /\ pc = "render" /\ next <= Len(doc) /\ ~failed
    /\ doc[next] <= BufferSize - pos
    /\ pos' = pos + doc[next]
    /\ written' = Append(written, next)
    /\ next' = next + 1
    /\ UNCHANGED <<pc, format, doc, failed, rc, output>>

\* appendf with room for the piece.
AppendPiece ==
    /\ pc = "render" /\ next <= Len(doc) /\ ~failed
    /\ Fits(doc[next])
    /\ pos' = pos + doc[next]
    /\ written' = Append(written, next)
    /\ next' = next + 1
    /\ UNCHANGED <<pc, format, doc, failed, rc, output>>

\* Faulty variant: only the return value tells of the failure.
AppendFailsUnlatched ==
    /\ pc = "render" /\ next <= Len(doc) /\ ~failed
    /\ ~Fits(doc[next])
    /\ IF format = "json" THEN pc' = "returned" ELSE UNCHANGED pc
    /\ next' = next + 1
    /\ UNCHANGED <<format, doc, pos, failed, written, rc, output>>

\* appendf without: the cut piece behind pos is not counted.  json.c returns.
AppendFails ==
    /\ pc = "render" /\ next <= Len(doc) /\ ~failed
    /\ ~Fits(doc[next])
    /\ failed' = TRUE
    /\ IF format = "json" THEN pc' = "returned" ELSE UNCHANGED pc
    /\ next' = next + 1
    /\ UNCHANGED <<format, doc, pos, written, rc, output>>

\* prometheus.c goes on after a failure; appendf refuses.
AppendRefused ==
    /\ pc = "render" /\ next <= Len(doc) /\ failed
    /\ next' = next + 1
    /\ UNCHANGED <<pc, format, doc, pos, failed, written, rc, output>>

Return ==
    /\ pc = "render" /\ next > Len(doc)
    /\ pc' = "returned"
    /\ rc' = IF failed THEN -1 ELSE pos
    /\ UNCHANGED <<format, doc, next, pos, failed, written, output>>

\* main prints the buffer up to its NUL, or nothing and carries on.
PutOut ==
    /\ pc = "returned"
    /\ pc' = "printed"
    /\ output' = IF rc >= 0 THEN written ELSE <<>>
    /\ UNCHANGED <<format, doc, next, pos, failed, written, rc>>

Next ==
    \/ \E f \in Formats, s \in Snapshot : Begin(f, s)
    \/ AppendPiece \/ AppendFails \/ AppendRefused \/ Return \/ PutOut

Spec == Init /\ [][Next]_vars

-------------------------------------------------------------------------------
(* Properties *)

\* Offsets(sizes)[n] is where the writer stands behind the first n pieces.
Offsets(sizes) ==
    LET at[n \in 0..Len(sizes)] == IF n = 0 THEN 0 ELSE at[n - 1] + sizes[n]
    IN  at

SumOf(sizes) == Offsets(sizes)[Len(sizes)]

\* What main prints is a whole document, every piece of it once and in order:
\* the piece that failed is never skipped over with later ones appended behind
\* it (failed is checked first, json.c:18, prometheus.c:18).
WholeOrNothing ==
    output # <<>> =>
        /\ Len(output) = Len(doc)
        /\ \A i \in 1..Len(doc) : output[i] = i

\* A snapshot is missing from the output exactly if its document and the NUL
\* behind it do not fit into the buffer (json.c:25, prometheus.c:25).
NothingOnlyIfTooLong ==
    pc = "printed" => (output = <<>> <=> SumOf(doc) >= BufferSize)

\* "The JSON output now emits full structured sections for: CPU packages and
\* per-core values" (README.md:197-199).
JsonIsPrinted == pc = "printed" /\ format = "json" => output # <<>>

===============================================================================
