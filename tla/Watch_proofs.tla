----------------------------- MODULE Watch_proofs -----------------------------
(***************************************************************************)
(* Proofs about Watch.tla, for every architecture, every number of         *)
(* snapshots, every length of an export and every set of faults.           *)
(*                                                                         *)
(* None of the properties is inductive by itself.  The invariant IInv adds *)
(* what main knows at each place of its loop about the pieces in the file, *)
(* what it has told the scraper so far, and why a file may be short.       *)
(***************************************************************************)
EXTENDS Watch, TLAPS

\* A process that is about to take a snapshot may still take one.
TypeInv == TypeOK /\ (pc = "start" => n < MaxSnapshots)

\* What is in the textfile: pieces of one snapshot, none older than what the
\* scraper has seen; at each place of an export, what main has put there.
FileInv ==
    /\ \A i, j \in 1..Len(file) : file[i] = file[j]
    /\ \A i \in 1..Len(file) : file[i] <= n /\ seen <= file[i]
    /\ seen <= n
    /\ pc = "render" => file = <<>>
    /\ pc = "write" => \A i \in 1..Len(file) : file[i] = n

\* Why it may be short.
CauseInv ==
    /\ pc \in {"render", "write"} => cause = "none"
    /\ pc = "close" => cause \in {"render", "disk"}
    /\ TornFileHasACause

\* Where main can be with the sink it has, and what it leaves behind.
SinkInv ==
    /\ pc \in Exporting \cup {"open"} => sink = "textfile"
    /\ pc = "emit" => sink # "textfile"
    /\ pc # "exited" => status = 0
    /\ TextfileIsCurrent

\* A scrape that no export overlaps reads a prefix of an intact file.
ScrapeInv ==
    /\ steady /\ reader = "reading" =>
          /\ pc \notin Exporting
          /\ cause = "none"
          /\ Len(got) <= Len(file)
          /\ \A i \in 1..Len(got) : got[i] = file[i]
    /\ SteadyScrapeIsWhole

\* A request that was heard has cleared the flag, and main is in its loop.
StopInv == asked => ~keep_running /\ pc # "start"

\* 1 while main holds a snapshot it has not handed to its sink yet.
Pending == IF pc \in {"collect", "emit"} THEN 1 ELSE 0

\* No snapshot is left out of the records.
NoneMissing == "render" \notin Faults \/ sink = "text"

\* The records of this process: none of them pending, and if none may be
\* missing, all of them up to the newest.  Each has reached stdout or waits in
\* the buffer until a write fails; nothing waits after an orderly end.
HandedOn ==
    /\ pc = "start" => handed = {}
    /\ \A g \in handed : g + Pending <= n
    /\ NoneMissing /\ pc # "killed" =>
          \A g \in handed : \A h \in g..n : h + Pending <= n => h \in handed
    /\ NoneMissing /\ pc \in {"check", "sleep", "recheck", "exited"} =>
          n \in handed
    /\ failed \/ handed = out \cup buffer
    /\ pc = "exited" => buffer = {}

RecordsInv == sink # "textfile" => HandedOn

IInv ==
    TypeInv /\ FileInv /\ CauseInv /\ SinkInv /\ ScrapeInv /\ StopInv
    /\ RecordsInv

-------------------------------------------------------------------------------
(* Collectors and sequences of pieces *)

LEMMA EmptySeq == ASSUME NEW S PROVE <<>> \in Seq(S) /\ Len(<<>>) = 0
  OBVIOUS

LEMMA Concatenation ==
    ASSUME NEW S, NEW s \in Seq(S), NEW t \in Seq(S)
    PROVE  s \o t \in Seq(S) /\ Len(s \o t) = Len(s) + Len(t)
  OBVIOUS

LEMMA ThreeParts ==
    ASSUME NEW g, NEW x, NEW a, NEW b, NEW c, NEW d, NEW e, NEW f
    PROVE  /\ Len(<<g>> \o <<x>> \o <<a, b, c, d, e, f>>) = 8
           /\ Len(<<g>> \o <<>> \o <<a, b, c, d, e, f>>) = 7
  <1> DEFINE S == {g, x, a, b, c, d, e, f}
  <1>1. <<g>> \in Seq(S) /\ Len(<<g>>) = 1 OBVIOUS
  <1>2. <<x>> \in Seq(S) /\ Len(<<x>>) = 1 OBVIOUS
  <1>3. <<>> \in Seq(S) /\ Len(<<>>) = 0 BY EmptySeq
  <1>4. <<a, b, c, d, e, f>> \in Seq(S) /\ Len(<<a, b, c, d, e, f>>) = 6
    <2>1. a \in S /\ b \in S /\ c \in S /\ d \in S /\ e \in S /\ f \in S OBVIOUS
    <2> HIDE DEF S
    <2> QED BY <2>1
  <1> HIDE DEF S
  <1>5. <<g>> \o <<x>> \in Seq(S) /\ Len(<<g>> \o <<x>>) = 2
    BY <1>1, <1>2, Concatenation
  <1>6. <<g>> \o <<>> \in Seq(S) /\ Len(<<g>> \o <<>>) = 1
    BY <1>1, <1>3, Concatenation
  <1> QED BY <1>4, <1>5, <1>6, Concatenation

LEMMA CollectorsLength == Len(Collectors) \in {7, 8}
  <1> DEFINE g == "generic_linux"  x == "x86"  y == "arm64"  a == "nvidia"
             b == "nvidia_cuda"  c == "nvidia_dcgm"  d == "amd"  e == "ipmi"
             f == "redfish"
  <1>1. Collectors = <<g>> \o CpuCollector \o <<a, b, c, d, e, f>>
    BY DEF Collectors
  <1>2. CpuCollector \in {<<x>>, <<y>>, <<>>}
    BY DEF CpuCollector
  <1> HIDE DEF g, x, y, a, b, c, d, e, f
  <1>3. CASE CpuCollector = <<x>>
    <2>1. Len(Collectors) = 8 BY <1>1, <1>3, ThreeParts
    <2> QED BY <2>1
  <1>4. CASE CpuCollector = <<y>>
    <2>1. Len(Collectors) = 8 BY <1>1, <1>4, ThreeParts
    <2> QED BY <2>1
  <1>5. CASE CpuCollector = <<>>
    <2>1. Len(Collectors) = 7 BY <1>1, <1>5, ThreeParts
    <2> QED BY <2>1
  <1> QED BY <1>2, <1>3, <1>4, <1>5

\* One more piece at the end of a sequence leaves the others in place.
LEMMA AppendPiece ==
    ASSUME NEW S, NEW s \in Seq(S), NEW e \in S
    PROVE  /\ Append(s, e) \in Seq(S)
           /\ Len(Append(s, e)) = Len(s) + 1
           /\ Append(s, e)[Len(s) + 1] = e
           /\ \A i \in 1..Len(s) : Append(s, e)[i] = s[i]
           /\ \A i \in 1..Len(Append(s, e)) : i \in 1..Len(s) \/ i = Len(s) + 1
  OBVIOUS

-------------------------------------------------------------------------------
(* Type correctness *)

LEMMA ElementOf ==
    ASSUME NEW S, NEW s \in Seq(S) PROVE \A i \in 1..Len(s) : s[i] \in S
  OBVIOUS

LEMMA NoPieces == <<>> \in Seq(0..MaxSnapshots) /\ Len(<<>>) = 0
  BY EmptySeq

LEMMA InitType == Init => TypeInv
  <1> SUFFICES ASSUME Init PROVE TypeInv
    OBVIOUS
  <1>1. file \in Seq(0..MaxSnapshots) /\ Len(file) <= Chunks
    <2>1. CASE file = <<>> BY <2>1, NoPieces, WatchAssumption
    <2>2. CASE file = [i \in 1..Chunks |-> 0]
      <3>1. file \in Seq(0..MaxSnapshots) BY <2>2, WatchAssumption
      <3>2. Len(file) = Chunks BY <2>2, WatchAssumption
      <3> QED BY <3>1, <3>2, WatchAssumption
    <2> QED BY <2>1, <2>2 DEF Init
  <1>2. handed = {} /\ buffer = {} /\ out = {} /\ failed \in BOOLEAN
    BY Zenon DEF Init
  <1>3. got \in Seq(0..MaxSnapshots) /\ Len(got) <= Chunks
    BY NoPieces, WatchAssumption DEF Init
  <1>4. cause \in {"none", "absent", "render", "disk", "kill"}
    BY DEF Init
  <1>5. /\ watch \in BOOLEAN /\ shell \in BOOLEAN /\ hung \in BOOLEAN
        /\ keep_running \in BOOLEAN /\ asked \in BOOLEAN /\ steady \in BOOLEAN
    BY Zenon DEF Init
  <1>6. /\ sink \in Sinks /\ pc = "start" /\ stage = 0 /\ n = 0 /\ status = 0
        /\ reader = "idle" /\ seen = 0
    BY Zenon DEF Init
  <1> QED
    BY <1>1, <1>2, <1>3, <1>4, <1>5, <1>6, CollectorsLength, WatchAssumption
    DEF TypeInv, TypeOK

LEMMA ShellTyped ==
    (CommandExists => shell' \in BOOLEAN) /\ (NextCollector => shell' \in BOOLEAN)
  <1>1. CommandExists => shell' \in BOOLEAN
    BY DEF CommandExists
  <1>2. NextCollector => shell' \in BOOLEAN
    BY DEF NextCollector
  <1> QED BY <1>1, <1>2

LEMMA NextType == TypeInv /\ [Next]_vars => TypeInv'
  <1> SUFFICES ASSUME TypeInv, [Next]_vars PROVE TypeInv'
    OBVIOUS
  <1> USE WatchAssumption, CollectorsLength
      DEF TypeInv, TypeOK, config, state, disk, stdout, scraper, Exporting,
          Stopped
  <1>1. CASE Start
    BY <1>1 DEF Start, BeginSnapshot
  <1>2. CASE CommandExists
    <2>1. shell' \in BOOLEAN
      BY <1>2, ShellTyped
    <2>2. UNCHANGED <<config, pc, stage, hung, keep_running, n, status, disk,
                      stdout, scraper, asked>>
      BY <1>2, Zenon DEF CommandExists
    <2> QED BY <2>1, <2>2
  <1>3. CASE NextCollector
    <2>1. stage' \in 0..Len(Collectors)
      BY <1>3 DEF NextCollector
    <2>2. shell' \in BOOLEAN
      BY <1>3, ShellTyped
    <2>3. UNCHANGED <<config, pc, hung, keep_running, n, status, disk, stdout,
                      scraper, asked>>
      BY <1>3, Zenon DEF NextCollector
    <2> QED BY <2>1, <2>2, <2>3
  <1>4. CASE SnapshotTaken
    BY <1>4 DEF SnapshotTaken, Goto
  <1>5. CASE OpenTextfile
    <2>1. file' \in Seq(0..MaxSnapshots) /\ Len(file') <= Chunks
      BY <1>5, NoPieces DEF OpenTextfile
    <2> QED BY <1>5, <2>1 DEF OpenTextfile
  <1>6. CASE OpenFails
    BY <1>6 DEF OpenFails
  <1>7. CASE Render
    BY <1>7 DEF Render, Goto
  <1>8. CASE RenderFails
    BY <1>8 DEF RenderFails, AbandonExport
  <1>9. CASE WriteChunk
    BY <1>9 DEF WriteChunk
  <1>10. CASE WriteFails
    BY <1>10 DEF WriteFails, AbandonExport
  <1>11. CASE CloseTextfile
    BY <1>11 DEF CloseTextfile, Goto
  <1>12. CASE Emit \/ EmitLost
    <2>1. /\ handed' = handed \cup {n} /\ pc' = "check"
          /\ UNCHANGED <<config, state, disk, scraper, asked>>
      BY <1>12 DEF Emit, EmitLost
    <2>2. /\ buffer' \subseteq buffer \cup {n}
          /\ out' \subseteq out \cup buffer \cup {n}
      BY <1>12, Zenon DEF Emit, EmitLost, PassOn
    <2>3. failed' \in BOOLEAN
      BY <1>12, Zenon DEF Emit, EmitLost
    <2> QED BY <2>1, <2>2, <2>3
  <1>13. CASE EmitFails
    BY <1>13 DEF EmitFails, Goto
  <1>14. CASE Check
    BY <1>14 DEF Check, Goto
  <1>15. CASE Wake
    BY <1>15 DEF Wake, Goto
  <1>16. CASE LoopAgain
    BY <1>16 DEF LoopAgain, BeginSnapshot
  <1>17. CASE Exit \/ ExitLost
    <2>1. /\ pc' = "exited" /\ buffer' = {}
          /\ UNCHANGED <<config, state, disk, handed, scraper, asked>>
      BY <1>17 DEF Exit, ExitLost
    <2>2. out' \subseteq out \cup buffer
      BY <1>17, Zenon DEF Exit, ExitLost, PassOn
    <2>3. failed' \in BOOLEAN
      BY <1>17, Zenon DEF Exit, ExitLost
    <2> QED BY <2>1, <2>2, <2>3
  <1>18. ASSUME NEW s, Signal(s) PROVE TypeInv'
    <2>1. asked' \in BOOLEAN /\ keep_running' \in BOOLEAN /\ pc # "start"
      BY <1>18, Zenon DEF Signal
    <2>2. UNCHANGED <<config, pc, stage, shell, hung, n, status, disk, stdout,
                      scraper>>
      BY <1>18, Zenon DEF Signal
    <2> QED BY <2>1, <2>2
  <1>19. CASE Kill
    BY <1>19 DEF Kill
  <1>20. CASE Restart
    <2>1. handed' = {} /\ buffer' = {} /\ out' = {} /\ failed' \in BOOLEAN
      BY <1>20, Zenon DEF Restart
    <2>2. /\ shell' \in BOOLEAN /\ hung' \in BOOLEAN
          /\ keep_running' \in BOOLEAN /\ asked' \in BOOLEAN
      BY <1>20, Zenon DEF Restart
    <2>3. /\ n < MaxSnapshots /\ pc' = "start"
          /\ stage' = 0 /\ status' = 0
          /\ UNCHANGED <<config, n, disk, scraper>>
      BY <1>20, Zenon DEF Restart
    <2> QED BY <2>1, <2>2, <2>3
  <1>21. CASE Hang
    BY <1>21 DEF Hang
  <1>22. CASE StartScrape
    BY <1>22 DEF StartScrape, process
  <1>23. CASE ReadChunk
    <2>1. file[Len(got) + 1] \in 0..MaxSnapshots
      BY <1>23 DEF ReadChunk
    <2>2. got' \in Seq(0..MaxSnapshots) /\ Len(got') <= Chunks
      BY <1>23, <2>1, AppendPiece DEF ReadChunk, process
    <2> QED BY <1>23, <2>1, <2>2 DEF ReadChunk, process
  <1>24. CASE EndScrape
    BY <1>24 DEF EndScrape, process
  <1>25. CASE UNCHANGED vars
    BY <1>25 DEF vars
  <1> QED
    BY <1>1, <1>2, <1>3, <1>4, <1>5, <1>6, <1>7, <1>8, <1>9, <1>10, <1>11,
       <1>12, <1>13, <1>14, <1>15, <1>16, <1>17, <1>18, <1>19, <1>20, <1>21,
       <1>22, <1>23, <1>24, <1>25
    DEF Next, Main, Environment, Scraper

-------------------------------------------------------------------------------
(* The textfile *)

\* Every step that is not one of those named leaves file, n and seen alone and
\* does not enter the places of main that FileInv speaks of.
LEMMA NextFile ==
    TypeInv /\ FileInv /\ [Next]_vars => FileInv'
  <1> SUFFICES ASSUME TypeInv, FileInv, [Next]_vars PROVE FileInv'
    OBVIOUS
  <1> USE DEF TypeInv, TypeOK
  <1>1. CASE BeginSnapshot
    <2>1. n' = n + 1 /\ pc' = "collect" /\ UNCHANGED <<file, seen>>
      BY <1>1 DEF BeginSnapshot, disk, scraper
    <2>2. \A i \in 1..Len(file) : file[i] \in Nat
      <3>1. \A i \in 1..Len(file) : file[i] \in 0..MaxSnapshots
        BY ElementOf
      <3> QED BY <3>1
    <2> QED BY <2>1, <2>2 DEF FileInv
  <1>2. CASE OpenTextfile
    <2>1. file' = <<>> /\ Len(file') = 0
      BY <1>2, NoPieces DEF OpenTextfile
    <2>2. pc' = "render" /\ UNCHANGED <<n, seen>>
      BY <1>2 DEF OpenTextfile, state
    <2> QED BY <2>1, <2>2 DEF FileInv
  <1>3. CASE Render
    <2>1. pc' = "write" /\ UNCHANGED <<file, n, seen>> /\ file = <<>>
      BY <1>3 DEF Render, Goto, state, disk, scraper, FileInv
    <2>2. Len(file) = 0
      BY <2>1, NoPieces
    <2> QED BY <2>1, <2>2 DEF FileInv
  <1>4. CASE WriteChunk
    <2>1. /\ pc' = "write" /\ UNCHANGED <<n, seen>>
          /\ \A i \in 1..Len(file) : file[i] = n
      BY <1>4 DEF WriteChunk, state, scraper, FileInv
    <2>2. \A i \in 1..Len(file') : file'[i] = n
      <3>1. file' = Append(file, n) /\ file \in Seq(0..MaxSnapshots)
        BY <1>4 DEF WriteChunk
      <3>2. n \in 0..MaxSnapshots
        OBVIOUS
      <3>3. /\ file'[Len(file) + 1] = n
            /\ \A i \in 1..Len(file) : file'[i] = file[i]
            /\ \A i \in 1..Len(file') : i \in 1..Len(file) \/ i = Len(file) + 1
        BY <3>1, <3>2, AppendPiece
      <3> QED BY <2>1, <3>3, Zenon
    <2>3. n \in Nat /\ seen <= n
      BY DEF FileInv
    <2>4. \A i, j \in 1..Len(file') : file'[i] = file'[j]
      BY <2>2, Zenon
    <2>5. \A i \in 1..Len(file') : file'[i] <= n /\ seen <= file'[i]
      BY <2>2, <2>3
    <2>6. /\ pc' # "render" /\ n' = n /\ seen' = seen
          /\ \A i \in 1..Len(file') : file'[i] = n'
      BY <2>1, <2>2
    <2> HIDE DEF TypeInv, TypeOK
    <2> QED BY <2>3, <2>4, <2>5, <2>6, Zenon DEF FileInv
  <1>5. CASE ReadChunk
    <2>1. UNCHANGED <<pc, file, n>>
      BY <1>5 DEF ReadChunk, process, state, disk
    <2>2. /\ Len(got) + 1 \in 1..Len(file)
          /\ seen' = file[Len(got) + 1]
      BY <1>5 DEF ReadChunk
    <2>3. \A i \in 1..Len(file) : file[i] = seen'
      BY <2>2 DEF FileInv
    <2>4. seen' \in 0..MaxSnapshots /\ seen' <= n
      BY <2>2, ElementOf DEF FileInv
    <2> QED BY <2>1, <2>3, <2>4 DEF FileInv
  <1>6. CASE /\ UNCHANGED <<file, n, seen>>
             /\ pc' \in {"render", "write"} => pc' = pc
    BY <1>6 DEF FileInv
  <1> QED
    BY <1>1, <1>2, <1>3, <1>4, <1>5, <1>6, Zenon
    DEF Next, Main, Environment, Scraper, vars, config, state, disk, stdout,
        scraper, process, Start, CommandExists, NextCollector, SnapshotTaken,
        OpenFails, RenderFails, AbandonExport, WriteFails, CloseTextfile, Emit,
        EmitLost, EmitFails, Check, Wake, LoopAgain, Exit, ExitLost, Goto,
        Signal, Kill, Restart, Hang, StartScrape, EndScrape

LEMMA FinishedExport ==
    TypeInv /\ FileInv /\ pc = "write" /\ Len(file) = Chunks
      => Whole(file, n) /\ IsWhole(file)
  BY DEF TypeInv, TypeOK, FileInv, Whole, IsWhole

LEMMA NextCause ==
    TypeInv /\ FileInv /\ CauseInv /\ [Next]_vars => CauseInv'
  <1> SUFFICES ASSUME TypeInv, FileInv, CauseInv, [Next]_vars PROVE CauseInv'
    OBVIOUS
  <1> USE DEF CauseInv, TornFileHasACause, Exporting
  <1>1. CASE OpenTextfile
    BY <1>1 DEF OpenTextfile
  <1>2. CASE Render
    BY <1>2 DEF Render, Goto, disk
  <1>3. CASE RenderFails \/ WriteFails
    BY <1>3 DEF RenderFails, WriteFails, AbandonExport
  <1>4. CASE WriteChunk
    BY <1>4 DEF WriteChunk
  <1>5. CASE CloseTextfile
    <2>1. pc' = "check" /\ UNCHANGED <<file, cause>>
      BY <1>5 DEF CloseTextfile, Goto, disk
    <2>2. cause = "none" => IsWhole(file)
      BY <1>5, FinishedExport DEF CloseTextfile
    <2> QED BY <2>1, <2>2 DEF IsWhole, Whole
  <1>6. CASE Kill
    <2>1. pc' = "killed" /\ UNCHANGED file
      BY <1>6 DEF Kill
    <2>2. CASE pc \in {"render", "write"} /\ Len(file) < Chunks
      BY <1>6, <2>1, <2>2 DEF Kill
    <2>3. CASE pc = "render" /\ ~(Len(file) < Chunks)
      BY <2>3, NoPieces, WatchAssumption DEF FileInv
    <2>4. CASE pc = "write" /\ ~(Len(file) < Chunks)
      <3>1. Len(file) = Chunks
        BY <2>4, WatchAssumption DEF TypeInv, TypeOK
      <3>2. IsWhole(file)
        BY <2>4, <3>1, FinishedExport
      <3> QED BY <2>1, <3>2 DEF IsWhole, Whole
    <2>5. CASE pc \notin {"render", "write"}
      BY <1>6, <2>1, <2>5 DEF Kill, IsWhole, Whole
    <2> QED BY <2>2, <2>3, <2>4, <2>5
  <1>7. CASE /\ UNCHANGED <<file, cause>>
             /\ pc' = pc \/ (pc \notin Exporting /\ pc' \notin Exporting)
    BY <1>7 DEF IsWhole, Whole
  <1> QED
    BY <1>1, <1>2, <1>3, <1>4, <1>5, <1>6, <1>7, Zenon
    DEF Next, Main, Environment, Scraper, vars, config, state, disk, stdout,
        scraper, process, Start, BeginSnapshot, CommandExists, NextCollector,
        SnapshotTaken, OpenFails, Emit, EmitLost, EmitFails, Check, Wake,
        LoopAgain, Exit, ExitLost, Goto, Signal, Restart, Hang, StartScrape,
        ReadChunk, EndScrape, Stopped

LEMMA NextSink ==
    TypeInv /\ FileInv /\ CauseInv /\ SinkInv /\ [Next]_vars => SinkInv'
  <1> SUFFICES ASSUME TypeInv, FileInv, CauseInv, SinkInv, [Next]_vars
               PROVE  SinkInv'
    OBVIOUS
  <1> USE DEF SinkInv, TextfileIsCurrent, Exporting
  <1>1. CASE CloseTextfile
    <2>1. /\ pc' = "check" /\ UNCHANGED <<file, cause, n, status, sink>>
          /\ pc \in Exporting
      BY <1>1 DEF CloseTextfile, Goto, disk, state, config
    <2>2. Whole(file, n) \/ cause \in {"render", "disk"}
      BY <1>1, FinishedExport DEF CloseTextfile, CauseInv
    <2> QED BY <2>1, <2>2 DEF Whole
  <1>2. CASE Check \/ Wake \/ Exit \/ ExitLost
    <2>1. /\ pc \in {"check", "sleep", "recheck"}
          /\ pc' \in {"sleep", "recheck", "exited"}
          /\ UNCHANGED <<file, cause, n, status, sink>>
      BY <1>2 DEF Check, Wake, Exit, ExitLost, Goto, disk, state, config
    <2> QED BY <2>1 DEF Whole
  <1>3. CASE Emit \/ EmitLost \/ EmitFails
    BY <1>3 DEF Emit, EmitLost, EmitFails, Goto, config, state
  <1>4. CASE OpenFails
    BY <1>4 DEF OpenFails, config
  <1>5. CASE OpenTextfile \/ Render \/ RenderFails \/ WriteChunk \/ WriteFails
    <2>1. /\ pc \in Exporting \cup {"open"} /\ pc' \in Exporting
          /\ UNCHANGED <<sink, status>>
      BY <1>5 DEF OpenTextfile, Render, RenderFails, WriteChunk, WriteFails,
                  Goto, AbandonExport, config, state
    <2> QED BY <2>1
  <1>6. CASE SnapshotTaken
    BY <1>6 DEF SnapshotTaken, Goto, config, state
  <1>7. CASE Kill \/ Restart \/ Start \/ LoopAgain
    <2>1. /\ pc' \in {"killed", "start", "collect"}
          /\ sink' = sink
          /\ status' = 0 \/ (status' = status /\ pc # "exited")
      BY <1>7 DEF Kill, Restart, Start, LoopAgain, BeginSnapshot, config, state,
                  Stopped
    <2> QED BY <2>1
  <1>8. CASE UNCHANGED <<pc, sink, status, file, cause, n>>
    BY <1>8 DEF Whole
  <1> QED
    BY <1>1, <1>2, <1>3, <1>4, <1>5, <1>6, <1>7, <1>8, Zenon
    DEF Next, Main, Environment, Scraper, vars, config, state, disk, process,
        CommandExists, NextCollector, Signal, Hang, StartScrape, ReadChunk,
        EndScrape

-------------------------------------------------------------------------------
(* The scraper *)

\* Only OpenTextfile enters an export, and outside one the file rests.
LEMMA NextScrape ==
    TypeInv /\ CauseInv /\ ScrapeInv /\ [Next]_vars => ScrapeInv'
  <1> SUFFICES ASSUME TypeInv, CauseInv, ScrapeInv, [Next]_vars PROVE ScrapeInv'
    OBVIOUS
  <1> USE DEF ScrapeInv, SteadyScrapeIsWhole
  <1>1. CASE OpenTextfile
    BY <1>1 DEF OpenTextfile
  <1>2. CASE StartScrape
    <2>1. /\ got' = <<>> /\ Len(got') = 0
          /\ reader' = "reading"
          /\ UNCHANGED <<pc, cause, file>>
      BY <1>2, NoPieces DEF StartScrape, process, disk
    <2>2. steady' => pc \notin Exporting /\ cause = "none"
      BY <1>2 DEF StartScrape
    <2>3. Len(file) \in Nat
      BY DEF TypeInv, TypeOK
    <2> QED BY <2>1, <2>2, <2>3
  <1>3. CASE ReadChunk
    <2>1. /\ got' = Append(got, file[Len(got) + 1])
          /\ reader' = "reading"
          /\ reader = "reading"
          /\ Len(got) < Len(file)
          /\ UNCHANGED <<pc, cause, file, steady>>
      BY <1>3 DEF ReadChunk, process, disk
    <2>2. file[Len(got) + 1] \in 0..MaxSnapshots
      <3>1. Len(got) + 1 \in 1..Len(file)
        BY <2>1 DEF TypeInv, TypeOK
      <3> QED BY <3>1, ElementOf DEF TypeInv, TypeOK
    <2>3. /\ Len(got') = Len(got) + 1
          /\ got'[Len(got) + 1] = file[Len(got) + 1]
          /\ \A i \in 1..Len(got) : got'[i] = got[i]
          /\ \A i \in 1..Len(got') : i \in 1..Len(got) \/ i = Len(got) + 1
      BY <2>1, <2>2, AppendPiece DEF TypeInv, TypeOK
    <2>4. Len(file) \in Nat /\ Len(got) \in Nat
      BY DEF TypeInv, TypeOK
    <2> QED BY <2>1, <2>3, <2>4
  <1>4. CASE EndScrape
    <2>1. /\ reader' = "done" /\ reader = "reading"
          /\ Len(got) >= Len(file)
          /\ UNCHANGED <<got, steady>>
      BY <1>4 DEF EndScrape
    <2>2. ASSUME steady PROVE IsWhole(got)
      <3>1. IsWhole(file)
        BY <2>1, <2>2 DEF CauseInv, TornFileHasACause
      <3>2. Len(got) = Len(file) /\ \A i \in 1..Len(got) : got[i] = file[i]
        BY <2>1, <2>2 DEF TypeInv, TypeOK
      <3> QED BY <3>1, <3>2 DEF IsWhole, Whole
    <2> QED BY <2>1, <2>2 DEF IsWhole, Whole
  <1>5. CASE /\ UNCHANGED <<reader, got, steady>>
             /\ pc \notin Exporting =>
                   pc' \notin Exporting /\ UNCHANGED <<file, cause>>
    BY <1>5 DEF IsWhole, Whole
  <1> QED
    <2> USE DEF Exporting
    <2> QED
      BY <1>1, <1>2, <1>3, <1>4, <1>5, Zenon
      DEF Next, Main, Environment, vars, config, state, disk, stdout, scraper,
          Scraper, Start, BeginSnapshot, CommandExists, NextCollector,
          SnapshotTaken, OpenFails, Render, RenderFails, AbandonExport,
          WriteChunk, WriteFails, CloseTextfile, Emit, EmitLost, EmitFails,
          Check, Wake, LoopAgain, Exit, ExitLost, Goto, Signal, Kill, Restart,
          Hang, Stopped

-------------------------------------------------------------------------------
(* Stop requests *)

LEMMA NextStop == StopInv /\ [Next]_vars => StopInv'
  <1> SUFFICES ASSUME StopInv, [Next]_vars PROVE StopInv'
    OBVIOUS
  <1> USE DEF StopInv
  <1>1. CASE \E s \in {"INT", "TERM"} : Signal(s)
    BY <1>1 DEF Signal
  <1>2. CASE Restart
    BY <1>2 DEF Restart
  <1>3. CASE /\ UNCHANGED <<asked, keep_running>>
             /\ pc' # "start" \/ pc' = pc
    BY <1>3
  <1> QED
    BY <1>1, <1>2, <1>3, Zenon
    DEF Next, Main, Environment, Scraper, vars, config, state, disk, stdout,
        scraper, process, Start, BeginSnapshot, CommandExists, NextCollector,
        SnapshotTaken, OpenTextfile, OpenFails, Render, RenderFails,
        AbandonExport, WriteChunk, WriteFails, CloseTextfile, Emit, EmitLost,
        EmitFails, Check, Wake, LoopAgain, Exit, ExitLost, Goto, Kill, Hang,
        StartScrape, ReadChunk, EndScrape

-------------------------------------------------------------------------------
(* The records on standard output *)

LEMMA NextRecords ==
    TypeInv /\ SinkInv /\ RecordsInv /\ [Next]_vars => RecordsInv'
  <1> SUFFICES ASSUME TypeInv, SinkInv, RecordsInv, [Next]_vars,
                      sink' # "textfile"
               PROVE  HandedOn'
    BY DEF RecordsInv
  <1>1. sink' = sink
    BY Zenon
    DEF Next, Main, Environment, Scraper, vars, config, process, Start,
        BeginSnapshot, CommandExists, NextCollector, SnapshotTaken,
        OpenTextfile, OpenFails, Render, RenderFails, AbandonExport,
        WriteChunk, WriteFails, CloseTextfile, Emit, EmitLost, EmitFails,
        Check, Wake, LoopAgain, Exit, ExitLost, Goto, Signal, Kill, Restart,
        Hang, StartScrape, ReadChunk, EndScrape
  <1>2. HandedOn /\ (NoneMissing' <=> NoneMissing)
    BY <1>1 DEF RecordsInv, NoneMissing
  <1>3. pc \notin Exporting \cup {"open"}
    BY <1>1 DEF SinkInv
  <1>4. n \in Nat /\ handed \subseteq Nat /\ buffer \subseteq handed
    BY DEF TypeInv, TypeOK
  <1>5. CASE Start \/ LoopAgain
    <2>1. /\ pc \in {"start", "recheck"} /\ pc' = "collect" /\ n' = n + 1
          /\ UNCHANGED <<handed, buffer, out, failed>>
      BY <1>5 DEF Start, LoopAgain, BeginSnapshot, stdout
    <2>2. Pending = 0 /\ Pending' = 1
      BY <2>1 DEF Pending
    <2> QED BY <1>2, <1>4, <2>1, <2>2 DEF HandedOn
  <1>6. CASE SnapshotTaken \/ Check \/ Wake
    <2>1. UNCHANGED <<n, handed, buffer, out, failed>>
      BY <1>6 DEF SnapshotTaken, Check, Wake, Goto, state, stdout
    <2>2. \/ pc = "collect" /\ pc' = "emit"
          \/ /\ pc \in {"check", "sleep"}
             /\ pc' \in {"sleep", "recheck"}
      BY <1>1, <1>6 DEF SnapshotTaken, Check, Wake, Goto
    <2>3. Pending' = Pending
      BY <2>2 DEF Pending
    <2> QED BY <1>2, <1>4, <2>1, <2>2, <2>3 DEF HandedOn
  <1>7. CASE Emit \/ EmitLost
    <2>1. /\ pc = "emit" /\ pc' = "check" /\ UNCHANGED n
          /\ handed' = handed \cup {n}
      BY <1>7 DEF Emit, EmitLost, state
    <2>2. Pending = 1 /\ Pending' = 0
      BY <2>1 DEF Pending
    <2>3. \A g \in handed' : g <= n
      BY <1>2, <1>4, <2>1, <2>2 DEF HandedOn
    <2>4. NoneMissing =>
              \A g \in handed' : \A h \in g..n : h \in handed'
      <3> SUFFICES ASSUME NoneMissing, NEW g \in handed', NEW h \in g..n
                   PROVE  h \in handed'
        OBVIOUS
      <3>1. CASE h = n
        BY <2>1, <3>1
      <3>2. CASE h # n
        <4>1. g \in handed /\ h + 1 <= n
          BY <1>4, <2>1, <3>2
        <4> QED BY <1>2, <1>4, <2>1, <2>2, <4>1 DEF HandedOn
      <3> QED BY <3>1, <3>2
    <2>5. failed' \/ handed' = out' \cup buffer'
      <3>1. CASE Emit
        <4>1. PICK last \in 0..n :
                 /\ out' = out \cup {g \in buffer \cup {n} : g <= last}
                 /\ buffer' = {g \in buffer \cup {n} : g > last}
          BY <3>1 DEF Emit, PassOn
        <4>2. \A g \in buffer \cup {n} : g <= last \/ g > last
          BY <1>4
        <4> DEFINE R == buffer \cup {n}
                   below == {g \in R : g <= last}
                   above == {g \in R : g > last}
        <4>3. below \cup above = R
          <5>1. \A g \in R : g \in below \/ g \in above
            BY <4>2
          <5> QED BY <5>1
        <4>4. out' \cup buffer' = out \cup buffer \cup {n}
          <5>1. out' = out \cup below /\ buffer' = above
            BY <4>1
          <5> HIDE DEF below, above
          <5> QED BY <4>3, <5>1
        <4>5. failed' = failed
          BY <3>1 DEF Emit
        <4> QED BY <1>2, <2>1, <4>4, <4>5 DEF HandedOn
      <3>2. CASE EmitLost
        BY <3>2 DEF EmitLost
      <3> QED BY <1>7, <3>1, <3>2
    <2> QED
      BY <1>2, <1>4, <2>1, <2>2, <2>3, <2>4, <2>5 DEF HandedOn
  <1>8. CASE EmitFails
    <2>1. ~NoneMissing /\ pc = "emit" /\ pc' = "check"
          /\ UNCHANGED <<n, handed, buffer, out, failed>>
      BY <1>8 DEF EmitFails, NoneMissing, Goto, state, stdout
    <2>2. Pending = 1 /\ Pending' = 0
      BY <2>1 DEF Pending
    <2> QED BY <1>2, <1>4, <2>1, <2>2 DEF HandedOn
  <1>9. CASE Exit \/ ExitLost
    <2>1. /\ pc = "recheck" /\ pc' = "exited" /\ buffer' = {}
          /\ UNCHANGED <<n, handed>>
      BY <1>9 DEF Exit, ExitLost, state
    <2>2. Pending = 0 /\ Pending' = 0
      BY <2>1 DEF Pending
    <2>3. failed' \/ handed' = out' \cup buffer'
      <3>1. CASE Exit
        <4>1. /\ out' = out \cup {g \in buffer : g <= n}
              /\ failed' = failed
          BY <3>1 DEF Exit, PassOn
        <4>2. \A g \in buffer : g <= n
          BY <1>2, <1>4, <2>2 DEF HandedOn
        <4>3. out' = out \cup buffer
          BY <4>1, <4>2
        <4> QED BY <1>2, <2>1, <4>1, <4>3 DEF HandedOn
      <3>2. CASE ExitLost
        BY <3>2 DEF ExitLost
      <3> QED BY <1>9, <3>1, <3>2
    <2> QED BY <1>2, <2>1, <2>2, <2>3 DEF HandedOn
  <1>10. CASE Kill
    <2>1. pc' = "killed" /\ UNCHANGED <<n, handed, buffer, out, failed>>
      BY <1>10 DEF Kill, state, stdout
    <2>2. Pending' = 0 /\ Pending \in {0, 1}
      BY <2>1 DEF Pending
    <2> QED BY <1>2, <1>4, <2>1, <2>2 DEF HandedOn
  <1>11. CASE Restart
    <2>1. pc' = "start" /\ handed' = {} /\ buffer' = {} /\ out' = {}
      BY <1>11 DEF Restart
    <2> QED BY <2>1 DEF HandedOn
  <1>12. CASE UNCHANGED <<pc, n, handed, buffer, out, failed>>
    <2>1. Pending' = Pending
      BY <1>12 DEF Pending
    <2> QED BY <1>2, <1>12, <2>1 DEF HandedOn
  <1> QED
    BY <1>3, <1>5, <1>6, <1>7, <1>8, <1>9, <1>10, <1>11, <1>12, Zenon
    DEF Next, Main, Environment, Scraper, vars, state, stdout, process,
        Exporting, CommandExists, NextCollector, OpenTextfile, OpenFails,
        Render, RenderFails, AbandonExport, WriteChunk, WriteFails,
        CloseTextfile, Signal, Hang, StartScrape, ReadChunk, EndScrape

-------------------------------------------------------------------------------
(* The invariant and what follows from it *)

LEMMA InitInv == Init => IInv
  <1> SUFFICES ASSUME Init PROVE IInv
    OBVIOUS
  <1>1. TypeInv
    BY InitType
  <1>2. /\ pc = "start" /\ n = 0 /\ seen = 0 /\ status = 0
        /\ reader = "idle" /\ asked = FALSE
    BY DEF Init
  <1>3. RecordsInv
    <2>1. handed = {} /\ buffer = {} /\ out = {}
      BY DEF Init
    <2> QED BY <1>2, <2>1 DEF RecordsInv, HandedOn
  <1>4. CASE file = <<>> /\ cause = "absent"
    <2>1. Len(file) = 0
      BY <1>4, NoPieces
    <2>2. FileInv
      BY <1>2, <2>1 DEF FileInv
    <2>3. CauseInv /\ SinkInv /\ ScrapeInv /\ StopInv
      BY <1>2, <1>4 DEF CauseInv, TornFileHasACause, SinkInv, Exporting,
         TextfileIsCurrent, ScrapeInv, SteadyScrapeIsWhole, StopInv
    <2> QED BY <1>1, <1>3, <2>2, <2>3 DEF IInv
  <1>5. CASE file = [i \in 1..Chunks |-> 0] /\ cause = "none"
    <2>1. Len(file) = Chunks /\ \A i \in 1..Len(file) : file[i] = 0
      BY <1>5, WatchAssumption
    <2>2. FileInv
      BY <1>2, <2>1 DEF FileInv
    <2>3. IsWhole(file)
      BY <2>1, WatchAssumption DEF IsWhole, Whole
    <2>4. CauseInv /\ SinkInv /\ ScrapeInv /\ StopInv
      BY <1>2, <2>3 DEF CauseInv, TornFileHasACause, SinkInv, Exporting,
         TextfileIsCurrent, ScrapeInv, SteadyScrapeIsWhole, StopInv
    <2> QED BY <1>1, <1>3, <2>2, <2>4 DEF IInv
  <1> QED BY <1>4, <1>5 DEF Init

LEMMA NextInv == IInv /\ [Next]_vars => IInv'
  BY NextType, NextFile, NextCause, NextSink, NextScrape, NextStop, NextRecords
  DEF IInv

LEMMA Invariance == Spec => []IInv
  BY InitInv, NextInv, PTL DEF Spec

\* Type correctness of main, the textfile, stdout and the scraper.
THEOREM TypeCorrect == Spec => []TypeOK
  <1>1. IInv => TypeOK
    BY DEF IInv, TypeInv
  <1> QED BY <1>1, Invariance, PTL

\* A textfile that is short after its export was never written, was hit by an
\* unnoticed failure or by a kill: a stop by signal never tears it.
THEOREM TornFileExplained == Spec => []TornFileHasACause
  <1>1. IInv => TornFileHasACause
    BY DEF IInv, CauseInv
  <1> QED BY <1>1, Invariance, PTL

\* From the end of an export to the next one, and after an orderly exit, the
\* textfile shows the newest snapshot, or a render or write failed.
THEOREM TextfileCurrent == Spec => []TextfileIsCurrent
  <1>1. IInv => TextfileIsCurrent
    BY DEF IInv, SinkInv
  <1> QED BY <1>1, Invariance, PTL

\* A scrape of an intact textfile that no export overlaps is whole.
THEOREM SteadyScrapes == Spec => []SteadyScrapeIsWhole
  <1>1. IInv => SteadyScrapeIsWhole
    BY DEF IInv, ScrapeInv
  <1> QED BY <1>1, Invariance, PTL

\* A process that ends in order has passed on all its records unless a write
\* of stdout failed, and has recorded every snapshot up to the newest where no
\* render can fail.
THEOREM OrderlyExit == Spec => []OrderlyExitDeliversAll
  <1>1. IInv => OrderlyExitDeliversAll
    <2> SUFFICES ASSUME IInv, sink # "textfile", pc = "exited"
                 PROVE  OrderlyExitDeliversAll
      BY DEF OrderlyExitDeliversAll
    <2>1. HandedOn /\ Pending = 0
      BY DEF IInv, RecordsInv, Pending
    <2>2. failed \/ out = handed
      BY <2>1 DEF HandedOn
    <2>3. ASSUME NoneMissing
          PROVE  n \in handed /\ \A g \in handed : g..n \subseteq handed
      <3>1. n \in Nat /\ handed \subseteq Nat
        BY DEF IInv, TypeInv, TypeOK
      <3> QED BY <2>1, <2>3, <3>1 DEF HandedOn
    <2> QED BY <2>2, <2>3 DEF OrderlyExitDeliversAll, NoneMissing
  <1> QED BY <1>1, Invariance, PTL

\* No piece the scraper reads is older than one it has read before.
THEOREM NeverGoBack == Spec => ReadingsNeverGoBack
  <1>1. IInv /\ [Next]_vars => [seen' >= seen]_vars
    <2> SUFFICES ASSUME IInv, [Next]_vars PROVE seen' >= seen
      OBVIOUS
    <2>1. seen \in Nat
      BY DEF IInv, TypeInv, TypeOK
    <2>2. CASE ReadChunk
      <3>1. Len(got) + 1 \in 1..Len(file) /\ seen' = file[Len(got) + 1]
        BY <2>2 DEF ReadChunk, IInv, TypeInv, TypeOK
      <3> QED BY <3>1 DEF IInv, FileInv
    <2>3. CASE UNCHANGED seen
      BY <2>1, <2>3
    <2> QED
      BY <2>2, <2>3, Zenon
      DEF Next, Main, Environment, Scraper, vars, scraper, Start,
          BeginSnapshot, CommandExists, NextCollector, SnapshotTaken,
          OpenTextfile, OpenFails, Render, RenderFails, AbandonExport,
          WriteChunk, WriteFails, CloseTextfile, Emit, EmitLost, EmitFails,
          Check, Wake, LoopAgain, Exit, ExitLost, Goto, Signal, Kill, Restart,
          Hang, StartScrape, EndScrape
  <1> QED BY <1>1, Invariance, PTL DEF Spec, ReadingsNeverGoBack

\* Snapshots are begun only by Start, before which no request is heard, and by
\* LoopAgain, which reads the flag.
THEOREM StopTakesNone == Spec => StopTakesNoSnapshot
  <1>1. IInv /\ [Next]_vars => [asked => n' = n]_vars
    <2> SUFFICES ASSUME IInv, [Next]_vars, asked PROVE n' = n
      OBVIOUS
    <2>1. ~Start /\ ~LoopAgain
      BY DEF IInv, StopInv, Start, LoopAgain
    <2>2. CASE UNCHANGED n
      BY <2>2
    <2> QED
      BY <2>1, <2>2, Zenon
      DEF Next, Main, Environment, Scraper, vars, state, process,
          CommandExists, NextCollector, SnapshotTaken, OpenTextfile, OpenFails,
          Render, RenderFails, AbandonExport, WriteChunk, WriteFails,
          CloseTextfile, Emit, EmitLost, EmitFails, Check, Wake, Exit,
          ExitLost, Goto, Signal, Kill, Restart, Hang, StartScrape, ReadChunk,
          EndScrape
  <1> QED BY <1>1, Invariance, PTL DEF Spec, StopTakesNoSnapshot

-------------------------------------------------------------------------------
(* Refinement: the file that is truncated and rewritten piece by piece is, to
   whoever asks for whole exports only, the register of ExportRegister.tla. *)

THEOREM Refinement == Spec => ImplementsRegister
  <1> DEFINE shown == {g \in 0..MaxSnapshots : Whole(file, g)}
  <1>1. Init => Register!Init
    <2> SUFFICES ASSUME Init PROVE shown \in {{}, {0}}
      BY DEF Init, Register!Init
    <2>1. CASE file = <<>>
      <3>1. Len(file) # Chunks
        BY <2>1, NoPieces, WatchAssumption
      <3> QED BY <3>1 DEF Whole
    <2>2. CASE file = [i \in 1..Chunks |-> 0]
      <3>1. Len(file) = Chunks /\ \A i \in 1..Len(file) : file[i] = 0
        BY <2>2, WatchAssumption
      <3>2. \A g \in 0..MaxSnapshots : Whole(file, g) <=> g = 0
        BY <3>1, WatchAssumption DEF Whole
      <3>3. 0 \in 0..MaxSnapshots
        BY WatchAssumption
      <3>4. shown = {0}
        BY <3>2, <3>3
      <3> QED BY <3>4
    <2> QED BY <2>1, <2>2 DEF Init
  <1>2. IInv /\ [Next]_vars => [Register!Next]_(Register!vars)
    <2> SUFFICES ASSUME IInv, [Next]_vars
                 PROVE  Register!Next \/ UNCHANGED <<n, shown>>
      BY DEF Register!vars
    <2>1. CASE Start \/ LoopAgain
      <3>1. n < MaxSnapshots /\ n' = n + 1 /\ UNCHANGED file
        BY <2>1 DEF Start, LoopAgain, BeginSnapshot, disk, IInv, TypeInv
      <3>2. shown' = shown
        BY <3>1 DEF Whole
      <3> QED BY <3>1, <3>2 DEF Register!Next, Register!Snapshot
    <2>2. CASE OpenTextfile
      <3>1. UNCHANGED n /\ Len(file') # Chunks
        BY <2>2, NoPieces, WatchAssumption DEF OpenTextfile, state
      <3>2. shown' = {}
        BY <3>1 DEF Whole
      <3> QED BY <3>1, <3>2 DEF Register!Next, Register!Invalidate
    <2>3. CASE WriteChunk
      <3>1. /\ UNCHANGED n /\ n \in 0..MaxSnapshots
            /\ Len(file) < Chunks /\ Len(file) \in Nat
        BY <2>3 DEF WriteChunk, state, IInv, TypeInv, TypeOK
      <3>2. shown = {}
        BY <3>1, WatchAssumption DEF Whole
      <3>3. \A i \in 1..Len(file') : file'[i] = n
        <4>1. FileInv' /\ pc' = "write"
          BY <2>3, NextInv DEF IInv, WriteChunk
        <4> QED BY <4>1, <3>1 DEF FileInv
      <3>4. CASE Len(file') = Chunks
        <4>1. \A g \in 0..MaxSnapshots : Whole(file', g) <=> g = n
          BY <3>1, <3>3, <3>4, WatchAssumption DEF Whole
        <4>2. shown' = {n}
          BY <3>1, <4>1 DEF Whole
        <4> QED BY <3>1, <3>2, <4>2 DEF Register!Next, Register!Publish
      <3>5. CASE Len(file') # Chunks
        <4>1. shown' = {}
          BY <3>5 DEF Whole
        <4> QED BY <3>1, <3>2, <4>1
      <3> QED BY <3>4, <3>5
    <2>4. CASE UNCHANGED <<n, file>>
      BY <2>4 DEF Whole
    <2> QED
      BY <2>1, <2>2, <2>3, <2>4, Zenon
      DEF Next, Main, Environment, Scraper, vars, state, disk, process,
          CommandExists, NextCollector, SnapshotTaken, OpenFails, Render,
          RenderFails, AbandonExport, WriteFails, CloseTextfile, Emit,
          EmitLost, EmitFails, Check, Wake, Exit, ExitLost, Goto, Signal, Kill,
          Restart, Hang, StartScrape, ReadChunk, EndScrape
  <1> QED
    BY <1>1, <1>2, Invariance, PTL DEF Spec, ImplementsRegister, Register!Spec

===============================================================================
