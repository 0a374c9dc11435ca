-------------------------------- MODULE Watch ---------------------------------
(***************************************************************************)
(* The process of thermal_main.c: take a snapshot, export it, sleep, until *)
(* a signal asks it to stop.  Around it: signals that arrive at any point, *)
(* a supervisor that may kill and restart the process, a disk that fills   *)
(* up, external tools that hang, and a scraper (node_exporter) that reads  *)
(* the Prometheus textfile while it is being rewritten.                    *)
(*                                                                         *)
(* A snapshot is abstracted to its number n, an export of it to Chunks     *)
(* pieces that all carry that number: a piece is what one write(2) of the  *)
(* C library makes visible in the file.                                    *)
(***************************************************************************)
EXTENDS Naturals, Sequences

CONSTANTS
    Arch,           \* the architecture tm_context_init detects
    MaxSnapshots,   \* bound on the number of snapshots, over all restarts
    Chunks,         \* write(2) calls one export takes
    Faults          \* what may go wrong in the environment

ASSUME WatchAssumption ==
    /\ Arch \in {"unknown", "x86_64", "arm64"}
    /\ MaxSnapshots \in Nat \ {0}
    /\ Chunks \in Nat \ {0}
    /\ Faults \subseteq {"open", "render", "disk", "kill", "hang"}

\* tm_collect_snapshot calls these, in this order.
CpuCollector ==
    IF Arch = "x86_64" THEN <<"x86">>
    ELSE IF Arch = "arm64" THEN <<"arm64">> ELSE <<>>

Collectors ==
    <<"generic_linux">> \o CpuCollector
      \o <<"nvidia", "nvidia_cuda", "nvidia_dcgm", "amd", "ipmi", "redfish">>

\* These begin with command_exists, that is with a system(3) call.
ShellUsers == {"nvidia_dcgm", "ipmi"}

Sinks == {"textfile", "prometheus", "json", "text"}

VARIABLES
    watch,          \* --watch was given
    sink,           \* where main sends each snapshot
    pc,             \* where main is
    stage,          \* position in Collectors while pc = "collect"
    shell,          \* the collector is inside system(3)
    hung,           \* the collector waits for a tool that never answers
    keep_running,   \* the flag the signal handler clears
    n,              \* number of the newest snapshot
    status,         \* exit status
    file,           \* pieces visible in the textfile (none if it is absent)
    handed,         \* snapshots this process has handed to stdout
    buffer,         \* those of them that wait in the stdio buffer
    out,            \* those that have reached what stdout is connected to
    failed,         \* auxiliary: a write of stdout has failed
    cause,          \* auxiliary: why the textfile may be short
    asked,          \* auxiliary: a stop request the process must honour
    reader,         \* the scraper: idle, reading or done
    got,            \* pieces the current or last scrape has read
    steady,         \* auxiliary: no export has overlapped the scrape
    seen            \* auxiliary: number of the last piece ever read

config  == <<watch, sink>>
state   == <<stage, shell, hung, keep_running, n, status>>
disk    == <<file, cause>>
stdout  == <<handed, buffer, out, failed>>
scraper == <<reader, got, steady, seen>>
vars    == <<config, pc, state, disk, stdout, scraper, asked>>

Stopped   == {"exited", "killed"}
Exporting == {"render", "write", "close"}

\* The pieces s are the whole export of snapshot g.
Whole(s, g) == Len(s) = Chunks /\ \A i \in 1..Len(s) : s[i] = g

IsWhole(s) == \E g \in 0..MaxSnapshots : Whole(s, g)

TypeOK ==
    /\ watch \in BOOLEAN
    /\ sink \in Sinks
    /\ pc \in {"start", "collect", "open", "emit", "check", "sleep", "recheck"}
              \cup Exporting \cup Stopped
    /\ stage \in 0..Len(Collectors)
    /\ shell \in BOOLEAN
    /\ hung \in BOOLEAN
    /\ keep_running \in BOOLEAN
    /\ n \in 0..MaxSnapshots
    /\ status \in {0, 1}
    /\ file \in Seq(0..MaxSnapshots)
    /\ Len(file) <= Chunks
    /\ handed \subseteq 0..MaxSnapshots
    /\ buffer \subseteq handed
    /\ out \subseteq handed
    /\ failed \in BOOLEAN
    /\ cause \in {"none", "absent", "render", "disk", "kill"}
    /\ asked \in BOOLEAN
    /\ reader \in {"idle", "reading", "done"}
    /\ got \in Seq(0..MaxSnapshots)
    /\ Len(got) <= Chunks
    /\ steady \in BOOLEAN
    /\ seen \in 0..MaxSnapshots

\* The textfile is absent or holds the whole export of an earlier process.
Init ==
    /\ watch \in BOOLEAN
    /\ sink \in Sinks
    /\ pc = "start"
    /\ stage = 0
    /\ shell = FALSE
    /\ hung = FALSE
    /\ keep_running = TRUE
    /\ n = 0
    /\ status = 0
    /\ \/ file = <<>> /\ cause = "absent"
       \/ file = [i \in 1..Chunks |-> 0] /\ cause = "none"
    /\ handed = {}
    /\ buffer = {}
    /\ out = {}
    /\ failed = FALSE
    /\ asked = FALSE
    /\ reader = "idle"
    /\ got = <<>>
    /\ steady = FALSE
    /\ seen = 0

-------------------------------------------------------------------------------
(* Taking a snapshot *)

\* main goes on at the given place and does nothing else.
Goto(place) ==
    /\ pc' = place
    /\ UNCHANGED <<config, state, disk, stdout, scraper, asked>>

BeginSnapshot ==
    /\ n' = n + 1
    /\ pc' = "collect"
    /\ stage' = 1
    /\ shell' = (Collectors[1] \in ShellUsers)
    /\ UNCHANGED <<config, hung, keep_running, status, disk, stdout, scraper,
                   asked>>

\* main up to the first pass of its loop: from here on signals are handled.
Start ==
    /\ pc = "start"
    /\ BeginSnapshot

\* command_exists returns, and the rest of the collector runs.
CommandExists ==
    /\ pc = "collect" /\ ~hung
    /\ shell
    /\ shell' = FALSE
    /\ UNCHANGED <<config, pc, stage, hung, keep_running, n, status, disk,
                   stdout, scraper, asked>>

\* A collector returns; its result is ignored and the next one is called.
NextCollector ==
    /\ pc = "collect" /\ ~hung
    /\ ~shell
    /\ stage < Len(Collectors)
    /\ stage' = stage + 1
    /\ shell' = (Collectors[stage'] \in ShellUsers)
    /\ UNCHANGED <<config, pc, hung, keep_running, n, status, disk, stdout,
                   scraper, asked>>

SnapshotTaken ==
    /\ pc = "collect" /\ ~hung
    /\ ~shell
    /\ stage = Len(Collectors)
    /\ Goto(IF sink = "textfile" THEN "open" ELSE "emit")

-------------------------------------------------------------------------------
(* Exporting it to the textfile *)

\* Faulty variant: opened without truncation, the old export is overwritten.
OpenInPlace ==
    /\ pc = "open"
    /\ file' = IF file = <<>> THEN <<>> ELSE <<n>> \o Tail(file)
    /\ cause' = "none"
    /\ steady' = FALSE
    /\ pc' = "render"
    /\ UNCHANGED <<config, state, stdout, reader, got, seen, asked>>

\* fopen(path, "w") truncates the file before anything is rendered.
OpenTextfile ==
    /\ pc = "open"
    /\ file' = <<>>
    /\ cause' = "none"
    /\ steady' = FALSE
    /\ pc' = "render"
    /\ UNCHANGED <<config, state, stdout, reader, got, seen, asked>>

\* A failed fopen ends the process, in watch mode too.
OpenFails ==
    /\ "open" \in Faults
    /\ pc = "open"
    /\ pc' = "exited"
    /\ status' = 1
    /\ UNCHANGED <<config, stage, shell, hung, keep_running, n, disk, stdout,
                   scraper, asked>>

Render == pc = "render" /\ Goto("write")

\* fclose follows at once; cause notes that the file stays short.
AbandonExport(why) ==
    /\ pc' = "close"
    /\ cause' = why
    /\ UNCHANGED <<config, state, file, stdout, scraper, asked>>

\* tm_snapshot_to_prometheus does not fit its buffer: nothing is written.
RenderFails ==
    /\ "render" \in Faults
    /\ pc = "render"
    /\ AbandonExport("render")

\* Faulty variant: more is written than was rendered.
WriteTooMuch ==
    /\ pc = "write"
    /\ file' = Append(file, n)
    /\ UNCHANGED <<config, pc, state, cause, stdout, scraper, asked>>

\* Faulty variant: the buffer still holds the last snapshot.
WriteStale ==
    /\ pc = "write"
    /\ Len(file) < Chunks
    /\ file' = Append(file, n - 1)
    /\ UNCHANGED <<config, pc, state, cause, stdout, scraper, asked>>

\* fputs, and fclose for what is left in the buffer.
WriteChunk ==
    /\ pc = "write"
    /\ Len(file) < Chunks
    /\ file' = Append(file, n)
    /\ UNCHANGED <<config, pc, state, cause, stdout, scraper, asked>>

\* A failed write is not noticed: neither fputs nor fclose is checked.
WriteFails ==
    /\ "disk" \in Faults
    /\ pc = "write"
    /\ Len(file) < Chunks
    /\ AbandonExport("disk")

CloseTextfile ==
    /\ pc = "close" \/ (pc = "write" /\ Len(file) = Chunks)
    /\ Goto("check")

-------------------------------------------------------------------------------
(* Or to standard output *)

\* write(2) passes on the records of R up to the given one.
PassOn(R, last) == out' = out \cup {g \in R : g <= last}

\* stdio passes on as much of its buffer as it likes, and keeps the rest.
Emit ==
    /\ pc = "emit"
    /\ handed' = handed \cup {n}
    /\ \E last \in 0..n :
          /\ PassOn(buffer \cup {n}, last)
          /\ buffer' = {g \in buffer \cup {n} : g > last}
    /\ pc' = "check"
    /\ UNCHANGED <<config, state, disk, failed, scraper, asked>>

\* A write fails on the way: what is in the buffer and not written is dropped,
\* the record in hand is torn, and neither fputs, puts nor printf is checked.
EmitLost ==
    /\ "disk" \in Faults
    /\ pc = "emit"
    /\ handed' = handed \cup {n}
    /\ \E last \in 0..(n - 1) : PassOn(buffer, last)
    /\ buffer' = {}
    /\ failed' = TRUE
    /\ pc' = "check"
    /\ UNCHANGED <<config, state, disk, scraper, asked>>

\* A snapshot that does not fit the buffer is skipped without a word.
EmitFails ==
    /\ "render" \in Faults
    /\ pc = "emit"
    /\ sink \in {"prometheus", "json"}
    /\ Goto("check")

-------------------------------------------------------------------------------
(* The rest of the loop *)

\* if (watch && keep_running) sleep(interval): the flag is read here ...
Check ==
    /\ pc = "check"
    /\ Goto(IF watch /\ keep_running THEN "sleep" ELSE "recheck")

\* The interval is over, or a signal has cut it short.
Wake == pc = "sleep" /\ Goto("recheck")

\* Faulty variant: the loop condition forgets the flag.
LoopUnchecked ==
    /\ pc = "recheck"
    /\ watch
    /\ n < MaxSnapshots
    /\ BeginSnapshot

\* ... and again here: while (watch && keep_running).
LoopAgain ==
    /\ pc = "recheck"
    /\ watch /\ keep_running
    /\ n < MaxSnapshots
    /\ BeginSnapshot

\* Faulty variant: _exit, which leaves the stdio buffer behind.
ExitUnflushed ==
    /\ pc = "recheck"
    /\ ~(watch /\ keep_running)
    /\ Goto("exited")

\* Faulty variant: only a signal ends the loop.
ExitOnSignal ==
    /\ pc = "recheck"
    /\ ~keep_running
    /\ Goto("exited")

\* return 0 flushes stdout.
Exit ==
    /\ pc = "recheck"
    /\ ~(watch /\ keep_running)
    /\ pc' = "exited"
    /\ PassOn(buffer, n)
    /\ buffer' = {}
    /\ UNCHANGED <<config, state, disk, handed, failed, scraper, asked>>

\* That flush fails: the exit status is 0 all the same.
ExitLost ==
    /\ "disk" \in Faults
    /\ pc = "recheck"
    /\ ~(watch /\ keep_running)
    /\ buffer # {}
    /\ pc' = "exited"
    /\ \E last \in 0..(n - 1) : PassOn(buffer, last)
    /\ buffer' = {}
    /\ failed' = TRUE
    /\ UNCHANGED <<config, state, disk, handed, scraper, asked>>

-------------------------------------------------------------------------------
(* Signals, supervisor, tools *)

\* Faulty variant: the handler ends the process where it stands.
SignalExits(s) ==
    /\ pc \notin Stopped \cup {"start"}
    /\ Goto("exited")

\* Faulty variant: the loop never learns of the signal.
SignalMissed(s) ==
    /\ pc \notin Stopped \cup {"start"}
    /\ asked' = TRUE
    /\ UNCHANGED <<config, pc, state, disk, stdout, scraper>>

\* handle_signal.  While system(3) runs, the process ignores SIGINT.
Signal(s) ==
    /\ pc \notin Stopped \cup {"start"}
    /\ ~(s = "INT" /\ shell)
    /\ keep_running' = FALSE
    /\ asked' = TRUE
    /\ UNCHANGED <<config, pc, stage, shell, hung, n, status, disk, stdout,
                   scraper>>

\* A signal before the handlers are installed, SIGKILL at any time, or SIGPIPE
\* when nobody reads stdout any more.
Kill ==
    /\ "kill" \in Faults
    /\ pc \notin Stopped
    /\ pc' = "killed"
    /\ cause' = IF pc \in {"render", "write"} /\ Len(file) < Chunks
                THEN "kill" ELSE cause
    /\ UNCHANGED <<config, state, file, stdout, scraper, asked>>

\* A supervisor, or a timer in one-shot mode, starts the program again.
Restart ==
    /\ pc \in Stopped
    /\ n < MaxSnapshots
    /\ pc' = "start"
    /\ stage' = 0
    /\ shell' = FALSE
    /\ hung' = FALSE
    /\ keep_running' = TRUE
    /\ status' = 0
    /\ handed' = {}
    /\ buffer' = {}
    /\ out' = {}
    /\ failed' = FALSE
    /\ asked' = FALSE
    /\ UNCHANGED <<config, n, disk, scraper>>

\* ipmitool, dcgmi or a vendor library never returns: nothing has a timeout.
Hang ==
    /\ "hang" \in Faults
    /\ pc = "collect"
    /\ hung' = TRUE
    /\ UNCHANGED <<config, pc, stage, shell, keep_running, n, status, disk,
                   stdout, scraper, asked>>

-------------------------------------------------------------------------------
(* The scraper reads the same file, piece by piece, whenever it wants *)

process == <<config, pc, state, disk, stdout, asked>>

StartScrape ==
    /\ reader # "reading"
    /\ reader' = "reading"
    /\ got' = <<>>
    /\ steady' = (pc \notin Exporting /\ cause = "none")
    /\ UNCHANGED <<process, seen>>

ReadChunk ==
    /\ reader = "reading"
    /\ Len(got) < Len(file)
    /\ got' = Append(got, file[Len(got) + 1])
    /\ seen' = file[Len(got) + 1]
    /\ UNCHANGED <<process, reader, steady>>

EndScrape ==
    /\ reader = "reading"
    /\ Len(got) >= Len(file)
    /\ reader' = "done"
    /\ UNCHANGED <<process, got, steady, seen>>

-------------------------------------------------------------------------------
Main ==
    \/ Start \/ CommandExists \/ NextCollector \/ SnapshotTaken
    \/ OpenTextfile \/ OpenFails \/ Render \/ RenderFails
    \/ WriteChunk \/ WriteFails \/ CloseTextfile
    \/ Emit \/ EmitLost \/ EmitFails
    \/ Check \/ Wake \/ LoopAgain \/ Exit \/ ExitLost

Environment ==
    \/ \E s \in {"INT", "TERM"} : Signal(s)
    \/ Kill \/ Restart \/ Hang

Scraper == StartScrape \/ ReadChunk \/ EndScrape

Next == Main \/ Environment \/ Scraper

Spec == Init /\ [][Next]_vars

\* The kernel schedules the process.  A collector that is not hung returns.
FairSpec == Spec /\ WF_vars(Main)

-------------------------------------------------------------------------------
(* Properties *)

\* Outside an export, a textfile that is not one whole export has a reason:
\* it was never written, a render or a write failed unnoticed, or the process
\* was killed in the middle.  A stop by signal, at whatever point of main it
\* arrives, is never the reason (handle_signal, thermal_main.c:12, 72-102).
TornFileHasACause ==
    pc \notin Exporting /\ cause = "none" => IsWhole(file)

\* Once an iteration has exported its snapshot, and until the next one opens
\* the file, the textfile shows exactly that snapshot, unless the render or
\* the disk failed (thermal_main.c:77-86).  This includes an orderly exit.
TextfileIsCurrent ==
    /\ sink = "textfile"
    /\ pc \in {"check", "sleep", "recheck"} \/ (pc = "exited" /\ status = 0)
    => Whole(file, n) \/ cause \in {"render", "disk"}

\* The scraper never reads a piece of an older snapshot after a piece of a
\* newer one, within a scrape or from one scrape to the next, across
\* truncations, kills and restarts (fopen "w", thermal_main.c:78).
ReadingsNeverGoBack == [][seen' >= seen]_vars

\* A scrape of an intact textfile that no export overlaps is whole.
SteadyScrapeIsWhole ==
    reader = "done" /\ steady => IsWhole(got)

\* A process that ends in order has passed on every record it handed to stdout,
\* although main never flushes, unless a write of stdout failed (which nothing
\* checks: thermal_main.c:89, 93, 96 and 104).  Its records are of consecutive
\* snapshots up to the newest; only a render that does not fit makes one of
\* them miss, and never in text mode (thermal_main.c:87-104).
OrderlyExitDeliversAll ==
    sink # "textfile" /\ pc = "exited" =>
        /\ failed \/ out = handed
        /\ "render" \notin Faults \/ sink = "text" =>
              n \in handed /\ \A g \in handed : g..n \subseteq handed

\* After a stop request that was heard, no further snapshot is begun by this
\* process, wherever in the loop the request arrived (thermal_main.c:99-102).
StopTakesNoSnapshot == [][asked => n' = n]_vars

\* Such a request ends the process, unless a tool it waits for never answers.
StopIsHonoured == asked ~> (pc \in Stopped \/ hung)

\* Without --watch the process ends by itself.
OneShotEnds == (pc = "collect" /\ ~watch) ~> (pc \in Stopped \/ hung)

\* What "reliable export paths such as Prometheus textfile output"
\* (docs/blog-why-thermal-observatory.md:182) asks for: a scrape gets one whole
\* export, or finds no file content at all.
ScrapesAreWhole ==
    reader = "done" => got = <<>> \/ IsWhole(got)

-------------------------------------------------------------------------------
(* The textfile implements the export register. *)

Register == INSTANCE ExportRegister WITH
    clock    <- n,
    register <- {g \in 0..MaxSnapshots : Whole(file, g)}

\* Every step of the system is a step of the register or leaves it alone.
ImplementsRegister == Register!Spec

===============================================================================
