# Verification of thermal-observatory

TLA+ models of `thermal_monitor`, the program built from `src/src/`, with TLC
runs on small instances and TLAPS proofs for every instance. Paths below are
relative to the repository; `thermal_main.c:78` is `src/thermal_main.c` in it.

## The system

`thermal_monitor` is one single-threaded process. `main` takes a snapshot of
the host (`tm_collect_snapshot`), exports it, and in watch mode sleeps and
starts over until a signal clears `keep_running`. Collectors and formatters
share one structure, `tm_snapshot_t`: collectors run in a fixed order and
append to its bounded tables, formatters only read it.

| Part | State | Operations | What is hard | What makes it correct |
| --- | --- | --- | --- | --- |
| `thermal_main.c`: loop, signals, export | `keep_running`, the snapshot, the textfile, stdio buffers | collect, open/render/write/close the textfile, emit to stdout, check, sleep, exit | signals between any two statements, readers of a file that is rewritten in place, unchecked writes, kills and restarts, tools that hang | the textfile is the newest snapshot or has a reason not to be; readings never go back; a heard stop ends the process and takes no further snapshot; an orderly end loses no record unless a write failed |
| `platform/ipmi.c`, `platform/redfish.c` | board and fan table, two capability bits | run `ipmitool`, parse rows; read the sample file, parse rows | two sources share one table and its count; full tables; missing columns | tables are the first rows that fit, in order; bits say where entries come from |
| `platform/linux_sysfs.c`, `cpu/cpu_arm64.c` | thermal zone, hwmon and cluster table, three bits | glob, then read file by file | files vanish, break or appear between glob and read; full tables | no invented, doubled or needlessly lost entry; bits follow entries |
| `cpu/cpu_x86.c` | one package with its cores, the RAPL bit | fold coretemp cores, read powercap with a fallback | hotplug during the walk; two reads of each attribute; zero as start of the maxima | the package is its hottest core; a core that comes or goes costs no other its entry; the fallback works attribute by attribute; the bit means an energy reading |
| `format/json.c`, `format/prometheus.c` | a writer over 65536 bytes | append pieces, stop or go on after a failure | the buffer ends inside a document | a document is printed whole or not at all, and not at all only if it is too long; a Prometheus series belongs to one sensor and keeps it, as far as its labels can say so |
| `gpu/gpu_nvidia.c`, `gpu_nvidia_cuda.c`, `nvidia_dcgm.c` | GPU table, three bits | open a vendor library, walk devices, match devices, compare indices | sessions opened and closed per snapshot, drivers and devices that fail in between, three numberings of the same devices, two spellings of PCI ids | every session is closed; the numbers of an entry name its device; no device is lost or doubled; bits mean entries of this snapshot |
| `gpu/gpu_amd.c` | AMD GPU table, two bits | ROCm SMI, else hwmon | the library fails half-way, cards come and go | one source per snapshot, its bit, no device lost, and no session left but those of failed counts |
| `format/text.c` | none | prints | nothing | |
| `platform/linux_paths.c` | none | joins and strips `TM_SYSROOT` | long paths | |
| `kernel/` | none shared | logs at load | separate program | |

Interaction: calls, in the order of `tm_collect_snapshot`; the shared snapshot,
cleared by one `memset`; child processes (`system`, `popen`) and vendor
libraries, which answer in their own time; the textfile, shared with a scraper
that knows nothing of the process.

`PROJECT.json` lists all parts (`components`), and every hazard with its line
and the properties that cover it (`hazards`).

## Modules

| Module | Models | Notes |
| --- | --- | --- |
| `ExportRegister` | abstract: what a reader of the export may see | a register that is empty or holds the newest snapshot |
| `Watch` | `thermal_main.c`, with signals, supervisor, disk, tools and scraper | implements `ExportRegister` |
| `Watch_proofs` | theorems about `Watch` | |
| `SensorTable` | abstract: a table of the snapshot | grows at its end, within its limit, until cleared |
| `Platform` | `ipmi.c`, `redfish.c` | both tables implement `SensorTable` |
| `MCPlatform` | rows for TLC | |
| `Platform_proofs` | theorems about `Platform` | |
| `LinuxSysfs` | `linux_sysfs.c`, and the loop of `cpu_arm64.c` | three tables implement `SensorTable` |
| `MCLinuxSysfs` | a host for TLC | |
| `LinuxSysfs_proofs` | theorems about `LinuxSysfs` | |
| `CpuX86` | `cpu_x86.c` | the core table implements `SensorTable` |
| `MCCpuX86` | a host for TLC | |
| `CpuX86_proofs` | theorems about `CpuX86` | |
| `VendorSession` | abstract: how a collector uses a vendor library | opened at most once, closed before the collector returns |
| `Nvidia` | `gpu_nvidia.c`, `gpu_nvidia_cuda.c`, `nvidia_dcgm.c` over one GPU table | its NVML part implements `VendorSession` |
| `MCNvidia` | devices and numberings for TLC | |
| `Nvidia_proofs` | theorems about `Nvidia` | |
| `Amd` | `gpu_amd.c` | the GPU table implements `SensorTable` |
| `MCAmd` | cards for TLC | |
| `Amd_proofs` | theorems about `Amd` | |
| `Render` | the writers of `json.c` and `prometheus.c`, their documents, and what `main` prints | |
| `MCRender` | sizes for TLC | |
| `Render_proofs` | theorems about `Render` | |
| `Series` | the labels `prometheus.c` gives to entries, for six tables, from export to export | which sensor a series belongs to |
| `MCSeries` | sensors for TLC | |
| `Series_proofs` | theorems about `Series` | |

Definitions whose comment begins with "Faulty variant" are not part of a
specification. Each is a plausible bug of the operator after it; put in its
place, it makes TLC report the property named in `PROJECT.json` (`mutants`).

### Watch

State: `pc` is the place in `main`, `stage` the collector that runs, `n` the
number of the newest snapshot, which stands for its contents. The textfile is
the sequence of pieces that are visible in it, one per `write(2)`, each with
the number of its snapshot. On the way to stdout, `handed` are the snapshots
the process has printed, `buffer` those of them that wait in the stdio buffer,
and `out` those that have arrived.

Actions: one per statement between which something else may happen.
`OpenTextfile` truncates (line 78), `Render`/`RenderFails` is line 83,
`WriteChunk`/`WriteFails` the unchecked `fputs` and `fclose`, `Check` and
`LoopAgain`/`Exit` the two reads of the flag (lines 99 and 102). `Emit` hands
a record to stdio, which passes on as much of its buffer as it likes, and the
return of `main` passes on the rest; `EmitLost` and `ExitLost` are the same
when a write fails half-way (lines 89, 93, 96 and 104), which nobody checks:
what is in the buffer is gone, the loop goes on and the status is 0. A disk
that fills up (`"disk"` in `Faults`) can be that of the textfile or of stdout.
`Signal` may happen anywhere once the handlers are installed; while
`system(3)` runs, SIGINT is ignored. The environment also kills, restarts and
hangs, as far as `Faults` says so; `StartScrape`, `ReadChunk` and `EndScrape`
are the reader.

`cause`, `failed`, `asked`, `steady` and `seen` are auxiliary: no guard reads
them.

### Platform

A row is the sequence of texts `strtok` makes of a line; `Scan` and `Number`
are constants that say what `sscanf` and `atof` make of a text, so the proofs
hold for every such function. One action reads one row, with everything the
code does for it. `ipmiRead` and `redfishRead` are auxiliary.

### LinuxSysfs and CpuX86

The kernel is an action of its own that changes files at any moment.
`LinuxSysfs` has one set of actions for the three loops, which have the same
shape and differ in files, limit and bits (`Files`, `Limit`, `Bits`).
`readable` and `troubled` are auxiliary: sensors that were, or were not, in
order at some time since the snapshot began. In `CpuX86` a powercap directory
is its files: `powercap` holds pairs of a directory and an attribute, each of
which comes and goes by itself, and an attribute may be in both directories,
in either or in none. The auxiliary `hotplugged` and `flapped` are the cores
and files that changed in this snapshot; what the properties promise is said of
the others (`LastingCores`, `Lasting`, `Missing`), so that a core that goes
between its label and its temperature, or a file between its two reads, is
part of every claim and excuses nothing but itself. Of the guards only
the bound `MaxChanges` reads them.

In both, `left` has the places in the list of files that the loop has still to
come to; `glob` leaves the places of the files that are there, and the loop
takes the smallest (`IsNext`). That the entries are in the order of the files
and that no file was passed over is stated with places too
(`LastingCoresComplete`: if a core has an entry, so has every one before it
that was there all the time).

### Nvidia

One GPU table goes through three collectors, as in `tm_collect_snapshot`. An
entry is the device it was read from, with the NVML index, whether it has a PCI
id, and the CUDA ordinal. `pc` is the place in the collectors, `session`
whether NVML is initialised, `i` the loop variable of both device loops.

`NvmlInit`, `NvmlCount`, `OpenDevice`, `ReadDevice` and `NvmlShutdown` are one
library call each (`ReadDevice` those for the fields, whose failures cost a
field only), and between any two of them drivers fail or recover and devices
fall off the bus or come back (`DriverChanges`, `DeviceChanges`). CUDA numbers
the devices in an order of its own (`CudaOrders`). `AlikeChoices` are the sets
of devices whose PCI id NVML prints like `match_by_pci`; the proofs hold for
any. `listed` and `steady` are auxiliary. `SteadyTableComplete` says with
`ListsFirst` which devices the table has: entries of devices that answer, in
their order, none before one that is missing, and none missing while there is
room; `Amd` says it of its two lists in the same way.

### Amd

`left` has the places of the devices or glob results the loop has still to
come to; both loops take the first. `sessions` counts calls of `rsmi_init`
without `rsmi_shut_down`; since a failed device count leaves one (`&&` in
`gpu_amd.c:147-148`), the collector does not implement `VendorSession`, and
`LeaksAreFailedCounts` says how far it is from it: exactly these leaks and no
other. `failures` and `steady` are auxiliary.

### Render

A document is the sequence of lengths of the pieces a formatter appends for a
snapshot: capability names, packages with their cores nested in them, and the
other tables one after another. `Offsets` is where each piece begins in it, by
recursion over the pieces, and `SumOf` where the last one ends. The two
formatters differ in the document and in what follows a failed append.

### Series

The collectors fill in what `prometheus.c` prints as labels: ids that come with
a sensor, numbers that a library gives its devices, texts that may fail to be
read while the value is there, and places in the table. `Series` takes one
table at a time (`kind`) and compares one export with the next. In a snapshot
the loop meets the sensors of the host, each of which is absent, counted but
passed over, or collected with some of its texts (`Absent`, `PassOver`,
`Collect`). Files come in the order of `glob`; NVML and ROCm SMI are
initialised in every snapshot and number what they find then, so the model
lets them meet their devices in any order each time (`Sorted`), and `counted`
is the number the next device gets. A sensor behind files is its path: what a
driver creates anew under another number is another sensor.

Three properties divide the tables:

- no two sensors of one export share a series, except cores of two sockets
  (all go into package 0, `cpu_x86.c:29`) and inputs of two equal chips;
- a series never changes hands, except there, between NVIDIA GPUs whose uuid
  was not read, between the cards of the amdgpu fallback when a card came or
  went (they are numbered by their place, `gpu_amd.c:103`), and between ROCm
  SMI's cards, of which the label has a number of this snapshot and the name of
  the model only (`gpu_amd.c:155-156`): when a card is lost, the next of its
  model takes over its series;
- a sensor read as before keeps its series, a cluster exactly if as many
  clusters stand before it, an NVIDIA GPU exactly if NVML gives it the same
  number; nothing is said of AMD GPUs.

The exceptions are stated in the properties, so each is a known limit of the
exported data and not a gap of the model.

## Runs

| Run | Bounds | Shows |
| --- | --- | --- |
| `watch_faults` | 4 snapshots, 3 pieces, all faults, fair scheduling | safety of the export, that it implements `ExportRegister`, that a stop request and a one-shot run end, and that an orderly end loses no record of stdout unless a write failed |
| `watch_scrape` | 2 snapshots, 2 pieces, no fault at all | violated: a scrape reads a torn export |
| `platform_tables` | 3 board and 2 fan entries, 3 rows per source | the tables are the first entries that fit of all rows, and bits go with entries |
| `platform_elist` | rows of `ipmitool sdr elist all` | violated: the sensor id taken for a reading |
| `sysfs_arm` | 2 zones, 2 hwmon inputs, zone table of 1 | entries are of this snapshot, in order, and none is lost |
| `x86_churn` | 3 cores, room for 2, 5 powercap files of 3 attributes in 2 directories, 2 cores or files that change in each snapshot, any number of times | fold, list of cores, fallback and bit under churn |
| `nvidia_gpus` | 3 devices, room for 2, 3 CUDA numberings, fair scheduling | names, bits and completeness of the table, the session discipline, and that a snapshot ends |
| `nvidia_pci` | the same, PCI ids as NVML prints them | violated: no device gets its CUDA ordinal |
| `amd_gpus` | 3 cards, room for 2, 3 ROCm SMI numberings, 3 snapshots | one source, completeness, exactly the known leaks |
| `render_fits` | buffer of 33 bytes, packages with up to 2 cores, up to 2 GPUs and 3 zones | whole or nothing, in both formats |
| `render_cores` | real sizes, 144 cores | violated: no JSON at all |
| `series_tables` | 3 sensors of each of 6 kinds, every set of missing texts, every order a library may number its devices in | which series are distinct, keep their sensor, and stay with it |

Why the bounds are enough. In `Watch` a torn export takes a second snapshot
over a first, a kill and a restart take a third, and three pieces have a
beginning, a middle and an end. In `Platform` three rows per source fill the
table within one source or between both. In `LinuxSysfs` and `CpuX86` one
table is smaller than its list and one is not; two changes in a snapshot of
`CpuX86` let a core or file go and another one come, and a third would act on
a third core or attribute, which the loops treat alike. With three devices and
room for two, `Nvidia` and `Amd` have a device before, at and behind the
limit, and one between two others can be lost; the later snapshots of `Amd`
meet what a leak of the first left. In `Render` the buffer is shorter than
some documents of each format, as long as others and longer than the rest, and
ends inside a nested list in some. In `Series` two sensors that agree in all
labels and one that differs decide each property, and the properties relate
two exports only. `MaxSnapshots`, `MaxRows`, `MaxChanges`, `Counts`,
`Packages` and `Bits` are bounds of the models only; the table limits are
those of the header, made small.

The violated runs check what the documentation says; `PROJECT.json`
(`findings`) quotes it. The properties of all other runs hold.

Deadlock is checked in every run.

What the models say of other places where code and documents differ, without a
run of its own:

- `redfish.c:84` sets the REDFISH bit when the board table has any entry,
  IPMI's included, while
  `README.md:80` says that bits tell what was truly observed.
  `CapabilitiesExplained` in `Platform` is the bit as the code gives it.
- `linux_sysfs.c:93` and `134` set their bits once something was listed, even
  if nothing could be read; `docs/design.md:47` says that bits explain what
  was observed. `EntriesHaveBits` in `LinuxSysfs` allows a bit with an empty
  table only if a sensor was in trouble.
- `cpu_x86.c:131` leaves zero where a powercap attribute cannot be read, and
  `json.c:203-207` prints the zero with `"error":null`, against "Missing data
  is acceptable; fake normalization is not" (`docs/design.md:20`).

## Fairness

`watch_faults` assumes `WF_vars(Main)`: the kernel goes on
scheduling the process, and a call that does not hang returns. A collector
that hangs disables `Main`, so nothing is assumed of a tool that never
answers, and the liveness properties say so. Nothing is assumed of signals,
the supervisor or the scraper.

`nvidia_gpus` assumes `WF_vars(Collect)`: the calls of the collectors return.
Lines of `dcgmi` are not part of `Collect`: nothing is assumed of how many
there are, only that the output ends.

## Proofs

`tlapm` proves, for all values of the constants that satisfy the named
assumptions, every invariant and every action property and refinement that a
passing run checks:

| Module | Assumption | Theorems |
| --- | --- | --- |
| `Watch_proofs` | `WatchAssumption` | type correctness; `TornFileHasACause`; `TextfileIsCurrent`; `SteadyScrapeIsWhole`; `OrderlyExitDeliversAll`; `ReadingsNeverGoBack`; `StopTakesNoSnapshot`; `Watch` implements `ExportRegister` |
| `Platform_proofs` | `PlatformAssumption` | type correctness; `TablesMatchInput`; `CapabilitiesExplained`; both tables implement `SensorTable` |
| `LinuxSysfs_proofs` | `SysfsAssumption` | type correctness; `NothingInvented`; `NothingSkipped`; `EntriesHaveBits`; the three tables implement `SensorTable` |
| `CpuX86_proofs` | `CpuAssumption` | type correctness; `PackageIsHottest`; `LastingCoresComplete`; `FallbackByAttribute`; `RaplBitMeansEnergy`; the core table implements `SensorTable` |
| `Nvidia_proofs` | `NvidiaAssumption` | type correctness; `EntriesNameTheirGpus`; `SteadyTableComplete`; `BitsExplained`; the NVML collector implements `VendorSession` |
| `Amd_proofs` | `AmdAssumption` | type correctness; `OneSource`; `SteadyTableComplete`; `LeaksAreFailedCounts`; the GPU table implements `SensorTable` |
| `Render_proofs` | `RenderAssumption` | type correctness; `WholeOrNothing`; `NothingOnlyIfTooLong` |
| `Series_proofs` | `SeriesAssumption` | type correctness; `SeriesAreDistinct`; `SeriesKeepTheirSensor`; `SensorsKeepTheirSeries` |

The assumptions give the constants their types and say what the environment
cannot do: a list of files, labels or devices names none twice, table limits
are positive, critical temperatures are positive where they are readable, zones,
clusters and NVML devices have distinct numbers.

Each safety theorem goes through an inductive invariant `IInv`, a conjunction of
named parts with one step lemma each. None of the properties is inductive as it
stands, because each speaks of the end of something; `IInv` says what holds on
the way.

- `Watch`. During an export the pieces in the file are all of snapshot `n`
  (`FileInv`), and a short file has its reason (`CauseInv`); what an undisturbed
  scrape has read is a prefix of the file (`ScrapeInv`); a heard stop has
  cleared the flag (`StopInv`). For stdout (`RecordsInv`): while no write
  has failed every record handed on is in the buffer or out, none is of the
  snapshot still pending, and where no render can fail the records have no gap
  and end with the last snapshot before it. A kill breaks the last part only,
  and ends the process.
- `Platform`. Until Redfish reads a row every board entry is IPMI's
  (`SourceInv`), and the IPMI bit follows the tables while Redfish runs
  (`BitInv`). `TablesMatchInput` is kept by each row (`MatchInv`) because
  "the first entries that fit" of a longer input are those of the shorter one
  with the new entry added if there is room (`FirstAdds`); a row of IPMI is the
  last of the input only while there is none of Redfish.
- `LinuxSysfs`. For each loop, the entries are of files in front of all that are
  left (`EntryInv`), and a place that is not left has its entry or its trouble
  (`SkipInv`); the order of the entries and that nothing is skipped follow at
  the end of the loop. `HistoryInv` ties the auxiliary sets to the files.
- `CpuX86`. The same for the labels (`OrderInv`): every core that has been there
  all the time is left or has its entry, whatever the others did (`CoreInv`).
  For the attributes, those before `attr` are settled by their own two files,
  and the path just chosen is the right one if the file in the first directory
  did not change (`FallbackInv`). `PackageIsHottest` is inductive together with
  the type invariant.
- `Nvidia`. The loop variable is past every index in the table (`LoopInv`); with
  the distinct devices of NVML it follows that a CUDA device matches at most one
  entry, so the first match is the match. While nothing fails or comes back,
  the loop has left out lost devices only (`ListInv`), and the entries with an
  ordinal are those whose device the CUDA loop has come past (`OrdinalInv`).
- `Amd`. A loop starts on an empty table (`SourceInv`), a snapshot has one
  failed count at most (`FailureInv`), while nothing changes the library that
  answered goes on answering (`RouteInv`), and the table follows the places the
  loop has come past (`ListInv`).
- `Render`. The position is the sum of the pieces written (`ProgressInv`); since
  no piece ends behind the document (`OffsetsGrow`), an append that fails
  proves the document too long (`ReturnInv`).
- `Series`. The entries of a table are of sensors met, one each, with numbers
  that grow, and in the order of their paths where `glob` sorts them
  (`MetInv`, `TableInv`, `ExportInv`); they have the labels that sensor, number,
  texts and place make (`LabelInv`). What two labels have in common then says
  what two sensors have. For the amdgpu fallback, two exports of the same cards
  are increasing sequences with the same values, which agree at every place
  (`IncreasingAgree`).

The refinements of `SensorTable` follow from the type invariants, those of
`ExportRegister` and `VendorSession` from the invariants of the file and of the
session, step by step.

The library's induction theorems have an operator as parameter and cannot be
used. Where a recursive function must be known for every input (`Offsets` and
the documents in `Render`, `FlattenSeq` in `Render` and `Platform`),
`SetInduction` takes its place: a set with 0 and the successor of each of its
numbers contains all of them, proved from the well-foundedness of `<`. The set
is that of the numbers for which the claim holds; that the recursive function
exists is shown the same way.

Only model-checked: the liveness properties `StopIsHonoured`, `OneShotEnds` and
`SnapshotEnds`, since the provers know nothing of fairness, and the
findings of the violated runs.

## Not modelled

- `format/text.c`: prints in a fixed order, no state and no error path.
- Texts: escaping, units, digits of values. Where the identity of a text
  matters (columns of a row, labels of a series), the model has it as a
  constant. That Prometheus labels are not escaped while JSON strings are is a
  listed hazard without a property.
- `platform/linux_paths.c` and `TM_SYSROOT`: models open files by identity. A
  path that is cut is one of their unreadable files.
- What the option loop and `tm_context_init` do before the first snapshot: the
  models start from their outcome.
- The contents of vendor libraries and tools, and symbols called without a
  check (`gpu_nvidia.c:78`): models take them to resolve.
- The hand-written layout of `cudaDeviceProp`: a device matches or not.
- The frequency of clusters, readings of GPU entries, values of powercap.
- `kernel/`, `scripts/`, `examples/`: not part of the program.

## Plan

1. Done: `Watch`, `Platform`, `LinuxSysfs`, `CpuX86`, `Nvidia`, `Amd`,
   `Render` and `Series`, each with its proofs.
2. `CommandLine` and `tm_context_init`, the frequency and type of clusters.
3. `Observatory`: the collectors composed into one snapshot between two
   exports, with the capability bits of all of them.
