-------------------------------- MODULE CpuX86 --------------------------------
(***************************************************************************)
(* The x86 CPU collector, cpu_x86.c: collect_coretemp folds every coretemp *)
(* core of the host into one package, and collect_rapl adds the package's  *)
(* energy and power limits from powercap, each attribute from one of two   *)
(* directories.                                                            *)
(*                                                                         *)
(* Cores go offline and the drivers are unloaded at any time, also between *)
(* two reads of one file.  Temperatures are those of one scale, below zero *)
(* included; what a powercap attribute says is left out, only whether it   *)
(* was read is kept.  A directory is its files: each attribute may be      *)
(* there in both directories, in one of them or in none, and a file may    *)
(* become unreadable or readable at any time.                              *)
(***************************************************************************)
EXTENDS Integers, Sequences, FiniteSets

CONSTANTS
    Labels,         \* coretemp temp*_label files, in the order glob sorts them
    CoreId,         \* the N of a label "Core N", or NoCore
    NoCore,         \* what "Package id 0" stands for
    MaxCores,       \* TM_MAX_CPU_CORES
    Temp,           \* temperatures a core may have
    Crit,           \* critical temperatures, positive
    Files,          \* powercap files a host may have
    MaxChanges      \* bound on the cores and files that change in a snapshot

Label == {Labels[i] : i \in 1..Len(Labels)}

\* In the order collect_rapl reads them.
Attributes == <<"energy_uj", "power_limit_1", "power_limit_2">>

Attribute == {Attributes[i] : i \in 1..3}

\* intel-rapl:0 and intel-rapl_0
Dirs == {"base", "alt"}

ASSUME CpuAssumption ==
    /\ Labels \in Seq(Label)
    /\ \A i, j \in 1..Len(Labels) : Labels[i] = Labels[j] => i = j
    /\ NoCore \notin Nat
    /\ CoreId \in [Label -> Nat \cup {NoCore}]
    /\ MaxCores \in Nat \ {0}
    /\ Temp \subseteq Int /\ Crit \subseteq Nat \ {0}
    /\ Files \subseteq Dirs \X Attribute
    /\ MaxChanges \in Nat

VARIABLES
    online,         \* coretemp labels that are there
    powercap,       \* powercap files that can be read
    pc, left,       \* where the collector is, and the places of the labels to visit
    cores,          \* pkg->cores
    package,        \* package_temp_c and tjmax_c
    count,          \* snap->cpu_package_count
    attr, path,     \* attribute collect_rapl is at, and the directory it tries
    rapl,           \* attributes stored in the package
    capabilities,
    hotplugged,     \* auxiliary: labels that came or went in this snapshot
    flapped         \* auxiliary: powercap files that did

env == <<online, powercap, hotplugged, flapped>>
vars == <<env, pc, left, cores, package, count, attr, path, rapl,
          capabilities>>

CoreEntry == [label: Label, temp: Temp, crit: Crit \cup {0}]

TypeOK ==
    /\ online \subseteq Label /\ powercap \subseteq Files
    /\ pc \in {"idle", "glob", "labels", "input", "rapl", "again", "done"}
    /\ left \subseteq Nat \ {0}
    /\ cores \in Seq(CoreEntry) /\ Len(cores) <= MaxCores
    /\ package \in [temp: Temp \cup {0}, tjmax: Crit \cup {0}]
    /\ count \in 0..1
    /\ attr \in 1..3 /\ path \in Dirs
    /\ rapl \subseteq Attribute
    /\ capabilities \subseteq {"LINUX_RAPL"}
    /\ hotplugged \subseteq Label /\ flapped \subseteq Files

Init ==
    /\ online \in SUBSET Label /\ powercap \in SUBSET Files
    /\ pc = "idle" /\ left = {}
    /\ cores = <<>> /\ package = [temp |-> 0, tjmax |-> 0] /\ count = 0
    /\ attr = 1 /\ path = "base" /\ rapl = {}
    /\ capabilities = {} /\ hotplugged = {} /\ flapped = {}

-------------------------------------------------------------------------------
(* The host *)

Toggle(S, x) == IF x \in S THEN S \ {x} ELSE S \cup {x}

\* In one snapshot the changes concern a bounded number of cores and files.
Bounded == Cardinality(hotplugged') + Cardinality(flapped') <= MaxChanges

ChangeCore(l) ==
    /\ online' = Toggle(online, l)
    /\ hotplugged' = hotplugged \cup {l} /\ UNCHANGED flapped /\ Bounded
    /\ UNCHANGED <<powercap, pc, left, cores, package, count, attr, path, rapl,
                   capabilities>>

ChangeFile(f) ==
    /\ powercap' = Toggle(powercap, f)
    /\ flapped' = flapped \cup {f} /\ UNCHANGED hotplugged /\ Bounded
    /\ UNCHANGED <<online, pc, left, cores, package, count, attr, path, rapl,
                   capabilities>>

-------------------------------------------------------------------------------
(* collect_coretemp *)

\* The memset of tm_collect_snapshot; on x86 the sysfs collectors that run in
\* between do not touch the packages.
Begin ==
    /\ pc \in {"idle", "done"}
    /\ pc' = "glob"
    /\ cores' = <<>> /\ package' = [temp |-> 0, tjmax |-> 0] /\ count' = 0
    /\ attr' = 1 /\ path' = "base" /\ rapl' = {}
    /\ capabilities' = {} /\ hotplugged' = {} /\ flapped' = {}
    /\ UNCHANGED <<online, powercap, left>>

Online == {k \in 1..Len(Labels) : Labels[k] \in online}

\* Without labels there is no package, and collect_rapl returns at once.
GlobLabels ==
    /\ pc = "glob"
    /\ left' = Online
    /\ pc' = IF left' = {} THEN "done" ELSE "labels"
    /\ UNCHANGED <<env, cores, package, count, attr, path, rapl, capabilities>>

IsNext(k) == \A m \in left : k <= m

\* Faulty variant: one core more than the package has room for.
OpenLabelOneMore(k) ==
    /\ pc = "labels" /\ IsNext(k) /\ Len(cores) <= MaxCores
    /\ IF Labels[k] \in online /\ CoreId[Labels[k]] # NoCore
       THEN pc' = "input" /\ UNCHANGED left
       ELSE left' = left \ {k} /\ UNCHANGED pc
    /\ UNCHANGED <<env, cores, package, count, attr, path, rapl, capabilities>>

\* A label that is gone, or is not a core's, is passed over.
OpenLabel(k) ==
    /\ pc = "labels" /\ IsNext(k) /\ Len(cores) < MaxCores
    /\ IF Labels[k] \in online /\ CoreId[Labels[k]] # NoCore
       THEN pc' = "input" /\ UNCHANGED left
       ELSE left' = left \ {k} /\ UNCHANGED pc
    /\ UNCHANGED <<env, cores, package, count, attr, path, rapl, capabilities>>

\* Faulty variant: the loop ends with the first core that went.
InputGoneStops(k) ==
    /\ pc = "input" /\ IsNext(k) /\ Labels[k] \notin online
    /\ pc' = "labels" /\ left' = {}
    /\ UNCHANGED <<env, cores, package, count, attr, path, rapl, capabilities>>

\* The input file is gone by now: no entry.
InputGone(k) ==
    /\ pc = "input" /\ IsNext(k) /\ Labels[k] \notin online
    /\ pc' = "labels" /\ left' = left \ {k}
    /\ UNCHANGED <<env, cores, package, count, attr, path, rapl, capabilities>>

Larger(a, b) == IF a > b THEN a ELSE b

\* Faulty variant: the package has what the last core has.
ReadCoreLast(k, temp, crit) ==
    /\ pc = "input" /\ IsNext(k) /\ Labels[k] \in online
    /\ pc' = "labels" /\ left' = left \ {k}
    /\ cores' = Append(cores, [label |-> Labels[k], temp |-> temp, crit |-> crit])
    /\ package' = [temp |-> Larger(temp, 0), tjmax |-> Larger(crit, package.tjmax)]
    /\ UNCHANGED <<env, count, attr, path, rapl, capabilities>>

\* input_mc is read; crit_mc stays 0 when it cannot be read, and so does
\* max_mc, which nothing depends on.
ReadCore(k, temp, crit) ==
    /\ pc = "input" /\ IsNext(k) /\ Labels[k] \in online
    /\ pc' = "labels" /\ left' = left \ {k}
    /\ cores' = Append(cores, [label |-> Labels[k], temp |-> temp, crit |-> crit])
    /\ package' = [temp  |-> Larger(temp, package.temp),
                   tjmax |-> Larger(crit, package.tjmax)]
    /\ UNCHANGED <<env, count, attr, path, rapl, capabilities>>

\* A package without cores is not counted; collect_rapl then returns.
ClosePackage ==
    /\ pc = "labels" /\ (left = {} \/ Len(cores) = MaxCores)
    /\ count' = IF cores # <<>> THEN 1 ELSE 0
    /\ pc' = IF cores # <<>> THEN "rapl" ELSE "done"
    /\ UNCHANGED <<env, left, cores, package, attr, path, rapl, capabilities>>

-------------------------------------------------------------------------------
(* collect_rapl *)

CanRead(d) == <<d, Attributes[attr]>> \in powercap

\* Faulty variant: one directory, that of the first attribute, serves for all.
TryBaseOnce ==
    /\ pc = "rapl"
    /\ pc' = "again"
    /\ path' = IF attr > 1 THEN path ELSE IF CanRead("base") THEN "base" ELSE "alt"
    /\ UNCHANGED <<env, left, cores, package, count, attr, rapl, capabilities>>

\* The first read of an attribute only chooses the path...
TryBase ==
    /\ pc = "rapl"
    /\ pc' = "again"
    /\ path' = IF CanRead("base") THEN "base" ELSE "alt"
    /\ UNCHANGED <<env, left, cores, package, count, attr, rapl, capabilities>>

\* Faulty variant: the bit is set when any attribute is read.
ReadAttributeAnyBit ==
    /\ pc = "again"
    /\ IF CanRead(path)
       THEN /\ rapl' = rapl \cup {Attributes[attr]}
            /\ capabilities' = capabilities \cup {"LINUX_RAPL"}
       ELSE UNCHANGED <<rapl, capabilities>>
    /\ IF attr = 3 THEN pc' = "done" /\ UNCHANGED attr
                   ELSE pc' = "rapl" /\ attr' = attr + 1
    /\ UNCHANGED <<env, left, cores, package, count, path>>

\* ... and the second read, of the chosen path, stores what it finds.
ReadAttribute ==
    /\ pc = "again"
    /\ IF CanRead(path)
       THEN /\ rapl' = rapl \cup {Attributes[attr]}
            /\ capabilities' = IF Attributes[attr] = "energy_uj"
                               THEN {"LINUX_RAPL"} ELSE capabilities
       ELSE UNCHANGED <<rapl, capabilities>>
    /\ IF attr = 3 THEN pc' = "done" /\ UNCHANGED attr
                   ELSE pc' = "rapl" /\ attr' = attr + 1
    /\ UNCHANGED <<env, left, cores, package, count, path>>

Next ==
    \/ \E l \in Label : ChangeCore(l)
    \/ \E f \in Files : ChangeFile(f)
    \/ Begin \/ GlobLabels \/ ClosePackage
    \/ \E k \in left : OpenLabel(k) \/ InputGone(k)
    \/ \E k \in left, temp \in Temp, crit \in Crit \cup {0} : ReadCore(k, temp, crit)
    \/ TryBase \/ ReadAttribute

Spec == Init /\ [][Next]_vars

-------------------------------------------------------------------------------
(* Properties *)

\* At every moment the package is as hot as its hottest core, or zero when all
\* are colder, and tjmax is the highest critical temperature of a core
\* (cpu_x86.c:86-91): the fold over the cores loses none.
PackageIsHottest ==
    /\ \A i \in 1..Len(cores) : /\ cores[i].temp <= package.temp
                                /\ cores[i].crit <= package.tjmax
    /\ package.temp # 0 => \E i \in 1..Len(cores) : cores[i].temp = package.temp
    /\ package.tjmax # 0 => \E i \in 1..Len(cores) : cores[i].crit = package.tjmax

IsCore(k) == CoreId[Labels[k]] # NoCore

\* The cores that were there all the snapshot long, and those that were there
\* at some time in it.
LastingCores ==
    {k \in 1..Len(Labels) : IsCore(k) /\ Labels[k] \in online \ hotplugged}

PossibleCores ==
    {k \in 1..Len(Labels) : IsCore(k) /\ Labels[k] \in online \cup hotplugged}

HasEntry(k) == \E i \in 1..Len(cores) : cores[i].label = Labels[k]

\* A core that goes or comes, also between its label and its input, costs no
\* other core its entry: a finished snapshot has every core that was there all
\* the time unless the table is full, and then the first of them.  It has no
\* core twice or out of order, none that was never there, and a package exactly
\* if there is an entry (cpu_x86.c:44-98).
LastingCoresComplete ==
    pc = "done" =>
        /\ \A i \in 1..Len(cores) : \E k \in PossibleCores : cores[i].label = Labels[k]
        /\ \A i, j \in 1..Len(cores) : i < j =>
              \E m, n \in PossibleCores : /\ m < n
                                         /\ cores[i].label = Labels[m]
                                         /\ cores[j].label = Labels[n]
        /\ \A m \in LastingCores, n \in PossibleCores :
              m < n /\ HasEntry(n) => HasEntry(m)
        /\ Len(cores) = MaxCores \/ \A k \in LastingCores : HasEntry(k)
        /\ count = 1 <=> cores # <<>>

\* The files that could be read all the snapshot long, and those that could not
\* at any time in it.
Lasting(f) == f \in powercap \ flapped
Missing(f) == f \notin powercap \cup flapped

\* Whether an attribute is reported is settled by its own two files: the one in
\* intel-rapl:0 is enough, the other stands in where that is missing, and
\* without either there is no value.
Reported(a) ==
    /\ Lasting(<<"base", a>>) => a \in rapl
    /\ Missing(<<"base", a>>) /\ Lasting(<<"alt", a>>) => a \in rapl
    /\ a \in rapl => \E d \in Dirs : ~Missing(<<d, a>>)

\* The second directory stands in for the first attribute by attribute, also if
\* each has a part of them, and whatever happens to the files of the others
\* (cpu_x86.c:118-141).
FallbackByAttribute ==
    pc = "done" /\ count = 1 => \A a \in Attribute : Reported(a)

\* LINUX_RAPL says that the package has an energy reading, of this snapshot;
\* without a package there is none to have it (cpu_x86.c:111, 122-125).
RaplBitMeansEnergy ==
    /\ "LINUX_RAPL" \in capabilities <=> "energy_uj" \in rapl
    /\ rapl # {} => count = 1 /\ cores # <<>>

-------------------------------------------------------------------------------
(* The cores of the package are a bounded table that only grows. *)

CoreTable == INSTANCE SensorTable WITH
    Limit <- MaxCores, Entry <- CoreEntry, table <- cores

ImplementsTable == CoreTable!Spec

===============================================================================
