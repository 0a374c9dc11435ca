----------------------------- MODULE CpuX86_proofs ----------------------------
(***************************************************************************)
(* Proofs about CpuX86.tla, for any labels, temperatures and room for      *)
(* cores.  The invariant says how far each of the two collectors is: which *)
(* labels have become entries, and which attributes were read.             *)
(***************************************************************************)
EXTENDS CpuX86, TLAPS

InCoretemp == {"labels", "input"}
InRapl == {"rapl", "again"}

\* The label whose input is to be read is a core's, and there is room for it.
ControlInv ==
    /\ pc \in InCoretemp => left \subseteq 1..Len(Labels)
    /\ pc = "input" =>
          /\ left # {} /\ Len(cores) < MaxCores
          /\ \A k \in left : IsNext(k) => CoreId[Labels[k]] # NoCore

\* A package is counted behind its cores and before its energy.
CountInv ==
    /\ pc \in {"idle", "glob"} \cup InCoretemp => count = 0 /\ attr = 1
    /\ pc \in {"idle", "glob"} => cores = <<>>
    /\ pc \in InRapl => count = 1
    /\ count = 1 => cores # <<>>
    /\ rapl # {} => count = 1
    /\ pc = "done" /\ count = 0 => cores = <<>>

\* The entries of a table s are of labels in front of all that are in rest, and
\* in their order.
Behind(s, rest) ==
    \A i \in 1..Len(s) : \E m \in 1..Len(Labels) :
        s[i].label = Labels[m] /\ \A k \in rest : m < k

InOrder(s) ==
    \A i, j \in 1..Len(s) : i < j =>
        \E m, n \in 1..Len(Labels) :
            m < n /\ s[i].label = Labels[m] /\ s[j].label = Labels[n]

OrderInv == Behind(cores, left) /\ InOrder(cores)

IsPossible(l) == CoreId[l] # NoCore /\ l \in online \cup hotplugged

\* The entries are of cores that were there, and every other core that has been
\* there all the time is left, unless the table is full.
CoreInv ==
    pc \notin {"idle", "glob"} =>
        /\ \A i \in 1..Len(cores) : IsPossible(cores[i].label)
        /\ \A n \in LastingCores : n \in left \/ HasEntry(n)
        /\ pc \in InRapl \cup {"done"} => left = {} \/ Len(cores) = MaxCores

\* The attributes before attr are settled, the others have no value, and the
\* path chosen for attr is right if the file in intel-rapl:0 did not change.
FallbackInv ==
    /\ pc \in InRapl =>
          /\ \A i \in 1..(attr - 1) : Reported(Attributes[i])
          /\ \A i \in attr..3 : Attributes[i] \notin rapl
    /\ pc = "again" =>
          /\ Lasting(<<"base", Attributes[attr]>>) => path = "base"
          /\ Missing(<<"base", Attributes[attr]>>) => path = "alt"
    /\ FallbackByAttribute

IInv ==
    /\ TypeOK /\ ControlInv /\ CountInv /\ OrderInv /\ CoreInv /\ FallbackInv
    /\ PackageIsHottest /\ RaplBitMeansEnergy

-------------------------------------------------------------------------------
(* Labels and entries *)

LEMMA AppendOne ==
    ASSUME NEW S, NEW s \in Seq(S), NEW e \in S
    PROVE  /\ Append(s, e) \in Seq(S)
           /\ Len(Append(s, e)) = Len(s) + 1
           /\ Append(s, e)[Len(s) + 1] = e
           /\ \A k \in 1..Len(s) : Append(s, e)[k] = s[k]
  OBVIOUS

LEMMA LabelTyped ==
    Len(Labels) \in Nat /\ \A k \in 1..Len(Labels) : Labels[k] \in Label
  <1>1. Labels \in Seq(Label)
    BY CpuAssumption
  <1> QED BY <1>1

LEMMA EntryTyped ==
    ASSUME NEW l \in Label, NEW temp \in Temp, NEW crit \in Crit \cup {0}
    PROVE  [label |-> l, temp |-> temp, crit |-> crit] \in CoreEntry
  BY DEF CoreEntry

LEMMA EmptyTable ==
    /\ <<>> \in Seq(CoreEntry) /\ Len(<<>>) = 0
    /\ InOrder(<<>>) /\ \A rest : Behind(<<>>, rest)
  BY DEF InOrder, Behind

\* The entry of the next label goes behind those of the labels in front of it.
LEMMA AppendInOrder ==
    ASSUME NEW s \in Seq(CoreEntry), NEW e \in CoreEntry, NEW rest \in SUBSET Nat,
           NEW k \in rest, k \in 1..Len(Labels), \A m \in rest : k <= m,
           e.label = Labels[k], InOrder(s), Behind(s, rest)
    PROVE  InOrder(Append(s, e)) /\ Behind(Append(s, e), rest \ {k})
  <1> DEFINE t == Append(s, e)
  <1>1. /\ Len(t) = Len(s) + 1 /\ t[Len(s) + 1] = e /\ Len(s) \in Nat
        /\ \A i \in 1..Len(s) : t[i] = s[i]
    BY AppendOne
  <1> HIDE DEF t
  <1>2. ASSUME NEW i \in 1..Len(t), NEW j \in 1..Len(t), i < j
        PROVE  \E m, n \in 1..Len(Labels) :
                  m < n /\ t[i].label = Labels[m] /\ t[j].label = Labels[n]
    <2>1. i \in 1..Len(s) /\ t[i] = s[i]
      BY <1>1, <1>2
    <2>2. CASE j \in 1..Len(s)
      <3>1. PICK m, n \in 1..Len(Labels) :
               m < n /\ s[i].label = Labels[m] /\ s[j].label = Labels[n]
        BY <1>2, <2>1, <2>2 DEF InOrder
      <3>2. t[i].label = Labels[m] /\ t[j].label = Labels[n]
        BY <1>1, <2>1, <2>2, <3>1
      <3> QED BY <3>1, <3>2
    <2>3. CASE j = Len(s) + 1
      <3>1. PICK m \in 1..Len(Labels) : s[i].label = Labels[m] /\ m < k
        BY <2>1 DEF Behind
      <3>2. t[i].label = Labels[m] /\ t[j].label = Labels[k]
        BY <1>1, <2>1, <2>3, <3>1
      <3> QED BY <3>1, <3>2
    <2> QED BY <1>1, <2>2, <2>3
  <1>3. ASSUME NEW i \in 1..Len(t)
        PROVE  \E m \in 1..Len(Labels) :
                  t[i].label = Labels[m] /\ \A o \in rest \ {k} : m < o
    <2>1. CASE i \in 1..Len(s)
      BY <1>1, <2>1 DEF Behind
    <2>2. CASE i = Len(s) + 1
      <3>1. \A o \in rest \ {k} : k < o
        OBVIOUS
      <3> QED BY <1>1, <2>2, <3>1
    <2> QED BY <1>1, <2>1, <2>2
  <1> QED BY <1>2, <1>3 DEF InOrder, Behind, t

-------------------------------------------------------------------------------
(* What a step changes *)

\* Only the clearing of the snapshot and a core that is read change the table.
LEMMA TableKept ==
    ASSUME [Next]_vars
    PROVE  \/ Begin
           \/ \E k \in left, temp \in Temp, crit \in Crit \cup {0} :
                 ReadCore(k, temp, crit)
           \/ cores' = cores /\ package' = package
  BY DEF Next, vars, env, Begin, GlobLabels, OpenLabel, InputGone, ClosePackage,
         ReadCore, TryBase, ReadAttribute, ChangeCore, ChangeFile

\* A core that is read goes behind the entries of the table.
LEMMA CoreRead ==
    ASSUME TypeOK, ControlInv, NEW k \in left, NEW temp \in Temp,
           NEW crit \in Crit \cup {0}, ReadCore(k, temp, crit)
    PROVE  LET e == [label |-> Labels[k], temp |-> temp, crit |-> crit]
           IN  /\ k \in 1..Len(Labels) /\ \A m \in left : k <= m
               /\ e \in CoreEntry /\ e.label = Labels[k] /\ e.temp = temp
               /\ e.crit = crit /\ Labels[k] \in online
               /\ CoreId[Labels[k]] # NoCore
               /\ Len(cores) < MaxCores /\ cores' = Append(cores, e)
               /\ cores' \in Seq(CoreEntry) /\ Len(cores') = Len(cores) + 1
               /\ cores'[Len(cores) + 1] = e
               /\ \A i \in 1..Len(cores) : cores'[i] = cores[i]
  <1> DEFINE e == [label |-> Labels[k], temp |-> temp, crit |-> crit]
  <1>1. /\ pc = "input" /\ IsNext(k) /\ Labels[k] \in online
        /\ cores' = Append(cores, e)
    BY DEF ReadCore
  <1>2. /\ k \in 1..Len(Labels) /\ Len(cores) < MaxCores
        /\ CoreId[Labels[k]] # NoCore
    BY <1>1 DEF ControlInv, InCoretemp
  <1>3. e \in CoreEntry /\ e.label = Labels[k] /\ e.temp = temp /\ e.crit = crit
    BY <1>2, LabelTyped, EntryTyped
  <1> HIDE DEF e
  <1>4. /\ cores' \in Seq(CoreEntry) /\ Len(cores') = Len(cores) + 1
        /\ cores'[Len(cores) + 1] = e
        /\ \A i \in 1..Len(cores) : cores'[i] = cores[i]
    BY <1>1, <1>3, AppendOne DEF TypeOK
  <1> QED BY <1>1, <1>2, <1>3, <1>4 DEF IsNext, e

\* The kinds of step, for the case splits below.
LEMMA StepCases ==
    ASSUME [Next]_vars
    PROVE  \/ Begin \/ GlobLabels \/ ClosePackage \/ TryBase \/ ReadAttribute
           \/ \E k \in left : OpenLabel(k)
           \/ \E k \in left : InputGone(k)
           \/ \E k \in left, temp \in Temp, crit \in Crit \cup {0} :
                 ReadCore(k, temp, crit)
           \/ \E l \in Label : ChangeCore(l)
           \/ \E f \in Files : ChangeFile(f)
           \/ UNCHANGED vars
  BY DEF Next

-------------------------------------------------------------------------------
(* Each part of the invariant, step by step *)

LEMMA TableTyped ==
    ASSUME TypeOK, ControlInv, [Next]_vars
    PROVE  cores' \in Seq(CoreEntry) /\ Len(cores') <= MaxCores
  <1>1. CASE Begin
    BY <1>1, EmptyTable, CpuAssumption DEF Begin
  <1>2. ASSUME NEW k \in left, NEW temp \in Temp, NEW crit \in Crit \cup {0},
               ReadCore(k, temp, crit)
        PROVE  cores' \in Seq(CoreEntry) /\ Len(cores') <= MaxCores
    <2>1. /\ cores' \in Seq(CoreEntry) /\ Len(cores') = Len(cores) + 1
          /\ Len(cores) < MaxCores
      BY <1>2, CoreRead
    <2>2. Len(cores) \in Nat /\ MaxCores \in Nat
      BY CpuAssumption DEF TypeOK
    <2> QED BY <2>1, <2>2
  <1>3. CASE cores' = cores
    BY <1>3 DEF TypeOK
  <1> QED BY <1>1, <1>2, <1>3, TableKept

LEMMA PackageTyped ==
    ASSUME TypeOK, [Next]_vars
    PROVE  package' \in [temp: Temp \cup {0}, tjmax: Crit \cup {0}]
  <1>1. CASE Begin
    BY <1>1 DEF Begin
  <1>2. ASSUME NEW k \in left, NEW temp \in Temp, NEW crit \in Crit \cup {0},
               ReadCore(k, temp, crit)
        PROVE  package' \in [temp: Temp \cup {0}, tjmax: Crit \cup {0}]
    <2>1. package.temp \in Temp \cup {0} /\ package.tjmax \in Crit \cup {0}
      BY DEF TypeOK
    <2>2. /\ Larger(temp, package.temp) \in Temp \cup {0}
          /\ Larger(crit, package.tjmax) \in Crit \cup {0}
      BY <2>1 DEF Larger
    <2> QED BY <1>2, <2>2 DEF ReadCore
  <1>3. CASE package' = package
    BY <1>3 DEF TypeOK
  <1> QED BY <1>1, <1>2, <1>3, TableKept

\* The type invariant but for the table and the package.
LEMMA ScalarsTyped ==
    ASSUME TypeOK
    PROVE  /\ online \subseteq Label /\ powercap \subseteq Files
           /\ hotplugged \subseteq Label /\ flapped \subseteq Files
           /\ pc \in {"idle", "glob", "labels", "input", "rapl", "again", "done"}
           /\ left \subseteq Nat \ {0} /\ count \in 0..1
           /\ attr \in 1..3 /\ path \in Dirs /\ rapl \subseteq Attribute
           /\ capabilities \subseteq {"LINUX_RAPL"}
  BY DEF TypeOK

LEMMA HostTyped ==
    ASSUME TypeOK, [Next]_vars
    PROVE  /\ online' \subseteq Label /\ powercap' \subseteq Files
           /\ hotplugged' \subseteq Label /\ flapped' \subseteq Files
           /\ left' \subseteq Nat \ {0}
  <1>1. CASE \E l \in Label : ChangeCore(l)
    BY <1>1 DEF TypeOK, ChangeCore, Toggle
  <1>2. CASE \E f \in Files : ChangeFile(f)
    BY <1>2 DEF TypeOK, ChangeFile, Toggle
  <1>3. CASE GlobLabels
    <2>1. Online \subseteq Nat \ {0}
      BY LabelTyped DEF Online
    <2> QED BY <1>3, <2>1 DEF TypeOK, GlobLabels, env
  <1>4. CASE Begin
    BY <1>4 DEF TypeOK, Begin
  <1>5. CASE /\ ~GlobLabels /\ ~Begin
             /\ ~\E l \in Label : ChangeCore(l)
             /\ ~\E f \in Files : ChangeFile(f)
    <2>1. UNCHANGED env /\ left' \subseteq left
      BY <1>5 DEF Next, vars, OpenLabel, InputGone, ClosePackage, ReadCore,
           TryBase, ReadAttribute
    <2> QED BY <2>1, ScalarsTyped DEF env
  <1> QED BY <1>1, <1>2, <1>3, <1>4, <1>5

LEMMA ControlTyped ==
    ASSUME TypeOK, [Next]_vars
    PROVE  /\ pc' \in {"idle", "glob", "labels", "input", "rapl", "again", "done"}
           /\ count' \in 0..1 /\ path' \in Dirs
  <1>1. pc' \in {"idle", "glob", "labels", "input", "rapl", "again", "done"}
    BY ScalarsTyped DEF Next, vars, env, Begin, GlobLabels, OpenLabel, InputGone,
         ClosePackage, ReadCore, TryBase, ReadAttribute, ChangeCore, ChangeFile
  <1>2. count' \in 0..1
    <2>1. count' \in {0, 1} \/ count' = count
      BY DEF Next, vars, Begin, GlobLabels, OpenLabel, InputGone,
         ClosePackage, ReadCore, TryBase, ReadAttribute, ChangeCore, ChangeFile
    <2> QED BY <2>1, ScalarsTyped
  <1>3. path' \in Dirs
    <2>1. path' \in {"base", "alt"} \/ path' = path
      BY DEF Next, vars, Begin, GlobLabels, OpenLabel, InputGone,
         ClosePackage, ReadCore, TryBase, ReadAttribute, ChangeCore, ChangeFile
    <2> QED BY <2>1, ScalarsTyped DEF Dirs
  <1> QED BY <1>1, <1>2, <1>3

LEMMA RaplTyped ==
    ASSUME TypeOK, [Next]_vars
    PROVE  /\ attr' \in 1..3 /\ rapl' \subseteq Attribute
           /\ capabilities' \subseteq {"LINUX_RAPL"}
  <1>1. CASE ReadAttribute
    <2>1. Attributes[attr] \in Attribute
      BY DEF TypeOK, Attribute
    <2>2. attr' \in 1..3
      BY <1>1 DEF TypeOK, ReadAttribute
    <2> QED BY <1>1, <2>1, <2>2 DEF TypeOK, ReadAttribute
  <1>2. CASE ~ReadAttribute
    <2>1. \/ attr' = 1 /\ rapl' = {} /\ capabilities' = {}
          \/ attr' = attr /\ rapl' = rapl /\ capabilities' = capabilities
      BY <1>2 DEF Next, vars, env, Begin, GlobLabels, OpenLabel, InputGone,
           ClosePackage, ReadCore, TryBase, ChangeCore, ChangeFile
    <2> QED BY <2>1, ScalarsTyped
  <1> QED BY <1>1, <1>2

LEMMA TypeStep ==
    ASSUME TypeOK, ControlInv, [Next]_vars
    PROVE  TypeOK'
  <1> QED BY TableTyped, PackageTyped, HostTyped, ControlTyped, RaplTyped
          DEF TypeOK

LEMMA ControlStep ==
    ASSUME TypeOK, ControlInv, [Next]_vars
    PROVE  ControlInv'
  <1>1. CASE GlobLabels
    BY <1>1 DEF GlobLabels, Online, ControlInv, InCoretemp
  <1>2. ASSUME NEW k \in left, OpenLabel(k)
        PROVE  ControlInv'
    <2>1. CASE pc' = "input"
      <3>1. /\ pc = "labels" /\ left' = left /\ cores' = cores
            /\ Len(cores) < MaxCores /\ CoreId[Labels[k]] # NoCore /\ IsNext(k)
        BY <1>2, <2>1 DEF OpenLabel
      <3>2. left \subseteq 1..Len(Labels)
        BY <3>1 DEF ControlInv, InCoretemp
      <3>3. \A m \in left : IsNext(m) => m = k
        BY <3>1 DEF IsNext, TypeOK
      <3> QED BY <2>1, <3>1, <3>2, <3>3 DEF ControlInv, IsNext
    <2>2. CASE pc' # "input"
      BY <1>2, <2>2 DEF OpenLabel, ControlInv, InCoretemp
    <2> QED BY <2>1, <2>2
  <1>3. ASSUME NEW k \in left, InputGone(k)
        PROVE  ControlInv'
    BY <1>3 DEF InputGone, ControlInv, InCoretemp
  <1>4. ASSUME NEW k \in left, NEW temp \in Temp, NEW crit \in Crit \cup {0},
               ReadCore(k, temp, crit)
        PROVE  ControlInv'
    BY <1>4 DEF ReadCore, ControlInv, InCoretemp
  <1>5. CASE UNCHANGED <<pc, left, cores>>
    BY <1>5 DEF ControlInv, IsNext
  <1>6. CASE Begin \/ ClosePackage \/ TryBase \/ ReadAttribute
    BY <1>6 DEF Begin, ClosePackage, TryBase, ReadAttribute, ControlInv, InCoretemp
  <1> QED BY <1>1, <1>2, <1>3, <1>4, <1>5, <1>6, StepCases
          DEF ChangeCore, ChangeFile, vars

LEMMA CountStep ==
    ASSUME TypeOK, ControlInv, CountInv, [Next]_vars
    PROVE  CountInv'
  <1>1. CASE \E k \in left, temp \in Temp, crit \in Crit \cup {0} :
                ReadCore(k, temp, crit)
    BY <1>1 DEF ReadCore, CountInv, InCoretemp, InRapl
  <1>2. CASE ReadAttribute
    BY <1>2 DEF ReadAttribute, CountInv, InCoretemp, InRapl
  <1>3. CASE /\ ~ReadAttribute
             /\ ~\E k \in left, temp \in Temp, crit \in Crit \cup {0} :
                ReadCore(k, temp, crit)
    BY <1>3 DEF CountInv, InCoretemp, InRapl, Next, vars, env, Begin, GlobLabels,
         OpenLabel, InputGone, ClosePackage, TryBase, ChangeCore, ChangeFile
  <1> QED BY <1>1, <1>2, <1>3

LEMMA OrderStep ==
    ASSUME TypeOK, ControlInv, CountInv, OrderInv, [Next]_vars
    PROVE  OrderInv'
  <1>1. CASE Begin \/ GlobLabels
    <2>1. cores' = <<>>
      BY <1>1 DEF Begin, GlobLabels, CountInv
    <2> QED BY <2>1, EmptyTable DEF OrderInv
  <1>2. ASSUME NEW k \in left, NEW temp \in Temp, NEW crit \in Crit \cup {0},
               ReadCore(k, temp, crit)
        PROVE  OrderInv'
    <2> DEFINE e == [label |-> Labels[k], temp |-> temp, crit |-> crit]
    <2>1. /\ k \in 1..Len(Labels) /\ \A m \in left : k <= m
          /\ e \in CoreEntry /\ e.label = Labels[k] /\ cores' = Append(cores, e)
      BY <1>2, CoreRead
    <2>2. left' = left \ {k}
      BY <1>2 DEF ReadCore
    <2>3. cores \in Seq(CoreEntry) /\ left \in SUBSET Nat
      BY DEF TypeOK
    <2> HIDE DEF e
    <2> QED BY <2>1, <2>2, <2>3, AppendInOrder DEF OrderInv
  <1>3. CASE cores' = cores /\ left' \subseteq left
    BY <1>3 DEF OrderInv, Behind
  <1> QED BY <1>1, <1>2, <1>3, StepCases DEF vars, env, OpenLabel, InputGone,
         ClosePackage, TryBase, ReadAttribute, ChangeCore, ChangeFile

LEMMA LargerIs ==
    ASSUME NEW a \in Int, NEW b \in Int
    PROVE  /\ Larger(a, b) \in {a, b} /\ a <= Larger(a, b) /\ b <= Larger(a, b)
  BY DEF Larger

\* Temperatures as numbers.
LEMMA DegreesTyped ==
    ASSUME TypeOK
    PROVE  /\ package.temp \in Int /\ package.tjmax \in Int
           /\ \A i \in 1..Len(cores) : cores[i].temp \in Int /\ cores[i].crit \in Int
  <1>1. Temp \cup {0} \subseteq Int /\ Crit \cup {0} \subseteq Int
    BY CpuAssumption
  <1>2. package.temp \in Temp \cup {0} /\ package.tjmax \in Crit \cup {0}
    BY DEF TypeOK
  <1>3. ASSUME NEW i \in 1..Len(cores)
        PROVE  cores[i].temp \in Temp /\ cores[i].crit \in Crit \cup {0}
    <2>1. cores[i] \in CoreEntry
      BY DEF TypeOK
    <2> QED BY <2>1 DEF CoreEntry
  <1> QED BY <1>1, <1>2, <1>3

\* The package keeps up with the core that is added.
LEMMA HottestStep ==
    ASSUME TypeOK, ControlInv, PackageIsHottest, [Next]_vars
    PROVE  PackageIsHottest'
  <1>1. CASE Begin
    BY <1>1, EmptyTable DEF Begin, PackageIsHottest
  <1>2. ASSUME NEW k \in left, NEW temp \in Temp, NEW crit \in Crit \cup {0},
               ReadCore(k, temp, crit)
        PROVE  PackageIsHottest'
    <2> DEFINE e == [label |-> Labels[k], temp |-> temp, crit |-> crit]
               hot == Larger(temp, package.temp)
               high == Larger(crit, package.tjmax)
    <2>1. /\ e.temp = temp /\ e.crit = crit /\ Len(cores') = Len(cores) + 1
          /\ cores'[Len(cores) + 1] = e
          /\ \A i \in 1..Len(cores) : cores'[i] = cores[i]
      BY <1>2, CoreRead
    <2>2. package'.temp = hot /\ package'.tjmax = high
      BY <1>2 DEF ReadCore
    <2>3. /\ temp \in Int /\ crit \in Int /\ Len(cores) \in Nat
          /\ package.temp \in Int /\ package.tjmax \in Int
          /\ \A i \in 1..Len(cores) : cores[i].temp \in Int /\ cores[i].crit \in Int
      BY CpuAssumption, DegreesTyped DEF TypeOK
    <2>4. /\ hot \in {temp, package.temp} /\ temp <= hot /\ package.temp <= hot
          /\ high \in {crit, package.tjmax} /\ crit <= high /\ package.tjmax <= high
      BY <2>3, LargerIs
    <2>5. hot \in Int /\ high \in Int
      BY <2>3, <2>4
    <2> HIDE DEF e, hot, high
    <2>6. ASSUME NEW i \in 1..Len(cores')
          PROVE  cores'[i].temp <= hot /\ cores'[i].crit <= high
      <3>1. CASE i = Len(cores) + 1
        BY <2>1, <2>4, <3>1
      <3>2. CASE i \in 1..Len(cores)
        <4>1. cores[i].temp <= package.temp /\ cores[i].crit <= package.tjmax
          BY <3>2 DEF PackageIsHottest
        <4> QED BY <2>1, <2>3, <2>4, <2>5, <3>2, <4>1
      <3> QED BY <2>1, <2>3, <3>1, <3>2
    <2>7. ASSUME hot # 0
          PROVE  \E i \in 1..Len(cores') : cores'[i].temp = hot
      <3>1. CASE hot = temp
        <4>1. Len(cores) + 1 \in 1..Len(cores') /\ cores'[Len(cores) + 1].temp = hot
          BY <2>1, <2>3, <3>1
        <4> QED BY <4>1
      <3>2. CASE hot = package.temp
        <4>1. PICK i \in 1..Len(cores) : cores[i].temp = hot
          BY <2>7, <3>2 DEF PackageIsHottest
        <4>2. i \in 1..Len(cores') /\ cores'[i].temp = hot
          BY <2>1, <2>3, <4>1
        <4> QED BY <4>2
      <3> QED BY <2>4, <3>1, <3>2
    <2>8. ASSUME high # 0
          PROVE  \E i \in 1..Len(cores') : cores'[i].crit = high
      <3>1. CASE high = crit
        <4>1. Len(cores) + 1 \in 1..Len(cores') /\ cores'[Len(cores) + 1].crit = high
          BY <2>1, <2>3, <3>1
        <4> QED BY <4>1
      <3>2. CASE high = package.tjmax
        <4>1. PICK i \in 1..Len(cores) : cores[i].crit = high
          BY <2>8, <3>2 DEF PackageIsHottest
        <4>2. i \in 1..Len(cores') /\ cores'[i].crit = high
          BY <2>1, <2>3, <4>1
        <4> QED BY <4>2
      <3> QED BY <2>4, <3>1, <3>2
    <2> QED BY <2>2, <2>6, <2>7, <2>8 DEF PackageIsHottest
  <1>3. CASE cores' = cores /\ package' = package
    BY <1>3 DEF PackageIsHottest
  <1> QED BY <1>1, <1>2, <1>3, TableKept

\* Only Begin, ClosePackage, ReadCore and ReadAttribute touch what the bit is
\* about.
LEMMA RaplStep ==
    ASSUME TypeOK, ControlInv, CountInv, RaplBitMeansEnergy, [Next]_vars
    PROVE  RaplBitMeansEnergy'
  <1>1. "LINUX_RAPL" \in capabilities' <=> "energy_uj" \in rapl'
    <2>1. CASE ReadAttribute
      BY <2>1 DEF ReadAttribute, RaplBitMeansEnergy
    <2>2. CASE ~ReadAttribute
      <3>1. \/ rapl' = {} /\ capabilities' = {}
            \/ rapl' = rapl /\ capabilities' = capabilities
        BY <2>2 DEF Next, vars, Begin, GlobLabels, OpenLabel, InputGone,
             ClosePackage, ReadCore, TryBase, ChangeCore, ChangeFile
      <3> QED BY <3>1 DEF RaplBitMeansEnergy
    <2> QED BY <2>1, <2>2
  <1>2. rapl' # {} => count' = 1 /\ cores' # <<>>
    BY CountStep DEF CountInv
  <1> QED BY <1>1, <1>2 DEF RaplBitMeansEnergy

\* Within a snapshot, what has been there all the time only shrinks, and what
\* has been there at some time only grows.
LEMMA HostMoves ==
    ASSUME [Next]_vars, ~Begin
    PROVE  /\ online' \ hotplugged' \subseteq online \ hotplugged
           /\ online \cup hotplugged \subseteq online' \cup hotplugged'
           /\ powercap' \ flapped' \subseteq powercap \ flapped
           /\ powercap \cup flapped \subseteq powercap' \cup flapped'
  <1>1. CASE \E l \in Label : ChangeCore(l)
    BY <1>1 DEF ChangeCore, Toggle
  <1>2. CASE \E f \in Files : ChangeFile(f)
    BY <1>2 DEF ChangeFile, Toggle
  <1>3. CASE /\ ~\E l \in Label : ChangeCore(l)
             /\ ~\E f \in Files : ChangeFile(f)
    <2>1. UNCHANGED env
      BY <1>3 DEF Next, vars, GlobLabels, OpenLabel, InputGone, ClosePackage,
           ReadCore, TryBase, ReadAttribute
    <2> QED BY <2>1 DEF env
  <1> QED BY <1>1, <1>2, <1>3

LEMMA CoreStep ==
    ASSUME TypeOK, ControlInv, CountInv, CoreInv, [Next]_vars
    PROVE  CoreInv'
  <1> SUFFICES ASSUME pc' \notin {"idle", "glob"}
               PROVE  /\ \A i \in 1..Len(cores') : IsPossible(cores[i].label)'
                      /\ \A n \in LastingCores' : n \in left' \/ HasEntry(n)'
                      /\ pc' \in InRapl \cup {"done"} =>
                            left' = {} \/ Len(cores') = MaxCores
    BY DEF CoreInv
  <1>1. ~Begin
    BY DEF Begin
  <1>2. /\ LastingCores' \subseteq LastingCores
        /\ \A l : IsPossible(l) => IsPossible(l)'
    <2>1. /\ online' \ hotplugged' \subseteq online \ hotplugged
          /\ online \cup hotplugged \subseteq online' \cup hotplugged'
      BY <1>1, HostMoves
    <2> QED BY <2>1 DEF LastingCores, IsCore, IsPossible
  <1>3. CASE GlobLabels
    <2>1. cores' = <<>> /\ left' = Online
      BY <1>3 DEF GlobLabels, CountInv
    <2>2. \A n \in LastingCores : n \in left'
      BY <2>1 DEF LastingCores, Online
    <2>3. pc' \in InRapl \cup {"done"} => left' = {}
      BY <1>3 DEF GlobLabels, InRapl
    <2> QED BY <1>2, <2>1, <2>2, <2>3, EmptyTable
  <1>4. ASSUME pc \notin {"idle", "glob"}, cores' = cores, pc' \in InCoretemp,
               NEW k \in left, left' = left \ {k}, k \notin LastingCores
        PROVE  CoreInv'
    <2>1. \A n : HasEntry(n)' <=> HasEntry(n)
      BY <1>4 DEF HasEntry
    <2>2. \A i \in 1..Len(cores') : IsPossible(cores[i].label)'
      BY <1>2, <1>4 DEF CoreInv, IsPossible
    <2> QED BY <1>2, <1>4, <2>1, <2>2 DEF CoreInv, InCoretemp, InRapl
  <1>5. ASSUME pc \notin {"idle", "glob"}, cores' = cores, left' = left,
               pc' \in InRapl \cup {"done"} =>
                  left = {} \/ Len(cores) = MaxCores
        PROVE  CoreInv'
    <2>1. \A n : HasEntry(n)' <=> HasEntry(n)
      BY <1>5 DEF HasEntry
    <2>2. \A i \in 1..Len(cores') : IsPossible(cores[i].label)'
      BY <1>2, <1>5 DEF CoreInv, IsPossible
    <2> QED BY <1>2, <1>5, <2>1, <2>2 DEF CoreInv
  <1>6. ASSUME NEW k \in left, NEW temp \in Temp, NEW crit \in Crit \cup {0},
               ReadCore(k, temp, crit)
        PROVE  CoreInv'
    <2> DEFINE e == [label |-> Labels[k], temp |-> temp, crit |-> crit]
    <2>1. /\ e.label = Labels[k] /\ Len(cores') = Len(cores) + 1
          /\ cores'[Len(cores) + 1] = e /\ IsPossible(Labels[k])
          /\ \A i \in 1..Len(cores) : cores'[i] = cores[i]
      BY <1>6, CoreRead DEF IsPossible
    <2>2. pc = "input" /\ pc' = "labels" /\ left' = left \ {k} /\ Len(cores) \in Nat
      BY <1>6 DEF ReadCore, TypeOK
    <2> HIDE DEF e
    <2>3. ASSUME NEW i \in 1..Len(cores')
          PROVE  IsPossible(cores[i].label)'
      <3>1. IsPossible(cores'[i].label)
        <4>1. CASE i \in 1..Len(cores)
          <5>1. IsPossible(cores[i].label)
            BY <2>2, <4>1 DEF CoreInv
          <5> QED BY <2>1, <4>1, <5>1
        <4>2. CASE i = Len(cores) + 1
          BY <2>1, <4>2
        <4> QED BY <2>1, <2>2, <4>1, <4>2
      <3> QED BY <1>2, <3>1 DEF IsPossible
    <2>4. HasEntry(k)'
      <3>1. Len(cores) + 1 \in 1..Len(cores') /\ cores'[Len(cores) + 1].label = Labels[k]
        BY <2>1, <2>2
      <3> QED BY <3>1 DEF HasEntry
    <2>5. ASSUME NEW n, HasEntry(n)
          PROVE  HasEntry(n)'
      <3>1. PICK i \in 1..Len(cores) : cores[i].label = Labels[n]
        BY <2>5 DEF HasEntry
      <3>2. i \in 1..Len(cores') /\ cores'[i].label = Labels[n]
        BY <2>1, <2>2, <3>1
      <3> QED BY <3>2 DEF HasEntry
    <2>6. \A n \in LastingCores' : n \in left' \/ HasEntry(n)'
      BY <1>2, <2>2, <2>4, <2>5 DEF CoreInv
    <2>7. pc' \notin InRapl \cup {"done"}
      BY <2>2 DEF InRapl
    <2> QED BY <2>3, <2>6, <2>7 DEF CoreInv
  <1>7. ASSUME NEW k \in left, OpenLabel(k)
        PROVE  CoreInv'
    <2>1. CASE pc' = "input"
      BY <1>5, <1>7, <2>1 DEF OpenLabel, InRapl
    <2>2. CASE pc' # "input"
      BY <1>4, <1>7, <2>2 DEF OpenLabel, LastingCores, IsCore, InCoretemp
    <2> QED BY <2>1, <2>2
  <1>8. ASSUME NEW k \in left, InputGone(k)
        PROVE  CoreInv'
    BY <1>4, <1>8 DEF InputGone, LastingCores, InCoretemp
  <1>9. ASSUME \/ ClosePackage \/ TryBase \/ ReadAttribute \/ UNCHANGED vars
               \/ \E l \in Label : ChangeCore(l)
               \/ \E f \in Files : ChangeFile(f)
        PROVE  CoreInv'
    <2>1. CASE ClosePackage
      BY <1>5, <2>1 DEF ClosePackage, InRapl
    <2>2. CASE TryBase \/ ReadAttribute
      <3>1. pc \in InRapl /\ left' = left /\ cores' = cores
        BY <2>2 DEF TryBase, ReadAttribute, InRapl
      <3>2. left = {} \/ Len(cores) = MaxCores
        BY <3>1 DEF CoreInv, InRapl
      <3> QED BY <1>5, <3>1, <3>2 DEF InRapl
    <2>3. CASE UNCHANGED <<pc, left, cores>>
      BY <1>5, <2>3 DEF CoreInv
    <2> QED BY <1>9, <2>1, <2>2, <2>3 DEF vars, ChangeCore, ChangeFile
  <1> QED BY <1>1, <1>3, <1>6, <1>7, <1>8, <1>9, StepCases DEF CoreInv

LEMMA AttributeIs ==
    /\ \A i \in 1..3 : Attributes[i] \in Attribute
    /\ \A i, j \in 1..3 : Attributes[i] = Attributes[j] => i = j
  BY DEF Attribute, Attributes

\* A settled attribute stays settled while the collector leaves it alone.
LEMMA ReportedKept ==
    ASSUME [Next]_vars, ~Begin, NEW a, Reported(a), a \in rapl' <=> a \in rapl
    PROVE  Reported(a)'
  <1>1. \A f : (Lasting(f)' => Lasting(f)) /\ (Missing(f)' => Missing(f))
    BY HostMoves DEF Lasting, Missing
  <1>2. \A d \in Dirs : ~Missing(<<d, a>>) => ~Missing(<<d, a>>)'
    BY <1>1 DEF Missing
  <1> QED BY <1>1, <1>2 DEF Reported, Lasting, Missing

\* What TryBase chooses for an attribute, and ReadAttribute then reads, settles
\* it.
LEMMA AttributeRead ==
    ASSUME TypeOK, FallbackInv, ReadAttribute, NEW a, a = Attributes[attr]
    PROVE  Reported(a)' /\ \A b : b # a => (b \in rapl' <=> b \in rapl)
  <1>1. /\ pc = "again" /\ UNCHANGED <<powercap, flapped>>
        /\ rapl' = IF CanRead(path) THEN rapl \cup {a} ELSE rapl
    BY DEF ReadAttribute, env
  <1>2. a \notin rapl /\ path \in Dirs
    <2>1. attr \in attr..3
      BY DEF TypeOK
    <2> QED BY <1>1, <2>1 DEF FallbackInv, InRapl, TypeOK
  <1>3. /\ Lasting(<<"base", a>>) => path = "base"
        /\ Missing(<<"base", a>>) => path = "alt"
    BY <1>1 DEF FallbackInv
  <1>4. CanRead(path) <=> <<path, a>> \in powercap
    BY DEF CanRead
  <1>5. Lasting(<<"base", a>>) => a \in rapl'
    BY <1>1, <1>3, <1>4 DEF Lasting
  <1>6. Missing(<<"base", a>>) /\ Lasting(<<"alt", a>>) => a \in rapl'
    BY <1>1, <1>3, <1>4 DEF Lasting
  <1>7. a \in rapl' => \E d \in Dirs : ~Missing(<<d, a>>)
    BY <1>1, <1>2, <1>4 DEF Missing
  <1>8. Reported(a)'
    BY <1>1, <1>5, <1>6, <1>7 DEF Reported, Lasting, Missing
  <1>9. \A b : b # a => (b \in rapl' <=> b \in rapl)
    BY <1>1
  <1> QED BY <1>8, <1>9

\* The attributes are settled one after the other.
LEMMA FallbackRead ==
    ASSUME TypeOK, FallbackInv, [Next]_vars, ReadAttribute
    PROVE  FallbackInv'
  <1>1. /\ pc = "again" /\ attr \in 1..3 /\ ~Begin
        /\ \/ attr = 3 /\ pc' = "done" /\ attr' = attr
           \/ attr < 3 /\ pc' = "rapl" /\ attr' = attr + 1
    BY DEF ReadAttribute, TypeOK, Begin
  <1>2. ASSUME NEW i \in 1..attr
        PROVE  Reported(Attributes[i])'
    <2>1. CASE i = attr
      <3>1. PICK a : a = Attributes[i]
        OBVIOUS
      <3>2. Reported(a)'
        BY <2>1, <3>1, AttributeRead
      <3> QED BY <3>1, <3>2
    <2>2. CASE i # attr
      <3>1. i \in 1..(attr - 1) /\ i \in 1..3
        BY <1>1, <2>2
      <3>2. Reported(Attributes[i]) /\ Attributes[i] # Attributes[attr]
        BY <1>1, <2>2, <3>1, AttributeIs DEF FallbackInv, InRapl
      <3>3. Attributes[i] \in rapl' <=> Attributes[i] \in rapl
        BY <3>2, AttributeRead
      <3> QED BY <1>1, <3>2, <3>3, ReportedKept
    <2> QED BY <2>1, <2>2
  <1>3. CASE attr = 3 /\ pc' = "done"
    <2>1. \A a \in Attribute : Reported(a)'
      BY <1>2, <1>3 DEF Attribute
    <2> QED BY <1>3, <2>1 DEF FallbackInv, InRapl, FallbackByAttribute
  <1>4. CASE attr < 3 /\ pc' = "rapl" /\ attr' = attr + 1
    <2>1. \A i \in 1..(attr' - 1) : Reported(Attributes[i])'
      BY <1>1, <1>2, <1>4
    <2>2. ASSUME NEW i \in attr'..3
          PROVE  Attributes[i] \notin rapl'
      <3>1. i \in attr..3 /\ i \in 1..3 /\ i # attr
        BY <1>1, <1>4
      <3>2. Attributes[i] \notin rapl /\ Attributes[i] # Attributes[attr]
        BY <1>1, <3>1, AttributeIs DEF FallbackInv, InRapl
      <3> QED BY <3>2, AttributeRead
    <2>3. pc' # "again" /\ pc' # "done"
      BY <1>4
    <2>4. (pc \in InRapl)' =>
             /\ \A i \in 1..(attr' - 1) : Reported(Attributes[i])'
             /\ \A i \in attr'..3 : Attributes[i] \notin rapl'
      BY <2>1, <2>2
    <2> QED BY <2>3, <2>4, Zenon DEF FallbackInv, FallbackByAttribute
  <1> QED BY <1>1, <1>3, <1>4

LEMMA FallbackStep ==
    ASSUME TypeOK, CountInv, FallbackInv, [Next]_vars
    PROVE  FallbackInv'
  <1>1. CASE Begin
    BY <1>1 DEF Begin, FallbackInv, InRapl, FallbackByAttribute
  <1>2. CASE ReadAttribute
    BY <1>2, FallbackRead
  <1>3. CASE ClosePackage
    <2>1. pc = "labels" /\ pc' \in {"rapl", "done"} /\ attr' = attr /\ rapl' = rapl
      BY <1>3 DEF ClosePackage
    <2>2. attr' = 1 /\ rapl' = {} /\ (pc' = "done" => count' = 0)
      BY <1>3, <2>1 DEF ClosePackage, CountInv, InCoretemp
    <2> QED BY <2>1, <2>2 DEF FallbackInv, InRapl, FallbackByAttribute
  <1>4. ASSUME ~Begin, ~ReadAttribute, ~ClosePackage
        PROVE  FallbackInv'
    <2>1. /\ rapl' = rapl /\ attr' = attr /\ count' = count
          /\ \/ pc' = pc /\ path' = path
             \/ pc' \in {"labels", "input"}
             \/ pc = "glob" /\ pc' = "done"
             \/ TryBase
      BY <1>4 DEF Next, vars, GlobLabels, OpenLabel, InputGone, ReadCore,
           TryBase, ChangeCore, ChangeFile
    <2>2. /\ \A a : Reported(a) => Reported(a)'
          /\ \A f : (Lasting(f)' => Lasting(f)) /\ (Missing(f)' => Missing(f))
      <3>1. \A f : (Lasting(f)' => Lasting(f)) /\ (Missing(f)' => Missing(f))
        BY <1>4, HostMoves DEF Lasting, Missing
      <3> QED BY <1>4, <2>1, <3>1, ReportedKept
    <2>3. CASE pc' = pc /\ path' = path
      <3>1. pc' \in InRapl =>
               /\ \A i \in 1..(attr' - 1) : Reported(Attributes[i])'
               /\ \A i \in attr'..3 : Attributes[i] \notin rapl'
        BY <2>1, <2>2, <2>3 DEF FallbackInv
      <3>2. pc' = "again" =>
               /\ Lasting(<<"base", Attributes[attr]>>)' => path' = "base"
               /\ Missing(<<"base", Attributes[attr]>>)' => path' = "alt"
        BY <2>1, <2>2, <2>3 DEF FallbackInv, Lasting, Missing
      <3>3. pc' = "done" /\ count' = 1 => \A a \in Attribute : Reported(a)'
        BY <2>1, <2>2, <2>3 DEF FallbackInv, FallbackByAttribute
      <3> QED BY <3>1, <3>2, <3>3 DEF FallbackInv, FallbackByAttribute, InRapl
    <2>4. CASE TryBase
      <3>1. /\ pc = "rapl" /\ pc' = "again" /\ attr' = attr
            /\ UNCHANGED <<powercap, flapped>>
            /\ path' = IF CanRead("base") THEN "base" ELSE "alt"
        BY <2>4 DEF TryBase, env
      <3>2. /\ \A i \in 1..(attr' - 1) : Reported(Attributes[i])'
            /\ \A i \in attr'..3 : Attributes[i] \notin rapl'
        BY <2>1, <2>2, <3>1 DEF FallbackInv, InRapl
      <3>3. /\ Lasting(<<"base", Attributes[attr]>>)' => path' = "base"
            /\ Missing(<<"base", Attributes[attr]>>)' => path' = "alt"
        BY <3>1 DEF CanRead, Lasting, Missing
      <3> QED BY <3>1, <3>2, <3>3 DEF FallbackInv, FallbackByAttribute
    <2>5. CASE pc' \in {"labels", "input"} \/ (pc = "glob" /\ pc' = "done")
      <3>1. pc = "glob" => count = 0
        BY DEF CountInv
      <3> QED BY <2>1, <2>5, <3>1 DEF FallbackInv, FallbackByAttribute, InRapl
    <2> QED BY <2>1, <2>3, <2>4, <2>5
  <1> QED BY <1>1, <1>2, <1>3, <1>4

-------------------------------------------------------------------------------
(* Theorems *)

LEMMA InvInit == Init => IInv
  <1> SUFFICES ASSUME Init
               PROVE  IInv
    OBVIOUS
  <1>1. /\ cores = <<>> /\ Len(cores) = 0 /\ cores \in Seq(CoreEntry)
        /\ package = [temp |-> 0, tjmax |-> 0]
        /\ pc = "idle" /\ count = 0 /\ attr = 1 /\ rapl = {} /\ capabilities = {}
    BY EmptyTable DEF Init
  <1>2. TypeOK
    <2>1. Len(cores) <= MaxCores
      BY <1>1, CpuAssumption
    <2>2. package \in [temp: Temp \cup {0}, tjmax: Crit \cup {0}]
      BY <1>1
    <2>3. /\ online \subseteq Label /\ powercap \subseteq Files
          /\ hotplugged = {} /\ flapped = {} /\ left = {} /\ path = "base"
      BY DEF Init
    <2> QED BY <1>1, <2>1, <2>2, <2>3 DEF TypeOK, Dirs
  <1>3. ControlInv /\ CountInv /\ CoreInv /\ FallbackInv
    BY <1>1 DEF ControlInv, CountInv, CoreInv, FallbackInv, FallbackByAttribute,
         InCoretemp, InRapl
  <1>4. OrderInv
    BY <1>1, EmptyTable DEF OrderInv
  <1>5. PackageIsHottest /\ RaplBitMeansEnergy
    BY <1>1 DEF PackageIsHottest, RaplBitMeansEnergy
  <1> QED BY <1>2, <1>3, <1>4, <1>5 DEF IInv

LEMMA InvStep == IInv /\ [Next]_vars => IInv'
  BY TypeStep, ControlStep, CountStep, OrderStep, CoreStep, FallbackStep,
     HottestStep, RaplStep DEF IInv

\* The inductive invariant holds in every reachable state of the collector.
THEOREM Invariant == Spec => []IInv
  BY InvInit, InvStep, PTL DEF Spec

\* The x86 collector keeps its variables in range, the cores of a package with
\* room for any number of them included (cpu_x86.c:44).
THEOREM TypeCorrect == Spec => []TypeOK
  <1>1. IInv => TypeOK
    BY DEF IInv
  <1> QED BY <1>1, Invariant, PTL

\* The package has the temperature of its hottest core and the highest critical
\* temperature, after every core, whatever the temperatures are
\* (cpu_x86.c:86-91).
THEOREM HottestCorrect == Spec => []PackageIsHottest
  <1>1. IInv => PackageIsHottest
    BY DEF IInv
  <1> QED BY <1>1, Invariant, PTL

\* The RAPL bit goes with an energy reading, and energy with a counted package
\* that has cores (cpu_x86.c:95-99, 111, 122-125).
THEOREM RaplCorrect == Spec => []RaplBitMeansEnergy
  <1>1. IInv => RaplBitMeansEnergy
    BY DEF IInv
  <1> QED BY <1>1, Invariant, PTL

\* An attribute that the first directory has, or the second where the first has
\* not, is read whatever happens to the files of the other attributes, and none
\* that neither has (cpu_x86.c:118-141).
THEOREM FallbackCorrect == Spec => []FallbackByAttribute
  <1>1. IInv => FallbackByAttribute
    BY DEF IInv, FallbackInv
  <1> QED BY <1>1, Invariant, PTL

LEMMA DistinctPlaces ==
    ASSUME NEW m \in 1..Len(Labels), NEW n \in 1..Len(Labels), Labels[m] = Labels[n]
    PROVE  m = n
  BY CpuAssumption

\* Whatever comes and goes, a finished package has the cores that were there all
\* the time, the first of them if the table is full, in the order of the labels
\* (cpu_x86.c:44-98).
THEOREM CoresCorrect == Spec => []LastingCoresComplete
  <1>1. IInv => LastingCoresComplete
    <2> SUFFICES ASSUME IInv, pc = "done"
                 PROVE  LastingCoresComplete
      BY DEF LastingCoresComplete
    <2>1. /\ TypeOK /\ Behind(cores, left) /\ InOrder(cores)
          /\ left = {} \/ Len(cores) = MaxCores
          /\ \A i \in 1..Len(cores) : IsPossible(cores[i].label)
          /\ \A n \in LastingCores : n \in left \/ HasEntry(n)
      BY DEF IInv, OrderInv, CoreInv
    <2>2. \A n \in 1..Len(Labels) : IsPossible(Labels[n]) => n \in PossibleCores
      BY DEF IsPossible, PossibleCores, IsCore
    <2>3. ASSUME NEW i \in 1..Len(cores)
          PROVE  \E k \in PossibleCores : cores[i].label = Labels[k]
      <3>1. PICK k \in 1..Len(Labels) : cores[i].label = Labels[k]
        BY <2>1 DEF Behind
      <3>2. k \in PossibleCores
        BY <2>1, <2>2, <3>1
      <3> QED BY <3>1, <3>2
    <2>4. ASSUME NEW i \in 1..Len(cores), NEW j \in 1..Len(cores), i < j
          PROVE  \E m, n \in PossibleCores : /\ m < n
                                             /\ cores[i].label = Labels[m]
                                             /\ cores[j].label = Labels[n]
      <3>1. PICK m, n \in 1..Len(Labels) :
               m < n /\ cores[i].label = Labels[m] /\ cores[j].label = Labels[n]
        BY <2>1, <2>4 DEF InOrder
      <3>2. m \in PossibleCores /\ n \in PossibleCores
        BY <2>1, <2>2, <3>1
      <3> QED BY <3>1, <3>2
    <2>5. ASSUME NEW m \in LastingCores, NEW n \in PossibleCores, m < n, HasEntry(n)
          PROVE  HasEntry(m)
      <3>1. m \in 1..Len(Labels) /\ n \in 1..Len(Labels)
        BY DEF LastingCores, PossibleCores
      <3>2. PICK i \in 1..Len(cores) : cores[i].label = Labels[n]
        BY <2>5 DEF HasEntry
      <3>3. PICK o \in 1..Len(Labels) :
               cores[i].label = Labels[o] /\ \A k \in left : o < k
        BY <2>1 DEF Behind
      <3>4. o = n
        BY <3>1, <3>2, <3>3, DistinctPlaces
      <3>5. m \notin left
        BY <2>5, <3>1, <3>3, <3>4
      <3> QED BY <2>1, <3>5
    <2>6. Len(cores) = MaxCores \/ \A k \in LastingCores : HasEntry(k)
      BY <2>1
    <2>7. count = 1 <=> cores # <<>>
      BY DEF IInv, TypeOK, CountInv
    <2> QED BY <2>3, <2>4, <2>5, <2>6, <2>7 DEF LastingCoresComplete
  <1> QED BY <1>1, Invariant, PTL

\* The cores of the package are a table that only grows, by entries at its end
\* and within its limit, until the next snapshot clears it.
THEOREM TableRefinement == Spec => ImplementsTable
  <1>1. Init => CoreTable!Init
    BY DEF Init, CoreTable!Init
  <1>2. IInv /\ [Next]_vars => [CoreTable!Next]_cores
    <2> SUFFICES ASSUME IInv, [Next]_vars, cores' # cores
                 PROVE  CoreTable!Next
      OBVIOUS
    <2>1. CASE Begin
      BY <2>1 DEF Begin, CoreTable!Next, CoreTable!Clear
    <2>2. ASSUME NEW k \in left, NEW temp \in Temp, NEW crit \in Crit \cup {0},
                 ReadCore(k, temp, crit)
          PROVE  CoreTable!Add
      BY <2>2, CoreRead DEF IInv, CoreTable!Add
    <2> QED BY <2>1, <2>2, TableKept DEF CoreTable!Next
  <1> QED BY <1>1, <1>2, Invariant, PTL DEF Spec, ImplementsTable, CoreTable!Spec

===============================================================================
