----------------------------- MODULE Series_proofs ----------------------------
(***************************************************************************)
(* Proofs about Series.tla, for any host.  The labels an export has are    *)
(* those that its entries' sensors, numbers and texts make at their        *)
(* places; what the labels tell apart then follows from the sensors being  *)
(* met once each, in order where glob sorts them, and from the numbers.    *)
(***************************************************************************)
EXTENDS Series, WellFoundedInduction, TLAPS

Entries == [of : Nat, number : Nat, read : SUBSET Texts(kind)]

Increasing(entries) ==
    \A j, k \in 1..Len(entries) : j < k => entries[j].of < entries[k].of

Numbered(entries) ==
    \A j, k \in 1..Len(entries) : j < k => entries[j].number < entries[k].number

OneEach(entries) ==
    \A j, k \in 1..Len(entries) : entries[j].of = entries[k].of => j = k

\* Sensors that come in order are met in order.
MetInv == Sorted => \A s \in met, t \in Sensor : t < s => t \in met

\* The entries are of sensors met, one each, and numbered in the count so far.
TableInv ==
    /\ table \in Seq(Entries)
    /\ OneEach(table)
    /\ Numbered(table)
    /\ \A k \in 1..Len(table) : table[k].number < counted
    /\ Sorted => Increasing(table)

ExportInv ==
    /\ Len(export) \in Nat
    /\ \A k \in 1..Len(export) : export[k].of \in Nat /\ export[k].number \in Nat
    /\ OneEach(export)
    /\ Numbered(export)

\* The export has the labels of its entries' sensors, numbers, texts and places.
LabelInv ==
    \A k \in 1..Len(export) :
        IF kind # "amd" THEN export[k].series = SeriesOf(k, export[k])
        ELSE \/ /\ export[k].series[1] = export[k].number
                /\ export[k].series[3] = "rocm_smi"
             \/ /\ export[k].series[1] = k - 1
                /\ export[k].series[3] = "amdgpu_hwmon"
                /\ Increasing(export)

\* All GPUs of one export are from one source.
SourceInv ==
    kind = "amd" => \A j, k \in 1..Len(export) :
                        export[j].series[3] = export[k].series[3]

IInv == TypeOK /\ MetInv /\ TableInv /\ ExportInv /\ LabelInv /\ SourceInv

LEMMA HostLength ==
    ASSUME NEW k \in Kinds
    PROVE  Len(Host[k]) \in Nat
  <1> DEFINE S == {Host[k][s] : s \in DOMAIN Host[k]}
  <1>1. Host[k] \in Seq(S)
    BY SeriesAssumption
  <1> HIDE DEF S
  <1> QED BY <1>1

LEMMA SensorNat == TypeOK => Sensor \subseteq Nat
  BY HostLength DEF TypeOK, Sensor

-------------------------------------------------------------------------------
(* Sequences that increase *)

LEMMA Smallest ==
    ASSUME NEW T \in SUBSET Nat, T # {}
    PROVE  \E n \in T : \A m \in T : ~(m < n)
  <1> DEFINE less == OpToRel(<, Nat)
  <1>1. \A x, y \in Nat : x < y => <<x, y>> \in less
    BY DEF OpToRel
  <1>2. IsWellFoundedOn(less, Nat)
    BY NatLessThanWellFounded
  <1> HIDE DEF less
  <1>3. PICK n \in T : \A m \in T : <<m, n>> \notin less
    BY <1>2, WFMin
  <1> QED BY <1>1, <1>3

Ascending(a, l) ==
    /\ \A i \in 1..l : a[i] \in Nat
    /\ \A i, j \in 1..l : i < j => a[i] < a[j]

\* The values of a are among those of b.
Within(a, l, b, m) == \A i \in 1..l : \E j \in 1..m : b[j] = a[i]

\* If a is below b at a place up to which they agree, a's value there is not in b.
LEMMA FirstDifference ==
    ASSUME NEW l \in Nat, NEW m \in Nat, NEW a, NEW b, NEW n \in 1..l, n \in 1..m,
           Ascending(a, l), Ascending(b, m),
           \A i \in 1..l : i \in 1..m /\ i < n => a[i] = b[i],
           a[n] < b[n], NEW i \in 1..m, b[i] = a[n]
    PROVE  FALSE
  <1>1. CASE i < n
    <2>1. i \in 1..l /\ a[i] = b[i]
      BY <1>1
    <2> QED BY <1>1, <2>1 DEF Ascending
  <1>2. CASE i = n
    BY <1>2 DEF Ascending
  <1>3. CASE n < i
    <2>1. b[n] < b[i]
      BY <1>3 DEF Ascending
    <2> QED BY <2>1 DEF Ascending
  <1> QED BY <1>1, <1>2, <1>3

\* Two increasing sequences with the same values agree.
LEMMA IncreasingAgree ==
    ASSUME NEW l \in Nat, NEW m \in Nat, NEW a, NEW b,
           Ascending(a, l), Ascending(b, m),
           Within(a, l, b, m), Within(b, m, a, l)
    PROVE  \A i \in 1..l : i \in 1..m => a[i] = b[i]
  <1> DEFINE T == {i \in 1..l : i \in 1..m /\ a[i] # b[i]}
  <1>1. SUFFICES ASSUME T # {}
                 PROVE  FALSE
    OBVIOUS
  <1>2. T \in SUBSET Nat
    OBVIOUS
  <1>3. PICK n \in T : \A i \in T : ~(i < n)
    <2> HIDE DEF T
    <2> QED BY <1>1, <1>2, Smallest
  <1>4. /\ n \in 1..l /\ n \in 1..m /\ a[n] # b[n]
        /\ \A i \in 1..l : i \in 1..m /\ i < n => a[i] = b[i]
        /\ \A i \in 1..m : i \in 1..l /\ i < n => b[i] = a[i]
    BY <1>3
  <1>5. CASE a[n] < b[n]
    <2>1. PICK i \in 1..m : b[i] = a[n]
      BY <1>4 DEF Within
    <2> HIDE DEF T
    <2> QED BY <1>4, <1>5, <2>1, FirstDifference
  <1>6. CASE b[n] < a[n]
    <2>1. PICK i \in 1..l : a[i] = b[n]
      BY <1>4 DEF Within
    <2> HIDE DEF T
    <2> QED BY <1>4, <1>6, <2>1, FirstDifference
  <1>7. a[n] \in Nat /\ b[n] \in Nat
    BY <1>4 DEF Ascending
  <1> QED BY <1>4, <1>5, <1>6, <1>7

-------------------------------------------------------------------------------
(* What the labels tell *)

\* A zone and a cluster are known by their series.
LEMMA SeriesTell ==
    ASSUME kind \in {"cluster", "zone"},
           NEW j, NEW k, NEW d, NEW e, d.of \in Sensor, e.of \in Sensor,
           SeriesOf(j, d) = SeriesOf(k, e)
    PROVE  d.of = e.of
  <1>1. Id(d) = Id(e)
    BY DEF SeriesOf, ClusterSeries, ZoneSeries
  <1>2. kind \in Kinds /\ d.of \in 1..Len(Host[kind]) /\ e.of \in 1..Len(Host[kind])
    BY DEF Kinds, Sensor
  <1>3. \A s, t \in 1..Len(Host[kind]) :
           Host[kind][s].id = Host[kind][t].id => s = t
    BY SeriesAssumption, Zenon
  <1> QED BY <1>1, <1>2, <1>3 DEF Id

\* An NVIDIA GPU is known by its series if its uuid was read: the other entry
\* has the same uuid then, and none has an empty one.
LEMMA GpuTell ==
    ASSUME kind = "nvidia",
           NEW j, NEW k, NEW d, NEW e, d.of \in Sensor, e.of \in Sensor,
           SeriesOf(j, d) = SeriesOf(k, e), "uuid" \in d.read
    PROVE  d.of = e.of
  <1>1. Shown(d, "uuid") = Shown(e, "uuid")
    BY DEF SeriesOf, NvidiaSeries
  <1>2. Shown(d, "uuid") = Host["nvidia"][d.of]["uuid"]
    BY DEF Shown
  <1>3. Shown(e, "uuid") \in {Host["nvidia"][e.of]["uuid"], ""}
    BY DEF Shown
  <1>4. Host["nvidia"][d.of]["uuid"] = Host["nvidia"][d.of].uuid
    OBVIOUS
  <1>5. d.of \in 1..Len(Host["nvidia"]) /\ e.of \in 1..Len(Host["nvidia"])
    BY DEF Sensor
  <1>6. Host["nvidia"][d.of].uuid # ""
    BY <1>5, SeriesAssumption, Zenon
  <1>7. Host["nvidia"][d.of].uuid = Host["nvidia"][e.of].uuid
    BY <1>1, <1>2, <1>3, <1>4, <1>6
  <1>8. \A s, t \in 1..Len(Host["nvidia"]) :
           Host["nvidia"][s].uuid = Host["nvidia"][t].uuid => s = t
    BY SeriesAssumption, Zenon
  <1> QED BY <1>5, <1>7, <1>8

\* The labels are made from the sensor and the texts that were read; besides,
\* from the place in the table for a cluster, from the number for a GPU.
LEMMA SeriesMade ==
    ASSUME kind \in Kinds \ {"amd"}, NEW j \in Nat, NEW k \in Nat, NEW d, NEW e,
           d.of = e.of, d.read = e.read
    PROVE  SeriesOf(j, d) = SeriesOf(k, e)
             <=> /\ kind = "cluster" => j = k
                 /\ kind = "nvidia" => d.number = e.number
  <1>1. Id(d) = Id(e) /\ \A text : Shown(d, text) = Shown(e, text)
    BY DEF Id, Shown
  <1>2. CASE kind = "cluster"
    BY <1>1, <1>2 DEF SeriesOf, ClusterSeries
  <1>3. CASE kind = "nvidia"
    BY <1>1, <1>3 DEF SeriesOf, NvidiaSeries
  <1>4. CASE kind \in {"core", "hwmon", "zone"}
    BY <1>1, <1>4 DEF SeriesOf, CoreSeries, HwmonSeries, ZoneSeries
  <1> QED BY <1>2, <1>3, <1>4 DEF Kinds

-------------------------------------------------------------------------------
(* The invariant *)

LEMMA InvInit == Init => IInv
  <1> SUFFICES ASSUME Init
               PROVE  IInv
    OBVIOUS
  <1>1. TypeOK
    BY DEF Init, TypeOK
  <1>2. MetInv /\ TableInv
    BY DEF Init, MetInv, TableInv, OneEach, Numbered, Increasing
  <1>3. ExportInv /\ LabelInv /\ SourceInv
    BY DEF Init, ExportInv, LabelInv, SourceInv, OneEach, Numbered
  <1> QED BY <1>1, <1>2, <1>3 DEF IInv

\* A step meets a sensor and adds its entry or none, exports, or does nothing.
LEMMA Steps ==
    ASSUME [Next]_vars
    PROVE  \/ \E s \in Sensor : Meet(s) /\ UNCHANGED table
                                /\ (counted' = counted \/ counted' = counted + 1)
           \/ \E s \in Sensor, read \in SUBSET Texts(kind) : Collect(s, read)
           \/ Export
           \/ UNCHANGED vars
  BY DEF Next, Absent, PassOver

LEMMA EntryTyped ==
    ASSUME TableInv, NEW k \in 1..Len(table)
    PROVE  /\ table[k].of \in Nat /\ table[k].number \in Nat
           /\ table[k].number < counted
  <1> DEFINE reads == SUBSET Texts(kind)
  <1>1. table \in Seq(Entries)
    BY DEF TableInv
  <1>2. table[k] \in Entries
    <2> HIDE DEF reads
    <2> QED BY <1>1
  <1>3. Entries = [of : Nat, number : Nat, read : reads]
    BY DEF Entries
  <1> HIDE DEF reads
  <1> QED BY <1>2, <1>3 DEF TableInv

\* The entry that Collect adds.
LEMMA Collected ==
    ASSUME TypeOK, TableInv, NEW s \in Sensor, NEW read \in SUBSET Texts(kind),
           Collect(s, read)
    PROVE  /\ table' \in Seq(Entries) /\ Len(table') = Len(table) + 1
           /\ Len(table) \in Nat
           /\ table'[Len(table) + 1].of = s
           /\ table'[Len(table) + 1].number = counted
           /\ table'[Len(table) + 1].read = read
           /\ \A k \in 1..Len(table) : table'[k] = table[k]
           /\ s \in Nat /\ s \notin met /\ met' = met \cup {s}
           /\ counted \in Nat /\ counted' = counted + 1
           /\ UNCHANGED <<kind, source, export>>
  <1>1. s \in Nat /\ counted \in Nat
    BY SensorNat DEF TypeOK
  <1>2. [of |-> s, number |-> counted, read |-> read] \in Entries
    BY <1>1 DEF Entries
  <1> QED BY <1>1, <1>2 DEF TableInv, Collect, Meet

\* What Export makes of the entries.
LEMMA Exported ==
    ASSUME TableInv, Export
    PROVE  /\ Len(export') = Len(table) /\ Len(table) \in Nat
           /\ \A k \in 1..Len(table) :
                 /\ export'[k].of = table[k].of
                 /\ export'[k].number = table[k].number
                 /\ export'[k].read = table[k].read
                 /\ export'[k].series = SeriesOf(k, table[k])
                 /\ table[k].of \in Nat /\ table[k].number \in Nat
  <1>1. Len(table) \in Nat
    BY DEF TableInv
  <1>2. \A k \in 1..Len(table) : table[k].of \in Nat /\ table[k].number \in Nat
    BY EntryTyped
  <1>3. export' = [k \in 1..Len(table) |->
          [of |-> table[k].of, number |-> table[k].number,
           read |-> table[k].read, series |-> SeriesOf(k, table[k])]]
    BY DEF Export
  <1> QED BY <1>1, <1>2, <1>3

LEMMA TypeStep == TypeOK /\ TableInv /\ [Next]_vars => TypeOK'
  <1> SUFFICES ASSUME TypeOK, TableInv, [Next]_vars
               PROVE  TypeOK'
    OBVIOUS
  <1>1. ASSUME NEW s \in Sensor, Meet(s), UNCHANGED table,
               counted' = counted \/ counted' = counted + 1
        PROVE  TypeOK'
    BY <1>1 DEF Meet, TypeOK, Sensor
  <1>2. ASSUME NEW s \in Sensor, NEW read \in SUBSET Texts(kind), Collect(s, read)
        PROVE  TypeOK'
    <2>1. ASSUME NEW k \in 1..Len(table')
          PROVE  table'[k].of \in met' /\ table'[k].read \subseteq Texts(kind)
      <3>1. CASE k = Len(table) + 1
        BY <1>2, <3>1, Collected
      <3>2. CASE k \in 1..Len(table)
        BY <1>2, <3>2, Collected DEF TypeOK
      <3> QED BY <1>2, <2>1, <3>1, <3>2, Collected
    <2>2. met' \subseteq Sensor /\ counted' \in Nat
      BY <1>2, Collected DEF TypeOK
    <2> QED BY <1>2, <2>1, <2>2 DEF Collect, Meet, TypeOK, Sensor
  <1>3. CASE Export
    <2>1. ASSUME NEW k \in 1..Len(export')
          PROVE  export'[k].of \in Sensor /\ export'[k].read \subseteq Texts(kind)
      BY <1>3, <2>1, Exported DEF TypeOK
    <2>2. kind' = kind /\ Sensor' = Sensor /\ Len(table') = 0
      BY <1>3 DEF Export, Sensor
    <2> QED BY <1>3, <2>1, <2>2 DEF Export, TypeOK
  <1>4. CASE UNCHANGED vars
    BY <1>4 DEF vars, TypeOK, Sensor
  <1> QED BY <1>1, <1>2, <1>3, <1>4, Steps

LEMMA MetStep == TypeOK /\ MetInv /\ [Next]_vars => MetInv'
  <1> SUFFICES ASSUME TypeOK, MetInv, [Next]_vars
               PROVE  MetInv'
    OBVIOUS
  <1>1. ASSUME NEW s \in Sensor, Meet(s)
        PROVE  MetInv'
    <2>1. Sensor' = Sensor /\ Sorted' = Sorted
      BY <1>1 DEF Meet, Sensor, Sorted
    <2>2. ASSUME Sorted, NEW u \in met', NEW t \in Sensor, t < u
          PROVE  t \in met'
      BY <1>1, <2>2 DEF Meet, MetInv
    <2> QED BY <2>1, <2>2 DEF MetInv
  <1>2. CASE Export
    BY <1>2 DEF Export, MetInv
  <1>3. CASE UNCHANGED vars
    BY <1>3 DEF vars, MetInv, Sorted, Sensor
  <1> QED BY <1>1, <1>2, <1>3, Steps DEF Collect

\* A sensor that is met in order comes after those that have an entry.
LEMMA MetLast ==
    ASSUME TypeOK, MetInv, TableInv, Sorted, NEW s \in Sensor, s \notin met,
           NEW k \in 1..Len(table)
    PROVE  table[k].of < s
  <1>1. table[k].of \in met /\ table[k].of \in Nat /\ s \in Nat
    BY SensorNat DEF TypeOK
  <1>2. ~(s < table[k].of)
    BY <1>1 DEF MetInv
  <1> QED BY <1>1, <1>2

LEMMA TableStep == TypeOK /\ MetInv /\ TableInv /\ [Next]_vars => TableInv'
  <1> SUFFICES ASSUME TypeOK, MetInv, TableInv, [Next]_vars
               PROVE  TableInv'
    OBVIOUS
  <1>1. ASSUME NEW s \in Sensor, Meet(s), UNCHANGED table,
               counted' = counted \/ counted' = counted + 1
        PROVE  TableInv'
    <2>1. Sorted' = Sorted /\ Entries' = Entries
      BY <1>1 DEF Meet, Sorted, Entries
    <2>2. \A k \in 1..Len(table) : table[k].number < counted'
      <3>1. ASSUME NEW k \in 1..Len(table)
            PROVE  table[k].number < counted /\ table[k].number \in Nat
        BY EntryTyped
      <3> QED BY <1>1, <3>1 DEF TypeOK
    <2> QED BY <1>1, <2>1, <2>2 DEF TableInv, OneEach, Numbered, Increasing
  <1>2. ASSUME NEW s \in Sensor, NEW read \in SUBSET Texts(kind), Collect(s, read)
        PROVE  TableInv'
    <2> DEFINE l == Len(table)
    <2>1. /\ table' \in Seq(Entries) /\ Len(table') = l + 1 /\ l \in Nat
          /\ table'[l + 1].of = s /\ table'[l + 1].number = counted
          /\ \A k \in 1..l : table'[k] = table[k]
          /\ s \in Nat /\ s \notin met /\ counted \in Nat /\ counted' = counted + 1
          /\ UNCHANGED <<kind, source>>
      BY <1>2, Collected
    <2>2. Sorted' = Sorted /\ Entries' = Entries
      BY <2>1 DEF Sorted, Entries
    <2>3. ASSUME NEW k \in 1..l
          PROVE  /\ table[k].of \in Nat /\ table[k].of # s
                 /\ table[k].number \in Nat /\ table[k].number < counted
      BY <2>1, <2>3, EntryTyped DEF TypeOK
    <2> HIDE DEF l
    <2>4. \A k \in 1..(l + 1) : k = l + 1 \/ k \in 1..l
      BY <2>1
    <2>5. ASSUME NEW k \in 1..(l + 1)
          PROVE  table'[k].number < counted'
      <3>1. CASE k = l + 1
        BY <2>1, <3>1
      <3>2. CASE k \in 1..l
        BY <2>1, <2>3, <3>2
      <3> QED BY <2>4, <3>1, <3>2
    <2>6. ASSUME NEW j \in 1..(l + 1), NEW k \in 1..(l + 1),
                 table'[j].of = table'[k].of
          PROVE  j = k
      <3>1. CASE j \in 1..l /\ k \in 1..l
        BY <2>1, <2>6, <3>1 DEF TableInv, OneEach, l
      <3>2. CASE j = l + 1 /\ k \in 1..l
        BY <2>1, <2>3, <2>6, <3>2
      <3>3. CASE j \in 1..l /\ k = l + 1
        BY <2>1, <2>3, <2>6, <3>3
      <3> QED BY <2>4, <3>1, <3>2, <3>3
    <2>7. ASSUME NEW j \in 1..(l + 1), NEW k \in 1..(l + 1), j < k
          PROVE  /\ table'[j].number < table'[k].number
                 /\ Sorted => table'[j].of < table'[k].of
      <3>1. j \in 1..l
        BY <2>1, <2>7
      <3>2. CASE k \in 1..l
        BY <2>1, <2>7, <3>1, <3>2 DEF TableInv, Numbered, Increasing, l
      <3>3. CASE k = l + 1
        <4>1. table'[j].number < table'[k].number
          BY <2>1, <2>3, <3>1, <3>3
        <4>2. Sorted => table[j].of < s
          BY <2>1, <3>1, MetLast DEF l
        <4> QED BY <2>1, <3>1, <3>3, <4>1, <4>2
      <3> QED BY <2>4, <3>2, <3>3
    <2>8. OneEach(table)'
      BY <2>1, <2>6 DEF OneEach
    <2>9. Numbered(table)' /\ (Sorted => Increasing(table)')
      BY <2>1, <2>7 DEF Numbered, Increasing
    <2> QED BY <2>1, <2>2, <2>5, <2>8, <2>9 DEF TableInv
  <1>3. CASE Export
    <2>1. table' = <<>> /\ Len(table') = 0
      BY <1>3 DEF Export
    <2>2. table' \in Seq(Entries')
      BY <2>1
    <2> QED BY <2>1, <2>2 DEF TableInv, OneEach, Numbered, Increasing
  <1>4. CASE UNCHANGED vars
    BY <1>4 DEF vars, TableInv, OneEach, Numbered, Increasing, Sorted, Entries
  <1> QED BY <1>1, <1>2, <1>3, <1>4, Steps

LEMMA ExportStep == IInv /\ [Next]_vars => ExportInv'
  <1> SUFFICES ASSUME IInv, [Next]_vars
               PROVE  ExportInv'
    OBVIOUS
  <1>1. CASE Export
    <2>1. /\ Len(export') = Len(table) /\ Len(table) \in Nat
          /\ \A k \in 1..Len(table) :
                /\ export'[k].of = table[k].of
                /\ export'[k].number = table[k].number
                /\ table[k].of \in Nat /\ table[k].number \in Nat
      BY <1>1, Exported DEF IInv
    <2> QED BY <2>1 DEF IInv, TableInv, ExportInv, OneEach, Numbered
  <1>2. CASE UNCHANGED export
    BY <1>2 DEF IInv, ExportInv, OneEach, Numbered
  <1> QED BY <1>1, <1>2, Steps DEF Collect, Meet, vars

\* What the labels of an AMD GPU say of its entry.
LEMMA AmdLabels ==
    ASSUME TypeOK, kind = "amd", NEW k \in Nat, NEW e
    PROVE  /\ source = "rocm_smi" =>
                /\ SeriesOf(k, e)[1] = e.number /\ SeriesOf(k, e)[3] = "rocm_smi"
           /\ source = "amdgpu_hwmon" =>
                /\ SeriesOf(k, e)[1] = k - 1 /\ SeriesOf(k, e)[3] = "amdgpu_hwmon"
           /\ SeriesOf(k, e)[3] = source
           /\ source \in {"rocm_smi", "amdgpu_hwmon"}
  <1>1. SeriesOf(k, e) = AmdSeries(k, e)
    BY DEF SeriesOf
  <1>2. CASE source = "rocm_smi"
    BY <1>1, <1>2 DEF AmdSeries
  <1>3. CASE source = "amdgpu_hwmon"
    BY <1>1, <1>3 DEF AmdSeries
  <1> QED BY <1>2, <1>3 DEF TypeOK

LEMMA AmdStep ==
    ASSUME IInv, Export, kind = "amd"
    PROVE  LabelInv' /\ SourceInv'
  <1>1. /\ Len(export') = Len(table) /\ Len(table) \in Nat
        /\ \A k \in 1..Len(table) :
              /\ export'[k].of = table[k].of
              /\ export'[k].number = table[k].number
              /\ export'[k].series = SeriesOf(k, table[k])
    BY Exported DEF IInv
  <1>2. kind' = "amd"
    BY DEF Export
  <1>3. \A k \in 1..Len(table) :
           /\ export'[k].series[3] = source
           /\ source = "rocm_smi" => export'[k].series[1] = export'[k].number
           /\ source = "amdgpu_hwmon" => export'[k].series[1] = k - 1
    <2>1. ASSUME NEW k \in 1..Len(table)
          PROVE  /\ source = "rocm_smi" =>
                       SeriesOf(k, table[k])[1] = table[k].number
                 /\ source = "amdgpu_hwmon" => SeriesOf(k, table[k])[1] = k - 1
                 /\ SeriesOf(k, table[k])[3] = source
      <3>1. k \in Nat
        BY <1>1
      <3> QED BY <3>1, AmdLabels DEF IInv
    <2> QED BY <1>1, <2>1
  <1>4. CASE source = "rocm_smi"
    BY <1>1, <1>2, <1>3, <1>4 DEF LabelInv, SourceInv
  <1>5. CASE source = "amdgpu_hwmon"
    <2>1. Increasing(table)
      BY <1>5 DEF IInv, TableInv, Sorted
    <2>2. Increasing(export)'
      BY <1>1, <2>1 DEF Increasing
    <2> QED BY <1>1, <1>2, <1>3, <1>5, <2>2 DEF LabelInv, SourceInv
  <1> QED BY <1>4, <1>5 DEF IInv, TypeOK

LEMMA LabelStep == IInv /\ [Next]_vars => LabelInv' /\ SourceInv'
  <1> SUFFICES ASSUME IInv, [Next]_vars
               PROVE  LabelInv' /\ SourceInv'
    OBVIOUS
  <1>1. kind' = kind /\ kind \in Kinds
    BY Steps DEF IInv, TypeOK, Meet, Collect, Export, vars
  <1>2. CASE Export /\ kind = "amd"
    BY <1>2, AmdStep
  <1>3. CASE Export /\ kind # "amd"
    <2>1. /\ Len(export') = Len(table) /\ Len(table) \in Nat
          /\ \A k \in 1..Len(table) :
                /\ export'[k].of = table[k].of
                /\ export'[k].number = table[k].number
                /\ export'[k].read = table[k].read
                /\ export'[k].series = SeriesOf(k, table[k])
      BY <1>3, Exported DEF IInv
    <2>2. ASSUME NEW k \in 1..Len(table)
          PROVE  SeriesOf(k, table[k]) = SeriesOf(k, export[k])'
      BY <1>1, <1>3, <2>1
         DEF SeriesOf, CoreSeries, ClusterSeries, NvidiaSeries, HwmonSeries,
             ZoneSeries, Id, Shown, Kinds
    <2> QED BY <1>1, <1>3, <2>1, <2>2 DEF LabelInv, SourceInv
  <1>4. CASE UNCHANGED export
    <2>1. CASE kind = "amd"
      BY <1>1, <1>4, <2>1 DEF IInv, LabelInv, SourceInv, Increasing
    <2>2. CASE kind # "amd"
      <3>1. ASSUME NEW k \in 1..Len(export)
            PROVE  SeriesOf(k, export[k]) = SeriesOf(k, export[k])'
        BY <1>1, <1>4, <2>2
           DEF SeriesOf, CoreSeries, ClusterSeries, NvidiaSeries, HwmonSeries,
               ZoneSeries, Id, Shown, Kinds
      <3> QED BY <1>1, <1>4, <2>2, <3>1 DEF IInv, LabelInv, SourceInv
    <2> QED BY <2>1, <2>2
  <1> QED BY <1>2, <1>3, <1>4, Steps DEF Meet, Collect, vars

\* The inductive invariant holds at all times.
THEOREM Invariant == Spec => []IInv
  <1>1. IInv /\ [Next]_vars => IInv'
    BY TypeStep, MetStep, TableStep, ExportStep, LabelStep DEF IInv
  <1> QED BY <1>1, InvInit, PTL DEF Spec

\* Every variable keeps its type, and no entry is of a sensor not yet met.
THEOREM TypeCorrect == Spec => []TypeOK
  <1>1. IInv => TypeOK
    BY DEF IInv
  <1> QED BY <1>1, Invariant, PTL

-------------------------------------------------------------------------------
(* The properties *)

LEMMA Distinct == IInv => SeriesAreDistinct
  <1> SUFFICES ASSUME IInv, kind \notin {"core", "hwmon"},
                      NEW j \in 1..Len(export), NEW k \in 1..Len(export),
                      export[j].series = export[k].series
               PROVE  j = k
    BY DEF SeriesAreDistinct
  <1>1. j \in Nat /\ k \in Nat
    BY DEF IInv, ExportInv
  <1>2. export[j].number = export[k].number => j = k
    <2>1. export[j].number \in Nat /\ export[k].number \in Nat
      BY DEF IInv, ExportInv
    <2> QED BY <1>1, <2>1 DEF IInv, ExportInv, Numbered
  <1>3. CASE kind = "amd"
    BY <1>1, <1>2, <1>3 DEF IInv, LabelInv
  <1>4. CASE kind \in {"cluster", "zone"}
    <2>1. export[j].of \in Sensor /\ export[k].of \in Sensor
      BY DEF IInv, TypeOK
    <2>2. SeriesOf(j, export[j]) = SeriesOf(k, export[k])
      BY <1>4 DEF IInv, LabelInv
    <2>3. export[j].of = export[k].of
      BY <1>4, <2>1, <2>2, SeriesTell
    <2> QED BY <2>3 DEF IInv, ExportInv, OneEach
  <1>5. CASE kind = "nvidia"
    <2>1. SeriesOf(j, export[j]) = SeriesOf(k, export[k])
      BY <1>5 DEF IInv, LabelInv
    <2> QED BY <1>2, <1>5, <2>1 DEF SeriesOf, NvidiaSeries
  <1> QED BY <1>3, <1>4, <1>5 DEF IInv, TypeOK, Kinds

\* No two sensors of one export share a series.
THEOREM DistinctCorrect == Spec => []SeriesAreDistinct
  BY Distinct, Invariant, PTL

\* Two exports of the amdgpu fallback with the same GPUs have them at the same
\* places.
LEMMA PlacesKept ==
    ASSUME IInv, IInv', Increasing(export), Increasing(export)',
           Sensors(export) = Sensors(export)',
           NEW k \in 1..Len(export), k \in 1..Len(export')
    PROVE  export[k].of = export'[k].of
  <1>1. PICK l, m : l = Len(export) /\ m = Len(export')
    OBVIOUS
  <1>2. PICK a : a = [i \in 1..Len(export) |-> export[i].of]
    OBVIOUS
  <1>3. PICK b : b = [i \in 1..Len(export') |-> export'[i].of]
    OBVIOUS
  <1>4. l \in Nat /\ m \in Nat
    BY <1>1 DEF IInv, ExportInv
  <1>5. Ascending(a, l) /\ Ascending(b, m)
    BY <1>1, <1>2, <1>3 DEF IInv, ExportInv, Increasing, Ascending
  <1>6. Within(a, l, b, m)
    <2>1. ASSUME NEW i \in 1..l
          PROVE  \E j \in 1..m : b[j] = a[i]
      <3>1. export[i].of \in Sensors(export)'
        BY <1>1 DEF Sensors
      <3> QED BY <1>1, <1>2, <1>3, <3>1 DEF Sensors
    <2> QED BY <2>1 DEF Within
  <1>7. Within(b, m, a, l)
    <2>1. ASSUME NEW i \in 1..m
          PROVE  \E j \in 1..l : a[j] = b[i]
      <3>1. export'[i].of \in Sensors(export)
        BY <1>1 DEF Sensors
      <3> QED BY <1>1, <1>2, <1>3, <3>1 DEF Sensors
    <2> QED BY <2>1 DEF Within
  <1>8. a[k] = b[k]
    BY <1>1, <1>4, <1>5, <1>6, <1>7, IncreasingAgree
  <1> QED BY <1>2, <1>3, <1>8

LEMMA KeepTheirSensor ==
    ASSUME IInv, IInv', [Next]_vars, kind \notin {"core", "hwmon"},
           NEW j \in 1..Len(export), NEW k \in 1..Len(export'),
           export[j].series = export'[k].series
    PROVE  \/ export[j].of = export'[k].of
           \/ kind = "nvidia" /\ "uuid" \notin export[j].read
           \/ kind = "amd" /\ source = "rocm_smi"
           \/ kind = "amd" /\ Sensors(export) # Sensors(export')
  <1>1. CASE UNCHANGED export
    BY <1>1, Distinct DEF SeriesAreDistinct
  <1>2. CASE Export
    <2>1. /\ k \in 1..Len(table) /\ export'[k].of = table[k].of
          /\ export[j].series = SeriesOf(k, table[k])
      BY <1>2, Exported DEF IInv
    <2>2. j \in Nat /\ k \in Nat
      BY DEF IInv, ExportInv
    <2>3. CASE kind = "amd"
      <3>1. SUFFICES ASSUME source = "amdgpu_hwmon",
                            Sensors(export) = Sensors(export')
                     PROVE  export[j].of = export'[k].of
        BY <2>3 DEF IInv, TypeOK
      <3>2. /\ export[j].series[1] = k - 1 /\ export[j].series[3] = "amdgpu_hwmon"
            /\ export'[k].series[3] = "amdgpu_hwmon"
        BY <2>1, <2>2, <2>3, <3>1, AmdLabels DEF IInv
      <3>3. export[j].series[1] = j - 1 /\ Increasing(export)
        BY <2>3, <3>2 DEF IInv, LabelInv
      <3>4. Increasing(export)'
        BY <1>2, <2>3, <3>2 DEF IInv, LabelInv, Export
      <3>5. j = k
        BY <2>2, <3>2, <3>3
      <3> QED BY <3>1, <3>3, <3>4, <3>5, PlacesKept
    <2>4. CASE kind # "amd"
      <3>1. SeriesOf(j, export[j]) = SeriesOf(k, table[k])
        BY <2>1, <2>4 DEF IInv, LabelInv
      <3>2. export[j].of \in Sensor /\ table[k].of \in Sensor
        BY <2>1 DEF IInv, TypeOK
      <3>3. CASE kind \in {"cluster", "zone"}
        BY <2>1, <3>1, <3>2, <3>3, SeriesTell
      <3>4. CASE kind = "nvidia"
        BY <2>1, <3>1, <3>2, <3>4, GpuTell
      <3> QED BY <2>4, <3>3, <3>4 DEF IInv, TypeOK, Kinds
    <2> QED BY <2>3, <2>4
  <1> QED BY <1>1, <1>2, Steps DEF Meet, Collect, vars

\* A series of a zone or a cluster never passes to another sensor, nor one of an
\* NVIDIA GPU whose uuid was read, nor one of the amdgpu fallback while the same
\* GPUs are there.
THEOREM SeriesKept == Spec => SeriesKeepTheirSensor
  <1>1. IInv /\ [Next]_vars => IInv'
    BY TypeStep, MetStep, TableStep, ExportStep, LabelStep DEF IInv
  <1>2. IInv /\ [Next]_vars =>
           (kind \notin {"core", "hwmon"} =>
              \A j \in 1..Len(export) : \A k \in 1..Len(export') :
                 export[j].series = export'[k].series =>
                     \/ export[j].of = export'[k].of
                     \/ kind = "nvidia" /\ "uuid" \notin export[j].read
                     \/ kind = "amd" /\ source = "rocm_smi"
                     \/ kind = "amd" /\ Sensors(export) # Sensors(export'))
    BY <1>1, KeepTheirSensor
  <1> QED BY <1>2, Invariant, PTL DEF Spec, SeriesKeepTheirSensor

LEMMA KeepTheirSeries ==
    ASSUME IInv, [Next]_vars, kind # "amd",
           NEW j \in 1..Len(export), NEW k \in 1..Len(export'),
           export[j].of = export'[k].of, export[j].read = export'[k].read
    PROVE  export[j].series = export'[k].series
             <=> /\ kind = "cluster" => j = k
                 /\ kind = "nvidia" => export[j].number = export'[k].number
  <1>1. kind \in Kinds \ {"amd"} /\ j \in Nat
    BY DEF IInv, TypeOK, ExportInv
  <1>2. export[j].series = SeriesOf(j, export[j])
    BY DEF IInv, LabelInv
  <1>3. CASE UNCHANGED export
    <2>1. k \in Nat /\ export'[k].series = SeriesOf(k, export[k])
      BY <1>3 DEF IInv, LabelInv, ExportInv
    <2> QED BY <1>1, <1>2, <1>3, <2>1, SeriesMade
  <1>4. CASE Export
    <2>1. /\ k \in Nat /\ export'[k].series = SeriesOf(k, table[k])
          /\ export[j].of = table[k].of /\ export[j].read = table[k].read
          /\ export'[k].number = table[k].number
      BY <1>4, Exported DEF IInv
    <2> QED BY <1>1, <1>2, <2>1, SeriesMade
  <1> QED BY <1>3, <1>4, Steps DEF Meet, Collect, vars

\* A sensor keeps its series while its texts are read, a cluster as long as its
\* place in the table is the same, an NVIDIA GPU as long as its number is.
THEOREM SensorsKept == Spec => SensorsKeepTheirSeries
  <1>1. IInv /\ [Next]_vars =>
           (kind # "amd" =>
              \A j \in 1..Len(export) : \A k \in 1..Len(export') :
                 export[j].of = export'[k].of /\ export[j].read = export'[k].read =>
                     (export[j].series = export'[k].series
                        <=> /\ kind = "cluster" => j = k
                            /\ kind = "nvidia" =>
                                  export[j].number = export'[k].number))
    BY KeepTheirSeries
  <1> QED BY <1>1, Invariant, PTL DEF Spec, SensorsKeepTheirSeries

===============================================================================
