------------------------------ MODULE Amd_proofs -------------------------------
(***************************************************************************)
(* Proofs about Amd.tla, for any cards, any numbering by ROCm SMI and a    *)
(* table of any size.  The invariant says for each place of the collector  *)
(* which source the entries are from, and how many sessions are open.      *)
(***************************************************************************)
EXTENDS Amd, TLAPS

\* Places in the list that the loop goes through.
PlaceInv ==
    /\ pc = "devices" => left \subseteq 1..Len(devices)
    /\ pc = "cards" => left \subseteq 1..Len(Cards)

AllFrom(source) == \A k \in 1..Len(gpus) : gpus[k].source = source

\* A loop starts on an empty table; the bit is set behind it.
SourceInv ==
    /\ pc \in {"load", "init", "count", "glob"} => gpus = <<>>
    /\ pc \in {"load", "init", "count", "glob", "devices", "cards"} =>
          capabilities = {}
    /\ pc \in {"devices", "shutdown"} => AllFrom("rocm_smi")
    /\ pc = "cards" => AllFrom("amdgpu_hwmon")
    /\ pc = "shutdown" =>
          capabilities = IF gpus = <<>> THEN {} ELSE {"rocm_smi"}
    /\ OneSource

InSession == {"count", "devices", "shutdown"}

\* A count fails at most once per snapshot.
FailureInv ==
    failures + (IF pc \in InSession \cup {"load", "init"} THEN 1 ELSE 0) <= n

\* The entries of a table t are of these places of the list and in their order,
\* none behind a place in rest, and every place outside rest has one.
Follows(t, list, places, rest) ==
    /\ \A m \in 1..Len(t) : \E k \in places :
          t[m].gpu = list[k] /\ \A r \in rest : k < r
    /\ \A l, m \in 1..Len(t) : l < m =>
          \E j, k \in places : j < k /\ t[l].gpu = list[j] /\ t[m].gpu = list[k]
    /\ \A k \in places : k \in rest \/ \E m \in 1..Len(t) : t[m].gpu = list[k]

\* A library that works does so at each of its calls, while nothing changes.
RouteInv ==
    steady =>
        /\ pc \in {"devices", "shutdown"} => rsmi = "up"
        /\ pc \in {"glob", "cards"} => rsmi # "up"

\* While nothing changes, the loop has left no GPU out, and its end leaves none.
ListInv ==
    steady =>
        /\ pc = "devices" => Follows(gpus, devices, 1..Len(devices), left)
        /\ pc = "cards" => Follows(gpus, Cards, OfAmdgpu, left)
        /\ pc = "shutdown" => ListsFirst(devices, 1..Len(devices))
        /\ SteadyTableComplete

IInv ==
    /\ TypeOK /\ PlaceInv /\ SourceInv /\ FailureInv
    /\ LeaksAreFailedCounts
    /\ RouteInv /\ ListInv

-------------------------------------------------------------------------------
(* Entries *)

LEMMA AppendOne ==
    ASSUME NEW S, NEW s \in Seq(S), NEW e \in S
    PROVE  /\ Append(s, e) \in Seq(S)
           /\ Len(Append(s, e)) = Len(s) + 1
           /\ Append(s, e)[Len(s) + 1] = e
           /\ \A k \in 1..Len(s) : Append(s, e)[k] = s[k]
  OBVIOUS

LEMMA EmptyTable == <<>> \in Seq(Entry) /\ Len(<<>>) = 0
  OBVIOUS

LEMMA CardOfPlace ==
    ASSUME TypeOK
    PROVE  /\ \A k \in 1..Len(devices) : devices[k] \in Card
           /\ \A k \in 1..Len(Cards) : Cards[k] \in Card
  <1>1. devices \in Seq(Card)
    BY AmdAssumption DEF TypeOK
  <1> QED BY <1>1 DEF Card

NewEntry(source, index, card) ==
    [gpu_index |-> index, gpu |-> card, source |-> source]

\* An entry that fits: the table stays in its type and within its limit, and
\* if it was from one source before, it still is.
LEMMA Added ==
    ASSUME TypeOK, Len(gpus) < MaxGpus, NEW source \in Source, NEW index \in Nat,
           NEW card \in Card, AddGpu(source, index, card)
    PROVE  /\ \E e \in Entry : gpus' = Append(gpus, e)
           /\ gpus' \in Seq(Entry) /\ Len(gpus') <= MaxGpus /\ gpus' # <<>>
           /\ AllFrom(source) => AllFrom(source)'
  <1> DEFINE e == NewEntry(source, index, card)
  <1>1. e \in Entry /\ e.source = source
    BY DEF NewEntry, Entry
  <1>2. gpus' = Append(gpus, e)
    BY DEF AddGpu, NewEntry
  <1>3. gpus \in Seq(Entry) /\ Len(gpus) \in Nat /\ MaxGpus \in Nat
    BY AmdAssumption DEF TypeOK
  <1> HIDE DEF e
  <1>4. /\ gpus' \in Seq(Entry) /\ Len(gpus') = Len(gpus) + 1
        /\ gpus'[Len(gpus) + 1] = e
        /\ \A k \in 1..Len(gpus) : gpus'[k] = gpus[k]
    BY <1>1, <1>2, <1>3, AppendOne
  <1>5. Len(gpus') <= MaxGpus /\ gpus' # <<>>
    BY <1>3, <1>4
  <1>6. ASSUME AllFrom(source)
        PROVE  \A k \in 1..Len(gpus') : gpus'[k].source = source
    BY <1>1, <1>3, <1>4, <1>6 DEF AllFrom
  <1> QED BY <1>1, <1>2, <1>4, <1>5, <1>6 DEF AllFrom

LEMMA DeviceAdded ==
    ASSUME TypeOK, PlaceInv, NEW k \in left, RsmiDevice(k)
    PROVE  /\ \E e \in Entry : gpus' = Append(gpus, e)
           /\ gpus' \in Seq(Entry) /\ Len(gpus') <= MaxGpus
           /\ AllFrom("rocm_smi") => AllFrom("rocm_smi")'
  <1>1. k \in 1..Len(devices) /\ Len(devices) \in Nat
    BY AmdAssumption DEF PlaceInv, RsmiDevice, TypeOK
  <1>2. k - 1 \in Nat /\ devices[k] \in Card
    BY <1>1, CardOfPlace
  <1>3. Len(gpus) < MaxGpus /\ AddGpu("rocm_smi", k - 1, devices[k])
    BY DEF RsmiDevice, More
  <1>4. "rocm_smi" \in Source
    BY DEF Source
  <1> QED BY <1>2, <1>3, <1>4, Added

LEMMA CardAdded ==
    ASSUME TypeOK, PlaceInv, NEW k \in left, ReadCard(k), gpus' # gpus
    PROVE  /\ \E e \in Entry : gpus' = Append(gpus, e)
           /\ gpus' \in Seq(Entry) /\ Len(gpus') <= MaxGpus
           /\ AllFrom("amdgpu_hwmon") => AllFrom("amdgpu_hwmon")'
  <1>1. k \in 1..Len(Cards)
    BY DEF PlaceInv, ReadCard
  <1>2. Len(gpus) \in Nat /\ Cards[k] \in Card
    BY <1>1, CardOfPlace DEF TypeOK
  <1>3. Len(gpus) < MaxGpus /\ AddGpu("amdgpu_hwmon", Len(gpus), Cards[k])
    BY DEF ReadCard, More
  <1>4. "amdgpu_hwmon" \in Source
    BY DEF Source
  <1> QED BY <1>2, <1>3, <1>4, Added

\* The steps that leave the table alone.
LEMMA TableKept ==
    ASSUME [Next]_vars
    PROVE  Begin \/ (\E k \in left : RsmiDevice(k) \/ ReadCard(k)) \/ gpus' = gpus
  BY DEF Next, vars, host, Begin, LoadRsmi, RsmiInit,
           RsmiCounts, RsmiCountFails, RsmiDevice, EndDevices, RsmiShutDown,
           GlobCards, ReadCard, EndCards, LibraryChanges, CardChanges

-------------------------------------------------------------------------------
(* Each part of the invariant, step by step *)

LEMMA TableTyped ==
    ASSUME TypeOK, PlaceInv, [Next]_vars
    PROVE  gpus' \in Seq(Entry) /\ Len(gpus') <= MaxGpus
  <1>1. CASE Begin
    BY <1>1, EmptyTable, AmdAssumption DEF Begin
  <1>2. CASE \E k \in left : RsmiDevice(k)
    BY <1>2, DeviceAdded
  <1>3. CASE \E k \in left : ReadCard(k)
    BY <1>3, CardAdded DEF TypeOK
  <1>4. CASE gpus' = gpus
    BY <1>4 DEF TypeOK
  <1> QED BY <1>1, <1>2, <1>3, <1>4, TableKept

LEMMA HostTyped ==
    ASSUME TypeOK, [Next]_vars
    PROVE  /\ rsmi' \in Library /\ devices' = devices
           /\ sysfs' \in [Card -> NameFile] /\ steady' \in BOOLEAN
  <1>1. CASE \E c \in Card : CardChanges(c)
    BY <1>1 DEF TypeOK, CardChanges
  <1>2. CASE ~\E c \in Card : CardChanges(c)
    BY <1>2 DEF TypeOK, Library, Next, vars, host, Begin, LoadRsmi, RsmiInit,
           RsmiCounts, RsmiCountFails, RsmiDevice, EndDevices, RsmiShutDown,
           GlobCards, ReadCard, EndCards, LibraryChanges, CardChanges
  <1> QED BY <1>1, <1>2

LEMMA ControlTyped ==
    ASSUME TypeOK, [Next]_vars
    PROVE  /\ pc' \in {"load", "init", "count", "devices", "shutdown", "glob",
                      "cards", "done"}
           /\ capabilities' \subseteq Source
  <1>1. pc' \in {"load", "init", "count", "devices", "shutdown", "glob", "cards",
               "done"}
    BY DEF TypeOK, Next, vars, host, Begin, LoadRsmi, RsmiInit,
           RsmiCounts, RsmiCountFails, RsmiDevice, EndDevices, RsmiShutDown,
           GlobCards, ReadCard, EndCards, LibraryChanges, CardChanges
  <1>2. capabilities' \subseteq Source
    BY DEF TypeOK, Source, Next, vars, host, Begin, LoadRsmi, RsmiInit,
           RsmiCounts, RsmiCountFails, RsmiDevice, EndDevices, RsmiShutDown,
           GlobCards, ReadCard, EndCards, LibraryChanges, CardChanges
  <1> QED BY <1>1, <1>2

LEMMA PlacesTyped ==
    ASSUME TypeOK, [Next]_vars
    PROVE  left' \subseteq Nat \ {0}
  <1>1. CASE RsmiCounts
    BY <1>1, AmdAssumption DEF RsmiCounts, TypeOK
  <1>2. CASE GlobCards
    BY <1>2, AmdAssumption DEF GlobCards
  <1>3. CASE ~RsmiCounts /\ ~GlobCards
    <2>1. left' \subseteq left
      BY <1>3 DEF Next, vars, host, Begin, LoadRsmi, RsmiInit,
           RsmiCounts, RsmiCountFails, RsmiDevice, EndDevices, RsmiShutDown,
           GlobCards, ReadCard, EndCards, LibraryChanges, CardChanges
    <2> QED BY <2>1 DEF TypeOK
  <1> QED BY <1>1, <1>2, <1>3

LEMMA PlaceStep ==
    ASSUME TypeOK, PlaceInv, [Next]_vars
    PROVE  PlaceInv'
  <1>1. devices' = devices
    BY HostTyped
  <1>2. CASE RsmiCounts
    BY <1>1, <1>2 DEF RsmiCounts, PlaceInv
  <1>3. CASE GlobCards
    BY <1>3 DEF GlobCards, PlaceInv
  <1>4. CASE ~RsmiCounts /\ ~GlobCards
    <2>1. /\ left' \subseteq left
          /\ pc' = "devices" => pc = "devices"
          /\ pc' = "cards" => pc = "cards"
      BY <1>4 DEF Next, vars, host, Begin, LoadRsmi, RsmiInit,
           RsmiCounts, RsmiCountFails, RsmiDevice, EndDevices, RsmiShutDown,
           GlobCards, ReadCard, EndCards, LibraryChanges, CardChanges
    <2> QED BY <1>1, <2>1 DEF PlaceInv
  <1> QED BY <1>2, <1>3, <1>4

\* How the counters move, by the place the step goes to.
LEMMA CountersMove ==
    ASSUME [Next]_vars
    PROVE  \/ /\ pc = "done" /\ pc' = "load" /\ n < MaxSnapshots /\ n' = n + 1
             /\ sessions' = sessions /\ failures' = failures
          \/ /\ pc = "init" /\ pc' = "count" /\ sessions' = sessions + 1
             /\ n' = n /\ failures' = failures
          \/ /\ pc = "count" /\ pc' = "glob" /\ failures' = failures + 1
             /\ n' = n /\ sessions' = sessions
          \/ /\ pc = "shutdown" /\ pc' = "done" /\ sessions' = sessions - 1
             /\ n' = n /\ failures' = failures
          \/ /\ n' = n /\ sessions' = sessions /\ failures' = failures
             /\ pc' \in InSession <=> pc \in InSession
             /\ pc' \in {"load", "init"} => pc \in {"load", "init"}
  BY DEF InSession, Next, vars, host, Begin, LoadRsmi, RsmiInit,
           RsmiCounts, RsmiCountFails, RsmiDevice, EndDevices, RsmiShutDown,
           GlobCards, ReadCard, EndCards, LibraryChanges, CardChanges

LEMMA SumsBounded ==
    ASSUME NEW f \in Nat, NEW m \in Nat, NEW o \in 0..1, NEW d \in 0..1,
           o <= d, f + d <= m
    PROVE  f + o \in 0..m /\ f \in 0..m
  OBVIOUS

LEMMA CounterStep ==
    ASSUME TypeOK, FailureInv, LeaksAreFailedCounts, [Next]_vars
    PROVE  /\ n' \in 0..MaxSnapshots /\ failures' \in 0..MaxSnapshots
           /\ sessions' \in 0..MaxSnapshots
           /\ FailureInv' /\ LeaksAreFailedCounts'
  <1> DEFINE open == IF pc \in InSession THEN 1 ELSE 0
             due == IF pc \in InSession \cup {"load", "init"} THEN 1 ELSE 0
  <1>1. /\ n \in Nat /\ failures \in Nat /\ sessions \in Nat
        /\ n <= MaxSnapshots /\ MaxSnapshots \in Nat
    BY AmdAssumption DEF TypeOK
  <1>2. sessions = failures + open /\ failures + due <= n
    BY <1>1 DEF LeaksAreFailedCounts, FailureInv, InSession
  <1>3. open \in 0..1 /\ due \in 0..1 /\ open' \in 0..1 /\ due' \in 0..1
        /\ open' <= due'
    OBVIOUS
  <1>4. \/ /\ open' = open /\ due' = due + 1 /\ n < MaxSnapshots /\ n' = n + 1
           /\ sessions' = sessions /\ failures' = failures
        \/ /\ open' = open + 1 /\ due' = due /\ sessions' = sessions + 1
           /\ n' = n /\ failures' = failures
        \/ /\ open' = open - 1 /\ due' = due - 1 /\ failures' = failures + 1
           /\ n' = n /\ sessions' = sessions
        \/ /\ open' = open - 1 /\ due' = due - 1 /\ sessions' = sessions - 1
           /\ n' = n /\ failures' = failures
        \/ /\ n' = n /\ sessions' = sessions /\ failures' = failures
           /\ open' = open /\ due' <= due
    BY CountersMove DEF InSession
  <1> HIDE DEF open, due
  <1>5. /\ n' \in Nat /\ failures' \in Nat /\ n' <= MaxSnapshots
        /\ sessions' = failures' + open' /\ failures' + due' <= n'
    BY <1>1, <1>2, <1>3, <1>4
  <1>6. /\ n' \in 0..MaxSnapshots /\ failures' \in 0..MaxSnapshots
        /\ sessions' \in 0..MaxSnapshots
    <2>1. sessions' \in 0..n' /\ failures' \in 0..n'
      BY <1>3, <1>5, SumsBounded
    <2> QED BY <1>1, <1>5, <2>1
  <1>7. LeaksAreFailedCounts'
    BY <1>5 DEF LeaksAreFailedCounts, InSession, open
  <1>8. FailureInv'
    BY <1>5 DEF FailureInv, InSession, due
  <1> QED BY <1>6, <1>7, <1>8

LEMMA TypeStep ==
    ASSUME IInv, [Next]_vars
    PROVE  TypeOK'
  <1>1. TypeOK /\ PlaceInv /\ FailureInv /\ LeaksAreFailedCounts
    BY DEF IInv
  <1>2. devices' \in DeviceOrders
    BY <1>1, HostTyped DEF TypeOK
  <1> QED BY <1>1, <1>2, HostTyped, ControlTyped, PlacesTyped, TableTyped,
             CounterStep DEF TypeOK

LEMMA SourceStep ==
    ASSUME TypeOK, PlaceInv, SourceInv, [Next]_vars
    PROVE  SourceInv'
  <1>1. CASE Begin
    BY <1>1 DEF Begin, SourceInv, OneSource
  <1>2. ASSUME NEW k \in left, RsmiDevice(k)
        PROVE  SourceInv'
    <2>1. pc = "devices" /\ pc' = pc /\ capabilities' = capabilities
      BY <1>2 DEF RsmiDevice
    <2>2. AllFrom("rocm_smi")'
      BY <1>2, <2>1, DeviceAdded DEF SourceInv
    <2> QED BY <2>1, <2>2 DEF SourceInv, OneSource
  <1>3. ASSUME NEW k \in left, ReadCard(k)
        PROVE  SourceInv'
    <2>1. pc = "cards" /\ pc' = pc /\ capabilities' = capabilities
      BY <1>3 DEF ReadCard
    <2>2. AllFrom("amdgpu_hwmon")'
      <3>1. CASE gpus' = gpus
        BY <2>1, <3>1 DEF SourceInv, AllFrom
      <3>2. CASE gpus' # gpus
        BY <1>3, <2>1, <3>2, CardAdded DEF SourceInv
      <3> QED BY <3>1, <3>2
    <2> QED BY <2>1, <2>2 DEF SourceInv, OneSource
  <1>4. CASE EndDevices
    <2>1. /\ pc = "devices" /\ pc' = "shutdown" /\ gpus' = gpus
          /\ capabilities' = IF gpus = <<>> THEN {} ELSE {"rocm_smi"}
      BY <1>4 DEF EndDevices
    <2> QED BY <2>1 DEF SourceInv, OneSource, AllFrom
  <1>5. CASE EndCards
    <2>1. /\ pc = "cards" /\ pc' = "done" /\ gpus' = gpus
          /\ capabilities' = IF gpus = <<>> THEN {} ELSE {"amdgpu_hwmon"}
      BY <1>5 DEF EndCards, SourceInv
    <2>2. AllFrom("amdgpu_hwmon")
      BY <2>1 DEF SourceInv
    <2> QED BY <2>1, <2>2 DEF SourceInv, OneSource, AllFrom, Source
  <1>6. CASE RsmiShutDown
    <2>1. /\ pc = "shutdown" /\ pc' = "done" /\ gpus' = gpus
          /\ capabilities' = capabilities
      BY <1>6 DEF RsmiShutDown
    <2>2. /\ AllFrom("rocm_smi")
          /\ capabilities = IF gpus = <<>> THEN {} ELSE {"rocm_smi"}
      BY <2>1 DEF SourceInv
    <2> QED BY <2>1, <2>2 DEF SourceInv, OneSource, AllFrom, Source
  <1>7. CASE /\ ~Begin /\ ~EndDevices /\ ~EndCards /\ ~RsmiShutDown
             /\ ~\E k \in left : RsmiDevice(k) \/ ReadCard(k)
    <2>1. /\ gpus' = gpus /\ capabilities' = capabilities
          /\ \/ pc' = pc
             \/ /\ pc \in {"load", "init", "count", "glob"}
                /\ pc' \in {"init", "count", "devices", "glob", "cards", "done"}
      BY <1>7 DEF Next, vars, host, Begin, LoadRsmi, RsmiInit,
           RsmiCounts, RsmiCountFails, RsmiDevice, EndDevices, RsmiShutDown,
           GlobCards, ReadCard, EndCards, LibraryChanges, CardChanges
    <2>2. CASE pc' = pc
      BY <2>1, <2>2 DEF SourceInv, OneSource, AllFrom
    <2>3. CASE /\ pc \in {"load", "init", "count", "glob"}
               /\ pc' \in {"init", "count", "devices", "glob", "cards", "done"}
      <3>1. gpus' = <<>> /\ capabilities' = {}
        BY <2>1, <2>3 DEF SourceInv
      <3> QED BY <2>3, <3>1 DEF SourceInv, OneSource, AllFrom
    <2> QED BY <2>1, <2>2, <2>3
  <1> QED BY <1>1, <1>2, <1>3, <1>4, <1>5, <1>6, <1>7

-------------------------------------------------------------------------------
(* The GPUs of a steady snapshot *)

LEMMA FollowsNothing ==
    ASSUME NEW t, t = <<>>, NEW list, NEW places, NEW rest, places \subseteq rest
    PROVE  Follows(t, list, places, rest)
  BY DEF Follows

\* A place that is no GPU's is passed over.
LEMMA FollowsOn ==
    ASSUME NEW t, NEW list, NEW places, NEW rest, NEW k, k \notin places,
           Follows(t, list, places, rest)
    PROVE  Follows(t, list, places, rest \ {k})
  BY DEF Follows

\* The GPU of the next place goes to the end of the table.
LEMMA FollowsAppended ==
    ASSUME NEW t \in Seq(Entry), NEW e \in Entry, NEW list, NEW places \in SUBSET Nat,
           NEW rest \in SUBSET Nat, NEW k \in rest, k \in places, e.gpu = list[k],
           \A r \in rest : k <= r,
           Follows(t, list, places, rest)
    PROVE  Follows(Append(t, e), list, places, rest \ {k})
  <1> DEFINE u == Append(t, e)
  <1>1. /\ Len(t) \in Nat /\ Len(u) = Len(t) + 1 /\ u[Len(t) + 1] = e
        /\ \A m \in 1..Len(t) : u[m] = t[m]
    BY AppendOne
  <1> HIDE DEF u
  <1>2. \A r \in rest \ {k} : k < r
    OBVIOUS
  <1>3. ASSUME NEW m \in 1..Len(u)
        PROVE  \E p \in places : u[m].gpu = list[p] /\ \A r \in rest \ {k} : p < r
    <2>1. CASE m = Len(t) + 1
      BY <1>1, <1>2, <2>1
    <2>2. CASE m \in 1..Len(t)
      BY <1>1, <2>2 DEF Follows
    <2> QED BY <1>1, <2>1, <2>2
  <1>4. ASSUME NEW l \in 1..Len(u), NEW m \in 1..Len(u), l < m
        PROVE  \E j, p \in places : j < p /\ u[l].gpu = list[j] /\ u[m].gpu = list[p]
    <2>1. l \in 1..Len(t)
      BY <1>1, <1>4
    <2>2. CASE m = Len(t) + 1
      <3>1. PICK j \in places : t[l].gpu = list[j] /\ \A r \in rest : j < r
        BY <2>1 DEF Follows
      <3>2. j < k /\ u[l].gpu = list[j] /\ u[m].gpu = list[k]
        <4>1. j < k
          BY <3>1
        <4>2. u[l] = t[l] /\ u[m] = e
          BY <1>1, <2>1, <2>2
        <4> QED BY <3>1, <4>1, <4>2
      <3> QED BY <3>2
    <2>3. CASE m \in 1..Len(t)
      <3>1. PICK j \in places, p \in places :
               j < p /\ t[l].gpu = list[j] /\ t[m].gpu = list[p]
        BY <1>4, <2>1, <2>3 DEF Follows
      <3>2. u[l] = t[l] /\ u[m] = t[m]
        BY <1>1, <2>1, <2>3
      <3> QED BY <3>1, <3>2
    <2> QED BY <1>1, <2>2, <2>3
  <1>5. ASSUME NEW p \in places
        PROVE  p \in rest \ {k} \/ \E m \in 1..Len(u) : u[m].gpu = list[p]
    <2>1. CASE p = k
      <3>1. Len(t) + 1 \in 1..Len(u) /\ u[Len(t) + 1].gpu = list[p]
        BY <1>1, <2>1
      <3> QED BY <3>1
    <2>2. CASE p # k /\ p \notin rest
      <3>1. PICK m \in 1..Len(t) : t[m].gpu = list[p]
        BY <2>2 DEF Follows
      <3>2. m \in 1..Len(u) /\ u[m].gpu = list[p]
        BY <1>1, <3>1
      <3> QED BY <3>2
    <2> QED BY <2>1, <2>2
  <1> QED BY <1>3, <1>4, <1>5 DEF Follows, u

\* At the end of the loop no place is left, or no room.
LEMMA FollowedToTheEnd ==
    ASSUME NEW list, NEW places \in SUBSET Nat,
           \A j, k \in places : list[j] = list[k] => j = k,
           Follows(gpus, list, places, left), left = {} \/ Len(gpus) = MaxGpus
    PROVE  ListsFirst(list, places)
  <1>1. ASSUME NEW j \in places, NEW k \in places, j < k, HasEntry(list[k])
        PROVE  HasEntry(list[j])
    <2>1. PICK m \in 1..Len(gpus) : gpus[m].gpu = list[k]
      BY <1>1 DEF HasEntry
    <2>2. PICK p \in places : gpus[m].gpu = list[p] /\ \A r \in left : p < r
      BY DEF Follows
    <2>3. p = k
      BY <2>1, <2>2
    <2>4. j \notin left
      BY <1>1, <2>2, <2>3
    <2> QED BY <2>4 DEF Follows, HasEntry
  <1>2. Len(gpus) = MaxGpus \/ \A k \in places : HasEntry(list[k])
    BY DEF Follows, HasEntry
  <1> QED BY <1>1, <1>2 DEF Follows, ListsFirst

LEMMA SteadyMoves ==
    ASSUME [Next]_vars, steady'
    PROVE  Begin \/ (steady /\ UNCHANGED <<rsmi, devices, sysfs>>)
  BY DEF Next, vars, host, Begin, LoadRsmi, RsmiInit,
           RsmiCounts, RsmiCountFails, RsmiDevice, EndDevices, RsmiShutDown,
           GlobCards, ReadCard, EndCards, LibraryChanges, CardChanges

LEMMA RouteStep ==
    ASSUME TypeOK, RouteInv, [Next]_vars
    PROVE  RouteInv'
  <1> SUFFICES ASSUME steady'
               PROVE  /\ pc' \in {"devices", "shutdown"} => rsmi' = "up"
                      /\ pc' \in {"glob", "cards"} => rsmi' # "up"
    BY DEF RouteInv
  <1>1. CASE Begin
    BY <1>1 DEF Begin
  <1>2. CASE steady /\ UNCHANGED <<rsmi, devices, sysfs>>
    <2>1. /\ pc' \in {"devices", "shutdown"} =>
                pc \in {"devices", "shutdown"} \/ rsmi = "up"
          /\ pc' \in {"glob", "cards"} => pc \in {"glob", "cards"} \/ rsmi # "up"
      BY DEF TypeOK, Library, Next, vars, host, Begin, LoadRsmi, RsmiInit,
           RsmiCounts, RsmiCountFails, RsmiDevice, EndDevices, RsmiShutDown,
           GlobCards, ReadCard, EndCards, LibraryChanges, CardChanges
    <2> QED BY <1>2, <2>1 DEF RouteInv
  <1> QED BY <1>1, <1>2, SteadyMoves

\* The two loops append the GPU of the place they are at.
LEMMA LoopMoves ==
    ASSUME TypeOK, PlaceInv, NEW k \in left, RsmiDevice(k) \/ ReadCard(k),
           gpus' # gpus
    PROVE  \E e \in Entry :
              /\ gpus' = Append(gpus, e)
              /\ e.gpu = IF pc = "devices" THEN devices[k] ELSE Cards[k]
  <1>1. CASE RsmiDevice(k)
    <2>1. k \in 1..Len(devices) /\ Len(devices) \in Nat
      BY <1>1, AmdAssumption DEF PlaceInv, RsmiDevice, TypeOK
    <2>2. k - 1 \in Nat /\ devices[k] \in Card
      BY <2>1, CardOfPlace
    <2> DEFINE e == NewEntry("rocm_smi", k - 1, devices[k])
    <2>3. e \in Entry /\ e.gpu = devices[k] /\ gpus' = Append(gpus, e)
      BY <1>1, <2>2 DEF RsmiDevice, AddGpu, NewEntry, Entry, Source
    <2> QED BY <1>1, <2>3 DEF RsmiDevice
  <1>2. CASE ReadCard(k)
    <2>1. k \in 1..Len(Cards)
      BY <1>2 DEF PlaceInv, ReadCard
    <2>2. Len(gpus) \in Nat /\ Cards[k] \in Card
      BY <2>1, CardOfPlace DEF TypeOK
    <2> DEFINE e == NewEntry("amdgpu_hwmon", Len(gpus), Cards[k])
    <2>3. e \in Entry /\ e.gpu = Cards[k] /\ gpus' = Append(gpus, e)
      BY <1>2, <2>2 DEF ReadCard, AddGpu, NewEntry, Entry, Source
    <2> QED BY <1>2, <2>3 DEF ReadCard
  <1> QED BY <1>1, <1>2

LEMMA PlacesDistinct ==
    ASSUME TypeOK
    PROVE  /\ 1..Len(devices) \in SUBSET Nat
           /\ \A j, k \in 1..Len(devices) : devices[j] = devices[k] => j = k
           /\ OfAmdgpu \in SUBSET Nat
           /\ \A j, k \in OfAmdgpu : Cards[j] = Cards[k] => j = k
  <1>1. Distinct(devices) /\ Distinct(Cards)
    BY AmdAssumption DEF TypeOK
  <1>2. Len(devices) \in Nat /\ Len(Cards) \in Nat
    BY AmdAssumption DEF TypeOK
  <1> QED BY <1>1, <1>2 DEF Distinct, OfAmdgpu

LEMMA ListKept ==
    ASSUME UNCHANGED <<devices, sysfs, gpus>>
    PROVE  /\ ListsFirst(devices, 1..Len(devices))' <=>
                 ListsFirst(devices, 1..Len(devices))
           /\ ListsFirst(Cards, OfAmdgpu)' <=> ListsFirst(Cards, OfAmdgpu)
  <1>1. OfAmdgpu' = OfAmdgpu
    BY DEF OfAmdgpu
  <1> QED BY <1>1 DEF ListsFirst, HasEntry

\* The end of a loop.
LEMMA LoopEnds ==
    ASSUME TypeOK, ~More
    PROVE  left = {} \/ Len(gpus) = MaxGpus
  BY AmdAssumption DEF TypeOK, More

LEMMA ListStep ==
    ASSUME IInv, [Next]_vars
    PROVE  ListInv'
  <1> SUFFICES ASSUME steady'
               PROVE  /\ pc' = "devices" =>
                            Follows(gpus, devices, 1..Len(devices), left)'
                      /\ pc' = "cards" => Follows(gpus, Cards, OfAmdgpu, left)'
                      /\ pc' = "shutdown" => ListsFirst(devices, 1..Len(devices))'
                      /\ SteadyTableComplete'
    BY DEF ListInv
  <1>1. CASE Begin
    BY <1>1 DEF Begin, SteadyTableComplete
  <1>2. CASE ~Begin
    <2>1. steady /\ UNCHANGED <<rsmi, devices, sysfs>>
      BY <1>2, SteadyMoves
    <2>2. /\ TypeOK /\ PlaceInv /\ SourceInv
          /\ pc = "devices" => Follows(gpus, devices, 1..Len(devices), left)
          /\ pc = "cards" => Follows(gpus, Cards, OfAmdgpu, left)
          /\ pc = "shutdown" => ListsFirst(devices, 1..Len(devices)) /\ rsmi = "up"
          /\ pc \in {"glob", "cards"} => rsmi # "up"
          /\ SteadyTableComplete
      BY <2>1 DEF IInv, ListInv, RouteInv
    <2>3. OfAmdgpu' = OfAmdgpu
      BY <2>1 DEF OfAmdgpu
    <2>4. CASE RsmiCounts
      <3>1. pc' = "devices" /\ left' = 1..Len(devices) /\ gpus' = <<>>
        BY <2>2, <2>4 DEF RsmiCounts, SourceInv
      <3>2. Follows(gpus', devices, 1..Len(devices), left')
        BY <3>1, FollowsNothing
      <3>3. Follows(gpus', devices', 1..Len(devices'), left')
        BY <2>1, <3>2
      <3> QED BY <3>1, <3>3 DEF SteadyTableComplete
    <2>5. ASSUME NEW k \in left, RsmiDevice(k)
          PROVE  /\ pc' = "devices"
                 /\ Follows(gpus', devices', 1..Len(devices'), left')
      <3>1. /\ pc = "devices" /\ pc' = pc /\ left' = left \ {k}
            /\ \A m \in left : k <= m
        BY <2>5 DEF RsmiDevice, IsNext
      <3>2. gpus \in Seq(Entry) /\ left \in SUBSET Nat /\ k \in 1..Len(devices)
        BY <2>2, <3>1 DEF TypeOK, PlaceInv
      <3>3. gpus' # gpus
        <4>1. Len(gpus') = Len(gpus) + 1
          BY <2>2, <2>5, <3>2, DeviceAdded, AppendOne
        <4> QED BY <3>2, <4>1
      <3>4. PICK e \in Entry : gpus' = Append(gpus, e) /\ e.gpu = devices[k]
        BY <2>2, <2>5, <3>1, <3>3, LoopMoves
      <3>5. Follows(Append(gpus, e), devices, 1..Len(devices), left \ {k})
        BY <2>2, <3>1, <3>2, <3>4, PlacesDistinct, FollowsAppended
      <3> QED BY <2>1, <3>1, <3>4, <3>5
    <2>6. ASSUME NEW k \in left, ReadCard(k)
          PROVE  /\ pc' = "cards" /\ Follows(gpus', Cards, OfAmdgpu', left')
      <3>1. /\ pc = "cards" /\ pc' = pc /\ left' = left \ {k}
            /\ \A m \in left : k <= m
        BY <2>6 DEF ReadCard, IsNext
      <3>2. gpus \in Seq(Entry) /\ left \in SUBSET Nat /\ k \in 1..Len(Cards)
        BY <2>2, <3>1 DEF TypeOK, PlaceInv
      <3>3. CASE gpus' # gpus
        <4>1. k \in OfAmdgpu
          BY <2>6, <3>2, <3>3 DEF ReadCard, OfAmdgpu
        <4>2. PICK e \in Entry : gpus' = Append(gpus, e) /\ e.gpu = Cards[k]
          BY <2>2, <2>6, <3>1, <3>3, LoopMoves
        <4>3. Follows(Append(gpus, e), Cards, OfAmdgpu, left \ {k})
          BY <2>2, <3>1, <3>2, <4>1, <4>2, PlacesDistinct, FollowsAppended
        <4> QED BY <2>3, <3>1, <4>2, <4>3
      <3>4. CASE gpus' = gpus
        <4>1. k \notin OfAmdgpu
          <5>1. SUFFICES ASSUME sysfs[Cards[k]] = "amdgpu"
                         PROVE  FALSE
            BY DEF OfAmdgpu
          <5>2. Len(gpus') = Len(gpus) + 1
            <6> DEFINE e == NewEntry("amdgpu_hwmon", Len(gpus), Cards[k])
            <6>1. gpus' = Append(gpus, e)
              BY <2>6, <5>1 DEF ReadCard, AddGpu, NewEntry
            <6>2. e \in Entry
              <7>1. Len(gpus) \in Nat /\ Cards[k] \in Card
                BY <2>2, <3>2, CardOfPlace
              <7> QED BY <7>1 DEF NewEntry, Entry, Source
            <6> HIDE DEF e
            <6> QED BY <3>2, <6>1, <6>2, AppendOne
          <5> QED BY <3>2, <3>4, <5>2
        <4>2. Follows(gpus, Cards, OfAmdgpu, left \ {k})
          BY <2>2, <3>1, <4>1, FollowsOn
        <4> QED BY <2>3, <3>1, <3>4, <4>2
      <3> QED BY <3>3, <3>4
    <2>7. CASE EndDevices
      <3>1. /\ pc = "devices" /\ pc' = "shutdown" /\ UNCHANGED <<gpus, left>>
            /\ left = {} \/ Len(gpus) = MaxGpus
        BY <2>2, <2>7, LoopEnds DEF EndDevices
      <3>2. ListsFirst(devices, 1..Len(devices))
        BY <2>2, <3>1, PlacesDistinct, FollowedToTheEnd
      <3>3. ListsFirst(devices, 1..Len(devices))'
        BY <2>1, <3>1, <3>2, ListKept
      <3> QED BY <3>1, <3>3 DEF SteadyTableComplete
    <2>8. CASE EndCards
      <3>1. /\ pc = "cards" /\ pc' = "done" /\ UNCHANGED <<gpus, left>>
            /\ left = {} \/ Len(gpus) = MaxGpus
        BY <2>2, <2>8, LoopEnds DEF EndCards
      <3>2. ListsFirst(Cards, OfAmdgpu) /\ rsmi' # "up"
        BY <2>1, <2>2, <3>1, PlacesDistinct, FollowedToTheEnd
      <3>3. ListsFirst(Cards, OfAmdgpu)'
        BY <2>1, <3>1, <3>2, ListKept
      <3> QED BY <3>1, <3>2, <3>3 DEF SteadyTableComplete
    <2>9. CASE RsmiShutDown
      <3>1. pc = "shutdown" /\ pc' = "done" /\ gpus' = gpus
        BY <2>9 DEF RsmiShutDown
      <3>2. ListsFirst(devices, 1..Len(devices))' /\ rsmi' = "up"
        BY <2>1, <2>2, <3>1, ListKept
      <3> QED BY <3>1, <3>2 DEF SteadyTableComplete
    <2>10. CASE GlobCards
      <3>1. /\ pc = "glob" /\ gpus = <<>> /\ gpus' = <<>> /\ rsmi' # "up"
            /\ left' = {k \in 1..Len(Cards) : sysfs[Cards[k]] # "absent"}
            /\ pc' = IF left' = {} THEN "done" ELSE "cards"
        BY <2>1, <2>2, <2>10 DEF GlobCards, SourceInv
      <3>2. OfAmdgpu \subseteq left'
        BY <3>1 DEF OfAmdgpu
      <3>3. Follows(gpus', Cards, OfAmdgpu', left')
        BY <2>3, <3>1, <3>2, FollowsNothing
      <3>4. left' = {} => ListsFirst(Cards, OfAmdgpu)'
        BY <2>3, <3>1, <3>2 DEF ListsFirst
      <3> QED BY <3>1, <3>3, <3>4 DEF SteadyTableComplete
    <2>11. CASE /\ ~Begin /\ ~RsmiCounts /\ ~EndDevices /\ ~EndCards
                /\ ~RsmiShutDown /\ ~GlobCards
                /\ ~\E k \in left : RsmiDevice(k) \/ ReadCard(k)
      <3>1. \/ pc' \in {"load", "init", "count", "glob"}
            \/ UNCHANGED <<pc, left, gpus>>
        BY <2>1, <2>11 DEF Next, vars, host, Begin, LoadRsmi, RsmiInit,
           RsmiCounts, RsmiCountFails, RsmiDevice, EndDevices, RsmiShutDown,
           GlobCards, ReadCard, EndCards, LibraryChanges, CardChanges
      <3>2. CASE pc' \in {"load", "init", "count", "glob"}
        BY <3>2 DEF SteadyTableComplete
      <3>3. CASE UNCHANGED <<pc, left, gpus>>
        <4>1. /\ Follows(gpus', devices', 1..Len(devices'), left') <=>
                    Follows(gpus, devices, 1..Len(devices), left)
              /\ Follows(gpus', Cards, OfAmdgpu', left') <=>
                    Follows(gpus, Cards, OfAmdgpu, left)
          BY <2>1, <2>3, <3>3
        <4>2. SteadyTableComplete'
          BY <2>1, <2>2, <3>3, ListKept DEF SteadyTableComplete
        <4> QED BY <2>1, <2>2, <3>3, <4>1, <4>2, ListKept
      <3> QED BY <3>1, <3>2, <3>3
    <2>12. CASE \E k \in left : RsmiDevice(k)
      BY <2>5, <2>12 DEF SteadyTableComplete
    <2>13. CASE \E k \in left : ReadCard(k)
      BY <2>6, <2>13 DEF SteadyTableComplete
    <2> QED BY <1>2, <2>4, <2>7, <2>8, <2>9, <2>10, <2>11, <2>12, <2>13
  <1> QED BY <1>1, <1>2

-------------------------------------------------------------------------------
(* Theorems *)

LEMMA InvInit == Init => IInv
  <1> SUFFICES ASSUME Init
               PROVE  IInv
    OBVIOUS
  <1>1. gpus = <<>> /\ Len(gpus) = 0 /\ gpus \in Seq(Entry)
    BY EmptyTable DEF Init
  <1>2. TypeOK
    <2>1. /\ Len(gpus) <= MaxGpus
          /\ n \in 0..MaxSnapshots /\ failures \in 0..MaxSnapshots
          /\ sessions \in 0..MaxSnapshots
      BY <1>1, AmdAssumption DEF Init
    <2> QED BY <1>1, <2>1 DEF Init, TypeOK
  <1>3. PlaceInv /\ SourceInv
    BY <1>1 DEF Init, PlaceInv, SourceInv, OneSource
  <1>4. FailureInv /\ LeaksAreFailedCounts
    BY DEF Init, FailureInv, LeaksAreFailedCounts, InSession
  <1>5. RouteInv /\ ListInv
    BY DEF Init, RouteInv, ListInv
  <1> QED BY <1>2, <1>3, <1>4, <1>5 DEF IInv

LEMMA InvStep == IInv /\ [Next]_vars => IInv'
  BY TypeStep, PlaceStep, SourceStep, CounterStep, RouteStep, ListStep DEF IInv

\* The inductive invariant holds in every reachable state of the collector.
THEOREM Invariant == Spec => []IInv
  BY InvInit, InvStep, PTL DEF Spec

\* The AMD collector keeps its variables in range, the table of any size
\* included (gpu_amd.c:81, 149).
THEOREM TypeCorrect == Spec => []TypeOK
  <1>1. IInv => TypeOK
    BY DEF IInv
  <1> QED BY <1>1, Invariant, PTL

\* A finished snapshot has the GPUs of one source, and its bit, whether or not
\* ROCm SMI failed half-way (gpu_amd.c:135-137, 174-182).
THEOREM SourceCorrect == Spec => []OneSource
  <1>1. IInv => OneSource
    BY DEF IInv, SourceInv
  <1> QED BY <1>1, Invariant, PTL

\* Sessions are lost by failed device counts and in no other way
\* (gpu_amd.c:147-148, 177).
THEOREM LeaksCounted == Spec => []LeaksAreFailedCounts
  <1>1. IInv => LeaksAreFailedCounts
    BY DEF IInv
  <1> QED BY <1>1, Invariant, PTL

\* A finished snapshot of a host that does not change has every GPU of the
\* source that works, in order and as many as have room (gpu_amd.c:147, 181).
THEOREM TableComplete == Spec => []SteadyTableComplete
  <1>1. IInv => SteadyTableComplete
    BY DEF IInv, ListInv, SteadyTableComplete
  <1> QED BY <1>1, Invariant, PTL

\* The GPU table only grows, by entries at its end and within its limit, until
\* the next snapshot clears it.
THEOREM TableRefinement == Spec => ImplementsTable
  <1>1. Init => GpuTable!Init
    BY DEF Init, GpuTable!Init
  <1>2. IInv /\ [Next]_vars => [GpuTable!Next]_gpus
    <2> SUFFICES ASSUME IInv, [Next]_vars, gpus' # gpus
                 PROVE  GpuTable!Next
      OBVIOUS
    <2>1. TypeOK /\ PlaceInv
      BY DEF IInv
    <2>2. CASE Begin
      BY <2>2 DEF Begin, GpuTable!Next, GpuTable!Clear
    <2>3. CASE \E k \in left : RsmiDevice(k) \/ ReadCard(k)
      <3>1. Len(gpus) < MaxGpus
        BY <2>3 DEF RsmiDevice, ReadCard, More
      <3>2. PICK e \in Entry : gpus' = Append(gpus, e)
        BY <2>1, <2>3, DeviceAdded, CardAdded
      <3>3. /\ gpus' \in Seq(Entry) /\ Len(gpus') = Len(gpus) + 1
            /\ \A k \in 1..Len(gpus) : gpus'[k] = gpus[k]
        BY <2>1, <3>2, AppendOne DEF TypeOK
      <3> QED BY <3>1, <3>3 DEF GpuTable!Next, GpuTable!Add
    <2> QED BY <2>2, <2>3, TableKept
  <1> QED BY <1>1, <1>2, Invariant, PTL DEF Spec, ImplementsTable, GpuTable!Spec

===============================================================================
