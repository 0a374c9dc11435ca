--------------------------- MODULE LinuxSysfs_proofs --------------------------
(***************************************************************************)
(* Proofs about LinuxSysfs.tla, for any thermal zones and hwmon inputs,    *)
(* tables of any size and any architecture.  The invariant says for each   *)
(* of the three loops what it has gone through: the places that are not    *)
(* left have an entry or had trouble, and the entries come before them.    *)
(***************************************************************************)
EXTENDS LinuxSysfs, TLAPS

Reading(l) == pc = l /\ phase = "read"

\* A loop that reads has files, and knows its places in their list; the third
\* loop is the one of arm64.
ControlInv ==
    /\ phase = "read" => pc \in Loops
    /\ pc = "clusters" => Arch = "arm64"
    /\ \A l \in Loops : Reading(l) =>
          left \subseteq 1..Len(Files(l)) /\ Files(l) # <<>>

\* Once a snapshot has begun, the auxiliary sets have what is so now.
HistoryInv ==
    pc # "idle" => Good \subseteq readable /\ Sensor \ Good \subseteq troubled

RangeOf(s) == {s[i] : i \in 1..Len(s)}

\* The entries of a table s, in the order of the loop's files.
InOrder(l, s) ==
    \A i, j \in 1..Len(s) : i < j =>
        \E m, n \in 1..Len(Files(l)) :
            m < n /\ Files(l)[m] = s[i] /\ Files(l)[n] = s[j]

\* The entries of s are of files in front of all the places in rest.
Behind(l, s, rest) ==
    \A i \in 1..Len(s) : \E m \in 1..Len(Files(l)) :
        Files(l)[m] = s[i] /\ \A k \in rest : m < k

\* A loop has no entries before it reads, and then those of files behind it.
EntryInv ==
    /\ \A l \in Loops : ~Reading(l) /\ ~Over(l) => table[l] = <<>>
    /\ \A l \in Loops : Reading(l) => Behind(l, table[l], left)
    /\ \A l \in Loops :
          RangeOf(table[l]) \subseteq readable /\ InOrder(l, table[l])

Settled(l, k) == Files(l)[k] \in RangeOf(table[l]) \cup troubled

\* A place in the list of a loop is left, or has its entry or its trouble.
SkipInv ==
    /\ \A l \in Loops : Reading(l) =>
          \A k \in 1..Len(Files(l)) : k \in left \/ Settled(l, k)
    /\ \A l \in Loops : Over(l) =>
          \/ Len(table[l]) = Limit[l]
          \/ \A k \in 1..Len(Files(l)) : Settled(l, k)

\* The bits, loop by loop.
BitInv ==
    /\ Over("zones") /\ table["zones"] # <<>> => "LINUX_THERMAL" \in capabilities
    /\ Over("hwmon") /\ table["hwmon"] # <<>> => "LINUX_HWMON" \in capabilities
    /\ Over("clusters") /\ table["clusters"] # <<>> =>
          {"ARM_SCMI", "LINUX_THERMAL"} \subseteq capabilities
    /\ "ARM_SCMI" \in capabilities => Over("clusters") /\ table["clusters"] # <<>>
    /\ "LINUX_THERMAL" \in capabilities => Over("zones") /\ Zones # <<>>
    /\ "LINUX_HWMON" \in capabilities => Over("hwmon") /\ Hwmons # <<>>

IInv == TypeOK /\ ControlInv /\ HistoryInv /\ EntryInv /\ SkipInv /\ BitInv

-------------------------------------------------------------------------------
(* Files and entries *)

LEMMA AppendOne ==
    ASSUME NEW S, NEW s \in Seq(S), NEW e \in S
    PROVE  /\ Append(s, e) \in Seq(S)
           /\ Len(Append(s, e)) = Len(s) + 1
           /\ Append(s, e)[Len(s) + 1] = e
           /\ \A k \in 1..Len(s) : Append(s, e)[k] = s[k]
  OBVIOUS

LEMMA RangeOfAppend ==
    ASSUME NEW S, NEW s \in Seq(S), NEW e \in S
    PROVE  RangeOf(Append(s, e)) = RangeOf(s) \cup {e}
  <1> DEFINE t == Append(s, e)
  <1>1. /\ Len(t) = Len(s) + 1 /\ t[Len(s) + 1] = e /\ Len(s) \in Nat
        /\ \A k \in 1..Len(s) : t[k] = s[k]
    BY AppendOne
  <1> HIDE DEF t
  <1>2. ASSUME NEW i \in 1..Len(t)
        PROVE  t[i] \in RangeOf(s) \cup {e}
    <2>1. i \in 1..Len(s) \/ i = Len(s) + 1
      BY <1>1
    <2> QED BY <1>1, <2>1 DEF RangeOf
  <1>3. ASSUME NEW i \in 1..Len(s)
        PROVE  s[i] \in RangeOf(t)
    <2>1. i \in 1..Len(t) /\ t[i] = s[i]
      BY <1>1
    <2> QED BY <2>1 DEF RangeOf
  <1>4. e \in RangeOf(t)
    <2>1. Len(t) \in 1..Len(t) /\ t[Len(t)] = e
      BY <1>1
    <2> QED BY <2>1 DEF RangeOf
  <1> QED BY <1>2, <1>3, <1>4 DEF RangeOf, t

LEMMA FileTyped ==
    ASSUME NEW l \in Loops
    PROVE  /\ Files(l) \in Seq(Sensor) /\ Len(Files(l)) \in Nat
           /\ \A k \in 1..Len(Files(l)) : Files(l)[k] \in Sensor
  <1>1. Files(l) \in Seq(Sensor)
    BY SysfsAssumption DEF Files
  <1> QED BY <1>1

\* The next file goes behind the entries of the files in front of it.
LEMMA AppendInOrder ==
    ASSUME NEW l \in Loops, NEW s \in Seq(Sensor), NEW rest \in SUBSET Nat,
           NEW k \in rest, k \in 1..Len(Files(l)), \A m \in rest : k <= m,
           InOrder(l, s), Behind(l, s, rest)
    PROVE  /\ InOrder(l, Append(s, Files(l)[k]))
           /\ Behind(l, Append(s, Files(l)[k]), rest \ {k})
  <1> DEFINE e == Files(l)[k]
             t == Append(s, e)
  <1>1. e \in Sensor
    BY FileTyped
  <1>2. /\ Len(t) = Len(s) + 1 /\ t[Len(s) + 1] = e /\ Len(s) \in Nat
        /\ \A i \in 1..Len(s) : t[i] = s[i]
    BY <1>1, AppendOne
  <1> HIDE DEF t
  <1>3. ASSUME NEW i \in 1..Len(t), NEW j \in 1..Len(t), i < j
        PROVE  \E m, n \in 1..Len(Files(l)) :
                  m < n /\ Files(l)[m] = t[i] /\ Files(l)[n] = t[j]
    <2>1. i \in 1..Len(s) /\ t[i] = s[i]
      BY <1>2, <1>3
    <2>2. CASE j \in 1..Len(s)
      BY <1>2, <1>3, <2>1, <2>2 DEF InOrder
    <2>3. CASE j = Len(s) + 1
      <3>1. PICK m \in 1..Len(Files(l)) : Files(l)[m] = s[i] /\ m < k
        BY <2>1 DEF Behind
      <3> QED BY <1>2, <2>1, <2>3, <3>1
    <2> QED BY <1>2, <2>2, <2>3
  <1>4. ASSUME NEW i \in 1..Len(t)
        PROVE  \E m \in 1..Len(Files(l)) :
                  Files(l)[m] = t[i] /\ \A o \in rest \ {k} : m < o
    <2>1. CASE i \in 1..Len(s)
      BY <1>2, <2>1 DEF Behind
    <2>2. CASE i = Len(s) + 1
      <3>1. \A o \in rest \ {k} : k < o
        OBVIOUS
      <3> QED BY <1>2, <2>2, <3>1
    <2> QED BY <1>2, <2>1, <2>2
  <1> QED BY <1>3, <1>4 DEF InOrder, Behind, t

LEMMA EmptyTable ==
    /\ <<>> \in Seq(Sensor) /\ Len(<<>>) = 0 /\ RangeOf(<<>>) = {}
    /\ \A l \in Loops : InOrder(l, <<>>)
    /\ \A l, rest : Behind(l, <<>>, rest)
  BY DEF RangeOf, InOrder, Behind

-------------------------------------------------------------------------------
(* How a step moves the loops *)

\* Which actions change what: only Begin and Read change the tables, only Begin
\* and EndLoop the bits, only Begin and Change the auxiliary sets.
LEMMA Kept ==
    ASSUME [Next]_vars
    PROVE  /\ Begin \/ (\E l \in Loops, k \in left : Read(l, k)) \/ table' = table
           /\ Begin \/ (\E l \in Loops : EndLoop(l)) \/ capabilities' = capabilities
           /\ \/ Begin
              \/ \E s \in Sensor, state \in FileState : Change(s, state)
              \/ /\ readable' = readable /\ troubled' = troubled
                 /\ sysfs' = sysfs
  BY DEF Next, vars, Change, Begin, Glob, Read, EndLoop

LEMMA OverIs ==
    /\ Over("zones") <=> pc \in {"hwmon", "clusters", "done"}
    /\ Over("hwmon") <=> pc \in {"clusters", "done"}
    /\ Over("clusters") <=> pc = "done" /\ Arch = "arm64"
  BY DEF Over

LEMMA OverIsNext ==
    /\ Over("zones")' <=> pc' \in {"hwmon", "clusters", "done"}
    /\ Over("hwmon")' <=> pc' \in {"clusters", "done"}
    /\ Over("clusters")' <=> pc' = "done" /\ Arch = "arm64"
  BY DEF Over

LEMMA AfterIs ==
    /\ After("zones") = "hwmon"
    /\ After("hwmon") = IF Arch = "arm64" THEN "clusters" ELSE "done"
    /\ After("clusters") = "done"
  BY DEF After

\* Nothing is over when a snapshot begins, and nothing reads.
LEMMA BeginMoves ==
    ASSUME Begin
    PROVE  \A o \in Loops : /\ ~Reading(o)' /\ ~Over(o)' /\ table'[o] = <<>>
  <1>1. pc' = "zones" /\ phase' = "glob"
    BY DEF Begin
  <1>2. \A o \in Loops : ~Over(o)'
    BY <1>1, OverIsNext DEF Loops
  <1> QED BY <1>1, <1>2 DEF Begin, Reading

\* A read moves its own loop only: it takes the first place that is left.
LEMMA ReadMoves ==
    ASSUME TypeOK, ControlInv, NEW l \in Loops, NEW k \in left, Read(l, k)
    PROVE  /\ Reading(l) /\ Reading(l)' /\ ~Over(l) /\ Len(table[l]) < Limit[l]
           /\ k \in 1..Len(Files(l)) /\ Files(l)[k] \in Sensor
           /\ \A m \in left : k <= m
           /\ left' = left \ {k}
           /\ readable' = readable /\ troubled' = troubled
           /\ \A o \in Loops : /\ Over(o)' <=> Over(o)
                               /\ o # l => ~Reading(o) /\ ~Reading(o)'
                               /\ o # l => table'[o] = table[o]
           /\ \/ /\ Files(l)[k] \in Good
                 /\ table'[l] = Append(table[l], Files(l)[k])
              \/ /\ Files(l)[k] \notin Good
                 /\ table'[l] = table[l]
  <1>1. /\ pc = l /\ pc' = pc /\ phase = "read" /\ phase' = phase
        /\ Len(table[l]) < Limit[l] /\ left' = left \ {k}
        /\ readable' = readable /\ troubled' = troubled
        /\ \A m \in left : k <= m
    BY DEF Read, IsNext
  <1>2. k \in 1..Len(Files(l)) /\ Files(l)[k] \in Sensor
    BY <1>1, FileTyped DEF ControlInv, Reading
  <1>3. \A o \in Loops : (Over(o)' <=> Over(o)) /\ ~Over(l)
    BY <1>1, OverIs, OverIsNext DEF Loops
  <1>4. \A o \in Loops : o # l => table'[o] = table[o]
    BY DEF Read, TypeOK
  <1>5. \/ /\ Files(l)[k] \in Good
           /\ table'[l] = Append(table[l], Files(l)[k])
        \/ /\ Files(l)[k] \notin Good
           /\ table'[l] = table[l]
    BY DEF Read, TypeOK
  <1> QED BY <1>1, <1>2, <1>3, <1>4, <1>5 DEF Reading

LEMMA GlobMoves ==
    ASSUME ControlInv, NEW l \in Loops, Glob(l)
    PROVE  /\ table' = table /\ readable' = readable /\ troubled' = troubled
           /\ sysfs' = sysfs /\ capabilities' = capabilities
           /\ left' = Listed(l)
           /\ ~Reading(l) /\ ~Over(l)
           /\ Reading(l)' <=> left' # {}
           /\ Over(l)' <=> left' = {}
           /\ \A o \in Loops \ {l} : /\ Over(o)' <=> Over(o)
                                     /\ ~Reading(o) /\ ~Reading(o)'
  <1>1. /\ pc = l /\ phase = "glob" /\ left' = Listed(l)
        /\ \/ left' = {} /\ pc' = After(l) /\ phase' = "glob"
           \/ left' # {} /\ pc' = l /\ phase' = "read"
    BY DEF Glob
  <1>2. ~Over(l) /\ (Over(l)' <=> left' = {})
    BY <1>1, OverIs, OverIsNext, AfterIs DEF Loops, ControlInv
  <1>3. \A o \in Loops \ {l} : Over(o)' <=> Over(o)
    BY <1>1, OverIs, OverIsNext, AfterIs DEF Loops, ControlInv
  <1> QED BY <1>1, <1>2, <1>3 DEF Glob, Reading

LEMMA EndMoves ==
    ASSUME ControlInv, NEW l \in Loops, EndLoop(l)
    PROVE  /\ table' = table /\ readable' = readable /\ troubled' = troubled
           /\ sysfs' = sysfs /\ left' = left
           /\ capabilities' = capabilities \cup Bits(l)
           /\ left = {} \/ Len(table[l]) = Limit[l]
           /\ Reading(l) /\ ~Over(l) /\ Over(l)'
           /\ \A o \in Loops : ~Reading(o)'
           /\ \A o \in Loops \ {l} : Over(o)' <=> Over(o)
  <1>1. /\ pc = l /\ phase = "read" /\ pc' = After(l) /\ phase' = "glob"
    BY DEF EndLoop
  <1>2. ~Over(l) /\ Over(l)'
    BY <1>1, OverIs, OverIsNext, AfterIs DEF Loops, ControlInv
  <1>3. \A o \in Loops \ {l} : Over(o)' <=> Over(o)
    BY <1>1, OverIs, OverIsNext, AfterIs DEF Loops, ControlInv
  <1> QED BY <1>1, <1>2, <1>3 DEF EndLoop, Reading

\* The auxiliary sets only grow when the kernel changes a sensor.
LEMMA ChangeMoves ==
    ASSUME TypeOK, NEW s \in Sensor, NEW state \in FileState, Change(s, state)
    PROVE  /\ table' = table /\ left' = left /\ capabilities' = capabilities
           /\ pc' = pc /\ phase' = phase
           /\ readable \subseteq readable' /\ troubled \subseteq troubled'
           /\ \A o \in Loops : (Over(o)' <=> Over(o)) /\ (Reading(o)' <=> Reading(o))
  <1>1. /\ table' = table /\ left' = left /\ capabilities' = capabilities
        /\ pc' = pc /\ phase' = phase
    BY DEF Change
  <1>2. readable \subseteq readable' /\ troubled \subseteq troubled'
    BY DEF Change
  <1>3. \A o \in Loops : Over(o)' <=> Over(o)
    BY <1>1, OverIs, OverIsNext DEF Loops
  <1> QED BY <1>1, <1>2, <1>3 DEF Reading

LEMMA StutterMoves ==
    ASSUME UNCHANGED vars
    PROVE  /\ table' = table /\ left' = left /\ capabilities' = capabilities
           /\ pc' = pc /\ phase' = phase /\ sysfs' = sysfs
           /\ readable' = readable /\ troubled' = troubled
           /\ \A o \in Loops : (Over(o)' <=> Over(o)) /\ (Reading(o)' <=> Reading(o))
  <1>1. pc' = pc /\ phase' = phase
    BY DEF vars
  <1>2. \A o \in Loops : Over(o)' <=> Over(o)
    BY <1>1, OverIs, OverIsNext DEF Loops
  <1> QED BY <1>1, <1>2 DEF vars, Reading

-------------------------------------------------------------------------------
(* Each part of the invariant, step by step *)

\* The seven kinds of step, for the case splits below.
LEMMA StepCases ==
    ASSUME [Next]_vars
    PROVE  \/ \E s \in Sensor, state \in FileState : Change(s, state)
           \/ Begin
           \/ \E l \in Loops : Glob(l)
           \/ \E l \in Loops, k \in left : Read(l, k)
           \/ \E l \in Loops : EndLoop(l)
           \/ UNCHANGED vars
  BY DEF Next

LEMMA TableTyped ==
    ASSUME TypeOK, ControlInv, [Next]_vars
    PROVE  /\ table' \in [Loops -> Seq(Sensor)]
           /\ \A l \in Loops : Len(table'[l]) <= Limit[l]
  <1>1. CASE Begin
    <2>1. table' = [l \in Loops |-> <<>>] /\ \A l \in Loops : Limit[l] \in Nat
      BY <1>1, SysfsAssumption DEF Begin
    <2> QED BY <2>1, EmptyTable
  <1>2. ASSUME NEW l \in Loops, NEW k \in left, Read(l, k)
        PROVE  /\ table' \in [Loops -> Seq(Sensor)]
               /\ \A o \in Loops : Len(table'[o]) <= Limit[o]
    <2> DEFINE s == Files(l)[k]
    <2>1. /\ s \in Sensor /\ Len(table[l]) < Limit[l] /\ table[l] \in Seq(Sensor)
          /\ table'[l] = Append(table[l], s) \/ table'[l] = table[l]
          /\ \A o \in Loops : o # l => table'[o] = table[o]
      BY <1>2, ReadMoves DEF TypeOK
    <2>2. Limit[l] \in Nat /\ Len(table[l]) \in Nat
      BY <2>1, SysfsAssumption
    <2> HIDE DEF s
    <2>3. table'[l] \in Seq(Sensor) /\ Len(table'[l]) <= Limit[l]
      <3>1. Append(table[l], s) \in Seq(Sensor)
            /\ Len(Append(table[l], s)) = Len(table[l]) + 1
        BY <2>1, AppendOne
      <3>2. CASE table'[l] = table[l]
        BY <2>1, <2>2, <3>2
      <3>3. CASE table'[l] = Append(table[l], s)
        BY <2>1, <2>2, <3>1, <3>3
      <3> QED BY <2>1, <3>2, <3>3, Zenon
    <2>4. \A o \in Loops : table'[o] \in Seq(Sensor) /\ Len(table'[o]) <= Limit[o]
      <3>1. \A o \in Loops : table[o] \in Seq(Sensor) /\ Len(table[o]) <= Limit[o]
        BY DEF TypeOK
      <3> QED BY <2>1, <2>3, <3>1, Zenon
    <2>5. \E f : table' = [o \in Loops |-> f[o]]
      <3>1. \/ table' = table
            \/ table' = [table EXCEPT ![l] = Append(@, Files(l)[k])]
        BY <1>2 DEF Read
      <3>2. table' = [o \in Loops |-> table'[o]]
        BY <3>1 DEF TypeOK
      <3> QED BY <3>2
    <2> QED BY <2>4, <2>5
  <1>3. CASE table' = table
    BY <1>3 DEF TypeOK
  <1> QED BY <1>1, <1>2, <1>3, Kept

LEMMA SysfsTyped ==
    ASSUME TypeOK, [Next]_vars
    PROVE  /\ sysfs' \in [Sensor -> FileState]
           /\ readable' \subseteq Sensor /\ troubled' \subseteq Sensor
  <1>1. CASE Begin
    BY <1>1 DEF Begin, TypeOK, Good
  <1>2. ASSUME NEW s \in Sensor, NEW state \in FileState, Change(s, state)
        PROVE  /\ sysfs' \in [Sensor -> FileState]
               /\ readable' \subseteq Sensor /\ troubled' \subseteq Sensor
    <2>1. sysfs' \in [Sensor -> FileState]
      BY <1>2 DEF Change, TypeOK
    <2>2. readable' \subseteq readable \cup {s} /\ troubled' \subseteq troubled \cup {s}
      BY <1>2 DEF Change
    <2> QED BY <2>1, <2>2 DEF TypeOK
  <1>3. CASE readable' = readable /\ troubled' = troubled /\ sysfs' = sysfs
    BY <1>3 DEF TypeOK
  <1> QED BY <1>1, <1>2, <1>3, Kept

LEMMA ControlTyped ==
    ASSUME TypeOK, [Next]_vars
    PROVE  /\ pc' \in Loops \cup {"idle", "done"} /\ phase' \in {"glob", "read"}
           /\ left' \subseteq Nat \ {0}
           /\ capabilities' \subseteq {"LINUX_THERMAL", "LINUX_HWMON", "ARM_SCMI"}
  <1>1. \A l \in Loops : After(l) \in Loops \cup {"done"}
    BY AfterIs DEF Loops
  <1>2. pc' \in Loops \cup {"idle", "done"} /\ phase' \in {"glob", "read"}
    BY <1>1 DEF TypeOK, Next, vars, Change, Begin, Glob, Read, EndLoop, Loops
  <1>3. left' \subseteq Nat \ {0}
    <2>1. \A l \in Loops : Listed(l) \subseteq Nat \ {0}
      BY FileTyped DEF Listed
    <2>2. left' \subseteq left \/ \E l \in Loops : left' = Listed(l)
      BY DEF Next, vars, Change, Begin, Glob, Read, EndLoop
    <2> QED BY <2>1, <2>2 DEF TypeOK
  <1>4. capabilities' \subseteq {"LINUX_THERMAL", "LINUX_HWMON", "ARM_SCMI"}
    <2>1. \A l \in Loops : Bits(l) \subseteq {"LINUX_THERMAL", "LINUX_HWMON", "ARM_SCMI"}
      BY DEF Bits, Loops
    <2>2. \/ capabilities' \subseteq capabilities
          \/ \E l \in Loops : capabilities' = capabilities \cup Bits(l)
      BY Kept DEF Begin, EndLoop
    <2> QED BY <2>1, <2>2 DEF TypeOK
  <1> QED BY <1>2, <1>3, <1>4

LEMMA TypeStep ==
    ASSUME TypeOK, ControlInv, [Next]_vars
    PROVE  TypeOK'
  BY TableTyped, SysfsTyped, ControlTyped DEF TypeOK

LEMMA ControlStep ==
    ASSUME TypeOK, ControlInv, [Next]_vars
    PROVE  ControlInv'
  <1>1. CASE Begin
    BY <1>1 DEF Begin, ControlInv, Reading
  <1>2. ASSUME NEW l \in Loops, Glob(l)
        PROVE  ControlInv'
    <2>1. /\ pc = l
          /\ \/ pc' = l /\ phase' = "read" /\ left' # {}
             \/ pc' = After(l) /\ phase' = "glob"
      BY <1>2 DEF Glob
    <2>2. pc' = "clusters" => Arch = "arm64"
      BY <2>1, AfterIs DEF ControlInv, Loops
    <2>3. left' \subseteq 1..Len(Files(l)) /\ (left' # {} => Files(l) # <<>>)
      <3>1. left' \subseteq 1..Len(Files(l))
        BY <1>2, GlobMoves DEF Listed
      <3>2. Files(l) = <<>> => 1..Len(Files(l)) = {}
        OBVIOUS
      <3> QED BY <3>1, <3>2
    <2> QED BY <2>1, <2>2, <2>3 DEF ControlInv, Reading
  <1>3. ASSUME NEW l \in Loops, NEW k \in left, Read(l, k)
        PROVE  ControlInv'
    BY <1>3 DEF Read, ControlInv, Reading
  <1>4. ASSUME NEW l \in Loops, EndLoop(l)
        PROVE  ControlInv'
    <2>1. pc = l /\ pc' = After(l) /\ phase' = "glob"
      BY <1>4 DEF EndLoop
    <2>2. pc' = "clusters" => Arch = "arm64"
      BY <2>1, AfterIs DEF ControlInv, Loops
    <2> QED BY <2>1, <2>2 DEF ControlInv, Reading
  <1>5. CASE \E s \in Sensor, state \in FileState : Change(s, state)
    BY <1>5 DEF Change, ControlInv, Reading
  <1>6. CASE UNCHANGED vars
    BY <1>6 DEF vars, ControlInv, Reading
  <1> QED BY <1>1, <1>2, <1>3, <1>4, <1>5, <1>6, StepCases

LEMMA HistoryStep ==
    ASSUME TypeOK, HistoryInv, [Next]_vars
    PROVE  HistoryInv'
  <1>1. CASE Begin
    BY <1>1 DEF Begin, HistoryInv, Good
  <1>2. ASSUME NEW s \in Sensor, NEW state \in FileState, Change(s, state)
        PROVE  HistoryInv'
    <2>1. /\ \A o \in Sensor : sysfs'[o] = IF o = s THEN state ELSE sysfs[o]
          /\ readable' = IF state = "good" THEN readable \cup {s} ELSE readable
          /\ troubled' = IF state = "good" THEN troubled ELSE troubled \cup {s}
          /\ pc' = pc
      BY <1>2 DEF Change, TypeOK
    <2>2. /\ Good' \subseteq IF state = "good" THEN Good \cup {s} ELSE Good
          /\ Sensor \ Good' \subseteq
                IF state = "good" THEN Sensor \ Good ELSE (Sensor \ Good) \cup {s}
      BY <2>1 DEF Good
    <2> QED BY <2>1, <2>2 DEF HistoryInv
  <1>3. CASE ~Begin /\ readable' = readable /\ troubled' = troubled /\ sysfs' = sysfs
    <2>1. pc = "idle" => pc' = "idle"
      BY <1>3 DEF Next, vars, Change, Glob, Read, EndLoop, Loops
    <2> QED BY <1>3, <2>1 DEF HistoryInv, Good
  <1> QED BY <1>1, <1>2, <1>3, Kept

\* A loop that a step leaves alone keeps what is said of its entries.
LEMMA EntryStep ==
    ASSUME TypeOK, ControlInv, HistoryInv, EntryInv, [Next]_vars
    PROVE  EntryInv'
  <1>1. CASE Begin
    <2>1. \A o \in Loops : ~Reading(o)' /\ table'[o] = <<>>
      BY <1>1, BeginMoves
    <2>2. \A o \in Loops : RangeOf(table'[o]) = {} /\ InOrder(o, table'[o])
      BY <2>1, EmptyTable
    <2> QED BY <2>1, <2>2 DEF EntryInv
  <1>2. ASSUME NEW l \in Loops, Glob(l)
        PROVE  EntryInv'
    <2>1. /\ table' = table /\ readable' = readable /\ ~Reading(l) /\ ~Over(l)
          /\ \A o \in Loops \ {l} : /\ Over(o)' <=> Over(o)
                                    /\ ~Reading(o) /\ ~Reading(o)'
      BY <1>2, GlobMoves
    <2>2. table'[l] = <<>>
      BY <2>1 DEF EntryInv
    <2>3. Behind(l, table'[l], left')
      BY <2>2, EmptyTable
    <2>4. \A o \in Loops : ~Reading(o)' /\ ~Over(o)' => table'[o] = <<>>
      BY <2>1, <2>2 DEF EntryInv
    <2>5. \A o \in Loops : Reading(o)' => Behind(o, table'[o], left')
      BY <2>1, <2>3
    <2> QED BY <2>1, <2>4, <2>5 DEF EntryInv
  <1>3. ASSUME NEW l \in Loops, NEW k \in left, Read(l, k)
        PROVE  EntryInv'
    <2> DEFINE s == Files(l)[k]
    <2>1. /\ Reading(l) /\ Reading(l)' /\ k \in 1..Len(Files(l)) /\ s \in Sensor
          /\ \A m \in left : k <= m
          /\ left' = left \ {k} /\ readable' = readable
          /\ \A o \in Loops : /\ Over(o)' <=> Over(o)
                              /\ o # l => ~Reading(o) /\ ~Reading(o)'
                              /\ o # l => table'[o] = table[o]
          /\ \/ s \in Good /\ table'[l] = Append(table[l], s)
             \/ s \notin Good /\ table'[l] = table[l]
      BY <1>3, ReadMoves
    <2>2. /\ table[l] \in Seq(Sensor) /\ left \in SUBSET Nat
          /\ Behind(l, table[l], left) /\ InOrder(l, table[l])
          /\ RangeOf(table[l]) \subseteq readable
      BY <2>1 DEF TypeOK, EntryInv
    <2>3. /\ Behind(l, table'[l], left') /\ InOrder(l, table'[l])
          /\ RangeOf(table'[l]) \subseteq readable
      <3>1. CASE s \in Good /\ table'[l] = Append(table[l], s)
        <4>1. s \in readable
          BY <2>1, <3>1 DEF HistoryInv, Reading, Loops
        <4>2. RangeOf(table'[l]) \subseteq readable
          BY <2>1, <2>2, <3>1, <4>1, RangeOfAppend
        <4>3. InOrder(l, Append(table[l], s)) /\ Behind(l, Append(table[l], s), left \ {k})
          <5>1. k \in left /\ k \in 1..Len(Files(l)) /\ \A m \in left : k <= m
            BY <2>1
          <5> QED BY <2>2, <5>1, AppendInOrder, Zenon
        <4> QED BY <2>1, <3>1, <4>2, <4>3, Zenon
      <3>2. CASE table'[l] = table[l]
        BY <2>1, <2>2, <3>2 DEF Behind
      <3> QED BY <2>1, <3>1, <3>2
    <2> HIDE DEF s
    <2>4. \A o \in Loops : ~Reading(o)' /\ ~Over(o)' => table'[o] = <<>>
      BY <2>1 DEF EntryInv
    <2>5. \A o \in Loops : Reading(o)' => Behind(o, table'[o], left')
      BY <2>1, <2>3
    <2>6. \A o \in Loops :
             RangeOf(table'[o]) \subseteq readable' /\ InOrder(o, table'[o])
      BY <2>1, <2>3 DEF EntryInv
    <2> QED BY <2>4, <2>5, <2>6 DEF EntryInv
  <1>4. ASSUME NEW l \in Loops, EndLoop(l)
        PROVE  EntryInv'
    <2>1. /\ table' = table /\ readable' = readable
          /\ Over(l)' /\ \A o \in Loops : ~Reading(o)'
          /\ \A o \in Loops \ {l} : (Over(o)' <=> Over(o)) /\ ~Reading(o)
      BY <1>4, EndMoves DEF Reading
    <2> QED BY <2>1 DEF EntryInv
  <1>5. ASSUME NEW s \in Sensor, NEW state \in FileState, Change(s, state)
        PROVE  EntryInv'
    <2>1. /\ table' = table /\ left' = left /\ readable \subseteq readable'
          /\ \A o \in Loops : (Over(o)' <=> Over(o)) /\ (Reading(o)' <=> Reading(o))
      BY <1>5, ChangeMoves
    <2> QED BY <2>1 DEF EntryInv
  <1>6. CASE UNCHANGED vars
    <2>1. /\ table' = table /\ left' = left /\ readable' = readable
          /\ \A o \in Loops : (Over(o)' <=> Over(o)) /\ (Reading(o)' <=> Reading(o))
      BY <1>6, StutterMoves
    <2> QED BY <2>1 DEF EntryInv
  <1> QED BY <1>1, <1>2, <1>3, <1>4, <1>5, <1>6, StepCases

LEMMA SkipStep ==
    ASSUME TypeOK, ControlInv, HistoryInv, SkipInv, [Next]_vars
    PROVE  SkipInv'
  <1>1. CASE Begin
    BY <1>1, BeginMoves DEF SkipInv
  <1>2. ASSUME NEW l \in Loops, Glob(l)
        PROVE  SkipInv'
    <2>1. /\ table' = table /\ troubled' = troubled /\ left' = Listed(l)
          /\ Over(l)' <=> left' = {}
          /\ \A o \in Loops \ {l} : (Over(o)' <=> Over(o)) /\ ~Reading(o)'
      BY <1>2, GlobMoves
    <2>2. ASSUME NEW k \in 1..Len(Files(l)), k \notin left'
          PROVE  Settled(l, k)'
      <3>1. Files(l)[k] \in Sensor /\ sysfs[Files(l)[k]] = "absent"
        BY <2>1, <2>2, FileTyped DEF Listed
      <3>2. Files(l)[k] \in troubled
        BY <1>2, <3>1 DEF HistoryInv, Good, Glob, Loops
      <3> QED BY <2>1, <3>2 DEF Settled
    <2>3. \A o \in Loops : Reading(o)' =>
             \A k \in 1..Len(Files(o)) : k \in left' \/ Settled(o, k)'
      BY <2>1, <2>2
    <2>4. \A o \in Loops : Over(o)' =>
             \/ Len(table'[o]) = Limit[o]
             \/ \A k \in 1..Len(Files(o)) : Settled(o, k)'
      BY <2>1, <2>2 DEF SkipInv, Settled
    <2> QED BY <2>3, <2>4 DEF SkipInv
  <1>3. ASSUME NEW l \in Loops, NEW k \in left, Read(l, k)
        PROVE  SkipInv'
    <2> DEFINE s == Files(l)[k]
    <2>1. /\ Reading(l) /\ ~Over(l) /\ s \in Sensor
          /\ left' = left \ {k} /\ troubled' = troubled
          /\ \A o \in Loops : /\ Over(o)' <=> Over(o)
                              /\ o # l => ~Reading(o)'
                              /\ o # l => table'[o] = table[o]
          /\ \/ s \in Good /\ table'[l] = Append(table[l], s)
             \/ s \notin Good /\ table'[l] = table[l]
      BY <1>3, ReadMoves
    <2>2. table[l] \in Seq(Sensor)
      BY DEF TypeOK
    <2>3. /\ RangeOf(table[l]) \subseteq RangeOf(table'[l])
          /\ s \in RangeOf(table'[l]) \cup troubled
      <3>1. CASE s \in Good /\ table'[l] = Append(table[l], s)
        BY <2>1, <2>2, <3>1, RangeOfAppend
      <3>2. CASE s \notin Good /\ table'[l] = table[l]
        BY <2>1, <3>2 DEF HistoryInv, Reading, Loops
      <3> QED BY <2>1, <3>1, <3>2
    <2>4. ASSUME NEW m \in 1..Len(Files(l)), m \notin left'
          PROVE  Settled(l, m)'
      <3>1. CASE m = k
        BY <2>1, <2>3, <3>1 DEF Settled
      <3>2. CASE m \notin left
        <4>1. Settled(l, m)
          BY <2>1, <3>2 DEF SkipInv
        <4> QED BY <2>1, <2>3, <4>1 DEF Settled
      <3> QED BY <2>1, <2>4, <3>1, <3>2
    <2> HIDE DEF s
    <2>5. \A o \in Loops : Reading(o)' =>
             \A m \in 1..Len(Files(o)) : m \in left' \/ Settled(o, m)'
      BY <2>1, <2>4
    <2>6. \A o \in Loops : Over(o)' =>
             \/ Len(table'[o]) = Limit[o]
             \/ \A m \in 1..Len(Files(o)) : Settled(o, m)'
      BY <2>1 DEF SkipInv, Settled
    <2> QED BY <2>5, <2>6 DEF SkipInv
  <1>4. ASSUME NEW l \in Loops, EndLoop(l)
        PROVE  SkipInv'
    <2>1. /\ table' = table /\ troubled' = troubled
          /\ left = {} \/ Len(table[l]) = Limit[l]
          /\ Reading(l) /\ \A o \in Loops : ~Reading(o)'
          /\ \A o \in Loops \ {l} : Over(o)' <=> Over(o)
      BY <1>4, EndMoves
    <2>2. \/ Len(table[l]) = Limit[l]
          \/ \A k \in 1..Len(Files(l)) : Settled(l, k)
      BY <2>1 DEF SkipInv
    <2> QED BY <2>1, <2>2 DEF SkipInv, Settled
  <1>5. ASSUME NEW s \in Sensor, NEW state \in FileState, Change(s, state)
        PROVE  SkipInv'
    <2>1. /\ table' = table /\ left' = left /\ troubled \subseteq troubled'
          /\ \A o \in Loops : (Over(o)' <=> Over(o)) /\ (Reading(o)' <=> Reading(o))
      BY <1>5, ChangeMoves
    <2> QED BY <2>1 DEF SkipInv, Settled
  <1>6. CASE UNCHANGED vars
    <2>1. /\ table' = table /\ left' = left /\ troubled' = troubled
          /\ \A o \in Loops : (Over(o)' <=> Over(o)) /\ (Reading(o)' <=> Reading(o))
      BY <1>6, StutterMoves
    <2> QED BY <2>1 DEF SkipInv, Settled
  <1> QED BY <1>1, <1>2, <1>3, <1>4, <1>5, <1>6, StepCases

\* The bits stay right as long as they, the loops that are over and the tables
\* of these are what they were.
LEMMA BitsKept ==
    ASSUME BitInv, capabilities' = capabilities,
           \A o \in Loops : Over(o) => Over(o)',
           \A o \in Loops : Over(o)' /\ table'[o] # <<>> => Over(o),
           \A o \in Loops : Over(o) => table'[o] = table[o]
    PROVE  BitInv'
  BY DEF BitInv, Loops

LEMMA BitsAre ==
    /\ Bits("zones") = {"LINUX_THERMAL"}
    /\ Bits("hwmon") = {"LINUX_HWMON"}
    /\ Bits("clusters") = IF table["clusters"] # <<>>
                          THEN {"ARM_SCMI", "LINUX_THERMAL"} ELSE {}
  BY DEF Bits

LEMMA BitStep ==
    ASSUME TypeOK, ControlInv, EntryInv, BitInv, [Next]_vars
    PROVE  BitInv'
  <1>1. CASE Begin
    <2>1. capabilities' = {} /\ \A o \in Loops : ~Over(o)'
      BY <1>1, BeginMoves DEF Begin
    <2> QED BY <2>1 DEF BitInv, Loops
  <1>2. ASSUME NEW l \in Loops, Glob(l)
        PROVE  BitInv'
    <2>1. /\ table' = table /\ capabilities' = capabilities
          /\ ~Reading(l) /\ ~Over(l)
          /\ \A o \in Loops \ {l} : Over(o)' <=> Over(o)
      BY <1>2, GlobMoves
    <2>2. table[l] = <<>>
      BY <2>1 DEF EntryInv
    <2> QED BY <2>1, <2>2, BitsKept
  <1>3. ASSUME NEW l \in Loops, NEW k \in left, Read(l, k)
        PROVE  BitInv'
    <2>1. /\ ~Over(l) /\ capabilities' = capabilities
          /\ \A o \in Loops : /\ Over(o)' <=> Over(o)
                              /\ o # l => table'[o] = table[o]
      BY <1>3, ReadMoves DEF Read
    <2> QED BY <2>1, BitsKept
  <1>4. ASSUME NEW l \in Loops, EndLoop(l)
        PROVE  BitInv'
    <2>1. /\ table' = table /\ capabilities' = capabilities \cup Bits(l)
          /\ Reading(l) /\ ~Over(l) /\ Over(l)'
          /\ \A o \in Loops \ {l} : Over(o)' <=> Over(o)
      BY <1>4, EndMoves
    <2>2. Files(l) # <<>> /\ pc = l
      BY <2>1 DEF ControlInv, Reading
    <2>3. CASE l = "zones"
      BY <2>1, <2>2, <2>3, BitsAre DEF BitInv, Files, Loops
    <2>4. CASE l = "hwmon"
      BY <2>1, <2>2, <2>4, BitsAre DEF BitInv, Files, Loops
    <2>5. CASE l = "clusters"
      <3>1. Over("zones")' /\ Over("hwmon")' /\ Zones # <<>>
        BY <2>1, <2>2, <2>5, OverIs DEF Files, Loops
      <3> QED BY <2>1, <2>5, <3>1, BitsAre DEF BitInv, Loops
    <2> QED BY <2>3, <2>4, <2>5 DEF Loops
  <1>5. ASSUME NEW s \in Sensor, NEW state \in FileState, Change(s, state)
        PROVE  BitInv'
    BY <1>5, ChangeMoves, BitsKept
  <1>6. CASE UNCHANGED vars
    BY <1>6, StutterMoves, BitsKept
  <1> QED BY <1>1, <1>2, <1>3, <1>4, <1>5, <1>6, StepCases

-------------------------------------------------------------------------------
(* Theorems *)

LEMMA InvInit == Init => IInv
  <1> SUFFICES ASSUME Init
               PROVE  IInv
    OBVIOUS
  <1>1. /\ pc = "idle" /\ phase = "glob"
        /\ table = [l \in Loops |-> <<>>] /\ capabilities = {} /\ readable = {}
    BY DEF Init
  <1>2. \A l \in Loops : ~Reading(l) /\ ~Over(l) /\ table[l] = <<>>
    BY <1>1, OverIs DEF Reading, Loops
  <1>3. TypeOK
    <2>1. \A l \in Loops : Limit[l] \in Nat
      BY SysfsAssumption
    <2>2. /\ table \in [Loops -> Seq(Sensor)]
          /\ \A l \in Loops : Len(table[l]) <= Limit[l]
      BY <1>1, <2>1, EmptyTable
    <2> QED BY <2>2 DEF Init, TypeOK
  <1>4. ControlInv /\ HistoryInv
    BY <1>1, <1>2 DEF ControlInv, HistoryInv
  <1>5. EntryInv
    <2>1. \A l \in Loops : RangeOf(table[l]) = {} /\ InOrder(l, table[l])
      BY <1>2, EmptyTable
    <2> QED BY <1>2, <2>1 DEF EntryInv
  <1>6. SkipInv
    BY <1>2 DEF SkipInv
  <1>7. BitInv
    BY <1>1, <1>2 DEF BitInv, Loops
  <1> QED BY <1>3, <1>4, <1>5, <1>6, <1>7 DEF IInv

LEMMA InvStep == IInv /\ [Next]_vars => IInv'
  BY TypeStep, ControlStep, HistoryStep, EntryStep, SkipStep, BitStep DEF IInv

\* The inductive invariant holds in every reachable state of the collectors.
THEOREM Invariant == Spec => []IInv
  BY InvInit, InvStep, PTL DEF Spec

\* The sysfs collectors keep their variables in range, the tables of any size
\* included (linux_sysfs.c:66, 99; cpu_arm64.c:48).
THEOREM TypeCorrect == Spec => []TypeOK
  <1>1. IInv => TypeOK
    BY DEF IInv
  <1> QED BY <1>1, Invariant, PTL

LEMMA EntriesAreRange == \A l \in Loops : Entries(l) = RangeOf(table[l])
  BY DEF Entries, RangeOf

\* Whatever the kernel does between glob and the reads, an entry is of a sensor
\* that was readable in this snapshot, and a table has them in the order of
\* glob, without one twice (linux_sysfs.c:74, 108; cpu_arm64.c:58).
THEOREM EntriesCorrect == Spec => []NothingInvented
  <1>1. IInv => NothingInvented
    BY EntriesAreRange DEF IInv, EntryInv, InOrder, NothingInvented
  <1> QED BY <1>1, Invariant, PTL

\* A sensor without entry had trouble in this snapshot, or the table is full: no
\* failed read costs another sensor its entry (linux_sysfs.c:75, 109;
\* cpu_arm64.c:59).
THEOREM NoneSkipped == Spec => []NothingSkipped
  <1>1. IInv => NothingSkipped
    BY EntriesAreRange DEF IInv, SkipInv, Settled, NothingSkipped
  <1> QED BY <1>1, Invariant, PTL

\* A loop that is over and has files has an entry, or a sensor of it had trouble.
LEMMA EntryOrTrouble ==
    ASSUME TypeOK, SkipInv, NEW l \in Loops, Over(l), Files(l) # <<>>
    PROVE  table[l] # <<>> \/ \E i \in 1..Len(Files(l)) : Files(l)[i] \in troubled
  <1>1. 1 \in 1..Len(Files(l))
    BY FileTyped
  <1>2. CASE Len(table[l]) = Limit[l]
    <2>1. Limit[l] # 0
      BY SysfsAssumption
    <2> QED BY <1>2, <2>1, EmptyTable
  <1>3. CASE \A k \in 1..Len(Files(l)) : Settled(l, k)
    <2>1. Files(l)[1] \in RangeOf(table[l]) \cup troubled
      BY <1>1, <1>3 DEF Settled
    <2> QED BY <1>1, <2>1, EmptyTable
  <1> QED BY <1>2, <1>3 DEF SkipInv

\* The bits of a finished snapshot say what its tables hold (linux_sysfs.c:93,
\* 134; cpu_arm64.c:81).
THEOREM BitsCorrect == Spec => []EntriesHaveBits
  <1>1. IInv => EntriesHaveBits
    <2> SUFFICES ASSUME IInv, pc = "done"
                 PROVE  EntriesHaveBits
      BY DEF EntriesHaveBits
    <2>1. TypeOK /\ EntryInv /\ SkipInv /\ BitInv
      BY DEF IInv
    <2>2. /\ Over("zones") /\ Over("hwmon")
          /\ ~Over("clusters") => table["clusters"] = <<>>
      BY <2>1, OverIs DEF EntryInv, Reading, Loops
    <2>3. "LINUX_THERMAL" \in capabilities =>
             table["zones"] # <<>> \/ \E i \in 1..Len(Zones) : Zones[i] \in troubled
      <3>1. Files("zones") = Zones /\ "zones" \in Loops
        BY DEF Files, Loops
      <3> QED BY <2>1, <2>2, <3>1, EntryOrTrouble DEF BitInv
    <2>4. "LINUX_HWMON" \in capabilities =>
             table["hwmon"] # <<>> \/ \E i \in 1..Len(Hwmons) : Hwmons[i] \in troubled
      <3>1. Files("hwmon") = Hwmons /\ "hwmon" \in Loops
        BY DEF Files, Loops
      <3> QED BY <2>1, <2>2, <3>1, EntryOrTrouble DEF BitInv
    <2> QED BY <2>1, <2>2, <2>3, <2>4 DEF BitInv, EntriesHaveBits
  <1> QED BY <1>1, Invariant, PTL

\* A step clears a table, adds an entry to it within its limit, or leaves it.
LEMMA TableMoves ==
    ASSUME IInv, [Next]_vars, NEW l \in Loops, table'[l] # table[l]
    PROVE  \/ table'[l] = <<>>
           \/ /\ Len(table[l]) < Limit[l]
              /\ table'[l] \in Seq(Sensor) /\ Len(table'[l]) = Len(table[l]) + 1
              /\ \A i \in 1..Len(table[l]) : table'[l][i] = table[l][i]
  <1>1. CASE Begin
    BY <1>1, BeginMoves
  <1>2. ASSUME NEW o \in Loops, NEW k \in left, Read(o, k)
        PROVE  /\ Len(table[l]) < Limit[l]
               /\ table'[l] \in Seq(Sensor) /\ Len(table'[l]) = Len(table[l]) + 1
               /\ \A i \in 1..Len(table[l]) : table'[l][i] = table[l][i]
    <2>1. /\ l = o /\ Len(table[l]) < Limit[l]
          /\ Files(l)[k] \in Sensor /\ table'[l] = Append(table[l], Files(l)[k])
      BY <1>2, ReadMoves DEF IInv
    <2>2. table[l] \in Seq(Sensor)
      BY DEF IInv, TypeOK
    <2> QED BY <2>1, <2>2, AppendOne
  <1> QED BY <1>1, <1>2, Kept

\* Each of the three tables only grows, by entries at its end and within its
\* limit, until the next snapshot clears it.
THEOREM TableRefinement == Spec => ImplementsTables
  <1>1. Init => ZoneTable!Init /\ HwmonTable!Init /\ ClusterTable!Init
    BY DEF Init, Loops, ZoneTable!Init, HwmonTable!Init, ClusterTable!Init
  <1>2. IInv /\ [Next]_vars => [ZoneTable!Next]_(table["zones"])
    BY TableMoves DEF Loops, ZoneTable!Next, ZoneTable!Clear, ZoneTable!Add
  <1>3. IInv /\ [Next]_vars => [HwmonTable!Next]_(table["hwmon"])
    BY TableMoves DEF Loops, HwmonTable!Next, HwmonTable!Clear, HwmonTable!Add
  <1>4. IInv /\ [Next]_vars => [ClusterTable!Next]_(table["clusters"])
    BY TableMoves DEF Loops, ClusterTable!Next, ClusterTable!Clear, ClusterTable!Add
  <1> QED BY <1>1, <1>2, <1>3, <1>4, Invariant, PTL
          DEF Spec, ImplementsTables, ZoneTable!Spec, HwmonTable!Spec,
              ClusterTable!Spec

===============================================================================
