------------------------------- MODULE Platform -------------------------------
(***************************************************************************)
(* The collectors of chassis telemetry, ipmi.c and redfish.c, as           *)
(* tm_collect_snapshot runs them one after the other.  Both append to the  *)
(* snapshot's board table and set capability bits from what it holds.      *)
(*                                                                         *)
(* A line of input is a row, the sequence of texts strtok makes of it: two *)
(* separators in a row count as one, so an empty column is not there and   *)
(* the columns after it move up.  What the C library makes of a text is    *)
(* given by constant functions: Scan is sscanf("%lf %31s"), Number is      *)
(* atof.  The unit of an entry follows its sensor type and is left out,    *)
(* and so is the truncation of names.                                      *)
(***************************************************************************)
EXTENDS Naturals, Sequences, SequencesExt

CONSTANTS
    MaxBoard,       \* TM_MAX_BOARD_SENSORS
    MaxFans,        \* TM_MAX_FANS
    MaxRows,        \* bound on the rows of one source in one snapshot
    Field,          \* the texts that occur in rows
    Scan,           \* items, value and unit scanned from a text
    Number,         \* the number at the start of a text, or 0
    TempUnit,       \* units that contain "degrees" or "C"
    FanUnit,        \* units that contain "RPM"
    PowerUnit,      \* units that contain "Watts"
    IpmiRows,       \* rows ipmitool may print
    RedfishRows     \* rows the file TM_REDFISH_SAMPLE may hold

ASSUME PlatformAssumption ==
    /\ MaxBoard \in Nat \ {0} /\ MaxFans \in Nat \ {0} /\ MaxRows \in Nat
    /\ \A f \in Field : Scan[f].items \in 0..2 /\ Scan[f].value \in Nat
    /\ \A f \in Field : Number[f] \in Nat
    /\ IpmiRows \subseteq Seq(Field) /\ RedfishRows \subseteq Seq(Field)

VARIABLES
    pc,             \* which collector runs, and where it is
    board,          \* snap->board_sensors
    fans,           \* snap->fan_sensors
    capabilities,   \* the platform bits of snap->capabilities
    ipmiRead,       \* auxiliary: rows read from ipmitool in this snapshot
    redfishRead     \* auxiliary: rows read from the Redfish sample

vars == <<pc, board, fans, capabilities, ipmiRead, redfishRead>>

BoardEntry == [name: Field, sensor_type: Field \cup {"temperature", "power"},
               source: {"ipmi", "redfish"}, value: Nat]

FanEntry == [name: Field, source: {"ipmi"}, rpm: Nat]

TypeOK ==
    /\ pc \in {"idle", "ipmi", "ipmi_rows", "redfish", "redfish_rows", "done"}
    /\ board \in Seq(BoardEntry) /\ Len(board) <= MaxBoard
    /\ fans \in Seq(FanEntry) /\ Len(fans) <= MaxFans
    /\ capabilities \subseteq {"IPMI", "REDFISH"}
    /\ ipmiRead \in Seq(IpmiRows) /\ Len(ipmiRead) <= MaxRows
    /\ redfishRead \in Seq(RedfishRows) /\ Len(redfishRead) <= MaxRows

Init ==
    /\ pc = "idle"
    /\ board = <<>> /\ fans = <<>>
    /\ capabilities = {}
    /\ ipmiRead = <<>> /\ redfishRead = <<>>

-------------------------------------------------------------------------------
(* Rows and entries *)

\* ipmi.c takes the second token for "<number> <unit>"; the rest is ignored.
Readable(row) ==
    /\ Len(row) >= 2
    /\ Scan[row[2]].items = 2

UnitOf(row) == Scan[row[2]].unit

IpmiBoardEntry(row, type) ==
    [name |-> row[1], sensor_type |-> type, source |-> "ipmi",
     value |-> Scan[row[2]].value]

\* What a row adds to a table: no entry or one.
IpmiBoard(row) ==
    IF Readable(row) /\ UnitOf(row) \in TempUnit
    THEN <<IpmiBoardEntry(row, "temperature")>>
    ELSE IF Readable(row) /\ UnitOf(row) \in PowerUnit \ FanUnit
    THEN <<IpmiBoardEntry(row, "power")>>
    ELSE <<>>

IpmiFans(row) ==
    IF Readable(row) /\ UnitOf(row) \in FanUnit \ TempUnit
    THEN <<[name |-> row[1], source |-> "ipmi",
            rpm |-> Scan[row[2]].value]>>
    ELSE <<>>

\* redfish.c wants name, type, value and unit; fans go to the board table too.
RedfishBoard(row) ==
    IF Len(row) >= 4
    THEN <<[name |-> row[1], sensor_type |-> row[2],
            source |-> "redfish", value |-> Number[row[3]]]>>
    ELSE <<>>

\* Faulty variant: one entry too many.
AddOneMore(table, limit, entries) ==
    IF Len(table) <= limit THEN table \o entries ELSE table

\* Faulty variant: a full table has its last entry replaced.
AddOver(table, limit, entries) ==
    IF Len(table) + Len(entries) <= limit THEN table \o entries
    ELSE Front(table) \o entries

\* add_board_sensor, add_fan_sensor: a full table takes no more.
AddTo(table, limit, entries) ==
    IF Len(table) < limit THEN table \o entries ELSE table

-------------------------------------------------------------------------------
(* The collectors *)

\* Faulty variant: the entries of the last snapshot are still there.
NewSnapshotUncleared ==
    /\ pc \in {"idle", "done"}
    /\ pc' = "ipmi"
    /\ capabilities' = {}
    /\ ipmiRead' = <<>> /\ redfishRead' = <<>>
    /\ UNCHANGED <<board, fans>>

\* tm_collect_snapshot clears the snapshot; the collectors it runs before
\* tm_collect_ipmi do not touch the platform tables.
NewSnapshot ==
    /\ pc \in {"idle", "done"}
    /\ pc' = "ipmi"
    /\ board' = <<>> /\ fans' = <<>>
    /\ capabilities' = {}
    /\ ipmiRead' = <<>> /\ redfishRead' = <<>>

\* ipmitool is not installed, or popen fails.
IpmiAbsent ==
    /\ pc = "ipmi"
    /\ pc' = "redfish"
    /\ UNCHANGED <<board, fans, capabilities, ipmiRead, redfishRead>>

IpmiOpen ==
    /\ pc = "ipmi"
    /\ pc' = "ipmi_rows"
    /\ UNCHANGED <<board, fans, capabilities, ipmiRead, redfishRead>>

IpmiRow(row) ==
    /\ pc = "ipmi_rows"
    /\ Len(ipmiRead) < MaxRows
    /\ ipmiRead' = Append(ipmiRead, row)
    /\ board' = AddTo(board, MaxBoard, IpmiBoard(row))
    /\ fans' = AddTo(fans, MaxFans, IpmiFans(row))
    /\ UNCHANGED <<pc, capabilities, redfishRead>>

\* Faulty variant: the bit says that ipmitool ran.
IpmiEndAlways ==
    /\ pc = "ipmi_rows"
    /\ pc' = "redfish"
    /\ capabilities' = capabilities \cup {"IPMI"}
    /\ UNCHANGED <<board, fans, ipmiRead, redfishRead>>

\* End of file: ipmitool is done, or died on the way.
IpmiEnd ==
    /\ pc = "ipmi_rows"
    /\ pc' = "redfish"
    /\ capabilities' = IF board # <<>> \/ fans # <<>>
                       THEN capabilities \cup {"IPMI"} ELSE capabilities
    /\ UNCHANGED <<board, fans, ipmiRead, redfishRead>>

\* TM_REDFISH_SAMPLE is not set, or names no file; or the file that file_exists
\* found is gone when fopen wants it.
RedfishAbsent ==
    /\ pc = "redfish"
    /\ pc' = "done"
    /\ UNCHANGED <<board, fans, capabilities, ipmiRead, redfishRead>>

RedfishOpen ==
    /\ pc = "redfish"
    /\ pc' = "redfish_rows"
    /\ UNCHANGED <<board, fans, capabilities, ipmiRead, redfishRead>>

RedfishRow(row) ==
    /\ pc = "redfish_rows"
    /\ Len(redfishRead) < MaxRows
    /\ redfishRead' = Append(redfishRead, row)
    /\ board' = AddTo(board, MaxBoard, RedfishBoard(row))
    /\ UNCHANGED <<pc, fans, capabilities, ipmiRead>>

\* The bit depends on the whole board table, whoever filled it.
RedfishEnd ==
    /\ pc = "redfish_rows"
    /\ pc' = "done"
    /\ capabilities' = IF board # <<>>
                       THEN capabilities \cup {"REDFISH"} ELSE capabilities
    /\ UNCHANGED <<board, fans, ipmiRead, redfishRead>>

Next ==
    \/ NewSnapshot
    \/ IpmiAbsent \/ IpmiOpen \/ IpmiEnd
    \/ \E row \in IpmiRows : IpmiRow(row)
    \/ RedfishAbsent \/ RedfishOpen \/ RedfishEnd
    \/ \E row \in RedfishRows : RedfishRow(row)

Spec == Init /\ [][Next]_vars

-------------------------------------------------------------------------------
(* Properties *)

First(s, limit) == SubSeq(s, 1, IF Len(s) < limit THEN Len(s) ELSE limit)

Entries(Of(_), rows) ==
    FlattenSeq([i \in 1..Len(rows) |-> Of(rows[i])])

\* At every moment the tables hold the first entries that fit of all the rows
\* read so far in this snapshot, IPMI's before Redfish's, in the order of the
\* rows: whatever is missing was missing room (add_board_sensor, ipmi.c:27,
\* redfish.c:28; add_fan_sensor, ipmi.c:41; memset, thermal_main.c:18).
TablesMatchInput ==
    /\ board = First(Entries(IpmiBoard, ipmiRead)
                       \o Entries(RedfishBoard, redfishRead), MaxBoard)
    /\ fans = First(Entries(IpmiFans, ipmiRead), MaxFans)

From(source) ==
    \/ \E i \in 1..Len(board) : board[i].source = source
    \/ \E i \in 1..Len(fans) : fans[i].source = source

\* The IPMI bit is set only if ipmitool gave an entry, and a finished snapshot
\* has the bit of every source it has entries from (ipmi.c:100, redfish.c:84).
CapabilitiesExplained ==
    /\ "IPMI" \in capabilities => From("ipmi")
    /\ pc = "done" /\ From("ipmi") => "IPMI" \in capabilities
    /\ pc = "done" /\ From("redfish") => "REDFISH" \in capabilities

\* "Each collector only fills fields it can prove" (docs/design.md:19): what is
\* reported for a sensor stands in the reading column, the fifth of a row of
\* "ipmitool sdr elist all".
IpmiReportsReadings ==
    \A i \in 1..Len(board) :
        board[i].source = "ipmi" =>
            \E j \in 1..Len(ipmiRead) :
                /\ ipmiRead[j][1] = board[i].name
                /\ Scan[ipmiRead[j][5]].items = 2
                /\ Scan[ipmiRead[j][5]].value = board[i].value

-------------------------------------------------------------------------------
(* Both tables are bounded tables that only grow within a snapshot. *)

BoardTable == INSTANCE SensorTable WITH
    Limit <- MaxBoard, Entry <- BoardEntry, table <- board

FanTable == INSTANCE SensorTable WITH
    Limit <- MaxFans, Entry <- FanEntry, table <- fans

ImplementsTables == BoardTable!Spec /\ FanTable!Spec

===============================================================================
