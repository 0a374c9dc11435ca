---------------------------- MODULE Platform_proofs ----------------------------
(***************************************************************************)
(* Proofs about Platform.tla, for tables of any size and any input.  The   *)
(* invariant says where the entries of the board table come from at each   *)
(* stage of the snapshot: only from IPMI before redfish.c reads its file.  *)
(***************************************************************************)
EXTENDS Platform, WellFoundedInduction, TLAPS

\* Until Redfish has rows of its own, every entry is IPMI's.
SourceInv ==
    /\ pc \in {"ipmi", "ipmi_rows", "redfish"} =>
          \A i \in 1..Len(board) : board[i].source = "ipmi"
    /\ pc \in {"idle", "ipmi"} => board = <<>> /\ fans = <<>>

\* The bits follow the tables once a collector has finished.
BitInv ==
    /\ pc \in {"redfish", "redfish_rows"} /\ From("ipmi") =>
          "IPMI" \in capabilities
    /\ CapabilitiesExplained

\* The tables follow the rows, and Redfish's rows come last.
MatchInv ==
    /\ pc \in {"ipmi", "ipmi_rows", "redfish"} => redfishRead = <<>>
    /\ TablesMatchInput

IInv == TypeOK /\ SourceInv /\ BitInv /\ MatchInv

-------------------------------------------------------------------------------
(* Sequences and rows *)

LEMMA EmptySeq == ASSUME NEW S PROVE <<>> \in Seq(S) /\ Len(<<>>) = 0
  OBVIOUS

LEMMA AppendOne ==
    ASSUME NEW S, NEW s \in Seq(S), NEW e \in S
    PROVE  /\ Append(s, e) \in Seq(S)
           /\ Len(Append(s, e)) = Len(s) + 1
           /\ Append(s, e)[Len(s) + 1] = e
           /\ \A i \in 1..Len(s) : Append(s, e)[i] = s[i]
  OBVIOUS

\* Adding no entry or one, with or without room: the table stays as it is or
\* gets the entry at its end.
LEMMA AddToCases ==
    ASSUME NEW S, NEW s \in Seq(S), NEW limit \in Nat, Len(s) <= limit,
           NEW entries, entries = <<>> \/ \E e \in S : entries = <<e>>
    PROVE  \/ AddTo(s, limit, entries) = s
              /\ (entries = <<>> \/ Len(s) = limit)
           \/ /\ Len(s) < limit
              /\ \E e \in S : /\ entries = <<e>>
                              /\ AddTo(s, limit, entries) = Append(s, e)
  <1>1. CASE Len(s) = limit
    BY <1>1 DEF AddTo
  <1>2. CASE Len(s) < limit /\ entries = <<>>
    <2>1. s \o <<>> = s
      OBVIOUS
    <2> QED BY <1>2, <2>1 DEF AddTo
  <1>3. CASE Len(s) < limit /\ \E e \in S : entries = <<e>>
    <2>1. PICK e \in S : entries = <<e>>
      BY <1>3
    <2>2. s \o <<e>> = Append(s, e)
      OBVIOUS
    <2> QED BY <1>3, <2>1, <2>2 DEF AddTo
  <1> QED BY <1>1, <1>2, <1>3

LEMMA AddNothing ==
    ASSUME NEW S, NEW s \in Seq(S), NEW limit
    PROVE  AddTo(s, limit, <<>>) = s
  <1>1. s \o <<>> = s
    OBVIOUS
  <1> QED BY <1>1 DEF AddTo

\* A table that got one more entry within its limit is still a table.
LEMMA AddedOne ==
    ASSUME NEW S, NEW s \in Seq(S), NEW limit \in Nat, Len(s) < limit,
           NEW e \in S
    PROVE  Append(s, e) \in Seq(S) /\ Len(Append(s, e)) <= limit
  BY AppendOne

\* A table that stays or gets one more entry keeps what it holds.
LEMMA Kept ==
    ASSUME NEW S, NEW s \in Seq(S), NEW t,
           t = s \/ \E e \in S : t = Append(s, e)
    PROVE  \A i \in 1..Len(s) : i \in 1..Len(t) /\ t[i] = s[i]
  <1>1. CASE t = s
    BY <1>1
  <1>2. CASE \E e \in S : t = Append(s, e)
    <2>1. PICK e \in S : t = Append(s, e)
      BY <1>2
    <2> QED BY <2>1, AppendOne
  <1> QED BY <1>1, <1>2

\* A place of a table holds an entry.
LEMMA Element ==
    ASSUME NEW S, NEW s \in Seq(S), NEW i \in 1..Len(s)
    PROVE  s[i] \in S
  OBVIOUS

\* A row of "ipmitool sdr" makes no board entry or one with source "ipmi".
LEMMA IpmiBoardType ==
    ASSUME NEW row \in IpmiRows
    PROVE  \/ IpmiBoard(row) = <<>>
           \/ \E e \in BoardEntry :
                 IpmiBoard(row) = <<e>> /\ e.source = "ipmi"
  <1>1. row \in Seq(Field)
    BY PlatformAssumption
  <1>2. ASSUME Readable(row), NEW type \in {"temperature", "power"}
        PROVE  /\ IpmiBoardEntry(row, type) \in BoardEntry
               /\ IpmiBoardEntry(row, type).source = "ipmi"
    <2>1. row[1] \in Field /\ row[2] \in Field
      BY <1>1, <1>2 DEF Readable
    <2>2. Scan[row[2]].value \in Nat
      BY <2>1, PlatformAssumption
    <2> QED BY <2>1, <2>2 DEF IpmiBoardEntry, BoardEntry
  <1> QED BY <1>2 DEF IpmiBoard

LEMMA IpmiFansType ==
    ASSUME NEW row \in IpmiRows
    PROVE  IpmiFans(row) = <<>> \/ \E e \in FanEntry : IpmiFans(row) = <<e>>
  <1>1. row \in Seq(Field)
    BY PlatformAssumption
  <1>2. CASE Readable(row)
    <2>1. row[1] \in Field /\ row[2] \in Field
      BY <1>1, <1>2 DEF Readable
    <2>2. Scan[row[2]].value \in Nat
      BY <2>1, PlatformAssumption
    <2>3. [name |-> row[1], source |-> "ipmi", rpm |-> Scan[row[2]].value]
            \in FanEntry
      BY <2>1, <2>2 DEF FanEntry
    <2> QED BY <2>3 DEF IpmiFans
  <1>3. CASE ~Readable(row)
    BY <1>3 DEF IpmiFans
  <1> QED BY <1>2, <1>3

LEMMA RedfishBoardType ==
    ASSUME NEW row \in RedfishRows
    PROVE  \/ RedfishBoard(row) = <<>>
           \/ \E e \in BoardEntry :
                 RedfishBoard(row) = <<e>> /\ e.source = "redfish"
  <1>1. row \in Seq(Field)
    BY PlatformAssumption
  <1>2. CASE Len(row) >= 4
    <2> DEFINE e == [name |-> row[1], sensor_type |-> row[2],
                     source |-> "redfish", value |-> Number[row[3]]]
    <2>1. row[1] \in Field /\ row[2] \in Field /\ row[3] \in Field
      BY <1>1, <1>2
    <2>2. Number[row[3]] \in Nat
      BY <2>1, PlatformAssumption
    <2>3. e \in BoardEntry /\ e.source = "redfish"
      BY <2>1, <2>2 DEF BoardEntry
    <2> QED BY <1>2, <2>3 DEF RedfishBoard
  <1>3. CASE ~(Len(row) >= 4)
    BY <1>3 DEF RedfishBoard
  <1> QED BY <1>2, <1>3

-------------------------------------------------------------------------------
(* What a row does to the tables *)

LEMMA IpmiRowEffect ==
    ASSUME TypeOK, NEW row \in IpmiRows, IpmiRow(row)
    PROVE  /\ \/ board' = board
                 /\ (IpmiBoard(row) = <<>> \/ Len(board) = MaxBoard)
              \/ /\ Len(board) < MaxBoard
                 /\ \E e \in BoardEntry : /\ IpmiBoard(row) = <<e>>
                                          /\ e.source = "ipmi"
                                          /\ board' = Append(board, e)
           /\ \/ fans' = fans
              \/ /\ Len(fans) < MaxFans
                 /\ \E e \in FanEntry : fans' = Append(fans, e)
  <1>1. board \in Seq(BoardEntry) /\ Len(board) <= MaxBoard /\ MaxBoard \in Nat
    BY PlatformAssumption DEF TypeOK
  <1>2. fans \in Seq(FanEntry) /\ Len(fans) <= MaxFans /\ MaxFans \in Nat
    BY PlatformAssumption DEF TypeOK
  <1>3. /\ board' = AddTo(board, MaxBoard, IpmiBoard(row))
        /\ fans' = AddTo(fans, MaxFans, IpmiFans(row))
    BY DEF IpmiRow
  <1>4. \/ fans' = fans
        \/ /\ Len(fans) < MaxFans
           /\ \E e \in FanEntry : fans' = Append(fans, e)
    <2>1. IpmiFans(row) = <<>> \/ \E e \in FanEntry : IpmiFans(row) = <<e>>
      BY IpmiFansType
    <2> QED BY <1>2, <1>3, <2>1, AddToCases
  <1>5. CASE IpmiBoard(row) = <<>>
    BY <1>1, <1>3, <1>5, <1>4, AddNothing
  <1>6. CASE IpmiBoard(row) # <<>>
    <2>1. PICK e \in BoardEntry : IpmiBoard(row) = <<e>> /\ e.source = "ipmi"
      BY <1>6, IpmiBoardType
    <2>2. \/ board' = board /\ Len(board) = MaxBoard
          \/ Len(board) < MaxBoard /\ board' = Append(board, e)
      <3>1. CASE Len(board) = MaxBoard
        BY <1>1, <1>3, <3>1 DEF AddTo
      <3>2. CASE Len(board) < MaxBoard
        <4>1. board \o <<e>> = Append(board, e)
          BY <1>1
        <4> QED BY <1>3, <2>1, <3>2, <4>1 DEF AddTo
      <3> QED BY <1>1, <3>1, <3>2
    <2> QED BY <1>4, <2>1, <2>2
  <1> QED BY <1>5, <1>6

LEMMA RedfishRowEffect ==
    ASSUME TypeOK, NEW row \in RedfishRows, RedfishRow(row)
    PROVE  \/ board' = board
              /\ (RedfishBoard(row) = <<>> \/ Len(board) = MaxBoard)
           \/ /\ Len(board) < MaxBoard
              /\ \E e \in BoardEntry : /\ RedfishBoard(row) = <<e>>
                                       /\ e.source = "redfish"
                                       /\ board' = Append(board, e)
  <1>1. board \in Seq(BoardEntry) /\ Len(board) <= MaxBoard /\ MaxBoard \in Nat
    BY PlatformAssumption DEF TypeOK
  <1>2. board' = AddTo(board, MaxBoard, RedfishBoard(row))
    BY DEF RedfishRow
  <1>3. CASE RedfishBoard(row) = <<>>
    BY <1>1, <1>2, <1>3, AddNothing
  <1>4. CASE RedfishBoard(row) # <<>>
    <2>1. PICK e \in BoardEntry :
               RedfishBoard(row) = <<e>> /\ e.source = "redfish"
      BY <1>4, RedfishBoardType
    <2>2. CASE Len(board) = MaxBoard
      BY <1>1, <1>2, <2>2 DEF AddTo
    <2>3. CASE Len(board) < MaxBoard
      <3>1. board \o <<e>> = Append(board, e)
        BY <1>1
      <3> QED BY <1>2, <2>1, <2>3, <3>1 DEF AddTo
    <2> QED BY <1>1, <2>2, <2>3
  <1> QED BY <1>3, <1>4

-------------------------------------------------------------------------------
(* Type correctness *)

LEMMA InitType == Init => TypeOK
  <1> SUFFICES ASSUME Init PROVE TypeOK
    OBVIOUS
  <1>1. /\ board \in Seq(BoardEntry) /\ Len(board) = 0
        /\ fans \in Seq(FanEntry) /\ Len(fans) = 0
        /\ ipmiRead \in Seq(IpmiRows) /\ Len(ipmiRead) = 0
        /\ redfishRead \in Seq(RedfishRows) /\ Len(redfishRead) = 0
    BY EmptySeq DEF Init
  <1> QED BY <1>1, PlatformAssumption DEF Init, TypeOK

LEMMA NextType == TypeOK /\ [Next]_vars => TypeOK'
  <1> SUFFICES ASSUME TypeOK, [Next]_vars PROVE TypeOK'
    OBVIOUS
  <1> USE PlatformAssumption
  <1>1. CASE NewSnapshot
    <2>1. /\ board' \in Seq(BoardEntry) /\ Len(board') = 0
          /\ fans' \in Seq(FanEntry) /\ Len(fans') = 0
          /\ ipmiRead' \in Seq(IpmiRows) /\ Len(ipmiRead') = 0
          /\ redfishRead' \in Seq(RedfishRows) /\ Len(redfishRead') = 0
      BY <1>1, EmptySeq DEF NewSnapshot
    <2> QED BY <1>1, <2>1 DEF NewSnapshot, TypeOK
  <1>2. ASSUME NEW row \in IpmiRows, IpmiRow(row) PROVE TypeOK'
    <2>1. board' \in Seq(BoardEntry) /\ Len(board') <= MaxBoard
      <3>1. \/ board' = board
            \/ /\ Len(board) < MaxBoard
               /\ \E e \in BoardEntry : board' = Append(board, e)
        BY <1>2, IpmiRowEffect
      <3> QED BY <3>1, AddedOne DEF TypeOK
    <2>2. fans' \in Seq(FanEntry) /\ Len(fans') <= MaxFans
      <3>1. \/ fans' = fans
            \/ /\ Len(fans) < MaxFans
               /\ \E e \in FanEntry : fans' = Append(fans, e)
        BY <1>2, IpmiRowEffect
      <3> QED BY <3>1, AddedOne DEF TypeOK
    <2>3. ipmiRead' \in Seq(IpmiRows) /\ Len(ipmiRead') <= MaxRows
      BY <1>2, AppendOne DEF IpmiRow, TypeOK
    <2> QED BY <1>2, <2>1, <2>2, <2>3 DEF IpmiRow, TypeOK
  <1>3. ASSUME NEW row \in RedfishRows, RedfishRow(row) PROVE TypeOK'
    <2>1. board' \in Seq(BoardEntry) /\ Len(board') <= MaxBoard
      <3>1. \/ board' = board
            \/ /\ Len(board) < MaxBoard
               /\ \E e \in BoardEntry : board' = Append(board, e)
        BY <1>3, RedfishRowEffect
      <3> QED BY <3>1, AddedOne DEF TypeOK
    <2>2. redfishRead' \in Seq(RedfishRows) /\ Len(redfishRead') <= MaxRows
      BY <1>3, AppendOne DEF RedfishRow, TypeOK
    <2> QED BY <1>3, <2>1, <2>2 DEF RedfishRow, TypeOK
  <1>4. CASE IpmiAbsent \/ IpmiOpen \/ RedfishAbsent \/ RedfishOpen
    BY <1>4 DEF IpmiAbsent, IpmiOpen, RedfishAbsent, RedfishOpen, TypeOK
  <1>5. CASE IpmiEnd \/ RedfishEnd
    BY <1>5 DEF IpmiEnd, RedfishEnd, TypeOK
  <1>6. CASE UNCHANGED vars
    BY <1>6 DEF vars, TypeOK
  <1> QED BY <1>1, <1>2, <1>3, <1>4, <1>5, <1>6 DEF Next

-------------------------------------------------------------------------------
(* Sources and bits *)

LEMMA NextSource == TypeOK /\ SourceInv /\ [Next]_vars => SourceInv'
  <1> SUFFICES ASSUME TypeOK, SourceInv, [Next]_vars PROVE SourceInv'
    OBVIOUS
  <1> USE DEF SourceInv
  <1>1. CASE NewSnapshot
    <2>1. pc' = "ipmi" /\ board' = <<>> /\ fans' = <<>> /\ Len(board') = 0
      BY <1>1, EmptySeq DEF NewSnapshot
    <2> QED BY <2>1
  <1>2. ASSUME NEW row \in IpmiRows, IpmiRow(row) PROVE SourceInv'
    <2>1. pc = "ipmi_rows" /\ pc' = pc
      BY <1>2 DEF IpmiRow
    <2>2. \/ board' = board
          \/ \E e \in BoardEntry : e.source = "ipmi" /\ board' = Append(board, e)
      BY <1>2, IpmiRowEffect
    <2>3. board \in Seq(BoardEntry)
      BY DEF TypeOK
    <2>4. \A i \in 1..Len(board') : board'[i].source = "ipmi"
      BY <2>1, <2>2, <2>3, AppendOne
    <2> QED BY <2>1, <2>4
  <1>3. ASSUME NEW row \in RedfishRows, RedfishRow(row) PROVE SourceInv'
    BY <1>3 DEF RedfishRow
  <1>4. CASE IpmiAbsent \/ IpmiOpen \/ RedfishAbsent \/ RedfishOpen
    BY <1>4 DEF IpmiAbsent, IpmiOpen, RedfishAbsent, RedfishOpen
  <1>5. CASE IpmiEnd \/ RedfishEnd
    BY <1>5 DEF IpmiEnd, RedfishEnd
  <1>6. CASE UNCHANGED vars
    BY <1>6 DEF vars
  <1> QED BY <1>1, <1>2, <1>3, <1>4, <1>5, <1>6 DEF Next

LEMMA FansAreIpmi ==
    ASSUME TypeOK
    PROVE  \A i \in 1..Len(fans) : fans[i].source = "ipmi"
  <1>1. TAKE i \in 1..Len(fans)
  <1>2. fans[i] \in FanEntry
    BY Element DEF TypeOK
  <1> QED BY <1>2 DEF FanEntry

\* A row of the given source leaves no trace of the other source.
LEMMA FromAfterRow ==
    ASSUME TypeOK, NEW source \in {"ipmi", "redfish"},
           UNCHANGED fans,
           \/ board' = board
           \/ \E e \in BoardEntry : e.source # source /\ board' = Append(board, e)
    PROVE  From(source)' <=> From(source)
  <1>1. board \in Seq(BoardEntry)
    BY DEF TypeOK
  <1>2. CASE board' = board
    BY <1>2 DEF From
  <1>3. CASE \E e \in BoardEntry : e.source # source /\ board' = Append(board, e)
    <2>1. PICK e \in BoardEntry : e.source # source /\ board' = Append(board, e)
      BY <1>3
    <2>2. (\E i \in 1..Len(board') : board'[i].source = source)
            <=> (\E i \in 1..Len(board) : board[i].source = source)
      BY <1>1, <2>1, AppendOne
    <2> QED BY <2>2 DEF From
  <1> QED BY <1>2, <1>3

LEMMA NextBit == TypeOK /\ SourceInv /\ BitInv /\ [Next]_vars => BitInv'
  <1> SUFFICES ASSUME TypeOK, SourceInv, BitInv, [Next]_vars PROVE BitInv'
    OBVIOUS
  <1> USE DEF BitInv, CapabilitiesExplained
  <1>1. CASE NewSnapshot
    BY <1>1 DEF NewSnapshot
  <1>2. ASSUME NEW row \in IpmiRows, IpmiRow(row) PROVE BitInv'
    <2>1. pc = "ipmi_rows" /\ pc' = pc /\ capabilities' = capabilities
      BY <1>2 DEF IpmiRow
    <2>2. From("ipmi") => From("ipmi")'
      <3>1. \/ board' = board
            \/ \E e \in BoardEntry : board' = Append(board, e)
        BY <1>2, IpmiRowEffect
      <3>2. \/ fans' = fans
            \/ \E e \in FanEntry : fans' = Append(fans, e)
        BY <1>2, IpmiRowEffect
      <3>3. board \in Seq(BoardEntry) /\ fans \in Seq(FanEntry)
        BY DEF TypeOK
      <3>4. ASSUME NEW i \in 1..Len(board), board[i].source = "ipmi"
            PROVE  \E k \in 1..Len(board') : board'[k].source = "ipmi"
        <4>1. i \in 1..Len(board') /\ board'[i] = board[i]
          BY <3>1, <3>3, Kept
        <4> QED BY <3>4, <4>1
      <3>5. ASSUME NEW i \in 1..Len(fans), fans[i].source = "ipmi"
            PROVE  \E k \in 1..Len(fans') : fans'[k].source = "ipmi"
        <4>1. i \in 1..Len(fans') /\ fans'[i] = fans[i]
          BY <3>2, <3>3, Kept
        <4> QED BY <3>5, <4>1
      <3> QED BY <3>4, <3>5 DEF From
    <2> QED BY <2>1, <2>2
  <1>3. ASSUME NEW row \in RedfishRows, RedfishRow(row) PROVE BitInv'
    <2>1. /\ pc = "redfish_rows" /\ pc' = pc /\ capabilities' = capabilities
          /\ UNCHANGED fans
      BY <1>3 DEF RedfishRow
    <2>2. \/ board' = board
          \/ \E e \in BoardEntry : e.source = "redfish" /\ board' = Append(board, e)
      BY <1>3, RedfishRowEffect
    <2>3. From("ipmi")' <=> From("ipmi")
      <3>1. \/ board' = board
            \/ \E e \in BoardEntry : e.source # "ipmi" /\ board' = Append(board, e)
        BY <2>2
      <3> QED BY <2>1, <3>1, FromAfterRow
    <2> QED BY <2>1, <2>3
  <1>4. CASE IpmiAbsent \/ IpmiOpen \/ RedfishAbsent \/ RedfishOpen
    <2>1. UNCHANGED <<board, fans, capabilities>>
      BY <1>4 DEF IpmiAbsent, IpmiOpen, RedfishAbsent, RedfishOpen
    <2>2. From("ipmi")' <=> From("ipmi")
      BY <2>1 DEF From
    <2>3. From("redfish")' <=> From("redfish")
      BY <2>1 DEF From
    <2>4. CASE IpmiAbsent \/ IpmiOpen
      <3>1. pc = "ipmi" /\ pc' \in {"redfish", "ipmi_rows"}
        BY <2>4 DEF IpmiAbsent, IpmiOpen
      <3>2. Len(board) = 0 /\ Len(fans) = 0
        BY <3>1, EmptySeq DEF SourceInv
      <3>3. ~From("ipmi")
        BY <3>2 DEF From
      <3> QED BY <2>1, <2>2, <3>1, <3>3
    <2>5. CASE RedfishAbsent \/ RedfishOpen
      <3>1. pc = "redfish" /\ pc' \in {"redfish_rows", "done"}
        BY <2>5 DEF RedfishAbsent, RedfishOpen
      <3>2. \A i \in 1..Len(board) : board[i].source = "ipmi"
        BY <3>1 DEF SourceInv
      <3>3. ~From("redfish")
        BY <3>2, FansAreIpmi DEF From
      <3> QED BY <2>1, <2>2, <2>3, <3>1, <3>3
    <2> QED BY <1>4, <2>4, <2>5
  <1>5. CASE IpmiEnd
    <2>1. /\ pc = "ipmi_rows" /\ pc' = "redfish" /\ UNCHANGED <<board, fans>>
          /\ capabilities' = IF board # <<>> \/ fans # <<>>
                             THEN capabilities \cup {"IPMI"} ELSE capabilities
      BY <1>5 DEF IpmiEnd
    <2>2. From("ipmi")' <=> From("ipmi")
      BY <2>1 DEF From
    <2>3. From("ipmi") <=> board # <<>> \/ fans # <<>>
      <3>1. board # <<>> <=> Len(board) > 0
        BY DEF TypeOK
      <3>2. fans # <<>> <=> Len(fans) > 0
        BY DEF TypeOK
      <3>3. Len(fans) > 0 => \E i \in 1..Len(fans) : fans[i].source = "ipmi"
        <4>1. Len(fans) > 0 => 1 \in 1..Len(fans)
          BY DEF TypeOK
        <4> QED BY <4>1, FansAreIpmi, Zenon
      <3>4. Len(board) > 0 => \E i \in 1..Len(board) : board[i].source = "ipmi"
        BY <2>1 DEF SourceInv, TypeOK
      <3> QED BY <3>1, <3>2, <3>3, <3>4 DEF From, TypeOK
    <2> QED BY <2>1, <2>2, <2>3
  <1>6. CASE RedfishEnd
    <2>1. /\ pc = "redfish_rows" /\ pc' = "done" /\ UNCHANGED <<board, fans>>
          /\ capabilities' = IF board # <<>>
                             THEN capabilities \cup {"REDFISH"} ELSE capabilities
      BY <1>6 DEF RedfishEnd
    <2>2. From("ipmi")' <=> From("ipmi")
      BY <2>1 DEF From
    <2>3. From("redfish")' => board # <<>>
      <3>1. CASE From("redfish")'
        <4>1. From("redfish")
          BY <2>1, <3>1 DEF From
        <4>2. PICK i \in 1..Len(board) : board[i].source = "redfish"
          BY <4>1, FansAreIpmi DEF From
        <4>3. Len(board) # 0
          BY <4>2 DEF TypeOK
        <4> QED BY <4>3, EmptySeq
      <3> QED BY <3>1
    <2> QED BY <2>1, <2>2, <2>3
  <1>7. CASE UNCHANGED vars
    BY <1>7 DEF vars, From
  <1> QED BY <1>1, <1>2, <1>3, <1>4, <1>5, <1>6, <1>7 DEF Next

-------------------------------------------------------------------------------
(* Induction *)

LEMMA SetInduction ==
    ASSUME NEW S, 0 \in S, \A n \in Nat : n \in S => n + 1 \in S
    PROVE  Nat \subseteq S
  <1> DEFINE T == Nat \ S
             less == OpToRel(<, Nat)
  <1>1. SUFFICES ASSUME T # {}
                 PROVE  FALSE
    OBVIOUS
  <1>2. \A x, y \in Nat : x < y => <<x, y>> \in less
    BY DEF OpToRel
  <1>3. PICK n \in T : \A m \in T : <<m, n>> \notin less
    <2>1. IsWellFoundedOn(less, Nat)
      BY NatLessThanWellFounded
    <2> HIDE DEF less
    <2> QED BY <1>1, <2>1, WFMin
  <1> HIDE DEF less
  <1>4. n # 0 /\ n - 1 \in Nat
    OBVIOUS
  <1>5. n - 1 \in S
    <2>1. <<n - 1, n>> \in less
      BY <1>2, <1>4
    <2>2. n - 1 \notin T
      BY <1>3, <2>1
    <2> QED BY <1>4, <2>2
  <1> QED BY <1>3, <1>4, <1>5

-------------------------------------------------------------------------------
(* FlattenSeq *)

\* g is the flattening of the first n sequences, step by step.
Flattens(g, seqs, n) ==
    g = [i \in 1..n |-> IF i = 1 THEN seqs[i] ELSE g[i - 1] \o seqs[i]]

LEMMA FlattenExists ==
    ASSUME NEW S, NEW seqs \in Seq(Seq(S)), NEW n \in Nat, n <= Len(seqs)
    PROVE  \E g : Flattens(g, seqs, n)
  <1> DEFINE Done(g, m) == Flattens(g, seqs, m) /\ \A i \in 1..m : g[i] \in Seq(S)
             N == {m \in Nat : m <= Len(seqs) => \E g : Done(g, m)}
  <1>1. 0 \in N
    <2> DEFINE g == [i \in 1..0 |-> <<>>]
    <2>1. Done(g, 0)
      BY DEF Flattens
    <2> QED BY <2>1
  <1>2. ASSUME NEW m \in Nat, m \in N
        PROVE  m + 1 \in N
    <2> SUFFICES ASSUME m + 1 <= Len(seqs)
                 PROVE  \E h : Done(h, m + 1)
      OBVIOUS
    <2>1. PICK g : Done(g, m)
      BY <1>2
    <2> DEFINE last == IF m = 0 THEN seqs[1] ELSE g[m] \o seqs[m + 1]
               h == [i \in 1..(m + 1) |-> IF i = m + 1 THEN last ELSE g[i]]
    <2>2. last \in Seq(S)
      BY <2>1
    <2>3. \A i \in 1..m : g[i] = IF i = 1 THEN seqs[i] ELSE g[i - 1] \o seqs[i]
      BY <2>1 DEF Flattens
    <2>4. ASSUME NEW i \in 1..(m + 1)
          PROVE  h[i] = IF i = 1 THEN seqs[i] ELSE h[i - 1] \o seqs[i]
      <3>1. CASE i = m + 1
        BY <3>1
      <3>2. CASE i \in 1..m
        BY <2>3, <3>2
      <3> QED BY <3>1, <3>2
    <2>5. Flattens(h, seqs, m + 1)
      <3> HIDE DEF last
      <3>1. h = [i \in 1..(m + 1) |-> h[i]]
        OBVIOUS
      <3> HIDE DEF h
      <3> QED BY <2>4, <3>1 DEF Flattens
    <2>6. \A i \in 1..(m + 1) : h[i] \in Seq(S)
      BY <2>1, <2>2
    <2> QED BY <2>5, <2>6
  <1> HIDE DEF N
  <1>3. Nat \subseteq N
    BY <1>1, <1>2, SetInduction
  <1> QED BY <1>3 DEF N

LEMMA FlattenedTyped ==
    ASSUME NEW S, NEW seqs \in Seq(Seq(S)), NEW g, Flattens(g, seqs, Len(seqs))
    PROVE  \A i \in 1..Len(seqs) : g[i] \in Seq(S)
  <1> DEFINE N == {m \in Nat : m \in 1..Len(seqs) => g[m] \in Seq(S)}
  <1>1. \A i \in 1..Len(seqs) :
           g[i] = IF i = 1 THEN seqs[i] ELSE g[i - 1] \o seqs[i]
    BY DEF Flattens
  <1>2. ASSUME NEW m \in Nat, m \in N
        PROVE  m + 1 \in N
    <2> SUFFICES ASSUME m + 1 \in 1..Len(seqs)
                 PROVE  g[m + 1] \in Seq(S)
      OBVIOUS
    <2>1. seqs[m + 1] \in Seq(S)
      OBVIOUS
    <2>2. CASE m = 0
      BY <1>1, <2>1, <2>2
    <2>3. CASE m # 0
      <3>1. g[m] \in Seq(S)
        BY <1>2, <2>3
      <3>2. m + 1 # 1 /\ (m + 1) - 1 = m
        BY <2>3
      <3>3. g[m + 1] = g[m] \o seqs[m + 1]
        BY <1>1, <3>2, Zenon
      <3> QED BY <2>1, <3>1, <3>3
    <2> QED BY <2>2, <2>3
  <1>3. 0 \in N
    OBVIOUS
  <1> HIDE DEF N
  <1>4. Nat \subseteq N
    BY <1>2, <1>3, SetInduction
  <1> QED BY <1>4 DEF N

\* The concatenation of sequences over S is one over S.
LEMMA FlattenTyped ==
    ASSUME NEW S, NEW seqs \in Seq(Seq(S))
    PROVE  FlattenSeq(seqs) \in Seq(S)
  <1>1. CASE Len(seqs) = 0
    BY <1>1 DEF FlattenSeq
  <1>2. CASE Len(seqs) # 0
    <2> DEFINE g == CHOOSE g : Flattens(g, seqs, Len(seqs))
    <2>1. FlattenSeq(seqs) = g[Len(seqs)]
      BY <1>2, Zenon DEF FlattenSeq, Flattens
    <2>2. PICK f : Flattens(f, seqs, Len(seqs))
      BY FlattenExists
    <2>3. Flattens(g, seqs, Len(seqs))
      BY <2>2
    <2> HIDE DEF g
    <2>4. g[Len(seqs)] \in Seq(S)
      BY <1>2, <2>3, FlattenedTyped
    <2> QED BY <2>1, <2>4
  <1> QED BY <1>1, <1>2

LEMMA FlattenIs ==
    ASSUME NEW S, NEW seqs \in Seq(Seq(S)), Len(seqs) # 0
    PROVE  \E g : Flattens(g, seqs, Len(seqs)) /\ FlattenSeq(seqs) = g[Len(seqs)]
  <1> DEFINE g == CHOOSE g : Flattens(g, seqs, Len(seqs))
  <1>1. FlattenSeq(seqs) = g[Len(seqs)]
    BY Zenon DEF FlattenSeq, Flattens
  <1>2. PICK f : Flattens(f, seqs, Len(seqs))
    BY FlattenExists
  <1>3. Flattens(g, seqs, Len(seqs))
    BY <1>2
  <1> HIDE DEF g
  <1> QED BY <1>1, <1>3

\* One more sequence is one more part at the end.
LEMMA FlattenAppend ==
    ASSUME NEW S, NEW seqs \in Seq(Seq(S)), NEW s \in Seq(S)
    PROVE  FlattenSeq(Append(seqs, s)) = FlattenSeq(seqs) \o s
  <1> DEFINE n == Len(seqs)
             more == Append(seqs, s)
  <1>1. /\ more \in Seq(Seq(S)) /\ Len(more) = n + 1 /\ n \in Nat
        /\ more[n + 1] = s /\ \A i \in 1..n : more[i] = seqs[i]
    BY AppendOne
  <1>2. PICK h : Flattens(h, more, n + 1) /\ FlattenSeq(more) = h[n + 1]
    <2>1. Len(more) # 0
      BY <1>1
    <2>2. PICK h : Flattens(h, more, Len(more)) /\ FlattenSeq(more) = h[Len(more)]
      BY <1>1, <2>1, FlattenIs
    <2> QED BY <1>1, <2>2
  <1> HIDE DEF more
  <1>3. \A i \in 1..(n + 1) :
           h[i] = IF i = 1 THEN more[i] ELSE h[i - 1] \o more[i]
    BY <1>2 DEF Flattens
  <1>4. CASE n = 0
    <2>1. FlattenSeq(seqs) = seqs /\ seqs = <<>>
      BY <1>4 DEF FlattenSeq
    <2>2. h[1] = s
      BY <1>1, <1>3, <1>4
    <2>3. <<>> \o s = s
      OBVIOUS
    <2> QED BY <1>2, <1>4, <2>1, <2>2, <2>3 DEF more
  <1>5. CASE n # 0
    <2>1. PICK g : Flattens(g, seqs, n) /\ FlattenSeq(seqs) = g[n]
      BY <1>5, FlattenIs
    <2>2. \A i \in 1..n : g[i] = IF i = 1 THEN seqs[i] ELSE g[i - 1] \o seqs[i]
      BY <2>1 DEF Flattens
    <2> DEFINE N == {m \in Nat : m \in 1..n => h[m] = g[m]}
    <2>3. 0 \in N
      OBVIOUS
    <2>4. ASSUME NEW m \in Nat, m \in N
          PROVE  m + 1 \in N
      <3> SUFFICES ASSUME m + 1 \in 1..n
                   PROVE  h[m + 1] = g[m + 1]
        OBVIOUS
      <3>1. more[m + 1] = seqs[m + 1]
        BY <1>1
      <3>2. m + 1 \in 1..(n + 1) /\ (m + 1) - 1 = m
        BY <1>1
      <3>3. h[m + 1] = IF m + 1 = 1 THEN more[m + 1]
                       ELSE h[(m + 1) - 1] \o more[m + 1]
        BY <1>3, <3>2, Zenon
      <3>4. g[m + 1] = IF m + 1 = 1 THEN seqs[m + 1]
                       ELSE g[(m + 1) - 1] \o seqs[m + 1]
        BY <2>2, Zenon
      <3>5. m + 1 # 1 => h[m] = g[m]
        BY <2>4
      <3> QED BY <3>1, <3>2, <3>3, <3>4, <3>5, Zenon
    <2> HIDE DEF N
    <2>5. Nat \subseteq N
      BY <2>3, <2>4, SetInduction
    <2>6. h[n] = g[n]
      BY <1>1, <1>5, <2>5 DEF N
    <2>7. n + 1 \in 1..(n + 1) /\ n + 1 # 1 /\ (n + 1) - 1 = n
      BY <1>1, <1>5
    <2>8. h[n + 1] = h[n] \o more[n + 1]
      <3>1. h[n + 1] = h[(n + 1) - 1] \o more[n + 1]
        BY <1>3, <2>7, Zenon
      <3> QED BY <2>7, <3>1, Zenon
    <2> QED BY <1>1, <1>2, <2>1, <2>6, <2>8 DEF more
  <1> QED BY <1>4, <1>5

-------------------------------------------------------------------------------
(* The first entries that fit *)

LEMMA SameSeq ==
    ASSUME NEW S, NEW s \in Seq(S), NEW t \in Seq(S), Len(s) = Len(t),
           \A i \in 1..Len(s) : s[i] = t[i]
    PROVE  s = t
  OBVIOUS

LEMMA FirstIs ==
    ASSUME NEW S, NEW s \in Seq(S), NEW limit \in Nat
    PROVE  /\ First(s, limit) \in Seq(S)
           /\ Len(First(s, limit)) = IF Len(s) < limit THEN Len(s) ELSE limit
           /\ \A i \in 1..Len(First(s, limit)) : First(s, limit)[i] = s[i]
  BY DEF First

LEMMA FirstAdds ==
    ASSUME NEW S, NEW s \in Seq(S), NEW limit \in Nat,
           NEW entries, entries = <<>> \/ \E e \in S : entries = <<e>>
    PROVE  First(s \o entries, limit) = AddTo(First(s, limit), limit, entries)
  <1>1. CASE entries = <<>>
    <2>1. s \o <<>> = s
      OBVIOUS
    <2>2. AddTo(First(s, limit), limit, <<>>) = First(s, limit)
      BY FirstIs, AddNothing
    <2> QED BY <1>1, <2>1, <2>2
  <1>2. CASE \E e \in S : entries = <<e>>
    <2>1. PICK e \in S : entries = <<e>>
      BY <1>2
    <2> DEFINE t == Append(s, e)
    <2>2. s \o <<e>> = t
      OBVIOUS
    <2>3. /\ t \in Seq(S) /\ Len(t) = Len(s) + 1 /\ t[Len(s) + 1] = e
          /\ \A i \in 1..Len(s) : t[i] = s[i]
      BY AppendOne
    <2> HIDE DEF t
    <2>4. /\ First(t, limit) \in Seq(S)
          /\ Len(First(t, limit)) = IF Len(t) < limit THEN Len(t) ELSE limit
          /\ \A i \in 1..Len(First(t, limit)) : First(t, limit)[i] = t[i]
      BY <2>3, FirstIs
    <2>5. /\ First(s, limit) \in Seq(S)
          /\ Len(First(s, limit)) = IF Len(s) < limit THEN Len(s) ELSE limit
          /\ \A i \in 1..Len(First(s, limit)) : First(s, limit)[i] = s[i]
      BY FirstIs
    <2>6. CASE Len(s) < limit
      <3>1. First(s, limit) = s
        BY <2>5, <2>6, SameSeq
      <3>2. First(t, limit) = t
        BY <2>3, <2>4, <2>6, SameSeq
      <3> QED BY <2>1, <2>2, <2>6, <3>1, <3>2 DEF AddTo
    <2>7. CASE ~(Len(s) < limit)
      <3>1. AddTo(First(s, limit), limit, entries) = First(s, limit)
        BY <2>5, <2>7 DEF AddTo
      <3>2. /\ Len(First(t, limit)) = Len(First(s, limit))
            /\ \A i \in 1..Len(First(t, limit)) :
                  First(t, limit)[i] = First(s, limit)[i]
        <4>1. Len(s) \in Nat /\ ~(Len(t) < limit)
          BY <2>3, <2>7
        <4>2. Len(First(t, limit)) = limit /\ Len(First(s, limit)) = limit
          BY <2>4, <2>5, <2>7, <4>1
        <4>3. ASSUME NEW i \in 1..limit
              PROVE  First(t, limit)[i] = First(s, limit)[i]
          <5>1. First(t, limit)[i] = t[i] /\ First(s, limit)[i] = s[i]
            BY <2>4, <2>5, <4>2, Zenon
          <5>2. i \in 1..Len(s)
            BY <2>7, <4>1
          <5> QED BY <2>3, <5>1, <5>2, Zenon
        <4> QED BY <4>2, <4>3, Zenon
      <3>3. First(t, limit) = First(s, limit)
        BY <2>4, <2>5, <3>2, SameSeq
      <3> QED BY <2>1, <2>2, <3>1, <3>3
    <2> QED BY <2>6, <2>7
  <1> QED BY <1>1, <1>2

-------------------------------------------------------------------------------
(* The entries of rows *)

LEMMA IpmiBoardEntries ==
    ASSUME NEW rows \in Seq(IpmiRows)
    PROVE  /\ Entries(IpmiBoard, rows) \in Seq(BoardEntry)
           /\ \A row \in IpmiRows :
                 Entries(IpmiBoard, Append(rows, row))
                   = Entries(IpmiBoard, rows) \o IpmiBoard(row)
  <1> DEFINE parts == [i \in 1..Len(rows) |-> IpmiBoard(rows[i])]
  <1>1. ASSUME NEW r \in IpmiRows
        PROVE  IpmiBoard(r) \in Seq(BoardEntry)
    <2>1. IpmiBoard(r) = <<>> \/ \E e \in BoardEntry : IpmiBoard(r) = <<e>>
      BY IpmiBoardType
    <2>2. \A e \in BoardEntry : <<e>> \in Seq(BoardEntry)
      OBVIOUS
    <2> QED BY <2>1, <2>2, EmptySeq
  <1>2. parts \in Seq(Seq(BoardEntry))
    BY <1>1
  <1>3. Entries(IpmiBoard, rows) = FlattenSeq(parts)
    BY DEF Entries
  <1>4. ASSUME NEW row \in IpmiRows
        PROVE  Entries(IpmiBoard, Append(rows, row))
                 = Entries(IpmiBoard, rows) \o IpmiBoard(row)
    <2> DEFINE more == Append(rows, row)
    <2>1. [i \in 1..Len(more) |-> IpmiBoard(more[i])] = Append(parts, IpmiBoard(row))
      BY <1>1
    <2>2. Entries(IpmiBoard, more) = FlattenSeq(Append(parts, IpmiBoard(row)))
      BY <2>1 DEF Entries
    <2> HIDE DEF parts
    <2>3. FlattenSeq(Append(parts, IpmiBoard(row)))
            = FlattenSeq(parts) \o IpmiBoard(row)
      BY <1>1, <1>2, FlattenAppend
    <2> QED BY <1>3, <2>2, <2>3
  <1> HIDE DEF parts
  <1> QED BY <1>2, <1>3, <1>4, FlattenTyped

LEMMA IpmiFansEntries ==
    ASSUME NEW rows \in Seq(IpmiRows)
    PROVE  /\ Entries(IpmiFans, rows) \in Seq(FanEntry)
           /\ \A row \in IpmiRows :
                 Entries(IpmiFans, Append(rows, row))
                   = Entries(IpmiFans, rows) \o IpmiFans(row)
  <1> DEFINE parts == [i \in 1..Len(rows) |-> IpmiFans(rows[i])]
  <1>1. ASSUME NEW r \in IpmiRows
        PROVE  IpmiFans(r) \in Seq(FanEntry)
    <2>1. IpmiFans(r) = <<>> \/ \E e \in FanEntry : IpmiFans(r) = <<e>>
      BY IpmiFansType
    <2>2. \A e \in FanEntry : <<e>> \in Seq(FanEntry)
      OBVIOUS
    <2> QED BY <2>1, <2>2, EmptySeq
  <1>2. parts \in Seq(Seq(FanEntry))
    BY <1>1
  <1>3. Entries(IpmiFans, rows) = FlattenSeq(parts)
    BY DEF Entries
  <1>4. ASSUME NEW row \in IpmiRows
        PROVE  Entries(IpmiFans, Append(rows, row))
                 = Entries(IpmiFans, rows) \o IpmiFans(row)
    <2> DEFINE more == Append(rows, row)
    <2>1. [i \in 1..Len(more) |-> IpmiFans(more[i])] = Append(parts, IpmiFans(row))
      BY <1>1
    <2>2. Entries(IpmiFans, more) = FlattenSeq(Append(parts, IpmiFans(row)))
      BY <2>1 DEF Entries
    <2> HIDE DEF parts
    <2>3. FlattenSeq(Append(parts, IpmiFans(row)))
            = FlattenSeq(parts) \o IpmiFans(row)
      BY <1>1, <1>2, FlattenAppend
    <2> QED BY <1>3, <2>2, <2>3
  <1> HIDE DEF parts
  <1> QED BY <1>2, <1>3, <1>4, FlattenTyped

LEMMA RedfishBoardEntries ==
    ASSUME NEW rows \in Seq(RedfishRows)
    PROVE  /\ Entries(RedfishBoard, rows) \in Seq(BoardEntry)
           /\ \A row \in RedfishRows :
                 Entries(RedfishBoard, Append(rows, row))
                   = Entries(RedfishBoard, rows) \o RedfishBoard(row)
  <1> DEFINE parts == [i \in 1..Len(rows) |-> RedfishBoard(rows[i])]
  <1>1. ASSUME NEW r \in RedfishRows
        PROVE  RedfishBoard(r) \in Seq(BoardEntry)
    <2>1. RedfishBoard(r) = <<>> \/ \E e \in BoardEntry : RedfishBoard(r) = <<e>>
      BY RedfishBoardType
    <2>2. \A e \in BoardEntry : <<e>> \in Seq(BoardEntry)
      OBVIOUS
    <2> QED BY <2>1, <2>2, EmptySeq
  <1>2. parts \in Seq(Seq(BoardEntry))
    BY <1>1
  <1>3. Entries(RedfishBoard, rows) = FlattenSeq(parts)
    BY DEF Entries
  <1>4. ASSUME NEW row \in RedfishRows
        PROVE  Entries(RedfishBoard, Append(rows, row))
                 = Entries(RedfishBoard, rows) \o RedfishBoard(row)
    <2> DEFINE more == Append(rows, row)
    <2>1. [i \in 1..Len(more) |-> RedfishBoard(more[i])] = Append(parts, RedfishBoard(row))
      BY <1>1
    <2>2. Entries(RedfishBoard, more) = FlattenSeq(Append(parts, RedfishBoard(row)))
      BY <2>1 DEF Entries
    <2> HIDE DEF parts
    <2>3. FlattenSeq(Append(parts, RedfishBoard(row)))
            = FlattenSeq(parts) \o RedfishBoard(row)
      BY <1>1, <1>2, FlattenAppend
    <2> QED BY <1>3, <2>2, <2>3
  <1> HIDE DEF parts
  <1> QED BY <1>2, <1>3, <1>4, FlattenTyped

-------------------------------------------------------------------------------
(* Tables and rows *)

LEMMA NoEntries ==
    /\ Entries(IpmiBoard, <<>>) = <<>>
    /\ Entries(IpmiFans, <<>>) = <<>>
    /\ Entries(RedfishBoard, <<>>) = <<>>
    /\ \A limit \in Nat : First(<<>>, limit) = <<>>
    /\ <<>> \o <<>> = <<>>
  <1>1. Len(<<>>) = 0
    OBVIOUS
  <1>2. \A limit \in Nat : First(<<>>, limit) = <<>>
    BY DEF First
  <1>3. FlattenSeq(<<>>) = <<>>
    BY <1>1 DEF FlattenSeq
  <1>4. Entries(IpmiBoard, <<>>) = <<>>
    <2>1. [i \in 1..0 |-> IpmiBoard(<<>>[i])] = <<>>
      OBVIOUS
    <2> QED BY <1>1, <1>3, <2>1 DEF Entries
  <1>5. Entries(IpmiFans, <<>>) = <<>>
    <2>1. [i \in 1..0 |-> IpmiFans(<<>>[i])] = <<>>
      OBVIOUS
    <2> QED BY <1>1, <1>3, <2>1 DEF Entries
  <1>6. Entries(RedfishBoard, <<>>) = <<>>
    <2>1. [i \in 1..0 |-> RedfishBoard(<<>>[i])] = <<>>
      OBVIOUS
    <2> QED BY <1>1, <1>3, <2>1 DEF Entries
  <1>7. <<>> \o <<>> = <<>>
    OBVIOUS
  <1> QED BY <1>2, <1>4, <1>5, <1>6, <1>7

\* With no rows read, the tables are empty.
LEMMA NothingRead ==
    ASSUME board = <<>>, fans = <<>>, ipmiRead = <<>>, redfishRead = <<>>
    PROVE  MatchInv
  <1>1. MaxBoard \in Nat /\ MaxFans \in Nat
    BY PlatformAssumption
  <1>2. /\ Entries(IpmiBoard, ipmiRead) = <<>>
        /\ Entries(IpmiFans, ipmiRead) = <<>>
        /\ Entries(RedfishBoard, redfishRead) = <<>>
    BY NoEntries, Zenon
  <1>3. board = First(<<>> \o <<>>, MaxBoard) /\ fans = First(<<>>, MaxFans)
    BY <1>1, NoEntries, Zenon
  <1> QED BY <1>2, <1>3, Zenon DEF MatchInv, TablesMatchInput

LEMMA Associative ==
    ASSUME NEW S, NEW s \in Seq(S), NEW t \in Seq(S), NEW u \in Seq(S)
    PROVE  (s \o t) \o u = s \o (t \o u)
  OBVIOUS

LEMMA NextTables == TypeOK /\ MatchInv /\ [Next]_vars => MatchInv'
  <1> SUFFICES ASSUME TypeOK, MatchInv, [Next]_vars PROVE MatchInv'
    OBVIOUS
  <1> DEFINE mine == Entries(IpmiBoard, ipmiRead)
             theirs == Entries(RedfishBoard, redfishRead)
             spun == Entries(IpmiFans, ipmiRead)
  <1>1. /\ ipmiRead \in Seq(IpmiRows) /\ redfishRead \in Seq(RedfishRows)
        /\ MaxBoard \in Nat /\ MaxFans \in Nat
    BY PlatformAssumption DEF TypeOK
  <1>2. board = First(mine \o theirs, MaxBoard) /\ fans = First(spun, MaxFans)
    BY DEF MatchInv, TablesMatchInput
  <1>3. CASE NewSnapshot
    <2>1. /\ board' = <<>> /\ fans' = <<>>
          /\ ipmiRead' = <<>> /\ redfishRead' = <<>>
      BY <1>3 DEF NewSnapshot
    <2>2. /\ Entries(IpmiBoard, ipmiRead') = <<>>
          /\ Entries(IpmiFans, ipmiRead') = <<>>
          /\ Entries(RedfishBoard, redfishRead') = <<>>
      BY <2>1, NoEntries, Zenon
    <2>3. /\ board' = First(<<>> \o <<>>, MaxBoard)
          /\ fans' = First(<<>>, MaxFans)
      BY <1>1, <2>1, NoEntries, Zenon
    <2> QED BY <2>1, <2>2, <2>3, Zenon DEF MatchInv, TablesMatchInput
  <1>4. ASSUME NEW row \in IpmiRows, IpmiRow(row) PROVE MatchInv'
    <2>1. /\ pc = "ipmi_rows" /\ pc' = pc /\ UNCHANGED redfishRead
          /\ ipmiRead' = Append(ipmiRead, row)
          /\ board' = AddTo(board, MaxBoard, IpmiBoard(row))
          /\ fans' = AddTo(fans, MaxFans, IpmiFans(row))
      BY <1>4 DEF IpmiRow
    <2>2. redfishRead = <<>> /\ theirs = <<>>
      BY <2>1, NoEntries DEF MatchInv
    <2>3. /\ mine \in Seq(BoardEntry) /\ spun \in Seq(FanEntry)
          /\ Entries(IpmiBoard, ipmiRead') = mine \o IpmiBoard(row)
          /\ Entries(IpmiFans, ipmiRead') = spun \o IpmiFans(row)
      BY <1>1, <2>1, IpmiBoardEntries, IpmiFansEntries
    <2> HIDE DEF mine, theirs, spun
    <2>4. /\ IpmiBoard(row) = <<>> \/ \E e \in BoardEntry : IpmiBoard(row) = <<e>>
          /\ IpmiFans(row) = <<>> \/ \E e \in FanEntry : IpmiFans(row) = <<e>>
      BY IpmiBoardType, IpmiFansType
    <2>5. fans' = First(spun \o IpmiFans(row), MaxFans)
      BY <1>1, <1>2, <2>1, <2>3, <2>4, FirstAdds
    <2>6. mine \o theirs = mine
      BY <2>2, <2>3
    <2>7. board' = First(mine \o IpmiBoard(row), MaxBoard)
      BY <1>1, <1>2, <2>1, <2>3, <2>4, <2>6, FirstAdds
    <2>8. mine \o IpmiBoard(row) \in Seq(BoardEntry)
      <3>1. \A e \in BoardEntry : <<e>> \in Seq(BoardEntry)
        OBVIOUS
      <3>2. IpmiBoard(row) \in Seq(BoardEntry)
        BY <2>4, <3>1, EmptySeq
      <3> QED BY <2>3, <3>2
    <2>9. (mine \o IpmiBoard(row)) \o theirs = mine \o IpmiBoard(row)
      BY <2>2, <2>8
    <2>10. Entries(RedfishBoard, redfishRead') = theirs
      BY <2>1, Zenon DEF theirs
    <2>11. TablesMatchInput'
      BY <2>3, <2>5, <2>7, <2>9, <2>10, Zenon DEF TablesMatchInput
    <2> QED BY <2>1, <2>2, <2>11 DEF MatchInv
  <1>5. ASSUME NEW row \in RedfishRows, RedfishRow(row) PROVE MatchInv'
    <2>1. /\ pc = "redfish_rows" /\ pc' = pc /\ UNCHANGED <<fans, ipmiRead>>
          /\ redfishRead' = Append(redfishRead, row)
          /\ board' = AddTo(board, MaxBoard, RedfishBoard(row))
      BY <1>5 DEF RedfishRow
    <2>2. theirs \in Seq(BoardEntry)
      BY <1>1, RedfishBoardEntries
    <2>3. Entries(RedfishBoard, redfishRead') = theirs \o RedfishBoard(row)
      BY <1>1, <2>1, RedfishBoardEntries
    <2>4. mine \in Seq(BoardEntry)
      BY <1>1, IpmiBoardEntries
    <2>5. /\ Entries(IpmiBoard, ipmiRead') = mine
          /\ Entries(IpmiFans, ipmiRead') = spun
      BY <2>1, Zenon
    <2> HIDE DEF mine, theirs, spun
    <2>6. /\ RedfishBoard(row) \in Seq(BoardEntry)
          /\ \/ RedfishBoard(row) = <<>>
             \/ \E e \in BoardEntry : RedfishBoard(row) = <<e>>
      <3>1. RedfishBoard(row) = <<>> \/ \E e \in BoardEntry : RedfishBoard(row) = <<e>>
        BY RedfishBoardType
      <3>2. \A e \in BoardEntry : <<e>> \in Seq(BoardEntry)
        OBVIOUS
      <3> QED BY <3>1, <3>2, EmptySeq
    <2>7. mine \o theirs \in Seq(BoardEntry)
      BY <2>2, <2>4
    <2>8. board' = First((mine \o theirs) \o RedfishBoard(row), MaxBoard)
      <3>1. First((mine \o theirs) \o RedfishBoard(row), MaxBoard)
              = AddTo(First(mine \o theirs, MaxBoard), MaxBoard,
                      RedfishBoard(row))
        <4> DEFINE both == mine \o theirs
        <4>1. both \in Seq(BoardEntry)
          BY <2>7
        <4> HIDE DEF both
        <4>2. First(both \o RedfishBoard(row), MaxBoard)
                = AddTo(First(both, MaxBoard), MaxBoard, RedfishBoard(row))
          BY <1>1, <2>6, <4>1, FirstAdds
        <4> QED BY <4>2, Zenon DEF both
      <3> QED BY <1>2, <2>1, <3>1, Zenon
    <2>9. (mine \o theirs) \o RedfishBoard(row)
            = mine \o (theirs \o RedfishBoard(row))
      BY <2>2, <2>4, <2>6, Associative
    <2>10. TablesMatchInput'
      BY <1>2, <2>1, <2>3, <2>5, <2>8, <2>9, Zenon DEF TablesMatchInput
    <2> QED BY <2>1, <2>10 DEF MatchInv
  <1>6. CASE /\ UNCHANGED <<board, fans, ipmiRead, redfishRead>>
             /\ pc' \in {"ipmi", "ipmi_rows", "redfish"} =>
                   pc \in {"ipmi", "ipmi_rows", "redfish"}
    <2>1. TablesMatchInput'
      BY <1>2, <1>6, Zenon DEF TablesMatchInput
    <2> QED BY <1>6, <2>1 DEF MatchInv
  <1> QED
    BY <1>3, <1>4, <1>5, <1>6
    DEF Next, IpmiAbsent, IpmiOpen, IpmiEnd, RedfishAbsent, RedfishOpen,
        RedfishEnd, vars

-------------------------------------------------------------------------------
(* The theorems *)

LEMMA InitInv == Init => IInv
  <1> SUFFICES ASSUME Init PROVE IInv
    OBVIOUS
  <1>1. TypeOK
    BY InitType
  <1>2. Len(board) = 0 /\ Len(fans) = 0
    BY EmptySeq DEF Init
  <1>3. SourceInv
    BY <1>2 DEF Init, SourceInv
  <1>4. BitInv
    BY DEF Init, BitInv, CapabilitiesExplained
  <1>5. MatchInv
    BY NothingRead DEF Init
  <1> QED BY <1>1, <1>3, <1>4, <1>5 DEF IInv

LEMMA NextInv == IInv /\ [Next]_vars => IInv'
  BY NextType, NextSource, NextBit, NextTables DEF IInv

LEMMA Invariance == Spec => []IInv
  BY InitInv, NextInv, PTL DEF Spec

\* The tables of the snapshot stay within TM_MAX_BOARD_SENSORS and TM_MAX_FANS
\* whatever ipmitool prints and the Redfish file holds.
THEOREM TypeCorrect == Spec => []TypeOK
  <1>1. IInv => TypeOK
    BY DEF IInv
  <1> QED BY <1>1, Invariance, PTL

\* The tables are the first entries that fit of all the rows, in their order,
\* at every moment of every snapshot.
THEOREM TablesMatch == Spec => []TablesMatchInput
  <1>1. IInv => TablesMatchInput
    BY DEF IInv, MatchInv
  <1> QED BY <1>1, Invariance, PTL

\* No platform bit without an entry behind it, no source without its bit.
THEOREM BitsExplained == Spec => []CapabilitiesExplained
  <1>1. IInv => CapabilitiesExplained
    BY DEF IInv, BitInv
  <1> QED BY <1>1, Invariance, PTL

\* What happens to a table in any step of the collectors, as the abstract
\* table says it.
LEMMA AddIsAllowed ==
    ASSUME NEW S, NEW s \in Seq(S), NEW limit \in Nat, NEW t,
           t = s \/ (Len(s) < limit /\ \E e \in S : t = Append(s, e))
    PROVE  \/ t = s
           \/ /\ Len(s) < limit
              /\ t \in Seq(S)
              /\ Len(t) = Len(s) + 1
              /\ \A i \in 1..Len(s) : t[i] = s[i]
  <1>1. CASE t = s
    BY <1>1
  <1>2. CASE Len(s) < limit /\ \E e \in S : t = Append(s, e)
    <2>1. PICK e \in S : t = Append(s, e)
      BY <1>2
    <2> QED BY <1>2, <2>1, AppendOne
  <1> QED BY <1>1, <1>2

LEMMA StepBoard == TypeOK /\ [Next]_vars => [BoardTable!Next]_board
  <1> SUFFICES ASSUME TypeOK, [Next]_vars PROVE [BoardTable!Next]_board
    OBVIOUS
  <1> USE DEF BoardTable!Next
  <1>1. board \in Seq(BoardEntry) /\ MaxBoard \in Nat
    BY PlatformAssumption DEF TypeOK
  <1>2. CASE NewSnapshot
    BY <1>2 DEF NewSnapshot, BoardTable!Clear
  <1>3. ASSUME NEW row \in IpmiRows, IpmiRow(row)
        PROVE  [BoardTable!Next]_board
    BY <1>1, <1>3, IpmiRowEffect, AddIsAllowed DEF BoardTable!Add
  <1>4. ASSUME NEW row \in RedfishRows, RedfishRow(row)
        PROVE  [BoardTable!Next]_board
    BY <1>1, <1>4, RedfishRowEffect, AddIsAllowed DEF BoardTable!Add
  <1>5. CASE \/ IpmiAbsent \/ IpmiOpen \/ IpmiEnd
             \/ RedfishAbsent \/ RedfishOpen \/ RedfishEnd
    BY <1>5 DEF IpmiAbsent, IpmiOpen, IpmiEnd,
                RedfishAbsent, RedfishOpen, RedfishEnd
  <1>6. CASE UNCHANGED vars
    BY <1>6 DEF vars
  <1> QED BY <1>2, <1>3, <1>4, <1>5, <1>6 DEF Next

LEMMA StepFans == TypeOK /\ [Next]_vars => [FanTable!Next]_fans
  <1> SUFFICES ASSUME TypeOK, [Next]_vars PROVE [FanTable!Next]_fans
    OBVIOUS
  <1> USE DEF FanTable!Next
  <1>1. fans \in Seq(FanEntry) /\ MaxFans \in Nat
    BY PlatformAssumption DEF TypeOK
  <1>2. CASE NewSnapshot
    BY <1>2 DEF NewSnapshot, FanTable!Clear
  <1>3. ASSUME NEW row \in IpmiRows, IpmiRow(row)
        PROVE  [FanTable!Next]_fans
    BY <1>1, <1>3, IpmiRowEffect, AddIsAllowed DEF FanTable!Add
  <1>4. ASSUME NEW row \in RedfishRows, RedfishRow(row)
        PROVE  [FanTable!Next]_fans
    BY <1>4 DEF RedfishRow
  <1>5. CASE \/ IpmiAbsent \/ IpmiOpen \/ IpmiEnd
             \/ RedfishAbsent \/ RedfishOpen \/ RedfishEnd
    BY <1>5 DEF IpmiAbsent, IpmiOpen, IpmiEnd,
                RedfishAbsent, RedfishOpen, RedfishEnd
  <1>6. CASE UNCHANGED vars
    BY <1>6 DEF vars
  <1> QED BY <1>2, <1>3, <1>4, <1>5, <1>6 DEF Next

\* Within a snapshot the two tables only grow, one entry at a time and within
\* their limits; nothing in them is changed or dropped before the next memset.
THEOREM Refinement == Spec => ImplementsTables
  <1>1. Init => BoardTable!Init /\ FanTable!Init
    BY DEF Init, BoardTable!Init, FanTable!Init
  <1>2. Spec => []TypeOK
    BY TypeCorrect
  <1>3. Spec => BoardTable!Spec
    BY <1>1, <1>2, StepBoard, PTL DEF Spec, BoardTable!Spec
  <1>4. Spec => FanTable!Spec
    BY <1>1, <1>2, StepFans, PTL DEF Spec, FanTable!Spec
  <1> QED BY <1>3, <1>4 DEF ImplementsTables

===============================================================================
