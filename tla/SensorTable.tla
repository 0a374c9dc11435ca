----------------------------- MODULE SensorTable ------------------------------
(***************************************************************************)
(* What every array of tm_snapshot_t promises during a snapshot: it starts *)
(* empty, entries are only added at its end, one at a time, and never more *)
(* than Limit; nothing in it changes until the next snapshot clears it.    *)
(***************************************************************************)
EXTENDS Naturals, Sequences

CONSTANTS
    Limit,      \* TM_MAX_...
    Entry       \* what the table holds

VARIABLE table

TypeOK == table \in Seq(Entry) /\ Len(table) <= Limit

Init == table = <<>>

Clear == table' = <<>>

Add == /\ Len(table) < Limit
       /\ table' \in Seq(Entry)
       /\ Len(table') = Len(table) + 1
       /\ \A i \in 1..Len(table) : table'[i] = table[i]

Next == Clear \/ Add

Spec == Init /\ [][Next]_table

===============================================================================
