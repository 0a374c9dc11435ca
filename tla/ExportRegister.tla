---------------------------- MODULE ExportRegister ----------------------------
(***************************************************************************)
(* What the Prometheus textfile promises to whoever looks at it: it shows  *)
(* either nothing usable or one whole export, and the only export that can *)
(* appear in it is that of the newest snapshot.  Between two exports it    *)
(* shows nothing.  Watch.tla implements this register with a file that is  *)
(* truncated and rewritten piece by piece.                                 *)
(***************************************************************************)
EXTENDS Naturals

CONSTANT MaxSnapshots   \* bound on the number of snapshots taken

VARIABLES
    clock,      \* number of the newest snapshot
    register    \* {} or {g}: the whole export that can be read, if any

vars == <<clock, register>>

TypeOK ==
    /\ clock \in 0..MaxSnapshots
    /\ register \in {{}} \cup {{g} : g \in 0..MaxSnapshots}

\* Export 0 is one an earlier process left behind.
Init ==
    /\ clock = 0
    /\ register \in {{}, {0}}

Snapshot ==
    /\ clock < MaxSnapshots
    /\ clock' = clock + 1
    /\ UNCHANGED register

Invalidate ==
    /\ register' = {}
    /\ UNCHANGED clock

Publish ==
    /\ register = {}
    /\ register' = {clock}
    /\ UNCHANGED clock

Next == Snapshot \/ Invalidate \/ Publish

Spec == Init /\ [][Next]_vars

===============================================================================
