---------------------------- MODULE VendorSession -----------------------------
(***************************************************************************)
(* How a collector may use a vendor library: it initialises the library at *)
(* most once before it shuts it down, and never returns with a session     *)
(* left open.                                                              *)
(***************************************************************************)
VARIABLES
    inside,     \* the collector runs
    open        \* the library is initialised

Init == ~inside /\ ~open

Enter == /\ ~inside /\ inside'
         /\ UNCHANGED open

Open == /\ inside /\ ~open /\ open'
        /\ UNCHANGED inside

Close == /\ inside /\ open /\ ~open'
         /\ UNCHANGED inside

Leave == /\ inside /\ ~open /\ ~inside'
         /\ UNCHANGED open

Next == Enter \/ Open \/ Close \/ Leave

Spec == Init /\ [][Next]_<<inside, open>>

===============================================================================
