------------------------------- MODULE MCSeries --------------------------------
(***************************************************************************)
(* Three sensors of each kind: two sockets with a core 0 each, zones of    *)
(* one type, GPUs of one model, and two drives of one model of which the   *)
(* second has a second input.                                              *)
(***************************************************************************)
EXTENDS Series

Zone(n) == [id |-> n, type |-> "cpu"]

MCHost ==
    [core    |-> <<[id |-> 0], [id |-> 1], [id |-> 0]>>,
     cluster |-> <<Zone("zone0"), Zone("zone1"), Zone("zone2")>>,
     nvidia  |-> <<[uuid |-> "a"], [uuid |-> "b"], [uuid |-> "c"]>>,
     amd     |-> <<[name |-> "x"], [name |-> "x"], [name |-> "y"]>>,
     hwmon   |-> <<[id |-> "temp1", name |-> "nvme", label |-> "Composite"],
                   [id |-> "temp1", name |-> "nvme", label |-> "Composite"],
                   [id |-> "temp2", name |-> "nvme", label |-> "Sensor 1"]>>,
     zone    |-> <<Zone("zone0"), Zone("zone1"), Zone("zone2")>>]
===============================================================================
