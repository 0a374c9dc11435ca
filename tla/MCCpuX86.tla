------------------------------- MODULE MCCpuX86 -------------------------------
(***************************************************************************)
(* A small host for TLC: the label of the package and three cores, one     *)
(* more than the package has room for.                                     *)
(***************************************************************************)
EXTENDS CpuX86

MCLabels == <<"temp1", "temp2", "temp3", "temp4">>

MCCoreId == [l \in Label |->
    CASE l = "temp1" -> NoCore
      [] l = "temp2" -> 0
      [] l = "temp3" -> 1
      [] l = "temp4" -> 2]

MCTemp == {-1, 2}

\* Two attributes that either directory may have, and one only the second has.
MCFiles == (Dirs \X {"energy_uj", "power_limit_1"}) \cup {<<"alt", "power_limit_2">>}
===============================================================================
