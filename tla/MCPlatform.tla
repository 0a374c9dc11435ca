------------------------------ MODULE MCPlatform ------------------------------
(***************************************************************************)
(* Input for TLC.  Rows of three columns are what ipmi.c was written for   *)
(* ("ipmitool sdr"); rows of five are what "ipmitool sdr elist all" prints *)
(* (name, sensor id, status, entity, reading).  The Redfish rows are those *)
(* of samples/redfish-thermal-sample.csv, and one whose second column is   *)
(* empty.                                                                  *)
(***************************************************************************)
EXTENDS Platform

MCField == {"CPU", "Fan", "PSU", "ok", "3.1", "45 degrees C", "0Ch", "30h",
            "4200 RPM", "812 Watts", "No Reading", "Inlet", "temperature",
            "fan", "24.5", "celsius", "pct"}

MCScan ==
    [f \in MCField |->
        CASE f = "45 degrees C" -> [items |-> 2, value |-> 45, unit |-> "degrees"]
          [] f = "0Ch"          -> [items |-> 2, value |-> 0,  unit |-> "Ch"]
          [] f = "30h"          -> [items |-> 2, value |-> 30, unit |-> "h"]
          [] f = "4200 RPM"     -> [items |-> 2, value |-> 42, unit |-> "RPM"]
          [] f = "812 Watts"    -> [items |-> 2, value |-> 81, unit |-> "Watts"]
          [] f = "24.5"         -> [items |-> 1, value |-> 24, unit |-> ""]
          [] OTHER              -> [items |-> 0, value |-> 0,  unit |-> ""]]

MCNumber == [f \in MCField |-> MCScan[f].value]

ListRows == {<<"CPU", "45 degrees C", "ok">>, <<"Fan", "4200 RPM", "ok">>,
             <<"PSU", "812 Watts", "ok">>, <<"Fan", "No Reading", "ok">>,
             <<"CPU">>}

ElistRows == {<<"CPU", "0Ch", "ok", "3.1", "45 degrees C">>,
              <<"Fan", "30h", "ok", "3.1", "4200 RPM">>}

CsvRows == {<<"Inlet", "temperature", "24.5", "celsius">>,
            <<"Fan", "fan", "24.5", "pct">>,
            <<"Inlet", "24.5", "celsius">>}
===============================================================================
