------------------------------- MODULE MCRender -------------------------------
(***************************************************************************)
(* Sizes for TLC.  The small ones let documents end before, at and behind  *)
(* the end of the buffer, and let a short piece follow one that is too     *)
(* long.  The real ones are the 474 bytes that json.c takes at least for a *)
(* core, and the 65536 bytes main has for the document.                    *)
(***************************************************************************)
EXTENDS Render

MCBits == {0, 2}

MCPackages == {<<>>, <<0>>, <<2>>, <<1, 0>>, <<1, 2>>}

MCLists == <<"gpus", "zones">>

MCCounts == [l \in List |-> IF l = "zones" THEN 0..3 ELSE 0..2]

MCPartSize == [gpus |-> 4, zones |-> 1, bits |-> 2, packages |-> 2, cores |-> 1]

NoBits == {0}

CorePackages == {<<1>>, <<128>>, <<144>>}

CoreLists == << >>

CoreCounts == << >>

CorePartSize == [bits |-> 0, packages |-> 0, cores |-> 474]
===============================================================================
