-------------------------------- MODULE MCAmd ---------------------------------
(***************************************************************************)
(* Three cards and room for two.  ROCm SMI numbers them as sysfs does, the *)
(* other way round, or knows none of them, as in a container.              *)
(***************************************************************************)
EXTENDS Amd

CONSTANTS c0, c1, c2

MCCards == <<c0, c1, c2>>

MCDeviceOrders == {<<c0, c1, c2>>, <<c2, c0>>, <<>>}
===============================================================================
