------------------------------- MODULE MCNvidia -------------------------------
(***************************************************************************)
(* Three devices.  CUDA may number them as NVML does, the other way round  *)
(* with one hidden (CUDA_VISIBLE_DEVICES), or see none.                    *)
(***************************************************************************)
EXTENDS Nvidia

CONSTANTS g0, g1, g2

MCNvmlOrder == <<g0, g1, g2>>

MCCudaOrders == {<<g0, g1, g2>>, <<g2, g0>>, <<>>}

\* All PCI ids are printed alike, or all but one.
MCAlikeChoices == {Gpu, {g1, g2}}

\* NVML prints the domain with eight digits, match_by_pci with four.
NvmlSpelling == {{}}
===============================================================================
