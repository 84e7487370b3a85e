------------------------------ MODULE MCFsStat ------------------------------
(* Three file systems, two of them mounted at the start; other processes  *)
(* perform up to three mounts or unmounts.                                 *)
EXTENDS FsStat

CONSTANTS m1, m2, m3

MCMounts == {m1, m2, m3}
MCInitTable == <<m1, m2>>
=============================================================================
