--------------------------- MODULE MCCommandQueue ---------------------------
(* Instances of CommandQueue for TLC: a mortal or two, GOD, one or two      *)
(* things.  The clock starts after the largest time warp.                   *)
EXTENDS CommandQueue

Ordinary == {"halt", "destroy"}
Managed == {"chown", "haltall", "kick", "warp", "disable"}
=============================================================================
