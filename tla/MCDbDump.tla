------------------------------ MODULE MCDbDump ------------------------------
(* An instance of DbDump for TLC: two dump children, both at work only     *)
(* where dumps overlap, names for the files of three epochs, and           *)
(* combinations of faults.                                                 *)
EXTENDS DbDump

MCTemps == <<"tmp0", "tmp1", "tmp2">>
\* Where CheckpointKept claims nothing only whether a file is whole matters, so
\* one version of the world is enough.
MCScenarios ==
    { [faults |-> {"crash", "signal"}, dumps |-> 1, versions |-> 1],
      [faults |-> {"crash", "nofork"}, dumps |-> 1, versions |-> 2],
      [faults |-> {"crash", "slave"}, dumps |-> 2, versions |-> 2],
      [faults |-> {"crash", "restart"}, dumps |-> 2, versions |-> 1],
      [faults |-> {"crash", "overlap"}, dumps |-> 2, versions |-> 1] }
=============================================================================
