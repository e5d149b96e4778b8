----------------------------- MODULE MCStartup -----------------------------
(* TLC instances: processes that only start, or that also stop, crash and    *)
(* fail, with one inode more than processes so that inodes are used again.   *)
EXTENDS Startup, TLC

AllOrNoFaults == {{}, {"stop", "crash", "error"}}

OnlyStops == {{"stop"}}

Symmetry == Permutations(Daemons) \cup Permutations(Inodes)
=============================================================================
