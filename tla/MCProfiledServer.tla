-------------------------- MODULE MCProfiledServer --------------------------
(***************************************************************************)
(* Values of the constants of ProfiledServer for TLC: the first and the    *)
(* third profiler share a path, and only the second may overwrite its      *)
(* file.  The server is in no hook, or in any of the three.                *)
(***************************************************************************)
EXTENDS ProfiledServer

MCPathOf == <<"p", "q", "p">>
MCOverwrite == {2}
MCHosts == 0..3
=============================================================================
