---------------------------- MODULE MCProfilers ----------------------------
(***************************************************************************)
(* Values of the constants of Profilers for TLC: the first and the third   *)
(* profiler share a path, and only the second may overwrite its file.      *)
(***************************************************************************)
EXTENDS Profilers

MCPathOf == <<"p", "q", "p">>
MCOverwrite == {2}
=============================================================================
