------------------------- MODULE MCShutdownWhenDone -------------------------
(***************************************************************************)
(* Values of the constants of ShutdownWhenDone for TLC.                    *)
(***************************************************************************)
EXTENDS ShutdownWhenDone

MCTaskCode == {0, 3}

\* a coder that calls every outcome a success, and one that calls none a success
MCCoders == {NoCoder, [e \in Errors |-> 0],
             [e \in Errors |-> IF e = NilError THEN 8 ELSE 9]}
=============================================================================
