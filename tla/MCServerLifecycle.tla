------------------------- MODULE MCServerLifecycle -------------------------
(***************************************************************************)
(* Values of the constants of ServerLifecycle for TLC.                     *)
(***************************************************************************)
EXTENDS ServerLifecycle

\* an error without an exit code and one that carries its own
MCServeErrors == {
  <<[name |-> "accept", code |-> NoCode]>>,
  <<[name |-> "listener middleware", code |-> 3],
    [name |-> "accept", code |-> NoCode]>> }

\* the first server binds a fixed address, the others port 0
MCEphemeral == Server \ {1}
=============================================================================
