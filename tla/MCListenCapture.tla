-------------------------- MODULE MCListenCapture --------------------------
(***************************************************************************)
(* Values of the constants of ListenCapture for TLC: the test's channel    *)
(* has no buffer, or room for one address.                                 *)
(***************************************************************************)
EXTENDS ListenCapture

\* an error without an exit code and one that carries its own
MCServeErrors == {
  <<[name |-> "accept", code |-> NoCode]>>,
  <<[name |-> "listener middleware", code |-> 3],
    [name |-> "accept", code |-> NoCode]>> }

MCEphemeral == Server
MCCapacities == {0, 1}
=============================================================================
