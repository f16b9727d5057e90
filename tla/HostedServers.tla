--------------------------- MODULE HostedServers ---------------------------
(***************************************************************************)
(* What bindServer (arrangehttp/server.go) promises to the application     *)
(* that hosts its servers, whatever goroutine runs when: a server launched *)
(* by a start hook is reported to the application once it stops serving,   *)
(* once per launch; an exit code of 0 is reported only for a server that   *)
(* was told to shut down; and a launch of a server that was told to shut   *)
(* down is eventually reported.                                            *)
(***************************************************************************)
EXTENDS Integers

CONSTANTS Server,   \* the servers of the application
          Attempt,  \* the calls of App.Start
          NoCode    \* no exit code was reported

Launch == Server \X Attempt

VARIABLES
  hosted,    \* launches whose end has not been reported
  reported,  \* launches whose end was reported
  retired,   \* servers that were told to shut down
  code       \* the exit code reported last, or NoCode

hostedVars == <<hosted, reported, retired, code>>

Init ==
  /\ hosted = {}
  /\ reported = {}
  /\ retired = {}
  /\ code = NoCode

Host(r) ==
  /\ r \notin hosted \cup reported
  /\ hosted' = hosted \cup {r}
  /\ UNCHANGED <<reported, retired, code>>

Retire(s) ==
  /\ retired' = retired \cup {s}
  /\ UNCHANGED <<hosted, reported, code>>

Report(r) ==
  /\ r \in hosted
  /\ hosted' = hosted \ {r}
  /\ reported' = reported \cup {r}
  /\ code' \in Int
  /\ code' = 0 => r[1] \in retired
  /\ UNCHANGED retired

\* App.Stop may clear the signal of the attempt that ends
Forget ==
  /\ code' = NoCode
  /\ UNCHANGED <<hosted, reported, retired>>

Next ==
  \/ \E r \in Launch : Host(r) \/ Report(r)
  \/ \E s \in Server : Retire(s)
  \/ Forget

Safety == Init /\ [][Next]_hostedVars

\* A server that was told to shut down does not go unreported.
RetiredAreReported ==
  \A r \in Launch :
    (r \in hosted /\ r[1] \in retired) ~> (r \in reported)

Spec == Safety /\ RetiredAreReported
=============================================================================
