--------------------------- MODULE ProfiledServer ---------------------------
(***************************************************************************)
(* The profilers of arrangepprof/profilers.go beside a server of           *)
(* arrangehttp/server.go in one fx.App: HTTP.Apply (arrangepprof/http.go)  *)
(* installs its handlers in the http.Server that bindServer binds to the   *)
(* same lifecycle, so that /profile is served between that server's start  *)
(* and stop hooks, and Shutdown waits for it.                              *)
(*                                                                         *)
(* The server is as in ServerLifecycle, seen from its handlers: it takes   *)
(* one request at a time for /profile.                                     *)
(***************************************************************************)
EXTENDS Profilers

CONSTANT Hosts  \* the hooks that may be the server's; 0: it is in no hook

ASSUME HostAssumption == Hosts \subseteq {0} \cup Hook

VARIABLES
  host,      \* the hook of the server with /profile
  serving,   \* does it accept requests?
  retired,   \* was its Shutdown called?
  draining,  \* is its stop hook inside Shutdown?
  request,   \* is there a request for /profile?
  abandoned  \* history: did Shutdown give up on the request?

hostVars == <<host, serving, retired, draining, request, abandoned>>
hostedVars == <<vars, hostVars>>

HostTypeOK ==
  /\ TypeOK
  /\ host \in Hosts
  /\ serving \in BOOLEAN /\ retired \in BOOLEAN /\ draining \in BOOLEAN
  /\ request \in BOOLEAN /\ abandoned \in BOOLEAN

HostInit ==
  /\ Init
  /\ host \in Hosts
  /\ host \notin cpu
  /\ serving = FALSE
  /\ retired = FALSE
  /\ draining = FALSE
  /\ request = FALSE
  /\ abandoned = FALSE

-----------------------------------------------------------------------------
(***************************************************************************)
(* The hook of the server.  An http.Server that was shut down accepts      *)
(* nothing in a later start.                                               *)
(***************************************************************************)
HostStarted ==
  /\ HookStarted(host)
  /\ serving' = ~retired
  /\ UNCHANGED <<fileVars, host, retired, draining, request, abandoned>>

HostFails ==
  /\ HookFailed(host)
  /\ UNCHANGED <<fileVars, hostVars>>

HostStop ==
  /\ Stopping(host)
  /\ ~draining
  /\ draining' = TRUE
  /\ retired' = TRUE
  /\ serving' = FALSE
  /\ UNCHANGED <<fxVars, fileVars, host, request, abandoned>>

\* As HostStopDone, with a stop hook that does not wait (http.Server.Close).
HostStopDone_Close ==
  /\ draining
  /\ HookStopped(host)
  /\ draining' = FALSE
  /\ UNCHANGED <<fileVars, host, serving, retired, request, abandoned>>

HostStopDone ==
  /\ draining
  /\ ~request \/ expired
  /\ HookStopped(host)
  /\ draining' = FALSE
  /\ abandoned' = (abandoned \/ request)
  /\ UNCHANGED <<fileVars, host, serving, retired, request>>

-----------------------------------------------------------------------------
(***************************************************************************)
(* A request.  Its handler may begin after Shutdown was called.  When      *)
(* another profile is in progress it answers with an error, and the        *)
(* request ends without a profile.                                         *)
(***************************************************************************)
RequestArrives ==
  /\ serving /\ ~request
  /\ request' = TRUE
  /\ UNCHANGED <<vars, host, serving, retired, draining, abandoned>>

ProfileBegins ==
  /\ request \/ host = 0
  /\ HandlerStarts
  /\ UNCHANGED hostVars

ProfileEnds == HandlerEnds /\ UNCHANGED hostVars

RequestEnds ==
  /\ request /\ ~handler
  /\ request' = FALSE
  /\ UNCHANGED <<vars, host, serving, retired, draining, abandoned>>

-----------------------------------------------------------------------------
\* a stop hook that was called is waited for
OtherStep ==
  \/ Start
  \/ OtherFxStep /\ ~(draining /\ expired)
  \/ \E c \in cpu : CpuStart(c) \/ CpuStop(c)
  \/ \E h \in Hook \ (cpu \cup {host}) : HeapStarted(h) \/ HeapStop(h)
  \/ \E p \in Path : Collect(p)

HostNext ==
  \/ HostStarted \/ HostFails \/ HostStop \/ HostStopDone
  \/ RequestArrives \/ ProfileBegins \/ ProfileEnds \/ RequestEnds
  \/ OtherStep /\ UNCHANGED hostVars

HostSpec == HostInit /\ [][HostNext]_hostedVars

-----------------------------------------------------------------------------
(***************************************************************************)
(* A CPU profiler whose hook comes before that of the server is never kept *)
(* from its profile by a /profile request, over any number of restarts,    *)
(* unless the stop hook of the server gave up on that request at its       *)
(* deadline: CPU.start (profilers.go:57) finds the profile of the process  *)
(* free, because Shutdown waits for the handler and the server serves only *)
(* after the profiler has started.  A server that starts before the        *)
(* profiler, or that is in no hook, gives no such promise.                 *)
(***************************************************************************)
BusyWithRequest(c) ==
  result[c] # "busy" /\ result'[c] = "busy" /\ profiler = HttpProfile

ProfilersUndisturbed ==
  [][\A c \in cpu : BusyWithRequest(c) => (host < c \/ abandoned)]_hostedVars

-----------------------------------------------------------------------------
(***************************************************************************)
(* The inductive invariant: while the server serves or a request that was  *)
(* not given up is under way, the CPU profiler before it is neither        *)
(* stopped nor able to start again.                                        *)
(***************************************************************************)
HandlerHasRequest == (handler /\ host # 0) => request

DrainingIsStopHook ==
  draining => (~serving /\ hook = host /\ host # 0 /\ Unwinding)

EarlierKeepFile ==
  (host # 0 /\ ~abandoned /\ (serving \/ request)) =>
    \A c \in cpu : c < host => (c \in open /\ (hook >= host \/ hook < c))

HostIInv ==
  /\ IInv
  /\ HostTypeOK
  /\ host \notin cpu
  /\ HandlerHasRequest
  /\ DrainingIsStopHook
  /\ EarlierKeepFile
=============================================================================
