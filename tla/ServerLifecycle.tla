-------------------------- MODULE ServerLifecycle --------------------------
(***************************************************************************)
(* The servers of arrangehttp/server.go, bound to the lifecycle of the     *)
(* enclosing fx.App by bindServer: one hook per server, whose OnStart      *)
(* opens a listener and starts the Serve goroutine, and whose OnStop is    *)
(* http.Server.Shutdown.  The goroutine (runServer, through                *)
(* ShutdownWhenDone) tells the app to shut down however Serve ends.        *)
(*                                                                         *)
(* A run is one launch of the Serve goroutine of a server: the server and  *)
(* the number of the App.Start that launched it.  The listener of a run    *)
(* and the goroutine are named by the run.                                 *)
(***************************************************************************)
EXTENDS FxLifecycle, ExitCode

CONSTANTS
  ServeErrors,  \* the errors a listener's Accept can make Serve return
  Ephemeral,    \* the servers whose address has port 0: it never is in use
  MaxConns      \* bound: connections a server handles at a time

Server == 1..NumHooks
Run == Server \X (1..MaxStarts)

ErrServerClosed == <<[name |-> "ErrServerClosed", code |-> NoCode]>>

ASSUME ServerAssumption ==
  /\ Ephemeral \subseteq Server
  /\ MaxConns \in Nat
  /\ \A e \in ServeErrors :
       /\ e \in Seq(Layer)
       /\ e # NilError
       /\ ~Is(e, "ErrServerClosed")
       /\ Coded(e) # {} => AsExitCode(e) # 0

Outcome == ServeErrors \cup {ErrServerClosed, NilError}

(***************************************************************************)
(* The coder runServer gives to ShutdownWhenDone.                          *)
(***************************************************************************)
ServerAbnormalExitCode == 255

\* As ServerCoder, with the test of the error inverted.
ServerCoder_Inverted ==
  [e \in Outcome |-> IF Is(e, "ErrServerClosed") THEN ServerAbnormalExitCode ELSE 0]

ServerCoder ==
  [e \in Outcome |-> IF ~Is(e, "ErrServerClosed") THEN ServerAbnormalExitCode ELSE 0]

ASSUME CoderAssumption == ServerCoder # NoCoder

\* what a goroutine can broadcast: the coder's codes, or one an error carries
ExitCodes ==
  {0, ServerAbnormalExitCode} \cup UNION {{e[i].code : i \in Coded(e)} : e \in ServeErrors}

VARIABLES
  serve,       \* where the goroutine of each run is
  serveErr,    \* what Serve returned in each run, NilError until it did
  listening,   \* the runs whose listener is open
  inShutdown,  \* the servers whose Shutdown was called
  conns,       \* the active connections of each server
  draining,    \* is a stop hook inside http.Server.Shutdown?
  last,        \* the exit code of the last shutdown signal, or NoCode
  waiting,     \* has main called App.Wait?
  mailbox      \* the exit code main found in the channel of App.Wait

serverVars == <<serve, serveErr, listening, inShutdown, conns, draining>>
signalVars == <<last, waiting, mailbox>>
vars == <<fxVars, serverVars, signalVars>>

ServeStates == {"none", "ready", "serving", "returned", "done"}

TypeOK ==
  /\ FxTypeOK
  /\ serve \in [Run -> ServeStates]
  /\ serveErr \in [Run -> Outcome]
  /\ listening \subseteq Run
  /\ inShutdown \subseteq Server
  /\ conns \in [Server -> 0..MaxConns]
  /\ draining \in BOOLEAN
  /\ last \in ExitCodes \cup {NoCode}
  /\ waiting \in BOOLEAN
  /\ mailbox \in ExitCodes \cup {NoCode}

Init ==
  /\ FxInit
  /\ serve = [r \in Run |-> "none"]
  /\ serveErr = [r \in Run |-> NilError]
  /\ listening = {}
  /\ inShutdown = {}
  /\ conns = [s \in Server |-> 0]
  /\ draining = FALSE
  /\ last = NoCode
  /\ waiting = FALSE
  /\ mailbox = NoCode

-----------------------------------------------------------------------------
\* The listeners of s that http.Server tracks: those inside Serve's loop
Tracked(s) == {r \in Run : r[1] = s /\ serve[r] = "serving"}

\* net.Listen fails while another socket has the server's fixed address
AddressFree(s) == s \in Ephemeral \/ \A r \in listening : r[1] # s

Launched(s) == serve[<<s, attempt>>] # "none"

-----------------------------------------------------------------------------
(***************************************************************************)
(* OnStart: newListener, then runServer, which only starts the goroutine.  *)
(***************************************************************************)
OnStart_NoGoroutine(s) ==
  /\ HookStarted(s)
  /\ AddressFree(s)
  /\ listening' = listening \cup {<<s, attempt>>}
  /\ UNCHANGED <<serve, serveErr, inShutdown, conns, draining, signalVars>>

OnStart(s) ==
  /\ HookStarted(s)
  /\ AddressFree(s)
  /\ listening' = listening \cup {<<s, attempt>>}
  /\ serve' = [serve EXCEPT ![<<s, attempt>>] = "ready"]
  /\ UNCHANGED <<serveErr, inShutdown, conns, draining, signalVars>>

\* Listen may fail for reasons of its own, a fixed address in use being one
OnStartFails(s) ==
  /\ HookFailed(s)
  /\ UNCHANGED <<serverVars, signalVars>>

(***************************************************************************)
(* Serve.  It refuses a listener, closing it, once Shutdown was called;    *)
(* otherwise it tracks the listener and accepts until Accept fails.        *)
(***************************************************************************)
ServeRefused(r) ==
  /\ serve[r] = "ready"
  /\ r[1] \in inShutdown
  /\ serve' = [serve EXCEPT ![r] = "returned"]
  /\ serveErr' = [serveErr EXCEPT ![r] = ErrServerClosed]
  /\ listening' = listening \ {r}
  /\ UNCHANGED <<fxVars, inShutdown, conns, draining, signalVars>>

ServeTracked(r) ==
  /\ serve[r] = "ready"
  /\ r[1] \notin inShutdown
  /\ serve' = [serve EXCEPT ![r] = "serving"]
  /\ UNCHANGED <<fxVars, serveErr, listening, inShutdown, conns, draining, signalVars>>

Accept(r) ==
  /\ serve[r] = "serving"
  /\ r \in listening
  /\ conns[r[1]] < MaxConns
  /\ conns' = [conns EXCEPT ![r[1]] = @ + 1]
  /\ UNCHANGED <<fxVars, serve, serveErr, listening, inShutdown, draining, signalVars>>

ConnDone(s) ==
  /\ conns[s] > 0
  /\ conns' = [conns EXCEPT ![s] = @ - 1]
  /\ UNCHANGED <<fxVars, serve, serveErr, listening, inShutdown, draining, signalVars>>

\* Accept fails: with an error of the listener while it is open, because it is
\* closed otherwise.  Serve returns ErrServerClosed for any error that it sees
\* after Shutdown was called.
ServeReturns(r) ==
  /\ serve[r] = "serving"
  /\ serve' = [serve EXCEPT ![r] = "returned"]
  /\ \/ /\ r[1] \in inShutdown
        /\ serveErr' = [serveErr EXCEPT ![r] = ErrServerClosed]
     \/ /\ r[1] \notin inShutdown
        /\ \E e \in ServeErrors : serveErr' = [serveErr EXCEPT ![r] = e]
  /\ listening' = listening \ {r}
  /\ UNCHANGED <<fxVars, inShutdown, conns, draining, signalVars>>

-----------------------------------------------------------------------------
(***************************************************************************)
(* The end of ShutdownWhenDone: Serve has returned, and the deferred       *)
(* sh.Shutdown broadcasts the exit code of its error.                      *)
(***************************************************************************)
Broadcast(c) ==
  /\ last' = c
  /\ mailbox' = IF waiting /\ mailbox = NoCode THEN c ELSE mailbox
  /\ UNCHANGED waiting

\* As Signal, but a server that closes as asked is not worth a signal.
Signal_AbnormalOnly(r) ==
  /\ serve[r] = "returned"
  /\ ~Is(serveErr[r], "ErrServerClosed")
  /\ serve' = [serve EXCEPT ![r] = "done"]
  /\ Broadcast(ExitCodeFor(serveErr[r], ServerCoder))
  /\ UNCHANGED <<fxVars, serveErr, listening, inShutdown, conns, draining>>

Signal(r) ==
  /\ serve[r] = "returned"
  /\ serve' = [serve EXCEPT ![r] = "done"]
  /\ Broadcast(ExitCodeFor(serveErr[r], ServerCoder))
  /\ UNCHANGED <<fxVars, serveErr, listening, inShutdown, conns, draining>>

-----------------------------------------------------------------------------
(***************************************************************************)
(* http.Server.Shutdown: from its call the server accepts nothing, then it *)
(* waits for the accept loops to end, and for the connections to end or    *)
(* the context to be done.                                                 *)
(***************************************************************************)
ShutdownCalled(s) ==
  /\ inShutdown' = inShutdown \cup {s}
  /\ listening' = listening \ Tracked(s)
  /\ UNCHANGED <<serve, serveErr, conns>>

OnStop(s) ==
  /\ Stopping(s)
  /\ ~draining
  /\ draining' = TRUE
  /\ ShutdownCalled(s)
  /\ UNCHANGED <<fxVars, signalVars>>

\* As OnStopDone, with a stop hook that does not wait for connections
\* (http.Server.Close).
OnStopDone_Close(s) ==
  /\ draining
  /\ Tracked(s) = {}
  /\ HookStopped(s)
  /\ draining' = FALSE
  /\ UNCHANGED <<serve, serveErr, listening, inShutdown, conns, signalVars>>

\* As OnStopDone, with a stop hook that ignores its context.
OnStopDone_NoContext(s) ==
  /\ draining
  /\ Tracked(s) = {} /\ conns[s] = 0
  /\ HookStopped(s)
  /\ draining' = FALSE
  /\ UNCHANGED <<serve, serveErr, listening, inShutdown, conns, signalVars>>

OnStopDone(s) ==
  /\ draining
  /\ Tracked(s) = {} /\ (conns[s] = 0 \/ expired)
  /\ HookStopped(s)
  /\ draining' = FALSE
  /\ UNCHANGED <<serve, serveErr, listening, inShutdown, conns, signalVars>>

\* Another component that was given the *http.Server shuts it down
ExternalShutdown(s) ==
  /\ s \notin inShutdown
  /\ ShutdownCalled(s)
  /\ UNCHANGED <<fxVars, draining, signalVars>>

-----------------------------------------------------------------------------
(***************************************************************************)
(* main: App.Start, App.Wait, and App.Stop on a signal or at will.         *)
(***************************************************************************)
Start ==
  /\ AppStart
  /\ UNCHANGED <<serverVars, signalVars>>

StartEnds ==
  /\ StartDone \/ StartExpired
  /\ UNCHANGED <<serverVars, signalVars>>

\* After a Start that returned nil.  The channel of App.Wait holds the last
\* signal from the start, if any.
Wait ==
  /\ StartSucceeded
  /\ ~waiting
  /\ waiting' = TRUE
  /\ mailbox' = last
  /\ UNCHANGED <<fxVars, serverVars, last>>

StopOnSignal ==
  /\ StartSucceeded
  /\ waiting /\ mailbox # NoCode
  /\ AppStop
  /\ UNCHANGED <<serverVars, signalVars>>

StopAtWill ==
  /\ AppStop
  /\ UNCHANGED <<serverVars, signalVars>>

\* a hook that was called is waited for; App.Stop may clear the last signal
StopEnds ==
  /\ StopDone
  /\ ~draining
  /\ last' \in {last, NoCode}
  /\ waiting' = FALSE
  /\ mailbox' = NoCode
  /\ UNCHANGED serverVars

Deadline ==
  /\ Expire
  /\ UNCHANGED <<serverVars, signalVars>>

-----------------------------------------------------------------------------
Goroutine(r) ==
  \/ ServeRefused(r)
  \/ ServeTracked(r)
  \/ (r \notin listening /\ ServeReturns(r))
  \/ Signal(r)

StopHook(s) == OnStop(s) \/ OnStopDone(s)

Lifecycle ==
  \/ \E s \in Server : OnStart(s) \/ OnStartFails(s)
  \/ StartEnds
  \/ \E s \in Server : StopHook(s)
  \/ StopEnds

Next ==
  \/ Start \/ Wait \/ StopOnSignal \/ StopAtWill \/ Deadline
  \/ Lifecycle
  \/ \E r \in Run : Goroutine(r) \/ Accept(r) \/ ServeReturns(r)
  \/ \E s \in Server : ConnDone(s) \/ ExternalShutdown(s)

(***************************************************************************)
(* A goroutine that can run does, fx goes from one hook to the next, a     *)
(* deadline passes, and main waits for and obeys the signal.  Nothing      *)
(* makes a connection arrive or end, a listener fail, or anybody call      *)
(* App.Start, App.Stop or Shutdown.                                        *)
(***************************************************************************)
Fairness ==
  /\ \A r \in Run : WF_vars(Goroutine(r))
  /\ WF_vars(Lifecycle)
  /\ WF_vars(Deadline)
  /\ WF_vars(Wait)
  /\ WF_vars(StopOnSignal)

Spec == Init /\ [][Next]_vars /\ Fairness

-----------------------------------------------------------------------------
(***************************************************************************)
(* A listener is open only while a goroutine that will close it is about   *)
(* to serve it or serves it, and a server that was told to shut down has   *)
(* no listener in an accept loop, whichever of Shutdown (bindServer's      *)
(* OnStop) and Serve (runServer's goroutine) came first.                   *)
(***************************************************************************)
ListenerOwned ==
  /\ \A r \in listening : serve[r] \in {"ready", "serving"}
  /\ \A r \in Run : serve[r] = "ready" => r \in listening
  /\ \A r \in Run : serve[r] = "serving" =>
       (r \in listening <=> r[1] \notin inShutdown)

\* nothing accepts for s, and nobody it accepted is being served
Quiet(s) == s \in inShutdown /\ Tracked(s) = {} /\ conns[s] = 0

(***************************************************************************)
(* When a Start that failed, or a Stop, is over and its context was not    *)
(* done before, every server that this attempt launched was shut down and  *)
(* has no connection left: the start and stop hooks of bindServer pair up. *)
(***************************************************************************)
CleanStop ==
  (phase = "idle" /\ ~expired) =>
    \A s \in Server : (attempt > 0 /\ Launched(s)) => Quiet(s)

(***************************************************************************)
(* An exit code of 0 reaches the app only from the Serve goroutine of a    *)
(* server that was told to shut down: no listener failure is reported as   *)
(* a success by runServer's coder and ExitCodeFor.                         *)
(***************************************************************************)
ZeroOnlyAfterShutdown ==
  0 \in {last, mailbox} =>
    \E r \in Run : serve[r] = "done" /\ r[1] \in inShutdown

(***************************************************************************)
(* The end of the Serve goroutine of any server that the current Start     *)
(* launched makes the app stop, also when Serve ended before anybody       *)
(* waited for the signal (server.go:124, "ensures that the enclosing       *)
(* fx.App is shutdown no matter how the server terminates").  An app whose *)
(* Start returned an error is not waited for.                              *)
(***************************************************************************)
EndedInAttempt ==
  \E s \in Server : serve[<<s, attempt>>] \in {"returned", "done"}

TerminationStopsApp ==
  (StartSucceeded /\ EndedInAttempt) ~> (phase # "started")

-----------------------------------------------------------------------------
(***************************************************************************)
(* The inductive invariant behind the safety properties.  While the        *)
(* context is not done, a hook beyond `hook` launched nothing in this      *)
(* attempt or has been unwound; a stop hook in progress has called         *)
(* Shutdown; ErrServerClosed comes from a server that was shut down.       *)
(***************************************************************************)
Bookkeeping ==
  /\ phase # "idle" => attempt > 0
  /\ (phase = "idle" /\ ~expired) => hook = 0
  /\ phase = "started" => hook = NumHooks
  /\ \A r \in Run : r[2] > attempt => serve[r] = "none"

HooksUnwound ==
  /\ phase \in {"starting", "started"} =>
       \A s \in Server : s > hook => ~Launched(s)
  /\ (phase \in {"rollback", "stopping", "idle"} /\ ~expired /\ attempt > 0) =>
       \A s \in Server : (s > hook /\ Launched(s)) => Quiet(s)
  /\ draining => (Unwinding /\ hook > 0 /\ hook \in inShutdown)

ClosedIsShutdown ==
  \A r \in Run :
    /\ serve[r] = "returned" => serveErr[r] # NilError
    /\ Is(serveErr[r], "ErrServerClosed") => r[1] \in inShutdown

IInv ==
  /\ TypeOK
  /\ ListenerOwned
  /\ Bookkeeping
  /\ HooksUnwound
  /\ ClosedIsShutdown
  /\ ZeroOnlyAfterShutdown

-----------------------------------------------------------------------------
(***************************************************************************)
(* The servers as HostedServers promises them to the application.          *)
(***************************************************************************)
Hosted == INSTANCE HostedServers WITH
  Attempt <- 1..MaxStarts,
  hosted <- {r \in Run : serve[r] \in {"ready", "serving", "returned"}},
  reported <- {r \in Run : serve[r] = "done"},
  retired <- inShutdown,
  code <- last

\* Whatever the goroutines and the hooks do is a step of HostedServers.
HostedSafety == Hosted!Safety

\* The goroutine of a server that was told to shut down is reported.
HostedReporting == Hosted!RetiredAreReported
=============================================================================
