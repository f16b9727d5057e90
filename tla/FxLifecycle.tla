---------------------------- MODULE FxLifecycle ----------------------------
(***************************************************************************)
(* The lifecycle of the enclosing fx.App, as the code of arrange uses it   *)
(* (external: go.uber.org/fx is a dependency).                             *)
(*                                                                         *)
(* bindServer, CPU.Provide and Heap.Provide append hooks to an             *)
(* fx.Lifecycle.  App.Start runs the OnStart functions in order and, when  *)
(* one fails or the context of the call is done before the next, rolls     *)
(* back by stopping the hooks that did start.  App.Stop runs the OnStop    *)
(* functions in reverse order, keeps going after an error, and abandons    *)
(* the rest once its context is done.  A stopped app may be started again. *)
(*                                                                         *)
(* The module gives the steps of that lifecycle.  A module that extends    *)
(* it conjoins each HookXXX step with what its own hook does.              *)
(***************************************************************************)
EXTENDS Integers

CONSTANTS NumHooks,   \* the number of hooks appended to the lifecycle
          MaxStarts   \* bound: how often App.Start is called

ASSUME FxAssumption == NumHooks \in Nat /\ MaxStarts \in Nat

VARIABLES
  phase,     \* what the app is doing
  hook,      \* number of hooks whose OnStart succeeded and OnStop is yet to run
  expired,   \* is the context of the Start or Stop call in progress done?
  attempt    \* number of calls of App.Start so far

fxVars == <<phase, hook, expired, attempt>>

Phases == {"idle", "starting", "started", "rollback", "stopping"}
Unwinding == phase \in {"rollback", "stopping"}

FxTypeOK ==
  /\ phase \in Phases
  /\ hook \in 0..NumHooks
  /\ expired \in BOOLEAN
  /\ attempt \in 0..MaxStarts

FxInit ==
  /\ phase = "idle"
  /\ hook = 0
  /\ expired = FALSE
  /\ attempt = 0

-----------------------------------------------------------------------------
\* App.Start on an app that is not running
AppStart ==
  /\ phase = "idle"
  /\ attempt < MaxStarts
  /\ phase' = "starting"
  /\ hook' = 0
  /\ expired' = FALSE
  /\ attempt' = attempt + 1

\* the OnStart of hook h is due
Starting(h) ==
  /\ phase = "starting"
  /\ ~expired
  /\ hook < NumHooks
  /\ h = hook + 1

HookStarted(h) ==
  /\ Starting(h)
  /\ hook' = h
  /\ UNCHANGED <<phase, expired, attempt>>

\* the OnStart of h, called in time, returns nil whenever it does: a hook that
\* ignores its context outlives the call of App.Start
HookReturned(h) ==
  /\ phase = "starting"
  /\ hook < NumHooks
  /\ h = hook + 1
  /\ hook' = h
  /\ UNCHANGED <<phase, expired, attempt>>

HookFailed(h) ==
  /\ Starting(h)
  /\ phase' = "rollback"
  /\ UNCHANGED <<hook, expired, attempt>>

\* the context was done before the next OnStart: Start gives up
StartExpired ==
  /\ phase = "starting"
  /\ expired
  /\ hook < NumHooks
  /\ phase' = "rollback"
  /\ UNCHANGED <<hook, expired, attempt>>

\* the last OnStart has returned.  If the context is done by then, App.Start has
\* returned its error, but the app is started: nothing is rolled back
StartDone ==
  /\ phase = "starting"
  /\ hook = NumHooks
  /\ phase' = "started"
  /\ UNCHANGED <<hook, expired, attempt>>

\* App.Start returned nil
StartSucceeded == phase = "started" /\ ~expired

-----------------------------------------------------------------------------
AppStop ==
  /\ phase = "started"
  /\ phase' = "stopping"
  /\ expired' = FALSE
  /\ UNCHANGED <<hook, attempt>>

\* the OnStop of hook h is due
Stopping(h) ==
  /\ Unwinding
  /\ ~expired
  /\ hook > 0
  /\ h = hook

\* the OnStop of hook h has returned, with or without an error
HookStopped(h) ==
  /\ Unwinding
  /\ hook > 0
  /\ h = hook
  /\ hook' = hook - 1
  /\ UNCHANGED <<phase, expired, attempt>>

\* every hook has been stopped, or the context is done and the rest is abandoned
StopDone ==
  /\ Unwinding
  /\ hook = 0 \/ expired
  /\ phase' = "idle"
  /\ UNCHANGED <<hook, expired, attempt>>

\* the deadline of the Start or Stop call passes
Expire ==
  /\ phase \in {"starting", "rollback", "stopping"}
  /\ ~expired
  /\ expired' = TRUE
  /\ UNCHANGED <<phase, hook, attempt>>
=============================================================================
