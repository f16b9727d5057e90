-------------------------- MODULE ShutdownWhenDone --------------------------
(***************************************************************************)
(* Tasks run by ShutdownWhenDone and ShutdownWhenDoneCtx                   *)
(* (shutdownWhenDone.go), each in a goroutine of its own, and the errors   *)
(* they make on the way with UseExitCode (exitCoder.go).  The context that *)
(* ShutdownWhenDoneCtx hands on changes nothing here.                      *)
(***************************************************************************)
EXTENDS ExitCode, SequencesExt

CONSTANTS
  Task,      \* the tasks, one goroutine each
  TaskCode,  \* the exit codes that tasks give to UseExitCode
  Coders,    \* the coders, NoCoder among them
  MaxDepth   \* bound: how often an error is wrapped

ASSUME TasksAssumption == TaskCode \subseteq Int /\ MaxDepth \in Nat \ {0}

\* the errors that tasks can make
TaskLayer == [name : {"failure", "wrapped", "exitCodeErr"}, code : TaskCode \cup {NoCode}]
Errors == SeqOf(TaskLayer, MaxDepth)

ASSUME CodersAssumption == \A c \in Coders : c = NoCoder \/ c \in [Errors -> Int]

\* the type of a task: whether it returns an error, and whether it is a defined
\* type, which the constraint ~func() admits as well
TaskType == [returns : {"nothing", "error"}, defined : BOOLEAN]

VARIABLES
  type,    \* the type of each task
  coder,   \* the coder given with each task
  step,    \* where the goroutine of each task is
  made,    \* the error the task is working on
  wanted,  \* the exit code the task last asked for with UseExitCode
  err,     \* the result variable of ShutdownWhenDone
  sent     \* the exit code given to sh.Shutdown, NoCode before

vars == <<type, coder, step, made, wanted, err, sent>>

Steps == {"called", "running", "returned", "panicked", "goexited", "done"}
Ended == {"returned", "panicked", "goexited"}

TypeOK ==
  /\ type \in [Task -> TaskType]
  /\ coder \in [Task -> Coders]
  /\ step \in [Task -> Steps]
  /\ made \in [Task -> Errors]
  /\ wanted \in [Task -> TaskCode \cup {NoCode}]
  /\ err \in [Task -> Errors]
  /\ sent \in [Task -> Int \cup {NoCode}]
  /\ \A t \in Task : sent[t] # NoCode <=> step[t] = "done"

Init ==
  /\ type \in [Task -> TaskType]
  /\ coder \in [Task -> Coders]
  /\ step = [t \in Task |-> "called"]
  /\ made = [t \in Task |-> NilError]
  /\ wanted = [t \in Task |-> NoCode]
  /\ err = [t \in Task |-> NilError]
  /\ sent = [t \in Task |-> NoCode]

-----------------------------------------------------------------------------
Goes(t, s) == step' = [step EXCEPT ![t] = s]

(***************************************************************************)
(* The type assertions of any(task): a defined type is neither func() nor  *)
(* func() error, and the second assertion panics.                          *)
(***************************************************************************)
Call(t) ==
  /\ step[t] = "called"
  /\ Goes(t, IF type[t].defined THEN "panicked" ELSE "running")
  /\ UNCHANGED <<type, coder, made, wanted, err, sent>>

-----------------------------------------------------------------------------
(***************************************************************************)
(* The task at work.                                                       *)
(***************************************************************************)
Fail(t) ==
  /\ step[t] = "running" /\ made[t] = NilError
  /\ made' = [made EXCEPT ![t] = <<[name |-> "failure", code |-> NoCode]>>]
  /\ UNCHANGED <<type, coder, step, wanted, err, sent>>

Wrap(t) ==
  /\ step[t] = "running" /\ made[t] # NilError
  /\ Len(made[t]) < MaxDepth
  /\ made' = [made EXCEPT ![t] = <<[name |-> "wrapped", code |-> NoCode]>> \o @]
  /\ UNCHANGED <<type, coder, step, wanted, err, sent>>

\* UseExitCode, which panics on a nil error
AskForCode(t, c) ==
  /\ step[t] = "running"
  /\ Len(made[t]) < MaxDepth
  /\ IF UseExitCodePanics(made[t])
     THEN Goes(t, "panicked") /\ UNCHANGED <<made, wanted>>
     ELSE /\ made' = [made EXCEPT ![t] = UseExitCode(@, c)]
          /\ wanted' = [wanted EXCEPT ![t] = c]
          /\ UNCHANGED step
  /\ UNCHANGED <<type, coder, err, sent>>

\* the task returns; the error of a task without a result is lost
Return(t) ==
  /\ step[t] = "running"
  /\ Goes(t, "returned")
  /\ err' = IF type[t].returns = "error" THEN [err EXCEPT ![t] = made[t]] ELSE err
  /\ UNCHANGED <<type, coder, made, wanted, sent>>

\* a panic or runtime.Goexit leaves the result variable nil
Unwind(t) ==
  /\ step[t] = "running"
  /\ \E s \in {"panicked", "goexited"} : Goes(t, s)
  /\ UNCHANGED <<type, coder, made, wanted, err, sent>>

-----------------------------------------------------------------------------
(***************************************************************************)
(* The deferred call of sh.Shutdown, which runs however the task ended.    *)
(***************************************************************************)
\* As Deferred, with the call after the task instead of deferred.
Deferred_OnReturn(t) ==
  /\ step[t] = "returned"
  /\ Goes(t, "done")
  /\ sent' = [sent EXCEPT ![t] = ExitCodeFor(err[t], coder[t])]
  /\ UNCHANGED <<type, coder, made, wanted, err>>

Deferred(t) ==
  /\ step[t] \in Ended
  /\ Goes(t, "done")
  /\ sent' = [sent EXCEPT ![t] = ExitCodeFor(err[t], coder[t])]
  /\ UNCHANGED <<type, coder, made, wanted, err>>

Next ==
  \E t \in Task :
    \/ Call(t) \/ Fail(t) \/ Wrap(t) \/ Return(t) \/ Unwind(t) \/ Deferred(t)
    \/ \E c \in TaskCode : AskForCode(t, c)

\* a goroutine enters the task, and what it deferred runs; the task need not end
Fairness == \A t \in Task : WF_vars(Call(t)) /\ WF_vars(Deferred(t))

Spec == Init /\ [][Next]_vars /\ Fairness

-----------------------------------------------------------------------------
(***************************************************************************)
(* However an error was wrapped since, the exit code it was last given     *)
(* with UseExitCode is the one the app is shut down with, and no coder     *)
(* overrules it.                                                           *)
(***************************************************************************)
LatestCodeWins ==
  \A t \in Task :
    (sent[t] # NoCode /\ err[t] # NilError /\ wanted[t] # NoCode) => sent[t] = wanted[t]

(***************************************************************************)
(* Giving an error an exit code does not hide the failure it stands for,   *)
(* and without a coder and without the code 0 an error is no success.      *)
(***************************************************************************)
FailureInside(t) == made[t] # NilError => Is(made[t], "failure")

FailureIsKept ==
  \A t \in Task :
    /\ FailureInside(t)
    /\ (sent[t] = 0 /\ coder[t] = NoCoder /\ err[t] # NilError) => wanted[t] = 0

(***************************************************************************)
(* The inductive invariant.  LastAsked says where in an error the code is  *)
(* that errors.As will find; ResultIsMade that the result variable has no  *)
(* error but the one the task returned; SentWhenDone what was broadcast.   *)
(***************************************************************************)
Outermost(e, k) ==
  \E i \in DOMAIN e : e[i].code = k /\ \A j \in DOMAIN e : j < i => e[j].code = NoCode

LastAsked(t) ==
  IF wanted[t] = NoCode THEN Coded(made[t]) = {} ELSE Outermost(made[t], wanted[t])

ResultIsMade(t) ==
  err[t] # NilError => err[t] = made[t] /\ step[t] \in {"returned", "done"}

SentWhenDone(t) ==
  sent[t] = IF step[t] = "done" THEN ExitCodeFor(err[t], coder[t]) ELSE NoCode

IInv ==
  /\ TypeOK
  /\ \A t \in Task : LastAsked(t) /\ FailureInside(t) /\ ResultIsMade(t) /\ SentWhenDone(t)

(***************************************************************************)
(* The app is shut down once the task is over, also when the task panics   *)
(* or calls runtime.Goexit, or cannot be called at all                     *)
(* (shutdownWhenDone.go:17-18).                                            *)
(***************************************************************************)
EndShutsDown ==
  \A t \in Task : (step[t] \in Ended \/ type[t].defined) ~> (sent[t] # NoCode)
=============================================================================
