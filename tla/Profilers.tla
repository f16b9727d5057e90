----------------------------- MODULE Profilers -----------------------------
(***************************************************************************)
(* The profilers of arrangepprof/profilers.go in the lifecycle of an       *)
(* fx.App: CPU profilers, which profile from their OnStart to their        *)
(* OnStop, and heap profilers, which write a profile in their OnStop.      *)
(* They share the one CPU profile of the process with each other and with  *)
(* the /profile handler that HTTP.Apply (arrangepprof/http.go) installs.   *)
(*                                                                         *)
(* A profiler is named by its hook.  One whose Path is empty has no hook.  *)
(***************************************************************************)
EXTENDS FxLifecycle

CONSTANTS
  Path,        \* the paths of profile files
  PathOf,      \* the Path field of each profiler
  Overwrite,   \* the profilers whose Overwrite field is set
  NoProfile,   \* no CPU profile is in progress
  HttpProfile  \* the /profile handler takes a CPU profile

Hook == 1..NumHooks

ASSUME ProfilersAssumption ==
  /\ PathOf \in [Hook -> Path]
  /\ Overwrite \subseteq Hook
  /\ NoProfile \notin Hook /\ HttpProfile \notin Hook /\ NoProfile # HttpProfile

VARIABLES
  cpu,       \* the hooks of CPU profilers, which the application chooses once
  content,   \* what each file holds
  open,      \* the CPU profilers whose file field is not nil
  profiler,  \* who takes the CPU profile of the process (runtime/pprof)
  handler,   \* is the /profile handler taking a profile?
  result     \* what CPU.start returned in this attempt

fileVars == <<cpu, content, open, profiler, handler, result>>
vars == <<fxVars, fileVars>>

Contents == {"absent", "empty", "profile"}
Results == {"none", "ok", "no file", "busy", "ErrAlreadyProfiling"}

TypeOK ==
  /\ FxTypeOK
  /\ cpu \subseteq Hook
  /\ content \in [Path -> Contents]
  /\ open \subseteq cpu
  /\ profiler \in cpu \cup {NoProfile, HttpProfile}
  /\ handler \in BOOLEAN
  /\ result \in [Hook -> Results]

Init ==
  /\ FxInit
  /\ cpu \in SUBSET Hook
  /\ content \in [Path -> {"absent", "profile"}]
  /\ open = {}
  /\ profiler = NoProfile
  /\ handler = FALSE
  /\ result = [h \in Hook |-> "none"]

-----------------------------------------------------------------------------
(***************************************************************************)
(* openProfilePath creates the file, or truncates it with Overwrite.       *)
(***************************************************************************)
OpenProfilePath_NoExcl(h) ==
  content' = [content EXCEPT ![PathOf[h]] = "empty"]

OpenProfilePath(h) ==
  /\ h \in Overwrite \/ content[PathOf[h]] = "absent"
  /\ content' = [content EXCEPT ![PathOf[h]] = "empty"]

\* pprof.StopCPUProfile ends the profile of the process, whoever takes it, and
\* writes it where its taker asked
StopCPUProfile ==
  /\ profiler' = NoProfile
  /\ content' = IF profiler \in cpu
                THEN [content EXCEPT ![PathOf[profiler]] = "profile"]
                ELSE content

Returns(c, res) == result' = [result EXCEPT ![c] = res]

-----------------------------------------------------------------------------
(***************************************************************************)
(* CPU.start, the OnStart of a CPU profiler.                               *)
(***************************************************************************)
CpuAlreadyStarted(c) ==
  /\ HookFailed(c)
  /\ c \in open
  /\ Returns(c, "ErrAlreadyProfiling")
  /\ UNCHANGED <<cpu, content, open, profiler, handler>>

\* the file exists, or cannot be opened for another reason: c.file stays nil
CpuOpenFails(c) ==
  /\ HookFailed(c)
  /\ c \notin open
  /\ Returns(c, "no file")
  /\ UNCHANGED <<cpu, content, open, profiler, handler>>

\* As CpuBusy, with the error of StartCPUProfile lost.
CpuBusy_Swallowed(c) ==
  /\ HookStarted(c)
  /\ c \notin open
  /\ OpenProfilePath(c)
  /\ profiler # NoProfile
  /\ open' = open \cup {c}
  /\ Returns(c, "ok")
  /\ UNCHANGED <<cpu, profiler, handler>>

\* pprof.StartCPUProfile fails while another profile is in progress: the hook
\* fails with the file open and c.file set
CpuBusy(c) ==
  /\ HookFailed(c)
  /\ c \notin open
  /\ OpenProfilePath(c)
  /\ profiler # NoProfile
  /\ open' = open \cup {c}
  /\ Returns(c, "busy")
  /\ UNCHANGED <<cpu, profiler, handler>>

CpuStarted(c) ==
  /\ HookStarted(c)
  /\ c \notin open
  /\ OpenProfilePath(c)
  /\ profiler = NoProfile
  /\ profiler' = c
  /\ open' = open \cup {c}
  /\ Returns(c, "ok")
  /\ UNCHANGED <<cpu, handler>>

(***************************************************************************)
(* CPU.stop, the OnStop of a CPU profiler.                                 *)
(***************************************************************************)
CpuStop_KeepsFile(c) ==
  /\ Stopping(c)
  /\ HookStopped(c)
  /\ IF c \in open THEN StopCPUProfile ELSE UNCHANGED <<profiler, content>>
  /\ UNCHANGED <<cpu, open, handler, result>>

CpuStop(c) ==
  /\ Stopping(c)
  /\ HookStopped(c)
  /\ IF c \in open THEN StopCPUProfile ELSE UNCHANGED <<profiler, content>>
  /\ open' = open \ {c}
  /\ UNCHANGED <<cpu, handler, result>>

-----------------------------------------------------------------------------
(***************************************************************************)
(* A heap profiler has no OnStart; its OnStop is Heap.stop.  Without the   *)
(* file, or when writing it fails, OnStop returns an error.                *)
(***************************************************************************)
\* As HeapStarted, with the OnStart of a CPU profiler.
HeapStarted_AsCpu(h) == CpuStarted(h)

HeapStarted(h) ==
  /\ HookStarted(h)
  /\ UNCHANGED fileVars

HeapWritten(h) ==
  /\ Stopping(h)
  /\ HookStopped(h)
  /\ h \in Overwrite \/ content[PathOf[h]] = "absent"
  /\ \E c \in {"profile", "empty"} : content' = [content EXCEPT ![PathOf[h]] = c]
  /\ UNCHANGED <<cpu, open, profiler, handler, result>>

HeapNoFile(h) ==
  /\ Stopping(h)
  /\ HookStopped(h)
  /\ UNCHANGED fileVars

-----------------------------------------------------------------------------
(***************************************************************************)
(* The /profile handler (external: net/http/pprof) profiles for a while,   *)
(* then stops the CPU profile.                                             *)
(***************************************************************************)
HandlerStarts ==
  /\ profiler = NoProfile /\ ~handler
  /\ profiler' = HttpProfile
  /\ handler' = TRUE
  /\ UNCHANGED <<fxVars, cpu, content, open, result>>

HandlerEnds ==
  /\ handler
  /\ StopCPUProfile
  /\ handler' = FALSE
  /\ UNCHANGED <<fxVars, cpu, open, result>>

\* somebody collects the profile in a file that no profiler has open
Collect(p) ==
  /\ \A c \in open : PathOf[c] # p
  /\ content[p] # "absent"
  /\ content' = [content EXCEPT ![p] = "absent"]
  /\ UNCHANGED <<fxVars, cpu, open, profiler, handler, result>>

-----------------------------------------------------------------------------
Start ==
  /\ AppStart
  /\ result' = [h \in Hook |-> "none"]
  /\ UNCHANGED <<cpu, content, open, profiler, handler>>

OtherFxStep ==
  /\ StartDone \/ StartExpired \/ AppStop \/ StopDone \/ Expire
  /\ UNCHANGED fileVars

CpuStart(c) ==
  CpuAlreadyStarted(c) \/ CpuOpenFails(c) \/ CpuBusy(c) \/ CpuStarted(c)

HeapStop(h) == HeapWritten(h) \/ HeapNoFile(h)

Next ==
  \/ Start \/ OtherFxStep
  \/ \E c \in cpu : CpuStart(c) \/ CpuStop(c)
  \/ \E h \in Hook \ cpu : HeapStarted(h) \/ HeapStop(h)
  \/ HandlerStarts \/ HandlerEnds
  \/ \E p \in Path : Collect(p)

Spec == Init /\ [][Next]_vars

-----------------------------------------------------------------------------
(***************************************************************************)
(* Whoever takes the CPU profile of the process still wants it: a CPU      *)
(* profiler has its file open, and no CPU.stop has ended the profile that  *)
(* the /profile handler takes.  CPU.stop ends whatever profile is in       *)
(* progress (profilers.go:67), so this rests on a failed CPU.start being   *)
(* reported to fx, which then does not stop that hook.                     *)
(***************************************************************************)
TakerWantsProfile ==
  /\ profiler \in cpu => profiler \in open
  /\ profiler = HttpProfile <=> handler

(***************************************************************************)
(* When a Start that failed, or a Stop, is over and its context was not    *)
(* done before, every CPU profiler that started has closed its file and    *)
(* has ended its profile.                                                  *)
(***************************************************************************)
CleanStop ==
  (phase = "idle" /\ ~expired) =>
    \A c \in cpu : result[c] = "ok" => (c \notin open /\ profiler # c)

(***************************************************************************)
(* The inductive invariant: a CPU profiler whose hook has started and is   *)
(* yet to stop takes the profile of the process, and one that started in   *)
(* this attempt and was stopped takes it no longer.                        *)
(***************************************************************************)
StartedTakesProfile ==
  \A c \in cpu : c <= hook => (c \in open /\ profiler = c)

StoppedLetsGo ==
  \A c \in cpu : (result[c] = "ok" /\ c > hook) => (c \notin open /\ profiler # c)

IInv ==
  /\ TypeOK
  /\ TakerWantsProfile
  /\ StartedTakesProfile
  /\ StoppedLetsGo
  /\ (phase = "idle" /\ ~expired) => hook = 0

(***************************************************************************)
(* A profile in a file survives every profiler of that path that was not   *)
(* told to overwrite it (the Overwrite fields of CPU and Heap), over any   *)
(* number of starts and stops.                                             *)
(***************************************************************************)
Kept(p) == content'[p] = "profile" \/ Collect(p)

NoClobber ==
  [][\A p \in Path :
       (content[p] = "profile" /\ \A h \in Overwrite : PathOf[h] # p) => Kept(p)]_vars

(***************************************************************************)
(* profilers.go:17-18 says that ErrAlreadyProfiling "indicates that a CPU  *)
(* profile to a particular path has already been started": a CPU.start     *)
(* that returns it finds its profile in progress.                          *)
(***************************************************************************)
AlreadyProfilingIsTrue ==
  [][\A c \in cpu :
       (result'[c] = "ErrAlreadyProfiling" /\ result[c] # "ErrAlreadyProfiling")
         => profiler = c]_vars
=============================================================================
