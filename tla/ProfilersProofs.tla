-------------------------- MODULE ProfilersProofs --------------------------
(***************************************************************************)
(* Proofs about Profilers for every number of profilers, every choice of   *)
(* which are CPU profilers, of their paths and of the Overwrite fields;    *)
(* and about ProfiledServer, for every position of the server's hook among *)
(* theirs.                                                                 *)
(***************************************************************************)
EXTENDS ProfiledServer, TLAPS

\* No profiler has started, and no profile is in progress.
LEMMA InitInvariant == Init => IInv
<1> SUFFICES ASSUME Init PROVE IInv
  OBVIOUS
<1> USE DEF Init, FxInit
<1>1. FxTypeOK
  <2>1. expired \in BOOLEAN
    OBVIOUS
  <2>2. phase \in Phases /\ hook \in 0..NumHooks /\ attempt \in 0..MaxStarts
    BY FxAssumption DEF Phases
  <2> QED BY <2>1, <2>2 DEF FxTypeOK
<1>2. TypeOK
  <2>1. handler \in BOOLEAN
    OBVIOUS
  <2>2. content \in [Path -> Contents] /\ result \in [Hook -> Results]
    BY DEF Contents, Results
  <2> QED BY <1>1, <2>1, <2>2 DEF TypeOK
<1>3. TakerWantsProfile
  BY ProfilersAssumption DEF TakerWantsProfile
<1>4. StartedTakesProfile
  BY DEF StartedTakesProfile, Hook
<1>5. StoppedLetsGo
  BY DEF StoppedLetsGo
<1> QED BY <1>2, <1>3, <1>4, <1>5 DEF IInv

\* The steps of fx that run no hook leave IInv alone.
LEMMA FxStep == IInv /\ (Start \/ OtherFxStep) => IInv'
<1> SUFFICES ASSUME IInv, Start \/ OtherFxStep PROVE IInv'
  OBVIOUS
<1> USE DEF IInv, fileVars
<1>1. FxTypeOK'
  <2>1. expired' \in BOOLEAN
    BY DEF TypeOK, FxTypeOK, Start, OtherFxStep, AppStart, StartDone, StartExpired,
      AppStop, StopDone, Expire
  <2>2. phase' \in Phases /\ hook' \in 0..NumHooks /\ attempt' \in 0..MaxStarts
    BY FxAssumption DEF TypeOK, FxTypeOK, Phases, Start, OtherFxStep, AppStart,
      StartDone, StartExpired, AppStop, StopDone, Expire
  <2> QED BY <2>1, <2>2 DEF FxTypeOK
<1>2. CASE Start
  <2>1. /\ hook' = 0 /\ phase' = "starting"
        /\ result' = [h \in Hook |-> "none"]
        /\ UNCHANGED <<cpu, content, open, profiler, handler>>
    BY <1>2 DEF Start, AppStart
  <2>2. TypeOK'
    BY <1>1, <2>1 DEF TypeOK, Results
  <2>3. StartedTakesProfile'
    BY <2>1 DEF StartedTakesProfile, TypeOK, Hook
  <2>4. TakerWantsProfile' /\ StoppedLetsGo'
    BY <2>1 DEF TakerWantsProfile, StoppedLetsGo, TypeOK
  <2> QED BY <2>1, <2>2, <2>3, <2>4
<1>3. CASE OtherFxStep
  <2>1. hook' = hook /\ UNCHANGED fileVars
    BY <1>3 DEF OtherFxStep, StartDone, StartExpired, AppStop, StopDone, Expire
  <2>2. TypeOK'
    BY <1>1, <2>1 DEF TypeOK
  <2>3. TakerWantsProfile' /\ StartedTakesProfile' /\ StoppedLetsGo'
    BY <2>1 DEF TakerWantsProfile, StartedTakesProfile, StoppedLetsGo
  <2>4. (phase = "idle" /\ ~expired)' => hook' = 0
    BY <1>3, <2>1 DEF OtherFxStep, StartDone, StartExpired, AppStop, StopDone, Expire
  <2> QED BY <2>2, <2>3, <2>4
<1> QED BY <1>2, <1>3

\* The start hooks: of two CPU profilers at most one takes the profile.
LEMMA StartHookStep ==
  ASSUME IInv, NEW h \in Hook, (h \in cpu /\ CpuStart(h)) \/ (h \notin cpu /\ HeapStarted(h))
  PROVE  IInv'
<1> USE DEF IInv
<1>1. /\ h = hook + 1 /\ phase = "starting" /\ expired' = expired /\ attempt' = attempt
      /\ \/ hook' = h /\ phase' = phase
         \/ hook' = hook /\ phase' = "rollback"
  BY DEF CpuStart, CpuAlreadyStarted, CpuOpenFails, CpuBusy, CpuStarted, HeapStarted,
    HookStarted, HookFailed, Starting
<1>2. FxTypeOK'
  <2>1. expired' \in BOOLEAN
    BY <1>1 DEF TypeOK, FxTypeOK
  <2> QED BY <1>1, <2>1 DEF TypeOK, FxTypeOK, Phases, Hook
<1>3. CASE h \in cpu /\ (CpuAlreadyStarted(h) \/ CpuOpenFails(h) \/ CpuBusy(h))
  <2>1. /\ hook' = hook /\ phase' = "rollback"
        /\ open \subseteq open' /\ open' \subseteq open \cup {h}
        /\ UNCHANGED <<cpu, profiler, handler>>
        /\ \E res \in {"no file", "busy", "ErrAlreadyProfiling"} :
             result' = [result EXCEPT ![h] = res]
        /\ content' \in [Path -> Contents]
    BY <1>3 DEF CpuAlreadyStarted, CpuOpenFails, CpuBusy, HookFailed, Returns,
      OpenProfilePath, TypeOK, Contents
  <2>2. TypeOK'
    BY <1>2, <1>3, <2>1 DEF TypeOK, Results
  <2>3. TakerWantsProfile' /\ StartedTakesProfile'
    BY <2>1 DEF TakerWantsProfile, StartedTakesProfile
  <2>4. StoppedLetsGo'
    BY <2>1 DEF StoppedLetsGo, TypeOK
  <2> QED BY <2>1, <2>2, <2>3, <2>4
<1>4. CASE h \in cpu /\ CpuStarted(h)
  <2>1. /\ hook' = h /\ phase' = "starting"
        /\ profiler = NoProfile /\ profiler' = h
        /\ open' = open \cup {h}
        /\ UNCHANGED <<cpu, handler>>
        /\ result' = [result EXCEPT ![h] = "ok"]
        /\ content' \in [Path -> Contents]
    BY <1>1, <1>4 DEF CpuStarted, HookStarted, Returns, OpenProfilePath, TypeOK, Contents
  <2>2. TypeOK'
    BY <1>2, <1>4, <2>1 DEF TypeOK, Results
  <2>3. TakerWantsProfile'
    BY <2>1, ProfilersAssumption DEF TakerWantsProfile, TypeOK
  <2>4. ASSUME NEW c \in cpu PROVE c <= hook => FALSE
    BY <2>1, ProfilersAssumption DEF StartedTakesProfile, TypeOK
  <2>5. StartedTakesProfile'
    BY <1>1, <2>1, <2>4 DEF StartedTakesProfile, TypeOK, FxTypeOK, Hook
  <2>6. StoppedLetsGo'
    BY <1>1, <2>1 DEF StoppedLetsGo, TypeOK, FxTypeOK, Hook
  <2> QED BY <2>1, <2>2, <2>3, <2>5, <2>6
<1>5. CASE h \notin cpu /\ HeapStarted(h)
  <2>1. hook' = h /\ phase' = "starting" /\ UNCHANGED fileVars
    BY <1>1, <1>5 DEF HeapStarted, HookStarted
  <2>2. TypeOK' /\ TakerWantsProfile'
    BY <1>2, <2>1 DEF TypeOK, TakerWantsProfile, fileVars
  <2>3. StartedTakesProfile'
    BY <1>1, <1>5, <2>1 DEF StartedTakesProfile, TypeOK, FxTypeOK, Hook, fileVars
  <2>4. StoppedLetsGo'
    BY <1>1, <2>1 DEF StoppedLetsGo, TypeOK, FxTypeOK, Hook, fileVars
  <2> QED BY <2>1, <2>2, <2>3, <2>4
<1> QED BY <1>3, <1>4, <1>5 DEF CpuStart

\* The stop hooks: CPU.stop ends the profile that its own start began.
LEMMA StopHookStep ==
  ASSUME IInv, NEW h \in Hook, (h \in cpu /\ CpuStop(h)) \/ (h \notin cpu /\ HeapStop(h))
  PROVE  IInv'
<1> USE DEF IInv
<1>1. /\ h = hook /\ Unwinding /\ hook' = hook - 1
      /\ phase' = phase /\ expired' = expired /\ attempt' = attempt
  BY DEF CpuStop, HeapStop, HeapWritten, HeapNoFile, Stopping, HookStopped
<1>2. FxTypeOK'
  <2>1. expired' \in BOOLEAN
    BY <1>1 DEF TypeOK, FxTypeOK
  <2>2. hook' \in 0..NumHooks
    BY <1>1, FxAssumption DEF TypeOK, FxTypeOK, Hook
  <2> QED BY <1>1, <2>1, <2>2 DEF TypeOK, FxTypeOK
<1>3. phase' # "idle"
  BY <1>1 DEF Unwinding
<1>4. CASE h \in cpu /\ CpuStop(h)
  <2>1. h \in open /\ profiler = h
    BY <1>1, <1>4 DEF StartedTakesProfile, Hook
  <2>2. /\ profiler' = NoProfile /\ open' = open \ {h}
        /\ UNCHANGED <<cpu, handler, result>>
        /\ content' \in [Path -> Contents]
    BY <1>4, <2>1 DEF CpuStop, StopCPUProfile, TypeOK, Contents
  <2>3. TypeOK'
    BY <1>2, <2>2 DEF TypeOK
  <2>4. TakerWantsProfile'
    BY <2>1, <2>2, ProfilersAssumption DEF TakerWantsProfile, TypeOK
  <2>5. StartedTakesProfile'
    BY <1>1, <2>1, <2>2 DEF StartedTakesProfile, TypeOK, FxTypeOK, Hook
  <2>6. StoppedLetsGo'
    BY <1>1, <2>1, <2>2, ProfilersAssumption DEF StoppedLetsGo, TypeOK, FxTypeOK, Hook
  <2> QED BY <1>3, <2>3, <2>4, <2>5, <2>6
<1>5. CASE h \notin cpu /\ HeapStop(h)
  <2>1. /\ content' \in [Path -> Contents]
        /\ UNCHANGED <<cpu, open, profiler, handler, result>>
    BY <1>5 DEF HeapStop, HeapWritten, HeapNoFile, fileVars, TypeOK, Contents
  <2>2. TypeOK' /\ TakerWantsProfile'
    BY <1>2, <2>1 DEF TypeOK, TakerWantsProfile
  <2>3. StartedTakesProfile'
    BY <1>1, <2>1 DEF StartedTakesProfile, TypeOK, FxTypeOK, Hook
  <2>4. StoppedLetsGo'
    BY <1>1, <1>5, <2>1 DEF StoppedLetsGo, TypeOK, FxTypeOK, Hook
  <2> QED BY <1>3, <2>2, <2>3, <2>4
<1> QED BY <1>4, <1>5

\* The /profile handler and whoever collects the files.
LEMMA OutsideStep ==
  IInv /\ (HandlerStarts \/ HandlerEnds \/ \E p \in Path : Collect(p)) => IInv'
<1> SUFFICES ASSUME IInv, HandlerStarts \/ HandlerEnds \/ \E p \in Path : Collect(p)
             PROVE  IInv'
  OBVIOUS
<1> USE DEF IInv, fxVars
<1>1. FxTypeOK' /\ hook' = hook /\ ((phase = "idle" /\ ~expired)' => hook' = 0)
  BY DEF HandlerStarts, HandlerEnds, Collect, TypeOK, FxTypeOK
<1>2. CASE HandlerStarts
  <2>1. TypeOK'
    BY <1>1, <1>2 DEF HandlerStarts, TypeOK
  <2> QED BY <1>1, <1>2, <2>1, ProfilersAssumption
          DEF HandlerStarts, TakerWantsProfile, StartedTakesProfile, StoppedLetsGo, TypeOK
<1>3. CASE HandlerEnds
  <2>1. profiler = HttpProfile /\ profiler' = NoProfile /\ content' = content
    BY <1>3, ProfilersAssumption DEF HandlerEnds, StopCPUProfile, TakerWantsProfile, TypeOK
  <2>2. TypeOK'
    BY <1>1, <1>3, <2>1 DEF HandlerEnds, TypeOK
  <2> QED BY <1>1, <1>3, <2>1, <2>2, ProfilersAssumption
          DEF HandlerEnds, TakerWantsProfile, StartedTakesProfile, StoppedLetsGo, TypeOK
<1>4. CASE \E p \in Path : Collect(p)
  <2>1. content' \in [Path -> Contents] /\ UNCHANGED <<cpu, open, profiler, handler, result>>
    BY <1>4 DEF Collect, TypeOK, Contents
  <2> QED BY <1>1, <2>1
          DEF TakerWantsProfile, StartedTakesProfile, StoppedLetsGo, TypeOK
<1> QED BY <1>2, <1>3, <1>4

\* Every step preserves the invariant.
LEMMA InductiveStep == IInv /\ [Next]_vars => IInv'
<1> SUFFICES ASSUME IInv, [Next]_vars PROVE IInv'
  OBVIOUS
<1>1. CASE UNCHANGED vars
  BY <1>1 DEF IInv, TypeOK, FxTypeOK, TakerWantsProfile, StartedTakesProfile,
    StoppedLetsGo, vars, fxVars, fileVars
<1>2. cpu \subseteq Hook
  BY DEF IInv, TypeOK
<1> QED
  BY <1>1, <1>2, FxStep, StartHookStep, StopHookStep, OutsideStep DEF Next

\* IInv holds whatever the hooks, the handler and the other profilers do.
THEOREM Invariance == Spec => []IInv
<1> QED BY InitInvariant, InductiveStep, PTL DEF Spec

\* The profilers, their files and the profile of the process keep their types.
THEOREM TypeCorrect == Spec => []TypeOK
<1>1. IInv => TypeOK
  BY DEF IInv
<1> QED BY <1>1, Invariance, PTL

\* No CPU.stop ends a profile of the /profile handler or of another CPU profiler,
\* although runtime/pprof would let it (profilers.go:65-73).
THEOREM NobodyElseStopped == Spec => []TakerWantsProfile
<1>1. IInv => TakerWantsProfile
  BY DEF IInv
<1> QED BY <1>1, Invariance, PTL

\* A clean stop closes the files of the CPU profilers that started, and ends
\* their profiles (profilers.go:47-73, in the order fx calls the hooks).
THEOREM StopIsClean == Spec => []CleanStop
<1>1. IInv => CleanStop
  BY DEF IInv, CleanStop, StoppedLetsGo, TypeOK, Hook
<1> QED BY <1>1, Invariance, PTL

\* Without Overwrite a profile on disk survives every step of every profiler
\* (openProfilePath's O_EXCL, profilers.go:22-29).
THEOREM ProfilesAreKept == Spec => NoClobber
<1> DEFINE Safe(p) == content[p] = "profile" /\ \A h \in Overwrite : PathOf[h] # p
<1>1. IInv /\ [Next]_vars => [\A p \in Path : Safe(p) => Kept(p)]_vars
  <2> SUFFICES ASSUME IInv, Next, NEW p \in Path, Safe(p), ~Collect(p)
               PROVE  content'[p] = "profile"
    BY DEF Kept
  <2>1. content \in [Path -> Contents] /\ cpu \subseteq Hook
    BY DEF IInv, TypeOK
  <2>2. CASE Start \/ OtherFxStep
    BY <2>2 DEF Start, OtherFxStep, fileVars
  <2>3. ASSUME NEW h \in Hook, OpenProfilePath(h) PROVE content'[p] = "profile"
    BY <2>1, <2>3, ProfilersAssumption DEF OpenProfilePath
  <2>4. ASSUME StopCPUProfile PROVE content'[p] = "profile"
    BY <2>1, <2>4 DEF StopCPUProfile
  <2>5. ASSUME NEW c \in cpu, CpuStart(c) \/ CpuStop(c) PROVE content'[p] = "profile"
    BY <2>1, <2>3, <2>4, <2>5
    DEF CpuStart, CpuAlreadyStarted, CpuOpenFails, CpuBusy, CpuStarted, CpuStop
  <2>6. ASSUME NEW h \in Hook, HeapStarted(h) \/ HeapStop(h)
        PROVE  content'[p] = "profile"
    BY <2>1, <2>6, ProfilersAssumption DEF HeapStarted, HeapStop, HeapWritten, HeapNoFile, fileVars
  <2>7. CASE HandlerStarts \/ HandlerEnds
    BY <2>4, <2>7 DEF HandlerStarts, HandlerEnds
  <2>8. ASSUME NEW q \in Path, Collect(q) PROVE content'[p] = "profile"
    BY <2>1, <2>8 DEF Collect
  <2> QED BY <2>1, <2>2, <2>5, <2>6, <2>7, <2>8 DEF Next
<1> QED BY <1>1, Invariance, PTL DEF Spec, NoClobber

-----------------------------------------------------------------------------
(***************************************************************************)
(* The profilers beside a server.                                          *)
(***************************************************************************)
\* Neither is there a request, nor has the server started.
LEMMA HostInitInvariant == HostInit => HostIInv
<1> SUFFICES ASSUME HostInit PROVE HostIInv
  OBVIOUS
<1> USE DEF HostInit
<1>1. IInv
  BY InitInvariant
<1>2. HostTypeOK
  <2>1. serving \in BOOLEAN /\ retired \in BOOLEAN /\ draining \in BOOLEAN
    OBVIOUS
  <2>2. request \in BOOLEAN /\ abandoned \in BOOLEAN
    OBVIOUS
  <2> QED BY <1>1, <2>1, <2>2 DEF HostTypeOK, IInv
<1>3. HandlerHasRequest
  BY DEF Init, HandlerHasRequest
<1> QED BY <1>1, <1>2, <1>3 DEF HostIInv, DrainingIsStopHook, EarlierKeepFile

-----------------------------------------------------------------------------
(***************************************************************************)
(* The profilers' own invariant, now that one hook is the server's.        *)
(***************************************************************************)

\* The start hook of the server, whether it fails or not, is nothing to a profiler.
LEMMA HostStartKeepsIInv == HostIInv /\ (HostStarted \/ HostFails) => IInv'
<1> SUFFICES ASSUME HostIInv, HostStarted \/ HostFails PROVE IInv'
  OBVIOUS
<1> USE DEF HostIInv, IInv
<1>1. /\ host = hook + 1 /\ phase = "starting" /\ expired' = expired /\ attempt' = attempt
      /\ hook < NumHooks
      /\ \/ hook' = host /\ phase' = phase
         \/ hook' = hook /\ phase' = "rollback"
      /\ UNCHANGED <<cpu, content, open, profiler, handler, result>>
  BY DEF HostStarted, HostFails, HookStarted, HookFailed, Starting, fileVars
<1>2. FxTypeOK'
  <2>1. expired' \in BOOLEAN
    BY <1>1 DEF TypeOK, FxTypeOK
  <2>2. hook' \in 0..NumHooks
    BY <1>1, FxAssumption DEF TypeOK, FxTypeOK
  <2> QED BY <1>1, <2>1, <2>2 DEF TypeOK, FxTypeOK, Phases
<1>3. TypeOK' /\ TakerWantsProfile'
  BY <1>1, <1>2 DEF TypeOK, TakerWantsProfile
<1>4. StartedTakesProfile' /\ StoppedLetsGo'
  BY <1>1 DEF StartedTakesProfile, StoppedLetsGo, TypeOK, FxTypeOK, Hook
<1> QED BY <1>1, <1>3, <1>4

\* Nor is its stop hook.
LEMMA HostStopKeepsIInv == HostIInv /\ (HostStop \/ HostStopDone) => IInv'
<1> SUFFICES ASSUME HostIInv, HostStop \/ HostStopDone PROVE IInv'
  OBVIOUS
<1> USE DEF HostIInv, IInv
<1>1. /\ host = hook /\ hook > 0 /\ Unwinding
      /\ phase' = phase /\ expired' = expired /\ attempt' = attempt
      /\ hook' = hook \/ hook' = hook - 1
      /\ UNCHANGED <<cpu, content, open, profiler, handler, result>>
  BY DEF HostStop, HostStopDone, HookStopped, Stopping, fileVars, fxVars
<1>2. FxTypeOK'
  <2>1. expired' \in BOOLEAN
    BY <1>1 DEF TypeOK, FxTypeOK
  <2>2. hook' \in 0..NumHooks
    BY <1>1, FxAssumption DEF TypeOK, FxTypeOK
  <2> QED BY <1>1, <2>1, <2>2 DEF TypeOK, FxTypeOK
<1>3. TypeOK' /\ TakerWantsProfile'
  BY <1>1, <1>2 DEF TypeOK, TakerWantsProfile
<1>4. StartedTakesProfile' /\ StoppedLetsGo'
  BY <1>1 DEF StartedTakesProfile, StoppedLetsGo, TypeOK, FxTypeOK, Hook
<1>5. phase' # "idle"
  BY <1>1 DEF Unwinding
<1> QED BY <1>3, <1>4, <1>5

\* Every other step is one of the profilers.
LEMMA KeepsIInv == HostIInv /\ [HostNext]_hostedVars => IInv'
<1> SUFFICES ASSUME HostIInv, [HostNext]_hostedVars PROVE IInv'
  OBVIOUS
<1>1. IInv
  BY DEF HostIInv
<1>2. CASE OtherStep \/ ProfileBegins \/ ProfileEnds
  BY <1>1, <1>2, InductiveStep DEF OtherStep, ProfileBegins, ProfileEnds, Next
<1>3. CASE RequestArrives \/ RequestEnds \/ UNCHANGED hostedVars
  BY <1>1, <1>3, InductiveStep DEF RequestArrives, RequestEnds, hostedVars
<1> QED BY <1>2, <1>3, HostStartKeepsIInv, HostStopKeepsIInv DEF HostNext

-----------------------------------------------------------------------------
(***************************************************************************)
(* The server's part of the invariant.                                     *)
(***************************************************************************)
HostPart == HandlerHasRequest /\ DrainingIsStopHook /\ EarlierKeepFile

\* A step of fx between hooks, or of whoever collects files.
LEMMA BetweenHooks ==
  ASSUME HostIInv, UNCHANGED hostVars,
         Start \/ (OtherFxStep /\ ~(draining /\ expired)) \/ \E p \in Path : Collect(p)
  PROVE  cpu' = cpu /\ HostPart'
<1> USE DEF HostIInv, IInv, hostVars
<1>1. /\ UNCHANGED <<cpu, open, handler>>
      /\ hook' = hook \/ hook' = 0
  BY DEF Start, OtherFxStep, AppStart, StartDone, StartExpired, AppStop, StopDone,
    Expire, fileVars, Collect, fxVars
<1>2. HandlerHasRequest'
  BY <1>1 DEF HandlerHasRequest
<1>3. DrainingIsStopHook'
  BY DEF DrainingIsStopHook, Unwinding, Start, OtherFxStep, AppStart, StartDone,
    StartExpired, AppStop, StopDone, Expire, Collect, fxVars
<1>4. EarlierKeepFile'
  BY <1>1 DEF EarlierKeepFile, TypeOK, Hook
<1> QED BY <1>1, <1>2, <1>3, <1>4 DEF HostPart

\* A start hook of a profiler.  It is not the one of a CPU profiler before the
\* server while that serves: its file is open.
LEMMA ProfilerStarts ==
  ASSUME HostIInv, UNCHANGED hostVars, NEW h \in Hook, h # host,
         (h \in cpu /\ CpuStart(h)) \/ (h \notin cpu /\ HeapStarted(h))
  PROVE  cpu' = cpu /\ HostPart'
<1> USE DEF HostIInv, IInv, hostVars
<1>1. /\ UNCHANGED <<cpu, handler>> /\ open \subseteq open'
      /\ h = hook + 1 /\ phase = "starting"
      /\ hook' = hook \/ (hook' = h /\ (h \in cpu => h \notin open))
  BY DEF CpuStart, CpuAlreadyStarted, CpuOpenFails, CpuBusy, CpuStarted, HeapStarted,
    HookStarted, HookFailed, Starting, fileVars
<1>2. ~draining
  BY <1>1 DEF DrainingIsStopHook, Unwinding
<1>3. EarlierKeepFile'
  <2> SUFFICES ASSUME host # 0, ~abandoned, serving \/ request,
                      NEW c \in cpu, c < host
               PROVE  c \in open' /\ (hook' >= host \/ hook' < c)
    BY <1>1 DEF EarlierKeepFile
  <2>1. c \in open /\ (hook >= host \/ hook < c)
    BY DEF EarlierKeepFile
  <2>2. c \in Int /\ hook \in Int /\ host \in Int
    BY HostAssumption DEF TypeOK, FxTypeOK, HostTypeOK, Hook
  <2> QED BY <1>1, <2>1, <2>2
<1> QED BY <1>1, <1>2, <1>3 DEF HostPart, HandlerHasRequest, DrainingIsStopHook

\* A stop hook of a profiler.  It is not the one of a CPU profiler before the
\* server while a request is under way.
LEMMA ProfilerStops ==
  ASSUME HostIInv, UNCHANGED hostVars, NEW h \in Hook, h # host,
         (h \in cpu /\ CpuStop(h)) \/ (h \notin cpu /\ HeapStop(h))
  PROVE  cpu' = cpu /\ HostPart'
<1> USE DEF HostIInv, IInv, hostVars
<1>1. /\ UNCHANGED <<cpu, handler>> /\ open \ {h} \subseteq open'
      /\ h \notin cpu => open' = open
      /\ h = hook /\ hook' = hook - 1
  BY DEF CpuStop, HeapStop, HeapWritten, HeapNoFile, Stopping, HookStopped, fileVars
<1>2. ~draining
  BY <1>1 DEF DrainingIsStopHook
<1>3. EarlierKeepFile'
  <2> SUFFICES ASSUME host # 0, ~abandoned, serving \/ request,
                      NEW c \in cpu, c < host
               PROVE  c \in open' /\ (hook' >= host \/ hook' < c)
    BY <1>1 DEF EarlierKeepFile
  <2>1. c \in open /\ (hook >= host \/ hook < c)
    BY DEF EarlierKeepFile
  <2>2. c \in Int /\ hook \in Int /\ host \in Int
    BY HostAssumption DEF TypeOK, FxTypeOK, HostTypeOK, Hook
  <2> QED BY <1>1, <2>1, <2>2
<1> QED BY <1>1, <1>2, <1>3 DEF HostPart, HandlerHasRequest, DrainingIsStopHook

\* The start hook of the server: what started before it has not been stopped.
LEMMA ServerStarts ==
  ASSUME HostIInv, HostStarted \/ HostFails
  PROVE  cpu' = cpu /\ HostPart'
<1> USE DEF HostIInv, IInv
<1>1. /\ UNCHANGED <<cpu, open, handler, host, draining, request, abandoned>>
      /\ host = hook + 1 /\ phase = "starting"
      /\ hook' = host \/ (hook' = hook /\ serving' = serving)
  BY DEF HostStarted, HostFails, HookStarted, HookFailed, Starting, fileVars, hostVars
<1>2. ~draining
  BY <1>1 DEF DrainingIsStopHook, Unwinding
<1>3. EarlierKeepFile'
  <2>1. \A c \in cpu : c < host => c \in open
    BY <1>1 DEF StartedTakesProfile, TypeOK, FxTypeOK, Hook
  <2>2. hook \in Int /\ host \in Int
    BY HostAssumption DEF TypeOK, FxTypeOK, HostTypeOK, Hook
  <2> QED BY <1>1, <2>1, <2>2 DEF EarlierKeepFile
<1> QED BY <1>1, <1>2, <1>3 DEF HostPart, HandlerHasRequest, DrainingIsStopHook

\* Its stop hook: when it returns in time there is no request any more.
LEMMA ServerStops ==
  ASSUME HostIInv, HostStop \/ HostStopDone
  PROVE  cpu' = cpu /\ HostPart'
<1> USE DEF HostIInv, IInv
<1>1. UNCHANGED <<cpu, open, handler, host, request>>
  BY DEF HostStop, HostStopDone, fileVars
<1>2. HandlerHasRequest'
  BY <1>1 DEF HandlerHasRequest
<1>3. CASE HostStop
  <2>1. DrainingIsStopHook'
    BY <1>3 DEF DrainingIsStopHook, HostStop, Stopping, Unwinding, fxVars
  <2>2. EarlierKeepFile'
    BY <1>1, <1>3 DEF EarlierKeepFile, HostStop, fxVars
  <2> QED BY <1>1, <1>2, <2>1, <2>2 DEF HostPart
<1>4. CASE HostStopDone
  <2>1. ~draining' /\ ~serving /\ serving' = serving /\ abandoned' = (abandoned \/ request)
    BY <1>4 DEF HostStopDone, DrainingIsStopHook
  <2>2. EarlierKeepFile'
    BY <1>1, <2>1 DEF EarlierKeepFile
  <2> QED BY <1>1, <1>2, <2>1, <2>2 DEF HostPart, DrainingIsStopHook
<1> QED BY <1>3, <1>4

\* A request arrives while the server serves, and has a profile or not.
LEMMA RequestStep ==
  ASSUME HostIInv, RequestArrives \/ ProfileBegins \/ ProfileEnds \/ RequestEnds
                     \/ UNCHANGED hostedVars
  PROVE  cpu' = cpu /\ HostPart'
<1> USE DEF HostIInv, IInv
<1>1. /\ UNCHANGED <<cpu, open, hook, phase, host, serving, draining, abandoned>>
      /\ request' => (serving \/ request)
      /\ (handler' /\ host # 0) => request'
  BY DEF RequestArrives, ProfileBegins, ProfileEnds, RequestEnds, HandlerStarts,
    HandlerEnds, HandlerHasRequest, hostedVars, hostVars, vars, fxVars, fileVars
<1>2. HandlerHasRequest' /\ DrainingIsStopHook' /\ EarlierKeepFile'
  BY <1>1 DEF HandlerHasRequest, DrainingIsStopHook, EarlierKeepFile, Unwinding
<1> QED BY <1>1, <1>2 DEF HostPart

\* Every step preserves the invariant.
LEMMA HostInductiveStep == HostIInv /\ [HostNext]_hostedVars => HostIInv'
<1> SUFFICES ASSUME HostIInv, [HostNext]_hostedVars PROVE HostIInv'
  OBVIOUS
<1>1. cpu \subseteq Hook
  BY DEF HostIInv, IInv, TypeOK
<1>2. cpu' = cpu /\ HostPart'
  <2>1. CASE OtherStep /\ UNCHANGED hostVars
    <3>1. ASSUME NEW c \in cpu, CpuStart(c) \/ CpuStop(c) PROVE cpu' = cpu /\ HostPart'
      <4>1. c # host
        BY DEF HostIInv
      <4> QED BY <1>1, <2>1, <3>1, <4>1, ProfilerStarts, ProfilerStops
    <3>2. ASSUME NEW h \in Hook \ (cpu \cup {host}), HeapStarted(h) \/ HeapStop(h)
          PROVE  cpu' = cpu /\ HostPart'
      BY <2>1, <3>2, ProfilerStarts, ProfilerStops
    <3> QED BY <2>1, <3>1, <3>2, BetweenHooks DEF OtherStep
  <2> QED BY <2>1, ServerStarts, ServerStops, RequestStep DEF HostNext
<1>3. IInv'
  BY KeepsIInv
<1>4. host' = host
  BY DEF HostNext, HostStarted, HostFails, HostStop, HostStopDone, RequestArrives,
    ProfileBegins, ProfileEnds, RequestEnds, hostVars, hostedVars
<1>5. HostTypeOK'
  <2>1. TypeOK'
    BY <1>3 DEF IInv
  <2>2. UNCHANGED hostVars => HostTypeOK'
    BY <2>1 DEF HostIInv, HostTypeOK, hostVars
  <2>3. ASSUME HostStarted \/ HostFails \/ HostStop \/ HostStopDone \/ RequestArrives
                 \/ RequestEnds
        PROVE  HostTypeOK'
    <3>1. serving' \in BOOLEAN /\ retired' \in BOOLEAN /\ draining' \in BOOLEAN
      BY <2>3 DEF HostIInv, HostTypeOK, HostStarted, HostFails, HostStop, HostStopDone,
        RequestArrives, RequestEnds, hostVars
    <3>2. request' \in BOOLEAN /\ abandoned' \in BOOLEAN
      BY <2>3 DEF HostIInv, HostTypeOK, HostStarted, HostFails, HostStop, HostStopDone,
        RequestArrives, RequestEnds, hostVars
    <3> QED BY <1>4, <2>1, <3>1, <3>2 DEF HostIInv, HostTypeOK
  <2> QED BY <2>2, <2>3 DEF HostNext, ProfileBegins, ProfileEnds, hostedVars
<1> QED BY <1>2, <1>3, <1>4, <1>5 DEF HostIInv, HostPart

-----------------------------------------------------------------------------
(***************************************************************************)
(* HostIInv holds however hooks, requests and deadlines interleave, so the *)
(* invariant of the profilers also does beside a server of bindServer.     *)
(***************************************************************************)
THEOREM HostInvariance == HostSpec => []HostIInv
<1> QED BY HostInitInvariant, HostInductiveStep, PTL DEF HostSpec

\* The stop hooks of the profilers keep their promises beside a server
\* (profilers.go:65-73): none ends the profile that a /profile request takes,
\* and a clean stop leaves no file open.
THEOREM BesideServer == HostSpec => [](TakerWantsProfile /\ CleanStop)
<1>1. HostIInv => TakerWantsProfile /\ CleanStop
  BY DEF HostIInv, IInv, CleanStop, StoppedLetsGo, TypeOK, Hook
<1> QED BY <1>1, HostInvariance, PTL

\* No /profile request of a server that starts after a CPU profiler keeps that
\* from its profile (profilers.go:57), unless Shutdown gave up on the request.
THEOREM Undisturbed == HostSpec => ProfilersUndisturbed
<1>1. HostIInv /\ [HostNext]_hostedVars =>
        [\A c \in cpu : BusyWithRequest(c) => (host < c \/ abandoned)]_hostedVars
  <2> SUFFICES ASSUME HostIInv, HostNext, NEW c \in cpu, BusyWithRequest(c),
                      ~(host < c), ~abandoned
               PROVE  FALSE
    OBVIOUS
  <2>1. cpu \subseteq Hook /\ result \in [Hook -> Results]
    BY DEF HostIInv, IInv, TypeOK
  <2>2. c \in Int /\ c > 0 /\ host \in Int /\ host # c
    BY <2>1, HostAssumption DEF HostIInv, HostTypeOK, Hook
  <2>3. c < host /\ host # 0
    BY <2>2
  <2>4. handler /\ request
    BY <2>3 DEF BusyWithRequest, HostIInv, HandlerHasRequest, IInv, TakerWantsProfile
  <2>5. c \in open
    BY <2>3, <2>4 DEF HostIInv, EarlierKeepFile
  <2>6. CpuBusy(c)
    <3>1. \E d \in cpu : CpuStart(d)
      BY <2>1 DEF HostNext, OtherStep, BusyWithRequest, HostStarted, HostFails, HostStop,
        HostStopDone, RequestArrives, ProfileBegins, ProfileEnds, RequestEnds,
        HandlerStarts, HandlerEnds, Start, OtherFxStep, CpuStop, HeapStarted, HeapStop,
        HeapWritten, HeapNoFile, Collect, fileVars, vars
    <3> QED BY <2>1, <3>1 DEF CpuStart, CpuAlreadyStarted, CpuOpenFails, CpuStarted, CpuBusy,
              Returns, BusyWithRequest
  <2> QED BY <2>5, <2>6 DEF CpuBusy
<1> QED BY <1>1, HostInvariance, PTL DEF HostSpec, ProfilersUndisturbed
=============================================================================
