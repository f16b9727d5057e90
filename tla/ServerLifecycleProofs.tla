----------------------- MODULE ServerLifecycleProofs -----------------------
(***************************************************************************)
(* Proofs about ServerLifecycle for every number of servers, starts and    *)
(* connections, every choice of port-0 addresses, and every set of errors  *)
(* that a listener can fail with.                                          *)
(***************************************************************************)
EXTENDS ServerLifecycle, WellFoundedInduction, TLAPS

-----------------------------------------------------------------------------
(***************************************************************************)
(* Exit codes.                                                             *)
(***************************************************************************)

\* AsExitCode is well defined: it is the code of the outermost coded layer
\* (errors.As in ExitCodeFor stops at the first layer that matches).
LEMMA AsExitCodeOutermost ==
  ASSUME NEW err \in Seq(Layer), Coded(err) # {}
  PROVE  \E i \in Coded(err) :
           (\A j \in Coded(err) : i <= j) /\ AsExitCode(err) = err[i].code
<1> DEFINE First(i) == \A j \in Coded(err) : i <= j
<1>1. Coded(err) \subseteq Nat
  BY DEF Coded
<1> DEFINE Less == {ss \in Nat \X Nat : ss[1] < ss[2]}
<1>2. IsWellFoundedOn(Less, Nat)
  BY NatLessThanWellFounded DEF OpToRel
<1>3. \E i \in Coded(err) : First(i)
  <2>1. PICK i \in Coded(err) : \A j \in Coded(err) : ~(<<j, i>> \in Less)
    <3> HIDE DEF Less
    <3> QED BY <1>1, <1>2, WFMin
  <2>2. ASSUME NEW j \in Coded(err) PROVE i <= j
    <3>1. i \in Nat /\ j \in Nat
      BY <1>1
    <3>2. ~(j < i)
      BY <2>1, <3>1
    <3> QED BY <3>1, <3>2
  <2> QED BY <2>2
<1>4. (CHOOSE i \in Coded(err) : First(i)) \in Coded(err)
      /\ First(CHOOSE i \in Coded(err) : First(i))
  BY <1>3
<1> QED BY <1>4 DEF AsExitCode

\* The codes that layers carry are integers (ExitCoder.ExitCode returns an int).
LEMMA CodesAreInt ==
  ASSUME NEW err \in Seq(Layer), NEW i \in Coded(err)
  PROVE  err[i].code \in Int
<1>1. i \in 1..Len(err) /\ err[i] \in Layer
  BY DEF Coded
<1> QED BY <1>1 DEF Coded, Layer

\* What the goroutine of a server can broadcast, and when it is a success:
\* the composition of ExitCodeFor with the coder of runServer.
LEMMA CodeOfServe ==
  ASSUME NEW e \in Outcome, e # NilError
  PROVE  /\ ExitCodeFor(e, ServerCoder) \in ExitCodes
         /\ ExitCodeFor(e, ServerCoder) = 0 => Is(e, "ErrServerClosed")
<1>1. CASE e = ErrServerClosed
  <2>1. Coded(e) = {}
    BY <1>1 DEF Coded, ErrServerClosed
  <2>2. Is(e, "ErrServerClosed")
    BY <1>1 DEF Is, ErrServerClosed
  <2>3. ExitCodeFor(e, ServerCoder) = 0
    BY <2>1, <2>2, CoderAssumption DEF ExitCodeFor, ServerCoder
  <2> QED BY <2>2, <2>3 DEF ExitCodes
<1>2. CASE e \in ServeErrors /\ Coded(e) # {}
  <2>1. PICK i \in Coded(e) : AsExitCode(e) = e[i].code
    BY <1>2, ServerAssumption, AsExitCodeOutermost
  <2>2. AsExitCode(e) # 0
    BY <1>2, ServerAssumption
  <2> QED BY <1>2, <2>1, <2>2 DEF ExitCodeFor, ExitCodes
<1>3. CASE e \in ServeErrors /\ Coded(e) = {}
  <2>1. ExitCodeFor(e, ServerCoder) = ServerAbnormalExitCode
    BY <1>3, CoderAssumption, ServerAssumption DEF ExitCodeFor, ServerCoder
  <2> QED BY <2>1 DEF ExitCodes, ServerAbnormalExitCode
<1> QED BY <1>1, <1>2, <1>3 DEF Outcome

-----------------------------------------------------------------------------
(***************************************************************************)
(* The inductive invariant.                                                *)
(***************************************************************************)
(***************************************************************************)
(* ListenerOwned and IInv, but for the listeners R, which a start hook has *)
(* opened and not handed to a goroutine yet (ListenCapture).               *)
(***************************************************************************)
OwnedBut(R) ==
  /\ \A r \in listening \ R : serve[r] \in {"ready", "serving"}
  /\ \A r \in Run : serve[r] = "ready" => r \in listening
  /\ \A r \in Run : serve[r] = "serving" =>
       (r \in listening <=> r[1] \notin inShutdown)

InvBut(R) ==
  /\ TypeOK
  /\ OwnedBut(R)
  /\ Bookkeeping
  /\ HooksUnwound
  /\ ClosedIsShutdown
  /\ ZeroOnlyAfterShutdown

\* Without such a listener they are the same.
LEMMA ButNone == IInv <=> InvBut({})
BY DEF IInv, InvBut, ListenerOwned, OwnedBut

\* No step of the server lifecycle breaks the invariant.
LEMMA StepKeeps ==
  ASSUME NEW R, InvBut(R), [Next]_vars
  PROVE  InvBut(R)'
<1> USE FxAssumption DEF InvBut, vars, fxVars, serverVars, signalVars
<1>1. CASE Start
  <2>1. TypeOK'
    <3>1. expired' \in BOOLEAN
      BY <1>1 DEF Start, AppStart
    <3>2. phase' \in Phases /\ hook' \in 0..NumHooks /\ attempt' \in 0..MaxStarts
      BY <1>1, FxAssumption DEF TypeOK, FxTypeOK, Phases, Start, AppStart
    <3> QED BY <1>1, <3>1, <3>2 DEF TypeOK, FxTypeOK, Start
  <2>2. OwnedBut(R)'
    BY <1>1 DEF OwnedBut, TypeOK, Tracked, Start, AppStart
  <2>3. Bookkeeping'
    <3>1. attempt \in Nat /\ attempt' = attempt + 1 /\ phase' = "starting"
          /\ serve' = serve
      BY <1>1, FxAssumption DEF TypeOK, FxTypeOK, Start, AppStart
    <3>2. \A r \in Run : r[2] \in Int
      BY DEF Run
    <3> QED BY <3>1, <3>2 DEF Bookkeeping
  <2>4. HooksUnwound'
    <3>1. attempt' = attempt + 1 /\ phase' = "starting"
          /\ draining' = draining /\ serve' = serve
      BY <1>1 DEF Start, AppStart
    <3>2. ASSUME NEW s \in Server PROVE ~Launched(s)'
      <4>1. <<s, attempt + 1>> \in Run /\ attempt \in Nat
        BY <1>1 DEF Start, AppStart, TypeOK, FxTypeOK, Run
      <4> QED BY <3>1, <4>1 DEF Launched, Bookkeeping
    <3>3. ~draining
      BY <1>1 DEF Start, AppStart, HooksUnwound, Unwinding
    <3> QED BY <3>1, <3>2, <3>3 DEF HooksUnwound
  <2>5. ClosedIsShutdown'
    BY <1>1 DEF ClosedIsShutdown, TypeOK, Start, AppStart
  <2>6. ZeroOnlyAfterShutdown'
    BY <1>1 DEF ZeroOnlyAfterShutdown, TypeOK, Start, AppStart
  <2> QED BY <2>1, <2>2, <2>3, <2>4, <2>5, <2>6
<1>2. CASE StartEnds
  <2>1. TypeOK'
    BY <1>2 DEF TypeOK, FxTypeOK, Phases, ServeStates, StartEnds, StartDone,
      StartExpired
  <2>2. OwnedBut(R)'
    BY <1>2 DEF OwnedBut, TypeOK, Tracked, StartEnds, StartDone,
      StartExpired
  <2>3. Bookkeeping'
    BY <1>2 DEF Bookkeeping, TypeOK, FxTypeOK, Unwinding, StartEnds,
      StartDone, StartExpired
  <2>4. HooksUnwound'
    BY <1>2 DEF HooksUnwound, Launched, Quiet, Tracked, Unwinding, TypeOK,
      FxTypeOK, StartEnds, StartDone, StartExpired
  <2>5. ClosedIsShutdown'
    BY <1>2 DEF ClosedIsShutdown, TypeOK, StartEnds, StartDone, StartExpired
  <2>6. ZeroOnlyAfterShutdown'
    BY <1>2 DEF ZeroOnlyAfterShutdown, TypeOK, StartEnds, StartDone,
      StartExpired
  <2> QED BY <2>1, <2>2, <2>3, <2>4, <2>5, <2>6
<1>3. CASE Wait
  <2>1. TypeOK'
    BY <1>3 DEF TypeOK, FxTypeOK, Phases, ServeStates, Wait
  <2>2. OwnedBut(R)'
    BY <1>3 DEF OwnedBut, TypeOK, Tracked, Wait
  <2>3. Bookkeeping'
    BY <1>3 DEF Bookkeeping, TypeOK, FxTypeOK, Unwinding, Wait
  <2>4. HooksUnwound'
    BY <1>3 DEF HooksUnwound, Launched, Quiet, Tracked, Unwinding, TypeOK,
      FxTypeOK, Wait
  <2>5. ClosedIsShutdown'
    BY <1>3 DEF ClosedIsShutdown, TypeOK, Wait
  <2>6. ZeroOnlyAfterShutdown'
    BY <1>3 DEF ZeroOnlyAfterShutdown, TypeOK, Wait
  <2> QED BY <2>1, <2>2, <2>3, <2>4, <2>5, <2>6
<1>4. CASE StopOnSignal
  <2>1. TypeOK'
    BY <1>4 DEF TypeOK, FxTypeOK, Phases, ServeStates, StopOnSignal, AppStop
  <2>2. OwnedBut(R)'
    BY <1>4 DEF OwnedBut, TypeOK, Tracked, StopOnSignal, AppStop
  <2>3. Bookkeeping'
    BY <1>4 DEF Bookkeeping, TypeOK, FxTypeOK, Unwinding, StopOnSignal,
      AppStop
  <2>4. HooksUnwound'
    BY <1>4 DEF HooksUnwound, Launched, Quiet, Tracked, Unwinding, TypeOK,
      FxTypeOK, StopOnSignal, AppStop
  <2>5. ClosedIsShutdown'
    BY <1>4 DEF ClosedIsShutdown, TypeOK, StopOnSignal, AppStop
  <2>6. ZeroOnlyAfterShutdown'
    BY <1>4 DEF ZeroOnlyAfterShutdown, TypeOK, StopOnSignal, AppStop
  <2> QED BY <2>1, <2>2, <2>3, <2>4, <2>5, <2>6
<1>5. CASE StopAtWill
  <2>1. TypeOK'
    BY <1>5 DEF TypeOK, FxTypeOK, Phases, ServeStates, StopAtWill, AppStop
  <2>2. OwnedBut(R)'
    BY <1>5 DEF OwnedBut, TypeOK, Tracked, StopAtWill, AppStop
  <2>3. Bookkeeping'
    BY <1>5 DEF Bookkeeping, TypeOK, FxTypeOK, Unwinding, StopAtWill, AppStop
  <2>4. HooksUnwound'
    BY <1>5 DEF HooksUnwound, Launched, Quiet, Tracked, Unwinding, TypeOK,
      FxTypeOK, StopAtWill, AppStop
  <2>5. ClosedIsShutdown'
    BY <1>5 DEF ClosedIsShutdown, TypeOK, StopAtWill, AppStop
  <2>6. ZeroOnlyAfterShutdown'
    BY <1>5 DEF ZeroOnlyAfterShutdown, TypeOK, StopAtWill, AppStop
  <2> QED BY <2>1, <2>2, <2>3, <2>4, <2>5, <2>6
<1>6. CASE StopEnds
  <2>1. TypeOK'
    BY <1>6 DEF TypeOK, FxTypeOK, Phases, ServeStates, StopEnds, StopDone
  <2>2. OwnedBut(R)'
    BY <1>6 DEF OwnedBut, TypeOK, Tracked, StopEnds, StopDone
  <2>3. Bookkeeping'
    BY <1>6 DEF Bookkeeping, TypeOK, FxTypeOK, Unwinding, StopEnds, StopDone
  <2>4. HooksUnwound'
    BY <1>6 DEF HooksUnwound, Launched, Quiet, Tracked, Unwinding, TypeOK,
      FxTypeOK, StopEnds, StopDone
  <2>5. ClosedIsShutdown'
    BY <1>6 DEF ClosedIsShutdown, TypeOK, StopEnds, StopDone
  <2>6. ZeroOnlyAfterShutdown'
    BY <1>6, NoCodeAssumption DEF ZeroOnlyAfterShutdown, StopEnds, StopDone
  <2> QED BY <2>1, <2>2, <2>3, <2>4, <2>5, <2>6
<1>7. CASE Deadline
  <2>1. TypeOK'
    BY <1>7 DEF TypeOK, FxTypeOK, Phases, ServeStates, Deadline, Expire
  <2>2. OwnedBut(R)'
    BY <1>7 DEF OwnedBut, TypeOK, Tracked, Deadline, Expire
  <2>3. Bookkeeping'
    BY <1>7 DEF Bookkeeping, TypeOK, FxTypeOK, Unwinding, Deadline, Expire
  <2>4. HooksUnwound'
    BY <1>7 DEF HooksUnwound, Launched, Quiet, Tracked, Unwinding, TypeOK,
      FxTypeOK, Deadline, Expire
  <2>5. ClosedIsShutdown'
    BY <1>7 DEF ClosedIsShutdown, TypeOK, Deadline, Expire
  <2>6. ZeroOnlyAfterShutdown'
    BY <1>7 DEF ZeroOnlyAfterShutdown, TypeOK, Deadline, Expire
  <2> QED BY <2>1, <2>2, <2>3, <2>4, <2>5, <2>6
<1>8. ASSUME NEW s \in Server, OnStart(s) PROVE InvBut(R)'
  <2>0. <<s, attempt>> \in Run /\ ~Launched(s)
    BY <1>8 DEF OnStart, HookStarted, Starting, HooksUnwound, Bookkeeping, TypeOK,
      FxTypeOK, Run, Server
  <2>1. TypeOK'
    BY <1>8, <2>0 DEF TypeOK, FxTypeOK, Phases, ServeStates, OnStart,
      HookStarted, Starting
  <2>2. OwnedBut(R)'
    BY <1>8, <2>0 DEF OwnedBut, TypeOK, Tracked, OnStart, HookStarted,
      Starting
  <2>3. Bookkeeping'
    BY <1>8, <2>0 DEF Bookkeeping, TypeOK, FxTypeOK, Unwinding, OnStart,
      HookStarted, Starting
  <2>4. HooksUnwound'
    BY <1>8, <2>0
      DEF HooksUnwound, Launched, Unwinding, TypeOK, FxTypeOK, OnStart, HookStarted, Starting, Server
  <2>5. ClosedIsShutdown'
    BY <1>8, <2>0 DEF ClosedIsShutdown, TypeOK, OnStart, HookStarted,
      Starting
  <2>6. ZeroOnlyAfterShutdown'
    <3>1. \A r \in Run : serve[r] = "done" => serve'[r] = "done"
      BY <1>8, <2>0 DEF TypeOK, OnStart, Launched
    <3> QED BY <1>8, <3>1 DEF ZeroOnlyAfterShutdown, OnStart
  <2> QED BY <2>1, <2>2, <2>3, <2>4, <2>5, <2>6
<1>9. ASSUME NEW s \in Server, OnStartFails(s) PROVE InvBut(R)'
  <2>1. TypeOK'
    BY <1>9 DEF TypeOK, FxTypeOK, Phases, ServeStates, OnStartFails,
      HookFailed, Starting
  <2>2. OwnedBut(R)'
    BY <1>9 DEF OwnedBut, TypeOK, Tracked, OnStartFails, HookFailed,
      Starting
  <2>3. Bookkeeping'
    BY <1>9 DEF Bookkeeping, TypeOK, FxTypeOK, Unwinding, OnStartFails,
      HookFailed, Starting
  <2>4. HooksUnwound'
    BY <1>9 DEF HooksUnwound, Launched, Quiet, Tracked, Unwinding, TypeOK,
      FxTypeOK, OnStartFails, HookFailed, Starting
  <2>5. ClosedIsShutdown'
    BY <1>9 DEF ClosedIsShutdown, TypeOK, OnStartFails, HookFailed, Starting
  <2>6. ZeroOnlyAfterShutdown'
    BY <1>9 DEF ZeroOnlyAfterShutdown, TypeOK, OnStartFails, HookFailed,
      Starting
  <2> QED BY <2>1, <2>2, <2>3, <2>4, <2>5, <2>6
<1>10. ASSUME NEW s \in Server, OnStop(s) PROVE InvBut(R)'
  <2>1. TypeOK'
    BY <1>10 DEF TypeOK, FxTypeOK, Phases, ServeStates, OnStop, Stopping,
      ShutdownCalled
  <2>2. OwnedBut(R)'
    BY <1>10 DEF OwnedBut, TypeOK, Tracked, OnStop, Stopping,
      ShutdownCalled
  <2>3. Bookkeeping'
    BY <1>10 DEF Bookkeeping, TypeOK, FxTypeOK, Unwinding, OnStop, Stopping,
      ShutdownCalled
  <2>4. HooksUnwound'
    BY <1>10 DEF HooksUnwound, Launched, Quiet, Tracked, Unwinding, TypeOK,
      FxTypeOK, OnStop, Stopping, ShutdownCalled
  <2>5. ClosedIsShutdown'
    BY <1>10 DEF ClosedIsShutdown, TypeOK, OnStop, Stopping, ShutdownCalled
  <2>6. ZeroOnlyAfterShutdown'
    BY <1>10 DEF ZeroOnlyAfterShutdown, TypeOK, OnStop, Stopping,
      ShutdownCalled
  <2> QED BY <2>1, <2>2, <2>3, <2>4, <2>5, <2>6
<1>11. ASSUME NEW s \in Server, OnStopDone(s) PROVE InvBut(R)'
  <2>1. TypeOK'
    <3>1. FxTypeOK'
      BY <1>11, FxAssumption DEF TypeOK, FxTypeOK, OnStopDone, HookStopped
    <3> QED BY <1>11, <3>1 DEF TypeOK, OnStopDone
  <2>2. OwnedBut(R)'
    BY <1>11 DEF OwnedBut, TypeOK, Tracked, OnStopDone, HookStopped
  <2>3. Bookkeeping'
    BY <1>11 DEF Bookkeeping, TypeOK, FxTypeOK, Unwinding, OnStopDone,
      HookStopped
  <2>4. HooksUnwound'
    BY <1>11 DEF HooksUnwound, Launched, Quiet, Tracked, Unwinding, TypeOK,
      FxTypeOK, OnStopDone, HookStopped
  <2>5. ClosedIsShutdown'
    BY <1>11 DEF ClosedIsShutdown, TypeOK, OnStopDone, HookStopped
  <2>6. ZeroOnlyAfterShutdown'
    BY <1>11 DEF ZeroOnlyAfterShutdown, TypeOK, OnStopDone, HookStopped
  <2> QED BY <2>1, <2>2, <2>3, <2>4, <2>5, <2>6
<1>12. ASSUME NEW r \in Run, ServeRefused(r) PROVE InvBut(R)'
  <2>1. TypeOK'
    BY <1>12 DEF TypeOK, FxTypeOK, ServeStates, ServeRefused, Outcome
  <2>2. OwnedBut(R)'
    BY <1>12 DEF OwnedBut, TypeOK, Tracked, ServeRefused
  <2>3. Bookkeeping'
    BY <1>12 DEF Bookkeeping, TypeOK, FxTypeOK, Unwinding, ServeRefused
  <2>4. HooksUnwound'
    BY <1>12 DEF HooksUnwound, Launched, Quiet, Tracked, Unwinding, TypeOK,
      FxTypeOK, ServeRefused
  <2>5. ClosedIsShutdown'
    BY <1>12 DEF ClosedIsShutdown, TypeOK, ServeRefused, ErrServerClosed, NilError
  <2>6. ZeroOnlyAfterShutdown'
    BY <1>12 DEF ZeroOnlyAfterShutdown, TypeOK, ServeRefused
  <2> QED BY <2>1, <2>2, <2>3, <2>4, <2>5, <2>6
<1>13. ASSUME NEW r \in Run, ServeTracked(r) PROVE InvBut(R)'
  <2>1. TypeOK'
    BY <1>13 DEF TypeOK, FxTypeOK, Phases, ServeStates, ServeTracked
  <2>2. OwnedBut(R)'
    BY <1>13 DEF OwnedBut, TypeOK, Tracked, ServeTracked
  <2>3. Bookkeeping'
    BY <1>13 DEF Bookkeeping, TypeOK, FxTypeOK, Unwinding, ServeTracked
  <2>4. HooksUnwound'
    BY <1>13 DEF HooksUnwound, Launched, Quiet, Tracked, Unwinding, TypeOK,
      FxTypeOK, ServeTracked
  <2>5. ClosedIsShutdown'
    BY <1>13 DEF ClosedIsShutdown, TypeOK, ServeTracked
  <2>6. ZeroOnlyAfterShutdown'
    BY <1>13 DEF ZeroOnlyAfterShutdown, TypeOK, ServeTracked
  <2> QED BY <2>1, <2>2, <2>3, <2>4, <2>5, <2>6
<1>14. ASSUME NEW r \in Run, ServeReturns(r) PROVE InvBut(R)'
  <2>1. TypeOK'
    BY <1>14 DEF TypeOK, FxTypeOK, ServeStates, ServeReturns, Outcome
  <2>2. OwnedBut(R)'
    BY <1>14 DEF OwnedBut, TypeOK, Tracked, ServeReturns
  <2>3. Bookkeeping'
    BY <1>14 DEF Bookkeeping, TypeOK, FxTypeOK, Unwinding, ServeReturns
  <2>4. HooksUnwound'
    BY <1>14 DEF HooksUnwound, Launched, Quiet, Tracked, Unwinding, TypeOK,
      FxTypeOK, ServeReturns
  <2>5. ClosedIsShutdown'
    <3>1. serveErr'[r] # NilError /\ (Is(serveErr'[r], "ErrServerClosed") => r[1] \in inShutdown)
      <4>1. CASE r[1] \in inShutdown /\ serveErr' = [serveErr EXCEPT ![r] = ErrServerClosed]
        BY <4>1 DEF TypeOK, ErrServerClosed, NilError
      <4>2. CASE \E e \in ServeErrors : serveErr' = [serveErr EXCEPT ![r] = e]
        BY <4>2, ServerAssumption DEF ServerAssumption, TypeOK
      <4> QED BY <1>14, <4>1, <4>2 DEF ServeReturns
    <3>2. \A q \in Run \ {r} : serve'[q] = serve[q] /\ serveErr'[q] = serveErr[q]
      BY <1>14 DEF TypeOK, ServeReturns
    <3>3. inShutdown' = inShutdown
      BY <1>14 DEF ServeReturns
    <3> QED BY <3>1, <3>2, <3>3 DEF ClosedIsShutdown
  <2>6. ZeroOnlyAfterShutdown'
    BY <1>14 DEF ZeroOnlyAfterShutdown, TypeOK, ServeReturns
  <2> QED BY <2>1, <2>2, <2>3, <2>4, <2>5, <2>6
<1>15. ASSUME NEW r \in Run, Signal(r) PROVE InvBut(R)'
  <2>0. /\ ExitCodeFor(serveErr[r], ServerCoder) \in ExitCodes
        /\ ExitCodeFor(serveErr[r], ServerCoder) = 0 => r[1] \in inShutdown
    BY <1>15, CodeOfServe DEF Signal, ClosedIsShutdown, TypeOK
  <2>1. TypeOK'
    BY <1>15, <2>0 DEF TypeOK, FxTypeOK, ServeStates, Signal, Broadcast
  <2>2. OwnedBut(R)'
    BY <1>15, <2>0 DEF OwnedBut, TypeOK, Tracked, Signal, Broadcast
  <2>3. Bookkeeping'
    BY <1>15, <2>0 DEF Bookkeeping, TypeOK, FxTypeOK, Unwinding, Signal,
      Broadcast
  <2>4. HooksUnwound'
    BY <1>15, <2>0 DEF HooksUnwound, Launched, Quiet, Tracked, Unwinding,
      TypeOK, FxTypeOK, Signal, Broadcast
  <2>5. ClosedIsShutdown'
    BY <1>15, <2>0 DEF ClosedIsShutdown, TypeOK, Signal, Broadcast
  <2>6. ZeroOnlyAfterShutdown'
    BY <1>15, <2>0 DEF ZeroOnlyAfterShutdown, ClosedIsShutdown, TypeOK, Signal, Broadcast
  <2> QED BY <2>1, <2>2, <2>3, <2>4, <2>5, <2>6
<1>16. ASSUME NEW r \in Run, Accept(r) PROVE InvBut(R)'
  <2>1. TypeOK'
    BY <1>16, ServerAssumption DEF TypeOK, FxTypeOK, Accept, Run
  <2>2. OwnedBut(R)'
    BY <1>16 DEF OwnedBut, TypeOK, Tracked, Accept
  <2>3. Bookkeeping'
    BY <1>16 DEF Bookkeeping, TypeOK, FxTypeOK, Unwinding, Accept
  <2>4. HooksUnwound'
    BY <1>16 DEF HooksUnwound, Launched, Quiet, Tracked, Unwinding, TypeOK,
      FxTypeOK, Accept
  <2>5. ClosedIsShutdown'
    BY <1>16 DEF ClosedIsShutdown, TypeOK, Accept
  <2>6. ZeroOnlyAfterShutdown'
    BY <1>16 DEF ZeroOnlyAfterShutdown, TypeOK, Accept
  <2> QED BY <2>1, <2>2, <2>3, <2>4, <2>5, <2>6
<1>17. ASSUME NEW s \in Server, ConnDone(s) PROVE InvBut(R)'
  <2>1. TypeOK'
    BY <1>17, ServerAssumption DEF TypeOK, FxTypeOK, ConnDone
  <2>2. OwnedBut(R)'
    BY <1>17 DEF OwnedBut, TypeOK, Tracked, ConnDone
  <2>3. Bookkeeping'
    BY <1>17 DEF Bookkeeping, TypeOK, FxTypeOK, Unwinding, ConnDone
  <2>4. HooksUnwound'
    BY <1>17 DEF HooksUnwound, Launched, Quiet, Tracked, Unwinding, TypeOK,
      FxTypeOK, ConnDone
  <2>5. ClosedIsShutdown'
    BY <1>17 DEF ClosedIsShutdown, TypeOK, ConnDone
  <2>6. ZeroOnlyAfterShutdown'
    BY <1>17 DEF ZeroOnlyAfterShutdown, TypeOK, ConnDone
  <2> QED BY <2>1, <2>2, <2>3, <2>4, <2>5, <2>6
<1>18. ASSUME NEW s \in Server, ExternalShutdown(s) PROVE InvBut(R)'
  <2>1. TypeOK'
    BY <1>18 DEF TypeOK, FxTypeOK, Phases, ServeStates, ExternalShutdown,
      ShutdownCalled
  <2>2. OwnedBut(R)'
    BY <1>18 DEF OwnedBut, TypeOK, Tracked, ExternalShutdown,
      ShutdownCalled
  <2>3. Bookkeeping'
    BY <1>18 DEF Bookkeeping, TypeOK, FxTypeOK, Unwinding, ExternalShutdown,
      ShutdownCalled
  <2>4. HooksUnwound'
    BY <1>18 DEF HooksUnwound, Launched, Quiet, Tracked, Unwinding, TypeOK,
      FxTypeOK, ExternalShutdown, ShutdownCalled
  <2>5. ClosedIsShutdown'
    BY <1>18 DEF ClosedIsShutdown, TypeOK, ExternalShutdown, ShutdownCalled
  <2>6. ZeroOnlyAfterShutdown'
    BY <1>18 DEF ZeroOnlyAfterShutdown, TypeOK, ExternalShutdown,
      ShutdownCalled
  <2> QED BY <2>1, <2>2, <2>3, <2>4, <2>5, <2>6
<1>19. CASE UNCHANGED vars
  <2>1. TypeOK'
    BY <1>19 DEF TypeOK, FxTypeOK, Phases, ServeStates, vars
  <2>2. OwnedBut(R)'
    BY <1>19 DEF OwnedBut, TypeOK, Tracked, vars
  <2>3. Bookkeeping'
    BY <1>19 DEF Bookkeeping, TypeOK, FxTypeOK, Unwinding, vars
  <2>4. HooksUnwound'
    BY <1>19 DEF HooksUnwound, Launched, Quiet, Tracked, Unwinding, TypeOK,
      FxTypeOK, vars
  <2>5. ClosedIsShutdown'
    BY <1>19 DEF ClosedIsShutdown, TypeOK, vars
  <2>6. ZeroOnlyAfterShutdown'
    BY <1>19 DEF ZeroOnlyAfterShutdown, TypeOK, vars
  <2> QED BY <2>1, <2>2, <2>3, <2>4, <2>5, <2>6
<1> QED
  BY <1>1, <1>2, <1>3, <1>4, <1>5, <1>6, <1>7, <1>8, <1>9, <1>10, <1>11,
    <1>12, <1>13, <1>14, <1>15, <1>16, <1>17, <1>18, <1>19 DEF Next,
    Lifecycle, StopHook, Goroutine

LEMMA InductiveStep == IInv /\ [Next]_vars => IInv'
<1> SUFFICES ASSUME IInv, [Next]_vars PROVE IInv'
  OBVIOUS
<1>1. InvBut({})'
  BY ButNone, StepKeeps
<1> QED BY <1>1 DEF IInv, InvBut, ListenerOwned, OwnedBut

\* Nothing is launched, and nobody was told anything.
LEMMA InitInvariant == Init => IInv
<1> SUFFICES ASSUME Init PROVE IInv
  OBVIOUS
<1> USE FxAssumption DEF Init, FxInit
<1>1. TypeOK
  <2>1. conns \in [Server -> 0..MaxConns]
    BY ServerAssumption
  <2>2. serve \in [Run -> ServeStates] /\ serveErr \in [Run -> Outcome]
    BY DEF ServeStates, Outcome
  <2>3. expired \in BOOLEAN /\ draining \in BOOLEAN /\ waiting \in BOOLEAN
    OBVIOUS
  <2>4. phase \in Phases /\ hook \in 0..NumHooks /\ attempt \in 0..MaxStarts
    BY DEF Phases
  <2> QED BY <2>1, <2>2, <2>3, <2>4 DEF TypeOK, FxTypeOK
<1>2. ListenerOwned
  BY DEF ListenerOwned
<1>3. Bookkeeping
  BY DEF Bookkeeping
<1>4. HooksUnwound
  BY DEF HooksUnwound, Unwinding
<1>5. ClosedIsShutdown
  BY DEF ClosedIsShutdown, Is, NilError
<1>6. ZeroOnlyAfterShutdown
  BY NoCodeAssumption DEF ZeroOnlyAfterShutdown
<1> QED BY <1>1, <1>2, <1>3, <1>4, <1>5, <1>6 DEF IInv

(***************************************************************************)
(* IInv holds in every reachable state, so what the hooks of bindServer    *)
(* and the goroutine of runServer do to each other never breaks it.        *)
(***************************************************************************)
THEOREM Invariance == Spec => []IInv
<1>1. Init => IInv
  BY InitInvariant
<1>2. IInv /\ [Next]_vars => IInv'
  BY InductiveStep
<1> QED BY <1>1, <1>2, PTL DEF Spec

\* Type correctness of the server lifecycle (server.go, bindServer and runServer).
THEOREM TypeCorrect == Spec => []TypeOK
<1>1. IInv => TypeOK
  BY DEF IInv
<1> QED BY <1>1, Invariance, PTL

\* No listener is left open without a goroutine, and none accepts for a server
\* that was shut down, however OnStart, OnStop and Serve interleave.
THEOREM ListenersAreOwned == Spec => []ListenerOwned
<1>1. IInv => ListenerOwned
  BY DEF IInv
<1> QED BY <1>1, Invariance, PTL

\* The hooks of bindServer pair up: what an attempt launched is quiet once Start
\* has rolled back, or Stop is over, in time.
THEOREM StopIsClean == Spec => []CleanStop
<1>1. IInv => CleanStop
  <2> SUFFICES ASSUME IInv, phase = "idle", ~expired, attempt > 0,
                      NEW s \in Server, Launched(s)
               PROVE  Quiet(s)
    BY DEF CleanStop
  <2>1. hook = 0 /\ s > hook
    BY DEF IInv, Bookkeeping, Server
  <2> QED BY <2>1 DEF IInv, HooksUnwound
<1> QED BY <1>1, Invariance, PTL

\* Exit code 0 only for a server that was told to shut down (server.go:130-136
\* with ExitCodeFor).
THEOREM ZeroMeansShutdown == Spec => []ZeroOnlyAfterShutdown
<1>1. IInv => ZeroOnlyAfterShutdown
  BY DEF IInv
<1> QED BY <1>1, Invariance, PTL

-----------------------------------------------------------------------------
(***************************************************************************)
(* The refinement of HostedServers.                                        *)
(***************************************************************************)
LEMMA HostedInit == Init => Hosted!Init
<1> SUFFICES ASSUME Init PROVE Hosted!Init
  OBVIOUS
<1> QED BY DEF Init, Hosted!Init

\* What OnStart does to the goroutines is Host.
LEMMA LaunchIsHosted ==
  ASSUME serve \in [Run -> ServeStates], NEW r \in Run, serve[r] = "none",
         serve' = [serve EXCEPT ![r] = "ready"], UNCHANGED <<inShutdown, last>>
  PROVE  Hosted!Next
<1>1. serve'[r] = "ready" /\ \A q \in Run \ {r} : serve'[q] = serve[q]
  OBVIOUS
<1>2. {q \in Run : serve'[q] \in {"ready", "serving", "returned"}}
        = {q \in Run : serve[q] \in {"ready", "serving", "returned"}} \cup {r}
  BY <1>1
<1>3. {q \in Run : serve'[q] = "done"} = {q \in Run : serve[q] = "done"}
  BY <1>1
<1>4. /\ r \notin {q \in Run : serve[q] \in {"ready", "serving", "returned"}}
      /\ r \notin {q \in Run : serve[q] = "done"}
  OBVIOUS
<1>5. Hosted!Host(r)
  BY <1>2, <1>3, <1>4 DEF Hosted!Host
<1> QED BY <1>5 DEF Hosted!Next, Hosted!Launch, Run

\* Every step is a step of HostedServers, or leaves it as it is.
LEMMA HostedStep ==
  ASSUME NEW R, InvBut(R), [Next]_vars
  PROVE  Hosted!Next \/ UNCHANGED Hosted!hostedVars
<1> USE DEF InvBut, fxVars, serverVars, signalVars
<1>1. ASSUME UNCHANGED <<serve, inShutdown, last>>
      PROVE  UNCHANGED Hosted!hostedVars
  BY <1>1 DEF Hosted!hostedVars
<1>2. ASSUME NEW s \in Server, OnStart(s) PROVE Hosted!Next
  <2>1. <<s, attempt>> \in Run /\ serve[<<s, attempt>>] = "none"
    BY <1>2 DEF TypeOK, FxTypeOK, HooksUnwound, Launched, Bookkeeping, OnStart,
      HookStarted, Starting, Run, Server
  <2> QED BY <1>2, <2>1, LaunchIsHosted DEF OnStart, TypeOK
<1>3. ASSUME NEW r \in Run, Signal(r) PROVE Hosted!Next
  <2>1. serve \in [Run -> ServeStates] /\ serveErr[r] \in Outcome
    BY DEF TypeOK
  <2>2. serve[r] = "returned" /\ serve' = [serve EXCEPT ![r] = "done"]
        /\ UNCHANGED inShutdown /\ last' = ExitCodeFor(serveErr[r], ServerCoder)
    BY <1>3 DEF Signal, Broadcast
  <2>3. /\ ExitCodeFor(serveErr[r], ServerCoder) \in ExitCodes
        /\ ExitCodeFor(serveErr[r], ServerCoder) = 0 => r[1] \in inShutdown
    BY <2>1, <2>2, CodeOfServe DEF ClosedIsShutdown
  <2>4. ExitCodes \subseteq Int
    BY ServerAssumption, CodesAreInt DEF ExitCodes, ServerAbnormalExitCode
  <2>5. Hosted!Report(r)
    BY <2>1, <2>2, <2>3, <2>4 DEF Hosted!Report
  <2> QED BY <2>5 DEF Hosted!Next, Hosted!Launch, Run
<1>4. ASSUME NEW s \in Server, OnStop(s) \/ ExternalShutdown(s) PROVE Hosted!Next
  <2>1. Hosted!Retire(s)
    BY <1>4 DEF OnStop, ExternalShutdown, ShutdownCalled, Hosted!Retire
  <2> QED BY <2>1 DEF Hosted!Next
<1>5. ASSUME StopEnds PROVE Hosted!Next \/ UNCHANGED Hosted!hostedVars
  <2>1. CASE last' = last
    BY <1>1, <1>5, <2>1 DEF StopEnds
  <2>2. CASE last' = NoCode
    BY <1>5, <2>2 DEF StopEnds, Hosted!Forget, Hosted!Next
  <2> QED BY <1>5, <2>1, <2>2 DEF StopEnds
<1>6. ASSUME NEW r \in Run, ServeRefused(r) \/ ServeTracked(r) \/ ServeReturns(r)
      PROVE  UNCHANGED Hosted!hostedVars
  <2>1. /\ serve \in [Run -> ServeStates]
        /\ serve[r] \in {"ready", "serving"}
        /\ serve' \in [Run -> ServeStates] /\ serve'[r] \in {"serving", "returned"}
        /\ \A q \in Run \ {r} : serve'[q] = serve[q]
        /\ UNCHANGED <<inShutdown, last>>
    BY <1>6 DEF TypeOK, ServeStates, ServeRefused, ServeTracked, ServeReturns
  <2> QED BY <2>1 DEF Hosted!hostedVars
<1>7. CASE Start \/ StartEnds \/ Wait \/ StopOnSignal \/ StopAtWill \/ Deadline
  BY <1>1, <1>7 DEF Start, StartEnds, Wait, StopOnSignal, StopAtWill, Deadline
<1>8. ASSUME NEW s \in Server, OnStartFails(s) \/ OnStopDone(s) \/ ConnDone(s)
      PROVE  UNCHANGED Hosted!hostedVars
  BY <1>1, <1>8 DEF OnStartFails, OnStopDone, ConnDone
<1>9. ASSUME NEW r \in Run, Accept(r) PROVE UNCHANGED Hosted!hostedVars
  BY <1>1, <1>9 DEF Accept
<1>10. CASE UNCHANGED vars
  BY <1>1, <1>10 DEF vars
<1> QED
  BY <1>2, <1>3, <1>4, <1>5, <1>6, <1>7, <1>8, <1>9, <1>10
  DEF Next, Lifecycle, StopHook, Goroutine

(***************************************************************************)
(* bindServer and runServer implement HostedServers: each launch is        *)
(* reported at most once, and 0 only for a server told to shut down.       *)
(***************************************************************************)
THEOREM ImplementsHosted == Spec => HostedSafety
<1>1. Init => Hosted!Init
  BY HostedInit
<1>2. IInv /\ [Next]_vars => [Hosted!Next]_Hosted!hostedVars
  BY ButNone, HostedStep
<1> QED BY <1>1, <1>2, Invariance, PTL DEF Spec, HostedSafety, Hosted!Safety
=============================================================================
