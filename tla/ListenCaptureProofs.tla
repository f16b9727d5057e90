------------------------ MODULE ListenCaptureProofs ------------------------
(***************************************************************************)
(* Proofs about ListenCapture for every number of servers, starts and      *)
(* calls of ListenReceive, every choice of the servers whose listener is   *)
(* captured, and every capacity of the test's channel.                     *)
(***************************************************************************)
EXTENDS ListenCapture, ServerLifecycleProofs

(***************************************************************************)
(* The inductive invariant.  While a start hook is inside ListenCapture it *)
(* is the next hook of the Start in progress, its listener is open and has *)
(* no goroutine; but for that listener, the invariant of the servers holds *)
(* as it does without a test.                                              *)
(***************************************************************************)
SendingIsHook ==
  sending # NoRun =>
    /\ phase = "starting" /\ hook < NumHooks
    /\ sending = <<hook + 1, attempt>> /\ hook + 1 \in captured
    /\ sending \in listening /\ serve[sending] = "none"

CaptureIInv ==
  /\ CaptureTypeOK
  /\ InvBut({sending})
  /\ SendingIsHook
  /\ AddressesInOrder

\* The runs whose addresses a test has received, or will.
Opened == {r \in Run : r[1] \in captured /\ (serve[r] # "none" \/ r \in listening)}

-----------------------------------------------------------------------------
(***************************************************************************)
(* The queue of addresses.                                                 *)
(***************************************************************************)

\* Two sequences with the same elements at the same places are the same.
LEMMA SameSequence ==
  ASSUME NEW S, NEW s \in Seq(S), NEW t \in Seq(S), Len(s) = Len(t),
         \A i \in 1..Len(s) : s[i] = t[i]
  PROVE  s = t
OBVIOUS

\* An address that is received only moves from the channel to what was got.
LEMMA ReceivedKeepsOrder ==
  ASSUME NEW S, NEW g \in Seq(S), NEW c \in Seq(S), c # << >>, NEW e \in Seq(S)
  PROVE  Append(g, Head(c)) \o Tail(c) \o e = g \o c \o e
<1> DEFINE s == Append(g, Head(c)) \o Tail(c)
<1> DEFINE t == g \o c
<1>1. s \in Seq(S) /\ t \in Seq(S) /\ Len(s) = Len(t)
  OBVIOUS
<1>2. \A i \in 1..Len(s) : s[i] = t[i]
  OBVIOUS
<1> HIDE DEF s, t
<1>3. s = t
  BY <1>1, <1>2, SameSequence
<1> QED BY <1>3 DEF s, t

\* An address that is sent is the last of them, as it was before.
LEMMA SentKeepsOrder ==
  ASSUME NEW S, NEW g \in Seq(S), NEW c \in Seq(S), NEW x \in S
  PROVE  /\ g \o Append(c, x) \o << >> = g \o c \o <<x>>
         /\ c = << >> => Append(g, x) \o c \o << >> = g \o c \o <<x>>
         /\ g \o c \o <<x>> = Append(g \o c, x)
         /\ g \o c \o << >> = g \o c
OBVIOUS

\* What is in a sequence with one more element.
LEMMA AppendRange ==
  ASSUME NEW S, NEW s \in Seq(S), NEW x \in S
  PROVE  Range(Append(s, x)) = Range(s) \cup {x}
<1> DEFINE a == Append(s, x)
<1>1. /\ DOMAIN a = 1..(Len(s) + 1) /\ DOMAIN s = 1..Len(s) /\ Len(s) \in Nat
      /\ a[Len(s) + 1] = x /\ \A i \in 1..Len(s) : a[i] = s[i]
  OBVIOUS
<1> HIDE DEF a
<1>2. 1..(Len(s) + 1) = 1..Len(s) \cup {Len(s) + 1}
  BY <1>1
<1>3. Range(a) = {a[i] : i \in 1..Len(s)} \cup {a[Len(s) + 1]}
  BY <1>1, <1>2 DEF Range
<1>4. {a[i] : i \in 1..Len(s)} = Range(s)
  BY <1>1 DEF Range
<1> QED BY <1>1, <1>3, <1>4 DEF a

-----------------------------------------------------------------------------
(***************************************************************************)
(* Steps of the servers, which leave the test and its channel alone.       *)
(***************************************************************************)
HasAddress(r) == serve[r] # "none" \/ r \in listening

\* A step that opens no captured listener, and leaves the one of a hook that is
\* inside ListenCapture alone.
LEMMA ServersStep ==
  ASSUME CaptureIInv, Next, UNCHANGED captureVars, SendingIsHook',
         \A r \in Run : r[1] \in captured => (HasAddress(r)' <=> HasAddress(r))
  PROVE  CaptureIInv'
<1>1. InvBut({sending})'
  <2>1. PICK R : R = {sending}
    OBVIOUS
  <2>2. InvBut(R)'
    BY <2>1, StepKeeps DEF CaptureIInv
  <2> QED BY <2>1, <2>2 DEF captureVars, InvBut, OwnedBut
<1>2. CaptureTypeOK'
  <2>1. TypeOK'
    BY <1>1 DEF InvBut
  <2> QED BY <2>1 DEF CaptureIInv, CaptureTypeOK, captureVars
<1>3. AddressesInOrder'
  <2>1. Addresses' = Addresses
    BY DEF Addresses, captureVars
  <2>2. Opened' = Opened
    BY DEF Opened, HasAddress, captureVars
  <2> QED BY <2>1, <2>2 DEF CaptureIInv, AddressesInOrder, Opened, Before
<1> QED BY <1>1, <1>2, <1>3 DEF CaptureIInv

\* A step of a goroutine, a connection, or main.
LEMMA IndependentStep ==
  ASSUME CaptureIInv, UNCHANGED captureVars,
         Independent \/ \E r \in Run : Goroutine(r)
  PROVE  CaptureIInv'
<1> USE DEF CaptureIInv, CaptureTypeOK, TypeOK, SendingIsHook, captureVars
<1> DEFINE Kept == SendingIsHook' /\ \A r \in Run : HasAddress(r)' <=> HasAddress(r)
<1>1. Next
  BY DEF Independent, Next
<1>2. CASE Start \/ Wait \/ StopOnSignal \/ StopAtWill \/ Deadline
  <2>1. UNCHANGED <<serve, listening>>
    BY <1>2 DEF Start, Wait, StopOnSignal, StopAtWill, Deadline, serverVars
  <2>2. (sending # NoRun) => UNCHANGED <<phase, hook, attempt>>
    BY <1>2 DEF Start, AppStart, Wait, StopOnSignal, StopAtWill, AppStop, Deadline, Expire,
      fxVars
  <2>3. Kept
    BY <2>1, <2>2 DEF HasAddress
  <2> QED BY <1>1, <2>3, ServersStep
<1>3. CASE \E r \in Run : Accept(r)
  <2>1. UNCHANGED <<serve, listening, phase, hook, attempt>>
    BY <1>3 DEF Accept, fxVars
  <2>2. Kept
    BY <2>1 DEF HasAddress
  <2> QED BY <1>1, <2>2, ServersStep
<1>4. ASSUME NEW r \in Run, ServeReturns(r) \/ Goroutine(r) PROVE CaptureIInv'
  <2>1. /\ serve[r] # "none" /\ serve'[r] # "none"
        /\ \A q \in Run \ {r} : serve'[q] = serve[q] /\ (q \in listening' <=> q \in listening)
        /\ UNCHANGED <<phase, hook, attempt>>
    BY <1>4 DEF ServeReturns, Goroutine, ServeRefused, ServeTracked, Signal, fxVars
  <2>2. sending # NoRun => sending \in Run \ {r}
    BY <2>1
  <2>3. Kept
    BY <2>1, <2>2 DEF HasAddress
  <2> QED BY <1>1, <2>3, ServersStep
<1>5. CASE \E s \in Server : ConnDone(s) \/ ExternalShutdown(s)
  <2>1. UNCHANGED <<serve, phase, hook, attempt>>
    BY <1>5 DEF ConnDone, ExternalShutdown, ShutdownCalled, fxVars
  <2>2. \A r \in Run : serve[r] = "none" => (r \in listening' <=> r \in listening)
    BY <1>5 DEF ConnDone, ExternalShutdown, ShutdownCalled, Tracked
  <2>3. Kept
    BY <2>1, <2>2 DEF HasAddress
  <2> QED BY <1>1, <2>3, ServersStep
<1> QED BY <1>2, <1>3, <1>4, <1>5 DEF Independent

\* A step of the lifecycle while no start hook is inside ListenCapture.
LEMMA HookStepKeeps ==
  ASSUME CaptureIInv, UNCHANGED captureVars, sending = NoRun, HookStep
  PROVE  CaptureIInv'
<1> USE DEF CaptureIInv, CaptureTypeOK, TypeOK, captureVars
<1>1. Next
  BY DEF HookStep, Next, Lifecycle
<1>2. SendingIsHook'
  BY DEF SendingIsHook
<1>3. \A r \in Run : r[1] \in captured => (HasAddress(r)' <=> HasAddress(r))
  <2>1. CASE \E s \in Server \ captured : OnStart(s)
    <3>1. PICK s \in Server \ captured : OnStart(s)
      BY <2>1
    <3>2. \A r \in Run : r # <<s, attempt>> =>
            serve'[r] = serve[r] /\ (r \in listening' <=> r \in listening)
      BY <3>1 DEF OnStart
    <3>3. \A r \in Run : r[1] \in captured => r # <<s, attempt>>
      OBVIOUS
    <3> QED BY <3>2, <3>3 DEF HasAddress
  <2>2. CASE \E s \in Server : OnStartFails(s)
    BY <2>2 DEF OnStartFails, serverVars, HasAddress
  <2>3. CASE \E s \in Server : StopHook(s)
    BY <2>3 DEF StopHook, OnStop, OnStopDone, ShutdownCalled, Tracked, HasAddress
  <2>4. CASE StartEnds \/ StopEnds
    BY <2>4 DEF StartEnds, StopEnds, serverVars, HasAddress
  <2> QED BY <2>1, <2>2, <2>3, <2>4 DEF HookStep
<1> QED BY <1>1, <1>2, <1>3, ServersStep

-----------------------------------------------------------------------------
(***************************************************************************)
(* Steps of a start hook that is inside ListenCapture.                     *)
(***************************************************************************)

\* The hook opens its listener, whose address becomes the last of all.
LEMMA ListenKeeps ==
  ASSUME CaptureIInv, NEW s \in Server, Listen(s)
  PROVE  CaptureIInv'
<1> DEFINE r0 == <<s, attempt>>
<1>0. /\ TypeOK /\ OwnedBut({NoRun}) /\ Bookkeeping /\ HooksUnwound
      /\ NoRun \notin Run /\ sending = NoRun /\ sending' = r0
      /\ phase = "starting" /\ hook < NumHooks /\ s = hook + 1 /\ s \in captured
      /\ listening' = listening \cup {r0}
      /\ UNCHANGED <<fxVars, serve, serveErr, inShutdown, conns, draining, signalVars>>
      /\ UNCHANGED <<captured, capacity, channel, reader, receives, got>>
  BY CaptureAssumption DEF CaptureIInv, InvBut, Listen, Starting
<1>1. r0 \in Run /\ attempt \in Int /\ hook \in Int
  BY <1>0, FxAssumption DEF TypeOK, FxTypeOK, Bookkeeping, Run
<1>2. serve[r0] = "none" /\ r0 \notin listening
  <2>1. serve[r0] = "none"
    BY <1>0, <1>1 DEF HooksUnwound, Launched
  <2> QED BY <1>0, <1>1, <2>1 DEF OwnedBut
<1>3. CaptureTypeOK'
  <2>1. TypeOK'
    BY <1>0, <1>1 DEF TypeOK, FxTypeOK, fxVars, signalVars
  <2> QED BY <1>0, <1>1, <2>1 DEF CaptureIInv, CaptureTypeOK
<1>4. InvBut({sending})'
  <2>1. OwnedBut({sending})'
    BY <1>0, <1>2 DEF OwnedBut, TypeOK
  <2>2. Bookkeeping'
    BY <1>0 DEF Bookkeeping, fxVars
  <2>3. HooksUnwound'
    BY <1>0 DEF HooksUnwound, Launched, Quiet, Tracked, Unwinding, fxVars
  <2>4. ClosedIsShutdown' /\ ZeroOnlyAfterShutdown'
    BY <1>0 DEF CaptureIInv, InvBut, ClosedIsShutdown, ZeroOnlyAfterShutdown, signalVars
  <2> QED BY <1>3, <2>1, <2>2, <2>3, <2>4 DEF CaptureTypeOK, InvBut
<1>5. SendingIsHook'
  BY <1>0, <1>2 DEF SendingIsHook, fxVars
<1>6. \A q \in Opened : Before(q, r0)
  <2> SUFFICES ASSUME NEW q \in Opened PROVE Before(q, r0)
    OBVIOUS
  <2>1. q \in Run /\ serve[q] # "none"
    BY <1>0 DEF Opened, OwnedBut
  <2>2. q[1] \in Server /\ q[2] \in Int /\ q[1] \in Int /\ q = <<q[1], q[2]>>
    BY <2>1 DEF Run, Server
  <2>3. q[2] <= attempt
    BY <1>0, <1>1, <2>1, <2>2 DEF Bookkeeping
  <2>4. q[2] = attempt => q[1] <= hook
    BY <1>0, <1>1, <2>1, <2>2 DEF HooksUnwound, Launched
  <2> QED BY <1>0, <1>1, <2>2, <2>3, <2>4 DEF Before
<1>7. AddressesInOrder'
  <2>0. PICK x : x = r0
    OBVIOUS
  <2>1. x \in Run /\ Addresses \in Seq(Run) /\ Addresses' = Append(Addresses, x)
    <3>1. got \in Seq(Run) /\ channel \in Seq(Run) /\ NoRun # r0
      BY <1>0, <1>1 DEF CaptureIInv, CaptureTypeOK
    <3>2. /\ x \in Run
          /\ Addresses = got \o channel \o << >> /\ Addresses' = got \o channel \o <<x>>
      BY <1>0, <1>1, <2>0, <3>1 DEF Addresses
    <3> QED BY <3>1, <3>2, SentKeepsOrder
  <2>2. Range(Addresses) = Opened
        /\ \A i, j \in DOMAIN Addresses : i < j => Before(Addresses[i], Addresses[j])
    BY DEF CaptureIInv, AddressesInOrder, Opened
  <2>3. Range(Addresses') = Range(Addresses) \cup {r0}
    BY <2>0, <2>1, AppendRange
  <2>4. Opened' = Opened \cup {r0}
    BY <1>0, <1>1, <1>2 DEF Opened
  <2>5. ASSUME NEW i \in DOMAIN Addresses', NEW j \in DOMAIN Addresses', i < j
        PROVE  Before(Addresses'[i], Addresses'[j])
    <3>1. /\ i \in 1..(Len(Addresses) + 1) /\ j \in 1..(Len(Addresses) + 1)
          /\ Len(Addresses) \in Nat /\ DOMAIN Addresses = 1..Len(Addresses)
          /\ \A k \in 1..Len(Addresses) : Addresses'[k] = Addresses[k]
          /\ Addresses'[Len(Addresses) + 1] = r0
      BY <2>0, <2>1
    <3>2. i \in DOMAIN Addresses /\ Addresses'[i] = Addresses[i]
      BY <2>5, <3>1
    <3>3. CASE j \in DOMAIN Addresses
      BY <2>2, <2>5, <3>1, <3>2, <3>3
    <3>4. CASE j = Len(Addresses) + 1
      <4>1. Addresses[i] \in Opened
        BY <2>2, <3>2 DEF Range
      <4> QED BY <1>6, <3>1, <3>2, <3>4, <4>1
    <3> QED BY <3>1, <3>3, <3>4
  <2>6. \A q, r : Before(q, r)' <=> Before(q, r)
    BY DEF Before
  <2> QED BY <2>2, <2>3, <2>4, <2>5 DEF AddressesInOrder, Opened, Before
<1> QED BY <1>3, <1>4, <1>5, <1>7 DEF CaptureIInv

\* The hook is over: a goroutine owns the listener, and the test has the address.
LEMMA SentKeeps ==
  ASSUME CaptureIInv, NEW s \in Server, Captured(s) \/ HandedOver(s)
  PROVE  CaptureIInv'
<1> DEFINE r0 == <<s, attempt>>
<1>0. /\ TypeOK /\ OwnedBut({r0}) /\ Bookkeeping /\ HooksUnwound
      /\ sending = r0 /\ sending' = NoRun /\ NoRun \notin Run
      /\ phase = "starting" /\ hook < NumHooks /\ s = hook + 1 /\ hook' = s
      /\ serve' = [serve EXCEPT ![r0] = "ready"]
      /\ UNCHANGED <<phase, expired, attempt, serveErr, listening, inShutdown, conns,
                     draining, signalVars, captured, capacity, receives>>
  BY CaptureAssumption DEF CaptureIInv, InvBut, Captured, HandedOver, Sent, HookReturned
<1>1. r0 # NoRun /\ r0 \in Run /\ r0 \in listening /\ serve[r0] = "none"
  <2>1. r0 # NoRun
    BY <1>0, FxAssumption DEF TypeOK, FxTypeOK, Bookkeeping, Run
  <2> QED BY <1>0, <2>1 DEF CaptureIInv, CaptureTypeOK, SendingIsHook
<1>2. /\ serve'[r0] = "ready" /\ \A q \in Run \ {r0} : serve'[q] = serve[q]
      /\ serve' \in [Run -> ServeStates]
  BY <1>0, <1>1 DEF TypeOK, ServeStates
<1>3. TypeOK'
  BY <1>0, <1>2, FxAssumption DEF TypeOK, FxTypeOK, signalVars
<1>4. InvBut({sending})'
  <2>1. OwnedBut({sending})'
    BY <1>0, <1>1, <1>2 DEF OwnedBut, TypeOK
  <2>2. Bookkeeping'
    BY <1>0, <1>1, <1>2, FxAssumption DEF Bookkeeping, Run
  <2>3. HooksUnwound'
    <3>1. ~draining /\ attempt \in Int /\ hook \in Int
      BY <1>0, FxAssumption DEF HooksUnwound, Unwinding, TypeOK, FxTypeOK
    <3>2. ASSUME NEW t \in Server, t > hook' PROVE ~Launched(t)'
      <4>1. t \in Int /\ t > hook /\ <<t, attempt>> # r0 /\ <<t, attempt>> \in Run
        BY <1>0, <1>1, <3>1, <3>2 DEF Server, Run
      <4>2. ~Launched(t)
        BY <1>0, <4>1 DEF HooksUnwound
      <4> QED BY <1>0, <1>2, <4>1, <4>2 DEF Launched
    <3> QED BY <1>0, <3>1, <3>2 DEF HooksUnwound
  <2>4. ClosedIsShutdown'
    BY <1>0, <1>2 DEF CaptureIInv, InvBut, ClosedIsShutdown
  <2>5. ZeroOnlyAfterShutdown'
    BY <1>0, <1>1, <1>2 DEF CaptureIInv, InvBut, ZeroOnlyAfterShutdown, signalVars
  <2> QED BY <1>3, <2>1, <2>2, <2>3, <2>4, <2>5 DEF InvBut
<1>5. CaptureTypeOK' /\ Addresses' = Addresses
  <2>1. /\ got \in Seq(Run) /\ channel \in Seq(Run) /\ Len(channel) <= capacity
        /\ capacity \in Nat
    BY CaptureAssumption DEF CaptureIInv, CaptureTypeOK
  <2>2. PICK x : x = r0
    OBVIOUS
  <2>5. /\ x \in Run
        /\ Addresses = got \o channel \o <<x>> /\ Addresses' = got' \o channel' \o << >>
    BY <1>0, <1>1, <2>2 DEF Addresses
  <2>3. CASE Captured(s)
    <3>1. channel' = Append(channel, x) /\ got' = got /\ reader' = reader
          /\ Len(channel) < capacity
      BY <1>0, <2>2, <2>3 DEF Captured
    <3>2. channel' \in Seq(Run) /\ Len(channel') <= capacity
      BY <2>1, <2>5, <3>1
    <3>3. CaptureTypeOK'
      BY <1>0, <1>3, <2>1, <3>1, <3>2 DEF CaptureIInv, CaptureTypeOK
    <3>4. Addresses' = Addresses
      BY <2>1, <2>5, <3>1, SentKeepsOrder, SMTT(30)
    <3> QED BY <3>3, <3>4
  <2>4. CASE HandedOver(s)
    <3>1. channel' = channel /\ got' = Append(got, x) /\ reader' = "idle" /\ channel = << >>
      BY <1>0, <2>1, <2>2, <2>4 DEF HandedOver
    <3>2. got' \in Seq(Run)
      BY <2>1, <2>5, <3>1
    <3>3. CaptureTypeOK'
      BY <1>0, <1>3, <2>1, <3>1, <3>2 DEF CaptureIInv, CaptureTypeOK
    <3>4. Addresses' = Addresses
      BY <2>1, <2>5, <3>1, SentKeepsOrder
    <3> QED BY <3>3, <3>4
  <2> QED BY <2>3, <2>4
<1>6. Opened' = Opened
  BY <1>0, <1>1, <1>2 DEF Opened
<1>7. AddressesInOrder'
  BY <1>5, <1>6 DEF CaptureIInv, AddressesInOrder, Opened, Before
<1> QED BY <1>0, <1>4, <1>5, <1>7 DEF CaptureIInv, SendingIsHook

-----------------------------------------------------------------------------
\* A step of ListenReceive only moves addresses towards the test.
LEMMA ReaderStep ==
  ASSUME CaptureIInv, ReceiveCalled \/ TimerFires \/ Received \/ TimedOut
  PROVE  CaptureIInv'
<1>0. UNCHANGED <<vars, captured, capacity, sending>>
  BY DEF ReceiveCalled, TimerFires, Received, TimedOut
<1>1. /\ TypeOK /\ capacity \in Nat
      /\ got \in Seq(Run) /\ channel \in Seq(Run) /\ Len(channel) <= capacity
  BY CaptureAssumption DEF CaptureIInv, CaptureTypeOK
<1>2. TypeOK'
  BY <1>0, <1>1 DEF TypeOK, FxTypeOK, vars, fxVars, serverVars, signalVars
<1>3. CaptureTypeOK' /\ Addresses' = Addresses
  <2>1. CASE UNCHANGED <<channel, got>>
    <3>1. reader' \in {"idle", "waiting", "late"} /\ receives' \in 0..MaxReceives
      BY CaptureAssumption
      DEF CaptureIInv, CaptureTypeOK, ReceiveCalled, TimerFires, Received, TimedOut
    <3> QED BY <1>0, <1>2, <2>1, <3>1 DEF CaptureIInv, CaptureTypeOK, Addresses
  <2>2. CASE Received
    <3>1. /\ channel # << >> /\ got' = Append(got, Head(channel)) /\ channel' = Tail(channel)
          /\ reader' = "idle" /\ receives' = receives
      BY <2>2 DEF Received
    <3>2. /\ got' \in Seq(Run) /\ channel' \in Seq(Run) /\ Len(channel') <= capacity
      BY <1>1, <3>1
    <3>3. CaptureTypeOK'
      BY <1>0, <1>2, <3>1, <3>2 DEF CaptureIInv, CaptureTypeOK
    <3>4. PICK e : e = IF sending = NoRun THEN << >> ELSE <<sending>>
      OBVIOUS
    <3>5. e \in Seq(Run)
      BY <3>4 DEF CaptureIInv, CaptureTypeOK
    <3>6. Addresses = got \o channel \o e
          /\ Addresses' = Append(got, Head(channel)) \o Tail(channel) \o e
      BY <1>0, <3>1, <3>4 DEF Addresses
    <3>7. Append(got, Head(channel)) \o Tail(channel) \o e = got \o channel \o e
      BY <1>1, <3>1, <3>5, ReceivedKeepsOrder, SMTT(30)
    <3> QED BY <3>3, <3>6, <3>7
  <2> QED BY <2>1, <2>2 DEF ReceiveCalled, TimerFires, TimedOut
<1>4. InvBut({sending})'
  <2>1. PICK R : R = {sending}
    OBVIOUS
  <2>2. InvBut(R)'
    BY <1>0, <2>1, StepKeeps DEF CaptureIInv
  <2> QED BY <1>0, <2>1, <2>2 DEF InvBut, OwnedBut
<1>5. SendingIsHook' /\ AddressesInOrder'
  BY <1>0, <1>3
  DEF CaptureIInv, SendingIsHook, AddressesInOrder, Before, vars, fxVars, serverVars
<1> QED BY <1>3, <1>4, <1>5 DEF CaptureIInv

-----------------------------------------------------------------------------
(***************************************************************************)
(* The theorems.                                                           *)
(***************************************************************************)
LEMMA CaptureStep == CaptureIInv /\ [CaptureNext]_allVars => CaptureIInv'
<1> SUFFICES ASSUME CaptureIInv, [CaptureNext]_allVars PROVE CaptureIInv'
  OBVIOUS
<1>1. CASE Independent /\ UNCHANGED captureVars
  BY <1>1, IndependentStep
<1>2. CASE sending = NoRun /\ HookStep /\ UNCHANGED captureVars
  BY <1>2, HookStepKeeps
<1>3. CASE \E s \in Server : Listen(s) \/ Captured(s) \/ HandedOver(s)
  BY <1>3, ListenKeeps, SentKeeps
<1>4. CASE \E r \in Run : ServerStep(r)
  BY <1>4, IndependentStep DEF ServerStep
<1>5. CASE ReceiveCalled \/ TimerFires \/ Received \/ TimedOut
  BY <1>5, ReaderStep
<1>6. CASE UNCHANGED allVars
  <2>1. UNCHANGED vars /\ UNCHANGED captureVars
    BY <1>6 DEF allVars
  <2>2. PICK R : R = {sending}
    OBVIOUS
  <2>3. InvBut(R)'
    BY <2>1, <2>2, StepKeeps DEF CaptureIInv
  <2>4. InvBut({sending})'
    BY <2>1, <2>2, <2>3 DEF InvBut, OwnedBut, captureVars
  <2>5. CaptureTypeOK'
    BY <2>1, <2>4 DEF CaptureIInv, CaptureTypeOK, InvBut, captureVars
  <2>6. SendingIsHook' /\ AddressesInOrder'
    BY <2>1, SMTT(30) DEF CaptureIInv, SendingIsHook, AddressesInOrder, Addresses, Before, vars, fxVars,
      serverVars, captureVars
  <2> QED BY <2>4, <2>5, <2>6 DEF CaptureIInv
<1> QED BY <1>1, <1>2, <1>3, <1>4, <1>5, <1>6 DEF CaptureNext, CaptureLifecycle

LEMMA CaptureInitInvariant == CaptureInit => CaptureIInv
<1> SUFFICES ASSUME CaptureInit PROVE CaptureIInv
  OBVIOUS
<1>1. IInv /\ listening = {} /\ \A r \in Run : serve[r] = "none"
  BY InitInvariant DEF CaptureInit, Init
<1>2. InvBut({sending})
  BY <1>1 DEF IInv, InvBut, ListenerOwned, OwnedBut
<1>3. got = << >> /\ channel = << >> /\ sending = NoRun /\ Addresses = << >>
  BY DEF CaptureInit, Addresses
<1>4. CaptureTypeOK
  BY <1>1, <1>3, CaptureAssumption DEF CaptureInit, CaptureTypeOK, IInv
<1>5. AddressesInOrder
  <2>1. DOMAIN Addresses = {}
    BY <1>3
  <2>2. Range(Addresses) = {}
    BY <2>1 DEF Range
  <2> QED BY <1>1, <2>1, <2>2 DEF AddressesInOrder
<1> QED BY <1>2, <1>3, <1>4, <1>5 DEF CaptureIInv, SendingIsHook

(***************************************************************************)
(* CaptureIInv holds in every reachable state: a start hook that blocks in *)
(* ListenCapture while servers stop, fail and time out around it breaks    *)
(* nothing of what bindServer keeps.                                       *)
(***************************************************************************)
THEOREM CaptureInvariance == CaptureSpec => []CaptureIInv
<1>1. CaptureInit => CaptureIInv
  BY CaptureInitInvariant
<1>2. CaptureIInv /\ [CaptureNext]_allVars => CaptureIInv'
  BY CaptureStep
<1> QED BY <1>1, <1>2, PTL DEF CaptureSpec

\* The channel never holds more than its capacity (a Go channel as ListenCapture
\* and ListenReceive use it), and only addresses of listeners are in it.
THEOREM CaptureTypeCorrect == CaptureSpec => []CaptureTypeOK
<1>1. CaptureIInv => CaptureTypeOK
  BY DEF CaptureIInv
<1> QED BY <1>1, CaptureInvariance, PTL

\* ListenCapture sends the address of every listener once, and ListenReceive
\* returns them in the order of the starts, whatever timers fire.
THEOREM AddressesArriveInOrder == CaptureSpec => []AddressesInOrder
<1>1. CaptureIInv => AddressesInOrder
  BY DEF CaptureIInv
<1> QED BY <1>1, CaptureInvariance, PTL

(***************************************************************************)
(* Only the hook that is inside ListenCapture owns a listener that no      *)
(* goroutine does; the hooks of bindServer pair up also when a test blocks *)
(* one of them past its deadline.                                          *)
(***************************************************************************)
THEOREM CapturedServersAreClean ==
  CaptureSpec => [](OwnedBut({sending}) /\ CleanStop /\ ZeroOnlyAfterShutdown)
<1>1. CaptureIInv => OwnedBut({sending}) /\ CleanStop /\ ZeroOnlyAfterShutdown
  <2> SUFFICES ASSUME CaptureIInv PROVE CleanStop
    BY DEF CaptureIInv, InvBut
  <2> SUFFICES ASSUME phase = "idle", ~expired, attempt > 0, NEW s \in Server, Launched(s)
               PROVE  Quiet(s)
    BY DEF CleanStop
  <2>1. hook = 0 /\ s > hook
    BY DEF CaptureIInv, InvBut, Bookkeeping, Server
  <2> QED BY <2>1 DEF CaptureIInv, InvBut, HooksUnwound
<1> QED BY <1>1, CaptureInvariance, PTL

(***************************************************************************)
(* With the middleware of a test in their start hooks, the servers still   *)
(* implement HostedServers.                                                *)
(***************************************************************************)
THEOREM CaptureImplementsHosted == CaptureSpec => HostedSafety
<1>1. CaptureInit => Hosted!Init
  BY HostedInit DEF CaptureInit
<1>2. CaptureIInv /\ [CaptureNext]_allVars => [Hosted!Next]_Hosted!hostedVars
  <2> SUFFICES ASSUME CaptureIInv, [CaptureNext]_allVars
               PROVE  Hosted!Next \/ UNCHANGED Hosted!hostedVars
    OBVIOUS
  <2>1. ASSUME [Next]_vars PROVE Hosted!Next \/ UNCHANGED Hosted!hostedVars
    <3>1. PICK R : R = {sending}
      OBVIOUS
    <3>2. InvBut(R)
      BY <3>1 DEF CaptureIInv
    <3> QED BY <2>1, <3>2, HostedStep
  <2>2. ASSUME UNCHANGED <<serve, inShutdown, last>> PROVE UNCHANGED Hosted!hostedVars
    BY <2>2 DEF Hosted!hostedVars
  <2>3. CASE Independent \/ (\E r \in Run : ServerStep(r)) \/ HookStep
    <3>1. Next
      BY <2>3 DEF Independent, ServerStep, HookStep, Next, Lifecycle
    <3> QED BY <2>1, <3>1
  <2>4. ASSUME NEW s \in Server, Listen(s) PROVE UNCHANGED Hosted!hostedVars
    BY <2>2, <2>4 DEF Listen, signalVars
  <2>5. ASSUME NEW s \in Server, Captured(s) \/ HandedOver(s) PROVE Hosted!Next
    <3>1. /\ serve' = [serve EXCEPT ![<<s, attempt>>] = "ready"]
          /\ UNCHANGED <<inShutdown, last>> /\ sending = <<s, attempt>>
      BY <2>5 DEF Captured, HandedOver, Sent, signalVars
    <3>2. sending # NoRun
      BY <2>5, CaptureAssumption, FxAssumption DEF Captured, HandedOver, Sent, HookReturned,
        CaptureIInv, InvBut, Bookkeeping, TypeOK, FxTypeOK, Run
    <3>3. <<s, attempt>> \in Run /\ serve[<<s, attempt>>] = "none"
      BY <3>1, <3>2 DEF CaptureIInv, CaptureTypeOK, SendingIsHook
    <3> QED BY <3>1, <3>3, LaunchIsHosted DEF CaptureIInv, CaptureTypeOK, TypeOK
  <2>6. CASE ReceiveCalled \/ TimerFires \/ Received \/ TimedOut
    BY <2>1, <2>6 DEF ReceiveCalled, TimerFires, Received, TimedOut
  <2>7. CASE UNCHANGED allVars
    BY <2>1, <2>7 DEF allVars
  <2> QED BY <2>3, <2>4, <2>5, <2>6, <2>7 DEF CaptureNext, CaptureLifecycle
<1> QED BY <1>1, <1>2, CaptureInvariance, PTL DEF CaptureSpec, HostedSafety, Hosted!Safety
=============================================================================
