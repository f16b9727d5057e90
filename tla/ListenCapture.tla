--------------------------- MODULE ListenCapture ---------------------------
(***************************************************************************)
(* Servers whose external listener middleware is arrangetest.ListenCapture *)
(* (arrangetest/listenCapture.go), with a test that calls ListenReceive.   *)
(*                                                                         *)
(* The middleware sends the address of the listener on the test's channel  *)
(* inside the start hook of bindServer, between the opening of the         *)
(* listener and the Serve goroutine, and does not look at the context of   *)
(* App.Start: OnStart of ServerLifecycle becomes Listen and then Captured  *)
(* or HandedOver, and anything may happen between them.                    *)
(*                                                                         *)
(* The address of a listener is named by its run.                          *)
(***************************************************************************)
EXTENDS ServerLifecycle, SequencesExt

CONSTANTS
  Capacities,  \* the capacities that a test gives to its channel
  MaxReceives, \* bound: how often ListenReceive is called, one at a time
  NoRun        \* no start hook is inside ListenCapture

ASSUME CaptureAssumption ==
  /\ Capacities \subseteq Nat
  /\ MaxReceives \in Nat
  /\ NoRun \notin Run

VARIABLES
  captured,  \* the servers that were given ListenCapture
  capacity,  \* of the channel
  sending,   \* the run whose start hook is inside ListenCapture, or NoRun
  channel,   \* the addresses in the channel's buffer
  reader,    \* is ListenReceive in its select, and has its timer fired?
  receives,  \* the number of calls of ListenReceive
  got        \* the addresses it returned

captureVars == <<captured, capacity, sending, channel, reader, receives, got>>
allVars == <<vars, captureVars>>

CaptureTypeOK ==
  /\ TypeOK
  /\ captured \subseteq Server
  /\ capacity \in Capacities
  /\ sending \in Run \cup {NoRun}
  /\ channel \in Seq(Run) /\ Len(channel) <= capacity
  /\ reader \in {"idle", "waiting", "late"}
  /\ receives \in 0..MaxReceives
  /\ got \in Seq(Run)

CaptureInit ==
  /\ Init
  /\ captured \in SUBSET Server
  /\ capacity \in Capacities
  /\ sending = NoRun
  /\ channel = << >>
  /\ reader = "idle"
  /\ receives = 0
  /\ got = << >>

-----------------------------------------------------------------------------
(***************************************************************************)
(* The start hook of a captured server: newListener as far as the send.    *)
(***************************************************************************)
Listen(s) ==
  /\ s \in captured
  /\ sending = NoRun
  /\ Starting(s)
  /\ AddressFree(s)
  /\ listening' = listening \cup {<<s, attempt>>}
  /\ sending' = <<s, attempt>>
  /\ UNCHANGED <<fxVars, serve, serveErr, inShutdown, conns, draining, signalVars,
                 captured, capacity, channel, reader, receives, got>>

\* The send is over.  The hook goes on to runServer and returns, however late.
Sent(s) ==
  /\ sending = <<s, attempt>>
  /\ HookReturned(s)
  /\ sending' = NoRun
  /\ serve' = [serve EXCEPT ![<<s, attempt>>] = "ready"]
  /\ UNCHANGED <<serveErr, listening, inShutdown, conns, draining, signalVars,
                 captured, capacity, receives>>

\* As Captured, with a send that gives up when the buffer is full.
Captured_Drops(s) ==
  /\ channel' = IF Len(channel) < capacity THEN Append(channel, sending) ELSE channel
  /\ Sent(s)
  /\ UNCHANGED <<reader, got>>

Captured(s) ==
  /\ Len(channel) < capacity
  /\ channel' = Append(channel, sending)
  /\ Sent(s)
  /\ UNCHANGED <<reader, got>>

\* without a buffer the sender waits for a receiver
HandedOver(s) ==
  /\ capacity = 0 /\ reader # "idle"
  /\ got' = Append(got, sending)
  /\ reader' = "idle"
  /\ Sent(s)
  /\ UNCHANGED channel

-----------------------------------------------------------------------------
(***************************************************************************)
(* ListenReceive: a select between the channel and a timer.                *)
(***************************************************************************)
ReceiveCalled ==
  /\ reader = "idle"
  /\ receives < MaxReceives
  /\ reader' = "waiting"
  /\ receives' = receives + 1
  /\ UNCHANGED <<vars, captured, capacity, sending, channel, got>>

TimerFires ==
  /\ reader = "waiting"
  /\ reader' = "late"
  /\ UNCHANGED <<vars, captured, capacity, sending, channel, receives, got>>

\* when the timer has fired too, select may take either
Received ==
  /\ reader # "idle" /\ channel # << >>
  /\ got' = Append(got, Head(channel))
  /\ channel' = Tail(channel)
  /\ reader' = "idle"
  /\ UNCHANGED <<vars, captured, capacity, sending, receives>>

\* As TimedOut, with the channel emptied for the next test.
TimedOut_Drains ==
  /\ reader = "late"
  /\ reader' = "idle"
  /\ channel' = << >>
  /\ UNCHANGED <<vars, captured, capacity, sending, receives, got>>

\* the test fails; an address that came too late stays where it is
TimedOut ==
  /\ reader = "late"
  /\ reader' = "idle"
  /\ UNCHANGED <<vars, captured, capacity, sending, channel, receives, got>>

-----------------------------------------------------------------------------
\* what ServerLifecycle does while no start hook is inside ListenCapture
HookStep ==
  \/ \E s \in Server \ captured : OnStart(s)
  \/ \E s \in Server : OnStartFails(s) \/ StopHook(s)
  \/ StartEnds
  \/ StopEnds

CaptureLifecycle ==
  \/ sending = NoRun /\ HookStep /\ UNCHANGED captureVars
  \/ \E s \in Server : Listen(s) \/ Captured(s) \/ HandedOver(s)

ServerStep(r) == Goroutine(r) /\ UNCHANGED captureVars

Independent ==
  \/ Start \/ Wait \/ StopOnSignal \/ StopAtWill \/ Deadline
  \/ \E r \in Run : Accept(r) \/ ServeReturns(r)
  \/ \E s \in Server : ConnDone(s) \/ ExternalShutdown(s)

CaptureNext ==
  \/ Independent /\ UNCHANGED captureVars
  \/ CaptureLifecycle
  \/ \E r \in Run : ServerStep(r)
  \/ ReceiveCalled \/ TimerFires \/ Received \/ TimedOut

(***************************************************************************)
(* The fairness of ServerLifecycle; a timer fires, and a select with       *)
(* something ready ends.  No test has to call ListenReceive.               *)
(***************************************************************************)
CaptureFairness ==
  /\ \A r \in Run : WF_allVars(ServerStep(r))
  /\ WF_allVars(CaptureLifecycle)
  /\ WF_allVars(Deadline /\ UNCHANGED captureVars)
  /\ WF_allVars(Wait /\ UNCHANGED captureVars)
  /\ WF_allVars(StopOnSignal /\ UNCHANGED captureVars)
  /\ WF_allVars(TimerFires)
  /\ WF_allVars(Received \/ TimedOut)

CaptureSpec == CaptureInit /\ [][CaptureNext]_allVars /\ CaptureFairness

-----------------------------------------------------------------------------
(***************************************************************************)
(* The addresses that ListenReceive returned, then the ones in the         *)
(* channel, then the one that a start hook wants to send, are those of all *)
(* listeners opened for captured servers, each once and in the order of    *)
(* the starts: also an address that came when the timer had fired, and     *)
(* also one whose start hook outlived its context.  What a test receives   *)
(* may therefore be the address of an earlier start.                       *)
(***************************************************************************)
Addresses == got \o channel \o (IF sending = NoRun THEN << >> ELSE <<sending>>)

Before(q, r) == q[2] < r[2] \/ (q[2] = r[2] /\ q[1] < r[1])

AddressesInOrder ==
  /\ Range(Addresses) =
       {r \in Run : r[1] \in captured /\ (serve[r] # "none" \/ r \in listening)}
  /\ \A i, j \in DOMAIN Addresses : i < j => Before(Addresses[i], Addresses[j])

(***************************************************************************)
(* The listener that a start hook of bindServer opened is closed once its  *)
(* server was told to shut down, also when it was before Serve ever ran.   *)
(* Only a hook that is inside ListenCapture keeps it open: there is no     *)
(* goroutine yet that would close it.                                      *)
(***************************************************************************)
NoListenerLeak ==
  \A r \in Run :
    (r \in listening /\ r[1] \in inShutdown) ~> (r \notin listening \/ sending = r)

(***************************************************************************)
(* Every Start and Stop comes to an end: OnStart does not wait for Serve,  *)
(* and OnStop gives up on connections when its context is done.  The one   *)
(* way for hooks to go on for ever, whatever deadline App.Start was given, *)
(* is an address that nobody receives on a channel without room.           *)
(***************************************************************************)
Unread == sending # NoRun /\ Len(channel) = capacity /\ reader = "idle"

CallsReturn ==
  (phase \in {"starting", "rollback", "stopping"})
    ~> (phase \in {"idle", "started"} \/ []Unread)
=============================================================================
