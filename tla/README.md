# A formal model of arrange

arrange adds conveniences to applications that are built with `go.uber.org/fx`:
HTTP servers and clients that are bound to the life of an `fx.App`, tasks whose
end shuts the app down with an exit code, profilers, and TLS configuration.
This directory holds TLA+ modules translated from that code, the TLC
configurations that check them on small instances, and theorems about them,
with proofs for TLAPS, that hold for every value of the constants.

    tlc -config ServerSafety.cfg MCServerLifecycle     model-check
    tlapm ServerLifecycleProofs.tla                    check the proofs

`PROJECT.json` lists, for each definition, the lines of `src/` it stands for;
for each property, a plausible bug (an operator with a suffix, such as
`Verify_Any` beside `Verify`) with which TLC finds it violated; and the hazards
of the code with the properties that watch them.


## 1. Inventory

### Components

| component | source | state it keeps | operations | hard about it |
|---|---|---|---|---|
| server lifecycle | `arrangehttp/server.go` (`bindServer`, `runServer`, `newListener`), `listener.go` | the `http.Server` (shut down or not), the listener of each start, the Serve goroutine | OnStart, Serve, Shutdown, the signal to the app | goroutines against hooks and main; deadlines; failing hooks; restart |
| ShutdownWhenDone | `shutdownWhenDone.go` | the goroutine's result variable | call the task, broadcast its exit code | panics, `Goexit`, defined func types |
| exit codes | `exitCoder.go` | none (pure) | `UseExitCode`, `ExitCodeFor` | precedence through layers of wrapping |
| profilers | `arrangepprof/profilers.go`, `http.go` | `CPU.file`, the profile files, the one CPU profile of the process | `CPU.start`, `CPU.stop`, `Heap.stop`, `/profile` | a process-wide resource shared by hooks and a handler; partial failure; restart |
| server and client assembly | `arrangehttp/server.go`, `client.go`, `option.go`, `serverOption.go`, `clientOption.go`, `middleware.go`, the factories, `internal/arrangereflect` | the target under construction, the aggregate error | classify, construct, apply injected, factory and external options, decorate the listener | the order that results from four functions, each of which reverses something; errors in the middle |
| peer verifiers | `arrangetls/tls.go` | immutable slices, `tls.Config.VerifyPeerCertificate` | `NewPeerVerifiers`, `Append`, `Extend`, `SetTo`, `VerifyPeerCertificate`, `PeerVerifyConfig.verify` | Go's slice sharing; certificates times verifiers with short circuit |
| TLS configuration | `arrangetls/tls.go` (`Config.New`) | the `tls.Config` under construction | versions, verifiers, three lists of files | one of several files failing |
| tag builder | `tagBuilder.go` | prefix stack, slice of tags | `Push`, `Pop`, `Skip`, `Optional`, `Name`, `OptionalName`, `Group`, `ParamTags`, `ResultTags`, `StructTags` | which prefix is in force; the slice that fx keeps and the builder appends to |
| conditional | `conditional.go` | none | `If`, `IfNot`, `Then` | an option that is silently left out |
| listener capture | `arrangetest/listenCapture.go` | a channel of a test | `ListenCapture` in the start hook, `ListenReceive` with a timer | a start hook that blocks on somebody else, whatever deadline App.Start has; a late address |
| test helpers, test certificates | the rest of `arrangetest/`, `arrangetls/generate.go`, `suite.go` | none, or temporary files | mocks; file I/O | not modelled |

### How they interact

`ProvideServer` assembles an `http.Server` when fx constructs it, under the
condition of a `Conditional` if there is one, and `bindServer` appends one hook to
the lifecycle. Both name their dependencies with a `TagBuilder`: the server that
`bindServer` gets is the one `newServer` provides because their chains of calls end
in the same name. `App.Start` runs the hook: `newListener` opens and decorates a
listener, and a test's `ListenCapture`, being listener middleware, sends the
address on a channel at that point; `runServer` then starts a goroutine around
`ShutdownWhenDone`, which calls `http.Server.Serve` and then, deferred,
`Shutdowner.Shutdown` with the code `ExitCodeFor` gives. fx keeps the last signal
for whoever calls `App.Wait`, normally main, which then calls `App.Stop`; that
runs the stop hook, `http.Server.Shutdown`, which ends Serve, whose goroutine
signals again.

`CPU` and `Heap` append hooks to the same lifecycle. The `/profile` handler that
`HTTP.Apply` installs takes the same CPU profile of the process, inside a request
that the stop hook of its server waits for. The `tls.Config` from `Config.New` is
used by handshakes while the sequences of verifiers it came from may still be
extended, and it decides in the start hook whether the listener is a TLS one.

### What makes each part correct

- server lifecycle: no listener outlives its goroutine; a clean stop leaves
  nothing running; the end of a server always stops the app; a failure is never
  reported as a success; Start and Stop return, unless a start hook waits for a
  test that does not read; every captured address arrives once, in order.
- ShutdownWhenDone and exit codes: every end of a task shuts the app down, with
  the code that was asked for last; giving a code does not hide the failure.
- profilers: nobody ends another's profile; no profile on disk is lost without
  leave; a clean stop releases the files of the profilers that started and the
  process's profile; a request does not keep a profiler that starts before its
  server from profiling.
- assembly and conditional: what comes out is complete and in the promised order,
  or every error is reported, and nothing comes out against the condition.
- tag builder: each tag is at its parameter, with the prefix of its scope; what fx
  was given never changes.
- peer verifiers: a sequence never changes; the verdict on a handshake is that
  of every verifier on every certificate.
- TLS configuration: all or nothing; client certificates are demanded exactly
  when they can be verified; the range of versions is never empty.

The hazards, each with its line, are in `PROJECT.json`.


## 2. The modules

| module | stands for | used by |
|---|---|---|
| `FxLifecycle` | external: the lifecycle of `fx.App` as the code of arrange uses it | `ServerLifecycle`, `Profilers` |
| `ExitCode` | `exitCoder.go` | `ServerLifecycle`, `ShutdownWhenDone` |
| `HostedServers` | no code: what `bindServer` promises to the app that hosts servers | `ServerLifecycle`, as `Hosted` |
| `ServerLifecycle` | `bindServer`, `newListener`, `runServer`, with `http.Server` and main around them | `ListenCapture` |
| `ListenCapture` | `ListenCapture` and `ListenReceive`, composed with `ServerLifecycle` | |
| `ShutdownWhenDone` | `ShutdownWhenDone`, `ShutdownWhenDoneCtx` and the errors of their tasks | |
| `Profilers` | `CPU`, `Heap`, `openProfilePath`, the `/profile` handler | `ProfiledServer` |
| `ProfiledServer` | the profilers and a server that serves `/profile`, in one lifecycle | |
| `Conditional` | `conditional.go` | `HttpAssembly` |
| `HttpAssembly` | `ProvideServerCustom`, `ProvideClientCustom`, the factories, options and middleware | |
| `PeerVerifiers` | `PeerVerifiers`, `PeerVerifyConfig`, `VerifyPeerCertificate` | |
| `TLSConfig` | `Config.New` | |
| `TagBuilder` | `tagBuilder.go` and the chains of calls in `server.go` and `client.go` | |
| `MC...` | values of the constants for TLC | the configurations |
| `...Proofs` | theorems about `ServerLifecycle`, `ListenCapture`, `Profilers` with `ProfiledServer`, `PeerVerifiers`, `TLSConfig`, `ShutdownWhenDone`, `HttpAssembly`, `TagBuilder` | |

### FxLifecycle (external)

Gives steps, not a specification: a module that extends it conjoins
`HookStarted(h)`, `HookFailed(h)`, `Stopping(h)` and `HookStopped(h)` with what its
own hook does. Start hooks run in order; a failure, or a context that is done
before the next hook, rolls back the hooks that started; stop hooks run in
reverse order, an error does not stop them, and a context that is done makes
`StopDone` abandon the rest. A stopped app may be started again. `Expire` is the
deadline of the call in progress, at any moment of it.

A start hook that ignores its context goes on after App.Start has returned at its
deadline: `HookReturned` is its end, however late. When the deadline passes while
the last hook completes, App.Start returns an error although the app is started,
and nothing is rolled back: `StartSucceeded` tells the two apart. Properties that
are about an app whose owner knows that it runs have it as their precondition.

### ServerLifecycle

A *run* is one launch of a server's goroutine: server and number of the start.

| variable | in the code |
|---|---|
| `serve[r]` | where the goroutine is: not launched, launched but not in Serve, in Serve's loop, returned, signalled |
| `serveErr[r]` | the error Serve returned |
| `listening` | the listeners that are open |
| `inShutdown` | `http.Server.inShutdown`: it is never reset |
| `conns`, `draining` | the active connections; a stop hook inside `http.Server.Shutdown` |
| `last`, `waiting`, `mailbox` | fx's last signal; main's call of `App.Wait`; the signal it found |

`OnStart` is the whole start hook: the listener is opened and the goroutine
started, which has done nothing yet. That is the window in which Shutdown may
come first: `ServeRefused` is `Serve` on a server that was shut down, which
closes the listener it was given. `ServeTracked` enters the loop, `ServeReturns`
leaves it. `Signal` is the deferred `sh.Shutdown`. `OnStop` and `OnStopDone` are the
call and the return of `http.Server.Shutdown`; between them everything else may
happen. Listener middleware belongs to `HttpAssembly`; here a listener is open or
not, and what it makes `Serve` return is any member of `ServeErrors`.

`HostedServers` is the promise without goroutines and hooks: a launch is hosted
until it is reported, once; code 0 is reported only for a server that was told
to shut down; a launch of such a server is reported in the end. `Hosted` is the
refinement mapping, `HostedSafety` and `HostedReporting` are the two halves.

### ListenCapture

Extends `ServerLifecycle`: for a server that was given `ListenCapture`, the action
`OnStart` becomes `Listen`, which opens the listener and is then inside the send,
and `Captured` (room in the buffer) or `HandedOver` (no buffer, a reader waits),
which go on to `runServer`. Between them everything else may happen: the
deadline passes, goroutines of other starts end, the test calls `ListenReceive`.
Only the other steps of the lifecycle wait, since the hook has not returned.
`ListenReceive` is `ReceiveCalled`, then a select between `Received` and `TimedOut`;
after `TimerFires` it may take either. An address that was not taken stays in the
channel and answers a later call. An address is named by its run.

### ShutdownWhenDone

The task makes an error, wraps it, asks for exit codes with `UseExitCode` (which
panics on nil), returns, panics or calls `Goexit`; what was deferred then calls
`sh.Shutdown`. An error is the sequence of its layers, outermost first. A task of
a defined func type passes the constraint `~func()` and panics in the type
assertion: `Call`. `Errors` are the sequences of at most `MaxDepth` layers; a
coder is any total function from them to integers.

### Profilers

`cpu` is the set of hooks that are CPU profilers; the others are heap profilers.
`profiler` is who takes the CPU profile of the process: nobody, a hook, or the
`/profile` handler. `open` is the set of profilers whose `file` field is not nil.
`CPU.start` has four outcomes, one action each; in `CpuBusy`, `StartCPUProfile`
fails after the file was opened and the field was set. `Collect` is somebody
outside who takes a finished profile away.

### ProfiledServer

Extends `Profilers`: one of the hooks may be the one of a server, which is seen
from its `/profile` handler. It serves between its hooks and never again after it was
shut down; a request arrives, begins its profile (possibly after Shutdown was
called), ends it, ends. `HostStopDone` waits for the request or for the deadline;
`abandoned` remembers that it gave up. With `host = 0` the handler is somewhere
else in the process, as in `Profilers`.

### HttpAssembly

One step per option, in the order of the code: `Classify` (`newServerProvider`),
`Provided` (what `ProvideServerCustom` and `ProvideClientCustom` return, through
`Then` of a `Conditional`), `Construct`, `FactoryFails` or `FactoryPanics`,
`ApplyInjected`, `ApplyFactory`, `ApplyExternal`, `Listen`. A handler is the sequence
of layers that a request passes. A layer, or a function of a context, is a pair of
what it comes from and its place there, so that no two are the same.
`ApplyMiddleware` is a recursive function of the turns of its loop. Options are told apart by what they do to the
handler, to `ConnContext`, to one of the fields that an option replaces
(`BaseContext`, `ConnState`, `ErrorLog`), to the `TLSConfig` or to the error. A factory
makes a target, with or without TLS, or fails; a custom one is an optional
dependency and may be missing, and calling a nil one panics. A factory that is an
option itself may add headers, or fail when it is applied: then its error comes
out and the external options are skipped, the second disjunct of `ApplyFactory`.
`NotMade` is the error of a factory that made nothing. `Listen` looks at the
`TLSConfig` as the options have left it and at the listener middleware that fx
injects, whose number it keeps in `middleware`.

### PeerVerifiers

`arrays` are the backing arrays, the first one the caller's; a `PeerVerifiers` is
an array with a length, as a Go slice is (these always start at the first
element). `meant` is what the sequence was when it was made, which the code does
not have: the properties compare it with what the array holds now. Handshake steps
interleave with every other operation.

### TLSConfig

`Config.New` step by step: nil check, protocols, versions, verifiers, then file
after file of the three lists. A file loads or does not. An error is the list and
the position of its file.

### TagBuilder

`tags` is a Go slice, an array of `arrays` with a length; `ParamTags` and `ResultTags`
hand that slice out, `StructTags` a copy, and all three are `annotations`. A name
is the sequence of its parts. `chain` is `Free`, for an application that makes any
calls, or one of the chains of `server.go` and `client.go`. `calls`, the history,
is there for the properties: `Scope` finds in it, without a stack, which `Push` is
in force.


## 3. What the runs show

Passing runs (`PROJECT.json` names the properties of each):

| run | instance | what it shows |
|---|---|---|
| `server_safety` | 2 servers, one on a fixed address; 2 starts; 1 connection each; an error with a code and one without | listeners are owned, a clean stop leaves nothing, code 0 means a shutdown, `HostedServers` is implemented, `IInv` holds |
| `server_liveness` | 1 server, captured by a test or not; 2 starts; a channel of capacity 0 or 1; 2 calls of `ListenReceive`; the same errors | the end of a server stops the app, listeners get closed, Start and Stop return unless nobody reads, a shut down server is reported, captured addresses arrive once and in order |
| `shutdown_when_done` | 1 task, 3 coders, codes 0 and 3, errors of up to 3 layers | however the task ends the app is shut down, with the code asked for last, and no failure becomes a success by itself |
| `profilers` | 3 hooks, every choice of CPU and heap, beside a server in any hook or none; two on one path, one with Overwrite; 3 starts | nobody else's profile is ended, a clean stop releases what the profilers that started hold, no profile is lost, a request disturbs no profiler that starts before its server |
| `assembly` | all combinations of up to 2 injected and 2 external options of every kind, up to 2 listener middleware, every factory (one that fails, or fails as an option, included) and condition, both targets (1.5 million states) | completeness, order of middleware and contexts, presence and order of the layers of a listener, all errors |
| `peer_verifiers` | 4 sequences of up to 2 verifiers, arrays with up to 1 spare place, 2 certificates out of 4 kinds | sequences never change, the verdict is the one that was meant |
| `tls_config` | 4 versions, with and without protocols, up to 2 good or bad files in each list (0.5 million states) | all or nothing, mutual TLS, a range of versions that is not empty, the verifiers |
| `tag_builder` | every chain of up to 6 calls with a blank prefix and another, and the chains of two servers and a client (1.9 million states) | tags are in place and in scope, dependencies have the documented names, annotations never change |

### Why the bounds are enough to be interesting

- Two servers are the least for a rollback that stops one server because another
  failed, and for signals from two goroutines in either order. Two starts are the
  least for a restart after an abandoned stop, with the old listener still bound.
  One connection is enough to make Shutdown wait. The proofs lift all three.
- Two starts and two calls of `ListenReceive` are the least for an address of the
  first start to answer a call that was meant for the second. Capacity 0 is a
  rendezvous, capacity 1 a buffer that one late address fills.
- Three hooks let the server be before, between or after two profilers.
- Six calls are two pushes, a pop and three tags, or a name added after an
  annotation whose array has a spare place (the array has 1, 2, then 4 places).
- Tasks do not share anything, so one task is all of them. Three layers give a
  code, a wrapping and a second code over it.
- Three hooks and two paths give two profilers on one path with a third between
  them; three starts let a failed start be retried twice.
- Two options from each source is the least for an order inside a source and
  one between sources.
- For two sequences to share a spare place, four are needed: the zero value, `X`,
  `X.Append(a)` and `X.Append(b)`.
- Two files per list let the first or the second one fail; versions 0, two below
  TLS 1.3 and TLS 1.3 give every order of minimum, maximum and default.

### Deadlock

Every configuration has `CHECK_DEADLOCK FALSE`: an app that was started and
stopped as often as its bound allows, a task that ended, an assembly, a
handshake, a configuration or a chain of calls that is complete really stop. That nothing
stops in the middle is stated as liveness where it is a question
(`CallsReturn`, `TerminationStopsApp`, `EndShutsDown`).

### Fairness

In `ServerLifecycle`: a goroutine that can run does (the Go scheduler); fx goes
from one hook to the next; a deadline passes; main calls `App.Wait` after
`App.Start` and `App.Stop` on a signal, as `App.Run` does. Nothing is assumed about
connections arriving or ending, about listeners failing, about anybody calling
Start, Stop or Shutdown; in particular a server that nothing happens to may
serve for ever. `Goroutine` has `ServeReturns` only for a listener that is closed,
so the fairness does not make an open listener fail.

In `ListenCapture`: the same, with the send as one of the steps of the lifecycle;
the timer fires, and a select with something ready ends. Nothing makes a test
call `ListenReceive`, so `CallsReturn` has its exception, `Unread`: an address that
nobody receives on a channel without room.

In `ShutdownWhenDone`: the goroutine enters the task, and what it deferred runs;
the task need not end. The other specifications have no liveness property and
no fairness.

### Where the code and its documentation disagree

Four runs are expected to find a violation; each checks one sentence of the
documentation:

- `already_profiling`: `CPU.start` sets `c.file` before `StartCPUProfile`. When
  that fails (the `/profile` handler is profiling), fx does not call the hook's
  `OnStop`; the next `App.Start` of the same app returns `ErrAlreadyProfiling`, and
  so does every later one, although nothing profiles.
- `client_external`: `ProvideClientCustom` never uses `external`, which
  `client.go:54` says "is applied to the client after any injected options".
- `headers_lost`: the `Header` of a `ServerConfig` is "to emit on every response from
  this server" (`serverFactory.go:62`, and 98). The factory is applied after the
  injected options but before the external ones, and an external option that
  replaces the handler drops the headers. `HeadersLostOnlyByReplacing` proves that
  they are lost in no other way.
- `one_cert`: `PeerVerifyConfig` says that "at least (1) peer cert" must match;
  `VerifyPeerCertificate` calls each verifier for every certificate and fails on
  the first that does not match, an intermediate included.

More that the models contain, without a run of its own:

- `ProvideServer` refuses a value of the defined type `ListenerMiddleware`, though
  `server.go:169-171` names it as one of the two it accepts: the type assertion
  (`server.go:94`) is on the unnamed func type. One step shows it, `Classify` with
  `IsListenerFunc`; `EveryErrorReported` says that the refusal is reported.
- `AsOption` (`option.go:36-50`) and `ShutdownWhenDone` (`shutdownWhenDone.go:30-34`)
  have constraints such as `~func()` but assert unnamed types, so a value of a
  defined func type compiles and panics.
- A task that panics or calls `runtime.Goexit` leaves the result variable nil;
  without a coder the exit code is then 0.
- A start whose deadline passes as its last hook completes leaves a started app
  behind an error of `App.Start` (`StartSucceeded`).
- `ListenCapture` ignores the context of App.Start. With a channel that nobody reads
  its hook never returns: the listener it opened has no goroutine that would close
  it, which is the exception of `NoListenerLeak`.
- A custom factory that fx cannot provide is nil and its call panics
  (`FactoryPanics`): the dependency is tagged optional.


## 4. What is proved

All with tlapm, for every value of the constants that satisfies the modules'
assumptions. The theorems of a component are in its `...Proofs` module.

### ServerLifecycleProofs

For any number of servers, starts and connections: `TypeCorrect`,
`ListenersAreOwned`, `StopIsClean`, `ZeroMeansShutdown`, and `ImplementsHosted`
(the servers implement the safety part of `HostedServers`).

The first four follow from `Invariance`, whose invariant `IInv` adds to the
properties

- `Bookkeeping`: what the position in the list of hooks says about the phase,
  and that later starts have launched nothing;
- `HooksUnwound`: during a start, hooks beyond `hook` have launched nothing; while
  unwinding in time, servers of hooks beyond `hook` are quiet. Without it
  `CleanStop`, which looks only at the end of a stop, is not inductive;
- `ClosedIsShutdown`: `ErrServerClosed` comes only from a server that was shut
  down, which is what `ZeroOnlyAfterShutdown` needs when `Signal` maps the error to
  a code. The lemmas `AsExitCodeOutermost` and `CodeOfServe` compose `errors.As`,
  `ExitCodeFor` and the coder of `runServer`.

The lemmas are about `InvBut(R)`, which is `IInv` with an exception for the
listeners `R`; `ButNone` says that it is `IInv` without one. `ListenCapture` needs the
exception, for the listener of a hook that waits for a test.

`ImplementsHosted` maps each step, under `IInv`, to a step of `HostedServers` or a
stutter: `OnStart` to `Host`, `OnStop` and `ExternalShutdown` to `Retire`, `Signal` to
`Report`, `StopEnds` to `Forget` or a stutter.

Assumptions: `FxAssumption` and `NoCodeAssumption` (types); `CoderAssumption` (the
coder of `runServer` is not nil); `ServerAssumption`, of which one part matters:
the errors a listener makes `Serve` return are not nil, are not
`http.ErrServerClosed`, and those that carry an exit code do not carry 0. An
application whose listener middleware fails with an error of code 0 asks for
that code, and gets it.

### ListenCaptureProofs

For any servers, captured or not, any capacity and any calls of `ListenReceive`:
`AddressesArriveInOrder`, `CapturedServersAreClean` (`CleanStop` and
`ZeroOnlyAfterShutdown` hold beside a test that does not read) and
`CaptureImplementsHosted` (the servers still implement `HostedSafety`). The invariant
`CaptureIInv` is `InvBut({sending})` with `SendingIsHook`: a hook that is inside
`ListenCapture` is the next one of the start in progress, its listener is open and
its goroutine does not exist. `AddressesInOrder` is inductive beside that, since
what is got, what is in the channel and what is being sent are one queue
(`ReceivedKeepsOrder`, `SentKeepsOrder`). A hook that outlives its start is why
`HookReturned` is a case of its own. These proofs use the assumptions of
`ServerLifecycle` and `CaptureAssumption` (types).

### ProfilersProofs

For any number of profilers and paths: `TypeCorrect`, `NobodyElseStopped`,
`StopIsClean` and the action property `ProfilesAreKept`. The invariant adds
`StartedTakesProfile` and `StoppedLetsGo`: `CPU.stop` ends the profile of the process
without asking whose it is, which is right only because a profiler whose
hook started and did not stop yet is the one that profiles. Two CPU profilers
never both are: the second one's `StartCPUProfile` fails its start hook.

The second half of the module is about `ProfiledServer`. For any number of profilers, a server in any hook or none: `BesideServer` (what
was proved of the profilers holds beside the server) and the action property
`Undisturbed`. The first lemmas show that every step keeps the `IInv` of `Profilers`;
the invariant adds `EarlierKeepFile`: while the server serves, or a request that
was not given up runs, the CPU profilers before the server have their files open,
and neither their stop hook nor their start hook is due. Hence `CPU.start` of such a profiler never meets a request.

### PeerVerifiersProofs

For any verifiers, certificates, numbers and lengths: `TypeCorrect`,
`SequencesAreImmutable` and `VerdictsAreMeant`. The invariant adds `OwnArray` (only a
sequence without an element may have the caller's array), `InstalledNotEmpty` and
`Progress` (what a handshake has gone through so far was accepted), without which
an accepted handshake says nothing about the certificates before the last.

### TLSConfigProofs

For any versions and any number of files: `AllOrNothing`, `DemandsWhatItVerifies`,
`VersionsMakeRange`. The invariant says what each stage leaves behind:
`ReadSoFar` (what was read of a list is good), `ListsInTurn` (a list is complete
before the next is begun), `FirstFailure`, `AuthWithPool` and `StagesDone`.

### ShutdownWhenDoneProofs

For any tasks, codes, coders and depth: `LatestCode` and `FailuresAreKept`. The
invariant adds `LastAsked`, where in an error the code is that `errors.As` will find:
in the outermost layer that has one. `UseExitCodeIsOutermost`, `WrappingKeeps` and
`OutermostIsFound` are the lemmas about `UseExitCode`, wrapping and `ExitCodeFor`
that it rests on. Assumptions: codes are integers, and coders are total on the
errors that tasks can make and give integers.

### HttpAssemblyProofs

For any number of options of any kinds, from every source, every invariant that
the run checks. There are two inductive invariants.

`IInv` goes stage by stage: what `newServerProvider` has sorted so far
(`SortedSoFar`, `ProvidingSoFar`), what was applied and which errors were appended
so far from each source (`InjectedSoFar`, `FactorySoFar`, `ExternalSoFar`), and when
the condition allowed it (`ByCondition`). `NothingSkipped` and
`ErrorsAreAggregated` follow from it, for a factory that fails as an option too: its
error comes last (`FactoryOptionFailsInOrder`), and nothing external follows it.

`OrderIInv` says what the options applied so far have made. `Fresh`: what is still to
be applied was not applied before, so that no option is applied twice
(`NothingTwice`). `Stack`: the layers of the handler go from the option applied last
to the first, and inside one option as declared. `Queue`: the functions of
`ConnContext` go the other way. `ValueSoFar`: the other fields are those of the last
option that set them. `HeaderSoFar` and `TLSSoFar` follow the headers and the
`TLSConfig` to the end; `ClassifiedInOrder` is the order of the external slice.
`RequestsPassInOrder`, `ContextsAreKept`, `ListenersAreOrdered` and
`HeadersLostOnlyByReplacing` follow from it. The last says, of the property that
`headers_lost` refutes, that only an external option of a server that replaces the
handler violates it. `ClientDropsExternals`, the other side of `client_external`,
says that no external option is ever applied to a client.

They rest on `ApplyMiddlewareIs`: the loop of `ApplyMiddleware`, which goes backwards,
puts the middleware on top as they were declared, however many they are. The
library's induction rules take an operator and cannot be used here. The lemma
takes the set of turns after which the loop has something else: its least
member, which exists by `WFMin`, contradicts the turn before.

### TagBuilderProofs

For any chain of any calls, and for the chains of `server.go` and `client.go` with any
names, every property that the run checks. There are three inductive invariants.

- `IInv` has `Behind`: an annotation that shares the builder's array ends at or
  before the builder's end, so that an append, in place or not, is beyond it.
  `LargerHasRoom` and `AppendTagDoes` say what Go's append does to the arrays.
  `AnnotationsNeverChange` follows.
- `ScopeIInv` ties the stack of prefixes, which the code has, to the history of
  calls, by which `TagsInScope` is stated. `InScope`: the stack holds the arguments
  of the pushes in force, each as far from the top as there are more pushes
  than pops after it. `TagsInScope` alone is not inductive: it says nothing of the
  prefix that the next tag will get. `TagsAreInScope` follows.
- `ChainIInv` lists what the builder holds after each call of each chain, the
  prefixes included (`NewServerAt`, `BindServerAt`, `NewClientAt`, `ResultAt`).
  `ServersGetTheirDependencies` follows.

Assumption: names are sequences over `Part`, to which the words in the chains
belong.

### Only model-checked

Liveness: `TerminationStopsApp`, `NoListenerLeak`, `CallsReturn`,
`HostedReporting`, `EndShutsDown`. It rests on fairness and ENABLED, which is
out of the prover's reach. Every invariant and every action property of the passing
runs is proved.


## 5. What is not modelled

- Mocks and adapters in `arrangetest/` (`app.go`, `testable.go`, `mockAddr.go`,
  `mockListener.go`): no state of their own.
- The certificates for tests in `arrangetls/generate.go` and `suite.go`: file I/O and
  the standard library's cryptography. That `CreateTestServerFiles` loses the name of
  its first temporary file when it fails later is listed under the hazards.
- The fields that are only copied (timeouts, sizes, `TransportConfig`, `ServerName`,
  `InsecureSkipVerify`): no property here tells their values apart.
- The routes of the pprof `HTTP` other than `/profile`: they keep no state.
- The wording of struct tags: a tag is its kind, its name and whether it is
  optional. Contents of certificates, of profiles and of requests.
- Trees of errors (`errors.Join`): the errors of a task are chains, each layer of which
  wraps one error, as `UseExitCode` and `fmt.Errorf` with one `%w` make them.
- What external code does beyond what is used: `net/http`'s keep-alive and idle
  connections are one number of active connections, `Shutdown`'s polling is one
  step that waits for it.


## 6. Plan

Done, in this order: `FxLifecycle`, `ExitCode` and `ServerLifecycle` with its
runs; its abstract specification; the proofs; `ShutdownWhenDone`; `Profilers` and
its proofs; `HttpAssembly`; `PeerVerifiers` and its proofs; `TLSConfig`;
`ListenCapture`; `TagBuilder`; `ProfiledServer` and its proofs; `Conditional` and the
factories in `HttpAssembly`; the proofs of `TLSConfig`, `ShutdownWhenDone`,
`HttpAssembly` and `TagBuilder`; the proofs of `ListenCapture`, of the orders in
`HttpAssembly` and of the scopes and chains in `TagBuilder`.

What could come next is what the liveness rests on without fairness: that a server
that was shut down and is not reported has a goroutine that can still move, and
that a hook in progress can end. Without ENABLED, each of these is an invariant
about the guards of the actions.
