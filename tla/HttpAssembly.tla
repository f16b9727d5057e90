---------------------------- MODULE HttpAssembly ----------------------------
(***************************************************************************)
(* How ProvideServerCustom (arrangehttp/server.go) and ProvideClientCustom *)
(* (client.go) assemble an http.Server or an http.Client out of a factory, *)
(* the options that fx injects and the ones given from outside, and how a  *)
(* server's listener is decorated when its start hook runs.                *)
(*                                                                         *)
(* What matters of the target is its handler (of a client: its transport), *)
(* a sequence of the layers a request passes, outermost first, empty when  *)
(* the field is nil; its ConnContext, the sequence of the functions that   *)
(* build a context; the fields that an option sets or replaces; and        *)
(* whether its TLSConfig is set.  A layer or a function is named by what   *)
(* it comes from and its place there.                                      *)
(***************************************************************************)
EXTENDS Integers, Sequences, SequencesExt, Conditional

CONSTANTS
  MaxInjected,     \* bound: options that fx injects
  MaxExternal,     \* bound: elements of the external slice
  MaxMiddleware,   \* bound: listener middleware that fx injects
  InjectedKinds,   \* the kinds of option that are considered for injection
  ExternalKinds    \* the kinds of element of the external slice

(***************************************************************************)
(* Options, by what they do: decorate the handler with two middleware      *)
(* (ServerMiddleware, ClientMiddleware), replace the handler or make it    *)
(* nil, build a context with two functions (ConnContext), set or replace a *)
(* field (BaseContext, ConnState, ErrorLog), set the TLSConfig, fail       *)
(* (InvalidOption), or be a closure of a defined type that AsOption turned *)
(* into an option.                                                         *)
(***************************************************************************)
Assignable == {"baseContext", "connState", "errorLog"}

OptionKinds ==
  {"middleware", "replace", "clear", "connContext", "tls", "invalid", "named"} \cup Assignable

\* elements of the external slice of ProvideServer that are no option
OtherKinds == {"func(net.Listener) net.Listener", "ListenerMiddleware", "other"}

\* an http.Client has none of those fields, and its external slice has only
\* options
ClientKinds == OptionKinds \ ({"connContext", "tls"} \cup Assignable)

ASSUME AssemblyAssumption ==
  /\ InjectedKinds \subseteq OptionKinds
  /\ ExternalKinds \subseteq OptionKinds \cup OtherKinds
  /\ MaxInjected \in Nat /\ MaxExternal \in Nat /\ MaxMiddleware \in Nat

VARIABLES
  target,      \* "server" or "client"
  feature,     \* the flag that decides whether the app gets what ProvideXXX returns
  inverted,    \* with IfNot instead of If
  injected,    \* the kinds of the injected options, in the order of the value group
  external,    \* the kinds of the elements of the external slice
  nameless,    \* is the name given to ProvideServer or ProvideClient empty?
  factory,     \* the ServerFactory or ClientFactory
  stage,       \* what the assembly is doing
  pos,         \* the position in the sequence it works on
  options,     \* the external options: serverProvider.options
  decorators,  \* the external listener middleware: serverProvider.listenerMiddleware
  handler,     \* the layers of the handler or the transport
  connContext, \* the functions of ConnContext
  assigned,    \* what the other fields are set to: [Assignable -> functions or values]
  tlsConfig,   \* is the TLSConfig of the target or its transport not nil?
  listener,    \* the layers of the listener, the outermost first
  middleware,  \* how many listener middleware fx injects, once the server listens
  applied,     \* the options applied without an error, in order
  errors       \* what went wrong: the errors that multierr has appended

inputs == <<target, feature, inverted, injected, external, nameless, factory>>
fields == <<connContext, assigned, tlsConfig>>
accepted == <<listener, middleware>>
made == <<handler, fields, accepted, applied>>
vars == <<inputs, stage, pos, options, decorators, made, errors>>

(***************************************************************************)
(* A factory makes a target, with TLS or without, or fails, as those of    *)
(* this package do when their TLS field is set and its New fails; or it is *)
(* a custom one that is optional and missing, so nil.  One that is also an *)
(* option may have headers to add, as those of this package, whose Apply   *)
(* never fails, or may be a custom one that fails as an option: what it    *)
(* did to the target is lost with it.                                      *)
(***************************************************************************)
Usable(f) == f.makes = "target"
Factory ==
  {f \in [makes : {"target", "error", "nil"}, tls : BOOLEAN,
          option : BOOLEAN, header : BOOLEAN, fails : BOOLEAN] :
     /\ f.header => f.option
     /\ f.fails => f.option /\ ~f.header
     /\ ~Usable(f) => ~f.tls /\ ~f.option}

Stages == {"providing", "omitted", "rejected", "constructing", "injecting", "factory option",
           "externals", "built", "failed", "panicked", "listening"}

\* an option, and the error it returns, is named by where it comes from and
\* its position there
Injected(i) == <<"injected", i>>
External(i) == <<"external", i>>
FactoryOption == <<"factory", 1>>
NameRequired == <<"name", 1>>
NotMade == <<"factory", 0>>

\* layers that no option makes, and the one that sets the configured headers
Base == <<<<"base", 1>>, 0>>
Default == <<<<"default", 1>>, 0>>
Header == <<FactoryOption, 1>>
Socket == <<"socket", 1>>
TLS == <<"tls", 1>>

TypeOK ==
  /\ target \in {"server", "client"}
  /\ feature \in BOOLEAN /\ inverted \in BOOLEAN
  /\ injected \in Seq(InjectedKinds)
  /\ external \in Seq(ExternalKinds)
  /\ nameless \in BOOLEAN
  /\ factory \in Factory
  /\ stage \in Stages
  /\ pos \in 1..(MaxInjected + MaxExternal + 1)
  /\ \A i \in DOMAIN options : options[i] \in DOMAIN external
  /\ \A i \in DOMAIN decorators : decorators[i] \in DOMAIN external
  /\ tlsConfig \in BOOLEAN
  /\ middleware \in 0..MaxMiddleware

\* Injected options are considered only for a target that fx constructs.
Init ==
  /\ target \in {"server", "client"}
  /\ feature \in BOOLEAN /\ inverted \in BOOLEAN
  /\ injected \in SeqOf(InjectedKinds, MaxInjected)
  /\ external \in SeqOf(ExternalKinds, MaxExternal)
  /\ target = "client" => Range(injected) \cup Range(external) \subseteq ClientKinds
  /\ nameless \in BOOLEAN
  /\ factory \in Factory
  /\ (nameless \/ ~feature \/ inverted \/ ~Usable(factory)) => injected = << >>
  /\ stage = "providing"
  /\ pos = 1
  /\ options = << >>
  /\ decorators = << >>
  /\ handler = << >>
  /\ connContext = << >>
  /\ assigned = [field \in Assignable |-> << >>]
  /\ tlsConfig = FALSE
  /\ listener = << >>
  /\ middleware = 0
  /\ applied = << >>
  /\ errors = {}

-----------------------------------------------------------------------------
Goto(s) == stage' = s /\ pos' = 1
Advance == stage' = stage /\ pos' = pos + 1

(***************************************************************************)
(* newServerProvider sorts the external slice: first the options, then the *)
(* functions of exactly the type func(net.Listener) net.Listener, and an   *)
(* error for every other element.                                          *)
(***************************************************************************)
IsOption(kind) == kind \in OptionKinds
IsListenerFunc(kind) == kind = "func(net.Listener) net.Listener"

\* As Classify, with the index of the next element.
Classify_Next ==
  /\ stage = "providing" /\ target = "server" /\ pos \in DOMAIN external
  /\ options' = IF IsOption(external[pos]) THEN Append(options, pos + 1) ELSE options
  /\ Advance
  /\ UNCHANGED <<inputs, decorators, made, errors>>

Classify ==
  /\ stage = "providing" /\ target = "server" /\ pos \in DOMAIN external
  /\ options' = IF IsOption(external[pos]) THEN Append(options, pos) ELSE options
  /\ decorators' =
       IF IsListenerFunc(external[pos]) THEN Append(decorators, pos) ELSE decorators
  /\ errors' = IF IsOption(external[pos]) \/ IsListenerFunc(external[pos])
               THEN errors ELSE errors \cup {External(pos)}
  /\ Advance
  /\ UNCHANGED <<inputs, made>>

(***************************************************************************)
(* ProvideServerCustom and ProvideClientCustom return an fx.Option, which  *)
(* is an error that rejects the app or what constructs the target.  A      *)
(* client's external options are not looked at.  The app gets the option   *)
(* through Then of a Conditional, or it gets none, whichever it is.        *)
(***************************************************************************)
Condition == IF inverted THEN IfNot(feature) ELSE If(feature)

Provided ==
  /\ stage = "providing"
  /\ target = "server" => pos > Len(external)
  /\ errors' = IF nameless THEN errors \cup {NameRequired} ELSE errors
  /\ LET option == IF errors' = {} THEN "constructing" ELSE "rejected" IN
     Goto(IF option \in Then(Condition, option) THEN option ELSE "omitted")
  /\ UNCHANGED <<inputs, options, decorators, made>>

-----------------------------------------------------------------------------
(***************************************************************************)
(* The factory makes the target; calling a nil one panics.  A server gets  *)
(* the handler fx injected, or http.DefaultServeMux; a client has the      *)
(* transport of its factory.                                               *)
(***************************************************************************)
FactoryPanics ==
  /\ stage = "constructing" /\ factory.makes = "nil"
  /\ Goto("panicked")
  /\ UNCHANGED <<inputs, options, decorators, made, errors>>

FactoryFails ==
  /\ stage = "constructing" /\ factory.makes = "error"
  /\ Goto("failed")
  /\ errors' = {NotMade}
  /\ UNCHANGED <<inputs, options, decorators, made>>

Construct ==
  /\ stage = "constructing" /\ Usable(factory)
  /\ Goto("injecting")
  /\ handler' = <<Base>>
  /\ tlsConfig' = factory.tls
  /\ UNCHANGED <<inputs, options, decorators, connContext, assigned, accepted, applied,
                 errors>>

(***************************************************************************)
(* ApplyMiddleware goes through the middleware from the last to the first, *)
(* so that the first becomes the outermost layer: wrapped[n] is t after n  *)
(* turns of its loop.  ApplyMiddleware_Forward starts with the first.      *)
(***************************************************************************)
ApplyMiddleware_Forward(layers, ms) ==
  LET wrapped[n \in 0..Len(ms)] ==
        IF n = 0 THEN layers ELSE <<ms[n]>> \o wrapped[n - 1]
  IN  wrapped[Len(ms)]

ApplyMiddleware(layers, ms) ==
  LET wrapped[n \in 0..Len(ms)] ==
        IF n = 0 THEN layers ELSE <<ms[Len(ms) - n + 1]>> \o wrapped[n - 1]
  IN  wrapped[Len(ms)]

\* arrangereflect.Safe: the default handler or transport when the field is nil
Safe(layers) == IF layers = << >> THEN <<Default>> ELSE layers

\* the two middleware of an option, or the two functions of a context
Middleware(o) == <<<<o, 1>>, <<o, 2>>>>
Functions(o) == Middleware(o)

\* As AddConnContext, with the existing function dropped.
AddConnContext_Replace(o) == connContext' = Functions(o)

\* ConnContext keeps the existing function and runs it before the new ones;
\* the other fields are replaced, BaseContext by a function that starts from
\* a new context
AddConnContext(o) == connContext' = connContext \o Functions(o)
Assign(o, field) == assigned' = [assigned EXCEPT ![field] = Functions(o)]

(***************************************************************************)
(* One option in Options.Apply: an error is appended and the loop goes on. *)
(* A closure of a defined type passes AsOption and panics here             *)
(* (option.go:47-49).                                                      *)
(***************************************************************************)
Modify(o, kind) ==
  /\ handler' = CASE kind = "middleware" -> ApplyMiddleware(Safe(handler), Middleware(o))
                  [] kind = "replace" -> <<<<o, 0>>>>
                  [] kind = "clear" -> << >>
                  [] OTHER -> handler
  /\ IF kind = "connContext" THEN AddConnContext(o) ELSE UNCHANGED connContext
  /\ IF kind \in Assignable THEN Assign(o, kind) ELSE UNCHANGED assigned
  /\ tlsConfig' = (tlsConfig \/ kind = "tls")
  /\ applied' = IF kind \in {"invalid", "named"} THEN applied ELSE Append(applied, o)

\* As ApplyOption, with only the last error kept.
ApplyOption_LastError(o, kind) ==
  /\ Modify(o, kind)
  /\ errors' = IF kind = "invalid" THEN {o} ELSE errors
  /\ IF kind = "named" THEN Goto("panicked") ELSE Advance

ApplyOption(o, kind) ==
  /\ Modify(o, kind)
  /\ errors' = IF kind = "invalid" THEN errors \cup {o} ELSE errors
  /\ IF kind = "named" THEN Goto("panicked") ELSE Advance

ApplyInjected ==
  /\ stage = "injecting" /\ pos \in DOMAIN injected
  /\ ApplyOption(Injected(pos), injected[pos])
  /\ UNCHANGED <<inputs, options, decorators, accepted>>

InjectedDone ==
  /\ stage = "injecting" /\ pos > Len(injected)
  /\ Goto(IF errors = {} THEN "factory option" ELSE "failed")
  /\ UNCHANGED <<inputs, options, decorators, made, errors>>

AddHeader(layers) == <<Header>> \o Safe(layers)

(***************************************************************************)
(* A factory that is an option comes after the injected ones.  That of     *)
(* ServerConfig decorates the handler so that it adds the Header field to  *)
(* every response, that of ClientConfig the transport.  When it fails,     *)
(* newServer returns its error and looks at no external option.  What      *)
(* ProvideClientCustom provides ends here.  ApplyFactory_IgnoreError does  *)
(* not look at what Apply returns.                                         *)
(***************************************************************************)
ApplyFactory_IgnoreError ==
  /\ stage = "factory option"
  /\ handler' = IF factory.header THEN AddHeader(handler) ELSE handler
  /\ applied' = IF factory.option THEN Append(applied, FactoryOption) ELSE applied
  /\ Goto(IF target = "server" THEN "externals" ELSE "built")
  /\ UNCHANGED <<inputs, options, decorators, fields, accepted, errors>>

ApplyFactory ==
  /\ stage = "factory option"
  /\ handler' = IF factory.header THEN AddHeader(handler) ELSE handler
  /\ \/ /\ ~factory.fails
        /\ applied' = IF factory.option THEN Append(applied, FactoryOption) ELSE applied
        /\ Goto(IF target = "server" THEN "externals" ELSE "built")
        /\ UNCHANGED errors
     \/ /\ factory.fails
        /\ errors' = errors \cup {FactoryOption}
        /\ Goto("failed")
        /\ UNCHANGED applied
  /\ UNCHANGED <<inputs, options, decorators, fields, accepted>>

\* serverProvider.newServer applies the external options last
ApplyExternal ==
  /\ stage = "externals" /\ pos \in DOMAIN options
  /\ ApplyOption(External(options[pos]), external[options[pos]])
  /\ UNCHANGED <<inputs, options, decorators, accepted>>

ExternalDone ==
  /\ stage = "externals" /\ pos > Len(options)
  /\ Goto(IF errors = {} THEN "built" ELSE "failed")
  /\ UNCHANGED <<inputs, options, decorators, made, errors>>

(***************************************************************************)
(* The start hook of bindServer: newListener decorates what NewListener    *)
(* made of the factory's listener, which is a socket, below TLS if the     *)
(* server's TLSConfig is set by then, and the injected middleware.  (That  *)
(* Listen may fail is in ServerLifecycle.)                                 *)
(***************************************************************************)
FactoryListener == IF tlsConfig THEN <<TLS, Socket>> ELSE <<Socket>>

ExternalDecorators == [i \in DOMAIN decorators |-> External(decorators[i])]

\* As Listen, with TLS as the configuration of the factory has it.
Listen_ConfiguredTLS ==
  /\ stage = "built" /\ target = "server"
  /\ middleware' \in 0..MaxMiddleware
  /\ listener' = ApplyMiddleware(
                   ApplyMiddleware(IF factory.tls THEN <<TLS, Socket>> ELSE <<Socket>>,
                                   [i \in 1..middleware' |-> Injected(i)]),
                   ExternalDecorators)
  /\ Goto("listening")
  /\ UNCHANGED <<inputs, options, decorators, handler, fields, applied, errors>>

Listen ==
  /\ stage = "built" /\ target = "server"
  /\ middleware' \in 0..MaxMiddleware
  /\ listener' = ApplyMiddleware(
                   ApplyMiddleware(FactoryListener, [i \in 1..middleware' |-> Injected(i)]),
                   ExternalDecorators)
  /\ Goto("listening")
  /\ UNCHANGED <<inputs, options, decorators, handler, fields, applied, errors>>

Next ==
  \/ Classify \/ Provided
  \/ FactoryPanics \/ FactoryFails \/ Construct
  \/ ApplyInjected \/ InjectedDone
  \/ ApplyFactory
  \/ ApplyExternal \/ ExternalDone
  \/ Listen

Spec == Init /\ [][Next]_vars

-----------------------------------------------------------------------------
Complete == stage \in {"built", "listening"}
KindOf(o) == IF o[1] = "injected" THEN injected[o[2]]
             ELSE IF o[1] = "external" THEN external[o[2]] ELSE "factory"
AppliedAt(o) == CHOOSE i \in DOMAIN applied : applied[i] = o

(***************************************************************************)
(* A server or client that can be used had no failing option, the factory  *)
(* included, whichever option came after the failing one, and nothing that *)
(* was accepted as an injected or an external server option, or the        *)
(* factory as an option, was skipped.  None is constructed when the        *)
(* condition does not hold: If wants the flag set, and IfNot is its        *)
(* inverse (conditional.go:13, 78).                                        *)
(***************************************************************************)
Emitted == feature # inverted

BuiltIsComplete ==
  /\ stage \in {"providing", "omitted"} \/ Emitted
  /\ stage = "omitted" => ~Emitted
  /\ Complete =>
    /\ "invalid" \notin Range(injected) \cup {external[options[i]] : i \in DOMAIN options}
    /\ ~factory.fails
    /\ factory.option => FactoryOption \in Range(applied)
    /\ {Injected(i) : i \in DOMAIN injected} \subseteq Range(applied)
    /\ {External(options[i]) : i \in DOMAIN options} \subseteq Range(applied)

(***************************************************************************)
(* The error of an assembly that failed names every option that fails of   *)
(* the first group with one, which are the injected options, the factory   *)
(* as an option and the external ones, in this order; that of a rejected   *)
(* one names every element that is of no use; not only the first or the    *)
(* last (option.go:24-32, server.go:65-67, 91-99, 107, client.go:39-41).   *)
(***************************************************************************)
Failing(kinds) == {i \in DOMAIN kinds : kinds[i] = "invalid"}
Refused == {i \in DOMAIN external : ~IsOption(external[i]) /\ ~IsListenerFunc(external[i])}

EveryErrorReported ==
  /\ (stage = "failed" /\ Usable(factory)) =>
       errors = IF Failing(injected) # {} THEN {Injected(i) : i \in Failing(injected)}
                ELSE IF factory.fails THEN {FactoryOption}
                ELSE {External(i) : i \in Failing(external)}
  /\ (stage = "failed" /\ ~Usable(factory)) => errors = {NotMade}
  /\ stage = "rejected" =>
       errors = {External(i) : i \in Refused} \cup (IF nameless THEN {NameRequired} ELSE {})

(***************************************************************************)
(* A request passes the middleware of an option that was applied later     *)
(* before that of an earlier one, and the middleware of one option in the  *)
(* order in which they were declared (ApplyMiddleware).                    *)
(***************************************************************************)
Layers(o) == {i \in DOMAIN handler : handler[i] \in Range(Middleware(o))}

RequestOrder ==
  \A o, q \in Range(applied) :
    /\ KindOf(o) = "middleware" /\ KindOf(q) = "middleware" /\ AppliedAt(o) < AppliedAt(q) =>
         \A i \in Layers(o), j \in Layers(q) : j < i
    /\ KindOf(o) = "middleware" =>
         \A i, j \in Layers(o) : (handler[i][2] < handler[j][2]) => i < j

(***************************************************************************)
(* The context of a connection is built by the functions of every          *)
(* ConnContext option, in the order of application (serverOption.go:65-67, *)
(* "augments"), and the context of a listener by those of the last         *)
(* BaseContext option alone (serverOption.go:38, "replaces"), and so for   *)
(* ConnState and ErrorLog, whatever other options came in between.         *)
(***************************************************************************)
AppliedOfKind(kind) == {o \in Range(applied) : KindOf(o) = kind}

ContextsKept ==
  /\ Range(connContext) = UNION {Range(Functions(o)) : o \in AppliedOfKind("connContext")}
  /\ \A i, j \in DOMAIN connContext :
       LET f == connContext[i]  g == connContext[j] IN
       i < j => \/ AppliedAt(f[1]) < AppliedAt(g[1])
                \/ f[1] = g[1] /\ f[2] < g[2]
  /\ \A field \in Assignable :
       \/ AppliedOfKind(field) = {} /\ assigned[field] = << >>
       \/ \E o \in AppliedOfKind(field) :
            /\ assigned[field] = Functions(o)
            /\ \A q \in AppliedOfKind(field) : AppliedAt(q) <= AppliedAt(o)

(***************************************************************************)
(* serverFactory.go:62: "Header supplies HTTP headers to emit on every     *)
(* response from this server".  Only an external option that replaces the  *)
(* handler, after the factory decorated it, can take them away.            *)
(***************************************************************************)
HeadersEmitted == (Complete /\ factory.header) => Header \in Range(handler)

ExternalReplaces ==
  \E o \in Range(applied) : o[1] = "external" /\ KindOf(o) \in {"replace", "clear"}

(***************************************************************************)
(* An accepted connection comes from the socket, through TLS exactly if    *)
(* the configuration or an option set it up (listener.go:22, "If the given *)
(* server has a tls.Config set"), then through the injected middleware and *)
(* the external ones, all of them.  The first of each group to be declared *)
(* is the outermost (server.go:115-122, middleware.go:11).                 *)
(***************************************************************************)
Secured == factory.tls \/ \E o \in Range(applied) : KindOf(o) = "tls"

Decorating == {Injected(i) : i \in 1..middleware}
              \cup {External(i) : i \in {j \in DOMAIN external : IsListenerFunc(external[j])}}

ListenerOrder ==
  stage = "listening" =>
    LET base == IF Secured THEN <<TLS, Socket>> ELSE <<Socket>>
        above == Len(listener) - Len(base) IN
    /\ above \in Nat /\ SubSeq(listener, above + 1, Len(listener)) = base
    /\ {listener[i] : i \in 1..above} = Decorating
    /\ \A i, j \in 1..above : i < j =>
         \/ listener[i][1] = "external" /\ listener[j][1] = "injected"
         \/ listener[i][1] = listener[j][1] /\ listener[i][2] < listener[j][2]

(***************************************************************************)
(* client.go:54: "The external set of options, if supplied, is applied to  *)
(* the client after any injected options."                                 *)
(***************************************************************************)
ClientExternalApplied ==
  (target = "client" /\ Complete) =>
    {External(i) : i \in DOMAIN external} \subseteq Range(applied)
=============================================================================
