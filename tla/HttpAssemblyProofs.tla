------------------------- MODULE HttpAssemblyProofs -------------------------
(***************************************************************************)
(* Proofs about HttpAssembly: for any number of options of any kinds, what *)
(* is built had every option it was given, once and in order, and what     *)
(* fails reports every error.                                              *)
(***************************************************************************)
EXTENDS HttpAssembly, TLAPS, WellFoundedInduction

(***************************************************************************)
(* The inductive invariant.  Sorted is how much of the external slice      *)
(* newServerProvider has been through; what comes after says, for each     *)
(* stage, what was applied and which errors were appended so far.          *)
(***************************************************************************)
Origin == {"injected", "external", "factory"} \X Nat

Sorted ==
  IF target = "client" THEN 0 ELSE IF stage = "providing" THEN pos - 1 ELSE Len(external)

Shape ==
  /\ Len(injected) <= MaxInjected /\ Len(external) <= MaxExternal
  /\ target = "client" => \A i \in DOMAIN external : IsOption(external[i])
  /\ options \in Seq(Nat) /\ decorators \in Seq(Nat)
  /\ applied \in Seq(Origin)

SortedSoFar ==
  /\ Sorted <= Len(external) /\ Len(options) <= Sorted
  /\ Range(options) = {i \in 1..Sorted : IsOption(external[i])}
  /\ Range(decorators) = {i \in 1..Sorted : IsListenerFunc(external[i])}

Served == {"injecting", "factory option", "externals", "built", "listening"}
Injections == Served \ {"injecting"}

ByCondition ==
  /\ stage \in {"providing", "omitted"} \/ Emitted
  /\ stage = "omitted" => ~Emitted
  /\ stage \in Served => Usable(factory)
  /\ stage = "externals" => target = "server"
  /\ stage = "constructing" => errors = {}

ProvidingSoFar ==
  stage = "providing" => errors = {External(i) : i \in {j \in Refused : j <= Sorted}}

InjectedSoFar ==
  /\ stage = "injecting" =>
       /\ errors = {Injected(i) : i \in {j \in Failing(injected) : j < pos}}
       /\ \A i \in DOMAIN injected :
            i < pos => i \in Failing(injected) \/ Injected(i) \in Range(applied)
  /\ stage \in Injections =>
       /\ Failing(injected) = {}
       /\ \A i \in DOMAIN injected : Injected(i) \in Range(applied)

FactorySoFar ==
  /\ stage = "factory option" => errors = {}
  /\ stage \in {"externals", "built", "listening"} =>
       ~factory.fails /\ (factory.option => FactoryOption \in Range(applied))

ExternalSoFar ==
  /\ stage = "externals" =>
       /\ errors = {External(i) : i \in {options[j] : j \in
                      {n \in DOMAIN options : n < pos /\ external[options[n]] = "invalid"}}}
       /\ \A j \in DOMAIN options :
            j < pos => external[options[j]] = "invalid" \/ External(options[j]) \in Range(applied)
  /\ Complete =>
       \A j \in DOMAIN options :
         external[options[j]] # "invalid" /\ External(options[j]) \in Range(applied)

IInv ==
  /\ TypeOK
  /\ Shape
  /\ SortedSoFar
  /\ ByCondition
  /\ ProvidingSoFar
  /\ InjectedSoFar
  /\ FactorySoFar
  /\ ExternalSoFar
  /\ EveryErrorReported

-----------------------------------------------------------------------------
(***************************************************************************)
(* Sequences, kinds and positions.                                         *)
(***************************************************************************)
Positions == 1..(MaxInjected + MaxExternal + 1)

LEMMA AppendRange ==
  ASSUME NEW S, NEW s \in Seq(S), NEW x \in S
  PROVE  /\ Append(s, x) \in Seq(S)
         /\ Len(Append(s, x)) = Len(s) + 1
         /\ Range(Append(s, x)) = Range(s) \cup {x}
<1> DEFINE a == Append(s, x)
<1>1. a \in Seq(S) /\ Len(a) = Len(s) + 1 /\ Len(s) \in Nat
      /\ DOMAIN a = 1..(Len(s) + 1) /\ DOMAIN s = 1..Len(s)
      /\ a[Len(s) + 1] = x /\ \A i \in 1..Len(s) : a[i] = s[i]
  OBVIOUS
<1> HIDE DEF a
<1>2. 1..(Len(s) + 1) = 1..Len(s) \cup {Len(s) + 1}
  BY <1>1
<1>3. Range(a) = {a[i] : i \in 1..Len(s)} \cup {a[Len(s) + 1]}
  BY <1>1, <1>2 DEF Range
<1>4. {a[i] : i \in 1..Len(s)} = Range(s)
  BY <1>1 DEF Range
<1> QED BY <1>1, <1>3, <1>4 DEF a

\* Where options come from.
LEMMA Origins ==
  /\ FactoryOption \in Origin
  /\ \A i \in Nat : Injected(i) \in Origin /\ External(i) \in Origin
BY DEF Origin, FactoryOption, Injected, External

\* The inputs are sequences of options, no longer than their bounds.
LEMMA Inputs ==
  ASSUME TypeOK, Shape
  PROVE  /\ DOMAIN injected = 1..Len(injected) /\ Len(injected) \in 0..MaxInjected
         /\ DOMAIN external = 1..Len(external) /\ Len(external) \in 0..MaxExternal
         /\ DOMAIN options = 1..Len(options) /\ Len(options) \in Nat
         /\ \A i \in DOMAIN options : options[i] \in 1..Len(external)
         /\ pos \in Nat /\ pos >= 1
<1>1. injected \in Seq(InjectedKinds) /\ external \in Seq(ExternalKinds)
      /\ options \in Seq(Nat) /\ pos \in Nat /\ pos >= 1
  BY AssemblyAssumption DEF TypeOK, Shape
<1>2. Len(injected) \in 0..MaxInjected /\ Len(external) \in 0..MaxExternal
  BY <1>1, AssemblyAssumption DEF Shape
<1> QED BY <1>1, <1>2 DEF TypeOK

LEMMA FirstPosition == 1 \in Positions
BY AssemblyAssumption DEF Positions

\* A position that is one after an element of a sequence within its bound.
LEMMA NextPosition ==
  ASSUME NEW n \in 0..(MaxInjected + MaxExternal), pos \in 1..n
  PROVE  pos + 1 \in Positions
BY AssemblyAssumption DEF Positions

\* After newServerProvider nothing changes the inputs and what it sorted.
LEMMA Later ==
  ASSUME TypeOK, Shape, SortedSoFar,
         UNCHANGED <<inputs, options, decorators>>,
         stage # "providing", stage' \in Stages \ {"providing"},
         pos' \in Positions, tlsConfig' \in BOOLEAN, applied' \in Seq(Origin),
         middleware' \in 0..MaxMiddleware
  PROVE  TypeOK' /\ Shape' /\ SortedSoFar'
<1>1. TypeOK'
  BY DEF TypeOK, inputs, Positions
<1>2. Shape'
  BY DEF Shape, inputs
<1>3. Sorted' = Sorted
  BY DEF Sorted, inputs
<1>4. SortedSoFar'
  BY <1>3 DEF SortedSoFar, inputs
<1> QED BY <1>1, <1>2, <1>4

\* Nothing was applied, and no error appended, before the first step.
LEMMA InitInvariant == Init => IInv
<1> SUFFICES ASSUME Init PROVE IInv
  OBVIOUS
<1> USE AssemblyAssumption
<1>1. injected \in Seq(InjectedKinds) /\ Len(injected) <= MaxInjected
  <2>1. PICK m \in 0..MaxInjected : injected \in [1..m -> InjectedKinds]
    BY DEF Init, SeqOf
  <2> QED BY <2>1
<1>2. external \in Seq(ExternalKinds) /\ Len(external) <= MaxExternal
  <2>1. PICK m \in 0..MaxExternal : external \in [1..m -> ExternalKinds]
    BY DEF Init, SeqOf
  <2> QED BY <2>1
<1>3. stage = "providing" /\ pos = 1 /\ pos \in Positions /\ tlsConfig = FALSE
  BY DEF Init, Positions
<1>4. /\ options \in Seq(Nat) /\ decorators \in Seq(Nat) /\ applied \in Seq(Origin)
      /\ Len(options) = 0 /\ DOMAIN options = {} /\ DOMAIN decorators = {}
      /\ Range(options) = {} /\ Range(decorators) = {} /\ middleware = 0
  BY DEF Init, Range
<1>5. TypeOK
  <2>1. /\ target \in {"server", "client"} /\ feature \in BOOLEAN /\ inverted \in BOOLEAN
        /\ nameless \in BOOLEAN /\ factory \in Factory
    BY DEF Init
  <2>2. stage \in Stages
    BY <1>3 DEF Stages
  <2>3. middleware \in 0..MaxMiddleware
    BY <1>4
  <2> QED BY <1>1, <1>2, <1>3, <1>4, <2>1, <2>2, <2>3 DEF TypeOK, Positions
<1>6. target = "client" => \A i \in DOMAIN external : IsOption(external[i])
  <2> SUFFICES ASSUME target = "client", NEW i \in DOMAIN external
               PROVE  IsOption(external[i])
    OBVIOUS
  <2>1. external[i] \in Range(external)
    BY DEF Range
  <2>2. Range(external) \subseteq ClientKinds
    BY DEF Init
  <2> QED BY <2>1, <2>2 DEF ClientKinds, IsOption
<1>7. Shape
  BY <1>1, <1>2, <1>4, <1>6 DEF Shape
<1>8. Sorted = 0
  BY <1>3 DEF Sorted
<1>9. SortedSoFar
  <2>1. 0 <= Len(external)
    BY <1>2
  <2>2. \A i \in 1..0 : FALSE
    OBVIOUS
  <2> QED BY <1>4, <1>8, <2>1, <2>2 DEF SortedSoFar
<1>10. ProvidingSoFar
  <2>1. DOMAIN external = 1..Len(external)
    BY <1>2
  <2>2. \A j \in Refused : ~(j <= Sorted)
    BY <1>2, <1>8, <2>1 DEF Refused
  <2>3. errors = {}
    BY DEF Init
  <2> QED BY <2>2, <2>3 DEF ProvidingSoFar
<1> QED BY <1>3, <1>5, <1>7, <1>9, <1>10
        DEF IInv, ByCondition, InjectedSoFar, FactorySoFar, ExternalSoFar, EveryErrorReported,
            Served, Injections, Complete

-----------------------------------------------------------------------------
(***************************************************************************)
(* newServerProvider, and what ProvideServerCustom returns.                *)
(***************************************************************************)

\* The next element of the external slice is an option, a function, or an error.
LEMMA ClassifyInvariant == ASSUME IInv, Classify PROVE IInv'
<1> USE DEF IInv
<1>1. /\ DOMAIN external = 1..Len(external) /\ Len(external) \in 0..MaxExternal
      /\ DOMAIN options = 1..Len(options) /\ Len(options) \in Nat
      /\ pos \in 1..Len(external) /\ pos \in Nat
      /\ Len(injected) \in 0..MaxInjected
  BY Inputs DEF Classify
<1>2. stage = "providing" /\ stage' = "providing" /\ pos' = pos + 1 /\ pos' \in Positions
  <2>1. pos \in 1..(MaxInjected + MaxExternal)
    BY <1>1, AssemblyAssumption
  <2>2. pos + 1 \in Positions
    BY <2>1, AssemblyAssumption, NextPosition
  <2> QED BY <2>2 DEF Classify, Advance
<1>3. UNCHANGED <<inputs, made>> /\ target = "server" /\ Sorted = pos - 1 /\ Sorted' = pos
  BY <1>1, <1>2 DEF Classify, Sorted, inputs
<1>4. /\ options' \in Seq(Nat) /\ Len(options') <= Len(options) + 1
      /\ Range(options') = Range(options) \cup (IF IsOption(external[pos]) THEN {pos} ELSE {})
  <2>1. options \in Seq(Nat)
    BY DEF Shape
  <2>2. CASE IsOption(external[pos])
    BY <1>1, <2>1, <2>2, AppendRange, SMTT(30) DEF Classify
  <2>3. CASE ~IsOption(external[pos])
    BY <1>1, <2>1, <2>3 DEF Classify
  <2> QED BY <2>2, <2>3
<1>5. /\ decorators' \in Seq(Nat)
      /\ Range(decorators') =
           Range(decorators) \cup (IF IsListenerFunc(external[pos]) THEN {pos} ELSE {})
  <2>1. decorators \in Seq(Nat)
    BY DEF Shape
  <2>2. CASE IsListenerFunc(external[pos])
    BY <1>1, <2>1, <2>2, AppendRange, SMTT(30) DEF Classify
  <2>3. CASE ~IsListenerFunc(external[pos])
    BY <1>1, <2>1, <2>3 DEF Classify
  <2> QED BY <2>2, <2>3
<1>6. TypeOK'
  <2>1. \A i \in DOMAIN options' : options'[i] \in DOMAIN external
    <3>1. Range(options) \subseteq DOMAIN external
      BY DEF TypeOK, Range
    <3>2. Range(options') \subseteq DOMAIN external
      BY <1>1, <1>4, <3>1
    <3> QED BY <3>2 DEF Range
  <2>2. \A i \in DOMAIN decorators' : decorators'[i] \in DOMAIN external
    <3>1. Range(decorators) \subseteq DOMAIN external
      BY DEF TypeOK, Range
    <3>2. Range(decorators') \subseteq DOMAIN external
      BY <1>1, <1>5, <3>1
    <3> QED BY <3>2 DEF Range
  <2> QED BY <1>2, <1>3, <2>1, <2>2 DEF TypeOK, inputs, made, accepted, fields, Positions
<1>7. Shape'
  BY <1>3, <1>4, <1>5 DEF Shape, inputs, made
<1>8. SortedSoFar'
  <2>1. 1..pos = 1..(pos - 1) \cup {pos}
    BY <1>1
  <2>2. Range(options') = {i \in 1..pos : IsOption(external[i])}
    BY <1>3, <1>4, <2>1 DEF SortedSoFar
  <2>3. Len(options') \in Nat
    BY <1>4
  <2>4. Len(options') <= pos
    BY <1>1, <1>3, <1>4, <2>3 DEF SortedSoFar
  <2>5. Range(decorators') = {i \in 1..pos : IsListenerFunc(external[i])}
    BY <1>3, <1>5, <2>1 DEF SortedSoFar
  <2> QED BY <1>1, <1>3, <2>2, <2>4, <2>5 DEF SortedSoFar, inputs
<1>9. ProvidingSoFar'
  <2>1. errors = {External(i) : i \in {j \in Refused : j <= pos - 1}}
    BY <1>2, <1>3 DEF ProvidingSoFar
  <2>2. Refused \subseteq 1..Len(external) /\ Refused' = Refused
    BY <1>1, <1>3 DEF Refused, inputs
  <2> DEFINE Until(n) == {j \in Refused : j <= n}
  <2>3. ASSUME NEW j \in Refused PROVE j <= pos <=> (j <= pos - 1 \/ j = pos)
    <3>1. j \in Int /\ pos \in Int
      BY <1>1, <2>2
    <3> QED BY ONLY <3>1
  <2>4. CASE pos \in Refused
    <3>1. Until(pos) = Until(pos - 1) \cup {pos}
      BY ONLY <2>4, <2>3
    <3>2. errors' = errors \cup {External(pos)}
      BY <2>4 DEF Classify, Refused
    <3>3. errors' = {External(i) : i \in {j \in Refused : j <= pos}}
      BY ONLY <2>1, <3>1, <3>2
    <3> QED BY <1>3, <2>2, <3>3 DEF ProvidingSoFar
  <2>5. CASE pos \notin Refused
    <3>1. Until(pos) = Until(pos - 1)
      BY ONLY <2>5, <2>3
    <3>2. errors' = errors
      BY <1>1, <2>5 DEF Classify, Refused
    <3> QED BY <1>3, <2>1, <2>2, <3>1, <3>2 DEF ProvidingSoFar
  <2> QED BY <2>4, <2>5
<1> QED BY <1>2, <1>6, <1>7, <1>8, <1>9
        DEF ByCondition, InjectedSoFar, FactorySoFar, ExternalSoFar, EveryErrorReported,
            Served, Injections, Complete

\* What the app is given: nothing, an error or the constructor of the target.
LEMMA ProvidedInvariant == ASSUME IInv, Provided PROVE IInv'
<1> USE DEF IInv
<1>1. /\ DOMAIN external = 1..Len(external) /\ Len(external) \in Nat
      /\ DOMAIN options = 1..Len(options) /\ Len(options) \in Nat
      /\ pos \in Nat /\ pos >= 1
  BY Inputs, AssemblyAssumption
<1>2. /\ stage = "providing" /\ pos' = 1 /\ pos' \in Positions
      /\ UNCHANGED <<inputs, options, decorators, made>>
      /\ errors' = IF nameless THEN errors \cup {NameRequired} ELSE errors
      /\ target = "server" => pos > Len(external)
  BY FirstPosition DEF Provided, Goto
<1> DEFINE option == IF errors' = {} THEN "constructing" ELSE "rejected"
<1>3. stage' = IF Emitted THEN option ELSE "omitted"
  <2>1. feature \in BOOLEAN /\ inverted \in BOOLEAN
    BY DEF TypeOK
  <2>2. option \in Then(Condition, option) <=> Emitted
    <3> HIDE DEF option
    <3>1. Condition # "nil" <=> Emitted
      <4>1. If(TRUE) # "nil" /\ If(FALSE) = "nil"
        BY DEF If
      <4>2. Condition = IF inverted THEN If(~feature) ELSE If(feature)
        BY DEF Condition, IfNot
      <4>3. CASE feature = TRUE /\ inverted = TRUE
        <5>1. ~feature = FALSE
          BY <4>3
        <5> QED BY <4>1, <4>2, <4>3, <5>1 DEF Emitted
      <4>4. CASE feature = TRUE /\ inverted = FALSE
        BY <4>1, <4>2, <4>4 DEF Emitted
      <4>5. CASE feature = FALSE /\ inverted = TRUE
        <5>1. ~feature = TRUE
          BY <4>5
        <5> QED BY <4>1, <4>2, <4>5, <5>1 DEF Emitted
      <4>6. CASE feature = FALSE /\ inverted = FALSE
        BY <4>1, <4>2, <4>6 DEF Emitted
      <4> QED BY <2>1, <4>3, <4>4, <4>5, <4>6
    <3> QED BY <3>1 DEF Then
  <2> QED BY <2>2 DEF Provided, Goto
<1>4. stage' \in {"constructing", "rejected", "omitted"}
  BY <1>3
<1>5. Sorted = Sorted' \/ (target = "server" /\ Sorted = pos - 1 /\ Sorted' = Len(external))
  BY <1>2, <1>4 DEF Sorted, inputs, TypeOK
<1>6. Sorted' = Sorted
  BY <1>1, <1>2, <1>5 DEF SortedSoFar
<1>7. SortedSoFar'
  BY <1>2, <1>6 DEF SortedSoFar, inputs
<1>8. TypeOK' /\ Shape'
  <2>1. stage' \in Stages
    BY <1>4 DEF Stages
  <2> QED BY <1>2, <2>1 DEF TypeOK, Shape, inputs, made, accepted, fields, Positions
<1>9. errors = {External(i) : i \in Refused}
  <2>1. CASE target = "server"
    <3>1. \A j \in Refused : j <= Sorted
      BY <1>1, <1>2, <2>1 DEF Refused, Sorted
    <3> QED BY <1>2, <3>1 DEF ProvidingSoFar
  <2>2. CASE target # "server"
    <3>1. target = "client"
      BY <2>2 DEF TypeOK
    <3>2. Refused = {}
      BY <3>1 DEF Refused, Shape
    <3> QED BY <1>2, <3>2 DEF ProvidingSoFar
  <2> QED BY <2>1, <2>2
<1>10. Emitted' = Emitted /\ Refused' = Refused
  BY <1>2 DEF inputs, Emitted, Refused
<1>11. EveryErrorReported'
  <2>1. nameless \in BOOLEAN /\ nameless' = nameless
    BY <1>2 DEF TypeOK, inputs
  <2>2. errors' = {External(i) : i \in Refused}
                    \cup (IF nameless THEN {NameRequired} ELSE {})
    BY <1>2, <1>9
  <2>3. errors' = ({External(i) : i \in Refused}
                     \cup (IF nameless THEN {NameRequired} ELSE {}))'
    BY <1>10, <2>1, <2>2 DEF External
  <2> QED BY <1>4, <2>3 DEF EveryErrorReported
<1>12. ByCondition'
  BY <1>3, <1>10 DEF ByCondition, Served
<1> QED BY <1>4, <1>7, <1>8, <1>11, <1>12
        DEF ProvidingSoFar, InjectedSoFar, FactorySoFar, ExternalSoFar, Served, Injections, Complete

-----------------------------------------------------------------------------
(***************************************************************************)
(* The factory and the options.                                            *)
(***************************************************************************)

\* A factory that is nil or fails, and one that makes a target.
LEMMA FactoryInvariant ==
  ASSUME IInv, FactoryPanics \/ FactoryFails \/ Construct PROVE IInv'
<1> USE DEF IInv
<1>1. /\ stage = "constructing" /\ pos' = 1 /\ pos' \in Positions
      /\ UNCHANGED <<inputs, options, decorators, applied, middleware>>
      /\ stage' \in {"panicked", "failed", "injecting"}
      /\ stage' = "failed" => errors' = {NotMade} /\ ~Usable(factory)
      /\ stage' = "injecting" => errors' = errors /\ Usable(factory)
  BY FirstPosition DEF FactoryPanics, FactoryFails, Construct, Goto, made, accepted, Usable
<1>2. tlsConfig' \in BOOLEAN
  <2>1. factory.tls \in BOOLEAN
    BY DEF TypeOK, Factory
  <2> QED BY <2>1 DEF FactoryPanics, FactoryFails, Construct, made, fields, TypeOK
<1>3. applied \in Seq(Origin) /\ DOMAIN injected = 1..Len(injected) /\ Len(injected) \in Nat
  BY Inputs, AssemblyAssumption DEF Shape
<1>4. TypeOK' /\ Shape' /\ SortedSoFar'
  <2>1. middleware' \in 0..MaxMiddleware
    BY <1>1 DEF TypeOK
  <2> QED BY <1>1, <1>2, <1>3, <2>1, Later DEF Stages
<1>5. InjectedSoFar'
  <2>1. injected' = injected /\ \A i \in DOMAIN injected : ~(i < 1)
    BY <1>1, <1>3 DEF inputs
  <2>2. {i \in Failing(injected) : i < 1} = {}
    BY <2>1 DEF Failing
  <2>3. stage' = "injecting" => errors' = {}
    BY <1>1 DEF ByCondition
  <2> QED BY <1>1, <2>1, <2>2, <2>3 DEF InjectedSoFar, Injections, Served, Failing
<1>6. ByCondition'
  BY <1>1 DEF ByCondition, Served, inputs, Emitted, Usable
<1>7. EveryErrorReported'
  BY <1>1 DEF EveryErrorReported, inputs, Usable, NotMade
<1> QED BY <1>1, <1>4, <1>5, <1>6, <1>7
        DEF ProvidingSoFar, FactorySoFar, ExternalSoFar, Complete

\* What one option does to the errors, to the position and to what was applied.
LEMMA ApplyOptionDoes ==
  ASSUME applied \in Seq(Origin), tlsConfig \in BOOLEAN,
         NEW o \in Origin, NEW kind, ApplyOption(o, kind)
  PROVE  /\ applied' \in Seq(Origin) /\ Range(applied) \subseteq Range(applied')
         /\ kind \notin {"invalid", "named"} => o \in Range(applied')
         /\ errors' = IF kind = "invalid" THEN errors \cup {o} ELSE errors
         /\ kind = "named" => stage' = "panicked" /\ pos' = 1
         /\ kind # "named" => stage' = stage /\ pos' = pos + 1
         /\ tlsConfig' \in BOOLEAN
<1>1. applied' = IF kind \in {"invalid", "named"} THEN applied ELSE Append(applied, o)
  BY DEF ApplyOption, Modify
<1>2. applied' \in Seq(Origin) /\ Range(applied) \subseteq Range(applied')
      /\ (kind \notin {"invalid", "named"} => o \in Range(applied'))
  BY <1>1, AppendRange
<1>3. tlsConfig' \in BOOLEAN
  BY DEF ApplyOption, Modify
<1>4. /\ errors' = IF kind = "invalid" THEN errors \cup {o} ELSE errors
      /\ kind = "named" => stage' = "panicked" /\ pos' = 1
      /\ kind # "named" => stage' = stage /\ pos' = pos + 1
  BY DEF ApplyOption, Goto, Advance
<1> QED BY <1>2, <1>3, <1>4

\* An assembly that panicked promises nothing more.
LEMMA PanicInvariant ==
  ASSUME IInv, stage \in Served, stage' = "panicked", pos' = 1,
         UNCHANGED <<inputs, options, decorators>>,
         tlsConfig' \in BOOLEAN, applied' \in Seq(Origin), middleware' = middleware
  PROVE  IInv'
<1> USE DEF IInv
<1>1. TypeOK' /\ Shape' /\ SortedSoFar'
  <2>1. pos' \in Positions
    BY FirstPosition
  <2>2. stage # "providing" /\ stage' \in Stages \ {"providing"}
    BY DEF Stages, Served
  <2>3. middleware' \in 0..MaxMiddleware
    BY DEF TypeOK
  <2> QED BY <2>1, <2>2, <2>3, Later
<1>2. Emitted' = Emitted
  BY DEF inputs, Emitted
<1> QED BY <1>1, <1>2
        DEF ByCondition, ProvidingSoFar, InjectedSoFar, FactorySoFar, ExternalSoFar,
            EveryErrorReported, Served, Injections, Complete

\* One more injected option.
LEMMA ApplyInjectedInvariant == ASSUME IInv, ApplyInjected PROVE IInv'
<1> USE DEF IInv
<1>1. /\ stage = "injecting" /\ UNCHANGED <<inputs, options, decorators, middleware>>
      /\ pos \in 1..Len(injected) /\ DOMAIN injected = 1..Len(injected)
      /\ Len(injected) \in 0..MaxInjected /\ middleware \in 0..MaxMiddleware
  BY Inputs DEF ApplyInjected, accepted, TypeOK
<1> DEFINE o == Injected(pos)
           kind == injected[pos]
<1>2. o \in Origin /\ ApplyOption(o, kind) /\ applied \in Seq(Origin) /\ tlsConfig \in BOOLEAN
  BY <1>1, Origins DEF ApplyInjected, Shape, TypeOK
<1> HIDE DEF kind, o
<1>3. /\ applied' \in Seq(Origin) /\ Range(applied) \subseteq Range(applied')
      /\ kind \notin {"invalid", "named"} => o \in Range(applied')
      /\ errors' = IF kind = "invalid" THEN errors \cup {o} ELSE errors
      /\ kind = "named" => stage' = "panicked" /\ pos' = 1
      /\ kind # "named" => stage' = stage /\ pos' = pos + 1
      /\ tlsConfig' \in BOOLEAN
  BY <1>2, ApplyOptionDoes
<1>4. CASE kind = "named"
  BY <1>1, <1>3, <1>4, PanicInvariant DEF Served
<1>5. CASE kind # "named"
  <2>1. stage' = "injecting" /\ pos' = pos + 1 /\ pos' \in Positions
    <3>1. pos \in 1..(MaxInjected + MaxExternal)
      BY <1>1, AssemblyAssumption
    <3>2. pos + 1 \in Positions
      BY <3>1, AssemblyAssumption, NextPosition
    <3> QED BY <1>1, <1>3, <1>5, <3>2
  <2>2. TypeOK' /\ Shape' /\ SortedSoFar'
    BY <1>1, <1>3, <2>1, Later DEF Stages
  <2>3. injected' = injected /\ Failing(injected) \subseteq 1..Len(injected)
    BY <1>1 DEF inputs, Failing
  <2>4. ASSUME NEW j \in 1..Len(injected) PROVE j < pos + 1 <=> (j < pos \/ j = pos)
    BY <1>1
  <2> DEFINE Before(n) == {j \in Failing(injected) : j < n}
  <2>5. pos \in Failing(injected) <=> kind = "invalid"
    BY <1>1 DEF Failing, kind
  <2>6. errors' = {Injected(i) : i \in Before(pos + 1)}
    <3>1. errors = {Injected(i) : i \in Before(pos)}
      BY <1>1 DEF InjectedSoFar
    <3>2. Before(pos + 1) = IF kind = "invalid" THEN Before(pos) \cup {pos} ELSE Before(pos)
      BY ONLY <2>3, <2>4, <2>5
    <3> HIDE DEF Before
    <3> QED BY <1>3, <3>1, <3>2 DEF o
  <2>7. ASSUME NEW i \in DOMAIN injected, i < pos + 1
        PROVE  i \in Failing(injected) \/ Injected(i) \in Range(applied')
    <3>1. CASE i < pos
      BY <1>1, <1>3, <3>1 DEF InjectedSoFar
    <3>2. CASE i = pos
      BY <1>3, <1>5, <2>5, <3>2 DEF o
    <3> QED BY <1>1, <2>4, <2>7, <3>1, <3>2
  <2>8. InjectedSoFar'
    BY <2>1, <2>3, <2>6, <2>7 DEF InjectedSoFar, Injections, Failing
  <2>9. ByCondition'
    BY <1>1, <2>1 DEF ByCondition, Served, inputs, Emitted, Usable
  <2> QED BY <2>1, <2>2, <2>8, <2>9
          DEF ProvidingSoFar, FactorySoFar, ExternalSoFar, EveryErrorReported, Complete
<1> QED BY <1>4, <1>5

\* With an error of an injected option the constructor fails.
LEMMA InjectedDoneInvariant == ASSUME IInv, InjectedDone PROVE IInv'
<1> USE DEF IInv
<1>1. /\ stage = "injecting" /\ UNCHANGED <<inputs, options, decorators, applied, errors>>
      /\ stage' = IF errors = {} THEN "factory option" ELSE "failed"
      /\ pos' = 1 /\ pos' \in Positions /\ UNCHANGED <<tlsConfig, middleware>>
  BY FirstPosition DEF InjectedDone, Goto, made, accepted, fields
<1>2. DOMAIN injected = 1..Len(injected) /\ Len(injected) \in Nat /\ pos \in Nat
  BY Inputs, AssemblyAssumption
<1>3. \A i \in DOMAIN injected : i < pos
  <2>1. pos > Len(injected)
    BY DEF InjectedDone
  <2> QED BY ONLY <1>2, <2>1
<1>4. TypeOK' /\ Shape' /\ SortedSoFar'
  BY <1>1, Later DEF Stages, TypeOK, Shape
<1>5. errors = {Injected(i) : i \in Failing(injected)}
  <2>1. {j \in Failing(injected) : j < pos} = Failing(injected)
    BY <1>3 DEF Failing
  <2> QED BY <1>1, <2>1 DEF InjectedSoFar
<1>6. ByCondition'
  BY <1>1 DEF ByCondition, Served, inputs, Emitted, Usable
<1>7. injected' = injected /\ Failing(injected)' = Failing(injected)
      /\ \A i : Injected(i)' = Injected(i)
  BY <1>1 DEF inputs, Failing, Injected
<1>8. InjectedSoFar'
  <2>1. errors = {} => Failing(injected) = {}
    BY <1>5
  <2>2. \A i \in DOMAIN injected : i \in Failing(injected) \/ Injected(i) \in Range(applied)
    BY <1>1, <1>3 DEF InjectedSoFar
  <2> QED BY <1>1, <1>7, <2>1, <2>2 DEF InjectedSoFar, Injections, Served
<1>9. EveryErrorReported'
  <2>1. Usable(factory)' /\ errors' = errors
    BY <1>1 DEF ByCondition, Served, inputs, Usable
  <2>2. errors # {} => Failing(injected) # {}
    BY <1>5
  <2> QED BY <1>1, <1>5, <1>7, <2>1, <2>2 DEF EveryErrorReported
<1> QED BY <1>1, <1>4, <1>6, <1>8, <1>9
        DEF ProvidingSoFar, FactorySoFar, ExternalSoFar, Complete

\* The factory as an option comes after the injected ones; it may fail.
LEMMA ApplyFactoryInvariant == ASSUME IInv, ApplyFactory PROVE IInv'
<1> USE DEF IInv
<1>1. /\ stage = "factory option" /\ UNCHANGED <<inputs, options, decorators>>
      /\ pos' = 1 /\ pos' \in Positions /\ UNCHANGED <<tlsConfig, middleware>>
  BY FirstPosition DEF ApplyFactory, Goto, fields, accepted
<1>2. errors = {} /\ Usable(factory)
  BY <1>1 DEF FactorySoFar, ByCondition, Served
<1>3. CASE factory.fails
  <2>1. stage' = "failed" /\ applied' = applied /\ errors' = {FactoryOption}
    BY <1>2, <1>3 DEF ApplyFactory, Goto
  <2>2. TypeOK' /\ Shape' /\ SortedSoFar'
    BY <1>1, <2>1, Later DEF Stages, TypeOK, Shape
  <2>3. Failing(injected) = {} /\ Failing(injected)' = Failing(injected)
    BY <1>1 DEF InjectedSoFar, Injections, Served, inputs, Failing
  <2>4. factory' = factory /\ FactoryOption' = FactoryOption
    BY <1>1 DEF inputs, FactoryOption
  <2>5. EveryErrorReported'
    BY <1>2, <1>3, <2>1, <2>3, <2>4 DEF EveryErrorReported, Usable
  <2>6. ByCondition'
    BY <1>1, <2>1 DEF ByCondition, Served, inputs, Emitted
  <2> QED BY <2>1, <2>2, <2>5, <2>6
          DEF ProvidingSoFar, InjectedSoFar, FactorySoFar, ExternalSoFar, Served, Injections,
              Complete
<1>4. CASE ~factory.fails
  <2>1. /\ stage' = IF target = "server" THEN "externals" ELSE "built"
        /\ applied' = IF factory.option THEN Append(applied, FactoryOption) ELSE applied
        /\ stage' \in {"externals", "built"} /\ errors' = {}
    BY <1>2, <1>4 DEF ApplyFactory, Goto
  <2>2. /\ applied' \in Seq(Origin) /\ Range(applied) \subseteq Range(applied')
        /\ factory.option => FactoryOption \in Range(applied')
    <3>1. applied \in Seq(Origin) /\ FactoryOption \in Origin
      BY Origins DEF Shape
    <3> QED BY <2>1, <3>1, AppendRange
  <2>3. TypeOK' /\ Shape' /\ SortedSoFar'
    BY <1>1, <2>1, <2>2, Later DEF Stages, TypeOK
  <2>4. InjectedSoFar'
    BY <1>1, <2>1, <2>2 DEF InjectedSoFar, Injections, Served, inputs, Failing
  <2>5. FactorySoFar'
    BY <1>1, <1>4, <2>1, <2>2 DEF FactorySoFar, inputs
  <2>6. DOMAIN options = 1..Len(options) /\ Len(options) \in Nat /\ options' = options
    BY <1>1, Inputs
  <2>7. ExternalSoFar'
    <3>1. CASE target = "server"
      <4>1. \A n \in DOMAIN options : ~(n < 1)
        BY ONLY <2>6
      <4> QED BY <1>1, <2>1, <2>6, <3>1, <4>1 DEF ExternalSoFar, Complete
    <3>2. CASE target # "server"
      <4>1. target = "client" /\ Sorted = 0
        BY <3>2 DEF TypeOK, Sorted
      <4>2. DOMAIN options = {}
        BY <2>6, <4>1 DEF SortedSoFar
      <4> QED BY <2>1, <2>6, <3>2, <4>2 DEF ExternalSoFar, Complete
    <3> QED BY <3>1, <3>2
  <2>8. ByCondition'
    BY <1>1, <2>1 DEF ByCondition, Served, inputs, Emitted, Usable
  <2> QED BY <2>1, <2>3, <2>4, <2>5, <2>7, <2>8 DEF ProvidingSoFar, EveryErrorReported
<1> QED BY <1>3, <1>4

\* One more external option of a server.
LEMMA ApplyExternalInvariant == ASSUME IInv, ApplyExternal PROVE IInv'
<1> USE DEF IInv
<1>1. /\ stage = "externals" /\ UNCHANGED <<inputs, options, decorators, middleware>>
      /\ pos \in 1..Len(options) /\ DOMAIN options = 1..Len(options)
      /\ options[pos] \in 1..Len(external)
      /\ Len(external) \in 0..MaxExternal /\ middleware \in 0..MaxMiddleware
  BY Inputs DEF ApplyExternal, accepted, TypeOK
<1> DEFINE o == External(options[pos])
           kind == external[options[pos]]
<1>2. o \in Origin /\ ApplyOption(o, kind) /\ applied \in Seq(Origin) /\ tlsConfig \in BOOLEAN
  BY <1>1, Origins DEF ApplyExternal, Shape, TypeOK
<1> HIDE DEF kind, o
<1>3. /\ applied' \in Seq(Origin) /\ Range(applied) \subseteq Range(applied')
      /\ kind \notin {"invalid", "named"} => o \in Range(applied')
      /\ errors' = IF kind = "invalid" THEN errors \cup {o} ELSE errors
      /\ kind = "named" => stage' = "panicked" /\ pos' = 1
      /\ kind # "named" => stage' = stage /\ pos' = pos + 1
      /\ tlsConfig' \in BOOLEAN
  BY <1>2, ApplyOptionDoes
<1>4. CASE kind = "named"
  BY <1>1, <1>3, <1>4, PanicInvariant DEF Served
<1>5. CASE kind # "named"
  <2>1. stage' = "externals" /\ pos' = pos + 1 /\ pos' \in Positions
    <3>1. Len(options) <= Len(external) /\ Len(options) \in Nat
      <4>1. target = "server" /\ Sorted = Len(external)
        BY <1>1 DEF ByCondition, Sorted
      <4> QED BY <4>1, Inputs DEF SortedSoFar
    <3>2. pos \in 1..(MaxInjected + MaxExternal)
      BY <1>1, <3>1, AssemblyAssumption
    <3>3. pos + 1 \in Positions
      BY <3>2, AssemblyAssumption, NextPosition
    <3> QED BY <1>1, <1>3, <1>5, <3>3
  <2>2. TypeOK' /\ Shape' /\ SortedSoFar'
    BY <1>1, <1>3, <2>1, Later DEF Stages
  <2>3. options' = options /\ external' = external
    BY <1>1 DEF inputs
  <2>4. ASSUME NEW j \in 1..Len(options) PROVE j < pos + 1 <=> (j < pos \/ j = pos)
    BY <1>1
  <2> DEFINE Before(n) == {j \in DOMAIN options : j < n /\ external[options[j]] = "invalid"}
             Names(ns) == {External(i) : i \in {options[j] : j \in ns}}
  <2>5. errors' = Names(Before(pos + 1))
    <3>1. errors = Names(Before(pos))
      BY <1>1 DEF ExternalSoFar
    <3>2. Before(pos + 1) = IF kind = "invalid" THEN Before(pos) \cup {pos} ELSE Before(pos)
      BY ONLY <1>1, <2>4 DEF kind
    <3> HIDE DEF Before
    <3>3. Names(Before(pos) \cup {pos}) = Names(Before(pos)) \cup {External(options[pos])}
      OBVIOUS
    <3> HIDE DEF Names
    <3> QED BY <1>3, <3>1, <3>2, <3>3 DEF o
  <2>6. ASSUME NEW j \in DOMAIN options, j < pos + 1
        PROVE  external[options[j]] = "invalid" \/ External(options[j]) \in Range(applied')
    <3>1. CASE j < pos
      BY <1>1, <1>3, <3>1 DEF ExternalSoFar
    <3>2. CASE j = pos
      BY <1>3, <1>5, <3>2 DEF o, kind
    <3> QED BY <1>1, <2>4, <2>6, <3>1, <3>2
  <2>7. ExternalSoFar'
    BY <2>1, <2>3, <2>5, <2>6 DEF ExternalSoFar, Complete
  <2>8. InjectedSoFar'
    BY <1>1, <1>3, <2>1 DEF InjectedSoFar, Injections, Served, inputs, Failing
  <2>9. FactorySoFar'
    BY <1>1, <1>3, <2>1 DEF FactorySoFar, inputs
  <2>10. ByCondition'
    BY <1>1, <2>1 DEF ByCondition, Served, inputs, Emitted, Usable
  <2> QED BY <2>1, <2>2, <2>7, <2>8, <2>9, <2>10 DEF ProvidingSoFar, EveryErrorReported
<1> QED BY <1>4, <1>5

\* With an error of an external option the constructor fails.
LEMMA ExternalDoneInvariant == ASSUME IInv, ExternalDone PROVE IInv'
<1> USE DEF IInv
<1>1. /\ stage = "externals" /\ UNCHANGED <<inputs, options, decorators, applied, errors>>
      /\ stage' = IF errors = {} THEN "built" ELSE "failed"
      /\ pos' = 1 /\ pos' \in Positions /\ UNCHANGED <<tlsConfig, middleware>>
  BY FirstPosition DEF ExternalDone, Goto, made, accepted, fields
<1>2. DOMAIN options = 1..Len(options) /\ Len(options) \in Nat /\ pos \in Nat
      /\ DOMAIN external = 1..Len(external)
  BY Inputs
<1>3. \A i \in DOMAIN options : i < pos
  <2>1. pos > Len(options)
    BY DEF ExternalDone
  <2> QED BY ONLY <1>2, <2>1
<1>4. TypeOK' /\ Shape' /\ SortedSoFar'
  BY <1>1, Later DEF Stages, TypeOK, Shape
<1>5. errors = {External(i) : i \in Failing(external)}
  <2>1. Range(options) = {i \in DOMAIN external : IsOption(external[i])}
    <3>1. Sorted = Len(external)
      BY <1>1 DEF ByCondition, Sorted
    <3> QED BY <1>2, <3>1 DEF SortedSoFar
  <2>2. IsOption("invalid")
    BY DEF IsOption, OptionKinds
  <2> DEFINE Chosen == {options[j] : j \in
                          {n \in DOMAIN options : n < pos /\ external[options[n]] = "invalid"}}
  <2>3. Chosen = {i \in Range(options) : external[i] = "invalid"}
    BY ONLY <1>3 DEF Range
  <2>4. Chosen = Failing(external)
    BY ONLY <2>1, <2>2, <2>3 DEF Failing
  <2> QED BY <1>1, <2>4 DEF ExternalSoFar
<1>6. ByCondition'
  BY <1>1 DEF ByCondition, Served, inputs, Emitted, Usable
<1>7. InjectedSoFar'
  BY <1>1 DEF InjectedSoFar, Injections, Served, inputs, Failing
<1>8. FactorySoFar'
  BY <1>1 DEF FactorySoFar, inputs
<1>9. ExternalSoFar'
  <2>1. ASSUME errors = {}, NEW j \in DOMAIN options
        PROVE  external[options[j]] # "invalid" /\ External(options[j]) \in Range(applied)
    <3>1. external[options[j]] # "invalid"
      <4>1. options[j] \in DOMAIN external
        BY DEF TypeOK
      <4> QED BY <1>5, <2>1, <4>1 DEF Failing
    <3> QED BY <1>1, <1>3, <3>1 DEF ExternalSoFar
  <2> QED BY <1>1, <2>1 DEF ExternalSoFar, Complete, inputs
<1>10. EveryErrorReported'
  <2>1. Usable(factory)' /\ errors' = errors /\ Failing(injected)' = {}
        /\ Failing(external)' = Failing(external) /\ ~factory'.fails
    BY <1>1 DEF ByCondition, InjectedSoFar, FactorySoFar, Injections, Served, inputs, Usable,
                Failing
  <2>2. \A i : External(i)' = External(i)
    BY DEF External
  <2> QED BY <1>1, <1>5, <2>1, <2>2 DEF EveryErrorReported
<1> QED BY <1>1, <1>4, <1>6, <1>7, <1>8, <1>9, <1>10 DEF ProvidingSoFar

\* The start hook comes when all is done.
LEMMA ListenInvariant == ASSUME IInv, Listen PROVE IInv'
<1> USE DEF IInv
<1>1. /\ stage = "built" /\ stage' = "listening" /\ pos' = 1 /\ pos' \in Positions
      /\ UNCHANGED <<inputs, options, decorators, applied, errors>>
      /\ tlsConfig' = tlsConfig /\ middleware' \in 0..MaxMiddleware
  BY FirstPosition DEF Listen, Goto, fields
<1>2. TypeOK' /\ Shape' /\ SortedSoFar'
  BY <1>1, Later DEF Stages, TypeOK, Shape
<1> QED BY <1>1, <1>2
        DEF ByCondition, ProvidingSoFar, InjectedSoFar, FactorySoFar, ExternalSoFar,
            EveryErrorReported, Served, Injections, Complete, inputs, Emitted, Usable, Failing

\* Every step keeps the invariant.
LEMMA NextInvariant == IInv /\ [Next]_vars => IInv'
<1> SUFFICES ASSUME IInv, [Next]_vars PROVE IInv'
  OBVIOUS
<1>1. CASE UNCHANGED vars
  <2>1. /\ UNCHANGED <<target, feature, inverted, injected, external, nameless, factory>>
        /\ UNCHANGED <<stage, pos, options, decorators, tlsConfig, middleware, applied, errors>>
    BY <1>1 DEF vars, inputs, made, accepted, fields
  <2>2. TypeOK'
    BY <2>1 DEF IInv, TypeOK
  <2>3. Shape' /\ SortedSoFar'
    BY <2>1 DEF IInv, Shape, SortedSoFar, Sorted
  <2>4. ByCondition' /\ ProvidingSoFar'
    BY <2>1 DEF IInv, ByCondition, ProvidingSoFar, Emitted, Usable, Refused, Sorted
  <2>5. InjectedSoFar' /\ FactorySoFar'
    BY <2>1 DEF IInv, InjectedSoFar, FactorySoFar, Failing
  <2>6. ExternalSoFar'
    BY <2>1 DEF IInv, ExternalSoFar, Complete
  <2>7. EveryErrorReported'
    BY <2>1 DEF IInv, EveryErrorReported, Usable, Failing, Refused
  <2> QED BY <2>2, <2>3, <2>4, <2>5, <2>6, <2>7 DEF IInv
<1> QED BY <1>1, ClassifyInvariant, ProvidedInvariant, FactoryInvariant,
           ApplyInjectedInvariant, InjectedDoneInvariant, ApplyFactoryInvariant,
           ApplyExternalInvariant, ExternalDoneInvariant, ListenInvariant DEF Next

-----------------------------------------------------------------------------
\* Two sequences with the same elements are the same.
LEMMA SameSequence ==
  ASSUME NEW S, NEW s \in Seq(S), NEW t \in Seq(S), Len(s) = Len(t),
         \A i \in 1..Len(s) : s[i] = t[i]
  PROVE  s = t
OBVIOUS

\* A set of natural numbers that is not empty has a least one.
LEMMA LeastNumber ==
  ASSUME NEW T \in SUBSET Nat, T # {}
  PROVE  \E n \in T : \A m \in T : n <= m
<1> DEFINE Less == OpToRel(<, Nat)
<1>1. IsWellFoundedOn(Less, Nat)
  BY NatLessThanWellFounded
<1>2. \A x, y \in Nat : x < y => <<x, y>> \in Less
  BY DEF OpToRel
<1> HIDE DEF Less
<1>3. PICK n \in T : \A m \in T : <<m, n>> \notin Less
  BY <1>1, WFMin
<1>4. ASSUME NEW m \in T PROVE n <= m
  <2>1. ~(m < n)
    BY <1>2, <1>3
  <2> QED BY <2>1
<1> QED BY <1>4

\* The elements of a concatenation.
LEMMA ConcatAt ==
  ASSUME NEW S, NEW s \in Seq(S), NEW t \in Seq(S), NEW k \in 1..(Len(s) + Len(t))
  PROVE  (s \o t)[k] = IF k <= Len(s) THEN s[k] ELSE t[k - Len(s)]
OBVIOUS

\* One turn of the loop of ApplyMiddleware.
LEMMA OneTurn ==
  ASSUME NEW S, NEW layers \in Seq(S), NEW ms \in Seq(S), NEW n \in 1..Len(ms)
  PROVE  SubSeq(ms, Len(ms) - n + 1, Len(ms)) \o layers
           = <<ms[Len(ms) - n + 1]>> \o (SubSeq(ms, Len(ms) - (n - 1) + 1, Len(ms)) \o layers)
<1> DEFINE a == SubSeq(ms, Len(ms) - n + 1, Len(ms))
           b == SubSeq(ms, Len(ms) - (n - 1) + 1, Len(ms))
           x == ms[Len(ms) - n + 1]
<1>1. /\ a \in Seq(S) /\ Len(a) = n /\ \A i \in 1..n : a[i] = ms[Len(ms) - n + i]
      /\ b \in Seq(S) /\ Len(b) = n - 1 /\ \A i \in 1..(n - 1) : b[i] = ms[Len(ms) - n + 1 + i]
      /\ x \in S
  <2>1. PICK z \in Nat : z = Len(ms)
    OBVIOUS
  <2>2. /\ z - n + 1 \in 1..z /\ z - (n - 1) + 1 \in 1..(z + 1)
        /\ z - (z - n + 1) + 1 = n /\ z - (z - (n - 1) + 1) + 1 = n - 1
    BY <2>1
  <2>3. x \in S
    BY <2>1, <2>2
  <2>4. a \in Seq(S) /\ Len(a) = n /\ \A i \in 1..n : a[i] = ms[Len(ms) - n + i]
    BY <2>1, <2>2
  <2>5. b \in Seq(S) /\ Len(b) = n - 1 /\ \A i \in 1..(n - 1) : b[i] = ms[Len(ms) - n + 1 + i]
    BY <2>1, <2>2
  <2> QED BY <2>3, <2>4, <2>5
<1>2. \A i \in 1..n : a[i] = IF i = 1 THEN x ELSE b[i - 1]
  <2> HIDE DEF a, b
  <2>1. PICK z \in Nat : z = Len(ms)
    OBVIOUS
  <2>2. x = ms[z - n + 1]
    BY <2>1
  <2> HIDE DEF x
  <2>3. \A i \in 1..n : a[i] = ms[z - n + i]
    BY <1>1, <2>1
  <2>4. \A i \in 1..(n - 1) : b[i] = ms[z - n + 1 + i]
    BY <1>1, <2>1
  <2>5. \A i \in 1..n : i # 1 => i - 1 \in 1..(n - 1) /\ z - n + 1 + (i - 1) = z - n + i
    BY <2>1
  <2> QED BY <2>2, <2>3, <2>4, <2>5
<1> HIDE DEF a, b, x
<1> DEFINE s == a \o layers
           t == <<x>> \o (b \o layers)
<1>3. s \in Seq(S) /\ t \in Seq(S) /\ Len(s) = Len(t)
  <2>1. b \o layers \in Seq(S) /\ Len(b \o layers) = n - 1 + Len(layers)
    <3>1. b \in Seq(S) /\ Len(b) = n - 1
      BY <1>1
    <3> QED BY <3>1
  <2>2. <<x>> \in Seq(S) /\ Len(<<x>>) = 1
    BY <1>1
  <2>3. Len(layers) \in Nat /\ n \in Nat
    OBVIOUS
  <2>4. s \in Seq(S) /\ Len(s) = n + Len(layers)
    <3>1. a \in Seq(S) /\ Len(a) = n
      BY <1>1
    <3> QED BY <3>1
  <2>5. t \in Seq(S) /\ Len(t) = 1 + (n - 1 + Len(layers))
    BY <2>1, <2>2
  <2> QED BY <2>3, <2>4, <2>5
<1>4. ASSUME NEW i \in 1..Len(s) PROVE s[i] = t[i]
  <2> DEFINE c == b \o layers
  <2>1. Len(layers) \in Nat /\ n \in Nat /\ n >= 1 /\ Len(a) = n /\ Len(b) = n - 1
    BY <1>1
  <2>2. i \in Nat /\ i >= 1 /\ i <= n + Len(layers)
    BY <1>1, <2>1
  <2>3. s[i] = IF i <= n THEN a[i] ELSE layers[i - n]
    <3>1. i \in 1..(Len(a) + Len(layers))
      BY <2>1, <2>2
    <3>2. s[i] = IF i <= Len(a) THEN a[i] ELSE layers[i - Len(a)]
      BY <1>1, <3>1, ConcatAt
    <3> QED BY <2>1, <3>2
  <2>4. c \in Seq(S) /\ Len(c) = n - 1 + Len(layers)
    <3>1. b \in Seq(S) /\ Len(b) = n - 1
      BY <1>1
    <3> QED BY <3>1
  <2>5. ASSUME i > 1 PROVE c[i - 1] = IF i <= n THEN b[i - 1] ELSE layers[i - n]
    <3>1. i - 1 \in 1..(Len(b) + Len(layers))
      BY <2>1, <2>2, <2>5
    <3>2. c[i - 1] = IF i - 1 <= Len(b) THEN b[i - 1] ELSE layers[i - 1 - Len(b)]
      BY <1>1, <3>1, ConcatAt
    <3>3. (i - 1 <= Len(b) <=> i <= n) /\ i - 1 - Len(b) = i - n
      BY <2>1, <2>2
    <3> QED BY <3>2, <3>3
  <2> HIDE DEF c
  <2>6. t = <<x>> \o c
    BY DEF c
  <2> HIDE DEF t, s
  <2>7. t[i] = IF i = 1 THEN x ELSE c[i - 1]
    BY <1>1, <2>1, <2>2, <2>4, <2>6
  <2>8. CASE i <= n
    <3>1. i \in 1..n
      BY <2>1, <2>2, <2>8
    <3>2. s[i] = IF i = 1 THEN x ELSE b[i - 1]
      BY <1>2, <2>3, <2>8, <3>1
    <3> QED BY <2>2, <2>5, <2>7, <2>8, <3>2
  <2>9. CASE ~(i <= n)
    <3>1. i > 1
      BY <2>1, <2>2, <2>9
    <3> QED BY <2>1, <2>2, <2>3, <2>5, <2>7, <2>9, <3>1
  <2> QED BY <2>8, <2>9
<1> HIDE DEF s, t
<1>5. s = t
  BY <1>3, <1>4, SameSequence
<1> QED BY <1>5 DEF s, t, a, b, x

\* The loop of ApplyMiddleware puts the middleware, in the order in which it is
\* declared, on top of what it is given.  What the loop has made after n turns is
\* shown by its least counterexample.
LEMMA ApplyMiddlewareIs ==
  ASSUME NEW S, NEW layers \in Seq(S), NEW ms \in Seq(S)
  PROVE  ApplyMiddleware(layers, ms) = ms \o layers
<1> DEFINE N == Len(ms)
           Turn(f, n) == IF n = 0 THEN layers ELSE <<ms[N - n + 1]>> \o f[n - 1]
           Loop(f) == f = [n \in 0..N |-> Turn(f, n)]
           Done(n) == SubSeq(ms, N - n + 1, N) \o layers
           after == [n \in 0..N |-> Done(n)]
<1>1. N \in Nat
  OBVIOUS
<1>2. Done(0) = layers
  OBVIOUS
<1>3. ASSUME NEW n \in 1..N PROVE Done(n) = <<ms[N - n + 1]>> \o Done(n - 1)
  BY OneTurn
<1>4. Done(N) = ms \o layers
  <2>1. N - N + 1 = 1
    BY <1>1
  <2>2. SubSeq(ms, 1, N) = ms
    <3>1. SubSeq(ms, 1, N) \in Seq(S) /\ Len(SubSeq(ms, 1, N)) = N
          /\ \A i \in 1..N : SubSeq(ms, 1, N)[i] = ms[i]
      OBVIOUS
    <3> QED BY <3>1, SameSequence
  <2> QED BY <2>1, <2>2
<1>5. ApplyMiddleware(layers, ms) = (CHOOSE f : Loop(f))[N]
  BY DEF ApplyMiddleware
<1> HIDE DEF Done
<1>6. Loop(after)
  <2>1. ASSUME NEW n \in 0..N PROVE after[n] = Turn(after, n)
    <3>1. CASE n = 0
      BY <1>2, <3>1
    <3>2. CASE n # 0
      <4>1. n \in 1..N /\ n - 1 \in 0..N
        BY <1>1, <3>2
      <4> QED BY <1>3, <3>2, <4>1
    <3> QED BY <3>1, <3>2
  <2> QED BY <2>1
<1>7. PICK f : f = (CHOOSE g : Loop(g)) /\ Loop(f)
  BY <1>6
<1> HIDE DEF N
<1>8. \A n \in 0..N : f[n] = Done(n)
  <2> DEFINE Wrong == {n \in 0..N : f[n] # Done(n)}
  <2>1. SUFFICES ASSUME Wrong # {} PROVE FALSE
    OBVIOUS
  <2>2. PICK n \in Wrong : \A m \in Wrong : n <= m
    <3>1. Wrong \in SUBSET Nat
      BY <1>1
    <3> HIDE DEF Wrong
    <3> QED BY <2>1, <3>1, LeastNumber
  <2>3. n # 0
    BY <1>1, <1>2, <1>7
  <2>4. n \in 1..N /\ n - 1 \in 0..N /\ ~(n <= n - 1)
    BY <1>1, <2>3
  <2>5. f[n - 1] = Done(n - 1)
    BY <2>2, <2>4
  <2>6. f[n] = <<ms[N - n + 1]>> \o Done(n - 1)
    BY <1>7, <2>3, <2>4, <2>5
  <2> QED BY <1>3, <2>4, <2>6
<1>9. f[N] = Done(N)
  BY <1>1, <1>8
<1> HIDE DEF Loop
<1> QED BY <1>4, <1>5, <1>7, <1>9

(***************************************************************************)
(* What was made, by the order in which the options were applied.  A stack *)
(* is the handler or the transport, the layers of the latest option on     *)
(* top; a queue is a ConnContext, the functions of the earliest first.     *)
(***************************************************************************)
Bottom == {Base[1], Default[1]}
Layer == (Origin \cup Bottom) \X (0..2)

Earlier(ops, x, y) == \A a, b \in DOMAIN ops : ops[a] = x /\ ops[b] = y => a < b

Outer(ops, f, g) == Earlier(ops, g[1], f[1]) \/ (f[1] = g[1] /\ f[2] < g[2])
Sooner(ops, f, g) == Earlier(ops, f[1], g[1]) \/ (f[1] = g[1] /\ f[2] < g[2])

Stack(ls, ops) ==
  /\ ls \in Seq(Layer)
  /\ \A i \in DOMAIN ls : ls[i][1] \in Range(ops) \cup Bottom
  /\ \A i, j \in DOMAIN ls : i < j => Outer(ops, ls[i], ls[j])

Queue(fs, ops) ==
  /\ fs \in Seq(Layer)
  /\ \A i \in DOMAIN fs : fs[i][1] \in Range(ops)
  /\ \A i, j \in DOMAIN fs : i < j => Sooner(ops, fs[i], fs[j])

\* The layers or functions of one option, in the order of declaration.
Group(gs, o) ==
  /\ gs \in Seq({o} \X (0..2))
  /\ \A i, j \in DOMAIN gs : i < j => gs[i][2] < gs[j][2]

\* What one more option, applied last, does to the order of the others.
LEMMA OneMore ==
  ASSUME NEW S, NEW ops \in Seq(S), NEW o \in S
  PROVE  o \notin Range(ops) =>
         /\ Range(Append(ops, o)) = Range(ops) \cup {o}
         /\ \A x : x # o => Earlier(Append(ops, o), x, o)
         /\ \A x, y : x # o /\ y # o /\ Earlier(ops, x, y) => Earlier(Append(ops, o), x, y)
<1> DEFINE bs == Append(ops, o)
<1>1. bs \in Seq(S) /\ Len(bs) = Len(ops) + 1 /\ Range(bs) = Range(ops) \cup {o}
  BY AppendRange
<1>2. bs \in Seq(S) /\ Len(bs) = Len(ops) + 1 /\ Len(ops) \in Nat
      /\ DOMAIN bs = 1..(Len(ops) + 1) /\ DOMAIN ops = 1..Len(ops)
      /\ bs[Len(ops) + 1] = o /\ \A a \in 1..Len(ops) : bs[a] = ops[a]
  OBVIOUS
<1> HIDE DEF bs
<1>0. SUFFICES ASSUME o \notin Range(ops)
               PROVE  /\ Range(bs) = Range(ops) \cup {o}
                      /\ \A x : x # o => Earlier(bs, x, o)
                      /\ \A x, y : x # o /\ y # o /\ Earlier(ops, x, y) => Earlier(bs, x, y)
  BY DEF bs
<1>3. \A a \in 1..Len(ops) : ops[a] # o
  BY <1>0, <1>2 DEF Range
<1>4. \A a \in DOMAIN bs : a \in DOMAIN ops \/ (a = Len(ops) + 1 /\ \A b \in DOMAIN ops : b < a)
  <2>1. PICK n \in Nat : n = Len(ops)
    BY <1>2
  <2>2. \A a \in 1..(n + 1) : a \in 1..n \/ (a = n + 1 /\ \A b \in 1..n : b < a)
    OBVIOUS
  <2> QED BY <1>2, <2>1, <2>2, SMTT(30)
<1>5. ASSUME NEW x, x # o PROVE Earlier(bs, x, o)
  BY <1>2, <1>3, <1>4, <1>5 DEF Earlier
<1>6. ASSUME NEW x, NEW y, x # o, y # o, Earlier(ops, x, y) PROVE Earlier(bs, x, y)
  BY <1>2, <1>4, <1>6 DEF Earlier
<1> QED BY <1>1, <1>5, <1>6

\* The elements of two sequences that are joined.
LEMMA Joining ==
  ASSUME NEW S, NEW s \in Seq(S), NEW t \in Seq(S)
  PROVE  /\ s \o t \in Seq(S) /\ Len(s \o t) = Len(s) + Len(t)
         /\ \A i \in 1..(Len(s) + Len(t)) :
              (s \o t)[i] = IF i <= Len(s) THEN s[i] ELSE t[i - Len(s)]
         /\ Len(s) \in Nat /\ Len(t) \in Nat
OBVIOUS

\* A function on 1..n is a sequence of that length.
LEMMA Listed ==
  ASSUME NEW S, NEW n \in Nat, NEW f \in [1..n -> S]
  PROVE  f \in Seq(S) /\ Len(f) = n
OBVIOUS

\* An index of two joined sequences is an index of the one or of the other.
LEMMA Joined ==
  ASSUME NEW S, NEW s \in Seq(S), NEW t \in Seq(S)
  PROVE  /\ s \o t \in Seq(S)
         /\ \A i \in DOMAIN (s \o t) :
              \/ i \in DOMAIN s /\ (s \o t)[i] = s[i]
              \/ i - Len(s) \in DOMAIN t /\ (s \o t)[i] = t[i - Len(s)]
         /\ \A i, j \in DOMAIN (s \o t) : i < j =>
              /\ i - Len(s) < j - Len(s)
              /\ ~(i - Len(s) \in DOMAIN t /\ j \in DOMAIN s)
<1>1. /\ s \o t \in Seq(S) /\ DOMAIN (s \o t) = 1..(Len(s) + Len(t))
      /\ \A i \in 1..(Len(s) + Len(t)) : (s \o t)[i] = IF i <= Len(s) THEN s[i] ELSE t[i - Len(s)]
      /\ DOMAIN s = 1..Len(s) /\ DOMAIN t = 1..Len(t) /\ Len(s) \in Nat /\ Len(t) \in Nat
  BY Joining
<1> DEFINE u == s \o t
<1> HIDE DEF u
<1>2. \A i \in 1..(Len(s) + Len(t)) : i \in 1..Len(s) \/ (~(i <= Len(s)) /\ i - Len(s) \in 1..Len(t))
  BY <1>1
<1>3. \A i, j \in 1..(Len(s) + Len(t)) : i < j =>
              /\ i - Len(s) < j - Len(s)
              /\ ~(i - Len(s) \in 1..Len(t) /\ j \in 1..Len(s))
  BY <1>1
<1> QED BY <1>1, <1>2, <1>3

\* A stack with the layers of one more option on top of it is a stack, and a
\* queue with the functions of one more at its end a queue.
LEMMA StackGrows ==
  ASSUME NEW ops \in Seq(Origin), NEW o \in Origin, o \notin Range(ops),
         NEW h, Stack(h, ops), NEW top, Group(top, o)
  PROVE  Stack(top \o h, Append(ops, o))
<1> DEFINE ls == top \o h
           bs == Append(ops, o)
           n == Len(top)
<1>1. /\ Range(bs) = Range(ops) \cup {o}
      /\ \A x : x # o => Earlier(bs, x, o)
      /\ \A x, y : x # o /\ y # o /\ Earlier(ops, x, y) => Earlier(bs, x, y)
  BY OneMore
<1>2. top \in Seq(Layer) /\ h \in Seq(Layer)
  <2>1. {o} \X (0..2) \subseteq Layer
    BY DEF Layer
  <2> QED BY <2>1 DEF Group, Stack
<1>3. /\ ls \in Seq(Layer)
      /\ \A i \in DOMAIN ls : \/ i \in DOMAIN top /\ ls[i] = top[i]
                              \/ i - n \in DOMAIN h /\ ls[i] = h[i - n]
      /\ \A i, j \in DOMAIN ls : i < j => i - n < j - n /\ ~(i - n \in DOMAIN h /\ j \in DOMAIN top)
  BY <1>2, Joined
<1>4. \A i \in DOMAIN top : top[i][1] = o
  BY DEF Group
<1>5. \A i \in DOMAIN h : h[i][1] \in Range(ops) \cup Bottom /\ h[i][1] # o
  <2>1. o \notin Bottom
    BY DEF Origin, Bottom, Base, Default
  <2> QED BY <2>1 DEF Stack
<1> HIDE DEF ls, bs, n
<1>6. \A i \in DOMAIN ls : ls[i][1] \in Range(bs) \cup Bottom
  BY ONLY <1>1, <1>3, <1>4, <1>5
<1>7. ASSUME NEW i \in DOMAIN ls, NEW j \in DOMAIN ls, i < j
      PROVE  Outer(bs, ls[i], ls[j])
  <2>1. CASE i \in DOMAIN top /\ ls[i] = top[i] /\ j \in DOMAIN top /\ ls[j] = top[j]
    BY <1>4, <1>7, <2>1 DEF Group, Outer
  <2>2. CASE i \in DOMAIN top /\ ls[i] = top[i] /\ j - n \in DOMAIN h /\ ls[j] = h[j - n]
    BY <1>1, <1>4, <1>5, <2>2 DEF Outer
  <2>3. CASE i - n \in DOMAIN h /\ j - n \in DOMAIN h /\ ls[i] = h[i - n] /\ ls[j] = h[j - n]
    <3>1. Outer(ops, ls[i], ls[j])
      BY <1>3, <1>7, <2>3 DEF Stack
    <3> QED BY <1>1, <1>5, <2>3, <3>1 DEF Outer
  <2> QED BY <1>3, <1>7, <2>1, <2>2, <2>3
<1> QED BY <1>3, <1>6, <1>7 DEF Stack, ls, bs

\* The same of a queue.
LEMMA QueueGrows ==
  ASSUME NEW ops \in Seq(Origin), NEW o \in Origin, o \notin Range(ops),
         NEW q, Queue(q, ops), NEW end, Group(end, o)
  PROVE  Queue(q \o end, Append(ops, o))
<1> DEFINE ls == q \o end
           bs == Append(ops, o)
           n == Len(q)
<1>1. /\ Range(bs) = Range(ops) \cup {o}
      /\ \A x : x # o => Earlier(bs, x, o)
      /\ \A x, y : x # o /\ y # o /\ Earlier(ops, x, y) => Earlier(bs, x, y)
  BY OneMore
<1>2. end \in Seq(Layer) /\ q \in Seq(Layer)
  <2>1. {o} \X (0..2) \subseteq Layer
    BY DEF Layer
  <2> QED BY <2>1 DEF Group, Queue
<1>3. /\ ls \in Seq(Layer)
      /\ \A i \in DOMAIN ls : \/ i \in DOMAIN q /\ ls[i] = q[i]
                              \/ i - n \in DOMAIN end /\ ls[i] = end[i - n]
      /\ \A i, j \in DOMAIN ls : i < j => i - n < j - n /\ ~(i - n \in DOMAIN end /\ j \in DOMAIN q)
  BY <1>2, Joined
<1>4. \A i \in DOMAIN end : end[i][1] = o
  BY DEF Group
<1>5. \A i \in DOMAIN q : q[i][1] \in Range(ops) /\ q[i][1] # o
  BY DEF Queue
<1> HIDE DEF ls, bs, n
<1>6. \A i \in DOMAIN ls : ls[i][1] \in Range(bs)
  BY ONLY <1>1, <1>3, <1>4, <1>5
<1>7. ASSUME NEW i \in DOMAIN ls, NEW j \in DOMAIN ls, i < j
      PROVE  Sooner(bs, ls[i], ls[j])
  <2>1. CASE i \in DOMAIN q /\ ls[i] = q[i] /\ j \in DOMAIN q /\ ls[j] = q[j]
    <3>1. Sooner(ops, ls[i], ls[j])
      BY <1>7, <2>1 DEF Queue
    <3> QED BY <1>1, <1>5, <2>1, <3>1 DEF Sooner
  <2>2. CASE i \in DOMAIN q /\ ls[i] = q[i] /\ j - n \in DOMAIN end /\ ls[j] = end[j - n]
    BY <1>1, <1>4, <1>5, <2>2 DEF Sooner
  <2>3. CASE i - n \in DOMAIN end /\ j - n \in DOMAIN end /\ ls[i] = end[i - n] /\ ls[j] = end[j - n]
    BY <1>3, <1>4, <1>7, <2>3 DEF Group, Sooner
  <2> QED BY <1>3, <1>7, <2>1, <2>2, <2>3
<1> QED BY <1>3, <1>6, <1>7 DEF Queue, ls, bs

\* Nothing is applied twice.
Distinct(ops) == \A a, b \in DOMAIN ops : ops[a] = ops[b] => a = b

\* An option that was not applied can be.
LEMMA StillDistinct ==
  ASSUME NEW S, NEW ops \in Seq(S), NEW o \in S
  PROVE  Distinct(ops) /\ o \notin Range(ops) => Distinct(Append(ops, o))
<1> DEFINE bs == Append(ops, o)
<1>1. bs \in Seq(S) /\ Len(bs) = Len(ops) + 1 /\ Len(ops) \in Nat
      /\ DOMAIN bs = 1..(Len(ops) + 1) /\ DOMAIN ops = 1..Len(ops)
      /\ bs[Len(ops) + 1] = o /\ \A a \in 1..Len(ops) : bs[a] = ops[a]
  OBVIOUS
<1> HIDE DEF bs
<1>2. SUFFICES ASSUME Distinct(ops), o \notin Range(ops) PROVE Distinct(bs)
  BY DEF bs
<1>3. \A a \in 1..Len(ops) : ops[a] # o
  BY <1>1, <1>2 DEF Range
<1>4. \A a \in DOMAIN bs : a \in DOMAIN ops \/ a = Len(ops) + 1
  BY <1>1
<1> QED BY <1>1, <1>2, <1>3, <1>4 DEF Distinct

\* The layers and functions that options make.
LEMMA Groups ==
  ASSUME NEW o
  PROVE  /\ Group(<< >>, o) /\ Group(<<<<o, 0>>>>, o) /\ Group(<<<<o, 1>>>>, o)
         /\ Group(Middleware(o), o) /\ Group(Functions(o), o)
         /\ Range(Functions(o)) = {<<o, 1>>, <<o, 2>>}
<1>1. PICK p0, p1, p2 : p0 = <<o, 0>> /\ p1 = <<o, 1>> /\ p2 = <<o, 2>>
  OBVIOUS
<1>2. PICK L : L = {o} \X (0..2)
  OBVIOUS
<1>3. p0 \in L /\ p1 \in L /\ p2 \in L /\ p1[2] = 1 /\ p2[2] = 2
  BY <1>1, <1>2
<1>4. << >> \in Seq(L) /\ <<p0>> \in Seq(L) /\ <<p1>> \in Seq(L) /\ <<p1, p2>> \in Seq(L)
      /\ DOMAIN << >> = {} /\ DOMAIN <<p0>> = 1..1 /\ DOMAIN <<p1>> = 1..1 /\ DOMAIN <<p1, p2>> = 1..2
  BY <1>3
<1>5. Group(<<p1, p2>>, o) /\ Range(<<p1, p2>>) = {p1, p2}
  BY <1>2, <1>3, <1>4 DEF Group, Range
<1>6. Group(<< >>, o) /\ Group(<<p0>>, o) /\ Group(<<p1>>, o)
  BY <1>2, <1>4 DEF Group
<1> QED BY <1>1, <1>5, <1>6 DEF Middleware, Functions

\* What is in two sequences that are joined.
LEMMA JoinedRange ==
  ASSUME NEW S, NEW s \in Seq(S), NEW t \in Seq(S)
  PROVE  Range(s \o t) = Range(s) \cup Range(t)
<1> DEFINE u == s \o t
<1>1. /\ u \in Seq(S) /\ DOMAIN u = 1..(Len(s) + Len(t))
      /\ \A i \in 1..(Len(s) + Len(t)) : u[i] = IF i <= Len(s) THEN s[i] ELSE t[i - Len(s)]
      /\ DOMAIN s = 1..Len(s) /\ DOMAIN t = 1..Len(t) /\ Len(s) \in Nat /\ Len(t) \in Nat
  BY Joining
<1> HIDE DEF u
<1>2. ASSUME NEW i \in DOMAIN u PROVE u[i] \in Range(s) \cup Range(t)
  <2>1. CASE i <= Len(s)
    BY <1>1, <2>1 DEF Range
  <2>2. CASE ~(i <= Len(s))
    <3>1. i - Len(s) \in DOMAIN t /\ u[i] = t[i - Len(s)]
      BY <1>1, <2>2
    <3> QED BY <3>1 DEF Range
  <2> QED BY <2>1, <2>2
<1>3. Range(s) \subseteq Range(u)
  BY <1>1 DEF Range
<1>4. ASSUME NEW j \in DOMAIN t PROVE t[j] \in Range(u)
  <2>1. j + Len(s) \in DOMAIN u /\ u[j + Len(s)] = t[j]
    BY <1>1
  <2> QED BY <2>1 DEF Range
<1> QED BY <1>2, <1>3, <1>4 DEF Range, u

\* Joining a sequence with nothing.
LEMMA NothingBelow ==
  ASSUME NEW S, NEW s \in Seq(S)
  PROVE  s = s \o << >> /\ s = << >> \o s
OBVIOUS

\* They are layers.
LEMMA GroupLayers ==
  ASSUME NEW o \in Origin, NEW gs, Group(gs, o)
  PROVE  gs \in Seq(Layer)
<1>1. {o} \X (0..2) \subseteq Layer
  BY DEF Layer
<1> QED BY <1>1 DEF Group

\* A handler that is nil has no layers.
LEMMA EmptyStack == \A ops : Stack(<< >>, ops)
BY DEF Stack

\* What a handler or a transport starts from.
LEMMA SafeStack ==
  ASSUME NEW ops
  PROVE  Stack(<<Base>>, ops) /\ Stack(<<Default>>, ops)
<1>1. PICK b, d : b = Base /\ d = Default
  OBVIOUS
<1>2. b \in Layer /\ d \in Layer /\ b[1] \in Bottom /\ d[1] \in Bottom
  BY <1>1 DEF Layer, Bottom, Base, Default
<1>3. /\ <<b>> \in Seq(Layer) /\ DOMAIN <<b>> = 1..1 /\ <<b>>[1] = b
      /\ <<d>> \in Seq(Layer) /\ DOMAIN <<d>> = 1..1 /\ <<d>>[1] = d
  BY <1>2
<1>4. Stack(<<b>>, ops) /\ Stack(<<d>>, ops)
  BY <1>2, <1>3 DEF Stack
<1> QED BY <1>1, <1>4

-----------------------------------------------------------------------------
(***************************************************************************)
(* The second invariant: what the options made is in order.                *)
(***************************************************************************)
ContextsSoFar ==
  /\ Queue(connContext, applied)
  /\ Range(connContext) = UNION {Range(Functions(o)) : o \in AppliedOfKind("connContext")}

ValueSoFar(field) ==
  \/ AppliedOfKind(field) = {} /\ assigned[field] = << >>
  \/ \E o \in AppliedOfKind(field) :
       /\ assigned[field] = Functions(o)
       /\ \A q \in AppliedOfKind(field) : q = o \/ Earlier(applied, q, o)

OrderSoFar ==
  /\ Distinct(applied)
  /\ Stack(handler, applied)
  /\ ContextsSoFar
  /\ assigned \in [Assignable -> Seq(Layer)]
  /\ \A field \in Assignable : ValueSoFar(field)

\* One option that was not applied before keeps what was made in order.
LEMMA OptionKeepsOrder ==
  ASSUME applied \in Seq(Origin), OrderSoFar, UNCHANGED inputs,
         NEW o \in Origin, o \notin Range(applied), NEW kind, KindOf(o) = kind,
         ApplyOption(o, kind)
  PROVE  /\ OrderSoFar'
         /\ (tlsConfig <=> Secured) => (tlsConfig' <=> Secured')
<1>1. \A q : KindOf(q)' = KindOf(q)
  BY DEF KindOf, inputs
<1>2. CASE kind \in {"invalid", "named"}
  <2>1. UNCHANGED <<applied, handler, connContext, assigned>> /\ (tlsConfig' <=> tlsConfig)
    BY <1>2 DEF ApplyOption, Modify, Assignable
  <2>2. \A k : AppliedOfKind(k)' = AppliedOfKind(k)
    BY <1>1, <2>1 DEF AppliedOfKind
  <2>3. OrderSoFar'
    BY <2>1, <2>2 DEF OrderSoFar, ContextsSoFar, ValueSoFar, Functions, Middleware
  <2>4. Secured' <=> Secured
    BY <1>1, <2>1 DEF Secured, inputs
  <2> QED BY <2>1, <2>3, <2>4
<1>3. CASE kind \notin {"invalid", "named"}
  <2>1. applied' = Append(applied, o)
    BY <1>3 DEF ApplyOption, Modify
  <2>2. /\ Range(applied') = Range(applied) \cup {o}
        /\ \A x : x # o => Earlier(applied', x, o)
        /\ \A x, y : x # o /\ y # o /\ Earlier(applied, x, y) => Earlier(applied', x, y)
        /\ Distinct(applied')
    BY <2>1, OneMore, StillDistinct DEF OrderSoFar
  <2>3. \A k : AppliedOfKind(k)' = AppliedOfKind(k) \cup (IF kind = k THEN {o} ELSE {})
    BY <1>1, <2>2 DEF AppliedOfKind
  <2>4. o \notin UNION {AppliedOfKind(k) : k \in {kind}} /\ \A k : o \notin AppliedOfKind(k)
    BY DEF AppliedOfKind
  <2>5. Stack(handler', applied')
    <3>1. CASE kind = "middleware"
      <4>1. handler' = ApplyMiddleware(Safe(handler), Middleware(o))
        BY <3>1 DEF ApplyOption, Modify
      <4>2. Stack(Safe(handler), applied)
        <5>1. CASE handler # << >>
          BY <5>1 DEF OrderSoFar, Safe
        <5>2. CASE handler = << >>
          BY <5>2, SafeStack DEF Safe
        <5> QED BY <5>1, <5>2
      <4>3. Safe(handler) \in Seq(Layer) /\ Middleware(o) \in Seq(Layer)
        BY <4>2, GroupLayers, Groups DEF Stack
      <4>4. handler' = Middleware(o) \o Safe(handler)
        BY <4>1, <4>3, ApplyMiddlewareIs
      <4> QED BY <2>1, <4>2, <4>4, Groups, StackGrows
    <3>2. CASE kind = "replace"
      <4>1. handler' = <<<<o, 0>>>> \o << >>
        <5>1. handler' = <<<<o, 0>>>>
          BY <3>2 DEF ApplyOption, Modify
        <5>2. <<<<o, 0>>>> \in Seq(Layer)
          BY GroupLayers, Groups
        <5> QED BY <5>1, <5>2, NothingBelow
      <4> QED BY <2>1, <4>1, Groups, StackGrows, EmptyStack
    <3>3. CASE kind = "clear"
      <4>1. handler' = << >>
        BY <3>3 DEF ApplyOption, Modify
      <4> QED BY <4>1, EmptyStack
    <3>4. CASE kind \notin {"middleware", "replace", "clear"}
      <4>1. handler' = << >> \o handler
        <5>1. handler' = handler /\ handler \in Seq(Layer)
          BY <3>4 DEF ApplyOption, Modify, OrderSoFar, Stack
        <5> QED BY <5>1, NothingBelow
      <4> QED BY <2>1, <4>1, Groups, StackGrows DEF OrderSoFar
    <3> QED BY <3>1, <3>2, <3>3, <3>4
  <2>6. ContextsSoFar'
    <3>1. CASE kind = "connContext"
      <4>1. connContext' = connContext \o Functions(o)
        BY <3>1 DEF ApplyOption, Modify, AddConnContext
      <4>2. Queue(connContext, applied) /\ Group(Functions(o), o)
        BY Groups DEF OrderSoFar, ContextsSoFar
      <4>3. Queue(connContext', applied')
        BY <2>1, <4>1, <4>2, QueueGrows
      <4>4. Range(connContext') = Range(connContext) \cup Range(Functions(o))
        BY <4>1, <4>2, GroupLayers, JoinedRange DEF Queue
      <4>5. Range(connContext') = UNION {Range(Functions(q)) : q \in AppliedOfKind("connContext")'}
        BY <2>3, <3>1, <4>4 DEF OrderSoFar, ContextsSoFar
      <4> QED BY <4>3, <4>5 DEF ContextsSoFar, Functions, Middleware
    <3>2. CASE kind # "connContext"
      <4>1. connContext' = connContext \o << >>
        <5>1. connContext' = connContext /\ connContext \in Seq(Layer)
          BY <3>2 DEF ApplyOption, Modify, OrderSoFar, ContextsSoFar, Queue
        <5> QED BY <5>1, NothingBelow
      <4>2. Queue(connContext', applied')
        BY <2>1, <4>1, Groups, QueueGrows DEF OrderSoFar, ContextsSoFar
      <4>3. connContext' = connContext
        BY <3>2 DEF ApplyOption, Modify
      <4>4. AppliedOfKind("connContext")' = AppliedOfKind("connContext")
        BY <2>3, <3>2
      <4> QED BY <4>2, <4>3, <4>4 DEF OrderSoFar, ContextsSoFar, Functions, Middleware
    <3> QED BY <3>1, <3>2
  <2>7. assigned' \in [Assignable -> Seq(Layer)]
    <3>1. Functions(o) \in Seq(Layer)
      BY GroupLayers, Groups
    <3> QED BY <3>1 DEF ApplyOption, Modify, Assign, OrderSoFar
  <2>8. ASSUME NEW field \in Assignable PROVE ValueSoFar(field)'
    <3>1. CASE kind = field
      <4>1. assigned'[field] = Functions(o)
        BY <3>1 DEF ApplyOption, Modify, Assign, OrderSoFar
      <4>2. o \in AppliedOfKind(field)' /\ \A q \in AppliedOfKind(field)' : q = o \/ q # o
        BY <2>3, <3>1
      <4>3. \A q \in AppliedOfKind(field)' : q = o \/ Earlier(applied', q, o)
        BY <2>2
      <4> QED BY <4>1, <4>2, <4>3 DEF ValueSoFar, Functions, Middleware
    <3>2. CASE kind # field
      <4>1. assigned'[field] = assigned[field]
        BY <3>2 DEF ApplyOption, Modify, Assign, OrderSoFar
      <4>2. AppliedOfKind(field)' = AppliedOfKind(field) /\ o \notin AppliedOfKind(field)
        BY <2>3, <2>4, <3>2
      <4>3. ValueSoFar(field)
        BY DEF OrderSoFar
      <4>4. CASE AppliedOfKind(field) = {} /\ assigned[field] = << >>
        BY <4>1, <4>2, <4>4 DEF ValueSoFar
      <4>5. ASSUME NEW q \in AppliedOfKind(field), assigned[field] = Functions(q),
                   \A p \in AppliedOfKind(field) : p = q \/ Earlier(applied, p, q)
            PROVE  ValueSoFar(field)'
        <5>1. \A p \in AppliedOfKind(field)' : p = q \/ Earlier(applied', p, q)
          BY <2>2, <4>2, <4>5
        <5> QED BY <4>1, <4>2, <4>5, <5>1 DEF ValueSoFar, Functions, Middleware
      <4> QED BY <4>3, <4>4, <4>5 DEF ValueSoFar
    <3> QED BY <3>1, <3>2
  <2>9. OrderSoFar'
    BY <2>2, <2>5, <2>6, <2>7, <2>8 DEF OrderSoFar
  <2>10. (tlsConfig <=> Secured) => (tlsConfig' <=> Secured')
    <3>1. tlsConfig' <=> (tlsConfig \/ kind = "tls")
      BY DEF ApplyOption, Modify
    <3>2. Secured' <=> (Secured \/ kind = "tls")
      BY <1>1, <2>2 DEF Secured, inputs
    <3> QED BY <3>1, <3>2
  <2> QED BY <2>9, <2>10
<1> QED BY <1>2, <1>3

-----------------------------------------------------------------------------
(***************************************************************************)
(* What is still to be applied was not applied; the header of the factory  *)
(* stays where it is; and TLS is set up exactly if somebody asked for it.  *)
(***************************************************************************)
Ascending(ns) == \A i, j \in DOMAIN ns : i < j => ns[i] < ns[j]

ClassifiedInOrder == Ascending(options) /\ Ascending(decorators)

Fresh ==
  /\ stage \in {"providing", "constructing"} => applied = << >>
  /\ stage = "injecting" =>
       \A i \in DOMAIN injected : i >= pos => Injected(i) \notin Range(applied)
  /\ stage \in {"injecting", "factory option"} =>
       /\ FactoryOption \notin Range(applied)
       /\ \A i \in Nat : External(i) \notin Range(applied)
  /\ stage = "externals" =>
       \A j \in DOMAIN options : j >= pos => External(options[j]) \notin Range(applied)

HeaderSoFar ==
  (stage \in {"externals", "built", "listening"} /\ factory.header /\ ~ExternalReplaces) =>
    Header \in Range(handler)

TLSSoFar == stage \in Served => (tlsConfig <=> Secured)

OrderIInv ==
  /\ ClassifiedInOrder
  /\ Fresh
  /\ OrderSoFar
  /\ HeaderSoFar
  /\ TLSSoFar
  /\ ListenerOrder

\* A position after all the others keeps a sequence ascending.
LEMMA StillAscending ==
  ASSUME NEW ns \in Seq(Nat), NEW x \in Nat, Ascending(ns),
         \A i \in DOMAIN ns : ns[i] < x
  PROVE  Ascending(Append(ns, x))
<1> DEFINE bs == Append(ns, x)
<1>1. bs \in Seq(Nat) /\ Len(bs) = Len(ns) + 1 /\ Len(ns) \in Nat
      /\ DOMAIN bs = 1..(Len(ns) + 1) /\ DOMAIN ns = 1..Len(ns)
      /\ bs[Len(ns) + 1] = x /\ \A a \in 1..Len(ns) : bs[a] = ns[a]
  OBVIOUS
<1> HIDE DEF bs
<1>2. \A i, j \in 1..(Len(ns) + 1) : i < j => i \in 1..Len(ns) /\ (j \in 1..Len(ns) \/ j = Len(ns) + 1)
  <2>1. PICK n \in Nat : n = Len(ns)
    BY <1>1
  <2>2. \A i, j \in 1..(n + 1) : i < j => i \in 1..n /\ (j \in 1..n \/ j = n + 1)
    OBVIOUS
  <2> QED BY ONLY <2>1, <2>2, SMTT(30)
<1>3. ASSUME NEW i \in DOMAIN bs, NEW j \in DOMAIN bs, i < j PROVE bs[i] < bs[j]
  <2>1. i \in DOMAIN ns /\ bs[i] = ns[i] /\ (j \in DOMAIN ns \/ j = Len(ns) + 1)
    BY ONLY <1>1, <1>2, <1>3
  <2>2. CASE j \in DOMAIN ns
    <3>1. bs[j] = ns[j]
      BY <1>1, <2>2
    <3> QED BY <1>3, <2>1, <2>2, <3>1 DEF Ascending
  <2>3. CASE j = Len(ns) + 1
    BY <1>1, <2>1, <2>3
  <2> QED BY <2>1, <2>2, <2>3
<1> QED BY <1>3 DEF bs, Ascending

\* A step that leaves the target alone.
LEMMA TargetUntouched ==
  ASSUME OrderIInv, UNCHANGED <<inputs, handler, connContext, assigned, applied>>
  PROVE  OrderSoFar' /\ (Secured' <=> Secured) /\ (ExternalReplaces' <=> ExternalReplaces)
<1>1. \A q : KindOf(q)' = KindOf(q)
  BY DEF KindOf, inputs
<1>2. \A k : AppliedOfKind(k)' = AppliedOfKind(k)
  BY <1>1 DEF AppliedOfKind
<1>3. OrderSoFar'
  BY <1>2 DEF OrderIInv, OrderSoFar, ContextsSoFar, ValueSoFar, Functions, Middleware
<1> QED BY <1>1, <1>3 DEF Secured, ExternalReplaces, inputs

\* newServerProvider takes the elements in the order of the external slice.
LEMMA ClassifyInOrder == ASSUME IInv, OrderIInv, Classify PROVE OrderIInv'
<1>1. /\ UNCHANGED <<inputs, handler, connContext, assigned, applied, listener>>
      /\ stage = "providing" /\ stage' = "providing" /\ pos' = pos + 1 /\ target = "server"
      /\ pos \in Nat
  BY Inputs DEF IInv, Classify, Advance, made, accepted, fields
<1>2. OrderSoFar'
  BY <1>1, TargetUntouched
<1>3. Sorted = pos - 1 /\ Sorted' = pos
  BY <1>1 DEF Sorted, inputs
<1>4. /\ options \in Seq(Nat) /\ decorators \in Seq(Nat)
      /\ \A i \in DOMAIN options : options[i] < pos
      /\ \A i \in DOMAIN decorators : decorators[i] < pos /\ decorators[i] \in Nat
  <2>1. options \in Seq(Nat) /\ decorators \in Seq(Nat)
    BY DEF IInv, Shape
  <2>2. \A i \in DOMAIN options : options[i] \in 1..(pos - 1)
    BY <1>3 DEF IInv, SortedSoFar, Range
  <2>3. \A i \in DOMAIN decorators : decorators[i] \in 1..(pos - 1)
    BY <1>3 DEF IInv, SortedSoFar, Range
  <2> QED BY <1>1, <2>1, <2>2, <2>3
<1>5. Ascending(options)'
  <2>1. CASE IsOption(external[pos])
    <3>1. options' = Append(options, pos)
      BY <2>1 DEF Classify
    <3>2. pos \in Nat /\ options \in Seq(Nat) /\ Ascending(options)
          /\ \A i \in DOMAIN options : options[i] < pos
      BY <1>1, <1>4 DEF OrderIInv, ClassifiedInOrder
    <3> QED BY ONLY <3>1, <3>2, StillAscending
  <2>2. CASE ~IsOption(external[pos])
    BY <2>2 DEF Classify, OrderIInv, ClassifiedInOrder
  <2> QED BY <2>1, <2>2
<1>6. Ascending(decorators)'
  <2>1. CASE IsListenerFunc(external[pos])
    <3>1. decorators' = Append(decorators, pos)
      BY <2>1 DEF Classify
    <3>2. pos \in Nat /\ decorators \in Seq(Nat) /\ Ascending(decorators)
          /\ \A i \in DOMAIN decorators : decorators[i] < pos
      BY <1>1, <1>4 DEF OrderIInv, ClassifiedInOrder
    <3> QED BY ONLY <3>1, <3>2, StillAscending
  <2>2. CASE ~IsListenerFunc(external[pos])
    BY <2>2 DEF Classify, OrderIInv, ClassifiedInOrder
  <2> QED BY <2>1, <2>2
<1>7. ClassifiedInOrder'
  BY <1>5, <1>6 DEF ClassifiedInOrder
<1>8. Fresh' /\ HeaderSoFar' /\ TLSSoFar' /\ ListenerOrder'
  BY <1>1 DEF OrderIInv, Fresh, HeaderSoFar, TLSSoFar, Served, ListenerOrder
<1> QED BY <1>2, <1>7, <1>8 DEF OrderIInv

\* Once newServerProvider is done, what it sorted stays in order.
LEMMA StaysClassified ==
  ASSUME OrderIInv, UNCHANGED <<options, decorators>>
  PROVE  ClassifiedInOrder'
BY DEF OrderIInv, ClassifiedInOrder, Ascending

\* The factory makes a target that no option was applied to.
LEMMA FactoryInOrder ==
  ASSUME IInv, OrderIInv, Provided \/ FactoryPanics \/ FactoryFails \/ Construct
  PROVE  OrderIInv'
<1>1. /\ UNCHANGED <<inputs, options, decorators, connContext, assigned, applied, listener>>
      /\ stage \in {"providing", "constructing"} /\ stage' \notin {"providing", "listening"}
      /\ stage' \in {"omitted", "rejected", "constructing", "panicked", "failed", "injecting"}
  BY DEF Provided, FactoryPanics, FactoryFails, Construct, Goto, made, accepted, fields
<1>2. applied = << >> /\ Range(applied) = {}
  <2>1. applied = << >>
    BY <1>1 DEF OrderIInv, Fresh
  <2>2. DOMAIN applied = {}
    BY <2>1
  <2> QED BY <2>1, <2>2 DEF Range
<1>3. OrderSoFar'
  <2>1. CASE handler' = handler
    BY <1>1, <2>1, TargetUntouched
  <2>2. CASE handler' = <<Base>>
    <3>1. Stack(handler', applied')
      BY <2>2, SafeStack
    <3>2. \A k : AppliedOfKind(k)' = {} /\ AppliedOfKind(k) = {}
      BY <1>1, <1>2 DEF AppliedOfKind
    <3> QED BY <1>1, <3>1, <3>2 DEF OrderIInv, OrderSoFar, ContextsSoFar, ValueSoFar, Functions,
      Middleware
  <2> QED BY <2>1, <2>2 DEF Provided, FactoryPanics, FactoryFails, Construct, made
<1>4. TLSSoFar'
  <2>1. CASE Construct
    <3>1. tlsConfig' = factory.tls /\ (Secured' <=> factory.tls)
      BY <1>1, <1>2, <2>1 DEF Construct, Secured, inputs
    <3> QED BY <3>1 DEF TLSSoFar
  <2>2. CASE ~Construct
    BY <2>2 DEF Provided, FactoryPanics, FactoryFails, Goto, TLSSoFar, Served
  <2> QED BY <2>1, <2>2
<1>5. Fresh' /\ HeaderSoFar' /\ ListenerOrder'
  BY <1>1, <1>2 DEF Fresh, HeaderSoFar, ListenerOrder
<1>6. ClassifiedInOrder'
  BY <1>1, StaysClassified
<1> QED BY <1>3, <1>4, <1>5, <1>6 DEF OrderIInv

\* At the start there is nothing yet.
LEMMA OrderInit == Init => OrderIInv
<1> SUFFICES ASSUME Init PROVE OrderIInv
  OBVIOUS
<1>1. /\ stage = "providing" /\ options = << >> /\ decorators = << >> /\ applied = << >>
      /\ handler = << >> /\ connContext = << >>
      /\ assigned = [field \in Assignable |-> << >>]
  BY DEF Init
<1>2. Range(applied) = {} /\ \A k : AppliedOfKind(k) = {}
  BY <1>1 DEF Range, AppliedOfKind
<1>3. ClassifiedInOrder
  BY <1>1 DEF ClassifiedInOrder, Ascending
<1>4. ContextsSoFar
  <2>1. Range(connContext) = {}
    BY <1>1 DEF Range
  <2>2. Queue(connContext, applied)
    BY <1>1 DEF Queue
  <2> QED BY <1>2, <2>1, <2>2 DEF ContextsSoFar
<1>5. OrderSoFar
  <2>1. Distinct(applied) /\ Stack(handler, applied)
    BY <1>1, EmptyStack DEF Distinct
  <2>2. \A field \in Assignable : ValueSoFar(field)
    BY <1>1, <1>2 DEF ValueSoFar
  <2> QED BY <1>1, <1>4, <2>1, <2>2 DEF OrderSoFar
<1> QED BY <1>1, <1>3, <1>5 DEF OrderIInv, Fresh, HeaderSoFar, TLSSoFar, Served, ListenerOrder

\* One option is applied at most.
LEMMA OneApplied ==
  ASSUME applied \in Seq(Origin), NEW o \in Origin, NEW kind, ApplyOption(o, kind)
  PROVE  /\ Range(applied) \subseteq Range(applied')
         /\ Range(applied') \subseteq Range(applied) \cup {o}
         /\ kind \notin {"invalid", "named"} => o \in Range(applied')
<1>1. applied' = IF kind \in {"invalid", "named"} THEN applied ELSE Append(applied, o)
  BY DEF ApplyOption, Modify
<1> QED BY <1>1, AppendRange

\* The injected options come one after the other, each of them once.
LEMMA ApplyInjectedInOrder == ASSUME IInv, OrderIInv, ApplyInjected PROVE OrderIInv'
<1>1. /\ stage = "injecting" /\ UNCHANGED <<inputs, options, decorators>>
      /\ pos \in 1..Len(injected) /\ DOMAIN injected = 1..Len(injected)
      /\ Len(injected) \in Nat /\ pos \in Nat
  BY Inputs DEF IInv, ApplyInjected
<1> DEFINE o == Injected(pos)
           kind == injected[pos]
<1>2. o \in Origin /\ ApplyOption(o, kind) /\ applied \in Seq(Origin) /\ tlsConfig \in BOOLEAN
  BY <1>1, Origins DEF ApplyInjected, IInv, Shape, TypeOK
<1>3. KindOf(o) = kind /\ o \notin Range(applied)
  BY <1>1 DEF KindOf, Injected, OrderIInv, Fresh
<1>4. \A i : i # pos => Injected(i) # o
  BY DEF Injected
<1>5. o # FactoryOption /\ \A i : External(i) # o
  BY DEF Injected, FactoryOption, External
<1> HIDE DEF kind, o
<1>6. OrderSoFar' /\ ((tlsConfig <=> Secured) => (tlsConfig' <=> Secured'))
  BY <1>1, <1>2, <1>3, OptionKeepsOrder DEF OrderIInv
<1>7. /\ Range(applied') \subseteq Range(applied) \cup {o}
      /\ stage' = "panicked" \/ (stage' = "injecting" /\ pos' = pos + 1)
  BY <1>1, <1>2, ApplyOptionDoes, OneApplied
<1>8. Fresh'
  <2>1. CASE stage' = "panicked"
    BY <2>1 DEF Fresh
  <2>2. CASE stage' = "injecting" /\ pos' = pos + 1
    <3>1. ASSUME NEW i \in 1..Len(injected), i >= pos + 1 PROVE Injected(i) \notin Range(applied')
      <4>1. i >= pos /\ i # pos
        BY <1>1, <3>1
      <4>2. Injected(i) \notin Range(applied)
        BY <1>1, <4>1 DEF OrderIInv, Fresh
      <4> QED BY <1>4, <1>7, <4>1, <4>2
    <3>2. /\ FactoryOption \notin Range(applied')
          /\ \A i \in Nat : External(i) \notin Range(applied')
      BY <1>1, <1>5, <1>7 DEF OrderIInv, Fresh
    <3>3. injected' = injected
      BY <1>1 DEF inputs
    <3> QED BY <1>1, <2>2, <3>1, <3>2, <3>3 DEF Fresh, Injected, External
  <2> QED BY <1>7, <2>1, <2>2
<1>9. TLSSoFar'
  BY <1>1, <1>6, <1>7 DEF OrderIInv, TLSSoFar, Served
<1>10. ClassifiedInOrder'
  BY <1>1, <1>7, StaysClassified
<1> QED BY <1>6, <1>7, <1>8, <1>9, <1>10 DEF OrderIInv, HeaderSoFar, ListenerOrder

\* The ends of the two loops.
LEMMA LoopDoneInOrder ==
  ASSUME IInv, OrderIInv, InjectedDone \/ ExternalDone
  PROVE  OrderIInv'
<1>1. /\ UNCHANGED <<inputs, options, decorators, handler, connContext, assigned, applied>>
      /\ tlsConfig' = tlsConfig
      /\ \/ stage = "injecting" /\ stage' \in {"factory option", "failed"}
         \/ stage = "externals" /\ stage' \in {"built", "failed"}
  BY DEF InjectedDone, ExternalDone, Goto, made, fields
<1>2. OrderSoFar' /\ (Secured' <=> Secured) /\ (ExternalReplaces' <=> ExternalReplaces)
  BY <1>1, TargetUntouched
<1>3. ClassifiedInOrder'
  BY <1>1, StaysClassified
<1>4. Fresh'
  BY <1>1 DEF OrderIInv, Fresh, External, FactoryOption
<1>5. HeaderSoFar'
  BY <1>1, <1>2 DEF OrderIInv, HeaderSoFar, Header, FactoryOption, inputs
<1>6. TLSSoFar'
  BY <1>1, <1>2 DEF OrderIInv, TLSSoFar, Served
<1> QED BY <1>1, <1>2, <1>3, <1>4, <1>5, <1>6 DEF OrderIInv, ListenerOrder

\* A factory that fails as an option ends the assembly.
LEMMA FactoryOptionFailsInOrder ==
  ASSUME IInv, OrderIInv, ApplyFactory, factory.fails
  PROVE  OrderIInv'
<1>1. /\ stage' = "failed" /\ UNCHANGED <<inputs, options, decorators, applied>>
      /\ UNCHANGED <<connContext, assigned>>
  BY DEF ApplyFactory, Goto, fields
<1>2. handler' = handler
  <2>1. ~factory.header
    BY DEF IInv, TypeOK, Factory
  <2> QED BY <2>1 DEF ApplyFactory
<1>3. OrderSoFar'
  BY <1>1, <1>2, TargetUntouched
<1>4. ClassifiedInOrder'
  BY <1>1, StaysClassified
<1> QED BY <1>1, <1>3, <1>4
        DEF OrderIInv, Fresh, HeaderSoFar, TLSSoFar, Served, ListenerOrder

\* The factory's own layer comes on top of what the injected options made.
LEMMA ApplyFactoryInOrder ==
  ASSUME IInv, OrderIInv, ApplyFactory, ~factory.fails
  PROVE  OrderIInv'
<1>1. /\ stage = "factory option" /\ UNCHANGED <<inputs, options, decorators, fields>>
      /\ UNCHANGED <<connContext, assigned, tlsConfig>>
      /\ stage' \in {"externals", "built"}
      /\ handler' = IF factory.header THEN AddHeader(handler) ELSE handler
      /\ applied' = IF factory.option THEN Append(applied, FactoryOption) ELSE applied
  BY DEF ApplyFactory, Goto, fields
<1>2. applied \in Seq(Origin) /\ FactoryOption \in Origin /\ FactoryOption \notin Range(applied)
      /\ (factory.header => factory.option)
  BY <1>1, Origins DEF IInv, Shape, TypeOK, Factory, OrderIInv, Fresh
<1>3. /\ KindOf(FactoryOption) = "factory"
      /\ \A q : KindOf(q)' = KindOf(q)
      /\ \A i : External(i) # FactoryOption
  BY <1>1 DEF KindOf, FactoryOption, External, inputs
<1>4. /\ Range(applied') = Range(applied) \cup (IF factory.option THEN {FactoryOption} ELSE {})
      /\ Distinct(applied')
      /\ \A x, y : x # FactoryOption /\ y # FactoryOption /\ Earlier(applied, x, y)
                     => Earlier(applied', x, y)
  <2>1. CASE factory.option
    <3>1. applied' = Append(applied, FactoryOption)
      BY <1>1, <2>1
    <3>2. Distinct(applied)
      BY DEF OrderIInv, OrderSoFar
    <3>3. Range(applied') = Range(applied) \cup {FactoryOption}
      BY <1>2, <3>1, OneMore
    <3>4. Distinct(applied')
      BY <1>2, <3>1, <3>2, StillDistinct
    <3>5. \A x, y : x # FactoryOption /\ y # FactoryOption /\ Earlier(applied, x, y)
                     => Earlier(applied', x, y)
      BY <1>2, <3>1, OneMore
    <3> QED BY <2>1, <3>3, <3>4, <3>5
  <2>2. CASE ~factory.option
    BY <1>1, <2>2 DEF OrderIInv, OrderSoFar
  <2> QED BY <2>1, <2>2
<1>5. ASSUME NEW k, k # "factory" PROVE AppliedOfKind(k)' = AppliedOfKind(k)
  BY <1>3, <1>4, <1>5 DEF AppliedOfKind
<1>6. Stack(handler', applied') /\ (factory.header => Header \in Range(handler'))
  <2>1. CASE factory.header
    <3>1. Stack(Safe(handler), applied)
      <4>1. CASE handler # << >>
        BY <4>1 DEF OrderIInv, OrderSoFar, Safe
      <4>2. CASE handler = << >>
        BY <4>2, SafeStack DEF Safe
      <4> QED BY <4>1, <4>2
    <3>2. Group(<<Header>>, FactoryOption) /\ Range(<<Header>>) = {Header}
      <4>1. Group(<<Header>>, FactoryOption)
        BY Groups DEF Header
      <4>2. PICK h : h = Header
        OBVIOUS
      <4>3. Range(<<h>>) = {h}
        BY DEF Range
      <4> QED BY <4>1, <4>2, <4>3
    <3>3. handler' = <<Header>> \o Safe(handler) /\ applied' = Append(applied, FactoryOption)
      BY <1>1, <1>2, <2>1 DEF AddHeader
    <3>4. Stack(handler', applied')
      BY <1>2, <3>1, <3>2, <3>3, StackGrows
    <3>5. Range(handler') = Range(<<Header>>) \cup Range(Safe(handler))
      BY <1>2, <3>1, <3>2, <3>3, GroupLayers, JoinedRange DEF Stack
    <3> QED BY <3>2, <3>4, <3>5
  <2>2. CASE ~factory.header /\ factory.option
    <3>1. handler' = << >> \o handler /\ applied' = Append(applied, FactoryOption)
      <4>1. handler' = handler /\ handler \in Seq(Layer)
        BY <1>1, <2>2 DEF OrderIInv, OrderSoFar, Stack
      <4> QED BY <1>1, <2>2, <4>1, NothingBelow
    <3> QED BY <1>2, <2>2, <3>1, Groups, StackGrows DEF OrderIInv, OrderSoFar
  <2>3. CASE ~factory.header /\ ~factory.option
    BY <1>1, <2>3 DEF OrderIInv, OrderSoFar
  <2> QED BY <2>1, <2>2, <2>3
<1>7. ContextsSoFar'
  <2>1. Queue(connContext', applied')
    <3>1. CASE factory.option
      <4>1. connContext' = connContext \o << >> /\ applied' = Append(applied, FactoryOption)
        <5>1. connContext' = connContext /\ connContext \in Seq(Layer)
          BY <1>1 DEF OrderIInv, OrderSoFar, ContextsSoFar, Queue
        <5> QED BY <1>1, <3>1, <5>1, NothingBelow
      <4> QED BY <1>2, <4>1, Groups, QueueGrows DEF OrderIInv, OrderSoFar, ContextsSoFar
    <3>2. CASE ~factory.option
      BY <1>1, <3>2 DEF OrderIInv, OrderSoFar, ContextsSoFar
    <3> QED BY <3>1, <3>2
  <2> QED BY <1>1, <1>5, <2>1 DEF OrderIInv, OrderSoFar, ContextsSoFar, Functions, Middleware
<1>8. ASSUME NEW field \in Assignable PROVE ValueSoFar(field)'
  <2>1. AppliedOfKind(field)' = AppliedOfKind(field)
    BY <1>5 DEF Assignable
  <2>2. \A q \in AppliedOfKind(field) : q # FactoryOption
    BY <1>3 DEF AppliedOfKind, Assignable
  <2>3. ValueSoFar(field) /\ assigned' = assigned
    BY <1>1 DEF OrderIInv, OrderSoFar
  <2> QED BY <1>4, <2>1, <2>2, <2>3 DEF ValueSoFar, Functions, Middleware
<1>9. OrderSoFar'
  BY <1>1, <1>4, <1>6, <1>7, <1>8 DEF OrderSoFar, OrderIInv
<1>10. Fresh'
  <2>1. \A i \in Nat : External(i) \notin Range(applied')
    BY <1>1, <1>3, <1>4 DEF OrderIInv, Fresh
  <2>2. \A j \in DOMAIN options : options[j] \in Nat
    BY DEF IInv, Shape
  <2> QED BY <1>1, <2>1, <2>2 DEF Fresh, External
<1>11. HeaderSoFar'
  <2>1. factory' = factory /\ Header' = Header
    BY <1>1 DEF inputs, Header, FactoryOption
  <2> QED BY <1>6, <2>1 DEF HeaderSoFar
<1>12. TLSSoFar'
  <2>1. Secured' <=> Secured
    BY <1>1, <1>3, <1>4 DEF Secured, inputs
  <2> QED BY <1>1, <2>1 DEF OrderIInv, TLSSoFar, Served
<1>13. ClassifiedInOrder'
  BY <1>1, StaysClassified
<1> QED BY <1>1, <1>9, <1>10, <1>11, <1>12, <1>13 DEF OrderIInv, ListenerOrder

\* The external options come one after the other; no position is in the slice
\* of options twice.
LEMMA ApplyExternalInOrder == ASSUME IInv, OrderIInv, ApplyExternal PROVE OrderIInv'
<1>1. /\ stage = "externals" /\ UNCHANGED <<inputs, options, decorators>>
      /\ pos \in 1..Len(options) /\ DOMAIN options = 1..Len(options)
      /\ Len(options) \in Nat /\ pos \in Nat
      /\ \A j \in 1..Len(options) : options[j] \in Nat
  BY Inputs DEF IInv, ApplyExternal
<1> DEFINE o == External(options[pos])
           kind == external[options[pos]]
<1>2. o \in Origin /\ ApplyOption(o, kind) /\ applied \in Seq(Origin) /\ tlsConfig \in BOOLEAN
  BY <1>1, Origins DEF ApplyExternal, IInv, Shape, TypeOK
<1>3. KindOf(o) = kind /\ o \notin Range(applied)
  BY <1>1 DEF KindOf, External, OrderIInv, Fresh
<1>4. o[1] = "external" /\ \A n : n # options[pos] => External(n) # o
  BY DEF External
<1> HIDE DEF kind, o
<1>5. OrderSoFar' /\ ((tlsConfig <=> Secured) => (tlsConfig' <=> Secured'))
  BY <1>1, <1>2, <1>3, OptionKeepsOrder DEF OrderIInv
<1>6. /\ Range(applied) \subseteq Range(applied')
      /\ Range(applied') \subseteq Range(applied) \cup {o}
      /\ kind \notin {"invalid", "named"} => o \in Range(applied')
      /\ stage' = "panicked" \/ (stage' = "externals" /\ pos' = pos + 1)
  BY <1>1, <1>2, ApplyOptionDoes, OneApplied
<1>7. Fresh'
  <2>1. CASE stage' = "panicked"
    BY <2>1 DEF Fresh
  <2>2. CASE stage' = "externals" /\ pos' = pos + 1
    <3>1. ASSUME NEW j \in 1..Len(options), j >= pos + 1
          PROVE  External(options[j]) \notin Range(applied')
      <4>1. j >= pos /\ pos < j
        BY <1>1, <3>1
      <4>2. options[pos] < options[j]
        BY <1>1, <4>1 DEF OrderIInv, ClassifiedInOrder, Ascending
      <4>3. options[j] # options[pos]
        BY <1>1, <4>2
      <4>4. External(options[j]) \notin Range(applied)
        BY <1>1, <4>1 DEF OrderIInv, Fresh
      <4> QED BY <1>4, <1>6, <4>3, <4>4
    <3> QED BY <1>1, <2>2, <3>1 DEF Fresh, External
  <2> QED BY <1>6, <2>1, <2>2
<1>8. HeaderSoFar'
  <2> SUFFICES ASSUME stage' = "externals", factory.header, ~ExternalReplaces'
               PROVE  Header \in Range(handler')
    BY <1>1, <1>6 DEF HeaderSoFar, inputs, Header, FactoryOption
  <2>1. \A q : KindOf(q)' = KindOf(q)
    BY <1>1 DEF KindOf, inputs
  <2>2. ~ExternalReplaces
    BY <1>6, <2>1 DEF ExternalReplaces
  <2>3. Header \in Range(handler)
    BY <1>1, <2>2 DEF OrderIInv, HeaderSoFar
  <2>4. kind \notin {"replace", "clear"}
    BY <1>3, <1>4, <1>6, <2>1 DEF ExternalReplaces
  <2>5. CASE kind = "middleware"
    <3>1. handler # << >> /\ handler \in Seq(Layer)
      BY <2>3 DEF Range, OrderIInv, OrderSoFar, Stack
    <3>2. handler' = ApplyMiddleware(handler, Middleware(o))
      BY <1>2, <2>5, <3>1 DEF ApplyOption, Modify, Safe
    <3>3. Middleware(o) \in Seq(Layer)
      BY <1>2, Groups, GroupLayers
    <3>4. handler' = Middleware(o) \o handler
      BY <3>1, <3>2, <3>3, ApplyMiddlewareIs
    <3> QED BY <2>3, <3>1, <3>3, <3>4, JoinedRange
  <2>6. CASE kind # "middleware"
    <3>1. handler' = handler
      BY <1>2, <2>4, <2>6 DEF ApplyOption, Modify
    <3> QED BY <2>3, <3>1
  <2> QED BY <2>5, <2>6
<1>9. TLSSoFar'
  BY <1>1, <1>5, <1>6 DEF OrderIInv, TLSSoFar, Served
<1>10. ClassifiedInOrder'
  BY <1>1, <1>6, StaysClassified
<1> QED BY <1>5, <1>6, <1>7, <1>8, <1>9, <1>10 DEF OrderIInv, ListenerOrder

\* Where the elements of three sequences are once they are joined.
LEMMA ThreeJoined ==
  ASSUME NEW S, NEW d \in Seq(S), NEW m \in Seq(S), NEW b \in Seq(S)
  PROVE  LET l == d \o (m \o b) IN
         /\ Len(l) = Len(d) + Len(m) + Len(b)
         /\ \A i \in 1..Len(d) : l[i] = d[i]
         /\ \A i \in (Len(d) + 1)..(Len(d) + Len(m)) : l[i] = m[i - Len(d)]
         /\ SubSeq(l, Len(d) + Len(m) + 1, Len(l)) = b
<1> DEFINE t == m \o b
           l == d \o t
<1>1. /\ t \in Seq(S) /\ Len(t) = Len(m) + Len(b)
      /\ \A i \in 1..(Len(m) + Len(b)) : t[i] = IF i <= Len(m) THEN m[i] ELSE b[i - Len(m)]
      /\ Len(d) \in Nat /\ Len(m) \in Nat /\ Len(b) \in Nat
  BY Joining
<1> HIDE DEF t
<1>2. /\ l \in Seq(S) /\ Len(l) = Len(d) + Len(t)
      /\ \A i \in 1..(Len(d) + Len(t)) : l[i] = IF i <= Len(d) THEN d[i] ELSE t[i - Len(d)]
  BY <1>1, Joining
<1> HIDE DEF l
<1>3. PICK x, y, z \in Nat : x = Len(d) /\ y = Len(m) /\ z = Len(b)
  BY <1>1
<1>4. Len(l) = x + y + z /\ Len(t) = y + z
  BY <1>1, <1>2, <1>3
<1>5. \A i \in 1..x : l[i] = d[i]
  BY <1>2, <1>3, <1>4
<1>6. ASSUME NEW i \in (x + 1)..(x + y) PROVE l[i] = m[i - x]
  <2>1. i \in 1..(x + (y + z)) /\ ~(i <= x) /\ i - x \in 1..(y + z) /\ i - x <= y
    BY <1>3
  <2>2. l[i] = t[i - x]
    BY <1>2, <1>3, <1>4, <2>1
  <2> QED BY <1>1, <1>3, <2>1, <2>2
<1>7. ASSUME NEW i \in 1..z PROVE l[x + y + i] = b[i]
  <2>1. x + y + i \in 1..(x + (y + z)) /\ ~(x + y + i <= x) /\ (x + y + i) - x = y + i
        /\ y + i \in 1..(y + z) /\ ~(y + i <= y) /\ (y + i) - y = i
    BY <1>3
  <2>2. l[x + y + i] = t[y + i]
    BY <1>2, <1>3, <1>4, <2>1
  <2> QED BY <1>1, <1>3, <2>1, <2>2
<1>8. SubSeq(l, x + y + 1, x + y + z) = b
  <2> DEFINE c == SubSeq(l, x + y + 1, x + y + z)
  <2>1. /\ c \in Seq(S) /\ Len(c) = z
        /\ \A i \in 1..z : c[i] = l[x + y + i]
    BY <1>2, <1>4
  <2> HIDE DEF c
  <2>2. c = b
    BY <1>3, <1>7, <2>1, SameSequence
  <2> QED BY <2>2 DEF c
<1> QED BY <1>3, <1>4, <1>5, <1>6, <1>8 DEF l, t

\* What newListener makes of the factory's listener.
LEMMA ListenInOrder == ASSUME IInv, OrderIInv, Listen PROVE OrderIInv'
<1>1. /\ stage = "built" /\ stage' = "listening" /\ target = "server"
      /\ UNCHANGED <<inputs, options, decorators, handler, connContext, assigned, tlsConfig,
                     applied>>
  BY DEF Listen, Goto, fields
<1>2. OrderSoFar' /\ (Secured' <=> Secured) /\ (ExternalReplaces' <=> ExternalReplaces)
  BY <1>1, TargetUntouched
<1>3. (tlsConfig <=> Secured) /\ tlsConfig \in BOOLEAN
  BY <1>1 DEF OrderIInv, TLSSoFar, Served, IInv, TypeOK
<1>4. ListenerOrder'
  <2> DEFINE S == {"injected", "external", "socket", "tls"} \X Nat
             d == ExternalDecorators
             b == FactoryListener
  <2>1. PICK n \in 0..MaxMiddleware :
          /\ n = middleware'
          /\ listener' = ApplyMiddleware(ApplyMiddleware(b, [i \in 1..n |-> Injected(i)]), d)
    BY DEF Listen
  <2> DEFINE m == [i \in 1..n |-> Injected(i)]
  <2>2. m \in Seq(S) /\ Len(m) = n /\ n \in Nat /\ \A i \in 1..n : m[i] = Injected(i)
    <3>1. n \in Nat
      BY AssemblyAssumption
    <3>2. \A i \in 1..n : Injected(i) \in S
      BY DEF Injected
    <3> HIDE DEF S
    <3>3. m \in [1..n -> S] /\ \A i \in 1..n : m[i] = Injected(i)
      BY <3>2
    <3> HIDE DEF m
    <3>4. m \in Seq(S) /\ Len(m) = n
      BY ONLY <3>1, <3>3, Listed
    <3> QED BY <3>1, <3>3, <3>4
  <2>3. d \in Seq(S) /\ Len(d) = Len(decorators) /\ Len(d) \in Nat
        /\ \A i \in 1..Len(d) : d[i] = External(decorators[i]) /\ decorators[i] \in Nat
    <3>1. decorators \in Seq(Nat)
      BY DEF IInv, Shape
    <3>2. \A i \in 1..Len(decorators) : External(decorators[i]) \in S /\ decorators[i] \in Nat
      BY <3>1 DEF External
    <3>3. PICK k \in Nat : k = Len(decorators) /\ DOMAIN decorators = 1..k
      BY <3>1
    <3> HIDE DEF S
    <3>4. d \in [1..k -> S] /\ \A i \in 1..k : d[i] = External(decorators[i])
      BY <3>2, <3>3 DEF ExternalDecorators
    <3> HIDE DEF d
    <3>5. d \in Seq(S) /\ Len(d) = k
      BY ONLY <3>3, <3>4, Listed
    <3> QED BY <3>2, <3>3, <3>4, <3>5
  <2>4. b \in Seq(S) /\ b = IF Secured THEN <<TLS, Socket>> ELSE <<Socket>>
    <3>1. TLS \in S /\ Socket \in S
      BY DEF TLS, Socket
    <3>2. PICK t, s \in S : t = TLS /\ s = Socket
      BY <3>1
    <3> HIDE DEF S
    <3>3. <<t, s>> \in Seq(S) /\ <<s>> \in Seq(S)
      OBVIOUS
    <3> QED BY <1>3, <3>2, <3>3 DEF FactoryListener
  <2> HIDE DEF S, b, d, m
  <2>5. ApplyMiddleware(b, m) = m \o b /\ m \o b \in Seq(S)
    <3>1. b \in Seq(S) /\ m \in Seq(S)
      BY <2>2, <2>4
    <3>2. ApplyMiddleware(b, m) = m \o b
      BY ONLY <3>1, ApplyMiddlewareIs
    <3>3. m \o b \in Seq(S)
      BY ONLY <3>1, Joining
    <3> QED BY <3>2, <3>3
  <2>6. listener' = d \o (m \o b)
    <3>1. d \in Seq(S) /\ m \o b \in Seq(S)
      BY <2>3, <2>5
    <3>2. ApplyMiddleware(m \o b, d) = d \o (m \o b)
      BY ONLY <3>1, ApplyMiddlewareIs
    <3> QED BY <2>1, <2>5, <3>2 DEF m
  <2>7. /\ Len(listener') = Len(d) + n + Len(b)
        /\ \A i \in 1..Len(d) : listener'[i] = d[i]
        /\ \A i \in (Len(d) + 1)..(Len(d) + n) : listener'[i] = m[i - Len(d)]
        /\ SubSeq(listener', Len(d) + n + 1, Len(listener')) = b
    <3>1. d \in Seq(S) /\ m \in Seq(S) /\ b \in Seq(S)
      BY <2>2, <2>3, <2>4
    <3> DEFINE l == d \o (m \o b)
    <3>2. /\ Len(l) = Len(d) + Len(m) + Len(b)
          /\ \A i \in 1..Len(d) : l[i] = d[i]
          /\ \A i \in (Len(d) + 1)..(Len(d) + Len(m)) : l[i] = m[i - Len(d)]
          /\ SubSeq(l, Len(d) + Len(m) + 1, Len(l)) = b
      BY ONLY <3>1, ThreeJoined
    <3>3. l = listener' /\ Len(m) = n
      BY <2>2, <2>6
    <3> HIDE DEF l
    <3> QED BY ONLY <3>2, <3>3
  <2>8. PICK k, z \in Nat : k = Len(d) /\ z = Len(b)
    BY <2>3, <2>4
  <2>9. Len(listener') - Len(b) = k + n
    BY <2>2, <2>7, <2>8
  <2>10. /\ k + n \in Nat
         /\ SubSeq(listener', k + n + 1, Len(listener')) = b
    BY <2>2, <2>7, <2>8
  <2>11. ASSUME NEW i \in 1..(k + n), NEW j \in 1..(k + n), i < j
         PROVE  \/ listener'[i][1] = "external" /\ listener'[j][1] = "injected"
                \/ listener'[i][1] = listener'[j][1] /\ listener'[i][2] < listener'[j][2]
    <3>1. \/ i \in 1..k /\ j \in 1..k
          \/ i \in 1..k /\ j \in (k + 1)..(k + n) /\ j - k \in 1..n
          \/ i \in (k + 1)..(k + n) /\ j \in (k + 1)..(k + n)
             /\ i - k \in 1..n /\ j - k \in 1..n /\ i - k < j - k
      BY ONLY <2>2, <2>8, <2>11
    <3>2. CASE i \in 1..k /\ j \in 1..k
      <4>1. listener'[i] = External(decorators[i]) /\ listener'[j] = External(decorators[j])
        BY <2>3, <2>7, <2>8, <3>2
      <4>2. decorators[i] < decorators[j]
        <5>1. i \in DOMAIN decorators /\ j \in DOMAIN decorators
          <6>1. decorators \in Seq(Nat) /\ Len(decorators) = k
            BY <2>3, <2>8 DEF IInv, Shape
          <6> QED BY <3>2, <6>1
        <5>2. Ascending(decorators)
          BY DEF OrderIInv, ClassifiedInOrder
        <5> QED BY <2>11, <5>1, <5>2 DEF Ascending
      <4> QED BY <4>1, <4>2 DEF External
    <3>3. CASE i \in 1..k /\ j \in (k + 1)..(k + n) /\ j - k \in 1..n
      <4>1. listener'[i] = External(decorators[i]) /\ listener'[j] = Injected(j - k)
        BY <2>2, <2>3, <2>7, <2>8, <3>3
      <4> QED BY <4>1 DEF External, Injected
    <3>4. CASE i \in (k + 1)..(k + n) /\ j \in (k + 1)..(k + n)
               /\ i - k \in 1..n /\ j - k \in 1..n /\ i - k < j - k
      <4>1. listener'[i] = Injected(i - k) /\ listener'[j] = Injected(j - k)
        BY <2>2, <2>7, <2>8, <3>4
      <4> QED BY <3>4, <4>1 DEF Injected
    <3> QED BY <3>1, <3>2, <3>3, <3>4
  <2>14. {listener'[i] : i \in 1..(k + n)} = Decorating'
    <3> DEFINE Outside == {listener'[i] : i \in 1..k}
               Inside == {listener'[i] : i \in (k + 1)..(k + n)}
    <3>1. 1..(k + n) = 1..k \cup (k + 1)..(k + n)
      BY <2>2, <2>8
    <3>2. {listener'[i] : i \in 1..(k + n)} = Outside \cup Inside
      BY ONLY <3>1
    <3>3. Outside = {External(i) : i \in {j \in DOMAIN external : IsListenerFunc(external[j])}}
      <4>1. DOMAIN decorators = 1..k
        <5>1. decorators \in Seq(Nat) /\ Len(decorators) = k
          BY <2>3, <2>8 DEF IInv, Shape
        <5> QED BY <5>1
      <4>2. \A i \in 1..k : listener'[i] = External(decorators[i])
        BY <2>3, <2>7, <2>8
      <4>3. Outside = {External(i) : i \in Range(decorators)}
        BY ONLY <4>1, <4>2 DEF Range
      <4>4. Range(decorators) = {j \in DOMAIN external : IsListenerFunc(external[j])}
        <5>1. DOMAIN external = 1..Len(external) /\ Sorted = Len(external)
          BY <1>1, Inputs DEF IInv, Sorted
        <5> QED BY <5>1 DEF IInv, SortedSoFar
      <4> QED BY ONLY <4>3, <4>4
    <3>4. Inside = {Injected(i) : i \in 1..n}
      <4>1. \A i \in (k + 1)..(k + n) : i - k \in 1..n /\ listener'[i] = Injected(i - k)
        BY <2>2, <2>7, <2>8
      <4>2. \A i \in 1..n : k + i \in (k + 1)..(k + n) /\ (k + i) - k = i
        BY <2>2, <2>8
      <4> QED BY ONLY <4>1, <4>2
    <3>5. external' = external /\ middleware' = n
      BY <1>1, <2>1 DEF inputs
    <3> QED BY ONLY <3>2, <3>3, <3>4, <3>5 DEF Decorating, External, Injected
  <2>12. (IF Secured' THEN <<TLS, Socket>> ELSE <<Socket>>) = b
    BY <1>2, <2>4
  <2> HIDE DEF b
  <2>13. LET base == IF Secured' THEN <<TLS, Socket>> ELSE <<Socket>>
             above == Len(listener') - Len(base) IN
         /\ above \in Nat /\ SubSeq(listener', above + 1, Len(listener')) = base
         /\ {listener'[i] : i \in 1..above} = Decorating'
         /\ \A i, j \in 1..above : i < j =>
              \/ listener'[i][1] = "external" /\ listener'[j][1] = "injected"
              \/ listener'[i][1] = listener'[j][1] /\ listener'[i][2] < listener'[j][2]
    <3>1. PICK base : base = IF Secured' THEN <<TLS, Socket>> ELSE <<Socket>>
      OBVIOUS
    <3>2. PICK l : l = listener'
      OBVIOUS
    <3>3. base = b
      BY <2>12, <3>1
    <3>4. Len(l) - Len(base) = k + n
      BY ONLY <2>9, <3>2, <3>3
    <3>5. k + n \in Nat /\ SubSeq(l, k + n + 1, Len(l)) = base
      BY ONLY <2>10, <3>2, <3>3
    <3>6. \A i, j \in 1..(k + n) : i < j =>
              \/ l[i][1] = "external" /\ l[j][1] = "injected"
              \/ l[i][1] = l[j][1] /\ l[i][2] < l[j][2]
      BY ONLY <2>11, <3>2
    <3>8. {l[i] : i \in 1..(k + n)} = Decorating'
      BY ONLY <2>14, <3>2
    <3>7. LET above == Len(l) - Len(base) IN
         /\ above \in Nat /\ SubSeq(l, above + 1, Len(l)) = base
         /\ {l[i] : i \in 1..above} = Decorating'
         /\ \A i, j \in 1..above : i < j =>
              \/ l[i][1] = "external" /\ l[j][1] = "injected"
              \/ l[i][1] = l[j][1] /\ l[i][2] < l[j][2]
      BY ONLY <3>4, <3>5, <3>6, <3>8
    <3> QED BY ONLY <3>1, <3>2, <3>7
  <2> QED BY <2>13 DEF ListenerOrder, TLS, Socket
<1>5. ClassifiedInOrder'
  BY <1>1, StaysClassified
<1>6. Fresh' /\ TLSSoFar'
  BY <1>1, <1>2 DEF OrderIInv, Fresh, TLSSoFar, Served
<1>7. HeaderSoFar'
  BY <1>1, <1>2 DEF OrderIInv, HeaderSoFar, Header, FactoryOption, inputs
<1> QED BY <1>2, <1>4, <1>5, <1>6, <1>7 DEF OrderIInv

\* Every step keeps the order.
LEMMA NextInOrder == IInv /\ OrderIInv /\ [Next]_vars => OrderIInv'
<1> SUFFICES ASSUME IInv, OrderIInv, [Next]_vars PROVE OrderIInv'
  OBVIOUS
<1>1. CASE UNCHANGED vars
  <2>1. /\ UNCHANGED <<inputs, handler, connContext, assigned, applied>>
        /\ UNCHANGED <<target, external, injected, factory>>
        /\ UNCHANGED <<stage, pos, options, decorators, tlsConfig, listener, middleware>>
    BY <1>1 DEF vars, inputs, made, accepted, fields
  <2>2. OrderSoFar' /\ (Secured' <=> Secured) /\ (ExternalReplaces' <=> ExternalReplaces)
    BY <2>1, TargetUntouched
  <2>3. ClassifiedInOrder'
    BY <2>1, StaysClassified
  <2>4. Fresh' /\ HeaderSoFar' /\ TLSSoFar'
    BY <2>1, <2>2 DEF OrderIInv, Fresh, HeaderSoFar, TLSSoFar, Header, FactoryOption
  <2>5. ListenerOrder'
    <3>1. Decorating' = Decorating
      BY <2>1 DEF Decorating, Injected, External
    <3> QED BY <2>1, <2>2, <3>1, SMTT(30) DEF OrderIInv, ListenerOrder, TLS, Socket
  <2> QED BY <2>2, <2>3, <2>4, <2>5 DEF OrderIInv
<1> QED BY <1>1, ClassifyInOrder, FactoryInOrder, ApplyInjectedInOrder, LoopDoneInOrder,
           FactoryOptionFailsInOrder, ApplyFactoryInOrder, ApplyExternalInOrder,
           ListenInOrder DEF Next

\* The index AppliedAt chooses.
LEMMA AppliedAtIs ==
  ASSUME NEW o \in Range(applied)
  PROVE  AppliedAt(o) \in DOMAIN applied /\ applied[AppliedAt(o)] = o
<1>1. \E i \in DOMAIN applied : applied[i] = o
  BY DEF Range
<1> QED BY <1>1 DEF AppliedAt

\* The layers of two options are in the order of the handler.
LEMMA LayersInOrder ==
  ASSUME applied \in Seq(Origin), OrderSoFar,
         NEW o \in Range(applied), NEW q \in Range(applied),
         NEW i \in Layers(o), NEW j \in Layers(q)
  PROVE  /\ i \in Nat /\ j \in Nat
         /\ i < j => AppliedAt(q) < AppliedAt(o) \/ (o = q /\ handler[i][2] < handler[j][2])
         /\ i = j => o = q
         /\ AppliedAt(o) \in Nat /\ AppliedAt(q) \in Nat
         /\ handler[i][2] \in Nat /\ handler[j][2] \in Nat
<1>1. /\ handler[i] \in {<<o, 1>>, <<o, 2>>} /\ handler[j] \in {<<q, 1>>, <<q, 2>>}
      /\ i \in DOMAIN handler /\ j \in DOMAIN handler
  BY Groups DEF Layers, Functions
<1>2. handler \in Seq(Layer)
  BY DEF OrderSoFar, Stack
<1>3. i \in Nat /\ j \in Nat
  BY <1>1, <1>2
<1>4. /\ AppliedAt(o) \in DOMAIN applied /\ applied[AppliedAt(o)] = o
      /\ AppliedAt(q) \in DOMAIN applied /\ applied[AppliedAt(q)] = q
  BY AppliedAtIs
<1>5. AppliedAt(o) \in Nat /\ AppliedAt(q) \in Nat
  BY <1>4
<1>6. /\ handler[i][1] = o /\ handler[j][1] = q
      /\ handler[i][2] \in Nat /\ handler[j][2] \in Nat
  BY <1>1
<1>7. i < j => Outer(applied, handler[i], handler[j])
  BY <1>1 DEF OrderSoFar, Stack
<1>8. i < j => AppliedAt(q) < AppliedAt(o) \/ (o = q /\ handler[i][2] < handler[j][2])
  BY <1>4, <1>6, <1>7 DEF Outer, Earlier
<1> QED BY <1>3, <1>5, <1>6, <1>8

-----------------------------------------------------------------------------
(***************************************************************************)
(* The theorems.                                                           *)
(***************************************************************************)

\* The inductive invariant, for any options, elements and bounds.
THEOREM Invariance == Spec => []IInv
<1>1. Init => IInv
  BY InitInvariant
<1>2. IInv /\ [Next]_vars => IInv'
  BY NextInvariant
<1> QED BY <1>1, <1>2, PTL DEF Spec

\* Type correctness of an assembly.
THEOREM TypeCorrect == Spec => []TypeOK
<1>1. IInv => TypeOK
  BY DEF IInv
<1> QED BY <1>1, Invariance, PTL

\* What is built had every option that was accepted, the factory included, and
\* none that failed; and nothing is constructed without its condition.
THEOREM NothingSkipped == Spec => []BuiltIsComplete
<1>1. IInv => BuiltIsComplete
  <2> SUFFICES ASSUME IInv PROVE BuiltIsComplete
    OBVIOUS
  <2>1. /\ stage \in {"providing", "omitted"} \/ Emitted
        /\ stage = "omitted" => ~Emitted
    BY DEF IInv, ByCondition
  <2>2. ASSUME Complete
        PROVE  /\ "invalid" \notin Range(injected) \cup
                                     {external[options[i]] : i \in DOMAIN options}
               /\ ~factory.fails
               /\ factory.option => FactoryOption \in Range(applied)
               /\ {Injected(i) : i \in DOMAIN injected} \subseteq Range(applied)
               /\ {External(options[i]) : i \in DOMAIN options} \subseteq Range(applied)
    <3>1. /\ Failing(injected) = {}
          /\ \A i \in DOMAIN injected : Injected(i) \in Range(applied)
      BY <2>2 DEF IInv, InjectedSoFar, Injections, Served, Complete
    <3>2. "invalid" \notin Range(injected)
      BY <3>1 DEF Failing, Range
    <3>3. \A j \in DOMAIN options :
            external[options[j]] # "invalid" /\ External(options[j]) \in Range(applied)
      BY <2>2 DEF IInv, ExternalSoFar
    <3>4. ~factory.fails /\ (factory.option => FactoryOption \in Range(applied))
      BY <2>2 DEF IInv, FactorySoFar, Complete
    <3> QED BY <3>1, <3>2, <3>3, <3>4
  <2> QED BY <2>1, <2>2 DEF BuiltIsComplete
<1> QED BY <1>1, Invariance, PTL

\* The error of an assembly names every option that failed, or the factory.
THEOREM ErrorsAreAggregated == Spec => []EveryErrorReported
<1>1. IInv => EveryErrorReported
  BY DEF IInv
<1> QED BY <1>1, Invariance, PTL

\* The inductive invariant about order.
THEOREM OrderInvariance == Spec => []OrderIInv
<1>1. Init => OrderIInv
  BY OrderInit
<1>2. IInv /\ OrderIInv /\ [Next]_vars => OrderIInv'
  BY NextInOrder
<1> QED BY <1>1, <1>2, Invariance, PTL DEF Spec

\* No option is applied twice.
THEOREM NothingTwice == Spec => []Distinct(applied)
<1>1. OrderIInv => Distinct(applied)
  BY DEF OrderIInv, OrderSoFar
<1> QED BY <1>1, OrderInvariance, PTL

\* A request passes the middleware of a later option first.
THEOREM RequestsPassInOrder == Spec => []RequestOrder
<1>1. IInv /\ OrderIInv => RequestOrder
  <2> SUFFICES ASSUME IInv, OrderIInv, NEW o \in Range(applied), NEW q \in Range(applied)
               PROVE  /\ AppliedAt(o) < AppliedAt(q) =>
                           \A i \in Layers(o), j \in Layers(q) : j < i
                      /\ \A i, j \in Layers(o) : (handler[i][2] < handler[j][2]) => i < j
    BY DEF RequestOrder
  <2>1. applied \in Seq(Origin) /\ OrderSoFar
    BY DEF IInv, Shape, OrderIInv
  <2>2. ASSUME AppliedAt(o) < AppliedAt(q), NEW i \in Layers(o), NEW j \in Layers(q)
        PROVE  j < i
    <3>1. /\ i \in Nat /\ j \in Nat
          /\ i < j => AppliedAt(q) < AppliedAt(o) \/ o = q
          /\ i = j => o = q
          /\ AppliedAt(o) \in Nat /\ AppliedAt(q) \in Nat
      BY <2>1, LayersInOrder
    <3> QED BY <2>2, <3>1
  <2>3. ASSUME NEW i \in Layers(o), NEW j \in Layers(o), handler[i][2] < handler[j][2]
        PROVE  i < j
    <3>1. /\ i \in Nat /\ j \in Nat
          /\ j < i => AppliedAt(o) < AppliedAt(o) \/ handler[j][2] < handler[i][2]
          /\ AppliedAt(o) \in Nat /\ handler[i][2] \in Nat /\ handler[j][2] \in Nat
      BY <2>1, LayersInOrder
    <3>2. i # j
      BY <2>3, <3>1
    <3> QED BY <2>3, <3>1, <3>2
  <2> QED BY <2>2, <2>3
<1> QED BY <1>1, Invariance, OrderInvariance, PTL

\* Every ConnContext is kept, and of the other fields the last value.
THEOREM ContextsAreKept == Spec => []ContextsKept
<1>1. IInv /\ OrderIInv => ContextsKept
  <2> SUFFICES ASSUME IInv, OrderIInv PROVE ContextsKept
    OBVIOUS
  <2>1. \A x, y \in Range(applied) :
          /\ AppliedAt(x) \in Nat
          /\ Earlier(applied, x, y) => AppliedAt(x) < AppliedAt(y)
    <3>1. DOMAIN applied \subseteq Nat
      BY DEF IInv, Shape
    <3> QED BY <3>1, AppliedAtIs DEF Earlier
  <2>2. Range(connContext) = UNION {Range(Functions(o)) : o \in AppliedOfKind("connContext")}
    BY DEF OrderIInv, OrderSoFar, ContextsSoFar
  <2>3. ASSUME NEW i \in DOMAIN connContext, NEW j \in DOMAIN connContext, i < j
        PROVE  LET f == connContext[i]  g == connContext[j] IN
               \/ AppliedAt(f[1]) < AppliedAt(g[1])
               \/ f[1] = g[1] /\ f[2] < g[2]
    <3>1. /\ connContext[i][1] \in Range(applied) /\ connContext[j][1] \in Range(applied)
          /\ Sooner(applied, connContext[i], connContext[j])
      BY <2>3 DEF OrderIInv, OrderSoFar, ContextsSoFar, Queue
    <3> QED BY <2>1, <3>1 DEF Sooner
  <2>4. ASSUME NEW field \in Assignable
        PROVE  \/ AppliedOfKind(field) = {} /\ assigned[field] = << >>
               \/ \E o \in AppliedOfKind(field) :
                    /\ assigned[field] = Functions(o)
                    /\ \A q \in AppliedOfKind(field) : AppliedAt(q) <= AppliedAt(o)
    <3>1. ValueSoFar(field)
      BY DEF OrderIInv, OrderSoFar
    <3>2. ASSUME NEW o \in AppliedOfKind(field), NEW q \in AppliedOfKind(field),
                 q = o \/ Earlier(applied, q, o)
          PROVE  AppliedAt(q) <= AppliedAt(o)
      <4>1. o \in Range(applied) /\ q \in Range(applied)
        BY DEF AppliedOfKind
      <4> QED BY <2>1, <3>2, <4>1
    <3> QED BY <3>1, <3>2 DEF ValueSoFar
  <2> QED BY <2>2, <2>3, <2>4 DEF ContextsKept
<1> QED BY <1>1, Invariance, OrderInvariance, PTL

\* No external option is ever applied to a client, whatever ProvideClient was
\* given.
ClientExternalsDropped ==
  target = "client" => \A i \in Nat : External(i) \notin Range(applied)

THEOREM ClientDropsExternals == Spec => []ClientExternalsDropped
<1>1. Init => ClientExternalsDropped
  BY DEF Init, Range, ClientExternalsDropped
<1>2. IInv /\ ClientExternalsDropped /\ [Next]_vars => ClientExternalsDropped'
  <2> SUFFICES ASSUME IInv, ClientExternalsDropped, [Next]_vars, target' = "client",
                      NEW i \in Nat
               PROVE  External(i) \notin Range(applied')
    BY DEF ClientExternalsDropped, External
  <2>1. inputs' = inputs
    <3>1. CASE Classify \/ Provided \/ FactoryPanics \/ FactoryFails \/ Construct
      BY <3>1 DEF Classify, Provided, FactoryPanics, FactoryFails, Construct
    <3>2. CASE ApplyInjected \/ InjectedDone \/ ApplyFactory
      BY <3>2 DEF ApplyInjected, InjectedDone, ApplyFactory
    <3>3. CASE ApplyExternal \/ ExternalDone \/ Listen
      BY <3>3 DEF ApplyExternal, ExternalDone, Listen
    <3>4. CASE UNCHANGED vars
      BY <3>4 DEF vars
    <3> QED BY <3>1, <3>2, <3>3, <3>4 DEF Next
  <2>2. target = "client" /\ External(i) \notin Range(applied) /\ applied \in Seq(Origin)
    BY <2>1 DEF ClientExternalsDropped, inputs, IInv, Shape
  <2>3. CASE ApplyInjected
    <3>1. /\ ApplyOption(Injected(pos), injected[pos]) /\ Injected(pos) \in Origin
          /\ Injected(pos) # External(i)
      BY <2>3, Inputs, Origins DEF ApplyInjected, IInv, Injected, External
    <3>2. Range(applied') \subseteq Range(applied) \cup {Injected(pos)}
      BY <2>2, <3>1, OneApplied
    <3> QED BY <2>2, <3>1, <3>2
  <2>4. CASE ApplyFactory
    <3>1. applied' \in {applied, Append(applied, FactoryOption)}
      BY <2>4 DEF ApplyFactory
    <3>2. FactoryOption \in Origin /\ FactoryOption # External(i)
      BY Origins DEF FactoryOption, External
    <3>3. Range(Append(applied, FactoryOption)) = Range(applied) \cup {FactoryOption}
      BY <2>2, <3>2, AppendRange
    <3> QED BY <2>2, <3>1, <3>2, <3>3
  <2>5. ~ApplyExternal
    BY <2>2 DEF ApplyExternal, IInv, ByCondition
  <2>6. CASE ~ApplyInjected /\ ~ApplyFactory
    <3>1. applied' = applied
      <4>1. CASE Classify \/ Provided \/ FactoryPanics \/ FactoryFails \/ Construct
        BY <4>1 DEF Classify, Provided, FactoryPanics, FactoryFails, Construct, made
      <4>2. CASE InjectedDone \/ ExternalDone \/ Listen
        BY <4>2 DEF InjectedDone, ExternalDone, Listen, made
      <4>3. CASE UNCHANGED vars
        BY <4>3 DEF vars, made
      <4> QED BY <2>5, <2>6, <4>1, <4>2, <4>3 DEF Next
    <3> QED BY <2>2, <3>1
  <2> QED BY <2>3, <2>4, <2>6
<1> QED BY <1>1, <1>2, Invariance, PTL DEF Spec

\* The configured headers of a target that can be used are lost in one way only:
\* an external option of a server replaced the handler that the factory had
\* decorated.
THEOREM HeadersLostOnlyByReplacing ==
  Spec => [](~HeadersEmitted => target = "server" /\ ExternalReplaces)
<1>1. IInv /\ OrderIInv /\ ClientExternalsDropped
        => (~HeadersEmitted => target = "server" /\ ExternalReplaces)
  <2> SUFFICES ASSUME IInv, OrderIInv, ClientExternalsDropped, ~HeadersEmitted
               PROVE  target = "server" /\ ExternalReplaces
    OBVIOUS
  <2>1. ExternalReplaces
    BY DEF HeadersEmitted, OrderIInv, HeaderSoFar, Complete
  <2>2. PICK o \in Range(applied) : o[1] = "external"
    BY <2>1 DEF ExternalReplaces
  <2>3. o = External(o[2]) /\ o[2] \in Nat
    <3>1. o \in Origin
      BY DEF IInv, Shape, Range
    <3> QED BY <2>2, <3>1 DEF Origin, External
  <2>4. target # "client"
    BY <2>2, <2>3 DEF ClientExternalsDropped
  <2> QED BY <2>1, <2>4 DEF IInv, TypeOK
<1> QED BY <1>1, Invariance, OrderInvariance, ClientDropsExternals, PTL

\* The listener's layers are in order, with TLS exactly when it was set up.
THEOREM ListenersAreOrdered == Spec => []ListenerOrder
<1>1. OrderIInv => ListenerOrder
  BY DEF OrderIInv
<1> QED BY <1>1, OrderInvariance, PTL
=============================================================================
