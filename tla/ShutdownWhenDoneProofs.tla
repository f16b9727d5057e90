----------------------- MODULE ShutdownWhenDoneProofs -----------------------
(***************************************************************************)
(* Proofs about ShutdownWhenDone: for any tasks, coders and codes, and     *)
(* however deep errors are wrapped, the code asked for last is the one     *)
(* that the app is shut down with.                                         *)
(***************************************************************************)
EXTENDS ShutdownWhenDone, SequenceTheorems, TLAPS

\* Errors are sequences; the nil error is one.
LEMMA ErrorsAreSequences ==
  /\ NilError \in Errors
  /\ \A e \in Errors : e \in Seq(TaskLayer) /\ Len(e) \in 0..MaxDepth
  /\ \A e \in Seq(TaskLayer) : Len(e) <= MaxDepth => e \in Errors
<1> USE TasksAssumption
<1>1. ASSUME NEW e \in Errors PROVE e \in Seq(TaskLayer) /\ Len(e) \in 0..MaxDepth
  <2>1. PICK m \in 0..MaxDepth : e \in [1..m -> TaskLayer]
    BY <1>1, SMTT(30) DEF Errors, SeqOf
  <2> QED BY <2>1
<1>2. ASSUME NEW e \in Seq(TaskLayer), Len(e) <= MaxDepth PROVE e \in Errors
  <2>1. Len(e) \in 0..MaxDepth /\ e \in [1..Len(e) -> TaskLayer]
    BY <1>2
  <2> QED BY <2>1 DEF Errors, SeqOf
<1>3. NilError \in Errors
  <2>1. NilError \in Seq(TaskLayer) /\ Len(NilError) = 0
    BY DEF NilError
  <2>2. 0 <= MaxDepth
    OBVIOUS
  <2>3. Len(NilError) <= MaxDepth
    BY <2>1, <2>2
  <2> QED BY <1>2, <2>1, <2>3
<1>4. \A e \in Errors : e \in Seq(TaskLayer) /\ Len(e) \in 0..MaxDepth
  BY ONLY <1>1
<1>5. \A e \in Seq(TaskLayer) : Len(e) <= MaxDepth => e \in Errors
  BY ONLY <1>2
<1> QED BY ONLY <1>3, <1>4, <1>5

\* One more layer around an error.
Around(l, e) == <<l>> \o e

LEMMA OneMoreLayer ==
  ASSUME NEW e \in Errors, NEW l \in TaskLayer, Len(e) < MaxDepth,
         NEW f, f = Around(l, e)
  PROVE  /\ f \in Errors /\ f # NilError
         /\ DOMAIN f = 1..(Len(e) + 1) /\ DOMAIN e = 1..Len(e) /\ Len(e) \in Nat
         /\ f[1] = l
         /\ \A i \in DOMAIN e : f[i + 1] = e[i]
<1> DEFINE s == <<l>>
<1>1. s \in Seq(TaskLayer) /\ Len(s) = 1 /\ s[1] = l
  OBVIOUS
<1>2. e \in Seq(TaskLayer) /\ Len(e) \in Nat /\ DOMAIN e = 1..Len(e)
  BY ErrorsAreSequences
<1> HIDE DEF s
<1>3. /\ f \in Seq(TaskLayer)
      /\ Len(f) = 1 + Len(e)
      /\ \A i \in 1..(1 + Len(e)) : f[i] = IF i <= 1 THEN s[i] ELSE e[i - 1]
  <2>1. f = s \o e
    BY DEF s, Around
  <2>2. /\ s \o e \in Seq(TaskLayer)
        /\ Len(s \o e) = Len(s) + Len(e)
        /\ \A i \in 1..(Len(s) + Len(e)) :
             (s \o e)[i] = IF i <= Len(s) THEN s[i] ELSE e[i - Len(s)]
    BY ONLY <1>1, <1>2, ConcatProperties
  <2> QED BY ONLY <1>1, <1>2, <2>1, <2>2
<1>4. f \in Errors
  <2>1. 1 + Len(e) <= MaxDepth
    BY <1>2, TasksAssumption
  <2>2. Len(f) <= MaxDepth
    BY <1>3, <2>1
  <2> QED BY ONLY <1>3, <2>2, ErrorsAreSequences
<1>5. f # NilError
  <2>1. Len(f) # 0 /\ Len(NilError) = 0
    BY <1>2, <1>3 DEF NilError
  <2> QED BY <2>1
<1>6. DOMAIN f = 1..(Len(e) + 1)
  BY <1>2, <1>3
<1>7. f[1] = l
  BY <1>1, <1>2, <1>3
<1>8. ASSUME NEW i \in DOMAIN e PROVE f[i + 1] = e[i]
  <2>1. i \in 1..Len(e) /\ i + 1 \in 1..(1 + Len(e)) /\ ~(i + 1 <= 1) /\ (i + 1) - 1 = i
    BY <1>2
  <2> QED BY <1>3, <2>1
<1> QED BY <1>2, <1>4, <1>5, <1>6, <1>7, <1>8

\* What errors.As finds is the outermost code.
LEMMA OutermostIsFound ==
  ASSUME NEW e \in Errors, NEW k \in Int, Outermost(e, k)
  PROVE  Coded(e) # {} /\ AsExitCode(e) = k
<1>1. DOMAIN e \subseteq Int
  <2>1. DOMAIN e = 1..Len(e) /\ Len(e) \in Int
    BY ErrorsAreSequences
  <2> QED BY <2>1
<1>2. PICK i \in DOMAIN e : e[i].code = k /\ \A j \in DOMAIN e : j < i => e[j].code = NoCode
  BY DEF Outermost
<1>3. i \in Coded(e)
  BY <1>2, NoCodeAssumption DEF Coded
<1>4. ASSUME NEW j \in Coded(e) PROVE i <= j /\ j \in Int
  BY <1>1, <1>2, <1>4 DEF Coded
<1> DEFINE First(n) == \A j \in Coded(e) : n <= j
<1>5. ASSUME NEW n \in Coded(e), First(n) PROVE n = i
  <2>1. n <= i /\ i <= n /\ n \in Int /\ i \in Int
    BY <1>3, <1>4, <1>5
  <2> QED BY <2>1
<1>6. First(i)
  BY <1>4
<1> HIDE DEF First
<1>7. (CHOOSE n \in Coded(e) : First(n)) = i
  BY <1>3, <1>5, <1>6
<1> QED BY <1>2, <1>3, <1>7 DEF AsExitCode, First

\* A layer without a code around an error keeps what errors.As finds and what
\* errors.Is finds.
LEMMA WrappingKeeps ==
  ASSUME NEW e \in Errors, NEW l \in TaskLayer, Len(e) < MaxDepth,
         l.code = NoCode, NEW f, f = Around(l, e)
  PROVE  /\ Coded(e) = {} => Coded(f) = {}
         /\ \A k : Outermost(e, k) => Outermost(f, k)
<1>1. /\ DOMAIN f = 1..(Len(e) + 1) /\ DOMAIN e = 1..Len(e) /\ Len(e) \in Nat
      /\ f[1] = l
      /\ \A i \in DOMAIN e : f[i + 1] = e[i]
  BY OneMoreLayer
<1>2. ASSUME NEW j \in DOMAIN f
      PROVE  j = 1 \/ (j - 1 \in DOMAIN e /\ f[j] = e[j - 1])
  <2>1. CASE j # 1
    <3>1. j - 1 \in DOMAIN e /\ (j - 1) + 1 = j
      BY <1>1, <1>2, <2>1
    <3> QED BY <1>1, <3>1
  <2> QED BY <2>1
<1>3. ASSUME Coded(e) = {}, NEW j \in DOMAIN f PROVE f[j].code = NoCode
  BY <1>1, <1>2, <1>3 DEF Coded
<1>4. ASSUME NEW k, Outermost(e, k) PROVE Outermost(f, k)
  <2>1. PICK i \in DOMAIN e : e[i].code = k /\ \A j \in DOMAIN e : j < i => e[j].code = NoCode
    BY <1>4 DEF Outermost
  <2>2. i + 1 \in DOMAIN f /\ f[i + 1].code = k
    BY <1>1, <2>1
  <2>3. ASSUME NEW j \in DOMAIN f, j < i + 1 PROVE f[j].code = NoCode
    <3>1. CASE j = 1
      BY <1>1, <3>1
    <3>2. CASE j # 1
      <4>1. j - 1 \in DOMAIN e /\ f[j] = e[j - 1] /\ j - 1 < i
        BY <1>1, <1>2, <2>1, <2>3, <3>2
      <4> QED BY <2>1, <4>1
    <3> QED BY <3>1, <3>2
  <2> QED BY <2>2, <2>3 DEF Outermost
<1> QED BY <1>3, <1>4 DEF Coded

\* However it is wrapped, an error still is the failure inside.
LEMMA FailureStaysInside ==
  ASSUME NEW e \in Errors, NEW l \in TaskLayer, Len(e) < MaxDepth,
         NEW f, f = Around(l, e), Is(e, "failure")
  PROVE  Is(f, "failure")
<1>1. /\ DOMAIN f = 1..(Len(e) + 1) /\ DOMAIN e = 1..Len(e) /\ Len(e) \in Nat
      /\ \A i \in DOMAIN e : f[i + 1] = e[i]
  BY OneMoreLayer
<1>2. PICK i \in DOMAIN e : e[i].name = "failure"
  BY DEF Is
<1>3. i + 1 \in DOMAIN f /\ f[i + 1].name = "failure"
  BY <1>1, <1>2
<1> QED BY <1>3 DEF Is

\* UseExitCode makes its code the one that errors.As finds.
LEMMA UseExitCodeIsOutermost ==
  ASSUME NEW e \in Errors, NEW k \in TaskCode, Len(e) < MaxDepth
  PROVE  /\ UseExitCode(e, k) \in Errors
         /\ Outermost(UseExitCode(e, k), k)
         /\ Is(e, "failure") => Is(UseExitCode(e, k), "failure")
         /\ UseExitCode(e, k) # NilError
<1> DEFINE l == [name |-> "exitCodeErr", code |-> k]
           f == UseExitCode(e, k)
<1>1. l \in TaskLayer /\ l.code = k
  BY DEF TaskLayer
<1>2. f = Around(l, e)
  BY DEF UseExitCode, Around
<1> HIDE DEF l, f
<1>3. /\ f \in Errors /\ f # NilError
      /\ DOMAIN f = 1..(Len(e) + 1) /\ Len(e) \in Nat
      /\ f[1] = l
  BY <1>1, <1>2, OneMoreLayer
<1>4. Outermost(f, k)
  BY <1>1, <1>3 DEF Outermost
<1>5. Is(e, "failure") => Is(f, "failure")
  BY <1>1, <1>2, FailureStaysInside
<1> QED BY <1>3, <1>4, <1>5 DEF f

\* The exit code of an error is a number.
LEMMA CodesAreNumbers ==
  ASSUME NEW e \in Errors, NEW c \in Coders, NEW k \in TaskCode \cup {NoCode},
         IF k = NoCode THEN Coded(e) = {} ELSE Outermost(e, k)
  PROVE  ExitCodeFor(e, c) \in Int
<1>1. CASE k # NoCode
  BY <1>1, OutermostIsFound, TasksAssumption DEF ExitCodeFor
<1>2. CASE k = NoCode /\ c # NoCoder
  BY <1>2, CodersAssumption DEF ExitCodeFor
<1>3. CASE k = NoCode /\ c = NoCoder
  BY <1>3 DEF ExitCodeFor, DefaultErrorExitCode
<1> QED BY <1>1, <1>2, <1>3

-----------------------------------------------------------------------------
(***************************************************************************)
(* The invariant.                                                          *)
(***************************************************************************)

\* No task has begun.
LEMMA InitInvariant == Init => IInv
<1> SUFFICES ASSUME Init PROVE IInv
  OBVIOUS
<1>1. NilError \in Errors
  BY ErrorsAreSequences
<1>2. Coded(NilError) = {}
  BY DEF Coded, NilError
<1>3. TypeOK
  BY <1>1 DEF Init, TypeOK, Steps
<1>4. ASSUME NEW t \in Task
      PROVE  LastAsked(t) /\ FailureInside(t) /\ ResultIsMade(t) /\ SentWhenDone(t)
  BY <1>2 DEF Init, LastAsked, FailureInside, ResultIsMade, SentWhenDone
<1> QED BY <1>3, <1>4 DEF IInv

\* A step that leaves the errors of the tasks, and what they asked for, alone.
LEMMA ErrorsUntouched ==
  ASSUME IInv, UNCHANGED <<made, wanted>>, NEW t \in Task
  PROVE  LastAsked(t)' /\ FailureInside(t)'
BY DEF IInv, LastAsked, FailureInside

\* A step of a task at work: only its error and the code it asked for change,
\* into an error that still is the failure, with that code outermost.
LEMMA AtWork ==
  ASSUME IInv, NEW t \in Task, step[t] = "running",
         NEW e \in Errors, NEW k \in TaskCode \cup {NoCode},
         made' = [made EXCEPT ![t] = e], wanted' = [wanted EXCEPT ![t] = k],
         IF k = NoCode THEN Coded(e) = {} ELSE Outermost(e, k),
         Is(e, "failure"),
         UNCHANGED <<type, coder, step, err, sent>>
  PROVE  IInv'
<1>1. TypeOK'
  BY DEF IInv, TypeOK
<1>2. ASSUME NEW u \in Task
      PROVE  (LastAsked(u) /\ FailureInside(u) /\ ResultIsMade(u) /\ SentWhenDone(u))'
  <2>1. CASE u = t
    <3>1. made'[u] = e /\ wanted'[u] = k
      BY <2>1 DEF IInv, TypeOK
    <3>2. LastAsked(u)' /\ FailureInside(u)'
      BY <3>1 DEF LastAsked, FailureInside
    <3>3. err[u] = NilError
      BY <2>1 DEF IInv, ResultIsMade
    <3> QED BY <3>2, <3>3 DEF IInv, ResultIsMade, SentWhenDone
  <2>2. CASE u # t
    <3>1. made'[u] = made[u] /\ wanted'[u] = wanted[u]
      BY <2>2 DEF IInv, TypeOK
    <3> QED BY <3>1 DEF IInv, LastAsked, FailureInside, ResultIsMade, SentWhenDone
  <2> QED BY <2>1, <2>2
<1> QED BY <1>1, <1>2 DEF IInv

\* A task begins, or ends without a result.
LEMMA StepOnly ==
  ASSUME IInv, NEW t \in Task, step[t] \in {"called", "running"},
         NEW s \in Steps \ {"done"}, Goes(t, s),
         UNCHANGED <<type, coder, made, wanted, err, sent>>
  PROVE  IInv'
<1>1. TypeOK'
  BY DEF IInv, TypeOK, Goes
<1>2. ASSUME NEW u \in Task PROVE ResultIsMade(u)' /\ SentWhenDone(u)'
  <2>1. step'[u] = IF u = t THEN s ELSE step[u]
    BY DEF IInv, TypeOK, Goes
  <2>2. ResultIsMade(u)'
    BY <2>1 DEF IInv, ResultIsMade
  <2>3. SentWhenDone(u)'
    BY <2>1 DEF IInv, SentWhenDone
  <2> QED BY <2>2, <2>3
<1> QED BY <1>1, <1>2, ErrorsUntouched DEF IInv

\* The error that a task makes is the failure, and nobody asked for a code yet.
LEMMA FailInvariant == ASSUME IInv, NEW t \in Task, Fail(t) PROVE IInv'
<1> DEFINE l == [name |-> "failure", code |-> NoCode]
           e == <<l>>
<1>1. l \in TaskLayer /\ l.code = NoCode /\ l.name = "failure"
  BY DEF TaskLayer
<1>2. e \in Seq(TaskLayer) /\ Len(e) = 1 /\ e[1] = l /\ DOMAIN e = {1}
  <2> HIDE DEF l
  <2> QED BY <1>1
<1>3. made' = [made EXCEPT ![t] = e]
  BY DEF Fail
<1> HIDE DEF e, l
<1>4. e \in Errors
  <2>1. 1 <= MaxDepth
    BY TasksAssumption
  <2> QED BY ONLY <1>2, <2>1, ErrorsAreSequences
<1>5. Is(e, "failure") /\ Coded(e) = {}
  BY <1>1, <1>2 DEF Is, Coded
<1>6. wanted[t] = NoCode
  <2>1. made[t] = NilError /\ LastAsked(t)
    BY DEF IInv, Fail
  <2>2. ASSUME NEW k PROVE ~Outermost(NilError, k)
    BY DEF Outermost, NilError
  <2> QED BY <2>1, <2>2 DEF LastAsked
<1>7. wanted' = [wanted EXCEPT ![t] = NoCode]
  BY <1>6 DEF Fail, IInv, TypeOK
<1> QED BY <1>3, <1>4, <1>5, <1>7, AtWork DEF Fail

\* Wrapping keeps the code and the failure.
LEMMA WrapInvariant == ASSUME IInv, NEW t \in Task, Wrap(t) PROVE IInv'
<1> DEFINE l == [name |-> "wrapped", code |-> NoCode]
           e == Around(l, made[t])
<1>1. l \in TaskLayer /\ l.code = NoCode
  BY DEF TaskLayer
<1>2. made' = [made EXCEPT ![t] = e]
  BY DEF Wrap, Around
<1> HIDE DEF l
<1>3. made[t] \in Errors /\ Len(made[t]) < MaxDepth /\ made[t] # NilError
  BY DEF Wrap, IInv, TypeOK
<1>4. e \in Errors
  BY <1>1, <1>3, OneMoreLayer
<1>5. Is(e, "failure")
  <2>1. Is(made[t], "failure")
    BY <1>3 DEF IInv, FailureInside
  <2> QED BY <1>1, <1>3, <2>1, FailureStaysInside
<1>6. IF wanted[t] = NoCode THEN Coded(e) = {} ELSE Outermost(e, wanted[t])
  <2>1. LastAsked(t)
    BY DEF IInv
  <2>2. /\ Coded(made[t]) = {} => Coded(e) = {}
        /\ \A k : Outermost(made[t], k) => Outermost(e, k)
    BY <1>1, <1>3, WrappingKeeps
  <2> HIDE DEF e
  <2> QED BY <2>1, <2>2 DEF LastAsked
<1>7. /\ wanted' = [wanted EXCEPT ![t] = wanted[t]]
      /\ wanted[t] \in TaskCode \cup {NoCode}
  BY DEF Wrap, IInv, TypeOK
<1> HIDE DEF e
<1> QED BY <1>2, <1>4, <1>5, <1>6, <1>7, AtWork DEF Wrap

\* UseExitCode puts the new code over every code before it.
LEMMA AskInvariant ==
  ASSUME IInv, NEW t \in Task, NEW c \in TaskCode, AskForCode(t, c) PROVE IInv'
<1>1. made[t] \in Errors /\ Len(made[t]) < MaxDepth /\ step[t] = "running"
  BY DEF AskForCode, IInv, TypeOK
<1>2. CASE UseExitCodePanics(made[t])
  <2>1. Goes(t, "panicked") /\ UNCHANGED <<type, coder, made, wanted, err, sent>>
    BY <1>2 DEF AskForCode
  <2>2. "panicked" \in Steps \ {"done"}
    BY DEF Steps
  <2> QED BY <1>1, <2>1, <2>2, StepOnly
<1>3. CASE ~UseExitCodePanics(made[t])
  <2> DEFINE e == UseExitCode(made[t], c)
  <2>1. made' = [made EXCEPT ![t] = e] /\ wanted' = [wanted EXCEPT ![t] = c]
        /\ UNCHANGED <<type, coder, step, err, sent>>
    BY <1>3 DEF AskForCode
  <2>2. Is(made[t], "failure")
    BY <1>3 DEF UseExitCodePanics, IInv, FailureInside
  <2>3. e \in Errors /\ Outermost(e, c) /\ Is(e, "failure")
    BY <1>1, <2>2, UseExitCodeIsOutermost
  <2>4. c # NoCode
    BY TasksAssumption, NoCodeAssumption
  <2> HIDE DEF e
  <2> QED BY <1>1, <2>1, <2>3, <2>4, AtWork
<1> QED BY <1>2, <1>3

\* The result variable gets the error that the task made, or none.
LEMMA ReturnInvariant == ASSUME IInv, NEW t \in Task, Return(t) PROVE IInv'
<1>1. \A u \in Task : step'[u] = IF u = t THEN "returned" ELSE step[u]
  BY DEF IInv, TypeOK, Return, Goes
<1>2. \A u \in Task : err'[u] = err[u] \/ (u = t /\ err'[u] = made[t])
  BY DEF IInv, TypeOK, Return
<1>3. TypeOK'
  <2>1. step' \in [Task -> Steps]
    BY DEF IInv, TypeOK, Return, Goes, Steps
  <2>2. err' \in [Task -> Errors]
    BY DEF IInv, TypeOK, Return
  <2>3. \A u \in Task : sent[u] # NoCode <=> step'[u] = "done"
    BY <1>1 DEF IInv, TypeOK, Return
  <2> QED BY <2>1, <2>2, <2>3 DEF IInv, TypeOK, Return
<1>4. ASSUME NEW u \in Task PROVE ResultIsMade(u)' /\ SentWhenDone(u)'
  <2>1. CASE u = t
    <3>1. step[t] = "running" /\ err[t] = NilError
      BY DEF IInv, ResultIsMade, Return
    <3> QED BY <1>1, <1>2, <2>1, <3>1 DEF IInv, ResultIsMade, SentWhenDone, Return
  <2>2. CASE u # t
    <3>1. step'[u] = step[u] /\ err'[u] = err[u]
      BY <1>1, <1>2, <2>2
    <3> QED BY <3>1 DEF IInv, ResultIsMade, SentWhenDone, Return
  <2> QED BY <2>1, <2>2
<1>5. UNCHANGED <<made, wanted>>
  BY DEF Return
<1> QED BY <1>3, <1>4, <1>5, ErrorsUntouched DEF IInv

\* What is broadcast is the code of the result.
LEMMA DeferredInvariant == ASSUME IInv, NEW t \in Task, Deferred(t) PROVE IInv'
<1> DEFINE k == ExitCodeFor(err[t], coder[t])
<1>1. k \in Int
  <2>1. err[t] \in Errors /\ coder[t] \in Coders /\ wanted[t] \in TaskCode \cup {NoCode}
    BY DEF IInv, TypeOK
  <2>2. CASE err[t] = NilError
    <3>1. Coded(err[t]) = {}
      BY <2>2 DEF Coded, NilError
    <3>2. NoCode \in TaskCode \cup {NoCode}
      OBVIOUS
    <3> QED BY <2>1, <3>1, <3>2, CodesAreNumbers
  <2>3. CASE err[t] # NilError
    <3>1. LastAsked(t) /\ err[t] = made[t]
      BY <2>3 DEF IInv, ResultIsMade
    <3> QED BY <2>1, <3>1, CodesAreNumbers DEF LastAsked
  <2> QED BY <2>2, <2>3
<1>2. sent' = [sent EXCEPT ![t] = k] /\ step' = [step EXCEPT ![t] = "done"]
      /\ UNCHANGED <<type, coder, made, wanted, err>>
  BY DEF Deferred, Goes
<1>3. TypeOK'
  <2> HIDE DEF k
  <2>1. sent' \in [Task -> Int \cup {NoCode}] /\ step' \in [Task -> Steps]
    BY <1>1, <1>2 DEF IInv, TypeOK, Steps
  <2>2. \A u \in Task : sent'[u] # NoCode <=> step'[u] = "done"
    BY <1>1, <1>2, NoCodeAssumption DEF IInv, TypeOK
  <2> QED BY <1>2, <2>1, <2>2 DEF IInv, TypeOK
<1>4. ASSUME NEW u \in Task PROVE ResultIsMade(u)' /\ SentWhenDone(u)'
  <2>1. CASE u = t
    <3>1. sent'[u] = k /\ step'[u] = "done"
      BY <1>2, <2>1 DEF IInv, TypeOK
    <3> QED BY <1>2, <2>1, <3>1 DEF IInv, ResultIsMade, SentWhenDone
  <2>2. CASE u # t
    <3>1. sent'[u] = sent[u] /\ step'[u] = step[u]
      BY <1>2, <2>2 DEF IInv, TypeOK
    <3> QED BY <1>2, <3>1 DEF IInv, ResultIsMade, SentWhenDone
  <2> QED BY <2>1, <2>2
<1> QED BY <1>2, <1>3, <1>4, ErrorsUntouched DEF IInv

\* Every step keeps the invariant.
LEMMA NextInvariant == IInv /\ [Next]_vars => IInv'
<1> SUFFICES ASSUME IInv, [Next]_vars PROVE IInv'
  OBVIOUS
<1>1. ASSUME NEW t \in Task, Call(t) PROVE IInv'
  <2>1. PICK s \in {"panicked", "running"} : Goes(t, s)
    BY <1>1 DEF Call
  <2>2. s \in Steps \ {"done"} /\ step[t] \in {"called", "running"}
    BY <1>1 DEF Call, Steps
  <2> QED BY <1>1, <2>1, <2>2, StepOnly DEF Call
<1>2. ASSUME NEW t \in Task, Unwind(t) PROVE IInv'
  <2>1. PICK s \in {"panicked", "goexited"} : Goes(t, s)
    BY <1>2 DEF Unwind
  <2>2. s \in Steps \ {"done"} /\ step[t] \in {"called", "running"}
    BY <1>2 DEF Unwind, Steps
  <2> QED BY <1>2, <2>1, <2>2, StepOnly DEF Unwind
<1>3. CASE UNCHANGED vars
  BY <1>3 DEF vars, IInv, TypeOK, LastAsked, FailureInside, ResultIsMade, SentWhenDone
<1> QED BY <1>1, <1>2, <1>3, FailInvariant, WrapInvariant, AskInvariant,
           ReturnInvariant, DeferredInvariant DEF Next

-----------------------------------------------------------------------------
(***************************************************************************)
(* The theorems.                                                           *)
(***************************************************************************)

\* The inductive invariant, for any tasks, codes, coders and depth of errors.
THEOREM Invariance == Spec => []IInv
<1>1. Init => IInv
  BY InitInvariant
<1>2. IInv /\ [Next]_vars => IInv'
  BY NextInvariant
<1> QED BY <1>1, <1>2, PTL DEF Spec

\* Type correctness; what is broadcast is a number once the task is over.
THEOREM TypeCorrect == Spec => []TypeOK
<1>1. IInv => TypeOK
  BY DEF IInv
<1> QED BY <1>1, Invariance, PTL

\* The code asked for last wins, however the error was wrapped since and whatever
\* the coder says (ExitCodeFor, UseExitCode).
THEOREM LatestCode == Spec => []LatestCodeWins
<1>1. IInv => LatestCodeWins
  <2> SUFFICES ASSUME IInv, NEW t \in Task, sent[t] # NoCode, err[t] # NilError,
                      wanted[t] # NoCode
               PROVE  sent[t] = wanted[t]
    BY DEF LatestCodeWins
  <2>1. err[t] = made[t] /\ Outermost(made[t], wanted[t])
    BY DEF IInv, ResultIsMade, LastAsked
  <2>2. made[t] \in Errors /\ wanted[t] \in Int
    BY TasksAssumption DEF IInv, TypeOK
  <2>3. sent[t] = ExitCodeFor(err[t], coder[t])
    BY DEF IInv, SentWhenDone
  <2> QED BY <2>1, <2>2, <2>3, OutermostIsFound DEF ExitCodeFor
<1> QED BY <1>1, Invariance, PTL

\* An exit code never hides the failure, and no error becomes a success by itself.
THEOREM FailuresAreKept == Spec => []FailureIsKept
<1>1. IInv => FailureIsKept
  <2> SUFFICES ASSUME IInv, NEW t \in Task
               PROVE  /\ FailureInside(t)
                      /\ (sent[t] = 0 /\ coder[t] = NoCoder /\ err[t] # NilError)
                           => wanted[t] = 0
    BY DEF FailureIsKept
  <2>1. ASSUME sent[t] = 0, coder[t] = NoCoder, err[t] # NilError PROVE wanted[t] = 0
    <3>1. err[t] = made[t] /\ made[t] \in Errors
      BY <2>1 DEF IInv, ResultIsMade, TypeOK
    <3>2. sent[t] = ExitCodeFor(err[t], coder[t])
      BY <2>1, NoCodeAssumption DEF IInv, SentWhenDone
    <3>3. wanted[t] # NoCode
      <4>1. CASE Coded(err[t]) = {}
        BY <2>1, <3>2, <4>1 DEF ExitCodeFor, DefaultErrorExitCode
      <4>2. CASE Coded(err[t]) # {}
        BY <3>1, <4>2 DEF IInv, LastAsked
      <4> QED BY <4>1, <4>2
    <3>4. Outermost(made[t], wanted[t]) /\ wanted[t] \in Int
      BY <3>3, TasksAssumption DEF IInv, LastAsked, TypeOK
    <3> QED BY <2>1, <3>1, <3>2, <3>4, OutermostIsFound DEF ExitCodeFor
  <2> QED BY <2>1 DEF IInv
<1> QED BY <1>1, Invariance, PTL
=============================================================================
