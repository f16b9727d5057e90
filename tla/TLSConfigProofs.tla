--------------------------- MODULE TLSConfigProofs ---------------------------
(***************************************************************************)
(* Proofs about TLSConfig: for any versions and any number of files,       *)
(* Config.New is all or nothing.                                           *)
(***************************************************************************)
EXTENDS TLSConfig, TLAPS

\* What the fields of the options are.
LEMMA OptionsType ==
  ASSUME c \in Options
  PROVE  /\ c.min \in Nat /\ c.max \in Nat
         /\ c.extra \in 0..1
         /\ c.protos \in Seq({"h2"})
         /\ c.peerVerify \in {"nil", "empty", "set"}
         /\ \A l \in Lists : /\ c.files[l] \in Seq({"good", "bad"})
                             /\ Len(c.files[l]) \in 0..MaxFiles
                             /\ DOMAIN c.files[l] = 1..Len(c.files[l])
<1>1. c.min \in Versions /\ c.max \in Versions /\ c.extra \in 0..1
      /\ c.protos \in SeqOf({"h2"}, 1) /\ c.peerVerify \in {"nil", "empty", "set"}
      /\ c.files \in [Lists -> SeqOf({"good", "bad"}, MaxFiles)]
  BY DEF Options
<1>2. c.protos \in Seq({"h2"})
  <2>1. PICK m \in 0..1 : c.protos \in [1..m -> {"h2"}]
    BY <1>1 DEF SeqOf
  <2> QED BY <2>1
<1>3. ASSUME NEW l \in Lists
      PROVE  /\ c.files[l] \in Seq({"good", "bad"})
             /\ Len(c.files[l]) \in 0..MaxFiles
             /\ DOMAIN c.files[l] = 1..Len(c.files[l])
  <2>1. c.files[l] \in SeqOf({"good", "bad"}, MaxFiles)
    BY <1>1, <1>3
  <2>2. PICK m \in 0..MaxFiles : c.files[l] \in [1..m -> {"good", "bad"}]
    BY <2>1 DEF SeqOf
  <2> QED BY <2>2, VersionAssumption
<1> QED BY <1>1, <1>2, <1>3, VersionAssumption

\* Nothing is loaded, and New has returned nothing.
LEMMA InitInvariant == Init => IInv
<1> SUFFICES ASSUME Init PROVE IInv
  OBVIOUS
<1>1. NothingLoaded \in [Lists -> 0..MaxFiles] /\ NothingLoaded["clientCAs"] = 0
  BY VersionAssumption DEF NothingLoaded, Lists
<1>2. /\ c \in Options /\ stage = "nil check" /\ pos = 1 /\ result.is = "none"
      /\ pos \in 1..(MaxFiles + 1)
  <2>1. c \in Options /\ stage = "nil check" /\ pos = 1
    BY DEF Init
  <2>2. result.is = "none"
    <3>1. result = [is |-> "none"]
      BY DEF Init
    <3> QED BY <3>1
  <2>3. 1 \in 1..(MaxFiles + 1)
    BY VersionAssumption
  <2> QED BY <2>1, <2>2, <2>3
<1>3. TypeOK /\ tc.loaded = NothingLoaded /\ tc.clientAuth = "NoClientCert"
  <2> DEFINE empty == << >>
  <2>1. empty \in Seq({"h2", "http/1.1"}) /\ empty \in Seq({"config", "extra"})
    OBVIOUS
  <2>2. tc = [min |-> 0, max |-> 0, protos |-> empty, verifiers |-> empty,
              loaded |-> NothingLoaded, clientAuth |-> "NoClientCert"]
    BY DEF Init
  <2> HIDE DEF empty
  <2>3. tc \in Config /\ tc.loaded = NothingLoaded /\ tc.clientAuth = "NoClientCert"
    BY <1>1, <2>1, <2>2 DEF Config
  <2> QED BY <1>2, <2>3 DEF TypeOK, Stages
<1>4. AuthWithPool /\ tc.loaded["clientCAs"] = 0
  BY <1>1, <1>3 DEF AuthWithPool
<1>5. ReadSoFar /\ ListsInTurn /\ FirstFailure /\ StagesDone
  BY <1>2 DEF ReadSoFar, ListsInTurn, FirstFailure, StagesDone, At, Over, Returns, Lists
<1> QED BY <1>2, <1>3, <1>4, <1>5 DEF IInv, Returns

-----------------------------------------------------------------------------
(***************************************************************************)
(* The stages before the files.                                            *)
(***************************************************************************)

\* A step to the beginning of another stage, or to the end.
LEMMA TypeAfter ==
  ASSUME TypeOK, c' = c, pos' = 1, stage' \in Stages, tc' \in Config,
         \/ result' = result
         \/ result' = [is |-> "nil"] \/ result' = [is |-> "config"]
         \/ \E e \in Errors : result' = [is |-> "error", at |-> e]
  PROVE  TypeOK'
<1>1. pos' \in 1..(MaxFiles + 1)
  BY VersionAssumption
<1>2. /\ result'.is \in {"none", "nil", "config", "error"}
      /\ result'.is = "error" => result'.at \in Errors
  <2>1. CASE result' = result
    BY <2>1 DEF TypeOK
  <2>2. CASE result' = [is |-> "nil"] \/ result' = [is |-> "config"]
    BY <2>2
  <2>3. CASE \E e \in Errors : result' = [is |-> "error", at |-> e]
    BY <2>3
  <2> QED BY <2>1, <2>2, <2>3
<1>3. c' \in Options
  BY DEF TypeOK
<1> QED BY <1>1, <1>2, <1>3 DEF TypeOK

\* A nil *Config: New returns nil.
LEMMA NilConfigStep == IInv /\ NilConfig => IInv'
<1> SUFFICES ASSUME IInv, NilConfig PROVE IInv'
  OBVIOUS
<1>1. /\ stage' = "returned" /\ pos' = 1 /\ result' = [is |-> "nil"] /\ c' = c /\ tc' = tc
  BY DEF NilConfig, Return, Goto
<1>2. result'.is = "nil"
  BY <1>1
<1>3. TypeOK'
  <2>1. TypeOK /\ tc \in Config
    BY DEF IInv, TypeOK
  <2> QED BY <1>1, <2>1, TypeAfter DEF Stages
<1>4. ReadSoFar' /\ ListsInTurn' /\ FirstFailure' /\ StagesDone'
  BY <1>1, <1>2 DEF ReadSoFar, ListsInTurn, FirstFailure, StagesDone, At, Over, Returns, Lists
<1> QED BY <1>1, <1>2, <1>3, <1>4 DEF IInv, Returns, AuthWithPool

\* The versions and the protocols are those of the options.
LEMMA NotNilStep == IInv /\ NotNil => IInv'
<1> SUFFICES ASSUME IInv, NotNil PROVE IInv'
  OBVIOUS
<1>1. /\ stage' = "versions" /\ pos' = 1 /\ c' = c /\ result' = result
      /\ tc' = [tc EXCEPT !.min = c.min, !.max = c.max, !.protos = nextProtos]
      /\ stage = "nil check"
  BY DEF NotNil, Goto
<1>2. c \in Options /\ TypeOK /\ result.is = "none" /\ AuthWithPool
      /\ tc.loaded["clientCAs"] = 0
  BY <1>1 DEF IInv, TypeOK, Returns
<1>3. nextProtos \in Seq({"h2", "http/1.1"})
      /\ Range(c.protos) \subseteq Range(nextProtos) /\ nextProtos # << >>
  <2>1. CASE c.protos = << >>
    BY <2>1 DEF nextProtos, Range
  <2>2. CASE c.protos # << >>
    BY <2>2, <1>2, OptionsType DEF nextProtos, Range
  <2> QED BY <2>1, <2>2
<1>4. tc'.min = c.min /\ tc'.max = c.max /\ tc'.protos = nextProtos
      /\ tc'.loaded = tc.loaded /\ tc'.clientAuth = tc.clientAuth
  BY <1>1, <1>2 DEF TypeOK, Config
<1>5. TypeOK'
  <2>1. c.min \in Nat /\ c.max \in Nat
    BY <1>2, OptionsType
  <2>2. tc' \in Config
    BY <1>1, <1>2, <1>3, <2>1 DEF TypeOK, Config
  <2> QED BY <1>1, <1>2, <2>2, TypeAfter DEF Stages
<1>6. ReadSoFar' /\ ListsInTurn' /\ FirstFailure'
  BY <1>1, <1>2 DEF ReadSoFar, ListsInTurn, FirstFailure, At, Over, Returns, Lists
<1>7. StagesDone'
  BY <1>1, <1>2, <1>3, <1>4 DEF StagesDone, ProtocolsKept, Over, Returns, Lists
<1> QED BY <1>1, <1>2, <1>4, <1>5, <1>6, <1>7 DEF IInv, Returns, AuthWithPool

\* The minimum first, so that the maximum is compared with what it becomes.
LEMMA EnforceVersionsStep == IInv /\ enforceVersions => IInv'
<1> SUFFICES ASSUME IInv, enforceVersions PROVE IInv'
  OBVIOUS
<1> DEFINE min == IF tc.min = 0 THEN VersionTLS13 ELSE tc.min
<1> DEFINE max == IF tc.max # 0 /\ tc.max < min THEN min ELSE tc.max
<1>1. /\ stage' = "verifiers" /\ pos' = 1 /\ c' = c /\ result' = result
      /\ tc' = [tc EXCEPT !.min = min, !.max = max]
      /\ stage = "versions"
  BY DEF enforceVersions, Goto
<1>2. c \in Options /\ TypeOK /\ result.is = "none" /\ AuthWithPool
      /\ tc.loaded["clientCAs"] = 0 /\ tc.min = c.min /\ tc.max = c.max /\ ProtocolsKept
  BY <1>1 DEF IInv, TypeOK, Returns, StagesDone
<1>3. min \in Nat /\ max \in Nat
  BY <1>2 DEF TypeOK, Config, VersionTLS13
<1>4. tc'.min = min /\ tc'.max = max /\ tc'.protos = tc.protos
      /\ tc'.loaded = tc.loaded /\ tc'.clientAuth = tc.clientAuth
  BY <1>1, <1>2 DEF TypeOK, Config
<1>5. TypeOK'
  <2> HIDE DEF min, max
  <2>1. tc' \in Config
    BY <1>1, <1>2, <1>3 DEF TypeOK, Config
  <2> QED BY <1>1, <1>2, <2>1, TypeAfter DEF Stages
<1>6. ReadSoFar' /\ ListsInTurn' /\ FirstFailure'
  BY <1>1, <1>2 DEF ReadSoFar, ListsInTurn, FirstFailure, At, Over, Returns, Lists
<1>7. VersionsFit'
  <2>1. c.min \in Nat /\ c.max \in Nat
    BY <1>2, OptionsType
  <2> QED BY <1>1, <1>2, <1>4, <2>1 DEF VersionsFit, VersionTLS13
<1>8. StagesDone'
  BY <1>1, <1>2, <1>4, <1>7 DEF StagesDone, ProtocolsKept, Over, Returns, Lists
<1> QED BY <1>1, <1>2, <1>4, <1>5, <1>6, <1>8 DEF IInv, Returns, AuthWithPool

\* The verifier of the configuration, if it has a constraint, then the extra ones.
LEMMA PeerVerifiersStep == IInv /\ peerVerifiers => IInv'
<1> SUFFICES ASSUME IInv, peerVerifiers PROVE IInv'
  OBVIOUS
<1> DEFINE config == IF c.peerVerify = "set" THEN <<"config">> ELSE << >>
<1> DEFINE extra == [i \in 1..c.extra |-> "extra"]
<1>1. /\ stage' = "certificates" /\ pos' = 1 /\ c' = c /\ result' = result
      /\ tc' = [tc EXCEPT !.verifiers = config \o extra]
      /\ stage = "verifiers"
  BY DEF peerVerifiers, Goto
<1>2. c \in Options /\ TypeOK /\ result.is = "none" /\ AuthWithPool
      /\ tc.loaded["clientCAs"] = 0 /\ VersionsFit /\ ProtocolsKept
  BY <1>1 DEF IInv, TypeOK, Returns, StagesDone
<1>3. /\ config \o extra \in Seq({"config", "extra"})
      /\ Len(config \o extra) = c.extra + (IF c.peerVerify = "set" THEN 1 ELSE 0)
      /\ c.peerVerify = "set" => Head(config \o extra) = "config"
  <2>1. c.extra \in 0..1
    BY <1>2, OptionsType
  <2>2. extra \in Seq({"config", "extra"}) /\ Len(extra) = c.extra
    BY <2>1
  <2>3. config \in Seq({"config", "extra"})
    OBVIOUS
  <2> HIDE DEF extra
  <2> QED BY <2>1, <2>2, <2>3
<1>4. tc'.verifiers = config \o extra /\ tc'.min = tc.min /\ tc'.max = tc.max
      /\ tc'.protos = tc.protos /\ tc'.loaded = tc.loaded /\ tc'.clientAuth = tc.clientAuth
  BY <1>1, <1>2 DEF TypeOK, Config
<1> HIDE DEF config, extra
<1>5. TypeOK'
  <2>1. tc' \in Config
    BY <1>1, <1>2, <1>3 DEF TypeOK, Config
  <2> QED BY <1>1, <1>2, <2>1, TypeAfter DEF Stages, Lists
<1>6. ReadSoFar'
  <2>1. Len(c.files["certificates"]) \in Nat
    BY <1>2, OptionsType, VersionAssumption DEF Lists
  <2> QED BY <1>1, <2>1 DEF ReadSoFar
<1>7. ListsInTurn' /\ FirstFailure'
  BY <1>1, <1>2 DEF ListsInTurn, FirstFailure, At, Returns
<1>8. StagesDone'
  BY <1>1, <1>2, <1>3, <1>4 DEF StagesDone, ProtocolsKept, VersionsFit, VerifiersMerged, Over, Returns
<1> QED BY <1>1, <1>2, <1>4, <1>5, <1>6, <1>7, <1>8 DEF IInv, Returns, AuthWithPool

-----------------------------------------------------------------------------
(***************************************************************************)
(* The files of a list.                                                    *)
(***************************************************************************)

\* A good file: one more that was read.
LEMMA LoadStep == ASSUME NEW list \in Lists, IInv, Load(list) PROVE IInv'
<1>1. /\ stage = list /\ pos \in DOMAIN c.files[list] /\ c.files[list][pos] = "good"
      /\ pos' = pos + 1 /\ UNCHANGED <<c, stage, tc, result>>
  BY DEF Load
<1>2. c \in Options /\ TypeOK
  BY DEF IInv, TypeOK
<1>3. Len(c.files[list]) \in 0..MaxFiles /\ pos \in 1..Len(c.files[list])
  BY <1>1, <1>2, OptionsType
<1>4. TypeOK'
  <2>1. pos' \in 1..(MaxFiles + 1)
    BY <1>1, <1>3, VersionAssumption
  <2> QED BY <1>1, <1>2, <2>1 DEF TypeOK
<1>5. ReadSoFar'
  BY <1>1, <1>3 DEF IInv, ReadSoFar
<1>6. ListsInTurn' /\ FirstFailure' /\ StagesDone'
  BY <1>1, ZenonT(60) DEF IInv, ListsInTurn, FirstFailure, StagesDone, At, Over, Returns, Complete, Bad,
              VersionsFit, VerifiersMerged, ProtocolsKept
<1> QED BY <1>1, <1>2, <1>4, <1>5, <1>6 DEF IInv, Returns, AuthWithPool

\* A bad file: its error, as nothing before it was bad.
LEMMA LoadFailsStep == ASSUME NEW list \in Lists, IInv, LoadFails(list) PROVE IInv'
<1>1. /\ stage = list /\ pos \in DOMAIN c.files[list] /\ c.files[list][pos] = "bad"
      /\ stage' = "returned" /\ pos' = 1 /\ c' = c /\ tc' = tc
      /\ result' = [is |-> "error", at |-> <<list, pos>>]
  BY DEF LoadFails, Return, Goto
<1>2. c \in Options /\ TypeOK /\ result.is = "none"
  BY <1>1 DEF IInv, TypeOK, Returns, Lists
<1>3. Len(c.files[list]) \in 0..MaxFiles /\ pos \in 1..Len(c.files[list])
      /\ DOMAIN c.files[list] = 1..Len(c.files[list])
  BY <1>1, <1>2, OptionsType
<1>4. result'.is = "error" /\ result'.at = <<list, pos>>
      /\ result'.at[1] = list /\ result'.at[2] = pos
  BY <1>1
<1>5. TypeOK'
  <2>1. <<list, pos>> \in Errors
    BY <1>3, VersionAssumption DEF Errors
  <2>2. tc' \in Config
    BY <1>1, <1>2 DEF TypeOK
  <2> QED BY <1>1, <1>2, <2>1, <2>2, TypeAfter DEF Stages
<1>6. FirstFailure'
  <2>1. \A i \in 1..(pos - 1) : c.files[list][i] = "good"
    BY <1>1 DEF IInv, ReadSoFar
  <2>2. \A i \in Bad(list) : pos <= i
    BY <2>1, <1>3 DEF Bad
  <2> QED BY <1>1, <1>4, <2>2 DEF FirstFailure, Returns, Bad
<1>7. ListsInTurn'
  BY <1>1, <1>2, <1>4 DEF IInv, ListsInTurn, At, Returns, Complete, Bad, Lists
<1>8. ReadSoFar' /\ StagesDone'
  BY <1>1, <1>2, <1>4 DEF IInv, ReadSoFar, StagesDone, Over, Returns, Lists,
                          VersionsFit, VerifiersMerged, ProtocolsKept
<1> QED BY <1>1, <1>2, <1>4, <1>5, <1>6, <1>7, <1>8 DEF IInv, Returns, AuthWithPool, Lists

\* The end of a list: it is complete, and the last one ends New.
LEMMA LoadedStep == ASSUME NEW list \in Lists, IInv, Loaded(list) PROVE IInv'
<1>1. /\ stage = list /\ pos > Len(c.files[list]) /\ c' = c
      /\ tc' = Filled(list) /\ pos' = 1
      /\ IF list = "clientCAs" THEN stage' = "returned" /\ result' = [is |-> "config"]
                               ELSE stage' = After(list) /\ result' = result
  BY DEF Loaded, Return, Goto
<1>2. c \in Options /\ TypeOK /\ result.is = "none" /\ tc.loaded["clientCAs"] = 0
      /\ AuthWithPool
  BY <1>1 DEF IInv, TypeOK, Returns, Lists
<1>3. Len(c.files[list]) \in 0..MaxFiles /\ pos = Len(c.files[list]) + 1
      /\ DOMAIN c.files[list] = 1..Len(c.files[list])
  <2>1. Len(c.files[list]) \in 0..MaxFiles /\ DOMAIN c.files[list] = 1..Len(c.files[list])
    BY <1>2, OptionsType
  <2>2. pos <= Len(c.files[list]) + 1 /\ pos \in Nat
    BY <1>1, <1>2 DEF IInv, ReadSoFar, TypeOK
  <2> QED BY <1>1, <2>1, <2>2, VersionAssumption
<1>4. Bad(list) = {}
  <2>1. \A i \in 1..(pos - 1) : c.files[list][i] = "good"
    BY <1>1 DEF IInv, ReadSoFar
  <2> QED BY <2>1, <1>3 DEF Bad
<1>5. /\ tc'.loaded = [tc.loaded EXCEPT ![list] = pos - 1]
      /\ tc'.clientAuth = IF list = "clientCAs" /\ pos > 1
                          THEN "RequireAndVerifyClientCert" ELSE tc.clientAuth
      /\ tc'.min = tc.min /\ tc'.max = tc.max /\ tc'.protos = tc.protos
      /\ tc'.verifiers = tc.verifiers
      /\ tc' \in Config
  <2>1. pos - 1 \in 0..MaxFiles
    BY <1>3, VersionAssumption
  <2> QED BY <1>1, <1>2, <2>1 DEF Filled, TypeOK, Config
<1>6. /\ Complete(list)'
      /\ \A l \in Lists \ {list} : Complete(l) => Complete(l)'
  BY <1>1, <1>2, <1>3, <1>4, <1>5, VersionAssumption DEF Complete, Bad, TypeOK, Config
<1>7. AuthWithPool' /\ (list # "clientCAs" => tc'.loaded["clientCAs"] = 0)
  BY <1>2, <1>3, <1>5, VersionAssumption, SMTT(30) DEF AuthWithPool, TypeOK, Config, Lists
<1>8. VersionsFit' /\ VerifiersMerged' /\ ProtocolsKept'
  BY <1>1, <1>2, <1>5 DEF IInv, StagesDone, VersionsFit, VerifiersMerged, ProtocolsKept,
                          Returns, Lists
<1>9. CASE list = "clientCAs"
  <2>1. stage' = "returned" /\ result' = [is |-> "config"] /\ result'.is = "config"
    BY <1>1, <1>9
  <2>2. TypeOK'
    BY <1>1, <1>2, <1>5, <2>1, TypeAfter DEF Stages
  <2>3. ListsInTurn'
    BY <1>1, <1>6, <1>9, <2>1 DEF IInv, ListsInTurn, At, Returns, Lists
  <2>4. ReadSoFar' /\ FirstFailure' /\ StagesDone'
    BY <2>1, <1>8 DEF ReadSoFar, FirstFailure, StagesDone, Over, Returns, Lists
  <2> QED BY <1>1, <1>2, <1>7, <2>1, <2>2, <2>3, <2>4 DEF IInv, Returns
<1>10. CASE list # "clientCAs"
  <2>1. /\ result' = result
        /\ \/ list = "certificates" /\ stage' = "rootCAs"
           \/ list = "rootCAs" /\ stage' = "clientCAs"
    BY <1>1, <1>10 DEF After, Lists
  <2>2. TypeOK'
    BY <1>1, <1>2, <1>5, <2>1, TypeAfter DEF Stages, Lists
  <2>3. ListsInTurn'
    BY <1>1, <1>2, <1>6, <2>1 DEF IInv, ListsInTurn, At, Returns, Lists
  <2>4. ReadSoFar'
    <3>1. stage' \in Lists /\ Len(c.files[stage']) \in Nat
      BY <1>2, <2>1, OptionsType, VersionAssumption DEF Lists
    <3> QED BY <1>1, <3>1 DEF ReadSoFar
  <2>5. FirstFailure' /\ StagesDone'
    BY <1>2, <2>1, <1>8 DEF FirstFailure, StagesDone, Over, Returns, Lists
  <2> QED BY <1>1, <1>2, <1>7, <1>10, <2>1, <2>2, <2>3, <2>4, <2>5 DEF IInv, Returns
<1> QED BY <1>9, <1>10

-----------------------------------------------------------------------------
\* Every step of New keeps the invariant.
LEMMA NextInvariant == IInv /\ [Next]_vars => IInv'
<1> SUFFICES ASSUME IInv, [Next]_vars PROVE IInv'
  OBVIOUS
<1>1. CASE NilConfig
  BY <1>1, NilConfigStep
<1>2. CASE NotNil
  BY <1>2, NotNilStep
<1>3. CASE enforceVersions
  BY <1>3, EnforceVersionsStep
<1>4. CASE peerVerifiers
  BY <1>4, PeerVerifiersStep
<1>5. ASSUME NEW list \in Lists, Load(list) \/ LoadFails(list) \/ Loaded(list)
      PROVE  IInv'
  BY <1>5, LoadStep, LoadFailsStep, LoadedStep
<1>6. CASE UNCHANGED vars
  BY <1>6, ZenonT(60) DEF vars, IInv, TypeOK, AuthWithPool, ReadSoFar, ListsInTurn, FirstFailure,
              StagesDone, At, Over, Returns, Complete, Bad, VersionsFit, VerifiersMerged,
              ProtocolsKept
<1> QED BY <1>1, <1>2, <1>3, <1>4, <1>5, <1>6 DEF Next

\* The inductive invariant of Config.New: what is read so far is good, and a
\* list is complete before the next is begun (certificates, tls.go:347-377).
THEOREM Invariance == Spec => []IInv
<1> QED BY InitInvariant, NextInvariant, PTL DEF Spec

\* The files of all three lists are in the configuration that New returns, with
\* the verifiers, or the error is that of the first file that fails.
THEOREM AllOrNothing == Spec => []NothingLeftOut
<1>1. IInv => NothingLeftOut
  <2> SUFFICES ASSUME IInv PROVE NothingLeftOut
    OBVIOUS
  <2>1. Returns("config") => (\A l \in Lists : Complete(l)) /\ VerifiersMerged /\ ProtocolsKept
    BY DEF IInv, ListsInTurn, StagesDone, Over, Lists, Returns
  <2>2. ASSUME Returns("error")
        PROVE  /\ result.at[1] \in Pools => Bad("certificates") = {}
               /\ result.at[1] = "clientCAs" => Bad("rootCAs") = {}
    BY <2>2 DEF IInv, ListsInTurn, At, Pools, Complete
  <2> QED BY <2>1, <2>2 DEF NothingLeftOut, IInv, FirstFailure
<1> QED BY <1>1, Invariance, PTL

\* New demands client certificates exactly when it has client CAs (tls.go:363-370).
THEOREM DemandsWhatItVerifies == Spec => []MutualTLS
<1>1. IInv => MutualTLS
  BY DEF IInv, MutualTLS
<1> QED BY <1>1, Invariance, PTL

\* The versions that enforceVersions leaves make a range (tls.go:321-336).
THEOREM VersionsMakeRange == Spec => []VersionRange
<1>1. IInv => VersionRange
  BY DEF IInv, VersionRange, StagesDone, Over
<1> QED BY <1>1, Invariance, PTL

\* The fields of the configuration under construction keep their types.
THEOREM TypeCorrect == Spec => []TypeOK
<1>1. IInv => TypeOK
  BY DEF IInv
<1> QED BY <1>1, Invariance, PTL
=============================================================================
