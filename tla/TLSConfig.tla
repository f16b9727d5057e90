----------------------------- MODULE TLSConfig -----------------------------
(***************************************************************************)
(* Config.New of arrangetls/tls.go: a tls.Config out of unmarshaled        *)
(* options, with the certificates and the certificate pools read from      *)
(* files, one after the other, any of which may fail.                      *)
(***************************************************************************)
EXTENDS Integers, Sequences, SequencesExt

CONSTANTS
  Versions,   \* bound: the TLS versions that options name, 0 for none
  MaxFiles    \* bound: files in each of the three lists

VersionTLS13 == 772
Lists == {"certificates", "rootCAs", "clientCAs"}

ASSUME VersionAssumption == Versions \subseteq Nat /\ MaxFiles \in Nat

(***************************************************************************)
(* Of a file it matters whether it loads: a "bad" one cannot be read, has  *)
(* no certificate in it or, of a certificate with its key, has no name.    *)
(* protos is the NextProtos field.  peerVerify is the PeerVerify field:    *)
(* nil, without a constraint, or set.                                      *)
(***************************************************************************)
Options == [min : Versions, max : Versions,
            files : [Lists -> SeqOf({"good", "bad"}, MaxFiles)],
            protos : SeqOf({"h2"}, 1),
            peerVerify : {"nil", "empty", "set"}, extra : 0..1]

VARIABLES
  c,       \* the options
  stage,   \* what New does next
  pos,     \* the file it is about to read
  tc,      \* the tls.Config under construction
  result   \* what New has returned: "none" so far, "nil", "config" or an error

vars == <<c, stage, pos, tc, result>>

Stages == Lists \cup {"nil check", "versions", "verifiers", "returned"}
Pools == {"rootCAs", "clientCAs"}
Errors == Lists \X (1..MaxFiles)

Config == [min : Nat, max : Nat, protos : Seq({"h2", "http/1.1"}),
           verifiers : Seq({"config", "extra"}), loaded : [Lists -> 0..MaxFiles],
           clientAuth : {"NoClientCert", "RequireAndVerifyClientCert"}]

TypeOK ==
  /\ c \in Options
  /\ stage \in Stages
  /\ pos \in 1..(MaxFiles + 1)
  /\ tc \in Config
  /\ result.is \in {"none", "nil", "config", "error"}
  /\ result.is = "error" => result.at \in Errors

\* how many files of each list are loaded; a pool with none is nil
NothingLoaded == [l \in Lists |-> 0]

Init ==
  /\ c \in Options
  /\ stage = "nil check"
  /\ pos = 1
  /\ tc = [min |-> 0, max |-> 0, protos |-> << >>, verifiers |-> << >>,
           loaded |-> NothingLoaded, clientAuth |-> "NoClientCert"]
  /\ result = [is |-> "none"]

Goto(s) == stage' = s /\ pos' = 1
Return(r) == result' = r /\ Goto("returned")

-----------------------------------------------------------------------------
\* the *Config may be nil: then New gives a nil *tls.Config, and no error
NilConfig ==
  /\ stage = "nil check"
  /\ Return([is |-> "nil"])
  /\ UNCHANGED <<c, tc>>

\* the protocols of the options, or http/1.1 when there are none
nextProtos == IF c.protos = << >> THEN <<"http/1.1">> ELSE c.protos

NotNil ==
  /\ stage = "nil check"
  /\ Goto("versions")
  /\ tc' = [tc EXCEPT !.min = c.min, !.max = c.max, !.protos = nextProtos]
  /\ UNCHANGED <<c, result>>

(***************************************************************************)
(* enforceVersions: TLS 1.3 at least when no minimum is given, and no      *)
(* maximum below the minimum that results.  enforceVersions_MaxFirst has   *)
(* the two in the other order.                                             *)
(***************************************************************************)
enforceVersions_MaxFirst ==
  /\ stage = "versions"
  /\ tc' = [tc EXCEPT !.max = IF tc.max # 0 /\ tc.max < tc.min THEN tc.min ELSE tc.max,
                      !.min = IF tc.min = 0 THEN VersionTLS13 ELSE tc.min]
  /\ Goto("verifiers")
  /\ UNCHANGED <<c, result>>

enforceVersions ==
  LET min == IF tc.min = 0 THEN VersionTLS13 ELSE tc.min IN
  /\ stage = "versions"
  /\ tc' = [tc EXCEPT !.min = min,
                      !.max = IF tc.max # 0 /\ tc.max < min THEN min ELSE tc.max]
  /\ Goto("verifiers")
  /\ UNCHANGED <<c, result>>

\* PeerVerify.AppendTo, Append(extra...) and SetTo.  peerVerifiers_NoNilCheck
\* appends what Verifier returned without a constraint, which is nil.
peerVerifiers_NoNilCheck ==
  LET config == CASE c.peerVerify = "nil" -> << >>
                  [] c.peerVerify = "empty" -> <<"nil">>
                  [] c.peerVerify = "set" -> <<"config">> IN
  /\ stage = "verifiers"
  /\ tc' = [tc EXCEPT !.verifiers = config \o [i \in 1..c.extra |-> "extra"]]
  /\ Goto("certificates")
  /\ UNCHANGED <<c, result>>

peerVerifiers ==
  /\ stage = "verifiers"
  /\ tc' = [tc EXCEPT !.verifiers = (IF c.peerVerify = "set" THEN <<"config">> ELSE << >>)
                                    \o [i \in 1..c.extra |-> "extra"]]
  /\ Goto("certificates")
  /\ UNCHANGED <<c, result>>

-----------------------------------------------------------------------------
(***************************************************************************)
(* certificates: the three lists in turn.  ExternalCertificates.AppendTo   *)
(* and ExternalCertPool.AppendTo stop at the first file that does not      *)
(* load, and so does New.                                                  *)
(***************************************************************************)
After(list) == CASE list = "certificates" -> "rootCAs"
                 [] list = "rootCAs" -> "clientCAs"
                 [] list = "clientCAs" -> "returned"

\* As LoadFails, with the file that fails left out.
LoadFails_Skip(list) ==
  /\ stage = list /\ pos \in DOMAIN c.files[list]
  /\ c.files[list][pos] = "bad"
  /\ pos' = pos + 1
  /\ UNCHANGED <<c, stage, tc, result>>

LoadFails(list) ==
  /\ stage = list /\ pos \in DOMAIN c.files[list]
  /\ c.files[list][pos] = "bad"
  /\ Return([is |-> "error", at |-> <<list, pos>>])
  /\ UNCHANGED <<c, tc>>

Load(list) ==
  /\ stage = list /\ pos \in DOMAIN c.files[list]
  /\ c.files[list][pos] = "good"
  /\ pos' = pos + 1
  /\ UNCHANGED <<c, stage, tc, result>>

\* A pool is set when it is not empty; client certificates are required when
\* the pool is that of the client CAs.  Filled_AnyPool requires them for both.
Filled_AnyPool(list) ==
  [tc EXCEPT !.loaded[list] = pos - 1,
             !.clientAuth = IF list \in Pools /\ pos > 1
                            THEN "RequireAndVerifyClientCert" ELSE @]

Filled(list) ==
  [tc EXCEPT !.loaded[list] = pos - 1,
             !.clientAuth = IF list = "clientCAs" /\ pos > 1
                            THEN "RequireAndVerifyClientCert" ELSE @]

Loaded(list) ==
  /\ stage = list /\ pos > Len(c.files[list])
  /\ tc' = Filled(list)
  /\ IF list = "clientCAs"
     THEN Return([is |-> "config"])
     ELSE Goto(After(list)) /\ UNCHANGED result
  /\ UNCHANGED c

Next ==
  \/ NilConfig \/ NotNil
  \/ enforceVersions \/ peerVerifiers
  \/ \E list \in Lists : Load(list) \/ LoadFails(list) \/ Loaded(list)

Spec == Init /\ [][Next]_vars

-----------------------------------------------------------------------------
Returns(what) == result.is = what
Bad(l) == {i \in DOMAIN c.files[l] : c.files[l][i] = "bad"}
Complete(l) == Bad(l) = {} /\ tc.loaded[l] = Len(c.files[l])

VerifiersMerged ==
  /\ Len(tc.verifiers) = c.extra + (IF c.peerVerify = "set" THEN 1 ELSE 0)
  /\ c.peerVerify = "set" => Head(tc.verifiers) = "config"

ProtocolsKept == Range(c.protos) \subseteq Range(tc.protos) /\ tc.protos # << >>

(***************************************************************************)
(* New returns a configuration only when every file of every list was      *)
(* loaded, and all of them are in it, with the verifiers: that of a        *)
(* PeerVerify which has a constraint, then those of the application        *)
(* (tls.go:304-306).  Otherwise it returns the error of the first file     *)
(* that fails, the certificates before the root CAs and these before the   *)
(* client CAs (tls.go:347-377, 402).                                       *)
(***************************************************************************)
NothingLeftOut ==
  /\ Returns("config") => (\A l \in Lists : Complete(l)) /\ VerifiersMerged /\ ProtocolsKept
  /\ Returns("error") =>
       LET l == result.at[1] IN
       /\ result.at[2] \in Bad(l) /\ \A i \in Bad(l) : result.at[2] <= i
       /\ l \in Pools => Bad("certificates") = {}
       /\ l = "clientCAs" => Bad("rootCAs") = {}

(***************************************************************************)
(* The configuration demands client certificates exactly when there are    *)
(* client CAs to verify them with; root CAs alone never do (tls.go:363).   *)
(***************************************************************************)
AuthWithPool ==
  tc.clientAuth = "RequireAndVerifyClientCert" <=> tc.loaded["clientCAs"] > 0

MutualTLS == Returns("config") => AuthWithPool

(***************************************************************************)
(* The versions of the configuration make a range that is not empty, at    *)
(* TLS 1.3 when no minimum was given, and options that already make one    *)
(* are left as they are (tls.go:321-336).                                  *)
(***************************************************************************)
VersionsFit ==
  /\ tc.min = IF c.min = 0 THEN VersionTLS13 ELSE c.min
  /\ tc.max # 0 => tc.max >= tc.min
  /\ (c.max = 0 \/ c.max >= tc.min) => tc.max = c.max

VersionRange == Returns("config") => VersionsFit

-----------------------------------------------------------------------------
(***************************************************************************)
(* The inductive invariant: what each stage leaves behind.  What has been  *)
(* read of a list so far is good; a list is complete before the next one   *)
(* is begun; and the demand for client certificates follows the pool.      *)
(***************************************************************************)
At(list) == stage = list \/ (Returns("error") /\ result.at[1] = list)
Over == Returns("config") \/ Returns("error")

ReadSoFar ==
  stage \in Lists =>
    pos <= Len(c.files[stage]) + 1 /\ \A i \in 1..(pos - 1) : c.files[stage][i] = "good"

ListsInTurn ==
  /\ At("rootCAs") \/ At("clientCAs") \/ Returns("config") => Complete("certificates")
  /\ At("clientCAs") \/ Returns("config") => Complete("rootCAs")
  /\ Returns("config") => Complete("clientCAs")

FirstFailure ==
  Returns("error") =>
    /\ result.at[2] \in Bad(result.at[1])
    /\ \A i \in Bad(result.at[1]) : result.at[2] <= i

StagesDone ==
  /\ stage = "versions" => tc.min = c.min /\ tc.max = c.max
  /\ stage \in {"verifiers"} \cup Lists \/ Over => VersionsFit
  /\ stage \in Lists \/ Over => VerifiersMerged
  /\ stage # "nil check" /\ ~Returns("nil") => ProtocolsKept

IInv ==
  /\ TypeOK
  /\ stage = "returned" <=> ~Returns("none")
  /\ stage # "returned" => tc.loaded["clientCAs"] = 0
  /\ AuthWithPool
  /\ ReadSoFar
  /\ ListsInTurn
  /\ FirstFailure
  /\ StagesDone
=============================================================================
