--------------------------- MODULE PeerVerifiers ---------------------------
(***************************************************************************)
(* PeerVerifiers and PeerVerifyConfig of arrangetls/tls.go: sequences of   *)
(* peer verifiers that are built by an application while a tls.Config that *)
(* was given one of them (SetTo) verifies the certificates of a handshake. *)
(*                                                                         *)
(* A PeerVerifiers wraps a slice, and a slice shares its array with other  *)
(* slices, so the arrays are part of the state: the first one belongs to   *)
(* the caller, who passes a prefix of it as the variadic arguments and is  *)
(* free to overwrite it.                                                   *)
(***************************************************************************)
EXTENDS Integers, Sequences, SequencesExt

CONSTANTS
  Plain,          \* verifiers written by the application
  PeerVerifyConfig, \* the configurations whose Verifier is used
  Unset,          \* what an array holds beyond every length
  Cert,           \* the certificates that a peer may present
  ArgsLen,        \* bound: the length of the caller's array
  MaxLen,         \* bound: verifiers in a sequence
  MaxSequences,   \* bound: PeerVerifiers values
  MaxSpare,       \* bound: capacity append leaves beyond the length
  MaxCerts        \* bound: certificates in a handshake

(***************************************************************************)
(* Of a configuration it matters whether it has DNS suffixes and common    *)
(* names.  Of a certificate, whether it can be parsed, whether one of its  *)
(* DNS names or its common name ends in a configured suffix, case aside,   *)
(* whether its common name is a configured one, and which of the           *)
(* application's verifiers accept it.                                      *)
(***************************************************************************)
ASSUME PeerAssumption ==
  /\ PeerVerifyConfig \subseteq [suffixes : BOOLEAN, commonNames : BOOLEAN]
  /\ Cert \subseteq [parses : BOOLEAN, dns : BOOLEAN, cnSuffix : BOOLEAN, cn : BOOLEAN,
                     accepted : SUBSET Plain]
  /\ Plain \cap PeerVerifyConfig = {}
  /\ Unset \notin Plain \cup PeerVerifyConfig
  /\ ArgsLen \in Nat \ {0} /\ MaxLen \in Nat /\ MaxSpare \in Nat

\* Verifier returns nil for a configuration without a constraint
Configured == {pvc \in PeerVerifyConfig : pvc.suffixes \/ pvc.commonNames}
Verifier == Plain \cup Configured

VARIABLES
  arrays,     \* the backing arrays, the caller's first
  made,       \* the PeerVerifiers values: an array and a length
  meant,      \* what each of them was when it was made
  installed,  \* the one in tls.Config.VerifyPeerCertificate, 0 if none
  handshake   \* the handshake that uses tls.Config

vars == <<arrays, made, meant, installed, handshake>>

Slice == [at : Nat, len : 0..MaxLen]

\* result "none": no handshake yet.  It verifies certificate cert with verifier
\* pv, or parses it when pv = 0.
Handshake == [certs : Seq(Cert), cert : Nat, pv : Nat,
              result : {"none", "verifying", "accepted", "parse error", "refused"}]

TypeOK ==
  /\ arrays \in Seq(Seq(Verifier \cup {Unset})) /\ arrays # << >>
  /\ arrays[1] \in [1..ArgsLen -> Verifier]
  /\ made \in Seq(Slice)
  /\ \A i \in DOMAIN made :
       /\ made[i].at \in DOMAIN arrays
       /\ made[i].len <= Len(arrays[made[i].at])
  /\ meant \in Seq(Seq(Verifier)) /\ Len(meant) = Len(made)
  /\ installed \in 0..Len(made)
  /\ handshake \in Handshake

Init ==
  /\ \E args \in [1..ArgsLen -> Verifier] : arrays = <<args>>
  /\ made = <<[at |-> 1, len |-> 0]>>     \* the zero value
  /\ meant = <<<< >>>>
  /\ installed = 0
  /\ handshake = [certs |-> << >>, cert |-> 1, pv |-> 0, result |-> "none"]

-----------------------------------------------------------------------------
Elements(slice) == SubSeq(arrays[slice.at], 1, slice.len)

Args(n) == [at |-> 1, len |-> n]

\* As Alloc, with the length that make was given where a capacity was meant.
Alloc_Length(elements) ==
  /\ \E spare \in 0..MaxSpare :
       /\ arrays' = Append(arrays, [i \in 1..spare |-> Unset] \o elements)
       /\ made' = Append(made, [at |-> Len(arrays) + 1, len |-> Len(elements) + spare])

\* a fresh array with the given elements, and whatever capacity append gave it
Alloc(elements) ==
  /\ \E spare \in 0..MaxSpare :
       arrays' = Append(arrays, elements \o [i \in 1..spare |-> Unset])
  /\ made' = Append(made, [at |-> Len(arrays) + 1, len |-> Len(elements)])

Room(n) == Len(made) < MaxSequences /\ n <= MaxLen

\* As NewPeerVerifiers, keeping the slice of the arguments.
NewPeerVerifiers_NoCopy(n) ==
  /\ Room(n)
  /\ made' = Append(made, Args(n))
  /\ meant' = Append(meant, Elements(Args(n)))
  /\ UNCHANGED <<arrays, installed, handshake>>

NewPeerVerifiers(n) ==
  /\ Room(n)
  /\ Alloc(Elements(Args(n)))
  /\ meant' = Append(meant, Elements(Args(n)))
  /\ UNCHANGED <<installed, handshake>>

(***************************************************************************)
(* Append of the elements of a slice to a sequence: the sequence as it is  *)
(* when there is nothing to append, otherwise a copy of both.              *)
(* AppendSlice_InPlace uses the spare capacity of the sequence, as append  *)
(* does to a slice that was not copied first.                              *)
(***************************************************************************)
AppendSlice_InPlace(i, more) ==
  LET pvs == made[i]  n == pvs.len + more.len IN
  /\ Room(n)
  /\ meant' = Append(meant, Elements(pvs) \o Elements(more))
  /\ IF n <= Len(arrays[pvs.at]) /\ pvs.len > 0
     THEN /\ arrays' = [arrays EXCEPT ![pvs.at] =
               [k \in DOMAIN @ |-> IF k \in (pvs.len + 1)..n
                                   THEN Elements(more)[k - pvs.len] ELSE @[k]]]
          /\ made' = Append(made, [at |-> pvs.at, len |-> n])
     ELSE Alloc(Elements(pvs) \o Elements(more))
  /\ UNCHANGED <<installed, handshake>>

AppendSlice(i, more) ==
  LET pvs == made[i] IN
  /\ Room(pvs.len + more.len)
  /\ meant' = Append(meant, Elements(pvs) \o Elements(more))
  /\ IF more.len > 0
     THEN Alloc(Elements(pvs) \o Elements(more))
     ELSE made' = Append(made, pvs) /\ UNCHANGED arrays
  /\ UNCHANGED <<installed, handshake>>

AppendArgs(i, n) == AppendSlice(i, Args(n))
Extend(i, j) == AppendSlice(i, made[j])

\* The caller reuses the array it passed
Overwrite(k, v) ==
  /\ arrays[1][k] # v
  /\ arrays' = [arrays EXCEPT ![1][k] = v]
  /\ UNCHANGED <<made, meant, installed, handshake>>

\* an empty sequence leaves tls.Config.VerifyPeerCertificate alone
SetTo(i) ==
  /\ handshake.result = "none"
  /\ made[i].len > 0
  /\ installed' = i
  /\ UNCHANGED <<arrays, made, meant, handshake>>

-----------------------------------------------------------------------------
(***************************************************************************)
(* PeerVerifyConfig.verify, and a verifier's verdict on a certificate.     *)
(***************************************************************************)
verify(pvc, cert) ==
  \/ pvc.suffixes /\ (cert.dns \/ cert.cnSuffix)
  \/ pvc.commonNames /\ cert.cn

Accepts(v, cert) == IF v \in Plain THEN v \in cert.accepted ELSE verify(v, cert)

(***************************************************************************)
(* VerifyPeerCertificate, called by crypto/tls in a handshake: certificate *)
(* by certificate, verifier by verifier, up to the first error.            *)
(***************************************************************************)
Begin ==
  /\ handshake.result = "none"
  /\ installed > 0
  /\ \E certs \in SeqOf(Cert, MaxCerts) :
       handshake' = [certs |-> certs, cert |-> 1, pv |-> 0, result |-> "verifying"]
  /\ UNCHANGED <<arrays, made, meant, installed>>

Current == handshake.certs[handshake.cert]
Verifying == handshake.result = "verifying" /\ handshake.cert <= Len(handshake.certs)

Parse ==
  /\ Verifying /\ handshake.pv = 0
  /\ handshake' = IF Current.parses THEN [handshake EXCEPT !.pv = 1]
                  ELSE [handshake EXCEPT !.result = "parse error"]
  /\ UNCHANGED <<arrays, made, meant, installed>>

\* As Verify, where the first verifier that accepts a certificate is enough.
Verify_Any ==
  /\ Verifying /\ handshake.pv > 0
  /\ handshake' =
       IF Accepts(Elements(made[installed])[handshake.pv], Current)
       THEN [handshake EXCEPT !.cert = @ + 1, !.pv = 0]
       ELSE IF handshake.pv < made[installed].len
       THEN [handshake EXCEPT !.pv = @ + 1]
       ELSE [handshake EXCEPT !.result = "refused"]
  /\ UNCHANGED <<arrays, made, meant, installed>>

Verify ==
  /\ Verifying /\ handshake.pv > 0
  /\ handshake' =
       IF ~Accepts(Elements(made[installed])[handshake.pv], Current)
       THEN [handshake EXCEPT !.result = "refused"]
       ELSE IF handshake.pv < made[installed].len
       THEN [handshake EXCEPT !.pv = @ + 1]
       ELSE [handshake EXCEPT !.cert = @ + 1, !.pv = 0]
  /\ UNCHANGED <<arrays, made, meant, installed>>

Accepted ==
  /\ handshake.result = "verifying" /\ handshake.cert > Len(handshake.certs)
  /\ handshake' = [handshake EXCEPT !.result = "accepted"]
  /\ UNCHANGED <<arrays, made, meant, installed>>

Next ==
  \/ \E n \in 0..ArgsLen : NewPeerVerifiers(n)
  \/ \E i \in DOMAIN made :
       \/ \E n \in 0..ArgsLen : AppendArgs(i, n)
       \/ \E j \in DOMAIN made : Extend(i, j)
       \/ SetTo(i)
  \/ \E k \in 1..ArgsLen, v \in Verifier : Overwrite(k, v)
  \/ Begin \/ Parse \/ Verify \/ Accepted

Spec == Init /\ [][Next]_vars

-----------------------------------------------------------------------------
(***************************************************************************)
(* PeerVerifiers is immutable (tls.go:39, 103): every value is what it was *)
(* when New, Append or Extend returned it, the concatenation it was asked  *)
(* for, whatever is later built from it, from its arguments or in their    *)
(* array.                                                                  *)
(***************************************************************************)
Immutable == \A i \in DOMAIN made : Elements(made[i]) = meant[i]

(***************************************************************************)
(* A handshake that is accepted had every certificate parsed and accepted  *)
(* by every verifier of the sequence as it was given to SetTo; a handshake *)
(* that is refused has a certificate that one of those verifiers refuses.  *)
(***************************************************************************)
VerdictIsMeant ==
  LET pvs == Range(meant[installed])  certs == Range(handshake.certs) IN
  /\ handshake.result = "accepted" =>
       \A c \in certs : c.parses /\ \A v \in pvs : Accepts(v, c)
  /\ handshake.result = "refused" =>
       \E c \in certs : c.parses /\ \E v \in pvs : ~Accepts(v, c)

(***************************************************************************)
(* tls.go:114-115 and 122: a DNS name of "at least (1) peer cert must have *)
(* one of these suffixes", and the common names are those that "at least   *)
(* (1) peer cert must have": a configuration does not refuse a peer that   *)
(* presents a certificate it accepts.                                      *)
(***************************************************************************)
OneCertSuffices ==
  (handshake.result = "refused" /\ \A i \in DOMAIN meant[installed] :
                                      meant[installed][i] \in PeerVerifyConfig) =>
    \E v \in Range(meant[installed]) :
      \A c \in Range(handshake.certs) : c.parses => ~Accepts(v, c)

-----------------------------------------------------------------------------
(***************************************************************************)
(* The inductive invariant behind Immutable and VerdictIsMeant: only a     *)
(* sequence without an element may have the caller's array, only one with  *)
(* an element is installed, and what the handshake has gone through so far *)
(* was accepted.                                                           *)
(***************************************************************************)
OwnArray == \A i \in DOMAIN made : made[i].at = 1 => made[i].len = 0

InstalledNotEmpty == installed > 0 => made[installed].len > 0

AllAccept(cert) ==
  cert.parses /\ \A m \in DOMAIN meant[installed] : Accepts(meant[installed][m], cert)

Progress ==
  LET h == handshake IN
  h.result # "none" =>
    /\ installed > 0
    /\ h.cert \in 1..(Len(h.certs) + 1)
    /\ \A k \in 1..(h.cert - 1) : AllAccept(h.certs[k])
    /\ h.pv > 0 =>
         /\ h.cert <= Len(h.certs) /\ h.pv <= made[installed].len
         /\ h.certs[h.cert].parses
         /\ \A m \in 1..(h.pv - 1) : Accepts(meant[installed][m], h.certs[h.cert])
    /\ h.result = "accepted" => h.cert = Len(h.certs) + 1
    /\ h.result = "refused" => h.pv > 0 /\ ~Accepts(meant[installed][h.pv], h.certs[h.cert])

IInv == TypeOK /\ Immutable /\ OwnArray /\ InstalledNotEmpty /\ Progress
=============================================================================
