------------------------ MODULE PeerVerifiersProofs ------------------------
(***************************************************************************)
(* Proofs about PeerVerifiers: sequences of verifiers are immutable, and a *)
(* handshake is judged by the sequence that was installed, whatever the    *)
(* verifiers, certificates and bounds.                                     *)
(***************************************************************************)
EXTENDS PeerVerifiers, SequenceTheorems, TLAPS

-----------------------------------------------------------------------------
\* What a slice holds when its array was made by Alloc.
LEMMA PrefixOfConcat ==
  ASSUME NEW S, NEW s \in Seq(S), NEW n \in Nat, NEW x
  PROVE  /\ s \o [i \in 1..n |-> x] \in Seq(S \cup {x})
         /\ Len(s \o [i \in 1..n |-> x]) = Len(s) + n
         /\ SubSeq(s \o [i \in 1..n |-> x], 1, Len(s)) = s
<1> DEFINE t == [i \in 1..n |-> x]
           st == s \o t
<1>1. s \in Seq(S \cup {x}) /\ t \in Seq(S \cup {x}) /\ Len(t) = n
  BY SMT
<1>2. st \in Seq(S \cup {x}) /\ Len(st) = Len(s) + n
  BY <1>1, ConcatProperties
<1>3. \A i \in 1..Len(s) : st[i] = s[i]
  BY <1>1, ConcatProperties
<1>4. SubSeq(st, 1, Len(s)) = s
  <2>1. /\ SubSeq(st, 1, Len(s)) \in Seq(S \cup {x})
        /\ Len(SubSeq(st, 1, Len(s))) = Len(s)
        /\ \A i \in 1..Len(s) : SubSeq(st, 1, Len(s))[i] = st[i]
    BY <1>1, <1>2, SMT
  <2> QED BY <1>1, <1>3, <2>1, SeqEqual
<1> QED BY <1>2, <1>4

-----------------------------------------------------------------------------
\* Args(n) is a sequence of verifiers.
LEMMA ArgsElements ==
  ASSUME TypeOK, NEW n \in 0..ArgsLen
  PROVE  Elements(Args(n)) \in Seq(Verifier) /\ Len(Elements(Args(n))) = n
<1>1. arrays[1] \in Seq(Verifier) /\ Len(arrays[1]) = ArgsLen
  BY PeerAssumption DEF TypeOK
<1> QED BY <1>1, PeerAssumption DEF Elements, Args

\* So is what a value was meant to be, and it is as long as the value.
LEMMA MadeElements ==
  ASSUME TypeOK, Immutable, NEW i \in DOMAIN made
  PROVE  /\ Elements(made[i]) = meant[i]
         /\ meant[i] \in Seq(Verifier)
         /\ Len(meant[i]) = made[i].len
         /\ made[i] \in Slice
<1>1. made[i] \in Slice /\ meant[i] \in Seq(Verifier) /\ Elements(made[i]) = meant[i]
  BY DEF TypeOK, Immutable
<1>2. /\ arrays[made[i].at] \in Seq(Verifier \cup {Unset})
      /\ made[i].len <= Len(arrays[made[i].at])
      /\ made[i].len \in Nat
  BY <1>1, PeerAssumption DEF TypeOK, Slice
<1>3. Len(Elements(made[i])) = made[i].len
  BY <1>2 DEF Elements
<1> QED BY <1>1, <1>3

-----------------------------------------------------------------------------
(***************************************************************************)
(* A value made in an array of its own leaves all others as they are.      *)
(***************************************************************************)
LEMMA AllocStep ==
  ASSUME IInv, NEW e \in Seq(Verifier), Room(Len(e)), Alloc(e),
         meant' = Append(meant, e), UNCHANGED <<installed, handshake>>
  PROVE  IInv'
<1> USE PeerAssumption
<1>0. TypeOK /\ Immutable /\ OwnArray /\ InstalledNotEmpty /\ Progress
  BY DEF IInv
<1>1. PICK spare \in 0..MaxSpare :
        arrays' = Append(arrays, e \o [i \in 1..spare |-> Unset])
  BY DEF Alloc
<1> DEFINE new == e \o [i \in 1..spare |-> Unset]
           slice == [at |-> Len(arrays) + 1, len |-> Len(e)]
<1>2. /\ new \in Seq(Verifier \cup {Unset})
      /\ Len(new) = Len(e) + spare
      /\ SubSeq(new, 1, Len(e)) = e
  BY PrefixOfConcat
<1> HIDE DEF new
<1>3. /\ arrays' \in Seq(Seq(Verifier \cup {Unset}))
      /\ Len(arrays') = Len(arrays) + 1
      /\ arrays'[Len(arrays) + 1] = new
      /\ \A k \in DOMAIN arrays : arrays'[k] = arrays[k]
  <2>1. arrays \in Seq(Seq(Verifier \cup {Unset})) /\ arrays' = Append(arrays, new)
    BY <1>0, <1>1 DEF TypeOK, new
  <2> QED BY <2>1, <1>2
<1>4. made' = Append(made, slice) /\ slice \in Slice
  BY <1>0 DEF Alloc, TypeOK, Slice, Room
<1> HIDE DEF slice
<1>5. /\ made' \in Seq(Slice) /\ Len(made') = Len(made) + 1
      /\ made'[Len(made) + 1] = slice
      /\ \A i \in DOMAIN made : made'[i] = made[i]
      /\ DOMAIN made' = DOMAIN made \cup {Len(made) + 1}
  BY <1>0, <1>4, SMTT(30) DEF TypeOK
<1>6. /\ meant' \in Seq(Seq(Verifier)) /\ Len(meant') = Len(made')
      /\ meant'[Len(made) + 1] = e
      /\ \A i \in DOMAIN made : meant'[i] = meant[i]
  BY <1>0, <1>5 DEF TypeOK
<1>7. slice.at = Len(arrays) + 1 /\ slice.len = Len(e)
  BY DEF slice
<1>8. \A i \in DOMAIN made :
        made[i] \in Slice /\ made[i].at \in DOMAIN arrays /\ made[i].len <= Len(arrays[made[i].at])
  BY <1>0 DEF TypeOK
<1>9. TypeOK'
  <2>1. arrays' # << >> /\ arrays'[1] \in [1..ArgsLen -> Verifier]
    <3>1. arrays \in Seq(Seq(Verifier \cup {Unset})) /\ arrays # << >>
      BY <1>0 DEF TypeOK
    <3>2. 1 \in DOMAIN arrays /\ Len(arrays') # 0
      BY <1>3, <3>1
    <3>3. arrays'[1] \in [1..ArgsLen -> Verifier]
      BY <1>0, <1>3, <3>2 DEF TypeOK
    <3> QED BY <1>3, <3>2, <3>3
  <2>2. \A i \in DOMAIN made' :
          made'[i].at \in DOMAIN arrays' /\ made'[i].len <= Len(arrays'[made'[i].at])
    <3>1. arrays \in Seq(Seq(Verifier \cup {Unset}))
      BY <1>0 DEF TypeOK
    <3>2. /\ DOMAIN arrays' = 1..(Len(arrays) + 1) /\ DOMAIN arrays = 1..Len(arrays)
          /\ Len(arrays) \in Nat
      BY <1>3, <3>1
    <3>3. DOMAIN arrays' = DOMAIN arrays \cup {Len(arrays) + 1}
      BY <3>2
    <3>4. ASSUME NEW i \in DOMAIN made
          PROVE  made'[i].at \in DOMAIN arrays' /\ made'[i].len <= Len(arrays'[made'[i].at])
      BY <1>3, <1>5, <1>8, <3>3
    <3>5. slice.at \in DOMAIN arrays' /\ slice.len <= Len(arrays'[slice.at])
      <4>1. Len(e) \in Nat /\ Len(e) <= Len(new)
        BY <1>2
      <4> QED BY <1>3, <1>7, <3>3, <4>1
    <3> QED BY <1>5, <3>4, <3>5
  <2>3. installed' \in 0..Len(made') /\ handshake' \in Handshake
    BY <1>0, <1>5 DEF TypeOK
  <2> QED BY <1>3, <1>5, <1>6, <2>1, <2>2, <2>3 DEF TypeOK
<1>10. Immutable'
  <2>1. \A i \in DOMAIN made : Elements(made[i])' = meant'[i]
    BY <1>0, <1>3, <1>5, <1>6, <1>8 DEF Immutable, Elements
  <2>2. SubSeq(arrays'[made'[Len(made) + 1].at], 1, made'[Len(made) + 1].len) = e
    BY <1>2, <1>3, <1>5, <1>7
  <2> QED BY <1>5, <1>6, <2>1, <2>2 DEF Immutable, Elements
<1>11. OwnArray'
  BY <1>0, <1>5, <1>7, SMTT(30) DEF OwnArray, TypeOK
<1>12. InstalledNotEmpty' /\ Progress'
  <2>1. installed > 0 => installed \in DOMAIN made
    BY <1>0 DEF TypeOK
  <2>2. installed > 0 => made'[installed] = made[installed] /\ meant'[installed] = meant[installed]
    BY <1>5, <1>6, <2>1
  <2> QED BY <1>0, <2>2 DEF InstalledNotEmpty, Progress, AllAccept
<1> QED BY <1>9, <1>10, <1>11, <1>12 DEF IInv

\* Append with nothing to append returns the value itself.
LEMMA AliasStep ==
  ASSUME IInv, NEW i \in DOMAIN made, made' = Append(made, made[i]),
         meant' = Append(meant, meant[i]), UNCHANGED <<arrays, installed, handshake>>
  PROVE  IInv'
<1>0. TypeOK /\ Immutable /\ OwnArray /\ InstalledNotEmpty /\ Progress
  BY DEF IInv
<1>1. made[i] \in Slice /\ meant[i] \in Seq(Verifier) /\ Elements(made[i]) = meant[i]
  BY <1>0, MadeElements
<1>2. /\ made' \in Seq(Slice) /\ Len(made') = Len(made) + 1
      /\ made'[Len(made) + 1] = made[i]
      /\ \A k \in DOMAIN made : made'[k] = made[k]
      /\ DOMAIN made' = DOMAIN made \cup {Len(made) + 1}
  BY <1>0, <1>1, SMTT(30) DEF TypeOK
<1>3. /\ meant' \in Seq(Seq(Verifier)) /\ Len(meant') = Len(made')
      /\ meant'[Len(made) + 1] = meant[i]
      /\ \A k \in DOMAIN made : meant'[k] = meant[k]
  BY <1>0, <1>1, <1>2 DEF TypeOK
<1>4. TypeOK'
  <2>1. \A k \in DOMAIN made' :
          made'[k].at \in DOMAIN arrays /\ made'[k].len <= Len(arrays[made'[k].at])
    BY <1>0, <1>2 DEF TypeOK
  <2>2. installed \in 0..Len(made')
    BY <1>0, <1>2 DEF TypeOK
  <2> QED BY <1>0, <1>2, <1>3, <2>1, <2>2 DEF TypeOK
<1>5. Immutable'
  BY <1>0, <1>1, <1>2, <1>3 DEF Immutable, Elements
<1>6. OwnArray'
  BY <1>0, <1>2 DEF OwnArray
<1>7. InstalledNotEmpty' /\ Progress'
  <2>1. installed > 0 => installed \in DOMAIN made
    BY <1>0 DEF TypeOK
  <2>2. installed > 0 => made'[installed] = made[installed] /\ meant'[installed] = meant[installed]
    BY <1>2, <1>3, <2>1
  <2> QED BY <1>0, <2>2 DEF InstalledNotEmpty, Progress, AllAccept
<1> QED BY <1>4, <1>5, <1>6, <1>7 DEF IInv

(***************************************************************************)
(* Append and Extend, of any slice of verifiers.                           *)
(***************************************************************************)
LEMMA AppendStep ==
  ASSUME IInv, NEW i \in DOMAIN made, NEW more,
         Elements(more) \in Seq(Verifier), Len(Elements(more)) = more.len,
         AppendSlice(i, more)
  PROVE  IInv'
<1> DEFINE e == Elements(made[i]) \o Elements(more)
<1>0. TypeOK /\ Immutable
  BY DEF IInv
<1>1. /\ Elements(made[i]) = meant[i] /\ meant[i] \in Seq(Verifier)
      /\ Len(meant[i]) = made[i].len
  BY <1>0, MadeElements
<1>2. e \in Seq(Verifier) /\ Len(e) = made[i].len + more.len
  BY <1>1
<1>3. meant' = Append(meant, e) /\ UNCHANGED <<installed, handshake>> /\ Room(Len(e))
  BY <1>2 DEF AppendSlice
<1>4. CASE more.len > 0
  <2>1. Alloc(e)
    BY <1>4 DEF AppendSlice
  <2> QED BY <1>2, <1>3, <2>1, AllocStep
<1>5. CASE ~(more.len > 0)
  <2>1. made' = Append(made, made[i]) /\ UNCHANGED arrays
    BY <1>5 DEF AppendSlice
  <2>2. more.len = 0
    BY <1>5
  <2>3. Elements(more) = << >>
    BY <2>2
  <2>4. e = meant[i]
    BY <1>1, <2>3, ConcatEmptySeq
  <2> QED BY <1>3, <2>1, <2>4, AliasStep
<1> QED BY <1>4, <1>5
-----------------------------------------------------------------------------
\* The zero value and the caller's array satisfy the invariant.
LEMMA InitInvariant == Init => IInv
<1> SUFFICES ASSUME Init PROVE IInv
  OBVIOUS
<1> USE PeerAssumption DEF Init
<1>1. PICK args \in [1..ArgsLen -> Verifier] : arrays = <<args>>
  OBVIOUS
<1>2. args \in Seq(Verifier \cup {Unset}) /\ Len(args) = ArgsLen
  BY <1>1
<1>3. arrays \in Seq(Seq(Verifier \cup {Unset})) /\ arrays # << >> /\ arrays[1] = args
      /\ DOMAIN arrays = {1}
  BY <1>1, <1>2
<1>4. /\ made \in Seq(Slice) /\ DOMAIN made = {1} /\ Len(made) = 1
      /\ made[1].at = 1 /\ made[1].len = 0
  BY DEF Slice
<1>5. meant \in Seq(Seq(Verifier)) /\ Len(meant) = 1 /\ meant[1] = << >>
  OBVIOUS
<1>6. handshake \in Handshake
  BY DEF Handshake
<1>7. TypeOK
  BY <1>1, <1>2, <1>3, <1>4, <1>5, <1>6 DEF TypeOK
<1>8. Immutable
  <2>1. Len(SubSeq(arrays[1], 1, 0)) = 0 /\ SubSeq(arrays[1], 1, 0) \in Seq(Verifier \cup {Unset})
    BY <1>2, <1>3
  <2>2. SubSeq(arrays[1], 1, 0) = << >>
    BY <2>1, EmptySeq
  <2> QED BY <1>4, <1>5, <2>2 DEF Immutable, Elements
<1>9. OwnArray /\ InstalledNotEmpty /\ Progress
  BY <1>4 DEF OwnArray, InstalledNotEmpty, Progress
<1> QED BY <1>7, <1>8, <1>9 DEF IInv
-----------------------------------------------------------------------------
\* The state of the sequences alone is what the handshake leaves alone.
LEMMA HandshakeFrame ==
  ASSUME IInv, UNCHANGED <<arrays, made, meant, installed>>, handshake' \in Handshake, Progress'
  PROVE  IInv'
<1>1. TypeOK'
  BY DEF IInv, TypeOK
<1>2. Immutable' /\ OwnArray' /\ InstalledNotEmpty'
  BY DEF IInv, Immutable, Elements, OwnArray, InstalledNotEmpty
<1> QED BY <1>1, <1>2 DEF IInv

\* A sequence that has the caller's array has no element to overwrite.
LEMMA OverwriteStep ==
  ASSUME IInv, NEW k \in 1..ArgsLen, NEW v \in Verifier, Overwrite(k, v)
  PROVE  IInv'
<1> USE PeerAssumption
<1>0. TypeOK /\ Immutable /\ OwnArray /\ InstalledNotEmpty /\ Progress
  BY DEF IInv
<1> DEFINE args == [arrays[1] EXCEPT ![k] = v]
<1>1. arrays \in Seq(Seq(Verifier \cup {Unset})) /\ 1 \in DOMAIN arrays
      /\ arrays[1] \in [1..ArgsLen -> Verifier]
  BY <1>0 DEF TypeOK
<1>2. args \in [1..ArgsLen -> Verifier] /\ args \in Seq(Verifier \cup {Unset})
      /\ Len(args) = ArgsLen /\ Len(arrays[1]) = ArgsLen
  BY <1>1
<1>3. arrays' = [arrays EXCEPT ![1] = args]
  BY DEF Overwrite
<1> HIDE DEF args
<1>4. /\ arrays' \in Seq(Seq(Verifier \cup {Unset})) /\ arrays' # << >>
      /\ arrays'[1] = args /\ DOMAIN arrays' = DOMAIN arrays
      /\ \A a \in DOMAIN arrays : a # 1 => arrays'[a] = arrays[a]
  BY <1>1, <1>2, <1>3
<1>5. UNCHANGED <<made, meant, installed, handshake>>
  BY DEF Overwrite
<1>6. TypeOK'
  <2>1. \A i \in DOMAIN made' :
          made'[i].at \in DOMAIN arrays' /\ made'[i].len <= Len(arrays'[made'[i].at])
    BY <1>0, <1>2, <1>4, <1>5 DEF TypeOK
  <2> QED BY <1>0, <1>2, <1>4, <1>5, <2>1 DEF TypeOK
<1>7. Immutable'
  <2> SUFFICES ASSUME NEW i \in DOMAIN made PROVE Elements(made[i])' = meant[i]
    BY <1>5 DEF Immutable
  <2>1. CASE made[i].at # 1
    BY <1>0, <1>4, <1>5, <2>1 DEF Immutable, Elements, TypeOK
  <2>2. CASE made[i].at = 1
    <3>1. made[i].len = 0 /\ meant[i] \in Seq(Verifier) /\ Len(meant[i]) = made[i].len
      BY <1>0, <2>2, MadeElements DEF OwnArray
    <3>2. Len(SubSeq(args, 1, 0)) = 0 /\ SubSeq(args, 1, 0) \in Seq(Verifier \cup {Unset})
      BY <1>2
    <3>3. SubSeq(args, 1, 0) = << >> /\ meant[i] = << >>
      BY <3>1, <3>2, EmptySeq
    <3> QED BY <1>4, <1>5, <2>2, <3>1, <3>3 DEF Elements
  <2> QED BY <2>1, <2>2
<1>8. OwnArray' /\ InstalledNotEmpty' /\ Progress'
  BY <1>0, <1>5 DEF OwnArray, InstalledNotEmpty, Progress, AllAccept
<1> QED BY <1>6, <1>7, <1>8 DEF IInv

\* The types of the fields of a handshake.
LEMMA HandshakeFields ==
  ASSUME NEW h \in Handshake
  PROVE  /\ h.certs \in Seq(Cert) /\ Len(h.certs) \in Nat /\ DOMAIN h.certs = 1..Len(h.certs)
         /\ h.cert \in Nat /\ h.pv \in Nat
<1>1. h.certs \in Seq(Cert) /\ h.cert \in Nat /\ h.pv \in Nat
  BY DEF Handshake
<1> QED BY <1>1

\* A handshake begins with a sequence that is not empty.
LEMMA BeginStep == IInv /\ Begin => IInv'
<1> SUFFICES ASSUME IInv, Begin PROVE IInv'
  OBVIOUS
<1>1. PICK certs \in SeqOf(Cert, MaxCerts) :
        handshake' = [certs |-> certs, cert |-> 1, pv |-> 0, result |-> "verifying"]
  BY DEF Begin
<1>2. certs \in Seq(Cert)
  BY <1>1 DEF SeqOf
<1>3. handshake' \in Handshake
  BY <1>1, <1>2 DEF Handshake
<1>4. UNCHANGED <<arrays, made, meant, installed>> /\ installed > 0
  BY DEF Begin
<1>5. Progress'
  BY <1>1, <1>2, <1>4 DEF Progress
<1> QED BY <1>3, <1>4, <1>5, HandshakeFrame
\* Installing a sequence disturbs no handshake.
LEMMA SetToStep == ASSUME IInv, NEW i \in DOMAIN made, SetTo(i) PROVE IInv'
<1>1. UNCHANGED <<arrays, made, meant, handshake>> /\ installed' = i
      /\ handshake.result = "none" /\ made[i].len > 0
  BY DEF SetTo
<1>2. TypeOK'
  BY <1>1 DEF IInv, TypeOK
<1> QED BY <1>1, <1>2 DEF IInv, Immutable, Elements, OwnArray, InstalledNotEmpty, Progress

\* The state of the handshake before a step of VerifyPeerCertificate.
LEMMA VerifyingFacts ==
  ASSUME IInv, handshake.result = "verifying"
  PROVE  /\ handshake \in Handshake /\ Progress
         /\ handshake.certs \in Seq(Cert) /\ Len(handshake.certs) \in Nat
         /\ handshake.cert \in Nat /\ handshake.pv \in Nat
         /\ installed \in DOMAIN made
         /\ made[installed].len \in Nat /\ made[installed].len > 0
         /\ DOMAIN meant[installed] = 1..made[installed].len
         /\ Elements(made[installed]) = meant[installed]
<1>1. handshake \in Handshake /\ Progress
  BY DEF IInv, TypeOK
<1>2. installed > 0
  BY <1>1 DEF Progress
<1>3. installed \in DOMAIN made
  BY <1>2 DEF IInv, TypeOK
<1>4. /\ Elements(made[installed]) = meant[installed] /\ meant[installed] \in Seq(Verifier)
      /\ Len(meant[installed]) = made[installed].len
  BY <1>3, MadeElements DEF IInv
<1>5. made[installed].len \in Nat /\ made[installed].len > 0
  BY <1>2, <1>4 DEF IInv, InstalledNotEmpty
<1> QED BY <1>1, <1>3, <1>4, <1>5, HandshakeFields

\* Parsing one certificate.
LEMMA ParseStep == IInv /\ Parse => IInv'
<1> SUFFICES ASSUME IInv, Parse PROVE IInv'
  OBVIOUS
<1> DEFINE h == handshake
<1>1. UNCHANGED <<arrays, made, meant, installed>>
  BY DEF Parse
<1>2. h.result = "verifying" /\ h.cert <= Len(h.certs) /\ h.pv = 0
  BY DEF Parse, Verifying
<1>3. CASE Current.parses
  <2>1. handshake' = [h EXCEPT !.cert = h.cert, !.pv = 1, !.result = "verifying"]
    BY <1>2, <1>3, VerifyingFacts DEF Parse, Handshake
  <2>2. /\ handshake' \in Handshake
        /\ handshake'.certs = h.certs /\ handshake'.cert = h.cert /\ handshake'.pv = 1
        /\ handshake'.result = "verifying"
    BY <1>2, <2>1, VerifyingFacts DEF Handshake
  <2>3. Progress'
    BY <1>1, <1>2, <1>3, <2>2, VerifyingFacts DEF Progress, AllAccept, Current
  <2> QED BY <1>1, <2>2, <2>3, HandshakeFrame
<1>4. CASE ~Current.parses
  <2>1. handshake' = [h EXCEPT !.cert = h.cert, !.pv = 0, !.result = "parse error"]
    BY <1>2, <1>4, VerifyingFacts DEF Parse, Handshake
  <2>2. /\ handshake' \in Handshake
        /\ handshake'.certs = h.certs /\ handshake'.cert = h.cert /\ handshake'.pv = 0
        /\ handshake'.result = "parse error"
    BY <1>2, <2>1, VerifyingFacts DEF Handshake
  <2>3. Progress'
    BY <1>1, <1>2, <2>2, VerifyingFacts DEF Progress, AllAccept
  <2> QED BY <1>1, <2>2, <2>3, HandshakeFrame
<1> QED BY <1>3, <1>4

\* One call of a verifier.
LEMMA VerifyStep == IInv /\ Verify => IInv'
<1> SUFFICES ASSUME IInv, Verify PROVE IInv'
  OBVIOUS
<1> DEFINE h == handshake
           n == made[installed].len
           v == meant[installed][h.pv]
<1>1. UNCHANGED <<arrays, made, meant, installed>>
  BY DEF Verify
<1>2. h.result = "verifying" /\ h.cert <= Len(h.certs) /\ h.pv > 0
  BY DEF Verify, Verifying
<1>3. /\ h.pv <= n /\ Current.parses /\ h.cert >= 1
      /\ \A m \in 1..(h.pv - 1) : Accepts(meant[installed][m], Current)
      /\ \A k \in 1..(h.cert - 1) : AllAccept(h.certs[k])
  BY <1>2, VerifyingFacts DEF Progress, Current
<1>4. Elements(made[installed])[h.pv] = v
  BY <1>2, VerifyingFacts
<1>5. CASE ~Accepts(v, Current)
  <2>1. handshake' = [h EXCEPT !.cert = h.cert, !.pv = h.pv, !.result = "refused"]
    BY <1>2, <1>4, <1>5, VerifyingFacts DEF Verify, Handshake
  <2>2. /\ handshake' \in Handshake
        /\ handshake'.certs = h.certs /\ handshake'.cert = h.cert /\ handshake'.pv = h.pv
        /\ handshake'.result = "refused"
    BY <1>2, <2>1, VerifyingFacts DEF Handshake
  <2>3. Progress'
    BY <1>1, <1>2, <1>3, <1>5, <2>2, VerifyingFacts DEF Progress, AllAccept, Current
  <2> QED BY <1>1, <2>2, <2>3, HandshakeFrame
<1>6. CASE Accepts(v, Current) /\ h.pv < n
  <2>1. handshake' = [h EXCEPT !.cert = h.cert, !.pv = h.pv + 1, !.result = "verifying"]
    BY <1>2, <1>4, <1>6, VerifyingFacts DEF Verify, Handshake
  <2>2. /\ handshake' \in Handshake
        /\ handshake'.certs = h.certs /\ handshake'.cert = h.cert /\ handshake'.pv = h.pv + 1
        /\ handshake'.result = "verifying"
    <3>1. h \in Handshake /\ h.pv + 1 \in Nat
      BY <1>2, VerifyingFacts
    <3> QED BY <2>1, <3>1 DEF Handshake
  <2>3. \A m \in 1..h.pv : Accepts(meant[installed][m], Current)
    BY <1>3, <1>6, VerifyingFacts, <1>2
  <2>4. Progress'
    BY <1>1, <1>2, <1>3, <1>6, <2>2, <2>3, VerifyingFacts DEF Progress, AllAccept, Current
  <2> QED BY <1>1, <2>2, <2>4, HandshakeFrame
<1>7. CASE Accepts(v, Current) /\ ~(h.pv < n)
  <2>1. handshake' = [h EXCEPT !.cert = h.cert + 1, !.pv = 0, !.result = "verifying"]
    BY <1>2, <1>4, <1>7, VerifyingFacts DEF Verify, Handshake
  <2>2. /\ handshake' \in Handshake
        /\ handshake'.certs = h.certs /\ handshake'.cert = h.cert + 1 /\ handshake'.pv = 0
        /\ handshake'.result = "verifying"
    <3>1. h \in Handshake /\ h.cert + 1 \in Nat
      BY <1>2, VerifyingFacts
    <3> QED BY <2>1, <3>1 DEF Handshake
  <2>3. AllAccept(Current)
    BY <1>2, <1>3, <1>7, VerifyingFacts DEF AllAccept
  <2>4. \A k \in 1..h.cert : AllAccept(h.certs[k])
    BY <1>2, <1>3, <2>3, VerifyingFacts DEF Current
  <2>5. Progress'
    BY <1>1, <1>2, <1>3, <2>2, <2>4, VerifyingFacts DEF Progress, AllAccept
  <2> QED BY <1>1, <2>2, <2>5, HandshakeFrame
<1> QED BY <1>5, <1>6, <1>7

\* The end of the loop.
LEMMA AcceptedStep == IInv /\ Accepted => IInv'
<1> SUFFICES ASSUME IInv, Accepted PROVE IInv'
  OBVIOUS
<1> DEFINE h == handshake
<1>1. UNCHANGED <<arrays, made, meant, installed>>
  BY DEF Accepted
<1>2. h.result = "verifying" /\ h.cert > Len(h.certs)
  BY DEF Accepted
<1>3. h.cert = Len(h.certs) + 1 /\ ~(h.pv > 0)
  BY <1>2, VerifyingFacts DEF Progress
<1>4. handshake' = [h EXCEPT !.cert = h.cert, !.pv = h.pv, !.result = "accepted"]
  BY <1>2, VerifyingFacts DEF Accepted, Handshake
<1>5. /\ handshake' \in Handshake
      /\ handshake'.certs = h.certs /\ handshake'.cert = h.cert /\ handshake'.pv = h.pv
      /\ handshake'.result = "accepted"
  BY <1>2, <1>4, VerifyingFacts DEF Handshake
<1>6. Progress'
  BY <1>1, <1>2, <1>3, <1>5, VerifyingFacts DEF Progress, AllAccept
<1> QED BY <1>1, <1>5, <1>6, HandshakeFrame

-----------------------------------------------------------------------------
\* Every step preserves the invariant.
LEMMA InductiveStep == IInv /\ [Next]_vars => IInv'
<1> SUFFICES ASSUME IInv, [Next]_vars PROVE IInv'
  OBVIOUS
<1>1. ASSUME NEW n \in 0..ArgsLen, NewPeerVerifiers(n) PROVE IInv'
  <2>1. Elements(Args(n)) \in Seq(Verifier) /\ Len(Elements(Args(n))) = n
    BY ArgsElements DEF IInv
  <2> QED BY <1>1, <2>1, AllocStep DEF NewPeerVerifiers
<1>2. ASSUME NEW i \in DOMAIN made, NEW n \in 0..ArgsLen, AppendArgs(i, n) PROVE IInv'
  <2>1. Elements(Args(n)) \in Seq(Verifier) /\ Len(Elements(Args(n))) = Args(n).len
    BY ArgsElements DEF IInv, Args
  <2> QED BY <1>2, <2>1, AppendStep DEF AppendArgs
<1>3. ASSUME NEW i \in DOMAIN made, NEW j \in DOMAIN made, Extend(i, j) PROVE IInv'
  <2>1. Elements(made[j]) \in Seq(Verifier) /\ Len(Elements(made[j])) = made[j].len
    BY MadeElements DEF IInv
  <2> QED BY <1>3, <2>1, AppendStep DEF Extend
<1>4. CASE \E k \in 1..ArgsLen, v \in Verifier : Overwrite(k, v)
  BY <1>4, OverwriteStep
<1>5. CASE \E i \in DOMAIN made : SetTo(i)
  BY <1>5, SetToStep
<1>6. CASE Begin \/ Parse \/ Verify \/ Accepted
  BY <1>6, BeginStep, ParseStep, VerifyStep, AcceptedStep
<1>7. CASE UNCHANGED vars
  BY <1>7 DEF vars, IInv, TypeOK, Immutable, Elements, OwnArray, InstalledNotEmpty,
              Progress, AllAccept
<1> QED BY <1>1, <1>2, <1>3, <1>4, <1>5, <1>6, <1>7 DEF Next

(***************************************************************************)
(* The inductive invariant of the sequences and the handshake.             *)
(***************************************************************************)
THEOREM Invariance == Spec => []IInv
<1> QED BY InitInvariant, InductiveStep, PTL DEF Spec

(***************************************************************************)
(* A PeerVerifiers never changes, whatever is built from it and whatever   *)
(* the caller does with its arguments: Append copies (tls.go:57-68).       *)
(***************************************************************************)
THEOREM SequencesAreImmutable == Spec => []Immutable
<1>1. IInv => Immutable
  BY DEF IInv
<1> QED BY <1>1, Invariance, PTL

\* What Progress says at the end of a handshake is VerdictIsMeant.
LEMMA VerdictFollows == IInv => VerdictIsMeant
<1> SUFFICES ASSUME IInv PROVE VerdictIsMeant
  OBVIOUS
<1> DEFINE h == handshake
<1>1. h \in Handshake /\ Progress
  BY DEF IInv, TypeOK
<1>2. CASE h.result = "accepted"
  <2>1. h.cert = Len(h.certs) + 1 /\ \A k \in 1..(h.cert - 1) : AllAccept(h.certs[k])
    BY <1>1, <1>2 DEF Progress
  <2>2. DOMAIN h.certs = 1..(h.cert - 1)
    BY <1>1, <2>1, HandshakeFields
  <2> QED BY <1>2, <2>1, <2>2 DEF VerdictIsMeant, AllAccept, Range
<1>3. CASE h.result = "refused"
  <2>1. /\ h.cert \in DOMAIN h.certs /\ h.certs[h.cert].parses
        /\ ~Accepts(meant[installed][h.pv], h.certs[h.cert])
    BY <1>1, <1>3, HandshakeFields DEF Progress
  <2>2. h.pv \in DOMAIN meant[installed]
    <3>1. installed \in DOMAIN made /\ h.pv \in 1..made[installed].len
      BY <1>1, <1>3, HandshakeFields DEF Progress, IInv, TypeOK
    <3>2. meant[installed] \in Seq(Verifier) /\ Len(meant[installed]) = made[installed].len
      BY <3>1, MadeElements DEF IInv
    <3> QED BY <3>1, <3>2
  <2> QED BY <1>3, <2>1, <2>2 DEF VerdictIsMeant, Range
<1>4. CASE h.result \notin {"accepted", "refused"}
  BY <1>4 DEF VerdictIsMeant
<1> QED BY <1>2, <1>3, <1>4

(***************************************************************************)
(* The verdict of VerifyPeerCertificate on a peer is that of the sequence  *)
(* as it was given to SetTo, on every certificate.                         *)
(***************************************************************************)
THEOREM VerdictsAreMeant == Spec => []VerdictIsMeant
<1> QED BY VerdictFollows, Invariance, PTL

(***************************************************************************)
(* The variables keep their types.                                         *)
(***************************************************************************)
THEOREM TypeCorrect == Spec => []TypeOK
<1>1. IInv => TypeOK
  BY DEF IInv
<1> QED BY <1>1, Invariance, PTL
=============================================================================
