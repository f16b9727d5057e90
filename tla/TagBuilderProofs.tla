-------------------------- MODULE TagBuilderProofs --------------------------
(***************************************************************************)
(* Proofs about TagBuilder: for any prefixes, names and chains of calls,   *)
(* what fx was given of a builder's tags never changes, every tag has the  *)
(* prefix of its scope, and the chains of arrangehttp ask for what their   *)
(* parameters need.                                                        *)
(***************************************************************************)
EXTENDS TagBuilder, SequenceTheorems, FiniteSetTheorems, WellFoundedInduction, TLAPS

(***************************************************************************)
(* The inductive invariant: an annotation that shares the array of the     *)
(* builder ends where the builder does, or before.                         *)
(***************************************************************************)
Behind ==
  \A i \in DOMAIN annotations :
    annotations[i].array = tags.array => annotations[i].len <= tags.len

IInv == TypeOK /\ Behind

\* The annotations of a step before are what they were.
Kept ==
  \A i \in DOMAIN annotations :
    annotations'[i] = annotations[i] /\ Elements(annotations[i])' = Elements(annotations[i])

-----------------------------------------------------------------------------
(***************************************************************************)
(* Names, tags and sequences.                                              *)
(***************************************************************************)

Ops == TagOps \cup SharingOps \cup {"Push", "Pop", "StructTags"}
CallType == [op : Ops, arg : Seq(Part)]

LEMMA CallIsTyped ==
  ASSUME NEW op \in Ops, NEW arg \in Seq(Part)
  PROVE  Call(op, arg) \in CallType
BY DEF Call, CallType

\* Names of no part, of one and of two.
LEMMA Names ==
  /\ \A S : << >> \in Seq(S)
  /\ \A S : \A x \in S : <<x>> \in Seq(S)
  /\ \A S : \A x, y \in S : <<x, y>> \in Seq(S)
OBVIOUS

\* The chains of arrangehttp are sequences of calls.
LEMMA ChainsAreCalls ==
  ASSUME NEW n \in Part
  PROVE  /\ NewServerChain(n) \in Seq(CallType)
         /\ BindServerChain(n) \in Seq(CallType)
         /\ NewClientChain(n) \in Seq(CallType)
         /\ ResultChain(n) \in Seq(CallType)
<1> DEFINE none == << >>
           own == <<n>>
           config == <<"config">>
           handler == <<"handler">>
           opts == <<"options">>
           ownConfig == <<n, "config">>
           ownOptions == <<n, "options">>
           middleware == <<"listener", "middleware">>
<1>1. /\ "config" \in Part /\ "handler" \in Part /\ "options" \in Part
      /\ "listener" \in Part /\ "middleware" \in Part
  BY TagAssumption
<1>2. none \in Seq(Part) /\ own \in Seq(Part) /\ ownConfig \in Seq(Part)
      /\ ownOptions \in Seq(Part) /\ middleware \in Seq(Part)
  BY <1>1, Names, Zenon
<1>3. config \in Seq(Part) /\ handler \in Seq(Part) /\ opts \in Seq(Part)
  BY <1>1, Names, Zenon
<1>4. /\ NewServerChain(n) = <<Call("Push", own), Call("OptionalName", config),
             Call("OptionalName", handler), Call("Group", opts), Call("ParamTags", none)>>
      /\ BindServerChain(n) = <<Call("Push", own), Call("OptionalName", config),
             Call("Push", none), Call("Name", own), Call("Pop", none), Call("Skip", none),
             Call("Skip", none), Call("Group", middleware), Call("ParamTags", none)>>
      /\ NewClientChain(n) = <<Call("OptionalName", ownConfig), Call("Group", ownOptions),
             Call("ParamTags", none)>>
      /\ ResultChain(n) = <<Call("Name", own), Call("ResultTags", none)>>
  BY Zenon DEF NewServerChain, BindServerChain, NewClientChain, ResultChain
<1> HIDE DEF none, own, config, handler, opts, ownConfig, ownOptions, middleware
<1>5. /\ Call("Push", none) \in CallType /\ Call("Pop", none) \in CallType
      /\ Call("Skip", none) \in CallType /\ Call("ParamTags", none) \in CallType
      /\ Call("ResultTags", none) \in CallType
      /\ Call("Push", own) \in CallType /\ Call("Name", own) \in CallType
      /\ Call("OptionalName", config) \in CallType
      /\ Call("OptionalName", handler) \in CallType /\ Call("Group", opts) \in CallType
      /\ Call("OptionalName", ownConfig) \in CallType
      /\ Call("Group", ownOptions) \in CallType /\ Call("Group", middleware) \in CallType
  BY <1>2, <1>3, CallIsTyped DEF Ops, TagOps, SharingOps
<1>6. NewServerChain(n) \in Seq(CallType)
  BY <1>4, <1>5
<1>7. BindServerChain(n) \in Seq(CallType)
  BY <1>4, <1>5
<1>8. NewClientChain(n) \in Seq(CallType)
  BY <1>4, <1>5
<1>9. ResultChain(n) \in Seq(CallType)
  BY <1>4, <1>5
<1> QED BY <1>6, <1>7, <1>8, <1>9

\* What calls are made with is a name.
LEMMA ArgumentsAreNames ==
  ASSUME TypeOK, NEW op \in Ops
  PROVE  Arguments(op) \subseteq Seq(Part)
<1>1. {<< >>} \subseteq Seq(Part)
  OBVIOUS
<1>2. CASE chain # Free
  <2>1. chain \in Seq(CallType)
    <3>1. chain \in Chains
      BY <1>2 DEF TypeOK
    <3>2. ServerNames \subseteq Part /\ ClientNames \subseteq Part
      BY TagAssumption
    <3> QED BY <3>1, <3>2, ChainsAreCalls DEF Chains
  <2>2. ASSUME NEW i \in DOMAIN chain PROVE chain[i].arg \in Seq(Part)
    <3>1. chain[i] \in CallType
      BY <2>1
    <3> QED BY ONLY <3>1 DEF CallType
  <2> DEFINE all == {chain[i].arg : i \in DOMAIN chain}
  <2>3. all \subseteq Seq(Part)
    BY ONLY <2>2
  <2>4. Arguments(op) = {<< >>} \/ Arguments(op) = all
    BY <1>2 DEF Arguments
  <2> HIDE DEF all
  <2> QED BY <1>1, <2>3, <2>4
<1>3. CASE chain = Free
  <2>1. Prefix \subseteq Seq(Part) /\ Value \subseteq Seq(Part)
    BY TagAssumption
  <2> QED BY <1>1, <1>3, <2>1 DEF Arguments
<1> QED BY <1>2, <1>3

\* The two tags without a name.
LEMMA NamelessTags == Empty \in Tag /\ [Empty EXCEPT !.optional = TRUE] \in Tag
<1> DEFINE none == << >>
           Record == [kind : {"none", "name", "group"}, name : Seq(Part), optional : BOOLEAN]
<1>1. none \in Seq(Part)
  OBVIOUS
<1>2. Empty = [kind |-> "none", name |-> none, optional |-> FALSE]
  BY DEF Empty
<1> HIDE DEF none
<1>3. Empty \in Record /\ Empty.kind = "none" /\ Empty.name = none
  BY <1>1, <1>2
<1> DEFINE optional == [Empty EXCEPT !.optional = TRUE]
<1>4. optional \in Record /\ optional.kind = "none" /\ optional.name = none
  BY <1>3
<1> HIDE DEF optional
<1>5. Empty \in Tag /\ optional \in Tag
  BY <1>3, <1>4 DEF Tag, none
<1> QED BY <1>5 DEF optional

\* A name with its prefix is a name, and a tag a tag.
LEMMA TagForIsTag ==
  ASSUME TypeOK, NEW op \in TagOps, NEW v \in Seq(Part)
  PROVE  TagFor(op, v) \in Tag
<1>1. Prefixed(v) \in Seq(Part)
  <2>1. CASE prefixes = << >>
    BY <2>1 DEF Prefixed
  <2>2. CASE prefixes # << >>
    <3>1. prefixes \in Seq(Seq(Part))
      BY DEF TypeOK
    <3>2. prefixes[Len(prefixes)] \in Seq(Part)
      BY <2>2, <3>1
    <3> QED BY <2>2, <3>2, ConcatProperties DEF Prefixed
  <2> QED BY <2>1, <2>2
<1>2. Empty \in Tag /\ [Empty EXCEPT !.optional = TRUE] \in Tag
  BY NamelessTags
<1>3. CASE op \in {"Skip", "Optional"}
  BY <1>2, <1>3 DEF TagFor
<1>4. CASE op \in {"Name", "OptionalName", "Group"}
  BY <1>1, <1>4 DEF TagFor, Tag
<1> QED BY <1>3, <1>4 DEF TagOps

\* What two sequences have in common at their beginning.
LEMMA SamePrefix ==
  ASSUME NEW s \in Seq(Tag), NEW t \in Seq(Tag), NEW n \in Nat,
         n <= Len(s), n <= Len(t), \A i \in 1..n : s[i] = t[i]
  PROVE  SubSeq(s, 1, n) = SubSeq(t, 1, n)
<1>1. (\A i \in 1..n : s[i] \in Tag) /\ (\A i \in 1..n : t[i] \in Tag)
  <2>1. Len(s) \in Nat /\ Len(t) \in Nat
    OBVIOUS
  <2> QED BY <2>1
<1>2. /\ SubSeq(s, 1, n) \in Seq(Tag) /\ Len(SubSeq(s, 1, n)) = n
      /\ \A i \in 1..n : SubSeq(s, 1, n)[i] = s[i]
  BY <1>1, SubSeqProperties
<1>3. /\ SubSeq(t, 1, n) \in Seq(Tag) /\ Len(SubSeq(t, 1, n)) = n
      /\ \A i \in 1..n : SubSeq(t, 1, n)[i] = t[i]
  BY <1>1, SubSeqProperties
<1> QED BY <1>2, <1>3, SeqEqual

-----------------------------------------------------------------------------
(***************************************************************************)
(* Tags in arrays.                                                         *)
(***************************************************************************)

\* An array of twice the size begins with the old one.
LEMMA LargerHasRoom ==
  ASSUME NEW a \in Seq(Tag)
  PROVE  /\ Larger(a) \in Seq(Tag)
         /\ Len(Larger(a)) \in Nat /\ Len(a) + 1 <= Len(Larger(a))
         /\ \A i \in 1..Len(a) : Larger(a)[i] = a[i]
<1> DEFINE size == IF a = << >> THEN 1 ELSE 2 * Len(a)
           b == [i \in 1..size |-> IF i \in DOMAIN a THEN a[i] ELSE Empty]
<1>1. Len(a) \in Nat /\ DOMAIN a = 1..Len(a) /\ \A i \in DOMAIN a : a[i] \in Tag
  OBVIOUS
<1>2. a = << >> <=> Len(a) = 0
  BY EmptySeq
<1>3. size \in Nat /\ Len(a) + 1 <= size
  BY <1>1, <1>2
<1>4. Empty \in Tag
  BY NamelessTags
<1> HIDE DEF size
<1>5. b \in Seq(Tag) /\ Len(b) = size /\ \A i \in 1..size :
        b[i] = IF i \in DOMAIN a THEN a[i] ELSE Empty
  BY <1>1, <1>3, <1>4
<1> HIDE DEF b
<1>6. \A i \in 1..Len(a) : i \in 1..size
  BY <1>1, <1>3
<1>7. Larger(a) = b
  BY DEF Larger, b, size
<1> QED BY <1>1, <1>3, <1>5, <1>6, <1>7

\* What append does: every array keeps its elements but one beyond the builder's
\* end, or all of them when the builder moves to a new array.
LEMMA AppendTagDoes ==
  ASSUME TypeOK, NEW t \in Tag, AppendTag(t)
  PROVE  /\ arrays' \in Seq(Seq(Tag))
         /\ tags' \in Slice /\ Fits(tags)'
         /\ \A a \in DOMAIN arrays : a \in DOMAIN arrays' /\ Len(arrays'[a]) = Len(arrays[a])
         /\ \/ /\ tags'.array = tags.array /\ tags'.len = tags.len + 1
               /\ \A a \in DOMAIN arrays : \A i \in 1..Len(arrays[a]) :
                    (a = tags.array /\ i = tags.len + 1) \/ arrays'[a][i] = arrays[a][i]
            \/ /\ tags'.array \notin DOMAIN arrays
               /\ \A a \in DOMAIN arrays : arrays'[a] = arrays[a]
<1> DEFINE at == tags.array
           n == tags.len + 1
<1>1. /\ arrays \in Seq(Seq(Tag)) /\ at \in DOMAIN arrays /\ DOMAIN arrays = 1..Len(arrays)
      /\ arrays[at] \in Seq(Tag) /\ Len(arrays) \in Nat
      /\ tags.len \in Nat /\ tags.len <= Len(arrays[at]) /\ Len(arrays[at]) \in Nat
      /\ n \in Nat /\ n >= 1
  <2>1. arrays \in Seq(Seq(Tag)) /\ tags \in Slice /\ at \in DOMAIN arrays
        /\ tags.len \in 0..Len(arrays[at])
    BY DEF TypeOK, Fits
  <2>2. arrays[at] \in Seq(Tag) /\ DOMAIN arrays = 1..Len(arrays) /\ Len(arrays) \in Nat
    BY <2>1
  <2> QED BY <2>1, <2>2 DEF Slice
<1>2. CASE tags.len < Len(arrays[at])
  <2> DEFINE new == [arrays[at] EXCEPT ![n] = t]
  <2>1. arrays' = [arrays EXCEPT ![at] = new]
    BY <1>2 DEF AppendTag
  <2>2. tags' = [tags EXCEPT !.len = n]
    BY <1>2 DEF AppendTag
  <2>3. /\ new \in Seq(Tag) /\ Len(new) = Len(arrays[at])
        /\ \A i \in 1..Len(arrays[at]) : i = n \/ new[i] = arrays[at][i]
    <3>1. n \in 1..Len(arrays[at])
      BY <1>1, <1>2
    <3> QED BY <1>1, <3>1, ExceptSeq
  <2>4. n <= Len(new)
    BY <1>1, <1>2, <2>3
  <2> HIDE DEF new
  <2>5. /\ arrays' \in Seq(Seq(Tag)) /\ DOMAIN arrays' = DOMAIN arrays
        /\ arrays'[at] = new
        /\ \A a \in DOMAIN arrays : a # at => arrays'[a] = arrays[a]
    BY <1>1, <2>1, <2>3
  <2>6. tags'.array = at /\ tags'.len = n /\ tags' \in Slice
    BY <1>1, <2>2 DEF TypeOK, Slice
  <2>7. Fits(tags)'
    BY <1>1, <2>3, <2>4, <2>5, <2>6 DEF Fits
  <2> QED BY <2>3, <2>5, <2>6, <2>7
<1>3. CASE ~(tags.len < Len(arrays[at]))
  <2> DEFINE larger == Larger(arrays[at])
             new == [larger EXCEPT ![n] = t]
             place == Len(arrays) + 1
  <2>1. n = Len(arrays[at]) + 1
    BY <1>1, <1>3
  <2>2. larger \in Seq(Tag) /\ Len(larger) \in Nat /\ n <= Len(larger)
    BY <1>1, <2>1, LargerHasRoom
  <2>3. arrays' = Append(arrays, new) /\ tags' = [array |-> place, len |-> n]
    BY <1>3 DEF AppendTag
  <2> HIDE DEF larger
  <2>4. new \in Seq(Tag) /\ Len(new) = Len(larger)
    <3>1. n \in 1..Len(larger)
      BY <1>1, <2>2
    <3> QED BY <2>2, <3>1, ExceptSeq
  <2> HIDE DEF new
  <2>5. /\ arrays' \in Seq(Seq(Tag)) /\ Len(arrays') = place
        /\ arrays'[place] = new
        /\ \A a \in 1..Len(arrays) : arrays'[a] = arrays[a]
    BY <1>1, <2>3, <2>4, AppendProperties
  <2>6. DOMAIN arrays' = 1..place
    BY <2>5
  <2>7. place \notin DOMAIN arrays /\ place \in DOMAIN arrays' /\ place \in Nat
        /\ \A a \in DOMAIN arrays : a \in DOMAIN arrays'
    BY <1>1, <2>6
  <2>8. tags'.array = place /\ tags'.len = n /\ tags' \in Slice
    BY <1>1, <2>3, <2>7 DEF Slice
  <2>9. Fits(tags)'
    BY <1>1, <2>2, <2>4, <2>5, <2>7, <2>8 DEF Fits
  <2> QED BY <1>1, <2>5, <2>7, <2>8, <2>9
<1> QED BY <1>2, <1>3

-----------------------------------------------------------------------------
(***************************************************************************)
(* The invariant, and what a step may never change.                        *)
(***************************************************************************)

\* A builder without tags, and no annotation.
LEMMA InitInvariant == Init => IInv
<1> SUFFICES ASSUME Init PROVE IInv
  OBVIOUS
<1> DEFINE none == << >>
<1>1. /\ none \in Seq(Seq(Part)) /\ none \in Seq(Slice) /\ none \in Seq(Tag)
      /\ Len(none) = 0 /\ DOMAIN none = {}
  OBVIOUS
<1>2. prefixes = none /\ annotations = none /\ arrays = <<none>>
      /\ tags = [array |-> 1, len |-> 0] /\ chain \in Chains \cup {Free}
  BY DEF Init
<1> HIDE DEF none
<1>3. arrays \in Seq(Seq(Tag)) /\ DOMAIN arrays = {1} /\ arrays[1] = none
  BY <1>1, <1>2
<1>4. tags.array = 1 /\ tags.len = 0 /\ tags \in Slice
  BY <1>2 DEF Slice
<1>5. Fits(tags)
  BY <1>1, <1>3, <1>4 DEF Fits
<1> QED BY <1>1, <1>2, <1>3, <1>4, <1>5 DEF IInv, TypeOK, Behind

\* A step that leaves the tags, their arrays and the annotations alone.
LEMMA TagsUntouched ==
  ASSUME IInv, UNCHANGED <<chain, tags, arrays, annotations>>,
         prefixes' \in Seq(Seq(Part))
  PROVE  IInv' /\ Kept
<1>1. IInv'
  BY DEF IInv, TypeOK, Behind, Fits
<1>2. Kept
  BY DEF Kept, Elements
<1> QED BY <1>1, <1>2

\* One more tag is beyond the end of every annotation.
LEMMA AddTagInvariant ==
  ASSUME IInv, NEW op \in TagOps, NEW v \in Seq(Part), AddTag(op, v)
  PROVE  IInv' /\ Kept
<1>1. /\ arrays' \in Seq(Seq(Tag)) /\ tags' \in Slice /\ Fits(tags)'
      /\ \A a \in DOMAIN arrays : a \in DOMAIN arrays' /\ Len(arrays'[a]) = Len(arrays[a])
      /\ \/ /\ tags'.array = tags.array /\ tags'.len = tags.len + 1
            /\ \A a \in DOMAIN arrays : \A i \in 1..Len(arrays[a]) :
                 (a = tags.array /\ i = tags.len + 1) \/ arrays'[a][i] = arrays[a][i]
         \/ /\ tags'.array \notin DOMAIN arrays
            /\ \A a \in DOMAIN arrays : arrays'[a] = arrays[a]
  <2>1. TagFor(op, v) \in Tag /\ AppendTag(TagFor(op, v))
    BY TagForIsTag DEF IInv, AddTag
  <2> QED BY <2>1, AppendTagDoes DEF IInv
<1>2. UNCHANGED <<chain, prefixes, annotations>>
  BY DEF AddTag, Makes
<1>3. ASSUME NEW i \in DOMAIN annotations
      PROVE  /\ Fits(annotations[i])'
             /\ annotations[i].array = tags'.array => annotations[i].len <= tags'.len
             /\ Elements(annotations[i])' = Elements(annotations[i])
  <2> DEFINE a == annotations[i].array
             k == annotations[i].len
  <2>1. /\ a \in DOMAIN arrays /\ k \in Nat /\ k <= Len(arrays[a]) /\ Len(arrays[a]) \in Nat
        /\ arrays[a] \in Seq(Tag) /\ tags.len \in Nat
        /\ a = tags.array => k <= tags.len
    <3>1. arrays \in Seq(Seq(Tag)) /\ Fits(annotations[i]) /\ tags \in Slice
          /\ (a = tags.array => k <= tags.len)
      BY DEF IInv, TypeOK, Behind
    <3>2. a \in DOMAIN arrays /\ k \in 0..Len(arrays[a]) /\ tags.len \in Nat
      BY <3>1 DEF Fits, Slice
    <3>3. arrays[a] \in Seq(Tag)
      BY <3>1, <3>2
    <3> QED BY <3>1, <3>2, <3>3
  <2>2. a \in DOMAIN arrays' /\ Len(arrays'[a]) = Len(arrays[a]) /\ arrays'[a] \in Seq(Tag)
    BY <1>1, <2>1
  <2>3. annotations'[i] = annotations[i]
    BY <1>2
  <2>4. Fits(annotations[i])'
    BY <2>1, <2>2, <2>3 DEF Fits
  <2>5. a = tags'.array => k <= tags'.len
    BY <1>1, <2>1
  <2>6. \A j \in 1..k : arrays'[a][j] = arrays[a][j]
    <3>1. ASSUME NEW j \in 1..k PROVE arrays'[a][j] = arrays[a][j]
      <4>1. j \in 1..Len(arrays[a]) /\ ~(a = tags.array /\ j = tags.len + 1)
        BY <2>1
      <4> QED BY <1>1, <2>1, <4>1
    <3> QED BY <3>1
  <2>7. SubSeq(arrays'[a], 1, k) = SubSeq(arrays[a], 1, k)
    BY <2>1, <2>2, <2>6, SamePrefix
  <2> QED BY <2>3, <2>4, <2>5, <2>7 DEF Elements
<1>4. IInv'
  BY <1>1, <1>2, <1>3 DEF IInv, TypeOK, Behind
<1> QED BY <1>2, <1>3, <1>4 DEF Kept

\* ParamTags and ResultTags hand out the slice of the builder.
LEMMA AnnotateInvariant ==
  ASSUME IInv, NEW op, Annotate(op) PROVE IInv' /\ Kept
<1>1. annotations \in Seq(Slice) /\ tags \in Slice
  BY DEF IInv, TypeOK
<1>2. annotations' = Append(annotations, tags)
      /\ UNCHANGED <<chain, prefixes, tags, arrays>>
  BY DEF Annotate, Makes
<1>3. /\ annotations' \in Seq(Slice) /\ DOMAIN annotations' = 1..(Len(annotations) + 1)
      /\ DOMAIN annotations = 1..Len(annotations) /\ Len(annotations) \in Nat
      /\ \A i \in DOMAIN annotations : annotations'[i] = annotations[i]
      /\ annotations'[Len(annotations) + 1] = tags
  BY <1>1, <1>2, AppendProperties
<1>4. \A i \in DOMAIN annotations' : i \in DOMAIN annotations \/ i = Len(annotations) + 1
  BY <1>3
<1>5. ASSUME NEW i \in DOMAIN annotations'
      PROVE  /\ Fits(annotations[i])'
             /\ annotations'[i].array = tags'.array => annotations'[i].len <= tags'.len
  <2>1. annotations'[i] = tags \/ (i \in DOMAIN annotations /\ annotations'[i] = annotations[i])
    BY <1>3, <1>4
  <2>2. Fits(annotations'[i])
    BY <2>1 DEF IInv, TypeOK
  <2>3. tags.len <= tags.len
    BY <1>1 DEF Slice
  <2>4. annotations'[i].array = tags.array => annotations'[i].len <= tags.len
    BY <2>1, <2>3 DEF IInv, Behind
  <2> QED BY <1>2, <2>2, <2>4 DEF Fits
<1>6. IInv'
  BY <1>2, <1>3, <1>5 DEF IInv, TypeOK, Behind, Fits
<1> QED BY <1>2, <1>3, <1>6 DEF Kept, Elements

\* StructTags copies the tags into an array of their own.
LEMMA StructTagsInvariant == ASSUME IInv, StructTags PROVE IInv' /\ Kept
<1> DEFINE copy == Elements(tags)
           place == Len(arrays) + 1
           slice == [array |-> place, len |-> tags.len]
<1>1. /\ arrays \in Seq(Seq(Tag)) /\ annotations \in Seq(Slice) /\ tags \in Slice
      /\ tags.array \in DOMAIN arrays /\ tags.len \in 0..Len(arrays[tags.array])
  BY DEF IInv, TypeOK, Fits
<1>2. copy \in Seq(Tag) /\ Len(copy) = tags.len /\ tags.len \in Nat
  <2>1. arrays[tags.array] \in Seq(Tag) /\ Len(arrays[tags.array]) \in Nat
    BY <1>1
  <2>2. \A i \in 1..tags.len : arrays[tags.array][i] \in Tag
    BY <1>1, <2>1
  <2> QED BY <1>1, <2>1, <2>2, SubSeqProperties DEF Elements
<1>3. /\ arrays' = Append(arrays, copy) /\ annotations' = Append(annotations, slice)
      /\ UNCHANGED <<chain, prefixes, tags>>
  BY DEF StructTags, Makes
<1> HIDE DEF copy
<1>4. /\ place \in Nat /\ place \notin DOMAIN arrays /\ slice \in Slice
      /\ slice.array = place /\ slice.len = tags.len
  BY <1>1, <1>2 DEF Slice
<1> HIDE DEF slice
<1>5. /\ arrays' \in Seq(Seq(Tag)) /\ DOMAIN arrays' = 1..place
      /\ DOMAIN arrays = 1..Len(arrays) /\ Len(arrays) \in Nat
      /\ \A a \in DOMAIN arrays : arrays'[a] = arrays[a]
      /\ arrays'[place] = copy
  BY <1>1, <1>2, <1>3, AppendProperties, SMTT(30)
<1>6. /\ annotations' \in Seq(Slice) /\ DOMAIN annotations' = 1..(Len(annotations) + 1)
      /\ DOMAIN annotations = 1..Len(annotations) /\ Len(annotations) \in Nat
      /\ \A i \in DOMAIN annotations : annotations'[i] = annotations[i]
      /\ annotations'[Len(annotations) + 1] = slice
  BY <1>1, <1>3, <1>4, AppendProperties
<1>7. place \in DOMAIN arrays' /\ \A a \in DOMAIN arrays : a \in DOMAIN arrays'
  BY <1>4, <1>5
<1> HIDE DEF place
<1>8. \A i \in DOMAIN annotations' : i \in DOMAIN annotations \/ i = Len(annotations) + 1
  BY <1>6
<1>9. ASSUME NEW i \in DOMAIN annotations'
      PROVE  /\ Fits(annotations[i])'
             /\ annotations'[i].array = tags'.array => annotations'[i].len <= tags'.len
  <2>1. CASE i \in DOMAIN annotations
    <3>1. Fits(annotations[i])
      BY <2>1 DEF IInv, TypeOK
    <3>2. Fits(annotations[i])'
      BY <1>5, <1>6, <1>7, <2>1, <3>1 DEF Fits
    <3> QED BY <1>3, <1>6, <2>1, <3>2 DEF IInv, Behind
  <2>2. CASE i = Len(annotations) + 1
    <3>1. annotations'[i].array = place /\ annotations'[i].len = tags.len
      BY <1>4, <1>6, <2>2
    <3>2. tags.len \in 0..Len(copy)
      BY <1>2
    <3>3. Fits(annotations[i])'
      BY <1>5, <1>7, <3>1, <3>2 DEF Fits
    <3>4. tags'.array # place
      BY <1>1, <1>3, <1>4
    <3> QED BY <3>1, <3>3, <3>4
  <2> QED BY <1>8, <2>1, <2>2
<1>10. Fits(tags)'
  BY <1>1, <1>3, <1>5, <1>7 DEF Fits
<1>11. IInv'
  BY <1>1, <1>3, <1>5, <1>6, <1>9, <1>10 DEF IInv, TypeOK, Behind
<1>12. Kept
  <2>1. \A i \in DOMAIN annotations : annotations[i].array \in DOMAIN arrays
    BY DEF IInv, TypeOK, Fits
  <2> QED BY <1>5, <1>6, <2>1 DEF Kept, Elements
<1> QED BY <1>11, <1>12

\* Every step keeps the invariant and the annotations.
LEMMA NextInvariant == IInv /\ [Next]_vars => IInv' /\ Kept
<1> SUFFICES ASSUME IInv, [Next]_vars PROVE IInv' /\ Kept
  OBVIOUS
<1>1. TypeOK
  BY DEF IInv
<1>2. ASSUME NEW p \in Arguments("Push"), Push(p) PROVE IInv' /\ Kept
  <2>1. p \in Seq(Part)
    BY <1>1, <1>2, ArgumentsAreNames DEF Ops
  <2>2. prefixes' \in Seq(Seq(Part))
    <3>1. prefixes \in Seq(Seq(Part)) /\ prefixes' = Append(prefixes, p)
      BY <1>1, <1>2 DEF TypeOK, Push
    <3> QED BY <2>1, <3>1, AppendProperties
  <2> QED BY <1>2, <2>2, TagsUntouched DEF Push, Makes
<1>3. CASE Pop
  <2>1. prefixes' \in Seq(Seq(Part))
    <3>1. prefixes \in Seq(Seq(Part))
      BY <1>1 DEF TypeOK
    <3>2. CASE prefixes = << >>
      BY <1>3, <3>1, <3>2 DEF Pop
    <3>3. CASE prefixes # << >>
      <4>1. prefixes' = SubSeq(prefixes, 1, Len(prefixes) - 1)
        BY <1>3, <3>3 DEF Pop
      <4> QED BY <3>1, <4>1
    <3> QED BY <3>2, <3>3
  <2> QED BY <1>3, <2>1, TagsUntouched DEF Pop, Makes
<1>4. ASSUME NEW op \in TagOps, NEW v \in Arguments(op), AddTag(op, v) PROVE IInv' /\ Kept
  <2>1. v \in Seq(Part)
    BY <1>1, <1>4, ArgumentsAreNames DEF Ops
  <2> QED BY <1>4, <2>1, AddTagInvariant
<1>5. ASSUME NEW op \in SharingOps, Annotate(op) PROVE IInv' /\ Kept
  BY <1>5, AnnotateInvariant
<1>6. CASE UNCHANGED vars
  <2>1. UNCHANGED <<chain, prefixes, tags, arrays, annotations>>
    BY <1>6 DEF vars
  <2>2. prefixes' \in Seq(Seq(Part))
    BY <1>1, <2>1 DEF TypeOK
  <2> QED BY <2>1, <2>2, TagsUntouched
<1> QED BY <1>2, <1>3, <1>4, <1>5, <1>6, StructTagsInvariant DEF Next

-----------------------------------------------------------------------------
(***************************************************************************)
(* The theorems.                                                           *)
(***************************************************************************)

\* The inductive invariant, for any parts, prefixes and values, and for chains of
\* any length.
THEOREM Invariance == Spec => []IInv
<1>1. Init => IInv
  BY InitInvariant
<1>2. IInv /\ [Next]_vars => IInv'
  BY NextInvariant
<1> QED BY <1>1, <1>2, PTL DEF Spec

\* Type correctness of a builder, its arrays and what it handed out.
THEOREM TypeCorrect == Spec => []TypeOK
<1>1. IInv => TypeOK
  BY DEF IInv
<1> QED BY <1>1, Invariance, PTL

\* No call changes the tags that ParamTags, ResultTags or StructTags returned.
THEOREM AnnotationsNeverChange == Spec => AnnotationsKept
<1>1. IInv /\ [Next]_vars => [Kept]_vars
  BY NextInvariant
<1>2. Spec => [][Kept]_vars
  BY <1>1, Invariance, PTL DEF Spec
<1> QED BY <1>2 DEF AnnotationsKept, Kept

-----------------------------------------------------------------------------
(***************************************************************************)
(* What calls do.                                                          *)
(***************************************************************************)

\* Appending below or at the end of the room: the beginning of the array is the
\* old one with the new tag.
LEMMA OneMoreElement ==
  ASSUME NEW a \in Seq(Tag), NEW b \in Seq(Tag), NEW t \in Tag, NEW n \in Nat,
         n <= Len(a), n + 1 <= Len(b), \A i \in 1..n : b[i] = a[i], b[n + 1] = t
  PROVE  SubSeq(b, 1, n + 1) = Append(SubSeq(a, 1, n), t)
<1>1. (\A i \in 1..n : a[i] \in Tag) /\ (\A i \in 1..(n + 1) : b[i] \in Tag)
  <2>1. Len(a) \in Nat /\ Len(b) \in Nat
    OBVIOUS
  <2> QED BY <2>1
<1> DEFINE s == SubSeq(a, 1, n)
           u == SubSeq(b, 1, n + 1)
           v == Append(s, t)
<1>2. s \in Seq(Tag) /\ Len(s) = n /\ \A i \in 1..n : s[i] = a[i]
  BY <1>1, SubSeqProperties
<1>3. u \in Seq(Tag) /\ Len(u) = n + 1 /\ \A i \in 1..(n + 1) : u[i] = b[i]
  BY <1>1, SubSeqProperties
<1> HIDE DEF s, u
<1>4. /\ v \in Seq(Tag) /\ Len(v) = n + 1 /\ \A i \in 1..n : v[i] = s[i]
      /\ v[n + 1] = t
  BY <1>2, AppendProperties
<1> HIDE DEF v
<1>5. \A i \in 1..(n + 1) : i \in 1..n \/ i = n + 1
  OBVIOUS
<1>6. \A i \in 1..(n + 1) : u[i] = v[i]
  BY <1>2, <1>3, <1>4, <1>5
<1>7. u = v
  BY <1>3, <1>4, <1>6, SeqEqual
<1> QED BY <1>7 DEF s, u, v

\* The builder has one more tag.
LEMMA AppendTagAppends ==
  ASSUME TypeOK, NEW t \in Tag, AppendTag(t)
  PROVE  Elements(tags)' = Append(Elements(tags), t) /\ tags'.len = tags.len + 1
<1> DEFINE at == tags.array
           n == tags.len
<1>1. /\ arrays \in Seq(Seq(Tag)) /\ at \in 1..Len(arrays) /\ DOMAIN arrays = 1..Len(arrays)
      /\ arrays[at] \in Seq(Tag) /\ Len(arrays) \in Nat
      /\ n \in Nat /\ n <= Len(arrays[at]) /\ Len(arrays[at]) \in Nat
      /\ tags \in Slice
  <2>1. arrays \in Seq(Seq(Tag)) /\ tags \in Slice /\ at \in DOMAIN arrays
        /\ n \in 0..Len(arrays[at])
    BY DEF TypeOK, Fits
  <2>2. arrays[at] \in Seq(Tag) /\ DOMAIN arrays = 1..Len(arrays) /\ Len(arrays) \in Nat
    BY <2>1
  <2> QED BY <2>1, <2>2 DEF Slice
<1>2. CASE n < Len(arrays[at])
  <2> DEFINE new == [arrays[at] EXCEPT ![n + 1] = t]
  <2>1. arrays' = [arrays EXCEPT ![at] = new] /\ tags' = [tags EXCEPT !.len = n + 1]
    BY <1>2 DEF AppendTag
  <2>2. n + 1 \in 1..Len(arrays[at])
    BY <1>1, <1>2
  <2>3. /\ new \in Seq(Tag) /\ Len(new) = Len(arrays[at]) /\ new[n + 1] = t
        /\ \A i \in 1..n : new[i] = arrays[at][i]
    <3>1. \A i \in 1..n : i \in 1..Len(arrays[at]) /\ i # n + 1
      BY <1>1
    <3> QED BY <1>1, <2>2, <3>1, ExceptSeq
  <2> HIDE DEF new
  <2>4. arrays'[at] = new
    BY <1>1, <2>1
  <2>5. tags'.array = at /\ tags'.len = n + 1
    BY <1>1, <2>1 DEF Slice
  <2>6. SubSeq(new, 1, n + 1) = Append(SubSeq(arrays[at], 1, n), t)
    <3>1. new \in Seq(Tag) /\ arrays[at] \in Seq(Tag) /\ n \in Nat /\ n <= Len(arrays[at])
          /\ n + 1 <= Len(new)
      BY <1>1, <2>2, <2>3
    <3> QED BY ONLY t \in Tag, <2>3, <3>1, OneMoreElement
  <2> QED BY <2>4, <2>5, <2>6 DEF Elements
<1>3. CASE ~(n < Len(arrays[at]))
  <2> DEFINE larger == Larger(arrays[at])
             new == [larger EXCEPT ![n + 1] = t]
             place == Len(arrays) + 1
  <2>1. n = Len(arrays[at])
    BY <1>1, <1>3
  <2>2. larger \in Seq(Tag) /\ Len(larger) \in Nat /\ n + 1 <= Len(larger)
        /\ \A i \in 1..n : larger[i] = arrays[at][i]
    BY <1>1, <2>1, LargerHasRoom
  <2>3. arrays' = Append(arrays, new) /\ tags' = [array |-> place, len |-> n + 1]
    BY <1>3 DEF AppendTag
  <2> HIDE DEF larger
  <2>4. /\ new \in Seq(Tag) /\ Len(new) = Len(larger) /\ new[n + 1] = t
        /\ \A i \in 1..n : new[i] = larger[i]
    <3>1. n + 1 \in 1..Len(larger) /\ \A i \in 1..n : i \in 1..Len(larger) /\ i # n + 1
      BY <1>1, <2>2
    <3> QED BY <2>2, <3>1, ExceptSeq
  <2> HIDE DEF new
  <2>5. arrays'[place] = new
    BY <1>1, <2>3, <2>4, AppendProperties
  <2>6. tags'.array = place /\ tags'.len = n + 1
    BY <2>3
  <2>7. SubSeq(new, 1, n + 1) = Append(SubSeq(arrays[at], 1, n), t)
    <3>1. n + 1 <= Len(new) /\ \A i \in 1..n : new[i] = arrays[at][i]
      BY <2>2, <2>4
    <3>2. new \in Seq(Tag) /\ arrays[at] \in Seq(Tag) /\ n \in Nat /\ n <= Len(arrays[at])
          /\ new[n + 1] = t
      BY <1>1, <2>4
    <3> QED BY ONLY t \in Tag, <3>1, <3>2, OneMoreElement
  <2> QED BY <2>5, <2>6, <2>7 DEF Elements
<1> QED BY <1>2, <1>3

\* The elements of the builder's slice.
LEMMA ElementsAre ==
  ASSUME TypeOK
  PROVE  Elements(tags) \in Seq(Tag) /\ Len(Elements(tags)) = tags.len /\ tags.len \in Nat
<1>1. arrays[tags.array] \in Seq(Tag) /\ tags.len \in 0..Len(arrays[tags.array])
  BY DEF TypeOK, Fits
<1>2. \A i \in 1..tags.len : arrays[tags.array][i] \in Tag
  BY <1>1
<1>3. tags.len \in Nat
  BY DEF TypeOK, Slice
<1> QED BY <1>1, <1>2, <1>3, SubSeqProperties DEF Elements

\* The prefixes and the tags are the same, in whichever array.
Unchanged == prefixes' = prefixes /\ Elements(tags)' = Elements(tags) /\ tags'.len = tags.len

\* What a call does to the prefixes and the tags.
LEMMA CallDoes ==
  ASSUME IInv, Next
  PROVE  \E c \in CallType :
           /\ calls' = Append(calls, c) /\ chain' = chain
           /\ chain # Free => Len(calls) < Len(chain) /\ c = chain[Len(calls) + 1]
           /\ \/ /\ c.op = "Push" /\ prefixes' = Append(prefixes, c.arg)
                 /\ Elements(tags)' = Elements(tags) /\ tags'.len = tags.len
              \/ /\ c.op = "Pop"
                 /\ prefixes' = IF prefixes = << >> THEN prefixes
                                ELSE SubSeq(prefixes, 1, Len(prefixes) - 1)
                 /\ Elements(tags)' = Elements(tags) /\ tags'.len = tags.len
              \/ /\ c.op \in TagOps /\ prefixes' = prefixes
                 /\ Elements(tags)' = Append(Elements(tags), TagFor(c.op, c.arg))
                 /\ tags'.len = tags.len + 1
                 /\ TagFor(c.op, c.arg) \in Tag
              \/ /\ c.op \in SharingOps /\ Unchanged
                 /\ \E i \in DOMAIN annotations' : Elements(annotations[i])' = Elements(tags)
              \/ c.op = "StructTags" /\ Unchanged
<1>1. TypeOK
  BY DEF IInv
<1>2. ASSUME NEW op \in Ops, NEW v \in Seq(Part), Makes(op, v)
      PROVE  /\ Call(op, v) \in CallType /\ Call(op, v).op = op /\ Call(op, v).arg = v
             /\ calls' = Append(calls, Call(op, v)) /\ chain' = chain
             /\ chain # Free => Len(calls) < Len(chain) /\ Call(op, v) = chain[Len(calls) + 1]
  BY <1>2, CallIsTyped DEF Makes, Call
<1>3. << >> \in Seq(Part)
  OBVIOUS
<1>4. ASSUME NEW p \in Arguments("Push"), Push(p)
      PROVE  \E c \in CallType :
           /\ calls' = Append(calls, c) /\ chain' = chain
           /\ chain # Free => Len(calls) < Len(chain) /\ c = chain[Len(calls) + 1]
           /\ c.op = "Push" /\ prefixes' = Append(prefixes, c.arg)
           /\ Elements(tags)' = Elements(tags) /\ tags'.len = tags.len
  <2>1. p \in Seq(Part) /\ "Push" \in Ops
    BY <1>1, ArgumentsAreNames DEF Ops
  <2> QED BY <1>2, <1>4, <2>1 DEF Push, Elements
<1>5. ASSUME Pop
      PROVE  \E c \in CallType :
           /\ calls' = Append(calls, c) /\ chain' = chain
           /\ chain # Free => Len(calls) < Len(chain) /\ c = chain[Len(calls) + 1]
           /\ c.op = "Pop"
           /\ prefixes' = IF prefixes = << >> THEN prefixes
                          ELSE SubSeq(prefixes, 1, Len(prefixes) - 1)
           /\ Elements(tags)' = Elements(tags) /\ tags'.len = tags.len
  <2>1. "Pop" \in Ops
    BY DEF Ops
  <2>2. /\ prefixes' = IF prefixes = << >> THEN prefixes
                          ELSE SubSeq(prefixes, 1, Len(prefixes) - 1)
        /\ Elements(tags)' = Elements(tags) /\ tags'.len = tags.len
        /\ Makes("Pop", << >>)
    BY <1>5 DEF Pop, Elements
  <2> QED BY ONLY <1>2, <1>3, <2>1, <2>2, ZenonT(60)
<1>6. ASSUME NEW op \in TagOps, NEW v \in Arguments(op), AddTag(op, v)
      PROVE  \E c \in CallType :
           /\ calls' = Append(calls, c) /\ chain' = chain
           /\ chain # Free => Len(calls) < Len(chain) /\ c = chain[Len(calls) + 1]
           /\ c.op \in TagOps /\ prefixes' = prefixes
           /\ Elements(tags)' = Append(Elements(tags), TagFor(c.op, c.arg))
           /\ tags'.len = tags.len + 1
           /\ TagFor(c.op, c.arg) \in Tag
  <2>1. v \in Seq(Part) /\ op \in Ops
    BY <1>1, ArgumentsAreNames DEF Ops
  <2>2. TagFor(op, v) \in Tag
    BY <1>1, <2>1, TagForIsTag
  <2>3. /\ Elements(tags)' = Append(Elements(tags), TagFor(op, v))
        /\ tags'.len = tags.len + 1
        /\ Makes(op, v) /\ prefixes' = prefixes
    BY <1>1, <1>6, <2>2, AppendTagAppends DEF AddTag
  <2> QED BY <1>2, <2>1, <2>2, <2>3
<1>7. ASSUME NEW op \in SharingOps, Annotate(op)
      PROVE  \E c \in CallType :
           /\ calls' = Append(calls, c) /\ chain' = chain
           /\ chain # Free => Len(calls) < Len(chain) /\ c = chain[Len(calls) + 1]
           /\ c.op \in SharingOps /\ Unchanged
           /\ \E i \in DOMAIN annotations' : Elements(annotations[i])' = Elements(tags)
  <2>1. annotations \in Seq(Slice) /\ tags \in Slice /\ annotations' = Append(annotations, tags)
    BY <1>1, <1>7 DEF TypeOK, Annotate
  <2>2. PICK k \in DOMAIN annotations' : annotations'[k] = tags
    BY <2>1, AppendProperties
  <2>3. \E i \in DOMAIN annotations' : Elements(annotations[i])' = Elements(tags)
    <3>1. Elements(annotations[k])' = Elements(tags)
      BY <1>7, <2>2 DEF Annotate, Elements
    <3> QED BY <3>1
  <2>4. Unchanged /\ Makes(op, << >>)
    BY <1>7 DEF Annotate, Unchanged, Elements
  <2>5. op \in Ops
    BY DEF Ops
  <2>6. PICK c : c = Call(op, << >>)
    OBVIOUS
  <2>7. /\ c \in CallType /\ c.op = op /\ calls' = Append(calls, c) /\ chain' = chain
        /\ chain # Free => Len(calls) < Len(chain) /\ c = chain[Len(calls) + 1]
    BY ONLY <1>2, <1>3, <2>4, <2>5, <2>6
  <2>8. c.op \in SharingOps
    BY <2>7
  <2> QED BY ONLY <2>3, <2>4, <2>7, <2>8
<1>8. ASSUME StructTags
      PROVE  \E c \in CallType :
           /\ calls' = Append(calls, c) /\ chain' = chain
           /\ chain # Free => Len(calls) < Len(chain) /\ c = chain[Len(calls) + 1]
           /\ c.op = "StructTags" /\ Unchanged
  <2>1. arrays \in Seq(Seq(Tag)) /\ tags.array \in 1..Len(arrays) /\ Elements(tags) \in Seq(Tag)
    BY <1>1, ElementsAre DEF TypeOK, Fits
  <2>2. arrays' = Append(arrays, Elements(tags)) /\ tags' = tags /\ prefixes' = prefixes
    BY <1>8 DEF StructTags
  <2>3. arrays'[tags.array] = arrays[tags.array]
    BY <2>1, <2>2, AppendProperties
  <2>4. Unchanged /\ Makes("StructTags", << >>)
    BY <1>8, <2>2, <2>3 DEF Unchanged, Elements, StructTags
  <2>5. "StructTags" \in Ops
    BY DEF Ops
  <2> QED BY <1>2, <1>3, <2>4, <2>5, ZenonT(60)
<1> QED BY <1>4, <1>5, <1>6, <1>7, <1>8 DEF Next

-----------------------------------------------------------------------------
(***************************************************************************)
(* The pushes that are in force, and the stack of prefixes.                *)
(***************************************************************************)

\* The calls made so far are calls.
CallsTyped == calls \in Seq(CallType)

\* The pushes that are in force before the next call, and how many prefixes are
\* above that of one of them.
Open == {i \in 1..Len(calls) : InForce(i, Len(calls) + 1)}
Above(i) == Count("Push", i + 1, Len(calls)) - Count("Pop", i + 1, Len(calls))

(***************************************************************************)
(* The stack of prefixes, from the calls alone: it holds the arguments of  *)
(* the pushes in force, each as far from the top as there are more pushes  *)
(* than pops after it.                                                     *)
(***************************************************************************)
InScope ==
  /\ \A i \in Open : /\ Above(i) \in 0..(Len(prefixes) - 1)
                     /\ prefixes[Len(prefixes) - Above(i)] = calls[i].arg
  /\ \A i, k \in Open : i < k => Above(k) < Above(i)
  /\ \A d \in 0..(Len(prefixes) - 1) : \E i \in Open : Above(i) = d

\* The calls after one more.
LEMMA CallsGrow ==
  ASSUME CallsTyped, NEW c \in CallType, calls' = Append(calls, c),
         NEW n, n = Len(calls)
  PROVE  /\ CallsTyped' /\ n \in Nat
         /\ Len(calls') = n + 1 /\ calls'[n + 1] = c
         /\ \A k \in 1..n : calls'[k] = calls[k]
  BY AppendProperties DEF CallsTyped

\* A count is a number of calls.
LEMMA CountIsNatural ==
  ASSUME NEW op, NEW i \in Int, NEW j \in Int
  PROVE  Count(op, i, j) \in Nat /\ IsFiniteSet({k \in i..j : calls[k].op = op})
<1>1. IsFiniteSet(i..j)
  BY FS_Interval
<1>2. IsFiniteSet({k \in i..j : calls[k].op = op})
  BY <1>1, FS_Subset
<1> QED BY <1>2, FS_CardinalityType DEF Count

\* A count of earlier calls stays.
LEMMA CountStays ==
  ASSUME CallsTyped, NEW c \in CallType, calls' = Append(calls, c),
         NEW op, NEW i \in Int, NEW j \in Int, i >= 1, j <= Len(calls)
  PROVE  Count(op, i, j)' = Count(op, i, j)
<1>1. PICK n \in Nat : n = Len(calls) /\ \A k \in 1..n : calls'[k] = calls[k]
  BY CallsGrow
<1>2. i..j \subseteq 1..n
  BY <1>1
<1>3. {k \in i..j : calls'[k].op = op} = {k \in i..j : calls[k].op = op}
  BY <1>1, <1>2
<1> QED BY <1>3 DEF Count

\* One more call is counted once, or not.
LEMMA CountGrows ==
  ASSUME CallsTyped, NEW c \in CallType, calls' = Append(calls, c),
         NEW n, n = Len(calls), NEW op
  PROVE  /\ \A i \in 1..(n + 1) :
              Count(op, i, n + 1)' = Count(op, i, n) + (IF c.op = op THEN 1 ELSE 0)
         /\ Count(op, n + 2, n + 1)' = 0
<1>1. /\ n \in Nat /\ calls'[n + 1] = c /\ \A k \in 1..n : calls'[k] = calls[k]
  BY CallsGrow
<1>3. ASSUME NEW i \in 1..(n + 1)
      PROVE  Count(op, i, n + 1)' = Count(op, i, n) + (IF c.op = op THEN 1 ELSE 0)
  <2> DEFINE before == {k \in i..n : calls[k].op = op}
             after == {k \in i..(n + 1) : calls'[k].op = op}
  <2>1. i..(n + 1) = i..n \cup {n + 1} /\ n + 1 \notin i..n /\ i..n \subseteq 1..n
        /\ i \in Int /\ n \in Int
    BY <1>1
  <2>2. after = before \cup (IF c.op = op THEN {n + 1} ELSE {})
    BY <1>1, <2>1
  <2>3. n + 1 \notin before
    BY <2>1
  <2>4. IsFiniteSet(before) /\ Cardinality(before) \in Nat
    BY <2>1, CountIsNatural DEF Count
  <2> HIDE DEF before, after
  <2>5. Cardinality(after) = Cardinality(before) + (IF c.op = op THEN 1 ELSE 0)
    <3>1. CASE c.op = op
      <4>1. after = before \cup {n + 1}
        BY <2>2, <3>1
      <4>2. Cardinality(before \cup {n + 1}) = Cardinality(before) + 1
        BY <2>3, <2>4, FS_AddElement
      <4> QED BY <3>1, <4>1, <4>2
    <3>2. CASE c.op # op
      <4>1. after = before
        BY <2>2, <3>2
      <4> QED BY <2>4, <3>2, <4>1
    <3> QED BY <3>1, <3>2
  <2> QED BY <2>5 DEF Count, before, after
<1>4. Count(op, n + 2, n + 1)' = 0
  <2>1. {k \in (n + 2)..(n + 1) : calls'[k].op = op} = {}
    BY <1>1
  <2> QED BY <2>1, FS_EmptySet DEF Count
<1> QED BY <1>3, <1>4

\* Whether a push is in force does not depend on later calls.
LEMMA InForceStays ==
  ASSUME CallsTyped, NEW c \in CallType, calls' = Append(calls, c),
         NEW k \in 1..(Len(calls) + 1), NEW i \in 1..(k - 1)
  PROVE  InForce(i, k)' <=> InForce(i, k)
<1>0. PICK n : n = Len(calls)
  OBVIOUS
<1>1. n \in Nat /\ i \in 1..n /\ k \in 1..(n + 1) /\ calls'[i].op = calls[i].op
  <2>1. n \in Nat /\ \A x \in 1..n : calls'[x] = calls[x]
    BY <1>0, CallsGrow
  <2>2. k \in 1..(n + 1) /\ i \in 1..(k - 1)
    BY <1>0
  <2>3. i \in 1..n
    BY ONLY <2>1, <2>2
  <2> QED BY <2>1, <2>2, <2>3
<1>2. ASSUME NEW j \in i..(k - 1), NEW op PROVE Count(op, i + 1, j)' = Count(op, i + 1, j)
  <2>1. PICK x, y \in Int : x = i + 1 /\ y = j /\ x >= 1 /\ y <= Len(calls)
    BY <1>0, <1>1
  <2>2. Count(op, x, y)' = Count(op, x, y)
    BY <2>1, CountStays
  <2> QED BY <2>1, <2>2
<1>3. \A j \in i..(k - 1) : /\ Count("Pop", i + 1, j)' = Count("Pop", i + 1, j)
                           /\ Count("Push", i + 1, j)' = Count("Push", i + 1, j)
  BY <1>2
<1>4. calls'[i].op = calls[i].op
  BY <1>1
<1> QED BY ONLY <1>3, <1>4 DEF InForce

\* The pushes in force after one more call: those that it does not undo, and
\* itself.
LEMMA OpenAfter ==
  ASSUME CallsTyped, NEW c \in CallType, calls' = Append(calls, c),
         NEW n, n = Len(calls)
  PROVE  /\ \A i \in 1..n :
              i \in Open' <=> /\ i \in Open
                              /\ Count("Pop", i + 1, n + 1)' <= Count("Push", i + 1, n + 1)'
         /\ n + 1 \in Open' <=> c.op = "Push"
         /\ Open' \subseteq 1..(n + 1) /\ Open \subseteq 1..n
<1>1. /\ n \in Nat /\ Len(calls') = n + 1 /\ calls'[n + 1] = c
      /\ \A k \in 1..n : calls'[k] = calls[k]
  BY CallsGrow
<1>2. Open' = {i \in 1..(n + 1) : InForce(i, n + 2)'}
  <2>1. (n + 1) + 1 = n + 2
    BY <1>1
  <2> QED BY <1>1, <2>1 DEF Open
<1>3. ASSUME NEW i \in 1..n
      PROVE  InForce(i, n + 2)' <=> /\ InForce(i, n + 1)
                                    /\ Count("Pop", i + 1, n + 1)' <= Count("Push", i + 1, n + 1)'
  <2>1. i..(n + 2 - 1) = i..(n + 1 - 1) \cup {n + 1}
    BY <1>1
  <2>2. InForce(i, n + 1)' <=> InForce(i, n + 1)
    <3>1. n + 1 \in 1..(Len(calls) + 1) /\ i \in 1..(n + 1 - 1)
      BY <1>1
    <3> QED BY <3>1, InForceStays
  <2>3. InForce(i, n + 2)' <=> /\ InForce(i, n + 1)'
                               /\ Count("Pop", i + 1, n + 1)' <= Count("Push", i + 1, n + 1)'
    BY <2>1 DEF InForce
  <2> QED BY <2>2, <2>3
<1>4. InForce(n + 1, n + 2)' <=> c.op = "Push"
  <2>1. (n + 1)..(n + 2 - 1) = {n + 1} /\ (n + 1) + 1 = n + 2
    BY <1>1
  <2>2. Count("Pop", n + 2, n + 1)' = 0 /\ Count("Push", n + 2, n + 1)' = 0
    BY CountGrows
  <2>3. Count("Pop", n + 2, n + 1)' <= Count("Push", n + 2, n + 1)'
    BY <2>2
  <2> QED BY <1>1, <2>1, <2>3 DEF InForce
<1>5. \A i \in 1..n : i \in 1..(n + 1)
  BY <1>1
<1>6. n + 1 \in 1..(n + 1)
  BY <1>1
<1>7. Open = {i \in 1..n : InForce(i, n + 1)}
  BY DEF Open
<1> QED BY <1>2, <1>3, <1>4, <1>5, <1>6, <1>7

\* The part of the invariant that is about the stack.
ScopesSoFar == CallsTyped /\ InScope

\* How many prefixes are above one that was pushed before.
LEMMA AboveAfter ==
  ASSUME CallsTyped, NEW c \in CallType, calls' = Append(calls, c),
         NEW n, n = Len(calls)
  PROVE  /\ \A i \in 1..n :
              /\ Above(i) \in Int
              /\ Above(i)' = Above(i) + (IF c.op = "Push" THEN 1 ELSE 0)
                                      - (IF c.op = "Pop" THEN 1 ELSE 0)
              /\ Count("Pop", i + 1, n + 1)' <= Count("Push", i + 1, n + 1)' <=> Above(i)' >= 0
         /\ Above(n + 1)' = 0
<1>1. n \in Nat /\ Len(calls') = n + 1
  BY CallsGrow
<1>2. ASSUME NEW i \in 1..n
      PROVE  /\ Above(i) \in Int
             /\ Above(i)' = Above(i) + (IF c.op = "Push" THEN 1 ELSE 0)
                                     - (IF c.op = "Pop" THEN 1 ELSE 0)
             /\ Count("Pop", i + 1, n + 1)' <= Count("Push", i + 1, n + 1)' <=> Above(i)' >= 0
  <2>1. i + 1 \in 1..(n + 1) /\ i + 1 \in Int /\ n \in Int
    BY <1>1
  <2>2. PICK a, b \in Nat : a = Count("Push", i + 1, n) /\ b = Count("Pop", i + 1, n)
    BY <2>1, CountIsNatural
  <2>3. /\ Count("Push", i + 1, n + 1)' = a + (IF c.op = "Push" THEN 1 ELSE 0)
        /\ Count("Pop", i + 1, n + 1)' = b + (IF c.op = "Pop" THEN 1 ELSE 0)
    <3>1. \A x \in 1..(n + 1) :
            /\ Count("Push", x, n + 1)' = Count("Push", x, n) + (IF c.op = "Push" THEN 1 ELSE 0)
            /\ Count("Pop", x, n + 1)' = Count("Pop", x, n) + (IF c.op = "Pop" THEN 1 ELSE 0)
      BY CountGrows
    <3> QED BY <2>1, <2>2, <3>1
  <2>4. Above(i) = a - b
    BY <2>2 DEF Above
  <2>5. Above(i)' = Count("Push", i + 1, n + 1)' - Count("Pop", i + 1, n + 1)'
    BY <1>1 DEF Above
  <2> QED BY <2>3, <2>4, <2>5
<1>3. Above(n + 1)' = 0
  <2>1. (n + 1) + 1 = n + 2
    BY <1>1
  <2>2. Count("Push", n + 2, n + 1)' = 0 /\ Count("Pop", n + 2, n + 1)' = 0
    BY CountGrows
  <2>3. Above(n + 1)' = Count("Push", n + 2, n + 1)' - Count("Pop", n + 2, n + 1)'
    BY <1>1, <2>1 DEF Above
  <2> QED BY <2>2, <2>3
<1> QED BY <1>2, <1>3

\* The scopes after a call.
LEMMA ScopesKept ==
  ASSUME IInv, ScopesSoFar, NEW c \in CallType, calls' = Append(calls, c),
         \/ c.op = "Push" /\ prefixes' = Append(prefixes, c.arg)
         \/ /\ c.op = "Pop"
            /\ prefixes' = IF prefixes = << >> THEN prefixes
                           ELSE SubSeq(prefixes, 1, Len(prefixes) - 1)
         \/ c.op \notin {"Push", "Pop"} /\ prefixes' = prefixes
  PROVE  ScopesSoFar'
<1>0. PICK n : n = Len(calls)
  OBVIOUS
<1>1. /\ CallsTyped' /\ n \in Nat /\ Len(calls') = n + 1 /\ calls'[n + 1] = c
      /\ \A k \in 1..n : calls'[k] = calls[k]
  BY <1>0, CallsGrow DEF ScopesSoFar
<1>2. PICK m \in Nat : m = Len(prefixes)
  BY DEF IInv, TypeOK
<1>3. \A i \in 1..n :
        /\ Above(i) \in Int
        /\ Above(i)' = Above(i) + (IF c.op = "Push" THEN 1 ELSE 0)
                                - (IF c.op = "Pop" THEN 1 ELSE 0)
        /\ i \in Open' <=> i \in Open /\ Above(i)' >= 0
  BY <1>0, AboveAfter, OpenAfter DEF ScopesSoFar
<1>4. /\ Open' \subseteq 1..(n + 1) /\ Open \subseteq 1..n
      /\ n + 1 \in Open' <=> c.op = "Push"
      /\ Above(n + 1)' = 0
  BY <1>0, AboveAfter, OpenAfter DEF ScopesSoFar
<1>5. /\ \A i \in Open : Above(i) \in 0..(m - 1) /\ prefixes[m - Above(i)] = calls[i].arg
      /\ \A i, k \in Open : i < k => Above(k) < Above(i)
      /\ \A d \in 0..(m - 1) : \E i \in Open : Above(i) = d
  BY <1>2 DEF ScopesSoFar, InScope
<1>6. \A i \in Open' : i \in 1..n \/ i = n + 1
  BY <1>1, <1>4
<1>7. CASE c.op = "Push" /\ prefixes' = Append(prefixes, c.arg)
  <2>1. /\ Len(prefixes') = m + 1 /\ prefixes'[m + 1] = c.arg
        /\ \A d \in 1..m : prefixes'[d] = prefixes[d]
    <3>1. prefixes \in Seq(Seq(Part)) /\ c.arg \in Seq(Part)
      BY DEF IInv, TypeOK, CallType
    <3> QED BY <1>2, <1>7, <3>1, AppendProperties
  <2>2. ASSUME NEW i \in Open', i \in 1..n
        PROVE  i \in Open /\ Above(i)' = Above(i) + 1 /\ Above(i) \in 0..(m - 1)
    BY <1>3, <1>5, <1>7, <2>2
  <2>3. ASSUME NEW i \in Open
        PROVE  i \in Open' /\ i \in 1..n /\ Above(i)' = Above(i) + 1
    BY <1>3, <1>4, <1>5, <1>7
  <2>4. ASSUME NEW i \in Open'
        PROVE  Above(i)' \in 0..m /\ prefixes'[(m + 1) - Above(i)'] = calls'[i].arg
    <3>1. CASE i \in 1..n
      <4>1. i \in Open /\ Above(i)' = Above(i) + 1 /\ Above(i) \in 0..(m - 1)
        BY <2>2, <3>1
      <4>2. (m + 1) - Above(i)' = m - Above(i) /\ m - Above(i) \in 1..m
            /\ Above(i)' \in 0..m
        BY <4>1
      <4> QED BY <1>1, <1>5, <2>1, <3>1, <4>1, <4>2
    <3>2. CASE i = n + 1
      BY <1>1, <1>4, <2>1, <3>2
    <3> QED BY <1>6, <3>1, <3>2
  <2>5. ASSUME NEW i \in Open', NEW k \in Open', i < k
        PROVE  Above(k)' < Above(i)'
    <3>1. i \in 1..n
      BY <1>1, <1>6, <2>5
    <3>2. CASE k \in 1..n
      <4>1. Above(k) < Above(i)
        BY <1>5, <2>2, <2>5, <3>1, <3>2
      <4> QED BY <2>2, <3>1, <3>2, <4>1
    <3>3. CASE k = n + 1
      BY <1>4, <2>2, <3>1, <3>3
    <3> QED BY <1>6, <3>2, <3>3
  <2>6. ASSUME NEW d \in 0..m PROVE \E i \in Open' : Above(i)' = d
    <3>1. CASE d = 0
      BY <1>4, <1>7, <3>1
    <3>2. CASE d # 0
      <4>1. d - 1 \in 0..(m - 1)
        BY <3>2
      <4>2. PICK i \in Open : Above(i) = d - 1
        BY <1>5, <4>1
      <4> QED BY <2>3, <4>2
    <3> QED BY <3>1, <3>2
  <2>7. Len(prefixes') - 1 = m
    BY <2>1
  <2>8. InScope'
    BY <2>1, <2>4, <2>5, <2>6, <2>7 DEF InScope
  <2> QED BY <1>1, <2>8 DEF ScopesSoFar
<1>8. CASE /\ c.op = "Pop"
           /\ prefixes' = IF prefixes = << >> THEN prefixes
                          ELSE SubSeq(prefixes, 1, Len(prefixes) - 1)
  <2>1. CASE prefixes = << >>
    <3>1. m = 0 /\ prefixes' = prefixes
      BY <1>2, <1>8, <2>1
    <3>2. Open = {}
      BY <1>5, <3>1
    <3>3. Open' = {}
      BY <1>3, <1>4, <1>6, <1>8, <3>2
    <3>4. Len(prefixes') = 0
      BY <1>2, <3>1
    <3>5. 0..(Len(prefixes') - 1) = {}
      BY ONLY <3>4
    <3>6. InScope'
      BY <3>3, <3>5 DEF InScope
    <3> QED BY <1>1, <3>6 DEF ScopesSoFar
  <2>2. CASE prefixes # << >>
    <3>1. /\ m >= 1 /\ Len(prefixes') = m - 1
          /\ \A d \in 1..(m - 1) : prefixes'[d] = prefixes[d]
      <4>1. prefixes \in Seq(Seq(Part))
        BY DEF IInv, TypeOK
      <4>2. m >= 1
        BY <1>2, <2>2, <4>1, EmptySeq
      <4>3. prefixes' = SubSeq(prefixes, 1, m - 1)
        BY <1>2, <1>8, <2>2
      <4> QED BY <1>2, <4>1, <4>2, <4>3
    <3>2. ASSUME NEW i \in Open'
          PROVE  i \in Open /\ i \in 1..n /\ Above(i) \in 1..(m - 1) /\ Above(i)' = Above(i) - 1
      <4>1. i \in 1..n
        BY <1>4, <1>6, <1>8
      <4>2. i \in Open /\ Above(i) \in Int /\ Above(i)' = Above(i) - 1 /\ Above(i)' >= 0
        BY <1>3, <1>8, <4>1
      <4>3. Above(i) \in 0..(m - 1)
        BY <1>5, <4>2
      <4> QED BY <4>1, <4>2, <4>3
    <3>3. ASSUME NEW i \in Open, Above(i) >= 1
          PROVE  i \in Open' /\ Above(i)' = Above(i) - 1
      BY <1>3, <1>4, <1>5, <1>8, <3>3, SMTT(30)
    <3>4. ASSUME NEW i \in Open'
          PROVE  Above(i)' \in 0..(m - 1 - 1) /\ prefixes'[(m - 1) - Above(i)'] = calls'[i].arg
      <4>1. (m - 1) - Above(i)' = m - Above(i) /\ m - Above(i) \in 1..(m - 1)
            /\ Above(i)' \in 0..(m - 1 - 1)
        <5>1. PICK x \in 1..(m - 1) : x = Above(i) /\ Above(i)' = x - 1
          BY <3>2
        <5> QED BY <5>1
      <4> QED BY <1>1, <1>5, <3>1, <3>2, <4>1
    <3>5. ASSUME NEW i \in Open', NEW k \in Open', i < k
          PROVE  Above(k)' < Above(i)'
      <4>1. Above(k) < Above(i)
        BY <1>5, <3>2, <3>5
      <4> QED BY <3>2, <4>1
    <3>6. ASSUME NEW d \in 0..(m - 1 - 1) PROVE \E i \in Open' : Above(i)' = d
      <4>1. d + 1 \in 0..(m - 1)
        OBVIOUS
      <4>2. PICK i \in Open : Above(i) = d + 1
        BY <1>5, <4>1
      <4> QED BY <3>3, <4>2
    <3>7. InScope'
      BY <3>1, <3>4, <3>5, <3>6 DEF InScope
    <3> QED BY <1>1, <3>7 DEF ScopesSoFar
  <2> QED BY <2>1, <2>2
<1>9. CASE c.op \notin {"Push", "Pop"} /\ prefixes' = prefixes
  <2>1. \A i \in 1..n : Above(i)' = Above(i)
    BY <1>3, <1>9
  <2>2. Open' = Open
    <3>1. \A i \in 1..n : i \in Open' <=> i \in Open
      <4>1. \A i \in 1..n : i \in Open => Above(i) >= 0
        BY <1>5
      <4>2. \A i \in 1..n : i \in Open' <=> i \in Open /\ Above(i) >= 0
        BY ONLY <1>3, <2>1
      <4> QED BY ONLY <4>1, <4>2
    <3>2. Open' \subseteq 1..n /\ Open \subseteq 1..n
      BY <1>4, <1>6, <1>9
    <3> QED BY ONLY <3>1, <3>2
  <2>3. \A i \in Open : i \in 1..n /\ calls'[i] = calls[i]
    BY <1>1, <1>4
  <2>4. Len(prefixes') = m
    BY <1>2, <1>9
  <2>5. InScope'
    BY <1>5, <1>9, <2>1, <2>2, <2>3, <2>4, ZenonT(60) DEF InScope
  <2> QED BY <1>1, <2>5 DEF ScopesSoFar
<1> QED BY <1>7, <1>8, <1>9

-----------------------------------------------------------------------------
(***************************************************************************)
(* Every tag has the prefix of its scope.                                  *)
(***************************************************************************)

\* A set of positions that is not empty has a last one.
LEMMA LastPosition ==
  ASSUME NEW k \in Int, NEW T \in SUBSET (1..(k - 1)), T # {}
  PROVE  \E i \in T : \A j \in T : j <= i
<1> DEFINE Less == OpToRel(<, Nat)
           far == {k - i : i \in T}
<1>1. IsWellFoundedOn(Less, Nat)
  BY NatLessThanWellFounded
<1>2. \A x, y \in Nat : x < y => <<x, y>> \in Less
  BY DEF OpToRel
<1>3. far \in SUBSET Nat /\ far # {}
  <2>1. ASSUME NEW i \in T PROVE k - i \in Nat
    <3>1. i \in 1..(k - 1)
      OBVIOUS
    <3> QED BY <3>1
  <2>2. PICK i : i \in T
    OBVIOUS
  <2> QED BY <2>1, <2>2, Zenon
<1> HIDE DEF Less, far
<1>4. PICK d \in far : \A x \in far : <<x, d>> \notin Less
  BY <1>1, <1>3, WFMin
<1>5. PICK i \in T : d = k - i
  BY <1>4 DEF far
<1>6. ASSUME NEW j \in T PROVE j <= i
  <2>1. k - j \in far /\ k - j \in Nat /\ d \in Nat
    BY <1>3 DEF far
  <2>2. ~(k - j < d)
    BY <1>2, <1>4, <2>1
  <2> QED BY <1>5, <2>2
<1> QED BY <1>6

\* A scope does not depend on later calls.
LEMMA ScopeStays ==
  ASSUME CallsTyped, NEW c \in CallType, calls' = Append(calls, c),
         NEW k \in 1..(Len(calls) + 1)
  PROVE  Scope(k)' = Scope(k)
<1>1. ASSUME NEW i \in 1..(k - 1)
      PROVE  (InForce(i, k)' <=> InForce(i, k)) /\ calls'[i].arg = calls[i].arg
  <2>1. PICK n \in Nat : n = Len(calls) /\ \A x \in 1..n : calls'[x] = calls[x]
    BY CallsGrow
  <2>2. i \in 1..n
    BY <2>1
  <2>3. InForce(i, k)' <=> InForce(i, k)
    BY InForceStays
  <2> QED BY <2>1, <2>2, <2>3
<1> DEFINE pushed == {i \in 1..(k - 1) : InForce(i, k)}
           next == {i \in 1..(k - 1) : InForce(i, k)'}
           last == CHOOSE i \in pushed : \A j \in pushed : j <= i
<1>2. next = pushed
  BY <1>1
<1>3. Scope(k) = IF pushed = {} THEN << >> ELSE calls[last].arg
  BY DEF Scope
<1>4. Scope(k)' = IF pushed = {} THEN << >> ELSE calls'[last].arg
  <2>1. Scope(k)' = IF next = {} THEN << >>
                    ELSE calls'[CHOOSE i \in next : \A j \in next : j <= i].arg
    BY DEF Scope
  <2> HIDE DEF pushed, next
  <2> QED BY <1>2, <2>1
<1>5. pushed # {} => last \in 1..(k - 1)
  <2>1. pushed \in SUBSET (1..(k - 1)) /\ k \in Int /\ \A i \in pushed : i \in 1..(k - 1)
    OBVIOUS
  <2> HIDE DEF pushed, last
  <2>2. pushed # {} => \E i \in pushed : \A j \in pushed : j <= i
    BY <2>1, LastPosition
  <2>3. pushed # {} => last \in pushed
    BY <2>2, Zenon DEF last
  <2> QED BY <2>1, <2>3, Zenon
<1> HIDE DEF last
<1> QED BY <1>1, <1>3, <1>4, <1>5

\* The scope of the next call is the innermost prefix.
LEMMA ScopeIs ==
  ASSUME TypeOK, ScopesSoFar
  PROVE  Scope(Len(calls) + 1) = IF prefixes = << >> THEN << >> ELSE prefixes[Len(prefixes)]
<1>1. PICK n, m \in Nat : n = Len(calls) /\ m = Len(prefixes)
  BY DEF ScopesSoFar, CallsTyped, TypeOK
<1>2. (n + 1) - 1 = n
  BY <1>1
<1>3. Open = {i \in 1..n : InForce(i, n + 1)}
  BY <1>1 DEF Open
<1>4. Scope(n + 1) = IF Open = {} THEN << >>
                     ELSE calls[CHOOSE i \in Open : \A j \in Open : j <= i].arg
  BY <1>2, <1>3 DEF Scope
<1>5. /\ \A i \in Open : Above(i) \in 0..(m - 1) /\ prefixes[m - Above(i)] = calls[i].arg
      /\ \A i, k \in Open : i < k => Above(k) < Above(i)
      /\ \A d \in 0..(m - 1) : \E i \in Open : Above(i) = d
  BY <1>1 DEF ScopesSoFar, InScope
<1>6. prefixes = << >> <=> m = 0
  BY <1>1, EmptySeq DEF TypeOK
<1>7. CASE m = 0
  BY <1>1, <1>4, <1>5, <1>6, <1>7
<1>8. CASE m # 0
  <2>1. PICK i \in Open : Above(i) = 0
    BY <1>5, <1>8
  <2>2. \A j \in Open : j \in Int
    BY <1>3
  <2>3. ASSUME NEW j \in Open PROVE j <= i
    <3>1. ~(Above(j) < 0)
      BY <1>5
    <3>2. ~(i < j)
      BY <1>5, <2>1, <3>1
    <3> QED BY <2>2, <3>2
  <2>4. \A l \in Open : (\A j \in Open : j <= l) => l = i
    BY <2>2, <2>3
  <2>5. (CHOOSE l \in Open : \A j \in Open : j <= l) = i
    BY <2>3, <2>4
  <2>6. prefixes[m] = calls[i].arg
    BY <1>1, <1>5, <2>1
  <2> QED BY <1>1, <1>4, <1>6, <1>8, <2>5, <2>6
<1> QED BY <1>7, <1>8

\* The calls that add a tag, after one more.
LEMMA AddingGrows ==
  ASSUME CallsTyped, NEW c \in CallType, calls' = Append(calls, c),
         NEW n, n = Len(calls)
  PROVE  /\ \A k \in 0..n : Adding(k)' = Adding(k)
         /\ Adding(n + 1)' = Adding(n) \cup (IF c.op \in TagOps THEN {n + 1} ELSE {})
         /\ n + 1 \notin Adding(n)
<1>1. n \in Nat /\ calls'[n + 1] = c /\ \A x \in 1..n : calls'[x] = calls[x]
  BY CallsGrow
<1>2. ASSUME NEW k \in 0..n PROVE Adding(k)' = Adding(k)
  <2>1. 1..k \subseteq 1..n
    BY <1>1
  <2> QED BY <1>1, <2>1 DEF Adding
<1>3. 1..(n + 1) = 1..n \cup {n + 1} /\ n + 1 \notin 1..n
  BY <1>1
<1>4. n + 1 \notin Adding(n)
  BY <1>3 DEF Adding
<1>5. Adding(n + 1)' = Adding(n) \cup (IF c.op \in TagOps THEN {n + 1} ELSE {})
  BY <1>1, <1>3 DEF Adding
<1> QED BY <1>2, <1>4, <1>5

\* The index of the tag that a call added.
LEMMA AddingCounts ==
  ASSUME NEW n \in Nat
  PROVE  /\ IsFiniteSet(Adding(n)) /\ Cardinality(Adding(n)) \in Nat
         /\ \A k \in Adding(n) : /\ k \in 1..n
                                 /\ Cardinality(Adding(k)) \in 1..Cardinality(Adding(n))
<1>1. \A k \in Nat : IsFiniteSet(Adding(k)) /\ Cardinality(Adding(k)) \in Nat
  <2>1. ASSUME NEW k \in Nat PROVE IsFiniteSet(Adding(k))
    <3>1. IsFiniteSet(1..k)
      BY FS_Interval
    <3> QED BY <3>1, FS_Subset DEF Adding
  <2> QED BY <2>1, FS_CardinalityType
<1>2. ASSUME NEW k \in Adding(n)
      PROVE  k \in 1..n /\ Cardinality(Adding(k)) \in 1..Cardinality(Adding(n))
  <2>1. k \in 1..n /\ k \in Nat /\ calls[k].op \in TagOps
    BY DEF Adding
  <2>2. Adding(k) \subseteq Adding(n) /\ k \in Adding(k)
    BY <2>1 DEF Adding
  <2>3. Cardinality(Adding(k)) <= Cardinality(Adding(n))
    BY <1>1, <2>2, FS_Subset
  <2>4. Cardinality(Adding(k)) # 0
    BY <1>1, <2>1, <2>2, FS_EmptySet
  <2>5. PICK x, y \in Nat : x = Cardinality(Adding(k)) /\ y = Cardinality(Adding(n))
    BY <1>1, <2>1
  <2> QED BY <2>1, <2>3, <2>4, <2>5
<1> QED BY <1>1, <1>2

\* What a tag says.
LEMMA TagForSays ==
  ASSUME NEW op \in TagOps, NEW v
  PROVE  /\ op \in {"Name", "OptionalName", "Group"} => TagFor(op, v).name = Prefixed(v)
         /\ op \in {"Skip", "Optional"} => TagFor(op, v).kind = "none"
BY DEF TagFor, TagOps, Empty

\* The inductive invariant of the scopes: TagsInScope needs the stack.
ScopeIInv == ScopesSoFar /\ TagsInScope

\* A call adds its tag at the end, with the prefix of its scope, and keeps those of
\* the calls before it.
LEMMA TagsStayInScope == ASSUME IInv, ScopeIInv, Next PROVE ScopeIInv'
<1>1. TypeOK /\ ScopesSoFar /\ CallsTyped /\ TagsInScope
  BY DEF IInv, ScopeIInv, ScopesSoFar
<1>2. PICK c \in CallType :
           /\ calls' = Append(calls, c)
           /\ \/ /\ c.op = "Push" /\ prefixes' = Append(prefixes, c.arg)
                 /\ Elements(tags)' = Elements(tags) /\ tags'.len = tags.len
              \/ /\ c.op = "Pop"
                 /\ prefixes' = IF prefixes = << >> THEN prefixes
                                ELSE SubSeq(prefixes, 1, Len(prefixes) - 1)
                 /\ Elements(tags)' = Elements(tags) /\ tags'.len = tags.len
              \/ /\ c.op \in TagOps /\ prefixes' = prefixes
                 /\ Elements(tags)' = Append(Elements(tags), TagFor(c.op, c.arg))
                 /\ tags'.len = tags.len + 1
                 /\ TagFor(c.op, c.arg) \in Tag
              \/ /\ c.op \in SharingOps /\ Unchanged
              \/ c.op = "StructTags" /\ Unchanged
  BY CallDoes
<1>3. ScopesSoFar'
  <2>1. c.op \in TagOps \cup SharingOps \cup {"StructTags"} => c.op \notin {"Push", "Pop"}
    BY DEF TagOps, SharingOps
  <2>2. \/ c.op = "Push" /\ prefixes' = Append(prefixes, c.arg)
        \/ /\ c.op = "Pop"
           /\ prefixes' = IF prefixes = << >> THEN prefixes
                           ELSE SubSeq(prefixes, 1, Len(prefixes) - 1)
        \/ c.op \notin {"Push", "Pop"} /\ prefixes' = prefixes
    BY <1>2, <2>1 DEF Unchanged
  <2> QED BY <1>1, <1>2, <2>2, ScopesKept
<1>4. PICK n \in Nat : n = Len(calls)
  BY <1>1 DEF CallsTyped
<1>5. /\ Len(calls') = n + 1 /\ calls'[n + 1] = c
      /\ \A k \in 1..n : calls'[k] = calls[k]
  BY <1>1, <1>2, <1>4, CallsGrow
<1>6. /\ \A k \in 0..n : Adding(k)' = Adding(k)
      /\ Adding(n + 1)' = Adding(n) \cup (IF c.op \in TagOps THEN {n + 1} ELSE {})
      /\ n + 1 \notin Adding(n)
  BY <1>1, <1>2, <1>4, AddingGrows
<1>7. /\ IsFiniteSet(Adding(n)) /\ tags.len = Cardinality(Adding(n)) /\ tags.len \in Nat
      /\ \A k \in Adding(n) : k \in 1..n /\ Cardinality(Adding(k)) \in 1..tags.len
  <2>1. tags.len = Cardinality(Adding(n))
    BY <1>1, <1>4 DEF TagsInScope
  <2> QED BY <2>1, AddingCounts
<1>8. Elements(tags) \in Seq(Tag) /\ Len(Elements(tags)) = tags.len
  BY <1>1, ElementsAre
<1>9. \A k \in 1..(n + 1) : Scope(k)' = Scope(k)
  BY <1>1, <1>2, <1>4, ScopeStays
<1> DEFINE Said(e, k, call, scope) ==
             LET tag == e[Cardinality(Adding(k))] IN
             /\ call.op \in {"Name", "OptionalName", "Group"} => tag.name = scope \o call.arg
             /\ call.op \in {"Skip", "Optional"} => tag.kind = "none"
<1>10. \A k \in Adding(n) : Said(Elements(tags), k, calls[k], Scope(k))
  BY <1>1, <1>4 DEF TagsInScope
<1>11. ASSUME tags'.len = Cardinality(Adding(n + 1)'),
              \A k \in Adding(n + 1)' :
                LET tag == Elements(tags)'[Cardinality(Adding(k)')] IN
                /\ calls'[k].op \in {"Name", "OptionalName", "Group"} =>
                     tag.name = Scope(k) \o calls'[k].arg
                /\ calls'[k].op \in {"Skip", "Optional"} => tag.kind = "none"
       PROVE  TagsInScope'
  <2>1. \A k \in Adding(n + 1)' : Scope(k)' = Scope(k)
    BY <1>6, <1>7, <1>9
  <2> QED BY <1>5, <1>11, <2>1 DEF TagsInScope
<1>12. CASE c.op \notin TagOps
  <2>1. Elements(tags)' = Elements(tags) /\ tags'.len = tags.len
    BY <1>2, <1>12 DEF Unchanged
  <2>2. Adding(n + 1)' = Adding(n)
    BY <1>6, <1>12
  <2>3. \A k \in Adding(n) : calls'[k] = calls[k] /\ Adding(k)' = Adding(k)
    BY <1>5, <1>6, <1>7
  <2> QED BY <1>3, <1>7, <1>10, <1>11, <2>1, <2>2, <2>3, ZenonT(60) DEF ScopeIInv
<1>13. CASE c.op \in TagOps
  <2> DEFINE t == TagFor(c.op, c.arg)
  <2>1. Elements(tags)' = Append(Elements(tags), t) /\ tags'.len = tags.len + 1 /\ t \in Tag
    BY <1>2, <1>13 DEF Unchanged, TagOps, SharingOps
  <2> HIDE DEF t
  <2>2. /\ Elements(tags)'[tags.len + 1] = t
        /\ \A i \in 1..tags.len : Elements(tags)'[i] = Elements(tags)[i]
    BY <1>7, <1>8, <2>1, AppendProperties
  <2>3. Adding(n + 1)' = Adding(n) \cup {n + 1}
    BY <1>6, <1>13
  <2>4. Cardinality(Adding(n + 1)') = tags.len + 1
    BY <1>6, <1>7, <2>3, FS_AddElement
  <2>5. Scope(n + 1) \o c.arg = Prefixed(c.arg)
    <3>1. Scope(n + 1) = IF prefixes = << >> THEN << >> ELSE prefixes[Len(prefixes)]
      BY <1>1, <1>4, ScopeIs
    <3>2. c.arg \in Seq(Part)
      BY DEF CallType
    <3>3. << >> \o c.arg = c.arg
      BY <3>2
    <3> QED BY <3>1, <3>3 DEF Prefixed
  <2>6. ASSUME NEW k \in Adding(n + 1)'
        PROVE  LET tag == Elements(tags)'[Cardinality(Adding(k)')] IN
               /\ calls'[k].op \in {"Name", "OptionalName", "Group"} =>
                    tag.name = Scope(k) \o calls'[k].arg
               /\ calls'[k].op \in {"Skip", "Optional"} => tag.kind = "none"
    <3>1. CASE k \in Adding(n)
      <4>1. calls'[k] = calls[k] /\ Adding(k)' = Adding(k) /\ Cardinality(Adding(k)) \in 1..tags.len
        BY <1>5, <1>6, <1>7, <3>1
      <4>2. Elements(tags)'[Cardinality(Adding(k)')] = Elements(tags)[Cardinality(Adding(k))]
        BY <2>2, <4>1
      <4> QED BY <1>10, <3>1, <4>1, <4>2
    <3>2. CASE k = n + 1
      <4>1. Elements(tags)'[Cardinality(Adding(k)')] = t /\ calls'[k] = c
        BY <1>5, <2>2, <2>4, <3>2
      <4> QED BY <1>13, <2>5, <3>2, <4>1, TagForSays, ZenonT(60) DEF t
    <3> QED BY <2>3, <2>6, <3>1, <3>2
  <2>7. tags'.len = Cardinality(Adding(n + 1)')
    BY <2>1, <2>4
  <2> QED BY <1>3, <1>11, <2>6, <2>7 DEF ScopeIInv
<1> QED BY <1>12, <1>13

\* Without calls there is no scope.
LEMMA InitInScope == Init => ScopeIInv
<1> SUFFICES ASSUME Init PROVE ScopeIInv
  OBVIOUS
<1>1. Len(calls) = 0 /\ Len(prefixes) = 0 /\ tags.len = 0 /\ CallsTyped
  BY DEF Init, CallsTyped
<1>2. 1..0 = {} /\ 0..(0 - 1) = {}
  OBVIOUS
<1>3. Open = {} /\ Adding(0) = {}
  BY <1>1, <1>2 DEF Open, Adding
<1>4. InScope
  BY <1>1, <1>2, <1>3 DEF InScope
<1>5. TagsInScope
  BY <1>1, <1>3, FS_EmptySet DEF TagsInScope
<1> QED BY <1>1, <1>4, <1>5 DEF ScopeIInv, ScopesSoFar

\* A step that changes nothing.
LEMMA ScopeStutters == ScopeIInv /\ UNCHANGED vars => ScopeIInv'
<1> SUFFICES ASSUME ScopeIInv, UNCHANGED vars PROVE ScopeIInv'
  OBVIOUS
<1>1. calls' = calls /\ prefixes' = prefixes /\ tags' = tags /\ arrays' = arrays
  BY DEF vars
<1>2. \A op, i, j : Count(op, i, j)' = Count(op, i, j)
  BY <1>1 DEF Count
<1>3. \A i, k : InForce(i, k)' <=> InForce(i, k)
  BY <1>1, <1>2 DEF InForce
<1>4. Open' = Open /\ \A i : Above(i)' = Above(i)
  BY <1>1, <1>2, <1>3 DEF Open, Above
<1>5. ScopesSoFar'
  BY <1>1, <1>4 DEF ScopeIInv, ScopesSoFar, CallsTyped, InScope
<1>6. /\ \A k : Scope(k)' = Scope(k)
      /\ \A k : Adding(k)' = Adding(k)
      /\ Elements(tags)' = Elements(tags)
  <2>1. ASSUME NEW k PROVE Scope(k)' = Scope(k)
    <3> DEFINE pushed == {i \in 1..(k - 1) : InForce(i, k)}
               next == {i \in 1..(k - 1) : InForce(i, k)'}
    <3>1. next = pushed
      BY <1>3, Zenon
    <3>2. Scope(k)' = IF next = {} THEN << >>
                      ELSE calls'[CHOOSE i \in next : \A j \in next : j <= i].arg
      BY DEF Scope
    <3>3. Scope(k) = IF pushed = {} THEN << >>
                     ELSE calls[CHOOSE i \in pushed : \A j \in pushed : j <= i].arg
      BY DEF Scope
    <3> HIDE DEF pushed, next
    <3> QED BY <1>1, <3>1, <3>2, <3>3
  <2>2. \A k : Adding(k)' = Adding(k)
    BY <1>1 DEF Adding
  <2>3. Elements(tags)' = Elements(tags)
    BY <1>1 DEF Elements
  <2> QED BY <2>1, <2>2, <2>3
<1>7. TagsInScope'
  BY <1>1, <1>6 DEF ScopeIInv, TagsInScope
<1> QED BY <1>5, <1>7 DEF ScopeIInv

\* The inductive invariant of the scopes, for any prefixes and values and for free
\* chains of any length.
THEOREM ScopeInvariance == Spec => []ScopeIInv
<1>1. Init => ScopeIInv
  BY InitInScope
<1>2. IInv /\ ScopeIInv /\ [Next]_vars => ScopeIInv'
  BY TagsStayInScope, ScopeStutters
<1> QED BY <1>1, <1>2, Invariance, PTL DEF Spec

\* Every tag is at the index of its call and has the prefix of its scope, for any
\* nesting of pushes and pops.
THEOREM TagsAreInScope == Spec => []TagsInScope
<1>1. ScopeIInv => TagsInScope
  BY DEF ScopeIInv
<1> QED BY <1>1, ScopeInvariance, PTL

-----------------------------------------------------------------------------
(***************************************************************************)
(* The chains of arrangehttp.                                              *)
(***************************************************************************)

\* The prefixes and the tags of the builder.
Built(p, t) == prefixes = p /\ Elements(tags) = t

\* The tag of an optional component.
OptionalNamed(v) == [kind |-> "name", name |-> v, optional |-> TRUE]

\* The handler of a server, the options of a server or a client, and the middleware of
\* a server's listener.
Handler(n) == OptionalNamed(<<n, "handler">>)
Options(n) == GroupOf(<<n, "options">>)
Middleware(n) == GroupOf(<<n, "listener", "middleware">>)

\* It is the tag of a component, made optional.
LEMMA OptionalNames ==
  ASSUME NEW v
  PROVE  [Named(v) EXCEPT !.optional = TRUE] = OptionalNamed(v)
<1> DEFINE r == [kind |-> "name", name |-> v, optional |-> FALSE]
           s == [kind |-> "name", name |-> v, optional |-> TRUE]
           t == [r EXCEPT !.optional = TRUE]
<1>1. DOMAIN t = {"kind", "name", "optional"} /\ DOMAIN s = {"kind", "name", "optional"}
  OBVIOUS
<1>2. t.kind = s.kind /\ t.name = s.name /\ t.optional = s.optional
  OBVIOUS
<1>3. t = [x \in DOMAIN t |-> t[x]] /\ s = [x \in DOMAIN s |-> s[x]]
  OBVIOUS
<1> HIDE DEF t, s
<1>4. t = s
  BY <1>1, <1>2, <1>3
<1> QED BY <1>4 DEF t, s, Named, OptionalNamed

\* The builder after k calls of each chain.
NewServerAt(n, k) ==
  \/ k = 0 /\ Built(<< >>, << >>)
  \/ k = 1 /\ Built(<< <<n>> >>, << >>)
  \/ k = 2 /\ Built(<< <<n>> >>, <<Config(n)>>)
  \/ k = 3 /\ Built(<< <<n>> >>, <<Config(n), Handler(n)>>)
  \/ k \in {4, 5} /\ Built(<< <<n>> >>, <<Config(n), Handler(n), Options(n)>>)

BindServerAt(n, k) ==
  \/ k = 0 /\ Built(<< >>, << >>)
  \/ k = 1 /\ Built(<< <<n>> >>, << >>)
  \/ k = 2 /\ Built(<< <<n>> >>, <<Config(n)>>)
  \/ k = 3 /\ Built(<< <<n>>, << >> >>, <<Config(n)>>)
  \/ k = 4 /\ Built(<< <<n>>, << >> >>, <<Config(n), Named(<<n>>)>>)
  \/ k = 5 /\ Built(<< <<n>> >>, <<Config(n), Named(<<n>>)>>)
  \/ k = 6 /\ Built(<< <<n>> >>, <<Config(n), Named(<<n>>), Empty>>)
  \/ k = 7 /\ Built(<< <<n>> >>, <<Config(n), Named(<<n>>), Empty, Empty>>)
  \/ k \in {8, 9} /\ Built(<< <<n>> >>, <<Config(n), Named(<<n>>), Empty, Empty, Middleware(n)>>)

NewClientAt(n, k) ==
  \/ k = 0 /\ Built(<< >>, << >>)
  \/ k = 1 /\ Built(<< >>, <<Config(n)>>)
  \/ k \in {2, 3} /\ Built(<< >>, <<Config(n), Options(n)>>)

ResultAt(n, k) ==
  \/ k = 0 /\ Built(<< >>, << >>)
  \/ k \in {1, 2} /\ Built(<< >>, <<Named(<<n>>)>>)

\* Who chains are for.
Owners == ServerNames \cup ClientNames

(***************************************************************************)
(* The inductive invariant of the chains: after every call of a chain the  *)
(* builder is as listed above, and the last call of a chain hands out what *)
(* it has then.                                                            *)
(***************************************************************************)
ChainIInv ==
  chain # Free =>
    /\ \E n \in Owners :
         \/ chain = NewServerChain(n) /\ NewServerAt(n, Len(calls))
         \/ chain = BindServerChain(n) /\ BindServerAt(n, Len(calls))
         \/ chain = NewClientChain(n) /\ NewClientAt(n, Len(calls))
         \/ chain = ResultChain(n) /\ ResultAt(n, Len(calls))
    /\ Len(calls) = Len(chain) =>
         \E i \in DOMAIN annotations : Elements(annotations[i]) = Elements(tags)

\* A sequence with the elements of an Append is that Append.
LEMMA AppendIs ==
  ASSUME NEW S, NEW s \in Seq(S), NEW x \in S, NEW t \in Seq(S),
         Len(t) = Len(s) + 1, \A i \in 1..Len(s) : t[i] = s[i], t[Len(s) + 1] = x
  PROVE  Append(s, x) = t
<1> DEFINE u == Append(s, x)
<1>1. PICK n \in Nat : n = Len(s)
  OBVIOUS
<1>2. /\ u \in Seq(S) /\ Len(u) = n + 1 /\ \A i \in 1..n : u[i] = s[i]
      /\ u[n + 1] = x
  BY <1>1, AppendProperties
<1> HIDE DEF u
<1>3. \A i \in 1..(n + 1) : i \in 1..n \/ i = n + 1
  BY <1>1
<1>4. \A i \in 1..(n + 1) : u[i] = t[i]
  BY <1>1, <1>2, <1>3
<1>5. u = t
  BY <1>1, <1>2, <1>4, SeqEqual
<1> QED BY <1>5 DEF u

\* An element after one.
LEMMA AppendSecond ==
  ASSUME NEW a, NEW b
  PROVE  Append(<<a>>, b) = <<a, b>>
<1> DEFINE S == {a, b}
           s == <<a>>
           t == <<a, b>>
<1>1. s \in Seq(S) /\ t \in Seq(S) /\ b \in S
  OBVIOUS
<1>2. /\ Len(s) = 1 /\ Len(t) = 2 /\ t[2] = b
      /\ t[1] = s[1]
  OBVIOUS
<1> HIDE DEF S, s, t
<1>3. \A i \in 1..Len(s) : t[i] = s[i]
  <2>1. 1..Len(s) = {1}
    BY <1>2
  <2> QED BY <1>2, <2>1
<1>4. Len(t) = Len(s) + 1 /\ t[Len(s) + 1] = b
  BY <1>2
<1>5. Append(s, b) = t
  BY <1>1, <1>3, <1>4, AppendIs
<1> QED BY <1>5 DEF s, t

\* After two.
LEMMA AppendThird ==
  ASSUME NEW a, NEW b, NEW c
  PROVE  Append(<<a, b>>, c) = <<a, b, c>>
<1> DEFINE S == {a, b, c}
           s == <<a, b>>
           t == <<a, b, c>>
<1>1. s \in Seq(S) /\ t \in Seq(S) /\ c \in S
  OBVIOUS
<1>2. /\ Len(s) = 2 /\ Len(t) = 3 /\ t[3] = c
      /\ t[1] = s[1] /\ t[2] = s[2]
  OBVIOUS
<1> HIDE DEF S, s, t
<1>3. \A i \in 1..Len(s) : t[i] = s[i]
  <2>1. 1..Len(s) = {1, 2}
    BY <1>2
  <2> QED BY <1>2, <2>1
<1>4. Len(t) = Len(s) + 1 /\ t[Len(s) + 1] = c
  BY <1>2
<1>5. Append(s, c) = t
  BY <1>1, <1>3, <1>4, AppendIs
<1> QED BY <1>5 DEF s, t

\* The short ones together.
LEMMA ShortAppends ==
  ASSUME NEW a, NEW b, NEW c
  PROVE  /\ Append(<< >>, a) = <<a>> /\ Append(<<a>>, b) = <<a, b>>
         /\ Append(<<a, b>>, c) = <<a, b, c>>
<1>1. Append(<< >>, a) = <<a>>
  OBVIOUS
<1> QED BY <1>1, AppendSecond, AppendThird

\* After three.
LEMMA AppendFourth ==
  ASSUME NEW a, NEW b, NEW c, NEW d
  PROVE  Append(<<a, b, c>>, d) = <<a, b, c, d>>
<1> DEFINE S == {a, b, c, d}
           s == <<a, b, c>>
           t == <<a, b, c, d>>
<1>1. s \in Seq(S) /\ t \in Seq(S) /\ d \in S
  OBVIOUS
<1>2. /\ Len(s) = 3 /\ Len(t) = 4 /\ t[4] = d
      /\ t[1] = s[1] /\ t[2] = s[2] /\ t[3] = s[3]
  OBVIOUS
<1> HIDE DEF S, s, t
<1>3. \A i \in 1..Len(s) : t[i] = s[i]
  <2>1. 1..Len(s) = {1, 2, 3}
    BY <1>2
  <2> QED BY <1>2, <2>1
<1>4. Len(t) = Len(s) + 1 /\ t[Len(s) + 1] = d
  BY <1>2
<1>5. Append(s, d) = t
  BY <1>1, <1>3, <1>4, AppendIs
<1> QED BY <1>5 DEF s, t

\* After four.
LEMMA AppendFifth ==
  ASSUME NEW a, NEW b, NEW c, NEW d, NEW e
  PROVE  Append(<<a, b, c, d>>, e) = <<a, b, c, d, e>>
<1> DEFINE S == {a, b, c, d, e}
           s == <<a, b, c, d>>
           t == <<a, b, c, d, e>>
<1>1. s \in Seq(S) /\ t \in Seq(S) /\ e \in S
  OBVIOUS
<1>2. /\ Len(s) = 4 /\ Len(t) = 5 /\ t[5] = e
      /\ t[1] = s[1] /\ t[2] = s[2] /\ t[3] = s[3] /\ t[4] = s[4]
  OBVIOUS
<1> HIDE DEF S, s, t
<1>3. \A i \in 1..Len(s) : t[i] = s[i]
  <2>1. 1..Len(s) = {1, 2, 3, 4}
    BY <1>2
  <2> QED BY <1>2, <2>1
<1>4. Len(t) = Len(s) + 1 /\ t[Len(s) + 1] = e
  BY <1>2
<1>5. Append(s, e) = t
  BY <1>1, <1>3, <1>4, AppendIs
<1> QED BY <1>5 DEF s, t

\* The same for a concatenation.
LEMMA ConcatIs ==
  ASSUME NEW S, NEW s \in Seq(S), NEW t \in Seq(S), NEW u \in Seq(S),
         Len(u) = Len(s) + Len(t), \A i \in 1..Len(s) : u[i] = s[i],
         \A j \in 1..Len(t) : u[Len(s) + j] = t[j]
  PROVE  s \o t = u
<1> DEFINE w == s \o t
<1>1. PICK n, m \in Nat : n = Len(s) /\ m = Len(t)
  OBVIOUS
<1>2. /\ w \in Seq(S) /\ Len(w) = n + m
      /\ \A i \in 1..(n + m) : w[i] = IF i <= n THEN s[i] ELSE t[i - n]
  BY <1>1, ConcatProperties
<1> HIDE DEF w
<1>3. ASSUME NEW i \in 1..(n + m) PROVE w[i] = u[i]
  <2>1. CASE i <= n
    <3>1. i \in 1..n
      BY <1>1, <2>1
    <3> QED BY <1>1, <1>2, <2>1, <3>1
  <2>2. CASE ~(i <= n)
    <3>1. PICK j : j = i - n
      OBVIOUS
    <3>2. j \in 1..m /\ n + j = i
      BY ONLY n \in Nat, m \in Nat, i \in 1..(n + m), <2>2, <3>1
    <3> QED BY <1>1, <1>2, <2>2, <3>1, <3>2
  <2> QED BY <2>1, <2>2
<1>4. w = u
  BY <1>1, <1>2, <1>3, SeqEqual
<1> QED BY <1>4 DEF w

\* Names of two and three parts.
LEMMA ShortNames ==
  ASSUME NEW a, NEW b, NEW c
  PROVE  /\ <<a>> \o <<b>> = <<a, b>> /\ <<a>> \o <<b, c>> = <<a, b, c>>
         /\ << >> \o <<a>> = <<a>> /\ << >> \o <<a, b>> = <<a, b>>
         /\ SubSeq(<<a, b>>, 1, 1) = <<a>>
<1> DEFINE S == {a, b, c}
           s == <<a>>
           t == <<b>>
           u == <<b, c>>
           v == <<a, b>>
           w == <<a, b, c>>
<1>1. s \in Seq(S) /\ t \in Seq(S) /\ u \in Seq(S) /\ v \in Seq(S) /\ w \in Seq(S)
  OBVIOUS
<1>2. /\ Len(s) = 1 /\ Len(t) = 1 /\ Len(u) = 2 /\ Len(v) = 2 /\ Len(w) = 3
      /\ s[1] = a /\ t[1] = b /\ u[1] = b /\ u[2] = c /\ v[1] = a /\ v[2] = b
      /\ w[1] = a /\ w[2] = b /\ w[3] = c
  OBVIOUS
<1> HIDE DEF s, t, u, v, w, S
<1>3. s \o t = v
  <2>1. \A i \in 1..Len(s) : v[i] = s[i]
    <3>1. 1..Len(s) = {1}
      BY <1>2
    <3> QED BY <1>2, <3>1
  <2>2. \A j \in 1..Len(t) : v[Len(s) + j] = t[j]
    <3>1. 1..Len(t) = {1} /\ Len(s) + 1 = 2
      BY <1>2
    <3> QED BY <1>2, <3>1
  <2>3. Len(v) = Len(s) + Len(t)
    BY <1>2
  <2> QED BY <1>1, <2>1, <2>2, <2>3, ConcatIs
<1>4. s \o u = w
  <2>1. \A i \in 1..Len(s) : w[i] = s[i]
    <3>1. 1..Len(s) = {1}
      BY <1>2
    <3> QED BY <1>2, <3>1
  <2>2. \A j \in 1..Len(u) : w[Len(s) + j] = u[j]
    <3>1. 1..Len(u) = {1, 2} /\ Len(s) + 1 = 2 /\ Len(s) + 2 = 3
      BY <1>2
    <3> QED BY <1>2, <3>1
  <2>3. Len(w) = Len(s) + Len(u)
    BY <1>2
  <2> QED BY <1>1, <2>1, <2>2, <2>3, ConcatIs
<1>5. << >> \o s = s /\ << >> \o v = v
  BY <1>1
<1>6. SubSeq(v, 1, 1) = s
  <2> DEFINE x == SubSeq(v, 1, 1)
  <2>1. x \in Seq(S) /\ Len(x) = 1 /\ x[1] = a
    BY <1>1, <1>2
  <2> HIDE DEF x
  <2>2. \A i \in 1..1 : x[i] = s[i]
    BY <1>2, <2>1
  <2>3. x = s
    BY <1>1, <1>2, <2>1, <2>2, SeqEqual
  <2> QED BY <2>3 DEF x
<1> QED BY <1>3, <1>4, <1>5, <1>6 DEF s, t, u, v, w

\* What a call of a method with an argument does.
Does(op, arg) ==
  /\ op = "Push" => prefixes' = Append(prefixes, arg) /\ Elements(tags)' = Elements(tags)
  /\ op = "Pop" => /\ prefixes' = IF prefixes = << >> THEN prefixes
                                  ELSE SubSeq(prefixes, 1, Len(prefixes) - 1)
                   /\ Elements(tags)' = Elements(tags)
  /\ op \in TagOps => /\ prefixes' = prefixes
                      /\ Elements(tags)' = Append(Elements(tags), TagFor(op, arg))
  /\ op \in SharingOps =>
       /\ prefixes' = prefixes /\ Elements(tags)' = Elements(tags)
       /\ \E i \in DOMAIN annotations' : Elements(annotations[i])' = Elements(tags)'

\* The next call of a chain.
LEMMA NextOfChain ==
  ASSUME IInv, ScopeIInv, Next, chain # Free, NEW k, k = Len(calls),
         NEW op, NEW arg, chain[k + 1] = Call(op, arg)
  PROVE  Does(op, arg)
<1>1. CallsTyped
  BY DEF ScopeIInv, ScopesSoFar
<1>2. PICK c \in CallType :
           /\ calls' = Append(calls, c) /\ chain' = chain
           /\ chain # Free => Len(calls) < Len(chain) /\ c = chain[Len(calls) + 1]
           /\ \/ /\ c.op = "Push" /\ prefixes' = Append(prefixes, c.arg)
                 /\ Elements(tags)' = Elements(tags) /\ tags'.len = tags.len
              \/ /\ c.op = "Pop"
                 /\ prefixes' = IF prefixes = << >> THEN prefixes
                                ELSE SubSeq(prefixes, 1, Len(prefixes) - 1)
                 /\ Elements(tags)' = Elements(tags) /\ tags'.len = tags.len
              \/ /\ c.op \in TagOps /\ prefixes' = prefixes
                 /\ Elements(tags)' = Append(Elements(tags), TagFor(c.op, c.arg))
                 /\ tags'.len = tags.len + 1
                 /\ TagFor(c.op, c.arg) \in Tag
              \/ /\ c.op \in SharingOps /\ Unchanged
                 /\ \E i \in DOMAIN annotations' : Elements(annotations[i])' = Elements(tags)
              \/ c.op = "StructTags" /\ Unchanged
  BY CallDoes
<1>3. k \in Nat /\ Len(calls') = k + 1
  BY <1>1, <1>2, CallsGrow
<1>4. c.op = op /\ c.arg = arg /\ chain' = chain /\ k < Len(chain)
  BY <1>2 DEF Call
<1>5. CASE op = "Push"
  <2>1. op \notin TagOps \cup SharingOps \cup {"Pop", "StructTags"}
    BY <1>5 DEF TagOps, SharingOps
  <2> QED BY <1>2, <1>4, <1>5, <2>1 DEF Does
<1>6. CASE op = "Pop"
  <2>1. op \notin TagOps \cup SharingOps \cup {"Push", "StructTags"}
    BY <1>6 DEF TagOps, SharingOps
  <2> QED BY <1>2, <1>4, <1>6, <2>1 DEF Does
<1>7. CASE op \in TagOps
  <2>1. op \notin SharingOps \cup {"Push", "Pop", "StructTags"}
    BY <1>7 DEF TagOps, SharingOps
  <2> QED BY <1>2, <1>4, <1>7, <2>1 DEF Does
<1>8. CASE op \in SharingOps
  <2>1. op \notin TagOps \cup {"Push", "Pop", "StructTags"}
    BY <1>8 DEF TagOps, SharingOps
  <2> QED BY <1>2, <1>4, <1>8, <2>1 DEF Does, Unchanged
<1> QED BY <1>5, <1>6, <1>7, <1>8 DEF Does

\* The number of calls and the chain, after a call.
LEMMA ChainGoesOn ==
  ASSUME IInv, ScopeIInv, Next, chain # Free, NEW k, k = Len(calls)
  PROVE  k \in Nat /\ Len(calls') = k + 1 /\ chain' = chain /\ k < Len(chain)
<1>1. CallsTyped
  BY DEF ScopeIInv, ScopesSoFar
<1>2. PICK c \in CallType :
           /\ calls' = Append(calls, c) /\ chain' = chain
           /\ chain # Free => Len(calls) < Len(chain)
  BY CallDoes
<1> QED BY <1>1, <1>2, CallsGrow

\* The name that a prefix makes.
LEMMA PrefixedIs ==
  ASSUME NEW v
  PROVE  /\ prefixes = << >> => Prefixed(v) = v
         /\ \A p : prefixes = <<p>> => Prefixed(v) = p \o v
         /\ \A p, q : prefixes = <<p, q>> => Prefixed(v) = q \o v
<1>1. ASSUME NEW p, prefixes = <<p>> PROVE Prefixed(v) = p \o v
  <2>1. prefixes # << >> /\ prefixes[Len(prefixes)] = p
    BY <1>1
  <2> QED BY <2>1 DEF Prefixed
<1>2. ASSUME NEW p, NEW q, prefixes = <<p, q>> PROVE Prefixed(v) = q \o v
  <2>1. prefixes # << >> /\ prefixes[Len(prefixes)] = q
    BY <1>2
  <2> QED BY <2>1 DEF Prefixed
<1> QED BY <1>1, <1>2 DEF Prefixed

\* The tags that methods add.
LEMMA TagForIs ==
  ASSUME NEW v
  PROVE  /\ TagFor("Skip", v) = Empty
         /\ TagFor("Name", v) = Named(Prefixed(v))
         /\ TagFor("OptionalName", v) = OptionalNamed(Prefixed(v))
         /\ TagFor("Group", v) = GroupOf(Prefixed(v))
<1>1. PICK p : p = Prefixed(v)
  OBVIOUS
<1>2. TagFor("Skip", v) = Empty
  BY DEF TagFor
<1>3. TagFor("Name", v) = Named(p)
  BY <1>1 DEF TagFor, Named
<1>4. TagFor("OptionalName", v) = OptionalNamed(p)
  BY <1>1 DEF TagFor, OptionalNamed
<1>5. TagFor("Group", v) = GroupOf(p)
  BY <1>1 DEF TagFor, GroupOf
<1> QED BY <1>1, <1>2, <1>3, <1>4, <1>5

\* The calls of each chain, one by one.
LEMMA CallsOfChains ==
  ASSUME NEW n
  PROVE  /\ LET c == NewServerChain(n) IN
            /\ Len(c) = 5
            /\ c[1] = Call("Push", <<n>>) /\ c[2] = Call("OptionalName", <<"config">>)
            /\ c[3] = Call("OptionalName", <<"handler">>) /\ c[4] = Call("Group", <<"options">>)
            /\ c[5] = Call("ParamTags", << >>)
         /\ LET c == BindServerChain(n) IN
            /\ Len(c) = 9
            /\ c[1] = Call("Push", <<n>>) /\ c[2] = Call("OptionalName", <<"config">>)
            /\ c[3] = Call("Push", << >>) /\ c[4] = Call("Name", <<n>>)
            /\ c[5] = Call("Pop", << >>) /\ c[6] = Call("Skip", << >>)
            /\ c[7] = Call("Skip", << >>)
            /\ c[8] = Call("Group", <<"listener", "middleware">>)
            /\ c[9] = Call("ParamTags", << >>)
         /\ LET c == NewClientChain(n) IN
            /\ Len(c) = 3
            /\ c[1] = Call("OptionalName", <<n, "config">>)
            /\ c[2] = Call("Group", <<n, "options">>) /\ c[3] = Call("ParamTags", << >>)
         /\ LET c == ResultChain(n) IN
            /\ Len(c) = 2
            /\ c[1] = Call("Name", <<n>>) /\ c[2] = Call("ResultTags", << >>)
<1>1. LET c == NewServerChain(n) IN
            /\ Len(c) = 5
            /\ c[1] = Call("Push", <<n>>) /\ c[2] = Call("OptionalName", <<"config">>)
            /\ c[3] = Call("OptionalName", <<"handler">>) /\ c[4] = Call("Group", <<"options">>)
            /\ c[5] = Call("ParamTags", << >>)
  BY DEF NewServerChain
<1>2. LET c == BindServerChain(n) IN
            /\ Len(c) = 9
            /\ c[1] = Call("Push", <<n>>) /\ c[2] = Call("OptionalName", <<"config">>)
            /\ c[3] = Call("Push", << >>) /\ c[4] = Call("Name", <<n>>)
            /\ c[5] = Call("Pop", << >>) /\ c[6] = Call("Skip", << >>)
            /\ c[7] = Call("Skip", << >>)
            /\ c[8] = Call("Group", <<"listener", "middleware">>)
            /\ c[9] = Call("ParamTags", << >>)
  BY DEF BindServerChain
<1>3. LET c == NewClientChain(n) IN
            /\ Len(c) = 3
            /\ c[1] = Call("OptionalName", <<n, "config">>)
            /\ c[2] = Call("Group", <<n, "options">>) /\ c[3] = Call("ParamTags", << >>)
  BY DEF NewClientChain
<1>4. LET c == ResultChain(n) IN
            /\ Len(c) = 2
            /\ c[1] = Call("Name", <<n>>) /\ c[2] = Call("ResultTags", << >>)
  BY DEF ResultChain
<1> QED BY <1>1, <1>2, <1>3, <1>4

\* A chain is of one form and for one name.
LEMMA ChainsDiffer ==
  ASSUME NEW n, NEW m
  PROVE  /\ NewServerChain(n) = NewServerChain(m) => n = m
         /\ BindServerChain(n) = BindServerChain(m) => n = m
         /\ NewClientChain(n) = NewClientChain(m) => n = m
         /\ ResultChain(n) = ResultChain(m) => n = m
         /\ NewServerChain(n) # BindServerChain(m) /\ NewServerChain(n) # NewClientChain(m)
         /\ NewServerChain(n) # ResultChain(m) /\ BindServerChain(n) # NewClientChain(m)
         /\ BindServerChain(n) # ResultChain(m) /\ NewClientChain(n) # ResultChain(m)
<1>1. /\ Len(NewServerChain(n)) = 5 /\ Len(BindServerChain(n)) = 9
      /\ Len(NewClientChain(n)) = 3
      /\ Len(BindServerChain(m)) = 9 /\ Len(NewClientChain(m)) = 3 /\ Len(ResultChain(m)) = 2
  BY CallsOfChains
<1>2. ASSUME NEW x
      PROVE  /\ NewServerChain(x)[1].arg = <<x>> /\ BindServerChain(x)[1].arg = <<x>>
             /\ NewClientChain(x)[1].arg = <<x, "config">> /\ ResultChain(x)[1].arg = <<x>>
  <2> DEFINE own == <<x>>
             config == <<x, "config">>
  <2>1. /\ NewServerChain(x)[1] = Call("Push", own) /\ BindServerChain(x)[1] = Call("Push", own)
        /\ NewClientChain(x)[1] = Call("OptionalName", config)
        /\ ResultChain(x)[1] = Call("Name", own)
    BY CallsOfChains, Zenon
  <2> HIDE DEF own, config
  <2>2. /\ NewServerChain(x)[1].arg = own /\ BindServerChain(x)[1].arg = own
        /\ NewClientChain(x)[1].arg = config /\ ResultChain(x)[1].arg = own
    BY <2>1 DEF Call
  <2> QED BY <2>2 DEF own, config
<1>3. /\ <<n>> = <<m>> => n = m
      /\ <<n, "config">> = <<m, "config">> => n = m
  OBVIOUS
<1> QED BY <1>1, <1>2, <1>3, SMTT(30)

\* The methods' names.
LEMMA Methods ==
  /\ "OptionalName" \in TagOps /\ "Name" \in TagOps /\ "Group" \in TagOps /\ "Skip" \in TagOps
  /\ "ParamTags" \in SharingOps /\ "ResultTags" \in SharingOps
BY DEF TagOps, SharingOps

\* Push adds a prefix.
LEMMA PushBuilds ==
  ASSUME IInv, ScopeIInv, Next, chain # Free, NEW k, k = Len(calls),
         NEW arg, chain[k + 1] = Call("Push", arg), NEW p, NEW t, Built(p, t)
  PROVE  Built(Append(p, arg), t)'
BY NextOfChain DEF Does, Built

\* Pop takes the innermost prefix away.
LEMMA PopBuilds ==
  ASSUME IInv, ScopeIInv, Next, chain # Free, NEW k, k = Len(calls),
         NEW arg, chain[k + 1] = Call("Pop", arg), NEW p, NEW q, NEW t, Built(<<p, q>>, t)
  PROVE  Built(<<p>>, t)'
<1>1. prefixes = <<p, q>> /\ Elements(tags) = t
  BY DEF Built
<1>2. /\ prefixes' = IF prefixes = << >> THEN prefixes
                     ELSE SubSeq(prefixes, 1, Len(prefixes) - 1)
      /\ Elements(tags)' = Elements(tags)
  BY NextOfChain DEF Does
<1>3. Len(<<p, q>>) = 2 /\ <<p, q>> # << >>
  OBVIOUS
<1>4. prefixes' = SubSeq(<<p, q>>, 1, 1)
  BY <1>1, <1>2, <1>3
<1>5. SubSeq(<<p, q>>, 1, 1) = <<p>>
  BY ShortNames
<1> QED BY <1>1, <1>2, <1>4, <1>5, Zenon DEF Built

\* A method that adds a tag.
LEMMA TagBuilds ==
  ASSUME IInv, ScopeIInv, Next, chain # Free, NEW k, k = Len(calls),
         NEW op \in TagOps, NEW arg, chain[k + 1] = Call(op, arg),
         NEW p, NEW t, Built(p, t), NEW tag, TagFor(op, arg) = tag
  PROVE  Built(p, Append(t, tag))'
BY NextOfChain DEF Does, Built

\* A method that hands out the tags.
LEMMA AnnotationBuilds ==
  ASSUME IInv, ScopeIInv, Next, chain # Free, NEW k, k = Len(calls),
         NEW op \in SharingOps, NEW arg, chain[k + 1] = Call(op, arg),
         NEW p, NEW t, Built(p, t)
  PROVE  /\ Built(p, t)'
         /\ \E i \in DOMAIN annotations' : Elements(annotations[i])' = Elements(tags)'
BY NextOfChain DEF Does, Built

\* The tags that the chains add, after their prefixes.
LEMMA TagsOfChains ==
  ASSUME NEW n, NEW t
  PROVE  /\ Built(<< <<n>> >>, t) =>
              /\ TagFor("OptionalName", <<"config">>) = Config(n)
              /\ TagFor("OptionalName", <<"handler">>) = Handler(n)
              /\ TagFor("Group", <<"options">>) = Options(n)
              /\ TagFor("Skip", << >>) = Empty
              /\ TagFor("Group", <<"listener", "middleware">>) =
                   Middleware(n)
         /\ Built(<< <<n>>, << >> >>, t) => TagFor("Name", <<n>>) = Named(<<n>>)
         /\ Built(<< >>, t) =>
              /\ TagFor("OptionalName", <<n, "config">>) = Config(n)
              /\ TagFor("Group", <<n, "options">>) = Options(n)
              /\ TagFor("Name", <<n>>) = Named(<<n>>)
<1> DEFINE own == <<n>>
           config == <<"config">>
           handler == <<"handler">>
           opts == <<"options">>
           middleware == <<"listener", "middleware">>
           ownConfig == <<n, "config">>
           ownHandler == <<n, "handler">>
           ownOpts == <<n, "options">>
           ownMiddleware == <<n, "listener", "middleware">>
           none == << >>
<1>1. own \o config = ownConfig /\ own \o handler = ownHandler /\ own \o opts = ownOpts
  BY ShortNames
<1>2. own \o middleware = ownMiddleware /\ none \o own = own
  BY ShortNames
<1>3. OptionalNamed(ownConfig) = Config(n)
  BY DEF OptionalNamed, Config
<1>4. /\ OptionalNamed(ownHandler) = Handler(n) /\ GroupOf(ownOpts) = Options(n)
      /\ GroupOf(ownMiddleware) = Middleware(n)
  BY DEF Handler, Options, Middleware
<1> HIDE DEF own, config, handler, opts, middleware, ownConfig, ownHandler, ownOpts,
             ownMiddleware, none
<1>5. ASSUME prefixes = <<own>>
      PROVE  /\ TagFor("OptionalName", config) = Config(n)
             /\ TagFor("OptionalName", handler) = Handler(n)
             /\ TagFor("Group", opts) = Options(n)
             /\ TagFor("Skip", none) = Empty
             /\ TagFor("Group", middleware) = Middleware(n)
  <2>1. /\ Prefixed(config) = ownConfig /\ Prefixed(handler) = ownHandler
        /\ Prefixed(opts) = ownOpts /\ Prefixed(middleware) = ownMiddleware
    BY <1>1, <1>2, <1>5, PrefixedIs
  <2> QED BY <1>3, <1>4, <2>1, TagForIs
<1>6. ASSUME prefixes = <<own, none>> PROVE TagFor("Name", own) = Named(own)
  <2>1. Prefixed(own) = own
    BY <1>2, <1>6, PrefixedIs
  <2> QED BY <2>1, TagForIs
<1>7. ASSUME prefixes = << >>
      PROVE  /\ TagFor("OptionalName", ownConfig) = Config(n)
             /\ TagFor("Group", ownOpts) = Options(n)
             /\ TagFor("Name", own) = Named(own)
  <2>1. Prefixed(ownConfig) = ownConfig /\ Prefixed(ownOpts) = ownOpts /\ Prefixed(own) = own
    BY <1>7, PrefixedIs
  <2> QED BY <1>3, <1>4, <2>1, TagForIs
<1> QED BY <1>5, <1>6, <1>7 DEF Built, own, config, handler, opts, middleware, ownConfig,
              ownHandler, ownOpts, ownMiddleware, none

\* One call of the chain of newServer.
LEMMA NewServerStep ==
  ASSUME IInv, ScopeIInv, Next, chain # Free, NEW n, chain = NewServerChain(n),
         NEW k, k = Len(calls), NewServerAt(n, k)
  PROVE  /\ NewServerAt(n, k + 1)'
         /\ k + 1 = Len(chain) =>
              \E i \in DOMAIN annotations' : Elements(annotations[i])' = Elements(tags)'
<1>1. /\ chain[1] = Call("Push", <<n>>)
      /\ chain[2] = Call("OptionalName", <<"config">>)
      /\ chain[3] = Call("OptionalName", <<"handler">>)
      /\ chain[4] = Call("Group", <<"options">>)
      /\ chain[5] = Call("ParamTags", << >>)
      /\ Len(chain) = 5
  BY CallsOfChains
<1>2. k \in {0, 1, 2, 3, 4}
  <2>1. k \in {0, 1, 2, 3, 4} \/ k = 5
    BY DEF NewServerAt
  <2>2. k # 5
    <3>1. k \in Nat /\ k < Len(chain)
      BY ChainGoesOn
    <3>2. Len(chain) = 5
      BY <1>1
    <3> QED BY <3>1, <3>2
  <2> QED BY <2>1, <2>2
<1>3. CASE k = 0
  <2>1. Built(<< >>, << >>)
    BY <1>3 DEF NewServerAt
  <2>2. chain[k + 1] = Call("Push", <<n>>)
    BY <1>1, <1>3
  <2>3. Append(<< >>, <<n>>) = << <<n>> >>
    BY ShortAppends
  <2>4. Built(Append(<< >>, <<n>>), << >>)'
    BY <2>1, <2>2, PushBuilds
  <2>5. Built(<< <<n>> >>, << >>)'
    BY <2>3, <2>4
  <2>6. k + 1 = 1
    BY <1>3
  <2>7. NewServerAt(n, 1)'
    BY <2>5 DEF NewServerAt
  <2> QED BY <1>1, <2>6, <2>7
<1>4. CASE k = 1
  <2>1. Built(<< <<n>> >>, << >>)
    BY <1>4 DEF NewServerAt
  <2>2. chain[k + 1] = Call("OptionalName", <<"config">>)
    BY <1>1, <1>4
  <2>3. TagFor("OptionalName", <<"config">>) = Config(n)
    BY <2>1, TagsOfChains
  <2>4. Append(<< >>, Config(n)) = <<Config(n)>>
    BY ShortAppends
  <2>5. Built(<< <<n>> >>, <<Config(n)>>)'
    BY <2>1, <2>2, <2>3, <2>4, TagBuilds, Methods
  <2>6. k + 1 = 2
    BY <1>4
  <2>7. NewServerAt(n, 2)'
    BY <2>5 DEF NewServerAt
  <2> QED BY <1>1, <2>6, <2>7
<1>5. CASE k = 2
  <2>1. Built(<< <<n>> >>, <<Config(n)>>)
    BY <1>5 DEF NewServerAt
  <2>2. chain[k + 1] = Call("OptionalName", <<"handler">>)
    BY <1>1, <1>5
  <2>3. TagFor("OptionalName", <<"handler">>) = Handler(n)
    BY <2>1, TagsOfChains
  <2>4. Append(<<Config(n)>>, Handler(n)) = <<Config(n), Handler(n)>>
    BY ShortAppends
  <2>5. Built(<< <<n>> >>, <<Config(n), Handler(n)>>)'
    BY <2>1, <2>2, <2>3, <2>4, TagBuilds, Methods
  <2>6. k + 1 = 3
    BY <1>5
  <2>7. NewServerAt(n, 3)'
    BY <2>5 DEF NewServerAt
  <2> QED BY <1>1, <2>6, <2>7
<1>6. CASE k = 3
  <2>1. Built(<< <<n>> >>, <<Config(n), Handler(n)>>)
    BY <1>6 DEF NewServerAt
  <2>2. chain[k + 1] = Call("Group", <<"options">>)
    BY <1>1, <1>6
  <2>3. TagFor("Group", <<"options">>) = Options(n)
    BY <2>1, TagsOfChains
  <2>4. Append(<<Config(n), Handler(n)>>, Options(n)) = <<Config(n), Handler(n), Options(n)>>
    BY ShortAppends
  <2>5. Built(<< <<n>> >>, <<Config(n), Handler(n), Options(n)>>)'
    BY <2>1, <2>2, <2>3, <2>4, TagBuilds, Methods
  <2>6. k + 1 = 4
    BY <1>6
  <2>7. NewServerAt(n, 4)'
    BY <2>5 DEF NewServerAt
  <2> QED BY <1>1, <2>6, <2>7
<1>7. CASE k = 4
  <2>1. Built(<< <<n>> >>, <<Config(n), Handler(n), Options(n)>>)
    BY <1>7 DEF NewServerAt
  <2>2. chain[k + 1] = Call("ParamTags", << >>)
    BY <1>1, <1>7
  <2>5. /\ Built(<< <<n>> >>, <<Config(n), Handler(n), Options(n)>>)'
        /\ \E i \in DOMAIN annotations' : Elements(annotations[i])' = Elements(tags)'
    BY <2>1, <2>2, AnnotationBuilds, Methods
  <2>6. k + 1 = 5
    BY <1>7
  <2>7. NewServerAt(n, 5)'
    BY <2>5 DEF NewServerAt
  <2> QED BY <1>1, <2>5, <2>6, <2>7
<1> QED BY <1>2, <1>3, <1>4, <1>5, <1>6, <1>7

\* One call of the chain of bindServer.
LEMMA BindServerStep ==
  ASSUME IInv, ScopeIInv, Next, chain # Free, NEW n, chain = BindServerChain(n),
         NEW k, k = Len(calls), BindServerAt(n, k)
  PROVE  /\ BindServerAt(n, k + 1)'
         /\ k + 1 = Len(chain) =>
              \E i \in DOMAIN annotations' : Elements(annotations[i])' = Elements(tags)'
<1>1. /\ chain[1] = Call("Push", <<n>>)
      /\ chain[2] = Call("OptionalName", <<"config">>)
      /\ chain[3] = Call("Push", << >>)
      /\ chain[4] = Call("Name", <<n>>)
      /\ chain[5] = Call("Pop", << >>)
      /\ chain[6] = Call("Skip", << >>)
      /\ chain[7] = Call("Skip", << >>)
      /\ chain[8] = Call("Group", <<"listener", "middleware">>)
      /\ chain[9] = Call("ParamTags", << >>)
      /\ Len(chain) = 9
  BY CallsOfChains
<1>2. k \in {0, 1, 2, 3, 4, 5, 6, 7, 8}
  <2>1. k \in {0, 1, 2, 3, 4, 5, 6, 7, 8} \/ k = 9
    BY DEF BindServerAt
  <2>2. k # 9
    <3>1. k \in Nat /\ k < Len(chain)
      BY ChainGoesOn
    <3>2. Len(chain) = 9
      BY <1>1
    <3> QED BY <3>1, <3>2, SMTT(30)
  <2> QED BY <2>1, <2>2
<1>3. CASE k = 0
  <2>1. Built(<< >>, << >>)
    BY <1>3 DEF BindServerAt
  <2>2. chain[k + 1] = Call("Push", <<n>>)
    BY <1>1, <1>3
  <2>3. Append(<< >>, <<n>>) = << <<n>> >>
    BY ShortAppends
  <2>4. Built(Append(<< >>, <<n>>), << >>)'
    BY <2>1, <2>2, PushBuilds
  <2>5. Built(<< <<n>> >>, << >>)'
    BY <2>3, <2>4
  <2>6. k + 1 = 1
    BY <1>3
  <2>7. BindServerAt(n, 1)'
    BY <2>5 DEF BindServerAt
  <2> QED BY <1>1, <2>6, <2>7
<1>4. CASE k = 1
  <2>1. Built(<< <<n>> >>, << >>)
    BY <1>4 DEF BindServerAt
  <2>2. chain[k + 1] = Call("OptionalName", <<"config">>)
    BY <1>1, <1>4
  <2>3. TagFor("OptionalName", <<"config">>) = Config(n)
    BY <2>1, TagsOfChains
  <2>4. Append(<< >>, Config(n)) = <<Config(n)>>
    BY ShortAppends
  <2>5. Built(<< <<n>> >>, <<Config(n)>>)'
    BY <2>1, <2>2, <2>3, <2>4, TagBuilds, Methods
  <2>6. k + 1 = 2
    BY <1>4
  <2>7. BindServerAt(n, 2)'
    BY <2>5 DEF BindServerAt
  <2> QED BY <1>1, <2>6, <2>7
<1>5. CASE k = 2
  <2>1. Built(<< <<n>> >>, <<Config(n)>>)
    BY <1>5 DEF BindServerAt
  <2>2. chain[k + 1] = Call("Push", << >>)
    BY <1>1, <1>5
  <2>3. Append(<< <<n>> >>, << >>) = << <<n>>, << >> >>
    BY ShortAppends
  <2>4. Built(Append(<< <<n>> >>, << >>), <<Config(n)>>)'
    BY <2>1, <2>2, PushBuilds
  <2>5. Built(<< <<n>>, << >> >>, <<Config(n)>>)'
    BY <2>3, <2>4
  <2>6. k + 1 = 3
    BY <1>5
  <2>7. BindServerAt(n, 3)'
    BY <2>5 DEF BindServerAt
  <2> QED BY <1>1, <2>6, <2>7
<1>6. CASE k = 3
  <2>1. Built(<< <<n>>, << >> >>, <<Config(n)>>)
    BY <1>6 DEF BindServerAt
  <2>2. chain[k + 1] = Call("Name", <<n>>)
    BY <1>1, <1>6
  <2>3. TagFor("Name", <<n>>) = Named(<<n>>)
    BY <2>1, TagsOfChains
  <2>4. Append(<<Config(n)>>, Named(<<n>>)) = <<Config(n), Named(<<n>>)>>
    BY ShortAppends
  <2>5. Built(<< <<n>>, << >> >>, <<Config(n), Named(<<n>>)>>)'
    BY <2>1, <2>2, <2>3, <2>4, TagBuilds, Methods
  <2>6. k + 1 = 4
    BY <1>6
  <2>7. BindServerAt(n, 4)'
    BY <2>5 DEF BindServerAt
  <2> QED BY <1>1, <2>6, <2>7
<1>7. CASE k = 4
  <2>1. Built(<< <<n>>, << >> >>, <<Config(n), Named(<<n>>)>>)
    BY <1>7 DEF BindServerAt
  <2>2. chain[k + 1] = Call("Pop", << >>)
    BY <1>1, <1>7
  <2>5. Built(<< <<n>> >>, <<Config(n), Named(<<n>>)>>)'
    BY <2>1, <2>2, PopBuilds
  <2>6. k + 1 = 5
    BY <1>7
  <2>7. BindServerAt(n, 5)'
    BY <2>5 DEF BindServerAt
  <2> QED BY <1>1, <2>6, <2>7
<1>8. CASE k = 5
  <2>1. Built(<< <<n>> >>, <<Config(n), Named(<<n>>)>>)
    BY <1>8 DEF BindServerAt
  <2>2. chain[k + 1] = Call("Skip", << >>)
    BY <1>1, <1>8
  <2>3. TagFor("Skip", << >>) = Empty
    BY <2>1, TagsOfChains
  <2>4. Append(<<Config(n), Named(<<n>>)>>, Empty) = <<Config(n), Named(<<n>>), Empty>>
    BY ShortAppends
  <2>5. Built(<< <<n>> >>, <<Config(n), Named(<<n>>), Empty>>)'
    BY <2>1, <2>2, <2>3, <2>4, TagBuilds, Methods
  <2>6. k + 1 = 6
    BY <1>8
  <2>7. BindServerAt(n, 6)'
    BY <2>5 DEF BindServerAt
  <2> QED BY <1>1, <2>6, <2>7
<1>9. CASE k = 6
  <2>1. Built(<< <<n>> >>, <<Config(n), Named(<<n>>), Empty>>)
    BY <1>9 DEF BindServerAt
  <2>2. chain[k + 1] = Call("Skip", << >>)
    BY <1>1, <1>9
  <2>3. TagFor("Skip", << >>) = Empty
    BY <2>1, TagsOfChains
  <2>4. Append(<<Config(n), Named(<<n>>), Empty>>, Empty) =
          <<Config(n), Named(<<n>>), Empty, Empty>>
    BY AppendFourth
  <2>5. Built(<< <<n>> >>, <<Config(n), Named(<<n>>), Empty, Empty>>)'
    BY <2>1, <2>2, <2>3, <2>4, TagBuilds, Methods
  <2>6. k + 1 = 7
    BY <1>9
  <2>7. BindServerAt(n, 7)'
    BY <2>5 DEF BindServerAt
  <2> QED BY <1>1, <2>6, <2>7
<1>10. CASE k = 7
  <2>1. Built(<< <<n>> >>, <<Config(n), Named(<<n>>), Empty, Empty>>)
    BY <1>10 DEF BindServerAt
  <2>2. chain[k + 1] = Call("Group", <<"listener", "middleware">>)
    BY <1>1, <1>10
  <2>3. TagFor("Group", <<"listener", "middleware">>) = Middleware(n)
    BY <2>1, TagsOfChains
  <2>4. Append(<<Config(n), Named(<<n>>), Empty, Empty>>, Middleware(n)) =
          <<Config(n), Named(<<n>>), Empty, Empty, Middleware(n)>>
    BY AppendFifth
  <2>5. Built(<< <<n>> >>, <<Config(n), Named(<<n>>), Empty, Empty, Middleware(n)>>)'
    BY <2>1, <2>2, <2>3, <2>4, TagBuilds, Methods
  <2>6. k + 1 = 8
    BY <1>10
  <2>7. BindServerAt(n, 8)'
    BY <2>5 DEF BindServerAt
  <2> QED BY <1>1, <2>6, <2>7
<1>11. CASE k = 8
  <2>1. Built(<< <<n>> >>, <<Config(n), Named(<<n>>), Empty, Empty, Middleware(n)>>)
    BY <1>11 DEF BindServerAt
  <2>2. chain[k + 1] = Call("ParamTags", << >>)
    BY <1>1, <1>11
  <2>5. /\ Built(<< <<n>> >>, <<Config(n), Named(<<n>>), Empty, Empty, Middleware(n)>>)'
        /\ \E i \in DOMAIN annotations' : Elements(annotations[i])' = Elements(tags)'
    BY <2>1, <2>2, AnnotationBuilds, Methods
  <2>6. k + 1 = 9
    BY <1>11
  <2>7. BindServerAt(n, 9)'
    BY <2>5 DEF BindServerAt
  <2> QED BY <1>1, <2>5, <2>6, <2>7
<1> QED BY <1>2, <1>3, <1>4, <1>5, <1>6, <1>7, <1>8, <1>9, <1>10, <1>11

\* One call of the chain of NewClientCustom.
LEMMA NewClientStep ==
  ASSUME IInv, ScopeIInv, Next, chain # Free, NEW n, chain = NewClientChain(n),
         NEW k, k = Len(calls), NewClientAt(n, k)
  PROVE  /\ NewClientAt(n, k + 1)'
         /\ k + 1 = Len(chain) =>
              \E i \in DOMAIN annotations' : Elements(annotations[i])' = Elements(tags)'
<1>1. /\ chain[1] = Call("OptionalName", <<n, "config">>)
      /\ chain[2] = Call("Group", <<n, "options">>)
      /\ chain[3] = Call("ParamTags", << >>)
      /\ Len(chain) = 3
  BY CallsOfChains
<1>2. k \in {0, 1, 2}
  <2>1. k \in {0, 1, 2} \/ k = 3
    BY DEF NewClientAt
  <2>2. k # 3
    <3>1. k \in Nat /\ k < Len(chain)
      BY ChainGoesOn
    <3>2. Len(chain) = 3
      BY <1>1
    <3> QED BY <3>1, <3>2
  <2> QED BY <2>1, <2>2
<1>3. CASE k = 0
  <2>1. Built(<< >>, << >>)
    BY <1>3 DEF NewClientAt
  <2>2. chain[k + 1] = Call("OptionalName", <<n, "config">>)
    BY <1>1, <1>3
  <2>3. TagFor("OptionalName", <<n, "config">>) = Config(n)
    BY <2>1, TagsOfChains
  <2>4. Append(<< >>, Config(n)) = <<Config(n)>>
    BY ShortAppends
  <2>5. Built(<< >>, <<Config(n)>>)'
    BY <2>1, <2>2, <2>3, <2>4, TagBuilds, Methods
  <2>6. k + 1 = 1
    BY <1>3
  <2>7. NewClientAt(n, 1)'
    BY <2>5 DEF NewClientAt
  <2> QED BY <1>1, <2>6, <2>7
<1>4. CASE k = 1
  <2>1. Built(<< >>, <<Config(n)>>)
    BY <1>4 DEF NewClientAt
  <2>2. chain[k + 1] = Call("Group", <<n, "options">>)
    BY <1>1, <1>4
  <2>3. TagFor("Group", <<n, "options">>) = Options(n)
    BY <2>1, TagsOfChains
  <2>4. Append(<<Config(n)>>, Options(n)) = <<Config(n), Options(n)>>
    BY ShortAppends
  <2>5. Built(<< >>, <<Config(n), Options(n)>>)'
    BY <2>1, <2>2, <2>3, <2>4, TagBuilds, Methods
  <2>6. k + 1 = 2
    BY <1>4
  <2>7. NewClientAt(n, 2)'
    BY <2>5 DEF NewClientAt
  <2> QED BY <1>1, <2>6, <2>7
<1>5. CASE k = 2
  <2>1. Built(<< >>, <<Config(n), Options(n)>>)
    BY <1>5 DEF NewClientAt
  <2>2. chain[k + 1] = Call("ParamTags", << >>)
    BY <1>1, <1>5
  <2>5. /\ Built(<< >>, <<Config(n), Options(n)>>)'
        /\ \E i \in DOMAIN annotations' : Elements(annotations[i])' = Elements(tags)'
    BY <2>1, <2>2, AnnotationBuilds, Methods
  <2>6. k + 1 = 3
    BY <1>5
  <2>7. NewClientAt(n, 3)'
    BY <2>5 DEF NewClientAt
  <2> QED BY <1>1, <2>5, <2>6, <2>7
<1> QED BY <1>2, <1>3, <1>4, <1>5

\* One call of the chain of the results.
LEMMA ResultStep ==
  ASSUME IInv, ScopeIInv, Next, chain # Free, NEW n, chain = ResultChain(n),
         NEW k, k = Len(calls), ResultAt(n, k)
  PROVE  /\ ResultAt(n, k + 1)'
         /\ k + 1 = Len(chain) =>
              \E i \in DOMAIN annotations' : Elements(annotations[i])' = Elements(tags)'
<1>1. /\ chain[1] = Call("Name", <<n>>)
      /\ chain[2] = Call("ResultTags", << >>)
      /\ Len(chain) = 2
  BY CallsOfChains
<1>2. k \in {0, 1}
  <2>1. k \in {0, 1} \/ k = 2
    BY DEF ResultAt
  <2>2. k # 2
    <3>1. k \in Nat /\ k < Len(chain)
      BY ChainGoesOn
    <3>2. Len(chain) = 2
      BY <1>1
    <3> QED BY <3>1, <3>2
  <2> QED BY <2>1, <2>2
<1>3. CASE k = 0
  <2>1. Built(<< >>, << >>)
    BY <1>3 DEF ResultAt
  <2>2. chain[k + 1] = Call("Name", <<n>>)
    BY <1>1, <1>3
  <2>3. TagFor("Name", <<n>>) = Named(<<n>>)
    BY <2>1, TagsOfChains
  <2>4. Append(<< >>, Named(<<n>>)) = <<Named(<<n>>)>>
    BY ShortAppends
  <2>5. Built(<< >>, <<Named(<<n>>)>>)'
    BY <2>1, <2>2, <2>3, <2>4, TagBuilds, Methods
  <2>6. k + 1 = 1
    BY <1>3
  <2>7. ResultAt(n, 1)'
    BY <2>5 DEF ResultAt
  <2> QED BY <1>1, <2>6, <2>7
<1>4. CASE k = 1
  <2>1. Built(<< >>, <<Named(<<n>>)>>)
    BY <1>4 DEF ResultAt
  <2>2. chain[k + 1] = Call("ResultTags", << >>)
    BY <1>1, <1>4
  <2>5. /\ Built(<< >>, <<Named(<<n>>)>>)'
        /\ \E i \in DOMAIN annotations' : Elements(annotations[i])' = Elements(tags)'
    BY <2>1, <2>2, AnnotationBuilds, Methods
  <2>6. k + 1 = 2
    BY <1>4
  <2>7. ResultAt(n, 2)'
    BY <2>5 DEF ResultAt
  <2> QED BY <1>1, <2>5, <2>6, <2>7
<1> QED BY <1>2, <1>3, <1>4

\* Before its first call, a chain has built nothing.
LEMMA InitOfChains == Init => ChainIInv
<1> SUFFICES ASSUME Init, chain # Free
             PROVE  /\ \E n \in Owners :
                         \/ chain = NewServerChain(n) /\ NewServerAt(n, Len(calls))
                         \/ chain = BindServerChain(n) /\ BindServerAt(n, Len(calls))
                         \/ chain = NewClientChain(n) /\ NewClientAt(n, Len(calls))
                         \/ chain = ResultChain(n) /\ ResultAt(n, Len(calls))
                    /\ Len(calls) # Len(chain)
  BY DEF ChainIInv
<1>1. Len(calls) = 0 /\ prefixes = << >> /\ Elements(tags) = << >>
  <2>1. tags.len = 0 /\ Len(calls) = 0 /\ prefixes = << >>
    BY DEF Init
  <2>2. Len(Elements(tags)) = 0 /\ Elements(tags) \in Seq(Tag)
    BY <2>1, InitInvariant, ElementsAre DEF IInv
  <2> QED BY <2>1, <2>2, EmptySeq
<1>2. Built(<< >>, << >>)
  BY <1>1 DEF Built
<1>3. PICK n \in Owners : chain \in {NewServerChain(n), BindServerChain(n), NewClientChain(n),
                                    ResultChain(n)}
  BY DEF Init, Chains, Owners
<1>4. /\ NewServerAt(n, Len(calls)) /\ BindServerAt(n, Len(calls))
      /\ NewClientAt(n, Len(calls)) /\ ResultAt(n, Len(calls))
  BY <1>1, <1>2 DEF NewServerAt, BindServerAt, NewClientAt, ResultAt
<1>5. Len(chain) # 0
  <2>1. /\ Len(NewServerChain(n)) = 5 /\ Len(BindServerChain(n)) = 9
        /\ Len(NewClientChain(n)) = 3 /\ Len(ResultChain(n)) = 2
    BY CallsOfChains
  <2>2. \/ chain = NewServerChain(n) \/ chain = BindServerChain(n)
        \/ chain = NewClientChain(n) \/ chain = ResultChain(n)
    BY <1>3
  <2>3. Len(chain) \in {5, 9, 3, 2}
    BY <2>1, <2>2
  <2>4. \A x \in {5, 9, 3, 2} : x # 0
    OBVIOUS
  <2> QED BY <2>3, <2>4, Zenon
<1>6. Len(calls) # Len(chain)
  BY <1>1, <1>5
<1> QED BY <1>3, <1>4, <1>6

\* A call of a chain builds what is due.
LEMMA ChainsBuild == ASSUME IInv, ScopeIInv, ChainIInv, Next PROVE ChainIInv'
<1>1. CASE chain = Free
  <2>1. chain' = chain
    BY CallDoes
  <2> QED BY <1>1, <2>1 DEF ChainIInv
<1>2. CASE chain # Free
  <2>1. PICK n \in Owners :
           \/ chain = NewServerChain(n) /\ NewServerAt(n, Len(calls))
           \/ chain = BindServerChain(n) /\ BindServerAt(n, Len(calls))
           \/ chain = NewClientChain(n) /\ NewClientAt(n, Len(calls))
           \/ chain = ResultChain(n) /\ ResultAt(n, Len(calls))
    BY <1>2 DEF ChainIInv
  <2>2. PICK k : k = Len(calls)
    OBVIOUS
  <2>3. Len(calls') = k + 1 /\ chain' = chain
    BY <1>2, <2>2, ChainGoesOn
  <2> DEFINE Annotated == k + 1 = Len(chain) =>
               \E i \in DOMAIN annotations' : Elements(annotations[i])' = Elements(tags)'
  <2>4. \/ chain = NewServerChain(n) /\ NewServerAt(n, k + 1)' /\ Annotated
        \/ chain = BindServerChain(n) /\ BindServerAt(n, k + 1)' /\ Annotated
        \/ chain = NewClientChain(n) /\ NewClientAt(n, k + 1)' /\ Annotated
        \/ chain = ResultChain(n) /\ ResultAt(n, k + 1)' /\ Annotated
    <3>1. CASE chain = NewServerChain(n) /\ NewServerAt(n, Len(calls))
      BY <1>2, <2>2, <3>1, NewServerStep
    <3>2. CASE chain = BindServerChain(n) /\ BindServerAt(n, Len(calls))
      BY <1>2, <2>2, <3>2, BindServerStep
    <3>3. CASE chain = NewClientChain(n) /\ NewClientAt(n, Len(calls))
      BY <1>2, <2>2, <3>3, NewClientStep
    <3>4. CASE chain = ResultChain(n) /\ ResultAt(n, Len(calls))
      BY <1>2, <2>2, <3>4, ResultStep
    <3> QED BY <2>1, <3>1, <3>2, <3>3, <3>4
  <2>5. \E x \in Owners :
         \/ chain' = NewServerChain(x) /\ NewServerAt(x, Len(calls))'
         \/ chain' = BindServerChain(x) /\ BindServerAt(x, Len(calls))'
         \/ chain' = NewClientChain(x) /\ NewClientAt(x, Len(calls))'
         \/ chain' = ResultChain(x) /\ ResultAt(x, Len(calls))'
    <3>1. /\ NewServerAt(n, k + 1)' => NewServerAt(n, Len(calls))'
          /\ BindServerAt(n, k + 1)' => BindServerAt(n, Len(calls))'
          /\ NewClientAt(n, k + 1)' => NewClientAt(n, Len(calls))'
          /\ ResultAt(n, k + 1)' => ResultAt(n, Len(calls))'
      BY <2>3 DEF NewServerAt, BindServerAt, NewClientAt, ResultAt
    <3> QED BY <2>3, <2>4, <3>1
  <2>6. Len(calls') = Len(chain') =>
         \E i \in DOMAIN annotations' : Elements(annotations[i])' = Elements(tags)'
    BY <2>3, <2>4
  <2> QED BY <2>5, <2>6 DEF ChainIInv
<1> QED BY <1>1, <1>2

\* A step that changes nothing.
LEMMA ChainsStutter == ChainIInv /\ UNCHANGED vars => ChainIInv'
<1> SUFFICES ASSUME ChainIInv, UNCHANGED vars PROVE ChainIInv'
  OBVIOUS
<1>1. chain' = chain /\ calls' = calls /\ prefixes' = prefixes /\ annotations' = annotations
      /\ tags' = tags /\ arrays' = arrays
  BY DEF vars
<1>2. Elements(tags)' = Elements(tags)
  BY <1>1 DEF Elements
<1>3. \A p, t : Built(p, t)' <=> Built(p, t)
  BY <1>1, <1>2 DEF Built
<1>4. \A n : /\ NewServerAt(n, Len(calls))' <=> NewServerAt(n, Len(calls))
             /\ BindServerAt(n, Len(calls))' <=> BindServerAt(n, Len(calls))
             /\ NewClientAt(n, Len(calls))' <=> NewClientAt(n, Len(calls))
             /\ ResultAt(n, Len(calls))' <=> ResultAt(n, Len(calls))
  BY <1>1, <1>3 DEF NewServerAt, BindServerAt, NewClientAt, ResultAt
<1>5. \A i \in DOMAIN annotations : Elements(annotations[i])' = Elements(annotations[i])
  BY <1>1 DEF Elements
<1> QED BY <1>1, <1>2, <1>4, <1>5 DEF ChainIInv

\* The tags that the parameters of a chain ask for.
LEMMA DependenciesAre ==
  ASSUME NEW n \in Owners
  PROVE  /\ Dependencies(NewServerChain(n)) =
              <<Config(n), Handler(n), Options(n)>>
         /\ Dependencies(BindServerChain(n)) =
              <<Config(n), Named(<<n>>), Empty, Empty, Middleware(n)>>
         /\ Dependencies(NewClientChain(n)) = <<Config(n), Options(n)>>
         /\ Dependencies(ResultChain(n)) = <<Named(<<n>>)>>
<1> DEFINE Name(c) == CHOOSE x \in ServerNames \cup ClientNames :
             c \in {NewServerChain(x), BindServerChain(x), NewClientChain(x), ResultChain(x)}
<1>1. ASSUME NEW c \in {NewServerChain(n), BindServerChain(n), NewClientChain(n), ResultChain(n)}
      PROVE  Name(c) = n
  <2>1. \A x \in Owners :
          c \in {NewServerChain(x), BindServerChain(x), NewClientChain(x), ResultChain(x)} <=> x = n
    BY ChainsDiffer
  <2> QED BY <2>1 DEF Owners
<1>2. [Named(<<n, "handler">>) EXCEPT !.optional = TRUE] = Handler(n)
  BY OptionalNames DEF Handler
<1> DEFINE a == <<Config(n), Handler(n), Options(n)>>
           b == <<Config(n), Named(<<n>>), Empty, Empty, Middleware(n)>>
           d == <<Config(n), Options(n)>>
           e == <<Named(<<n>>)>>
<1>3. ASSUME NEW c, Name(c) = n
      PROVE  Dependencies(c) = CASE c = NewServerChain(n) -> a
                                 [] c = BindServerChain(n) -> b
                                 [] c = NewClientChain(n) -> d
                                 [] c = ResultChain(n) -> e
  <2> DEFINE Cases(m) ==
        CASE c = NewServerChain(m) ->
               <<Config(m), [Named(<<m, "handler">>) EXCEPT !.optional = TRUE],
                 GroupOf(<<m, "options">>)>>
          [] c = BindServerChain(m) ->
               <<Config(m), Named(<<m>>), Empty, Empty,
                 GroupOf(<<m, "listener", "middleware">>)>>
          [] c = NewClientChain(m) -> <<Config(m), GroupOf(<<m, "options">>)>>
          [] c = ResultChain(m) -> <<Named(<<m>>)>>
  <2>1. Dependencies(c) = Cases(Name(c))
    BY DEF Dependencies
  <2>2. Cases(n) = CASE c = NewServerChain(n) -> a
                     [] c = BindServerChain(n) -> b
                     [] c = NewClientChain(n) -> d
                     [] c = ResultChain(n) -> e
    BY <1>2 DEF Options, Middleware
  <2> HIDE DEF Cases, Name, a, b, d, e
  <2> QED BY <1>3, <2>1, <2>2
<1> HIDE DEF a, b, d, e, Name
<1>4. Dependencies(NewServerChain(n)) = a
  <2>1. Name(NewServerChain(n)) = n
    BY <1>1
  <2>2. PICK c : c = NewServerChain(n)
    OBVIOUS
  <2>3. Dependencies(c) = CASE c = NewServerChain(n) -> a
                            [] c = BindServerChain(n) -> b
                            [] c = NewClientChain(n) -> d
                            [] c = ResultChain(n) -> e
    BY <1>3, <2>1, <2>2
  <2> QED BY <2>2, <2>3, ChainsDiffer
<1>5. Dependencies(BindServerChain(n)) = b
  <2>1. Name(BindServerChain(n)) = n
    BY <1>1
  <2>2. PICK c : c = BindServerChain(n)
    OBVIOUS
  <2>3. Dependencies(c) = CASE c = NewServerChain(n) -> a
                            [] c = BindServerChain(n) -> b
                            [] c = NewClientChain(n) -> d
                            [] c = ResultChain(n) -> e
    BY <1>3, <2>1, <2>2
  <2> QED BY <2>2, <2>3, ChainsDiffer
<1>6. Dependencies(NewClientChain(n)) = d
  <2>1. Name(NewClientChain(n)) = n
    BY <1>1
  <2>2. PICK c : c = NewClientChain(n)
    OBVIOUS
  <2>3. Dependencies(c) = CASE c = NewServerChain(n) -> a
                            [] c = BindServerChain(n) -> b
                            [] c = NewClientChain(n) -> d
                            [] c = ResultChain(n) -> e
    BY <1>3, <2>1, <2>2
  <2> QED BY <2>2, <2>3, ChainsDiffer
<1>7. Dependencies(ResultChain(n)) = e
  <2>1. Name(ResultChain(n)) = n
    BY <1>1
  <2>2. PICK c : c = ResultChain(n)
    OBVIOUS
  <2>3. Dependencies(c) = CASE c = NewServerChain(n) -> a
                            [] c = BindServerChain(n) -> b
                            [] c = NewClientChain(n) -> d
                            [] c = ResultChain(n) -> e
    BY <1>3, <2>1, <2>2
  <2> QED BY <2>2, <2>3, ChainsDiffer
<1> QED BY <1>4, <1>5, <1>6, <1>7 DEF a, b, d, e

\* At its end, a chain has built them.
LEMMA ChainsAreDocumented == ChainIInv => DependenciesAsDocumented
<1> SUFFICES ASSUME ChainIInv, chain # Free, Len(calls) = Len(chain)
             PROVE  Elements(tags) = Dependencies(chain)
  BY DEF ChainIInv, DependenciesAsDocumented
<1>1. PICK n \in Owners :
         \/ chain = NewServerChain(n) /\ NewServerAt(n, Len(calls))
         \/ chain = BindServerChain(n) /\ BindServerAt(n, Len(calls))
         \/ chain = NewClientChain(n) /\ NewClientAt(n, Len(calls))
         \/ chain = ResultChain(n) /\ ResultAt(n, Len(calls))
  BY DEF ChainIInv
<1>2. /\ Len(NewServerChain(n)) = 5 /\ Len(BindServerChain(n)) = 9
      /\ Len(NewClientChain(n)) = 3 /\ Len(ResultChain(n)) = 2
  BY CallsOfChains
<1> DEFINE a == <<Config(n), Handler(n), Options(n)>>
           b == <<Config(n), Named(<<n>>), Empty, Empty, Middleware(n)>>
           d == <<Config(n), Options(n)>>
           e == <<Named(<<n>>)>>
<1>3. NewServerAt(n, 5) => Elements(tags) = a
  BY DEF NewServerAt, Built
<1>4. BindServerAt(n, 9) => Elements(tags) = b
  BY DEF BindServerAt, Built
<1>5. NewClientAt(n, 3) => Elements(tags) = d
  BY DEF NewClientAt, Built
<1>6. ResultAt(n, 2) => Elements(tags) = e
  BY DEF ResultAt, Built
<1>7. /\ Dependencies(NewServerChain(n)) = a /\ Dependencies(BindServerChain(n)) = b
      /\ Dependencies(NewClientChain(n)) = d /\ Dependencies(ResultChain(n)) = e
  BY DependenciesAre
<1> HIDE DEF a, b, d, e
<1> QED BY <1>1, <1>2, <1>3, <1>4, <1>5, <1>6, <1>7

\* The inductive invariant of the chains, for any servers and clients.
THEOREM ChainInvariance == Spec => []ChainIInv
<1>1. Init => ChainIInv
  BY InitOfChains
<1>2. IInv /\ ScopeIInv /\ ChainIInv /\ [Next]_vars => ChainIInv'
  BY ChainsBuild, ChainsStutter
<1> QED BY <1>1, <1>2, Invariance, ScopeInvariance, PTL DEF Spec

\* The chains of newServer, bindServer and NewClientCustom ask for the config, the
\* handler, the options and the listener middleware of the server or client that they
\* are for, at the parameters that take them.
THEOREM ServersGetTheirDependencies == Spec => []DependenciesAsDocumented
<1>1. ChainIInv => DependenciesAsDocumented
  BY ChainsAreDocumented
<1> QED BY <1>1, ChainInvariance, PTL
=============================================================================
