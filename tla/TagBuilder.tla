----------------------------- MODULE TagBuilder -----------------------------
(***************************************************************************)
(* The fluent builder of fx struct tags: tagBuilder.go, and the chains of  *)
(* calls with which ProvideServerCustom and ProvideClientCustom name the   *)
(* dependencies of a server and a client.                                  *)
(*                                                                         *)
(* A name such as "main.config" is the sequence of its parts, so the empty *)
(* prefix is the empty sequence.  ParamTags and ResultTags give fx the     *)
(* builder's own slice of tags, which is an array with a length; the       *)
(* array may have room for more tags, which later calls write in place.    *)
(***************************************************************************)
EXTENDS Integers, Sequences, FiniteSets

CONSTANTS
  Part,         \* the parts that names are made of
  Prefix,       \* the prefixes that a free chain of calls pushes
  Value,        \* the names and groups that it adds
  MaxCalls,     \* bound: the length of a free chain
  ServerNames,  \* the servers of the application
  ClientNames   \* its clients

ASSUME TagAssumption ==
  /\ Prefix \subseteq Seq(Part) /\ Value \subseteq Seq(Part)
  /\ MaxCalls \in Nat
  /\ ServerNames \cup ClientNames \subseteq Part
  /\ {"config", "handler", "options", "listener", "middleware"} \subseteq Part

\* a call of a method with its argument, the empty sequence if it has none
Call(op, arg) == [op |-> op, arg |-> arg]

\* a tag: does it name a component or a group, how, and is it optional?  "Value
\* groups cannot be optional" (tagBuilder.go:13-14), and a tag without a name
\* has none.
Tag ==
  {t \in [kind : {"none", "name", "group"}, name : Seq(Part), optional : BOOLEAN] :
     /\ t.kind = "group" => ~t.optional
     /\ t.kind = "none" => t.name = << >>}
Empty == [kind |-> "none", name |-> << >>, optional |-> FALSE]

TagOps == {"Skip", "Optional", "Name", "OptionalName", "Group"}
SharingOps == {"ParamTags", "ResultTags"}

-----------------------------------------------------------------------------
(***************************************************************************)
(* The chains of arrangehttp, and the parameters they are for.             *)
(***************************************************************************)
NewServerChain(n) ==
  << Call("Push", <<n>>), Call("OptionalName", <<"config">>),
     Call("OptionalName", <<"handler">>), Call("Group", <<"options">>),
     Call("ParamTags", << >>) >>

BindServerChain(n) ==
  << Call("Push", <<n>>), Call("OptionalName", <<"config">>),
     Call("Push", << >>), Call("Name", <<n>>), Call("Pop", << >>),
     Call("Skip", << >>), Call("Skip", << >>),
     Call("Group", <<"listener", "middleware">>), Call("ParamTags", << >>) >>

NewClientChain(n) ==
  << Call("OptionalName", <<n, "config">>), Call("Group", <<n, "options">>),
     Call("ParamTags", << >>) >>

\* both name their result so
ResultChain(n) == << Call("Name", <<n>>), Call("ResultTags", << >>) >>

Chains ==
  {NewServerChain(n) : n \in ServerNames} \cup {BindServerChain(n) : n \in ServerNames}
    \cup {NewClientChain(n) : n \in ClientNames}
    \cup {ResultChain(n) : n \in ServerNames \cup ClientNames}

\* the chain of an application that may make any calls
Free == << >>

VARIABLES
  chain,       \* the calls to make, or Free
  calls,       \* the calls made so far
  prefixes,    \* TagBuilder.prefixes
  tags,        \* TagBuilder.tags, an array and a length
  arrays,      \* the arrays of tags that were allocated
  annotations  \* what ParamTags, ResultTags and StructTags returned

vars == <<chain, calls, prefixes, tags, arrays, annotations>>

Slice == [array : Nat, len : Nat]
Elements(slice) == SubSeq(arrays[slice.array], 1, slice.len)
Fits(slice) == slice.array \in DOMAIN arrays /\ slice.len \in 0..Len(arrays[slice.array])

TypeOK ==
  /\ chain \in Chains \cup {Free}
  /\ prefixes \in Seq(Seq(Part))
  /\ arrays \in Seq(Seq(Tag))
  /\ tags \in Slice /\ Fits(tags)
  /\ annotations \in Seq(Slice) /\ \A i \in DOMAIN annotations : Fits(annotations[i])

\* Tags(): both slices are nil
Init ==
  /\ chain \in Chains \cup {Free}
  /\ calls = << >>
  /\ prefixes = << >>
  /\ tags = [array |-> 1, len |-> 0]
  /\ arrays = << << >> >>
  /\ annotations = << >>

-----------------------------------------------------------------------------
Makes(op, arg) ==
  /\ IF chain = Free
     THEN Len(calls) < MaxCalls
     ELSE Len(calls) < Len(chain) /\ Call(op, arg) = chain[Len(calls) + 1]
  /\ calls' = Append(calls, Call(op, arg))
  /\ UNCHANGED chain

Push(p) ==
  /\ Makes("Push", p)
  /\ prefixes' = Append(prefixes, p)
  /\ UNCHANGED <<tags, arrays, annotations>>

\* As Pop, with the prefix blanked but left on the stack.
Pop_Blanks ==
  /\ Makes("Pop", << >>)
  /\ prefixes' = IF prefixes = << >> THEN prefixes
                 ELSE [prefixes EXCEPT ![Len(prefixes)] = << >>]
  /\ UNCHANGED <<tags, arrays, annotations>>

Pop ==
  /\ Makes("Pop", << >>)
  /\ prefixes' = IF prefixes = << >> THEN prefixes
                 ELSE SubSeq(prefixes, 1, Len(prefixes) - 1)
  /\ UNCHANGED <<tags, arrays, annotations>>

\* As Prefixed, with all the prefixes.
Prefixed_Nested(v) ==
  CASE prefixes = << >> -> v
    [] Len(prefixes) = 1 -> prefixes[1] \o v
    [] OTHER -> prefixes[Len(prefixes) - 1] \o prefixes[Len(prefixes)] \o v

\* writePrefixedValue: the innermost prefix only, nothing if it is blank
Prefixed(v) == IF prefixes = << >> THEN v ELSE prefixes[Len(prefixes)] \o v

\* As TagFor, with a group as optional as the name it was copied from.
TagFor_OptionalGroup(op, v) ==
  CASE op = "Skip" -> Empty
    [] op = "Optional" -> [Empty EXCEPT !.optional = TRUE]
    [] op = "Name" -> [kind |-> "name", name |-> Prefixed(v), optional |-> FALSE]
    [] op = "OptionalName" -> [kind |-> "name", name |-> Prefixed(v), optional |-> TRUE]
    [] op = "Group" -> [kind |-> "group", name |-> Prefixed(v), optional |-> TRUE]

TagFor(op, v) ==
  CASE op = "Skip" -> Empty
    [] op = "Optional" -> [Empty EXCEPT !.optional = TRUE]
    [] op = "Name" -> [kind |-> "name", name |-> Prefixed(v), optional |-> FALSE]
    [] op = "OptionalName" -> [kind |-> "name", name |-> Prefixed(v), optional |-> TRUE]
    [] op = "Group" -> [kind |-> "group", name |-> Prefixed(v), optional |-> FALSE]

(***************************************************************************)
(* append: in place while the array has room, or into a copy of twice the  *)
(* size.                                                                   *)
(***************************************************************************)
Larger(a) ==
  [i \in 1..(IF a = << >> THEN 1 ELSE 2 * Len(a)) |-> IF i \in DOMAIN a THEN a[i] ELSE Empty]

AppendTag(t) ==
  IF tags.len < Len(arrays[tags.array])
  THEN /\ arrays' = [arrays EXCEPT ![tags.array][tags.len + 1] = t]
       /\ tags' = [tags EXCEPT !.len = @ + 1]
  ELSE /\ arrays' = Append(arrays, [Larger(arrays[tags.array]) EXCEPT ![tags.len + 1] = t])
       /\ tags' = [array |-> Len(arrays) + 1, len |-> tags.len + 1]

AddTag(op, v) ==
  /\ Makes(op, v)
  /\ AppendTag(TagFor(op, v))
  /\ UNCHANGED <<prefixes, annotations>>

\* As Annotate, with the builder reset so that it can be used again.
Annotate_Resets(op) ==
  /\ Makes(op, << >>)
  /\ annotations' = Append(annotations, tags)
  /\ tags' = [tags EXCEPT !.len = 0]
  /\ UNCHANGED <<prefixes, arrays>>

\* fx.ParamTags and fx.ResultTags keep the slice they are given
Annotate(op) ==
  /\ Makes(op, << >>)
  /\ annotations' = Append(annotations, tags)
  /\ UNCHANGED <<prefixes, tags, arrays>>

StructTags ==
  /\ Makes("StructTags", << >>)
  /\ arrays' = Append(arrays, Elements(tags))
  /\ annotations' = Append(annotations, [array |-> Len(arrays) + 1, len |-> tags.len])
  /\ UNCHANGED <<prefixes, tags>>

Arguments(op) ==
  IF op \in {"Skip", "Optional"} THEN {<< >>}
  ELSE IF chain # Free THEN {chain[i].arg : i \in DOMAIN chain}
  ELSE IF op = "Push" THEN Prefix ELSE Value

Next ==
  \/ \E p \in Arguments("Push") : Push(p)
  \/ Pop
  \/ \E op \in TagOps : \E v \in Arguments(op) : AddTag(op, v)
  \/ \E op \in SharingOps : Annotate(op)
  \/ StructTags

Spec == Init /\ [][Next]_vars

-----------------------------------------------------------------------------
(***************************************************************************)
(* The prefix of a tag, from the calls alone: the one of the last Push     *)
(* before it that was not undone.  A Push is undone by the first Pop that  *)
(* makes the calls after it pop more than they push; a Pop without a Push  *)
(* does nothing (tagBuilder.go:34-60).                                     *)
(***************************************************************************)
Count(op, i, j) == Cardinality({k \in i..j : calls[k].op = op})

InForce(i, k) ==
  /\ calls[i].op = "Push"
  /\ \A j \in i..(k - 1) : Count("Pop", i + 1, j) <= Count("Push", i + 1, j)

Scope(k) ==
  LET pushed == {i \in 1..(k - 1) : InForce(i, k)} IN
  IF pushed = {} THEN << >>
  ELSE calls[CHOOSE i \in pushed : \A j \in pushed : j <= i].arg

Adding(n) == {k \in 1..n : calls[k].op \in TagOps}

(***************************************************************************)
(* Every call that adds a tag adds one, Skip included, so that the i-th is *)
(* for the i-th parameter; and a name or group has the prefix of its       *)
(* scope, also after a suspended prefix and one Pop too many.              *)
(***************************************************************************)
TagsInScope ==
  /\ tags.len = Cardinality(Adding(Len(calls)))
  /\ \A k \in Adding(Len(calls)) :
       LET tag == Elements(tags)[Cardinality(Adding(k))] IN
       /\ calls[k].op \in {"Name", "OptionalName", "Group"} =>
            tag.name = Scope(k) \o calls[k].arg
       /\ calls[k].op \in {"Skip", "Optional"} => tag.kind = "none"

(***************************************************************************)
(* An annotation that fx was given, and tags that StructTags returned,     *)
(* never change, whatever is added to the builder afterwards: what they    *)
(* share with it is beyond their end ("does not reset the state of this    *)
(* builder", tagBuilder.go:139).                                           *)
(***************************************************************************)
AnnotationsKept ==
  [][\A i \in DOMAIN annotations :
       annotations'[i] = annotations[i] /\ Elements(annotations[i])' = Elements(annotations[i])]_vars

(***************************************************************************)
(* The tags of the chains of arrangehttp, at the parameters they are for:  *)
(* those of newServer and bindServer (server.go:105, 144, and 163-167) and *)
(* of NewClientCustom (client.go:33, and 50-52).  The server that          *)
(* bindServer gets is the one that newServer provides.                     *)
(***************************************************************************)
Named(n) == [kind |-> "name", name |-> n, optional |-> FALSE]
Config(n) == [kind |-> "name", name |-> <<n, "config">>, optional |-> TRUE]
GroupOf(g) == [kind |-> "group", name |-> g, optional |-> FALSE]

Dependencies(c) ==
  LET n == CHOOSE x \in ServerNames \cup ClientNames :
             c \in {NewServerChain(x), BindServerChain(x), NewClientChain(x), ResultChain(x)} IN
  CASE c = NewServerChain(n) ->
         <<Config(n), [Named(<<n, "handler">>) EXCEPT !.optional = TRUE], GroupOf(<<n, "options">>)>>
    [] c = BindServerChain(n) ->
         <<Config(n), Named(<<n>>), Empty, Empty, GroupOf(<<n, "listener", "middleware">>)>>
    [] c = NewClientChain(n) -> <<Config(n), GroupOf(<<n, "options">>)>>
    [] c = ResultChain(n) -> <<Named(<<n>>)>>

DependenciesAsDocumented ==
  (chain # Free /\ Len(calls) = Len(chain)) =>
    \E i \in DOMAIN annotations : Elements(annotations[i]) = Dependencies(chain)
=============================================================================
