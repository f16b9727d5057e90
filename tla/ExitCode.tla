------------------------------ MODULE ExitCode ------------------------------
(***************************************************************************)
(* Exit codes of errors: exitCoder.go.                                     *)
(*                                                                         *)
(* A Go error is the sequence of the layers that errors.Unwrap walks,      *)
(* outermost first; the nil error is the empty sequence.  A layer has a    *)
(* name, which is what errors.Is compares, and a code: NoCode unless the   *)
(* layer implements ExitCoder.                                             *)
(*                                                                         *)
(* A coder (type ErrorCoder) is a function on errors; a nil coder is the   *)
(* value NoCoder.                                                          *)
(***************************************************************************)
EXTENDS Integers, Sequences

CONSTANTS NoCode,   \* the code of a layer that is no ExitCoder
          NoCoder   \* a nil ErrorCoder

ASSUME NoCodeAssumption == NoCode \notin Int

Layer == [name : STRING, code : Int \cup {NoCode}]
NilError == << >>

DefaultErrorExitCode == 1

\* errors.Is(err, target) for a sentinel target
Is(err, name) == \E i \in DOMAIN err : err[i].name = name

\* errors.As(err, &ec) for an ExitCoder: the layers that would satisfy it
Coded(err) == {i \in DOMAIN err : err[i].code # NoCode}

\* As AsExitCode, with a type assertion on the error instead of errors.As.
AsExitCode_TopOnly(err) == err[1].code

\* ec.ExitCode() after errors.As: the outermost coded layer wins
AsExitCode(err) ==
  err[CHOOSE i \in Coded(err) : \A j \in Coded(err) : i <= j].code

(***************************************************************************)
(* UseExitCode wraps a non-nil error in one more layer; with a nil error   *)
(* it panics, so callers guard it with UseExitCodePanics.                  *)
(***************************************************************************)
UseExitCodePanics(err) == err = NilError

\* As UseExitCode, with no Unwrap method.
UseExitCode_NoUnwrap(err, code) == <<[name |-> "exitCodeErr", code |-> code]>>

UseExitCode(err, code) == <<[name |-> "exitCodeErr", code |-> code]>> \o err

\* As ExitCodeFor, with the coder consulted before the error itself.
ExitCodeFor_CoderFirst(err, coder) ==
  IF coder # NoCoder THEN coder[err]
  ELSE IF Coded(err) # {} THEN AsExitCode(err)
  ELSE IF err # NilError THEN DefaultErrorExitCode
  ELSE 0

\* As ExitCodeFor, for callers that drop the coder.
ExitCodeFor_NilCoder(err, coder) ==
  IF Coded(err) # {} THEN AsExitCode(err)
  ELSE IF err # NilError THEN DefaultErrorExitCode
  ELSE 0

\* As ExitCodeFor, with no code but the error's own.
ExitCodeFor_CodedOnly(err, coder) ==
  IF Coded(err) # {} THEN AsExitCode(err) ELSE 0

ExitCodeFor(err, coder) ==
  IF Coded(err) # {} THEN AsExitCode(err)
  ELSE IF coder # NoCoder THEN coder[err]
  ELSE IF err # NilError THEN DefaultErrorExitCode
  ELSE 0
=============================================================================
