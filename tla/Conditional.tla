---------------------------- MODULE Conditional ----------------------------
(***************************************************************************)
(* Emitting the options of an fx.App under a condition: conditional.go.    *)
(***************************************************************************)

\* a *Conditional is nil or not
Conditionals == {"nil", "conditional"}

If(f) == IF f THEN "conditional" ELSE "nil"

\* As IfNot, not inverted.
IfNot_Same(f) == If(f)

IfNot(f) == If(~f)

\* Then, given an fx.Option: what the app gets
Then(c, option) == IF c # "nil" THEN {option} ELSE {}
=============================================================================
