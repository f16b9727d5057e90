---------------------------- MODULE MCTagBuilder ----------------------------
(***************************************************************************)
(* Values of the constants of TagBuilder for TLC: a blank prefix and one   *)
(* that is not, and one value.                                             *)
(***************************************************************************)
EXTENDS TagBuilder

MCPart == ServerNames \cup ClientNames \cup
            {"p", "v", "config", "handler", "options", "listener", "middleware"}
MCPrefix == {<< >>, <<"p">>}
MCValue == {<<"v">>}
=============================================================================
