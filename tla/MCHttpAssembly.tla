--------------------------- MODULE MCHttpAssembly ---------------------------
(***************************************************************************)
(* Values of the constants of HttpAssembly: all the kinds of option and of *)
(* external element.                                                       *)
(***************************************************************************)
EXTENDS HttpAssembly

MCInjectedKinds == OptionKinds
MCExternalKinds == OptionKinds \cup OtherKinds
=============================================================================
