----------------------------- MODULE MCTLSConfig -----------------------------
(***************************************************************************)
(* The versions of TLSConfig that are told apart: none, two below TLS 1.3, *)
(* and TLS 1.3.                                                            *)
(***************************************************************************)
EXTENDS TLSConfig

MCVersions == {0, 770, 771, VersionTLS13}
=============================================================================
