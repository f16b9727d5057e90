--------------------------- MODULE MCPeerVerifiers ---------------------------
(***************************************************************************)
(* One verifier of the application and one configuration, and certificates *)
(* that each, both or neither of them accepts, or that cannot be parsed.   *)
(***************************************************************************)
EXTENDS PeerVerifiers

CONSTANT audit   \* the application's verifier

MCPlain == {audit}
MCPeerVerifyConfig == {[suffixes |-> TRUE, commonNames |-> FALSE],
                       [suffixes |-> FALSE, commonNames |-> FALSE]}

Leaf == [parses |-> TRUE, dns |-> TRUE, cnSuffix |-> FALSE, cn |-> FALSE, accepted |-> {audit}]
MCCert == {Leaf,
           [Leaf EXCEPT !.dns = FALSE, !.cnSuffix = TRUE, !.accepted = {}],
           [Leaf EXCEPT !.dns = FALSE, !.cn = TRUE],
           [Leaf EXCEPT !.parses = FALSE]}
=============================================================================
