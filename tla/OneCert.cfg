SPECIFICATION Spec
CONSTANTS
  audit = audit
  Unset = Unset
  Plain <- MCPlain
  PeerVerifyConfig <- MCPeerVerifyConfig
  Cert <- MCCert
  ArgsLen = 1
  MaxLen = 2
  MaxSequences = 4
  MaxSpare = 1
  MaxCerts = 2
INVARIANT
  OneCertSuffices
CHECK_DEADLOCK FALSE
