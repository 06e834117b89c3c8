CONSTANTS
  p1 = p1
  p2 = p2
  v1 = v1
  v2 = v2
  Bytes = {0, 1}
  WireParams = {p1, p2}
  Values = {v1, v2}
  FromWire <- MC_FromWire
  HwLevel = TRUSTED_ENVIRONMENT
  Software = SOFTWARE
  MaxCertLen = 2
  MaxChainLen = 3
  MaxParams = 2
  None = None
SPECIFICATION Spec
INVARIANTS
  CertificatesKept
  AuthorizationsProvenance
\* A single call: once store_new_key has returned nothing further happens.
CHECK_DEADLOCK FALSE
