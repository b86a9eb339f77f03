CONSTANTS
  Sessions = {t1}
  Certs = {k1}
  CertIds = {0, 1}
  Callbacks = {f1}
  MaxRemoteCerts = 2
  FailingVersions = {"1.3"}
  NULL = NULL
SPECIFICATION Spec
INVARIANT FinishedOnlyIfVerified
