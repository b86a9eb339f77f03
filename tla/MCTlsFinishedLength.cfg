\* One TLS session whose Finished hash generation always succeeds, receiving
\* Finished messages one unit shorter than, as long as and one unit longer
\* than the hash, with the expected verify data at their start or not.
CONSTANTS
  Sessions = {t1}
  Certs = {k1}
  CertIds = {0, 1}
  Callbacks = {f1}
  MaxRemoteCerts = 1
  FailingVersions = {}
  NULL = NULL
SPECIFICATION Spec
INVARIANT FinishedOfHashLength
