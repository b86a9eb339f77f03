\* TLS: one session (two make the state space explode without new cases),
\* one certificate with identifiers 0 to 2, up to two peer certificates,
\* and a TLS 1.2 Finished hash generator that may fail.
\* DTLS: one application thread removing any of three local certificates
\* from a three-session server, which is stopped, restarted and
\* reconfigured meanwhile.
\* MD5 with an 8-bit ULONG and 16-byte blocks (the bit-count carry and the
\* 56-of-64 padding boundary are reachable); RSA with two toy keys, inputs
\* that are 0, 1, multiples of a prime and n - 1, and output buffers that
\* are empty or modulus-sized; HMAC-SHA1 with buffers below, at and above
\* the 20-byte ICV; the self tests with every PKCS#1 method table over a
\* toy key and three draws from three values (duplicates and none).
CONSTANTS
  Sessions = {t1}
  Certs = {k1}
  CertIds = {0, 1, 2}
  Callbacks = {f1}
  MaxRemoteCerts = 2
  FailingVersions = {"1.2"}
  NULL = NULL
  Threads = {a}
  NumSessions = 3
  d1 = d1
  d2 = d2
  d3 = d3
  InitialCerts <- MCInitialCerts
  NotifyCallbacks = {f1}
  OverrideVersions = {0, 1}
  EccGroupCounts = {0, 1}
  NX_NULL = NX_NULL
  NoDigest = NoDigest
  W = 8
  B = 16
  Lens = {0, 5, 33}
  MaxFed = 44
  Base = 4
  Keys <- MCKeys
  Msgs = {0, 1, 2, 3, 5, 32, 34}
  OutLens = {0, 3}
  KeyClear = TRUE
  KeyMem <- MCKeyMem
  KeyLens = {2}
  Chunks <- MCChunks
  OutLenSet = {0, 12, 32}
  MaxMsg = 3
  Pkcs1Methods <- MCPkcs1Methods
  KatMsg = 2
  RngCheckCount = 3
  RandValues = {0, 1, 2}
INIT SecureInit
NEXT SecureNext
INVARIANT SecureTypeOK
INVARIANT FinishedOnlyIfVerified
INVARIANT CertsReleasedOnFinish
INVARIANT SessionsShareLocalCerts
INVARIANT NoRemovedCertReachable
INVARIANT StreamConsistent
INVARIANT DigestIsRfcMd5
INVARIANT ResultIsModPow
INVARIANT Pkcs1PassImpliesCorrect
