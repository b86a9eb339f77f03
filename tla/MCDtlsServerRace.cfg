\* Two application threads remove local certificates from a three-session
\* server concurrently.
CONSTANTS
  Threads = {a, b}
  NumSessions = 3
  d1 = d1
  d2 = d2
  d3 = d3
  InitialCerts <- MCInitialCerts
  NotifyCallbacks = {f1}
  OverrideVersions = {0, 1}
  EccGroupCounts = {0, 1}
  NX_NULL = NX_NULL
INIT DtlsInit
NEXT DtlsNext
INVARIANT NoRemovedCertReachable
