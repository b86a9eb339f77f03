\* Timer-thread build: thread timeouts cannot preempt the helper's scan.
CONSTANTS
  Threads <- MCThreads
  Seqs <- MCSeqs
  UlongMod <- MCUlongMod
  NULL = NULL
  NoPacket = NoPacket
  TimerInISR = FALSE

SPECIFICATION FairSpec

INVARIANT TypeOK
INVARIANT SuspensionListConsistent

PROPERTY OneOutcomePerPing
PROPERTY PingCompletes
PROPERTY PingServiceRefined
