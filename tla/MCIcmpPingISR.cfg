\* Timer-ISR build (TX_TIMER_PROCESS_IN_ISR): a timeout cleanup may run
\* between the helper's sequence-number compare and its unlink.
CONSTANTS
  Threads <- MCThreads
  Seqs <- MCSeqs
  UlongMod <- MCUlongMod
  NULL = NULL
  NoPacket = NoPacket
  TimerInISR = TRUE

SPECIFICATION Spec

INVARIANT SuspensionListConsistent
