\* ISR producers against the helper thread with three RARP buffers; two
\* application threads passing two buffers through the send and receive
\* services, with interface 1 of two not valid and an index past the end.
CONSTANTS
  Packets = {p1, p2, p3}
  NULL = NULL
  Threads = {a, b}
  Buffers = {q1, q2}
  NoPacket = NoPacket
  MaxInterfaces = 2
  ValidInterfaces = {0}
  Notifiers = {f1}
  NoNotify = NoNotify
  RawQueueMaxes = {0, 1}
  MaxPlaintext = 1

SPECIFICATION NetSpec

INVARIANT NetTypeOK
INVARIANT RarpQueueWellFormed
INVARIANT ExclusiveOwnership

PROPERTY RarpFifoRefined
PROPERTY RarpPacketsProcessed
PROPERTY DriverRequestServed
