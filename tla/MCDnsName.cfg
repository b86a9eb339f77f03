\* A buffer of 4 bytes; callers pass names that fit, fill it exactly, or
\* are one byte too long.
CONSTANTS
  DnsNameMax = 4
  Lengths = {0, 4, 5}
INIT Init
NEXT Next
INVARIANT CopyWithinBuffer
