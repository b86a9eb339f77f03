\* Output buffers of 2 bytes (enough for the 1-byte public exponent, not
\* for the 3-byte modulus) and of the modulus size.
CONSTANTS
  Base = 4
  Keys <- MCKeys
  Msgs = {0, 1, 2, 3, 5, 32, 34}
  OutLens = {2, 3}
  KeyClear = TRUE
INIT RsaInitState
NEXT RsaNext
INVARIANT OutputFits
