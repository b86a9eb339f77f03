----------------------------- MODULE MCIcmpPing -----------------------------
(* Model-checking instance of IcmpPing: two pinging threads, two *)
(* sequence numbers (so that two threads can wait for the same number),   *)
(* and an 8-bit stand-in for the ULONG counters.                          *)
EXTENDS IcmpPing, TLC

MCThreads == {"t1", "t2"}
MCSeqs == {1, 2}
MCUlongMod == 256

=============================================================================
