----------------------------- MODULE MCArpCache -----------------------------
(* Model-checking instance of ArpCache: three entries, three on-link      *)
(* addresses of which 1 and 3 share hash bucket 1 (NX_ARP_TABLE_MASK = 1), *)
(* two packet buffers and a queue depth of one.                           *)
EXTENDS ArpCache, TLC

MCEntries == {"e1", "e2", "e3"}
MCAddrs == {1, 2, 3}
MCMacs == {"m1"}
MCPackets == {"p1", "p2"}
MCSymmetry == Permutations(MCEntries) \cup Permutations(MCPackets)

====
