\* Safety of the cache structure over every call sequence.
CONSTANTS
  Entries <- MCEntries
  Addrs <- MCAddrs
  Macs <- MCMacs
  Packets <- MCPackets
  TableMask = 1
  MaxQueue = 1
  MaxRetries = 1
  NoAddr = 0
  NoMac = NoMac

SPECIFICATION FairSpec

INVARIANT TypeOK
INVARIANT CacheConsistent
INVARIANT AddressUnique
INVARIANT PacketsConserved

PROPERTY StaticPinned
PROPERTY WaitingPacketsLeave
