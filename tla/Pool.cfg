SPECIFICATION FairSpec
CONSTANTS
  Tunnels = {t1, t2, t3}
  Openers = {o1}
  PoolSize = 1
  MaxStreams = 1
  NoTunnel = NoTunnel
INVARIANTS TypeOK AtMostDouble SlotAccounting NoOrphanTunnel
PROPERTIES LiveTunnelNeverDropped PoolRefills OpenersFinish
