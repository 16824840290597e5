SPECIFICATION MCSpec
CONSTANTS
  Tenants = {0, 1}
  CostsOf <- SomeCosts
  Quanta = {2, 5}
  BaseQuantum = 1
  Admins = {a1, a2}
  MaxI64 = 3
  Compact = 1
  MaxQueue <- SomeLimits
  MaxCalls = 2
  Keys = {k1, k2, k3}
  Capacity = 2
  MaxU64 = 22
  MaxServed = 4
  Threads = {p1, p2}
  Bounds <- SomeBounds
  Waits = {2, 6}
  Expiries = {2}
  Past <- SomePast
  Mantissa = 4096
  Grids = {1, 2, 4, 8, 16, 32, 64, 128, 256, 512, 1024, 2048, 4096}
  MaxRecordings = 2
  MaxReads = 2
SYMMETRY Symm
INVARIANTS
  ShardTypeInv RingIsQueue ServedInTime QuantumInForce
  MetricsTypeInv SnapshotsMonotone ScrapeConsistent PercentilesExact TopTenantsBound
CHECK_DEADLOCK FALSE
