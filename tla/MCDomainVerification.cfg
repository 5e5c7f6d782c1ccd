\* Three requests about two stores and two domains, with two errors or crashes
\* (enough to kill two workers with one job) and two attempts of a job.
SPECIFICATION FairSpec
CONSTANTS
  s1 = s1
  s2 = s2
  d1 = d1
  d2 = d2
  v1 = v1
  v2 = v2
  v3 = v3
  Verification = {v1, v2, v3}
  Store = {s1, s2}
  Domain = {d1, d2}
  Owner <- Owners
  Name <- Names
  Attempts = 2
  MaxFaults = 2
  MaxRequests = 3
  NoDomain = NoDomain
  Nobody = Nobody
CHECK_DEADLOCK FALSE
INVARIANTS
  TypeOK
  OnlyProvedGoesLive
  CustomNeedsRow
  LiveIsServed
PROPERTIES
  ImplementsRegistry
  PublishedIsNoticed
