SPECIFICATION Spec
CONSTANTS
  r1 = r1
  r2 = r2
  e1 = e1
  e2 = e2
  NoTime = NoTime
  Replicas = {r1}
  Events = {e1, e2}
  TenantOf <- MCTenantOf
  EndpointOf <- MCEndpointOf
  Window = 2
  Delay = 2
  MaxResult = 2
  MaxTime = 6
  MaxRestarts = 1
INVARIANTS
  CountedOnce
  AggregatesAreSound
  TenantIsolation
  OneAggregatePerGroup
CHECK_DEADLOCK FALSE
