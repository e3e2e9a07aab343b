SPECIFICATION Spec
CONSTANTS
  r1 = r1
  r2 = r2
  e1 = e1
  e2 = e2
  NoTime = NoTime
  Replicas = {r1}
  Events = {e1, e2}
  TenantOf <- MCPipedTenantOf
  EndpointOf <- MCEndpointOf
  Window = 2
  Delay = 2
  MaxResult = 2
  MaxTime = 2
  MaxRestarts = 0
INVARIANT
  TenantIsolation
CHECK_DEADLOCK FALSE
