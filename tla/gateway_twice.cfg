SPECIFICATION GatewaySpec
CONSTANTS
  Requests = {q1}
  q1 = q1
  q2 = q2
  ann = ann
  bob = bob
  None = None
  Garbled = Garbled
  Members <- MCMembers
  Issued <- MCIssued
  Routes <- OneGuarded
  Lifetime = 1
  MaxTime = 1
  MaxDeaths = 0
INVARIANT OneCommandPerRequest
CHECK_DEADLOCK FALSE
