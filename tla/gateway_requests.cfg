SPECIFICATION GatewayFairSpec
CONSTANTS
  Requests = {q1, q2}
  q1 = q1
  q2 = q2
  ann = ann
  bob = bob
  None = None
  Garbled = Garbled
  Members <- MCMembers
  Issued <- MCIssued
  Routes <- MCRoutes
  Lifetime = 1
  MaxTime = 1
  MaxDeaths = 1
INVARIANTS GatewayTypeOK TokenOwnerActs
PROPERTIES OnlyRejectionsReturn KeepsWord RequestAnswered
CHECK_DEADLOCK FALSE
