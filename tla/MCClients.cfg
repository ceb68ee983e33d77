\* A client, then a session of it; or a pool.
SPECIFICATION AllSpec
CONSTANTS
  Arguments <- MCArguments
  Dict <- MCDict
  Field <- MCField
  c1 = c1  c2 = c2
  Members = {c1, c2}
  MaxClients = 4
  Width = 16
CHECK_DEADLOCK FALSE
INVARIANTS GivenIsInForce RefusedLeavesNoFile OnlyVastDurationsPanic EveryClientInTurn
