CONSTANTS
  Principals = {alice, bob, mallory}
  Trusted = {alice, bob}
  DepositPda = DepositPda
  NoKey = NoKey
SPECIFICATION Spec
INVARIANTS
  PoolStaysTrusted
  ManagerConsented
PROPERTIES
  StakingStaysTrusted
  GatesHold
