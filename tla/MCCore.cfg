CONSTANTS
  SettableFees = {}
  FeeChoices = {}
  ReferralChoices = {}
  InitFees <- SomeFees
  InitReferrals <- NoReferrals
  BaselineFee <- MCBaseline
  MaxIncrease <- MCMaxIncrease
  U128Max = 1000000
  MaxEpoch = 2
  Rent = 1
  StakeMinimum = 1
  WarmupEpochs = 1
  EpochMax = 99
  MinimumActiveStake = 1
  U64Max = 1000000
  NoValidator = NoValidator
  NoLimit = NoLimit
  Validators = {v1}
  Seeds = {s1, s2}
  MaxValidators = 1
  InitLamports = 6
  DepositAmounts = {2}
  MoveAmounts = {1, 2}
  WithdrawAmounts = {2}
  StakeLimits = {4}
  Rewards = {0, 1}
  Donations = {}
  Prefunds = {}
  Events = {}
  MaxLamports = 11
SPECIFICATION Spec
INVARIANTS
  TypeOK
  LedgerSolvent
  NoOrphanedStake
  FreshRecordsExact
PROPERTIES
  RemovalOnlyAdvances
  HoldersNeverDiluted
