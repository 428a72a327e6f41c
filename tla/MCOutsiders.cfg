CONSTANTS
  SettableFees = {}
  FeeChoices = {}
  ReferralChoices = {}
  InitFees <- NoFees
  InitReferrals <- NoReferrals
  BaselineFee <- MCBaseline
  MaxIncrease <- MCMaxIncrease
  U128Max = 1000000
  MaxEpoch = 3
  Rent = 1
  StakeMinimum = 1
  WarmupEpochs = 2
  EpochMax = 99
  MinimumActiveStake = 1
  U64Max = 1000000
  NoValidator = NoValidator
  NoLimit = NoLimit
  Validators = {v1}
  Seeds = {s1}
  MaxValidators = 1
  InitLamports = 4
  DepositAmounts = {}
  MoveAmounts = {1}
  WithdrawAmounts = {}
  StakeLimits = {}
  Rewards = {0}
  Donations = {}
  Prefunds = {}
  Events = {"delinquent", "destake", "preferred", "hijack"}
  MaxLamports = 6
SPECIFICATION FairSpec
INVARIANTS
  Backed
  StatusMatchesRecord
  RemovalNeverBlocked
PROPERTIES
  PoolCatchesUp
  RemovalCompletes
  PreferredHeals
