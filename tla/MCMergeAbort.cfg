CONSTANTS
  SettableFees = {}
  FeeChoices = {}
  ReferralChoices = {}
  InitFees <- NoFees
  InitReferrals <- NoReferrals
  BaselineFee <- MCBaseline
  MaxIncrease <- MCMaxIncrease
  U128Max = 1000000
  MaxEpoch = 2
  Rent = 1
  StakeMinimum = 1
  WarmupEpochs = 1
  EpochMax = 99
  MinimumActiveStake = 1
  U64Max = 1000000
  NoValidator = NoValidator
  NoLimit = NoLimit
  Validators = {v1}
  Seeds = {s1, s2}
  MaxValidators = 1
  InitLamports = 6
  DepositAmounts = {}
  MoveAmounts = {1, 2}
  WithdrawAmounts = {}
  StakeLimits = {}
  Rewards = {0, 1}
  Donations = {}
  Prefunds = {}
  Events = {}
  MaxLamports = 8
SPECIFICATION Spec
INVARIANTS
  MergingUpdateNeverAborts
