CONSTANTS
  SettableFees = {}
  FeeChoices = {}
  ReferralChoices = {}
  InitFees <- NoFees
  InitReferrals <- NoReferrals
  BaselineFee <- MCBaseline
  MaxIncrease <- MCMaxIncrease
  U128Max = 1000000
  MaxEpoch = 1
  Rent = 1
  StakeMinimum = 1
  WarmupEpochs = 1
  EpochMax = 99
  MinimumActiveStake = 1
  U64Max = 1000000
  NoValidator = NoValidator
  NoLimit = NoLimit
  Validators = {v1, v2}
  Seeds = {s1}
  MaxValidators = 2
  InitLamports = 7
  DepositAmounts = {}
  MoveAmounts = {1}
  WithdrawAmounts = {2}
  StakeLimits = {}
  Rewards = {0}
  Donations = {1}
  Prefunds = {1}
  Events = {"preferred", "donate", "prefund"}
  MaxLamports = 8
SPECIFICATION Spec
INVARIANTS
  Backed
  PreferredIsActive
SYMMETRY Symmetry
