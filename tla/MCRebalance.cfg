CONSTANTS
  SettableFees = {}
  FeeChoices = {}
  ReferralChoices = {}
  InitFees <- NoFees
  InitReferrals <- NoReferrals
  BaselineFee <- MCBaseline
  MaxIncrease <- MCMaxIncrease
  U128Max = 1000000
  MaxEpoch = 3
  Rent = 1
  StakeMinimum = 1
  WarmupEpochs = 1
  EpochMax = 99
  MinimumActiveStake = 1
  U64Max = 1000000
  NoValidator = NoValidator
  NoLimit = NoLimit
  Validators = {v1, v2}
  Seeds = {0, 1}
  MaxValidators = 2
  InitLamports = 8
  DepositAmounts = {3}
  MoveAmounts = {}
  WithdrawAmounts = {}
  StakeLimits = {}
  Rewards = {4}
  Donations = {}
  Prefunds = {}
  Events = {}
  MaxLamports = 12
  Retained = 2
  BotMinimum = 1
  MaxQuiet = 3
  MaxInterference = 4
SPECIFICATION BotSpec
INVARIANTS
  IncreasesFit
  BalanceReached
SYMMETRY Symmetry
