CONSTANTS
  SettableFees = {"sol_withdrawal", "sol_deposit"}
  FeeChoices <- MCFeeChoices
  ReferralChoices = {50, 101}
  InitFees <- SomeFees
  InitReferrals <- SomeReferrals
  BaselineFee <- MCBaseline
  MaxIncrease <- MCMaxIncrease
  U128Max = 1000000
  MaxEpoch = 1
  Rent = 1
  StakeMinimum = 1
  WarmupEpochs = 1
  EpochMax = 99
  MinimumActiveStake = 100
  U64Max = 1000000
  NoValidator = NoValidator
  NoLimit = NoLimit
  Validators = {v1}
  Seeds = {s1}
  MaxValidators = 1
  InitLamports = 6
  DepositAmounts = {4}
  MoveAmounts = {1, 2}
  WithdrawAmounts = {2, 3}
  StakeLimits = {}
  Rewards = {0}
  Donations = {3}
  Prefunds = {}
  Events = {"burn", "fee_account", "donate"}
  MaxLamports = 14
SPECIFICATION Spec
INVARIANTS
  SupplyCoversMint
PROPERTIES
  HoldersNeverDiluted
  FollowsFeeSchedule
