CONSTANTS
  SettableFees = {"stake_withdrawal", "epoch", "sol_deposit"}
  FeeChoices <- MCFeeChoices
  ReferralChoices <- MCReferrals
  InitFees <- MCInitFees
  InitReferrals <- MCInitReferrals
  BaselineFee <- MCBaseline
  MaxIncrease <- MCMaxIncrease
  U128Max = 100
  MaxEpoch = 4
SPECIFICATION FeeSpec
INVARIANTS FeesAtMostWhole
PROPERTIES WithdrawalFeeStep TwoEpochNotice
