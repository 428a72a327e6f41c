CONSTANTS
  Libraries = {"cli", "js"}
  Rent = 1
  MinDelegation <- Minima
  MaxWithdrawAccounts = 2
  Active = {0, 3, 5}
  Transient = {0, 7}
  Validators <- UpToTwo
  Reserves = {0, 4}
  Strays = {0, 8}
  Prices <- OldAndNew
  Fees <- SomeFees
  Amounts = {1, 4, 9}
  Requests <- ManyRequests
SPECIFICATION Spec
INVARIANTS
  NoOverdraw
  PreferredFirst
  GivesUpOnlyWhenEmpty
CHECK_DEADLOCK FALSE
