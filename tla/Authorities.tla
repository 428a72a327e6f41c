---------------------------- MODULE Authorities ----------------------------
(***************************************************************************)
(* Who may do what. The pool account names its manager, its staker, the    *)
(* account that receives its fees and up to three funding authorities.     *)
(* Every handler reads the keys it is given, compares them with the pool's *)
(* and looks at their signatures. This module models these checks and the  *)
(* instructions that change the names; what the instructions do otherwise  *)
(* is the subject of StakePool.                                            *)
(*                                                                         *)
(* Some of the principals are Trusted: they put their signature only under *)
(* instructions that give power or fees to trusted ones. The others sign   *)
(* anything. A transaction carries any set of signatures whose owners are  *)
(* willing.                                                                *)
(***************************************************************************)
CONSTANTS
  Principals,  \* keys that can sign
  Trusted,     \* the careful ones
  DepositPda,  \* find_deposit_authority_program_address, which never signs
  NoKey        \* None

ASSUME AuthorityAssumption ==
  /\ Trusted \subseteq Principals
  /\ DepositPda \notin Principals /\ NoKey \notin Principals
  /\ DepositPda # NoKey

VARIABLES
  account_type,             \* of the pool account
  manager,
  staker,
  manager_fee_account,      \* owner of the account that receives the fees
  stake_deposit_authority,
  sol_deposit_authority,
  sol_withdraw_authority,
  last                      \* history: the last instruction and its signers

funding == <<stake_deposit_authority, sol_deposit_authority, sol_withdraw_authority>>
roles == <<account_type, manager, staker, manager_fee_account, funding>>
vars == <<roles, last>>

ManagerOperations ==
  {"SetFee", "SetMaxValidatorStake", "CreateTokenMetadata", "UpdateTokenMetadata"}
StakerOperations ==
  {"AddValidatorToPool", "RemoveValidatorFromPool", "DecreaseValidatorStake",
   "IncreaseValidatorStake", "SetPreferredValidator"}
Operations ==
  ManagerOperations \cup StakerOperations \cup
  {"none", "Initialize", "SetManager", "SetStaker", "SetFundingAuthority",
   "DepositStake", "DepositSol", "WithdrawSol"}
FundingTypes == {"StakeDeposit", "SolDeposit", "SolWithdraw"}

Valid == account_type = "StakePool"
Does(op, signers) == last' = [op |-> op, signers |-> signers]

\* Mutant of CheckManager: the signature is not looked at.
CheckManagerKey(key, signers) == key = manager
\* check_manager, check_staker.
CheckManager(key, signers) == key = manager /\ key \in signers
CheckStaker(key, signers) == key = staker /\ key \in signers
\* Mutant of CheckOptional: anybody's signature will do.
CheckAnySigner(authority, key, signers) == authority # NoKey => key \in signers
\* check_sol_deposit_authority, check_sol_withdraw_authority: no check when
\* the pool names nobody, and an error when the account is missing.
CheckOptional(authority, key, signers) ==
  authority # NoKey => key = authority /\ key \in signers
\* check_stake_deposit_authority compares keys; the stake program asks for the
\* signature when it makes the pool the authority of the deposited stake. For
\* DepositPda the pool program signs.
CheckStakeDeposit(key, signers) ==
  key = stake_deposit_authority /\ key \in signers \cup {DepositPda}
----------------------------------------------------------------------------
\* Mutant of Unused: a pool can be initialized again.
AnyState == account_type \in {"Uninitialized", "StakePool"}
Unused == account_type = "Uninitialized"
\* A deposit authority that is passed to Initialize is good for both deposits.
DepositAuthorities(key) ==
  [stake |-> IF key = NoKey THEN DepositPda ELSE key, sol |-> key]

\* The manager signs; the staker and the others are only named.
Initialize(signers, new_manager, new_staker, fee_owner, deposit_key) ==
  /\ Unused
  /\ new_manager \in signers
  /\ account_type' = "StakePool"
  /\ manager' = new_manager
  /\ staker' = new_staker
  /\ manager_fee_account' = fee_owner
  /\ stake_deposit_authority' = DepositAuthorities(deposit_key).stake
  /\ sol_deposit_authority' = DepositAuthorities(deposit_key).sol
  /\ sol_withdraw_authority' = NoKey
  /\ Does("Initialize", signers)

\* Both managers sign.
SetManager(signers, manager_key, new_manager, fee_owner) ==
  /\ Valid
  /\ CheckManager(manager_key, signers)
  /\ new_manager \in signers
  /\ manager' = new_manager
  /\ manager_fee_account' = fee_owner
  /\ Does("SetManager", signers)
  /\ UNCHANGED <<account_type, staker, funding>>

\* Mutant of MaySetStaker: the new staker may appoint himself.
MayTakeStaking(key, signers) == key \in signers
MaySetStaker(key, signers) == CheckStaker(key, signers) \/ CheckManager(key, signers)
SetStaker(signers, key, new_staker) ==
  /\ Valid
  /\ MaySetStaker(key, signers)
  /\ staker' = new_staker
  /\ Does("SetStaker", signers)
  /\ UNCHANGED <<account_type, manager, manager_fee_account, funding>>

\* NoKey stands for a missing account.
SetFundingAuthority(signers, manager_key, type, new_authority) ==
  /\ Valid
  /\ CheckManager(manager_key, signers)
  /\ stake_deposit_authority' =
       IF type # "StakeDeposit" THEN stake_deposit_authority
       ELSE IF new_authority = NoKey THEN DepositPda ELSE new_authority
  /\ sol_deposit_authority' =
       IF type = "SolDeposit" THEN new_authority ELSE sol_deposit_authority
  /\ sol_withdraw_authority' =
       IF type = "SolWithdraw" THEN new_authority ELSE sol_withdraw_authority
  /\ Does("SetFundingAuthority", signers)
  /\ UNCHANGED <<account_type, manager, staker, manager_fee_account>>

ManagerOperation(op, signers, manager_key) ==
  /\ Valid
  /\ CheckManager(manager_key, signers)
  /\ Does(op, signers)
  /\ UNCHANGED roles

StakerOperation(op, signers, staker_key) ==
  /\ Valid
  /\ CheckStaker(staker_key, signers)
  /\ Does(op, signers)
  /\ UNCHANGED roles

DepositStake(signers, key) ==
  /\ Valid
  /\ CheckStakeDeposit(key, signers)
  /\ Does("DepositStake", signers)
  /\ UNCHANGED roles

DepositSol(signers, key) ==
  /\ Valid
  /\ CheckOptional(sol_deposit_authority, key, signers)
  /\ Does("DepositSol", signers)
  /\ UNCHANGED roles

WithdrawSol(signers, key) ==
  /\ Valid
  /\ CheckOptional(sol_withdraw_authority, key, signers)
  /\ Does("WithdrawSol", signers)
  /\ UNCHANGED roles
----------------------------------------------------------------------------
\* Trusted principals sign appointments of trusted principals only.
Willing(signers, appointed) == signers \cap Trusted # {} => appointed \subseteq Trusted
\* The transaction that creates the pool account also initializes it, and the
\* creator signs it.
ByCreator(signers) == account_type = "Uninitialized" => signers \cap Trusted # {}

Init ==
  /\ account_type = "Uninitialized"
  /\ manager = NoKey /\ staker = NoKey /\ manager_fee_account = NoKey
  /\ stake_deposit_authority = NoKey /\ sol_deposit_authority = NoKey
  /\ sol_withdraw_authority = NoKey
  /\ last = [op |-> "none", signers |-> {}]

\* The staker that a trusted manager names at first may be anyone.
Transaction(signers) ==
  \/ \E new_manager, new_staker, fee_owner \in Principals,
        deposit_key \in Principals \cup {NoKey} :
       /\ ByCreator(signers)
       /\ Willing(signers, {new_manager, fee_owner, deposit_key} \ {NoKey})
       /\ Initialize(signers, new_manager, new_staker, fee_owner, deposit_key)
  \/ \E key, new_manager, fee_owner \in Principals :
       /\ Willing(signers, {new_manager, fee_owner})
       /\ SetManager(signers, key, new_manager, fee_owner)
  \/ \E key, new_staker \in Principals :
       /\ Willing(signers, {new_staker})
       /\ SetStaker(signers, key, new_staker)
  \/ \E key \in Principals, type \in FundingTypes, new \in Principals \cup {NoKey} :
       /\ Willing(signers, {new} \ {NoKey})
       /\ SetFundingAuthority(signers, key, type, new)
  \/ \E op \in ManagerOperations, key \in Principals : ManagerOperation(op, signers, key)
  \/ \E op \in StakerOperations, key \in Principals : StakerOperation(op, signers, key)
  \/ \E key \in Principals \cup {DepositPda} : DepositStake(signers, key)
  \/ \E key \in Principals \cup {NoKey} : DepositSol(signers, key)
  \/ \E key \in Principals \cup {NoKey} : WithdrawSol(signers, key)

Next == \E signers \in SUBSET Principals : Transaction(signers)

Spec == Init /\ [][Next]_vars
----------------------------------------------------------------------------
\* Types of the roles.
TypeOK ==
  /\ account_type \in {"Uninitialized", "StakePool"}
  /\ {manager, staker, manager_fee_account} \subseteq Principals \cup {NoKey}
  /\ stake_deposit_authority \in Principals \cup {DepositPda, NoKey}
  /\ {sol_deposit_authority, sol_withdraw_authority} \subseteq Principals \cup {NoKey}
  /\ last \in [op : Operations, signers : SUBSET Principals]

\* A pool created by a trusted manager never slips out of trusted hands,
\* whoever its staker is: manager, receiver of the fees and funding
\* authorities stay trusted (or open to all), through every chain of
\* appointments.
PoolStaysTrusted ==
  Valid =>
    /\ manager \in Trusted /\ manager_fee_account \in Trusted
    /\ stake_deposit_authority \in Trusted \cup {DepositPda}
    /\ {sol_deposit_authority, sol_withdraw_authority} \subseteq Trusted \cup {NoKey}

\* What only the manager may do happened with a trusted signature.
ManagerConsented ==
  last.op \in ManagerOperations \cup {"SetManager", "SetFundingAuthority"} =>
    last.signers \cap Trusted # {}

\* Once the staker is trusted it stays so, and what the staker does then is
\* signed by a trusted principal: the manager can take staking out of
\* untrusted hands for good.
TrustedStaking ==
  /\ staker' \in Trusted
  /\ last'.op \in StakerOperations => last'.signers \cap Trusted # {}
StakingStaysTrusted == [][Valid /\ staker \in Trusted => TrustedStaking]_vars

\* A pool with an authority for SOL deposits, or one for stake deposits, takes
\* no such deposit without a trusted signature; the same for SOL withdrawals.
Gated(op) ==
  \/ op = "DepositSol" /\ sol_deposit_authority # NoKey
  \/ op = "DepositStake" /\ stake_deposit_authority # DepositPda
  \/ op = "WithdrawSol" /\ sol_withdraw_authority # NoKey
GatesHold ==
  [][Gated(last'.op) => last'.signers \cap Trusted # {}]_vars
============================================================================
