------------------------- MODULE AuthoritiesProofs -------------------------
(***************************************************************************)
(* Proofs about Authorities, for any set of principals and any trusted     *)
(* subset of it.                                                           *)
(***************************************************************************)
EXTENDS Authorities, TLAPS

\* The types and PoolStaysTrusted are inductive together: whatever changes a
\* role needs the signature of the manager, who is trusted, and a trusted
\* signer appoints trusted principals only.
RolesInv == TypeOK /\ PoolStaysTrusted

\* A willing set of signers that includes a trusted one appoints trusted ones.
LEMMA TrustedAppointment ==
  ASSUME NEW signers, NEW appointed, Willing(signers, appointed),
         NEW key \in Trusted, key \in signers
  PROVE  appointed \subseteq Trusted
  BY DEF Willing

\* The pool account starts without roles.
LEMMA RolesInitially == Init => RolesInv
  BY AuthorityAssumption DEF Init, RolesInv, TypeOK, PoolStaysTrusted, Operations, Valid

\* Every transaction keeps the roles typed and trusted.
LEMMA RolesPreserved == RolesInv /\ [Next]_vars => RolesInv'
  <1> SUFFICES ASSUME RolesInv, [Next]_vars PROVE RolesInv'
    OBVIOUS
  <1> USE AuthorityAssumption DEF RolesInv, TypeOK, PoolStaysTrusted, Valid, Does, Operations
  <1>1. CASE UNCHANGED vars
    BY <1>1 DEF vars, roles, funding
  <1>2. ASSUME NEW signers \in SUBSET Principals, Transaction(signers)
        PROVE  RolesInv'
    <2>1. ASSUME NEW new_manager \in Principals, NEW new_staker \in Principals,
                 NEW fee_owner \in Principals, NEW deposit_key \in Principals \cup {NoKey},
                 ByCreator(signers),
                 Willing(signers, {new_manager, fee_owner, deposit_key} \ {NoKey}),
                 Initialize(signers, new_manager, new_staker, fee_owner, deposit_key)
          PROVE  RolesInv'
      <3>1. {new_manager, fee_owner, deposit_key} \ {NoKey} \subseteq Trusted
        BY <2>1 DEF ByCreator, Willing, Initialize, Unused
      <3>2. /\ new_manager \in Trusted /\ fee_owner \in Trusted
            /\ deposit_key \in Trusted \cup {NoKey}
        BY <3>1
      <3>3. last' \in [op : Operations, signers : SUBSET Principals]
        BY <2>1 DEF Initialize
      <3> QED
        BY <2>1, <3>2, <3>3 DEF Initialize, DepositAuthorities
    <2>2. ASSUME NEW key \in Principals, NEW new_manager \in Principals,
                 NEW fee_owner \in Principals,
                 Willing(signers, {new_manager, fee_owner}),
                 SetManager(signers, key, new_manager, fee_owner)
          PROVE  RolesInv'
      <3>1. {new_manager, fee_owner} \subseteq Trusted
        BY <2>2, TrustedAppointment DEF SetManager, CheckManager
      <3> QED
        BY <2>2, <3>1 DEF SetManager, funding
    <2>3. ASSUME NEW key \in Principals, NEW new_staker \in Principals,
                 SetStaker(signers, key, new_staker)
          PROVE  RolesInv'
      BY <2>3 DEF SetStaker, funding
    <2>4. ASSUME NEW key \in Principals, NEW type \in FundingTypes,
                 NEW new \in Principals \cup {NoKey},
                 Willing(signers, {new} \ {NoKey}),
                 SetFundingAuthority(signers, key, type, new)
          PROVE  RolesInv'
      <3>1. {new} \ {NoKey} \subseteq Trusted
        BY <2>4, TrustedAppointment DEF SetFundingAuthority, CheckManager
      <3>2. new \in Trusted \cup {NoKey}
        BY <3>1
      <3> QED
        BY <2>4, <3>2 DEF SetFundingAuthority, FundingTypes
    <2>5. ASSUME NEW op \in ManagerOperations, NEW key \in Principals,
                 ManagerOperation(op, signers, key)
          PROVE  RolesInv'
      BY <2>5 DEF ManagerOperation, roles, funding
    <2>6. ASSUME NEW op \in StakerOperations, NEW key \in Principals,
                 StakerOperation(op, signers, key)
          PROVE  RolesInv'
      BY <2>6 DEF StakerOperation, roles, funding
    <2>7. ASSUME NEW key, DepositStake(signers, key) \/ DepositSol(signers, key)
                            \/ WithdrawSol(signers, key)
          PROVE  RolesInv'
      BY <2>7 DEF DepositStake, DepositSol, WithdrawSol, roles, funding
    <2> QED
      BY <1>2, <2>1, <2>2, <2>3, <2>4, <2>5, <2>6, <2>7 DEF Transaction
  <1> QED
    BY <1>1, <1>2 DEF Next

\* The roles keep their types.
THEOREM RolesTypeCorrect == Spec => []TypeOK
  BY RolesInitially, RolesPreserved, PTL DEF Spec, RolesInv

\* Manager, receiver of the fees and funding authorities of a pool that a
\* trusted manager created stay trusted.
THEOREM TrustKept == Spec => []PoolStaysTrusted
  BY RolesInitially, RolesPreserved, PTL DEF Spec, RolesInv

\* The instructions reserved to the manager carry a trusted signature.
THEOREM ManagerConsent == Spec => []ManagerConsented
  <1> USE AuthorityAssumption
  <1>1. Init => ManagerConsented
    BY DEF Init, ManagerConsented, ManagerOperations
  <1>2. RolesInv /\ ManagerConsented /\ [Next]_vars => ManagerConsented'
    <2> SUFFICES ASSUME RolesInv, ManagerConsented, [Next]_vars PROVE ManagerConsented'
      OBVIOUS
    <2> USE DEF RolesInv, PoolStaysTrusted, Does, CheckManager, ManagerConsented
    <2>1. CASE UNCHANGED vars
      BY <2>1 DEF vars
    <2>2. ASSUME NEW signers \in SUBSET Principals, Transaction(signers)
          PROVE  ManagerConsented'
      <3>1. ASSUME NEW key \in Principals, Valid, CheckManager(key, signers),
                   NEW op, Does(op, signers)
            PROVE  ManagerConsented'
        BY <3>1
      <3>2. ASSUME NEW op, Does(op, signers),
                   op \notin ManagerOperations \cup {"SetManager", "SetFundingAuthority"}
            PROVE  ManagerConsented'
        BY <3>2
      <3> QED
        BY <2>2, <3>1, <3>2
           DEF Transaction, Initialize, SetManager, SetStaker, SetFundingAuthority,
               ManagerOperation, StakerOperation, DepositStake, DepositSol, WithdrawSol,
               ManagerOperations, StakerOperations
    <2> QED
      BY <2>1, <2>2 DEF Next
  <1> QED
    BY <1>1, <1>2, RolesInitially, RolesPreserved, PTL DEF Spec

\* Staking stays in trusted hands once it is there.
THEOREM StakingKept == Spec => StakingStaysTrusted
  <1> USE AuthorityAssumption
  <1>1. RolesInv /\ [Next]_vars => [Valid /\ staker \in Trusted => TrustedStaking]_vars
    <2> SUFFICES ASSUME RolesInv, NEW signers \in SUBSET Principals, Transaction(signers),
                        Valid, staker \in Trusted
                 PROVE  TrustedStaking
      BY DEF Next
    <2> USE DEF RolesInv, PoolStaysTrusted, TrustedStaking, Does
    <2>1. ASSUME NEW key \in Principals, NEW new_staker \in Principals,
                 Willing(signers, {new_staker}), SetStaker(signers, key, new_staker)
          PROVE  TrustedStaking
      <3>1. new_staker \in Trusted
        BY <2>1, TrustedAppointment DEF SetStaker, MaySetStaker, CheckStaker, CheckManager
      <3> QED
        BY <2>1, <3>1 DEF SetStaker, StakerOperations
    <2>2. ASSUME NEW key \in Principals, NEW op, StakerOperation(op, signers, key)
          PROVE  TrustedStaking
      BY <2>2 DEF StakerOperation, CheckStaker, roles
    <2>3. ASSUME NEW op, op \notin StakerOperations, Does(op, signers), UNCHANGED staker
          PROVE  TrustedStaking
      BY <2>3
    <2>4. ~ Unused
      BY DEF Unused, Valid
    <2> HIDE DEF TrustedStaking, Does, RolesInv
    <2> QED
      BY <2>1, <2>2, <2>3, <2>4
         DEF Transaction, Initialize, SetManager, SetFundingAuthority, ManagerOperation,
             DepositStake, DepositSol, WithdrawSol, roles, ManagerOperations, StakerOperations
  <1> QED
    BY <1>1, RolesInitially, RolesPreserved, PTL DEF Spec, StakingStaysTrusted

\* Deposits and withdrawals that have an authority carry a trusted signature.
THEOREM GatesKept == Spec => GatesHold
  <1> USE AuthorityAssumption
  <1> DEFINE Step == Gated(last'.op) => last'.signers \cap Trusted # {}
  <1>1. RolesInv /\ [Next]_vars => [Step]_vars
    <2> SUFFICES ASSUME RolesInv, NEW signers \in SUBSET Principals, Transaction(signers)
                 PROVE  Step
      BY DEF Next
    <2> USE DEF RolesInv, PoolStaysTrusted, Does, Gated
    <2>1. ASSUME NEW key, DepositStake(signers, key)
          PROVE  Step
      BY <2>1 DEF DepositStake, CheckStakeDeposit
    <2>2. ASSUME NEW key, DepositSol(signers, key)
          PROVE  Step
      BY <2>2 DEF DepositSol, CheckOptional
    <2>3. ASSUME NEW key, WithdrawSol(signers, key)
          PROVE  Step
      BY <2>3 DEF WithdrawSol, CheckOptional
    <2>4. ASSUME NEW op, Does(op, signers), op \notin {"DepositStake", "DepositSol", "WithdrawSol"}
          PROVE  Step
      BY <2>4
    <2> HIDE DEF Step, Does, RolesInv
    <2> QED
      BY <2>1, <2>2, <2>3, <2>4
         DEF Transaction, Initialize, SetManager, SetStaker, SetFundingAuthority,
             ManagerOperation, StakerOperation, ManagerOperations, StakerOperations
  <1> QED
    BY <1>1, RolesInitially, RolesPreserved, PTL DEF Spec, GatesHold
============================================================================
