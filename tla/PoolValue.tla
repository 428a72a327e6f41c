----------------------------- MODULE PoolValue -----------------------------
(***************************************************************************)
(* What a stake pool promises its token holders: T lamports are shared by  *)
(* S pool tokens, and no operation makes a token worth less.               *)
(*                                                                         *)
(* StakePool implements this specification, T being total_lamports and S   *)
(* pool_token_supply. A pool without tokens promises nothing.              *)
(***************************************************************************)
EXTENDS Integers

VARIABLES T, S

Init == T \in Nat /\ S = T

\* A token is worth T/S lamports; with tokens outstanding its worth does not
\* fall.
Fair == S > 0 => T * S' <= T' * S

\* Lamports come in and tokens are issued for them.
Deposit == T' > T /\ S' > S /\ Fair

\* Tokens are redeemed.
Withdraw == T' < T /\ S' < S /\ Fair

\* Rewards are recognised. The fee issued on them, less the tokens that
\* holders have burnt themselves, may change S either way.
Accrue == T' >= T /\ Fair

Next == T' \in Nat /\ S' \in Nat /\ (Deposit \/ Withdraw \/ Accrue)

Spec == Init /\ [][Next]_<<T, S>>
============================================================================
