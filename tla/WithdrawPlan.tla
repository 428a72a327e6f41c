---------------------------- MODULE WithdrawPlan ----------------------------
(***************************************************************************)
(* How the clients turn "withdraw this many pool tokens as stake" into     *)
(* WithdrawStake instructions (command_withdraw_stake of the CLI,          *)
(* withdrawStake of the JavaScript library). A client that is told neither *)
(* a validator nor to use the reserve goes through the pool's stake        *)
(* accounts, validators before transient accounts before the reserve, and  *)
(* takes what each can give, fee included, until the amount is reached.    *)
(* A step of the model is one round of that loop.                          *)
(***************************************************************************)
EXTENDS Integers, Sequences, FiniteSets, FiniteSetsExt, PoolMath

CONSTANTS
  Libraries,           \* "cli", "js"
  Rent,                \* rent exemption of a stake account
  MinDelegation,       \* per library, the minimum delegation it assumes
  MaxWithdrawAccounts, \* of the JavaScript library
  Validators,          \* sequences of entries to choose the list from
  Reserves,            \* balances of the reserve, without its rent
  Strays,              \* lamports at an address that is not the pool's
  Prices,              \* pairs <<l, t>>: l lamports are worth t tokens
  Fees,                \* stake withdrawal fees
  Requests             \* what users ask for

\* ValidatorStakeInfo, as far as the clients look at it (suffixed: it has a
\* validator seed suffix), and Fee. A vote account is the index of its entry,
\* a larger number if the pool does not have it, and None if there is none.
Entries == [active : Nat, transient : Nat, suffixed : BOOLEAN,
            status : {"Active", "DeactivatingTransient", "ReadyForRemoval",
                      "DeactivatingValidator", "DeactivatingAll"}]
WholeFees == {f \in [numerator : Nat, denominator : Nat] : f.numerator <= f.denominator}

\* The arguments. receiver is the vote account to which the stake account that
\* is to receive the stake is delegated; no_stake: it is no stake account.
None == 0
Arguments ==
  {r \in [library : Libraries, amount : Nat \ {0}, skip_fee : BOOLEAN, use_reserve : BOOLEAN,
          vote : Nat, receiver : Nat, no_stake : BOOLEAN] : r.no_stake => r.receiver = None}

ASSUME PlanAssumption ==
  /\ Libraries \subseteq {"cli", "js"}
  /\ Rent \in Nat /\ MinDelegation \in [Libraries -> Nat] /\ MaxWithdrawAccounts \in Nat
  /\ Validators \subseteq Seq(Entries)
  /\ Reserves \subseteq Nat /\ Strays \subseteq Nat
  /\ Prices \subseteq (Nat \ {0}) \X (Nat \ {0})
  /\ Fees \subseteq WholeFees
  /\ Requests \subseteq Arguments

VARIABLES
  pool,       \* the pool, the list and the reserve as the client has read them
  request,    \* what the user asks for
  accounts,   \* accounts still to be looked at
  plan,       \* withdraw_from
  remaining,  \* remaining_amount
  outcome,    \* "asked", "planning", "planned", "error", "panic", "sent"
  sent        \* the withdrawals of the transaction

vars == <<pool, request, accounts, plan, remaining, outcome, sent>>

Indices == DOMAIN pool.list
Library == request.library
MinBalance == Rent + MinDelegation[Library]
Withdrawal(account, amount) == [account |-> account, amount |-> amount]
Account(kind, i, lamports) == [id |-> <<kind, i>>, lamports |-> lamports]
\* The JavaScript library derives stake addresses without the suffix: with a
\* suffix, or for a vote account that is not in the list, that address is none
\* of the pool's.
Misderived(i) == Library = "js" /\ (i \in Indices => pool.list[i].suffixed)
AddressKind(i) == IF Misderived(i) THEN "stray" ELSE "validator"
ValidatorAccount(i) == Account(AddressKind(i), i, pool.list[i].active)
\* The minimum that a transient account has to keep is taken off first.
TransientAccount(i) ==
  Account("transient", i, IF pool.list[i].transient < MinBalance THEN 0
                          ELSE pool.list[i].transient - MinBalance)
ReserveAccount == Account("reserve", None, pool.reserve)
\* The JavaScript library leaves out validators that are being removed.
Listed(i) == Library = "cli" \/ pool.list[i].status = "Active"

Larger(lamports, i, j) ==
  \/ lamports[i] > lamports[j]
  \/ lamports[i] = lamports[j] /\ i < j
\* Mutant of Before: the preferred validator is nothing special.
BeforeByBalance(kind, lamports, i, j) == Larger(lamports, i, j)
\* sorted_accounts, and the sort of prepareWithdrawAccounts: the preferred
\* validator first (in the JavaScript library not for transient accounts),
\* then the largest. The sorts are stable.
Before(kind, lamports, i, j) ==
  LET preferred == IF Library = "js" /\ kind = "transient" THEN None ELSE pool.preferred
  IN i = preferred \/ (j # preferred /\ Larger(lamports, i, j))
Sorted(kind, account) ==
  LET chosen == {i \in Indices : Listed(i)}
      lamports == [i \in chosen |-> account[i].lamports]
      rank(i) == Cardinality({j \in chosen : j # i /\ Before(kind, lamports, j, i)}) + 1
  IN [k \in 1..Cardinality(chosen) |-> account[CHOOSE i \in chosen : rank(i) = k]]

\* Mutant of Takes: the reserve is never used.
TakesDelegated(a) == a.lamports > MinBalance /\ a.id[1] # "reserve"
\* Accounts that are passed over: too small ones, in the JavaScript library
\* only empty ones and small transient ones.
Takes(a) ==
  IF Library = "cli" \/ a.id[1] = "transient" THEN a.lamports > MinBalance
                                              ELSE a.lamports > 0

\* What an account gives in pool tokens, such that it is left with nothing
\* after the fee.
InverseFee == pool.fee.denominator - pool.fee.numerator
WithoutFee(a) == PoolTokensForDeposit(pool.total, pool.supply, a.lamports)
WithFee(a) == (WithoutFee(a) * pool.fee.denominator) \div InverseFee
\* Mutant of Available: the manager is thought to pay the fee, too.
AvailableWithFee(a) == IF InverseFee = 0 THEN WithoutFee(a) ELSE WithFee(a)
Available(a) == IF request.skip_fee \/ InverseFee = 0 THEN WithoutFee(a) ELSE WithFee(a)
\* The CLI divides by the inverse fee, whatever it is.
DividesByZero == Library = "cli" /\ ~request.skip_fee /\ InverseFee = 0

Part(a) == IF Available(a) < remaining THEN Available(a) ELSE remaining
----------------------------------------------------------------------------
\* The JavaScript library wants a receiver to be a stake account.
BadReceiver == Library = "js" /\ request.no_stake
RefuseReceiver ==
  /\ outcome = "asked" /\ BadReceiver
  /\ outcome' = "error"
  /\ UNCHANGED <<pool, request, accounts, plan, remaining, sent>>
Accepted == outcome = "asked" /\ ~BadReceiver

UseReserve ==
  /\ Accepted /\ request.use_reserve
  /\ plan' = <<Withdrawal(ReserveAccount.id, request.amount)>>
  /\ outcome' = "planned"
  /\ UNCHANGED <<pool, request, accounts, remaining, sent>>

\* The validator that the delegation of the receiver, or else the user, names.
Named == IF request.receiver # None THEN request.receiver ELSE request.vote
\* Both may name one. The JavaScript library compares objects, not keys: it
\* refuses the same vote account, too.
Mismatch ==
  /\ request.receiver # None /\ request.vote # None
  /\ Library = "js" \/ request.vote # request.receiver
\* The JavaScript library does not look up the vote account of the user.
Found(i) == i \in Indices \/ (Library = "js" /\ request.receiver = None)

\* The free lamports at the validator's address are put through the conversion
\* of tokens to lamports, to be compared with the tokens asked for. Nothing is
\* free if there is no account.
Held(i) == IF Misderived(i) THEN pool.stray ELSE pool.list[i].active
OneAccountHas(i) ==
  LET free == Held(i) - MinDelegation[Library] - Rent
  IN IF free < 0 THEN 0 ELSE LamportsForWithdrawal(pool.total, pool.supply, free)
UseValidator ==
  /\ Accepted /\ ~request.use_reserve /\ Named # None
  /\ IF ~Mismatch /\ Found(Named) /\ OneAccountHas(Named) >= request.amount
       THEN /\ plan' = <<Withdrawal(<<AddressKind(Named), Named>>, request.amount)>>
            /\ outcome' = "planned"
       ELSE plan' = plan /\ outcome' = "error"
  /\ UNCHANGED <<pool, request, accounts, remaining, sent>>

\* The JavaScript library refuses an empty list.
Prepare ==
  /\ Accepted /\ ~request.use_reserve /\ Named = None
  /\ IF Library = "js" /\ pool.list = <<>>
       THEN outcome' = "error" /\ UNCHANGED <<accounts, remaining>>
       ELSE /\ accounts' = Sorted("validator", [i \in Indices |-> ValidatorAccount(i)])
                             \o Sorted("transient", [i \in Indices |-> TransientAccount(i)])
                             \o <<ReserveAccount>>
            /\ remaining' = request.amount
            /\ outcome' = "planning"
  /\ UNCHANGED <<pool, request, plan, sent>>

Skip ==
  /\ outcome = "planning" /\ accounts # <<>>
  /\ \/ ~Takes(Head(accounts))
     \/ Library = "js" /\ Part(Head(accounts)) = 0
  /\ accounts' = Tail(accounts)
  /\ UNCHANGED <<pool, request, plan, remaining, outcome, sent>>

Take ==
  LET a == Head(accounts)
  IN /\ outcome = "planning" /\ accounts # <<>>
     /\ Takes(a) /\ ~DividesByZero
     /\ Library = "js" => Part(a) > 0
     /\ plan' = Append(plan, Withdrawal(a.id, Part(a)))
     /\ remaining' = remaining - Part(a)
     /\ accounts' = Tail(accounts)
     /\ outcome' = IF remaining' = 0 THEN "planned" ELSE "planning"
     /\ UNCHANGED <<pool, request, sent>>

Panic ==
  /\ outcome = "planning" /\ accounts # <<>>
  /\ Takes(Head(accounts)) /\ DividesByZero
  /\ outcome' = "panic"
  /\ UNCHANGED <<pool, request, accounts, plan, remaining, sent>>

\* "No stake accounts found in this pool with enough balance".
NotEnough ==
  /\ outcome = "planning" /\ accounts = <<>>
  /\ outcome' = "error"
  /\ UNCHANGED <<pool, request, accounts, plan, remaining, sent>>

\* One transaction with all withdrawals. The JavaScript library stops when its
\* counter, which starts at 0, is greater than MaxWithdrawAccounts.
Build ==
  /\ outcome = "planned"
  /\ sent' = IF Library = "js" /\ Len(plan) > MaxWithdrawAccounts + 1
               THEN SubSeq(plan, 1, MaxWithdrawAccounts + 1) ELSE plan
  /\ outcome' = "sent"
  /\ UNCHANGED <<pool, request, accounts, plan, remaining>>

\* An up-to-date pool: its total is what the list and the reserve hold.
PoolTotal(list, reserve) ==
  LET held == [i \in DOMAIN list |-> list[i].active + list[i].transient]
  IN reserve + MapThenSumSet(LAMBDA i : held[i], DOMAIN list)
\* The clients refuse an amount that the token account of the user does not hold.
Init ==
  /\ \E list \in Validators, price \in Prices, reserve \in Reserves, fee \in Fees :
       \E preferred \in DOMAIN list \cup {None}, stray \in Strays :
         pool = [list |-> list, total |-> PoolTotal(list, reserve),
                 supply |-> (PoolTotal(list, reserve) * price[2]) \div price[1],
                 reserve |-> reserve, fee |-> fee, preferred |-> preferred, stray |-> stray]
  /\ request \in Requests
  /\ request.amount <= pool.supply
  /\ accounts = <<>> /\ plan = <<>> /\ sent = <<>> /\ remaining = 0
  /\ outcome = "asked"

Next ==
  \/ RefuseReceiver \/ UseReserve \/ UseValidator \/ Prepare
  \/ Skip \/ Take \/ Panic \/ NotEnough \/ Build

Spec == Init /\ [][Next]_vars
----------------------------------------------------------------------------
(* Properties.                                                             *)

\* The accounts, at the addresses the client derives.
All == {ValidatorAccount(i) : i \in Indices} \cup {TransientAccount(i) : i \in Indices}
         \cup {ReserveAccount}
Searched == ~BadReceiver /\ ~request.use_reserve /\ Named = None
\* What the program pays for a withdrawal.
Lamports(amount) ==
  LET fee == IF request.skip_fee THEN 0 ELSE Apply(pool.fee, amount)
  IN LamportsForWithdrawal(pool.total, pool.supply, amount - fee)

\* Every withdrawal that the search plans is from an account that has, as the
\* list records it, the lamports to be paid, although the fee is taken off after
\* the amounts have been chosen. The address is the pool's, except where the
\* JavaScript library leaves out a suffix: there the program refuses.
NoOverdraw ==
  Searched => \A k \in DOMAIN plan :
    \E a \in All :
      /\ plan[k].account = a.id /\ Lamports(plan[k].amount) <= a.lamports
      /\ a.id[1] = "stray" => Library = "js" /\ pool.list[a.id[2]].suffixed

\* The program refuses to take stake from other validators as long as the
\* preferred one has some: the plan empties it before it turns to another
\* account, provided that its address is derived correctly.
PreferredFirst ==
  Searched /\ plan # <<>> /\ pool.preferred # None =>
    LET a == ValidatorAccount(pool.preferred)
    IN Listed(pool.preferred) /\ ~Misderived(pool.preferred)
         /\ a.lamports > MinBalance /\ Available(a) > 0 =>
           /\ plan[1].account = <<"validator", pool.preferred>>
           /\ Len(plan) > 1 => plan[1].amount = Available(a)

\* The search gives up only when the plan takes all there is from every account
\* that has more than the minimum. A named validator of the pool is turned down
\* only when the user's vote account contradicts the receiver, or when its free
\* lamports are worth less than the tokens asked for. That the check converts
\* the wrong way errs on the other side as long as a token is worth at least a
\* lamport. The JavaScript library turns down more: validators with a suffix,
\* a vote account given besides a delegated receiver, and receivers that are no
\* stake accounts.
GivesUpOnlyWhenEmpty ==
  /\ Searched /\ outcome = "error" /\ pool.list # <<>> =>
       \A a \in All :
         a.lamports > MinBalance /\ (a.id[1] = "reserve" \/ Listed(a.id[2])) =>
           Available(a) = 0 \/ \E k \in DOMAIN plan : plan[k] = Withdrawal(a.id, Available(a))
  /\ ~request.use_reserve /\ Named \in Indices /\ outcome = "error"
       /\ pool.supply <= pool.total =>
       \/ request.vote \notin {None, Named}
       \/ LamportsForWithdrawal(pool.total, pool.supply, request.amount)
            > pool.list[Named].active - MinBalance
       \/ /\ Library = "js"
          /\ \/ pool.list[Named].suffixed
             \/ None \notin {request.vote, request.receiver}
             \/ request.no_stake
============================================================================
