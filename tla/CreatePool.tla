----------------------------- MODULE CreatePool -----------------------------
(***************************************************************************)
(* The create-pool command of the CLI (command_create_pool of main.rs) and *)
(* the Initialize instruction of the program.                              *)
(*                                                                         *)
(* A pool needs a reserve, a mint, the manager's fee account, a validator  *)
(* list and a pool account. The command sets them up with up to four       *)
(* transactions, each after a look at what exists already, so that it can  *)
(* be run again after a failure. Reads fail, transactions get lost, and a  *)
(* command may give up on one that lands later, during another run.        *)
(***************************************************************************)
EXTENDS Integers, FiniteSets

CONSTANTS
  MaxAttempts,  \* bound: times the command is run
  MaxFaults     \* bound: reads that fail, transactions lost or not confirmed in time

ASSUME CreateAssumption == MaxAttempts \in Nat \ {0} /\ MaxFaults \in Nat

\* Key pairs the operator may give; others are made anew by every run. Key 0
\* is the one given, key i the one made by run i. The fee account has an
\* address derived from the mint's.
KeyRoles == {"reserve", "mint", "list", "pool"}
Roles == KeyRoles \cup {"fee"}
Keys == 0..MaxAttempts
NoKey == -1

\* An account: absent, allocated with all zeros, or initialized. pool is the
\* pool whose authority controls it (a reserve or a mint), or that uses it (a
\* list); NoKey stands for somebody else. A pool account also names its parts.
Account == [state : {"absent", "blank", "initialized"}, pool : Keys \cup {NoKey}]
Absent == [state |-> "absent", pool |-> NoKey]
Blank == [state |-> "blank", pool |-> NoKey]
Foreign == [state |-> "initialized", pool |-> NoKey]
InitializedFor(p) == [state |-> "initialized", pool |-> p]

\* The transactions: one for each step, and the accounts it creates.
Steps == {"reserve", "mint", "fee", "pool"}
Tx == [step : Steps, attempt : 1..MaxAttempts, creates : SUBSET Roles]
NoTx == [step |-> "none"]

VARIABLES
  given,     \* the roles whose key pairs are given
  fees,      \* of the fees asked for: "fine", "refused" by the command or "too high"
  account,   \* the accounts, by role and key
  parts,     \* the keys of reserve, mint and list in each pool account
  attempt,   \* number of the run
  step,      \* what the command does next
  seen,      \* the pool account, as the command read it
  tx,        \* the transaction the command waits for
  late,      \* transactions that commands no longer wait for
  faults     \* number of failed reads and of transactions lost or late

chainVars == <<account, parts>>
vars == <<given, fees, chainVars, attempt, step, seen, tx, late, faults>>

\* The key of a role in run i.
Key(role, i) ==
  IF (IF role = "fee" THEN "mint" ELSE role) \in given THEN 0 ELSE i
At(role, i) == account[role][Key(role, i)]

\* What the operator may have prepared: an account of the right size, or, by
\* mistake, a reserve or a mint under another authority.
Prepared(role) ==
  IF role \in {"reserve", "mint"} THEN {Absent, Blank, Foreign} ELSE {Absent, Blank}

Init ==
  /\ given \in SUBSET KeyRoles
  /\ fees \in {"fine", "refused", "too high"}
  /\ \E prepared \in [KeyRoles -> {Absent, Blank, Foreign}] :
       /\ \A r \in KeyRoles :
            prepared[r] \in (IF r \in given THEN Prepared(r) ELSE {Absent})
       /\ account = [r \in Roles |-> [k \in Keys |->
                       IF k = 0 /\ r \in KeyRoles THEN prepared[r] ELSE Absent]]
  /\ parts = [k \in Keys |-> [r \in {"reserve", "mint", "list"} |-> NoKey]]
  /\ attempt = 0 /\ step = "failed" /\ seen = Absent
  /\ tx = NoTx /\ late = {} /\ faults = 0
----------------------------------------------------------------------------
(* The program, and the programs that create accounts.                     *)

\* A transaction finds the account it works on: one that it creates is
\* absent, any other is still blank.
CanSetUp(t, role) ==
  At(role, t.attempt).state = (IF role \in t.creates THEN "absent" ELSE "blank")

SetUp(t, role, value) ==
  account' = [account EXCEPT ![role][Key(role, t.attempt)] = value]

\* Mutants of what Initialize checks: the list; the authority of the reserve.
ListUnchecked(t) == TRUE
ReserveUnchecked(t) == At("reserve", t.attempt).state = "initialized"
\* "Provided validator list already in use" otherwise.
ListIsUnused(t) == CanSetUp(t, "list")
\* The reserve is initialized, with the withdraw authority of the pool.
ReserveIsPools(t) ==
  At("reserve", t.attempt) = InitializedFor(Key("pool", t.attempt))
MintIsPools(t) == At("mint", t.attempt) = InitializedFor(Key("pool", t.attempt))

\* Initialize accepts what it is given, after the creation of the list and
\* pool accounts that do not exist.
CanInitialize(t) ==
  /\ CanSetUp(t, "pool") /\ ListIsUnused(t)
  /\ fees = "fine"
  /\ MintIsPools(t)
  /\ At("fee", t.attempt).state = "initialized"
  /\ ReserveIsPools(t)

Initialize(t) ==
  LET p == Key("pool", t.attempt)
  IN /\ account' = [account EXCEPT !["pool"][p] = InitializedFor(p),
                                   !["list"][Key("list", t.attempt)] = InitializedFor(p)]
     /\ parts' = [parts EXCEPT ![p] = [r \in DOMAIN @ |-> Key(r, t.attempt)]]

CanExecute(t) ==
  CASE t.step \in {"reserve", "mint"} -> CanSetUp(t, t.step)
    [] t.step = "fee" -> CanSetUp(t, "fee") /\ At("mint", t.attempt).state = "initialized"
    [] t.step = "pool" -> CanInitialize(t)

Execute(t) ==
  /\ CanExecute(t)
  /\ CASE t.step \in {"reserve", "mint"} ->
            SetUp(t, t.step, InitializedFor(Key("pool", t.attempt))) /\ UNCHANGED parts
       [] t.step = "fee" -> SetUp(t, "fee", Foreign) /\ UNCHANGED parts
       [] t.step = "pool" -> Initialize(t)
----------------------------------------------------------------------------
(* The command.                                                            *)

\* The command is run (again). check_stake_pool_fees may end it at once.
Begin ==
  /\ step = "failed" /\ attempt < MaxAttempts
  /\ attempt' = attempt + 1
  /\ step' = IF fees = "refused" THEN "failed" ELSE "reserve"
  /\ UNCHANGED <<given, fees, chainVars, seen, tx, late, faults>>

Goto(next) == step' = next /\ UNCHANGED tx
Fail == Goto("failed")
Send(creates) ==
  /\ tx' = [step |-> step, attempt |-> attempt, creates |-> creates]
  /\ step' = "waiting"
Missing(a, role) == {r \in {role} : a.state = "absent"}

\* A read that fails is taken for an account that does not exist.
Read(role, failed) == IF failed THEN Absent ELSE At(role, attempt)
Reading(failed) ==
  /\ failed => faults < MaxFaults
  /\ faults' = IF failed THEN faults + 1 ELSE faults
  /\ UNCHANGED <<given, fees, chainVars, attempt, late>>

\* setup_reserve_stake_account: any initialized account will do.
SetUpReserve(failed) ==
  LET a == Read("reserve", failed)
  IN /\ step = "reserve"
     /\ IF a.state = "initialized" THEN Goto("mint") ELSE Send(Missing(a, "reserve"))
     /\ UNCHANGED seen /\ Reading(failed)

\* setup_mint_account: an initialized mint must have the pool's authority.
SetUpMint(failed) ==
  LET a == Read("mint", failed)
  IN /\ step = "mint"
     /\ IF a.state # "initialized" THEN Send(Missing(a, "mint"))
        ELSE IF a.pool = Key("pool", attempt) THEN Goto("fee")
        ELSE Fail
     /\ UNCHANGED seen /\ Reading(failed)

\* Mutant of FeeAccountExists: the account is not looked for.
FeeAccountUnknown(failed) == FALSE
\* It is looked for twice, and created when both looks fail.
FeeAccountExists(failed) == Read("fee", failed).state = "initialized"
\* setup_pool_fee_account.
SetUpFee(failed) ==
  /\ step = "fee"
  /\ IF FeeAccountExists(failed) THEN Goto("read_pool") ELSE Send({"fee"})
  /\ UNCHANGED seen /\ Reading(failed)

\* setup_and_initialize_validator_list_with_stake_pool reads the pool
\* account, then the list ...
ReadPool(failed) ==
  /\ step = "read_pool"
  /\ seen' = Read("pool", failed)
  /\ Goto("pool")
  /\ Reading(failed)

\* Mutant of AlreadySetUp: an account that exists is taken for an initialized one.
AlreadyThere(a) == a.state # "absent"
AlreadySetUp(a) == a.state = "initialized"
\* ... and returns Ok when one of them is initialized.
SetUpPool(failed) ==
  LET a == Read("list", failed)
  IN /\ step = "pool"
     /\ IF AlreadySetUp(a) \/ AlreadySetUp(seen) THEN Goto("done")
        ELSE Send(Missing(a, "list") \cup Missing(seen, "pool"))
     /\ seen' = Absent
     /\ Reading(failed)

After(s) ==
  CASE s = "reserve" -> "mint" [] s = "mint" -> "fee"
    [] s = "fee" -> "read_pool" [] s = "pool" -> "done"

\* The transaction lands and is confirmed.
Confirm ==
  /\ step = "waiting"
  /\ Execute(tx)
  /\ step' = After(tx.step) /\ tx' = NoTx
  /\ UNCHANGED <<given, fees, attempt, seen, late, faults>>

\* The simulation or the execution of the transaction fails.
Reject ==
  /\ step = "waiting"
  /\ ~CanExecute(tx)
  /\ step' = "failed" /\ tx' = NoTx
  /\ UNCHANGED <<given, fees, chainVars, attempt, seen, late, faults>>

\* No confirmation arrives in time; the transaction may still land.
GiveUp(lost) ==
  /\ step = "waiting" /\ faults < MaxFaults
  /\ faults' = faults + 1
  /\ late' = IF lost THEN late ELSE late \cup {tx}
  /\ step' = "failed" /\ tx' = NoTx
  /\ UNCHANGED <<given, fees, chainVars, attempt, seen>>

LandLate(t) ==
  /\ Execute(t)
  /\ late' = late \ {t}
  /\ UNCHANGED <<given, fees, attempt, step, seen, tx, faults>>

Command ==
  \E failed \in BOOLEAN :
    \/ SetUpReserve(failed) \/ SetUpMint(failed) \/ SetUpFee(failed)
    \/ ReadPool(failed) \/ SetUpPool(failed)

Next ==
  \/ Begin
  \/ Command
  \/ Confirm \/ Reject
  \/ \E lost \in BOOLEAN : GiveUp(lost)
  \/ \E t \in late : LandLate(t)

\* The operator runs the command until it succeeds, and a command goes on
\* until it ends. Late transactions need not land.
Spec == Init /\ [][Next]_vars /\ WF_vars(Begin \/ Command \/ Confirm \/ Reject)
----------------------------------------------------------------------------
Pools == {k \in Keys : account["pool"][k].state = "initialized"}

\* Every pool has a list of its own, and a reserve and a mint that its own
\* withdraw authority controls, whichever runs of the command set them up
\* and in whichever order their transactions arrived.
PoolsOwnTheirParts ==
  \A p \in Pools : \A r \in DOMAIN parts[p] : account[r][parts[p][r]] = InitializedFor(p)

\* An operator who gives any of the key pairs never ends up with two pools,
\* however often the command is run, however late its transactions land and
\* whatever it fails to read.
NoSecondPool == given # {} => Cardinality(Pools) <= 1

\* When the command says Ok and the pool's key pair was given, that pool
\* exists, with all the other accounts whose key pairs were given.
OkMeansCreated ==
  step = "done" /\ "pool" \in given =>
    0 \in Pools /\ \A r \in given \cap DOMAIN parts[0] : parts[0][r] = 0

\* A creation that failed half way can be completed by running the command
\* again: unless the fees or a prepared account are wrong, or a reserve or a
\* mint is given without the pool it is for, a pool exists in the end.
Resumable ==
  /\ fees = "fine"
  /\ \A r \in {"reserve", "mint"} : account[r][0] # Foreign
  /\ "pool" \in given \/ {"reserve", "mint"} \cap given = {}
CreationCompletes == attempt = 0 /\ Resumable ~> step = "done" /\ Pools # {}
============================================================================
