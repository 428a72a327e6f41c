-------------------------- MODULE CreatePoolProofs --------------------------
(***************************************************************************)
(* Proofs about CreatePool: however the transactions of any number of runs *)
(* of create-pool are lost, delayed and reordered, every pool owns its     *)
(* parts, a given key pair rules out a second pool, and Ok means that the  *)
(* pool given exists.                                                      *)
(***************************************************************************)
EXTENDS CreatePool, FiniteSetTheorems, TLAPS

PartRoles == {"reserve", "mint", "list"}
CommandSteps == Steps \cup {"read_pool", "waiting", "failed", "done"}

\* Types. A run that has begun has a number, and waits for a transaction.
CreateTypes ==
  /\ given \subseteq KeyRoles
  /\ account \in [Roles -> [Keys -> Account]]
  /\ parts \in [Keys -> [PartRoles -> Keys \cup {NoKey}]]
  /\ attempt \in 0..MaxAttempts
  /\ step \in CommandSteps
  /\ step # "failed" => attempt \in 1..MaxAttempts
  /\ step = "waiting" => tx \in Tx
  /\ late \subseteq Tx
  /\ seen \in Account

\* The parts of a pool exist, are the pool's, and are the given ones where
\* a key pair was given.
PartsOwned ==
  \A p \in Pools : \A r \in PartRoles :
    /\ parts[p][r] \in Keys
    /\ account[r][parts[p][r]] = InitializedFor(p)
    /\ r \in given => parts[p][r] = 0

\* A given pool key pair is that of every pool.
PoolKeyUsed == "pool" \in given => Pools \subseteq {0}

\* Initialize writes a list and its pool together, so that a list in use is
\* in use by a pool that exists.
ListsUsedByPools ==
  \A k \in Keys :
    account["list"][k].state = "initialized" => account["list"][k].pool \in Pools

\* What the command concludes from: the pool account it has read, which may
\* have been read a while ago, and the end of its work.
OkFounded ==
  "pool" \in given /\ (seen.state = "initialized" \/ step = "done") => 0 \in Pools

CreateInv ==
  CreateTypes /\ PartsOwned /\ PoolKeyUsed /\ ListsUsedByPools /\ OkFounded
----------------------------------------------------------------------------
\* The keys of a run are keys.
LEMMA KeyType ==
  ASSUME NEW role, NEW i \in 1..MaxAttempts
  PROVE  Key(role, i) \in Keys
BY CreateAssumption DEF Key, Keys

LEMMA InitCreateInv == Init => CreateInv
<1> SUFFICES ASSUME Init PROVE CreateInv
  OBVIOUS
<1>1. PICK prepared \in [KeyRoles -> {Absent, Blank, Foreign}] :
        /\ \A r \in KeyRoles :
             prepared[r] \in (IF r \in given THEN Prepared(r) ELSE {Absent})
        /\ account = [r \in Roles |-> [k \in Keys |->
                        IF k = 0 /\ r \in KeyRoles THEN prepared[r] ELSE Absent]]
  BY DEF Init
<1>2. account \in [Roles -> [Keys -> Account]]
  BY <1>1 DEF Account, Absent, Blank, Foreign, Roles
<1>3. CreateTypes
  <2>1. parts \in [Keys -> [PartRoles -> Keys \cup {NoKey}]]
    BY DEF Init, PartRoles
  <2>2. attempt \in 0..MaxAttempts
    <3>1. attempt = 0
      BY DEF Init
    <3> QED
      BY ONLY <3>1, CreateAssumption
  <2>3. seen \in Account
    BY DEF Init, Absent, Account
  <2> QED
    BY <1>2, <2>1, <2>2, <2>3 DEF Init, CreateTypes, CommandSteps, Steps
<1>4. \A r \in {"pool", "list"} : \A k \in Keys : account[r][k].state # "initialized"
  BY <1>1 DEF Roles, KeyRoles, Prepared, Absent, Blank
<1>5. Pools = {}
  BY <1>4 DEF Pools
<1> QED
  BY <1>3, <1>4, <1>5
     DEF CreateInv, PartsOwned, PoolKeyUsed, ListsUsedByPools, OkFounded, Init, Absent
----------------------------------------------------------------------------
\* What a transaction may do to the accounts and the pools: those that were
\* initialized stay as they were, and Initialize makes the pool of its run.
ChainInv == PartsOwned /\ PoolKeyUsed /\ ListsUsedByPools

LEMMA ExecuteStep ==
  ASSUME CreateTypes, ChainInv, NEW t \in Tx, Execute(t), given' = given
  PROVE  /\ account' \in [Roles -> [Keys -> Account]]
         /\ parts' \in [Keys -> [PartRoles -> Keys \cup {NoKey}]]
         /\ ChainInv'
         /\ Pools \subseteq Pools'
         /\ t.step = "pool" => Key("pool", t.attempt) \in Pools'
<1> DEFINE p == Key("pool", t.attempt)
<1>t. t.step \in Steps /\ t.attempt \in 1..MaxAttempts
  BY DEF Tx
<1>k. \A role \in Roles : Key(role, t.attempt) \in Keys
  BY <1>t, KeyType
<1>p. p \in Keys
  BY <1>k DEF Roles, KeyRoles
<1>a. account \in [Roles -> [Keys -> Account]]
      /\ parts \in [Keys -> [PartRoles -> Keys \cup {NoKey}]]
  BY DEF CreateTypes
<1>i. InitializedFor(p) \in Account /\ Foreign \in Account
  BY <1>p DEF InitializedFor, Foreign, Account
<1>1. CASE t.step \in {"reserve", "mint"}
  <2> DEFINE r == t.step
             k == Key(r, t.attempt)
  <2>1. r \in Roles /\ r # "pool" /\ r # "list" /\ k \in Keys
    BY <1>1, <1>k DEF Roles, KeyRoles
  <2>2. /\ account[r][k].state # "initialized"
        /\ account' = [account EXCEPT ![r][k] = InitializedFor(p)]
        /\ parts' = parts
    BY <1>1, <1>t DEF Execute, CanExecute, CanSetUp, SetUp, At
  <2> HIDE DEF k, r
  <2>3. account' \in [Roles -> [Keys -> Account]]
    BY <1>a, <1>i, <2>1, <2>2
  <2>4. \A s \in Roles, j \in Keys : s # r \/ j # k => account'[s][j] = account[s][j]
    BY <1>a, <2>1, <2>2
  <2>5. Pools' = Pools
    BY <2>1, <2>4 DEF Pools, Roles, KeyRoles
  <2>6. PartsOwned'
    BY <2>1, <2>2, <2>4, <2>5 DEF ChainInv, PartsOwned, PartRoles, InitializedFor, Roles, KeyRoles
  <2>7. PoolKeyUsed' /\ ListsUsedByPools'
    BY <2>1, <2>4, <2>5 DEF ChainInv, PoolKeyUsed, ListsUsedByPools, Roles, KeyRoles
  <2> QED
    BY <1>1, <1>a, <2>2, <2>3, <2>5, <2>6, <2>7 DEF ChainInv, r
<1>2. CASE t.step = "fee"
  <2> DEFINE k == Key("fee", t.attempt)
  <2>1. k \in Keys
    BY <1>k DEF Roles
  <2>2. account' = [account EXCEPT !["fee"][k] = Foreign] /\ parts' = parts
    BY <1>2 DEF Execute, SetUp
  <2> HIDE DEF k
  <2>3. account' \in [Roles -> [Keys -> Account]]
    BY <1>a, <1>i, <2>1, <2>2
  <2>4. \A s \in KeyRoles : account'[s] = account[s]
    BY <1>a, <2>2 DEF Roles, KeyRoles
  <2>5. Pools' = Pools
    BY <2>4 DEF Pools, KeyRoles
  <2>6. ChainInv'
    BY <2>2, <2>4, <2>5
       DEF ChainInv, PartsOwned, PoolKeyUsed, ListsUsedByPools, PartRoles, KeyRoles
  <2> QED
    BY <1>2, <1>a, <2>2, <2>3, <2>5, <2>6
<1>3. CASE t.step = "pool"
  <2> DEFINE l == Key("list", t.attempt)
             new == [r \in PartRoles |-> Key(r, t.attempt)]
  <2>1. l \in Keys
    BY <1>k DEF Roles, KeyRoles
  <2>2. CanInitialize(t) /\ Initialize(t)
    BY <1>3 DEF Execute, CanExecute
  <2>3. /\ account["pool"][p].state # "initialized"
        /\ account["list"][l].state # "initialized"
        /\ account["mint"][Key("mint", t.attempt)] = InitializedFor(p)
        /\ account["reserve"][Key("reserve", t.attempt)] = InitializedFor(p)
    BY <2>2 DEF CanInitialize, CanSetUp, ListIsUnused, MintIsPools, ReserveIsPools, At
  <2>4. /\ account' = [account EXCEPT !["pool"][p] = InitializedFor(p),
                                      !["list"][l] = InitializedFor(p)]
        /\ parts' = [parts EXCEPT ![p] = new]
    BY <2>2, <1>a, <1>p DEF Initialize
  <2>5. new \in [PartRoles -> Keys]
    BY <1>k DEF PartRoles, Roles, KeyRoles
  <2>6. new["list"] = l /\ new["mint"] = Key("mint", t.attempt)
          /\ new["reserve"] = Key("reserve", t.attempt)
    BY DEF PartRoles
  <2>7. \A r \in PartRoles : r \in given => new[r] = 0
    BY DEF Key, PartRoles
  <2>8. "pool" \in given => p = 0
    BY DEF Key
  <2> HIDE DEF p, l, new
  <2>9. /\ account' \in [Roles -> [Keys -> Account]]
        /\ parts' \in [Keys -> [PartRoles -> Keys \cup {NoKey}]]
    BY <1>a, <1>i, <1>p, <2>1, <2>4, <2>5
  <2>10. /\ account'["pool"] = [account["pool"] EXCEPT ![p] = InitializedFor(p)]
         /\ account'["list"] = [account["list"] EXCEPT ![l] = InitializedFor(p)]
         /\ account'["mint"] = account["mint"]
         /\ account'["reserve"] = account["reserve"]
    BY <1>a, <2>4 DEF Roles, KeyRoles
  <2>11. account["pool"] \in [Keys -> Account] /\ account["list"] \in [Keys -> Account]
    BY <1>a DEF Roles, KeyRoles
  <2>12. Pools' = Pools \cup {p}
    BY <1>p, <2>10, <2>11 DEF Pools, InitializedFor
  <2>13. p \notin Pools
    BY <2>3 DEF Pools
  <2>14. PartsOwned'
    <3> SUFFICES ASSUME NEW q \in Pools', NEW r \in PartRoles
                 PROVE  /\ parts'[q][r] \in Keys
                        /\ account'[r][parts'[q][r]] = InitializedFor(q)
                        /\ r \in given => parts'[q][r] = 0
      BY DEF PartsOwned
    <3>1. CASE q = p
      <4>1. parts'[q] = new
        BY <3>1, <1>a, <1>p, <2>4
      <4>2. account'[r][new[r]] = InitializedFor(p)
        BY <2>1, <2>3, <2>6, <2>10, <2>11 DEF PartRoles
      <4> QED
        BY <3>1, <4>1, <4>2, <2>5, <2>7
    <3>2. CASE q # p
      <4>1. q \in Pools /\ q \in Keys
        BY <3>2, <2>12 DEF Pools
      <4>2. parts'[q] = parts[q]
        BY <3>2, <4>1, <1>a, <2>4
      <4>3. /\ parts[q][r] \in Keys
            /\ account[r][parts[q][r]] = InitializedFor(q)
            /\ r \in given => parts[q][r] = 0
        BY <4>1 DEF ChainInv, PartsOwned
      <4>4. account'[r][parts[q][r]] = account[r][parts[q][r]]
        BY <4>3, <2>3, <2>10, <2>11 DEF PartRoles, InitializedFor
      <4> QED
        BY <4>2, <4>3, <4>4
    <3> QED
      BY <3>1, <3>2
  <2>15. PoolKeyUsed'
    BY <2>8, <2>12 DEF ChainInv, PoolKeyUsed
  <2>16. ListsUsedByPools'
    BY <2>1, <2>10, <2>11, <2>12 DEF ChainInv, ListsUsedByPools, InitializedFor
  <2> QED
    BY <2>9, <2>12, <2>14, <2>15, <2>16 DEF ChainInv, p
<1> QED
  BY <1>t, <1>1, <1>2, <1>3 DEF Steps
----------------------------------------------------------------------------
\* A step of the command that leaves the chain alone.
LEMMA QuietStep ==
  ASSUME ChainInv, UNCHANGED <<given, chainVars>>
  PROVE  ChainInv' /\ Pools' = Pools
<1>1. Pools' = Pools
  BY DEF Pools, chainVars
<1> QED
  BY <1>1 DEF ChainInv, PartsOwned, PoolKeyUsed, ListsUsedByPools, chainVars

\* What a read returns is an account; one that looks initialized is.
LEMMA ReadType ==
  ASSUME CreateTypes, NEW role \in Roles, NEW failed \in BOOLEAN,
         attempt \in 1..MaxAttempts
  PROVE  /\ Read(role, failed) \in Account
         /\ Read(role, failed).state = "initialized" =>
              Read(role, failed) = account[role][Key(role, attempt)]
<1>1. Key(role, attempt) \in Keys
  BY KeyType
<1>2. account[role][Key(role, attempt)] \in Account
  BY <1>1 DEF CreateTypes
<1>3. Absent \in Account /\ Absent.state # "initialized"
  BY DEF Absent, Account
<1> QED
  BY <1>2, <1>3 DEF Read, At

\* A transaction of the current run is one.
LEMMA SendType ==
  ASSUME CreateTypes, step \in Steps, NEW creates \in SUBSET Roles, Send(creates)
  PROVE  tx' \in Tx /\ step' = "waiting"
<1>1. attempt \in 1..MaxAttempts
  BY DEF CreateTypes, Steps
<1> QED
  BY <1>1 DEF Send, Tx

\* The three steps that set up the reserve, the mint and the fee account end
\* in another step of the command, or wait for a transaction.
LEMMA SetUpStep ==
  ASSUME CreateInv, UNCHANGED <<given, chainVars, attempt, late, seen>>,
         attempt \in 1..MaxAttempts,
         step' \in CommandSteps \ {"done"},
         step' = "waiting" => tx' \in Tx
  PROVE  CreateInv'
<1>1. ChainInv' /\ Pools' = Pools
  BY QuietStep DEF CreateInv, ChainInv
<1>2. CreateTypes'
  BY DEF CreateInv, CreateTypes, chainVars
<1>3. OkFounded'
  BY <1>1 DEF CreateInv, OkFounded
<1> QED
  BY <1>1, <1>2, <1>3 DEF CreateInv, ChainInv

LEMMA CommandStep ==
  ASSUME CreateInv, NEW failed \in BOOLEAN,
         \/ SetUpReserve(failed) \/ SetUpMint(failed) \/ SetUpFee(failed)
         \/ ReadPool(failed) \/ SetUpPool(failed)
  PROVE  CreateInv'
<1>t. CreateTypes
  BY DEF CreateInv
<1>a. attempt \in 1..MaxAttempts
  BY DEF CreateInv, CreateTypes, SetUpReserve, SetUpMint, SetUpFee, ReadPool, SetUpPool
<1>m. \A role \in Roles : \A a : Missing(a, role) \in SUBSET Roles
  BY DEF Missing
<1>1. CASE SetUpReserve(failed)
  <2>1. UNCHANGED <<given, chainVars, attempt, late, seen>>
    BY <1>1 DEF SetUpReserve, Reading
  <2>2. \/ step' = "mint"
        \/ \E a : Send(Missing(a, "reserve"))
    BY <1>1 DEF SetUpReserve, Goto
  <2>3. step \in Steps
    BY <1>1 DEF SetUpReserve, Steps
  <2>4. step' = "mint" \/ (step' = "waiting" /\ tx' \in Tx)
    BY <2>2, <2>3, <1>t, <1>m, SendType DEF Roles, KeyRoles
  <2> QED
    BY <1>a, <2>1, <2>4, SetUpStep DEF CommandSteps, Steps
<1>2. CASE SetUpMint(failed)
  <2>1. UNCHANGED <<given, chainVars, attempt, late, seen>>
    BY <1>2 DEF SetUpMint, Reading
  <2>2. \/ step' \in {"fee", "failed"}
        \/ \E a : Send(Missing(a, "mint"))
    BY <1>2 DEF SetUpMint, Goto, Fail
  <2>3. step \in Steps
    BY <1>2 DEF SetUpMint, Steps
  <2>4. step' \in {"fee", "failed"} \/ (step' = "waiting" /\ tx' \in Tx)
    BY <2>2, <2>3, <1>t, <1>m, SendType DEF Roles, KeyRoles
  <2> QED
    BY <1>a, <2>1, <2>4, SetUpStep DEF CommandSteps, Steps
<1>3. CASE SetUpFee(failed)
  <2>1. UNCHANGED <<given, chainVars, attempt, late, seen>>
    BY <1>3 DEF SetUpFee, Reading
  <2>2. step' = "read_pool" \/ Send({"fee"})
    BY <1>3 DEF SetUpFee, Goto
  <2>3. step \in Steps
    BY <1>3 DEF SetUpFee, Steps
  <2>4. step' = "read_pool" \/ (step' = "waiting" /\ tx' \in Tx)
    BY <2>2, <2>3, <1>t, SendType DEF Roles
  <2> QED
    BY <1>a, <2>1, <2>4, SetUpStep DEF CommandSteps, Steps
<1>4. CASE ReadPool(failed)
  <2>1. UNCHANGED <<given, chainVars, attempt, late>> /\ step' = "pool"
    BY <1>4 DEF ReadPool, Reading, Goto
  <2>2. ChainInv' /\ Pools' = Pools
    BY <2>1, QuietStep DEF CreateInv, ChainInv
  <2>3. /\ seen' \in Account
        /\ seen'.state = "initialized" => seen' = account["pool"][Key("pool", attempt)]
    BY <1>4, <1>t, <1>a, ReadType DEF ReadPool, Roles, KeyRoles
  <2>4. "pool" \in given /\ seen'.state = "initialized" => 0 \in Pools
    BY <2>3, <1>a, KeyType DEF Key, Pools
  <2>5. CreateTypes'
    BY <1>a, <2>1, <2>3, <1>t DEF CreateTypes, chainVars, CommandSteps, Steps
  <2>6. OkFounded'
    BY <2>1, <2>2, <2>4 DEF OkFounded
  <2> QED
    BY <2>2, <2>5, <2>6 DEF CreateInv, ChainInv
<1>5. CASE SetUpPool(failed)
  <2> DEFINE a == Read("list", failed)
  <2>1. UNCHANGED <<given, chainVars, attempt, late>> /\ seen' = Absent
    BY <1>5 DEF SetUpPool, Reading
  <2>2. \/ step' = "done" /\ (a.state = "initialized" \/ seen.state = "initialized")
        \/ Send(Missing(a, "list") \cup Missing(seen, "pool"))
    BY <1>5 DEF SetUpPool, Goto, AlreadySetUp
  <2>3. step \in Steps
    BY <1>5 DEF SetUpPool, Steps
  <2>4. Missing(a, "list") \cup Missing(seen, "pool") \in SUBSET Roles
    BY DEF Missing, Roles, KeyRoles
  <2>5. step' = "done" \/ (step' = "waiting" /\ tx' \in Tx)
    BY <2>2, <2>3, <2>4, <1>t, SendType
  <2>6. a.state = "initialized" /\ "pool" \in given => 0 \in Pools
    <3> SUFFICES ASSUME a.state = "initialized", "pool" \in given PROVE 0 \in Pools
      OBVIOUS
    <3>1. a = account["list"][Key("list", attempt)]
      BY <1>t, <1>a, ReadType DEF Roles, KeyRoles
    <3>2. a.pool \in Pools
      BY <3>1, <1>a, KeyType DEF CreateInv, ListsUsedByPools
    <3> QED
      BY <3>2 DEF CreateInv, PoolKeyUsed
  <2>7. step' = "done" /\ "pool" \in given => 0 \in Pools
    <3>1. seen.state = "initialized" /\ "pool" \in given => 0 \in Pools
      BY DEF CreateInv, OkFounded
    <3> QED
      BY <2>2, <2>6, <3>1 DEF Send
  <2>8. ChainInv' /\ Pools' = Pools
    BY <2>1, QuietStep DEF CreateInv, ChainInv
  <2>9. Absent \in Account /\ Absent.state # "initialized"
    BY DEF Absent, Account
  <2>10. CreateTypes'
    BY <1>a, <2>1, <2>5, <2>9, <1>t DEF CreateTypes, chainVars, CommandSteps, Steps
  <2>11. OkFounded'
    BY <2>1, <2>7, <2>8, <2>9 DEF OkFounded
  <2> QED
    BY <2>8, <2>10, <2>11 DEF CreateInv, ChainInv
<1> QED
  BY <1>1, <1>2, <1>3, <1>4, <1>5

LEMMA ConfirmStep == CreateInv /\ Confirm => CreateInv'
<1> SUFFICES ASSUME CreateInv, Confirm PROVE CreateInv'
  OBVIOUS
<1>1. /\ CreateTypes /\ ChainInv
      /\ tx \in Tx /\ attempt \in 1..MaxAttempts
      /\ Execute(tx)
      /\ UNCHANGED <<given, attempt, seen, late>>
      /\ step' = After(tx.step)
  BY DEF CreateInv, ChainInv, CreateTypes, Confirm
<1>2. /\ account' \in [Roles -> [Keys -> Account]]
      /\ parts' \in [Keys -> [PartRoles -> Keys \cup {NoKey}]]
      /\ ChainInv'
      /\ Pools \subseteq Pools'
      /\ tx.step = "pool" => Key("pool", tx.attempt) \in Pools'
  BY <1>1, ExecuteStep
<1>3. tx.step \in Steps
  BY <1>1 DEF Tx
<1>4. /\ step' \in {"mint", "fee", "read_pool", "done"}
      /\ step' = "done" => tx.step = "pool"
  BY <1>1, <1>3 DEF After, Steps
<1>5. CreateTypes'
  BY <1>1, <1>2, <1>4 DEF CreateTypes, CommandSteps, Steps
<1>6. OkFounded'
  BY <1>1, <1>2, <1>4 DEF CreateInv, OkFounded, Key
<1> QED
  BY <1>2, <1>5, <1>6 DEF CreateInv, ChainInv

LEMMA LandLateStep ==
  ASSUME CreateInv, NEW t \in late, LandLate(t)
  PROVE  CreateInv'
<1>1. /\ CreateTypes /\ ChainInv
      /\ t \in Tx
      /\ Execute(t)
      /\ UNCHANGED <<given, attempt, step, seen, tx>>
      /\ late' \subseteq late
  BY DEF CreateInv, ChainInv, CreateTypes, LandLate
<1>2. /\ account' \in [Roles -> [Keys -> Account]]
      /\ parts' \in [Keys -> [PartRoles -> Keys \cup {NoKey}]]
      /\ ChainInv'
      /\ Pools \subseteq Pools'
  BY <1>1, ExecuteStep
<1>3. CreateTypes'
  BY <1>1, <1>2 DEF CreateTypes
<1>4. OkFounded'
  BY <1>1, <1>2 DEF CreateInv, OkFounded
<1> QED
  BY <1>2, <1>3, <1>4 DEF CreateInv, ChainInv

\* Every step keeps the invariant.
LEMMA NextCreateInv == CreateInv /\ [Next]_vars => CreateInv'
<1> SUFFICES ASSUME CreateInv, [Next]_vars PROVE CreateInv'
  OBVIOUS
<1>1. CASE Begin
  <2>1. /\ UNCHANGED <<given, chainVars, seen, late>>
        /\ attempt' \in 1..MaxAttempts
        /\ step' \in {"failed", "reserve"}
    BY <1>1, CreateAssumption DEF Begin, CreateInv, CreateTypes
  <2>2. ChainInv' /\ Pools' = Pools
    BY <2>1, QuietStep DEF CreateInv, ChainInv
  <2>3. CreateTypes'
    BY <2>1, CreateAssumption DEF CreateInv, CreateTypes, chainVars, CommandSteps, Steps
  <2>4. OkFounded'
    BY <2>1, <2>2 DEF CreateInv, OkFounded
  <2> QED
    BY <2>2, <2>3, <2>4 DEF CreateInv, ChainInv
<1>2. CASE Command
  BY <1>2, CommandStep DEF Command
<1>3. CASE Confirm
  BY <1>3, ConfirmStep
<1>4. CASE Reject
  <2>1. UNCHANGED <<given, chainVars, attempt, late, seen>> /\ step' = "failed"
    BY <1>4 DEF Reject
  <2>2. attempt \in 1..MaxAttempts
    BY <1>4 DEF Reject, CreateInv, CreateTypes
  <2> QED
    BY <2>1, <2>2, SetUpStep DEF CommandSteps
<1>5. CASE \E lost \in BOOLEAN : GiveUp(lost)
  <2>1. /\ UNCHANGED <<given, chainVars, attempt, seen>> /\ step' = "failed"
        /\ late' \subseteq late \cup {tx} /\ tx \in Tx
    BY <1>5 DEF GiveUp, CreateInv, CreateTypes
  <2>2. ChainInv' /\ Pools' = Pools
    BY <2>1, QuietStep DEF CreateInv, ChainInv
  <2>3. CreateTypes'
    BY <2>1 DEF CreateInv, CreateTypes, chainVars, CommandSteps
  <2>4. OkFounded'
    BY <2>1, <2>2 DEF CreateInv, OkFounded
  <2> QED
    BY <2>2, <2>3, <2>4 DEF CreateInv, ChainInv
<1>6. CASE \E t \in late : LandLate(t)
  BY <1>6, LandLateStep
<1>7. CASE UNCHANGED vars
  <2>1. UNCHANGED <<given, chainVars, attempt, step, late, seen, tx>>
    BY <1>7 DEF vars
  <2>2. ChainInv' /\ Pools' = Pools
    BY <2>1, QuietStep DEF CreateInv, ChainInv
  <2> QED
    BY <2>1, <2>2 DEF CreateInv, CreateTypes, ChainInv, OkFounded, chainVars
<1> QED
  BY <1>1, <1>2, <1>3, <1>4, <1>5, <1>6, <1>7 DEF Next

\* The inductive invariant holds throughout.
THEOREM CreateInvariant == Spec => []CreateInv
BY InitCreateInv, NextCreateInv, PTL DEF Spec
----------------------------------------------------------------------------
\* However many runs of create-pool set up the parts of a pool, and in
\* whichever order their transactions land, the pool that Initialize writes
\* has a list of its own and controls its reserve and its mint, and no later
\* transaction takes them away.
THEOREM PartsStayOwned == Spec => []PoolsOwnTheirParts
<1>1. CreateInv => PoolsOwnTheirParts
  <2> SUFFICES ASSUME CreateInv, NEW p \in Pools, NEW r \in DOMAIN parts[p]
               PROVE  account[r][parts[p][r]] = InitializedFor(p)
    BY DEF PoolsOwnTheirParts
  <2>1. r \in PartRoles
    BY DEF CreateInv, CreateTypes, Pools
  <2> QED
    BY <2>1 DEF CreateInv, PartsOwned
<1> QED
  BY <1>1, CreateInvariant, PTL

\* Whichever key pair the operator gives, at most one pool comes of any
\* number of runs of create-pool: a given pool key is everybody's, a given
\* list is used by one pool, and a given reserve or mint has one authority.
THEOREM AtMostOnePool == Spec => []NoSecondPool
<1>1. CreateInv => NoSecondPool
  <2> SUFFICES ASSUME CreateInv, given # {} PROVE Cardinality(Pools) <= 1
    BY DEF NoSecondPool
  <2>1. PICK r \in given : r \in KeyRoles
    BY DEF CreateInv, CreateTypes
  <2>2. ASSUME NEW p \in Pools, NEW q \in Pools PROVE p = q
    <3>1. CASE r = "pool"
      BY <3>1, <2>2 DEF CreateInv, PoolKeyUsed
    <3>2. CASE r \in PartRoles
      <4>1. account[r][0] = InitializedFor(p) /\ account[r][0] = InitializedFor(q)
        BY <3>2, <2>2 DEF CreateInv, PartsOwned
      <4> QED
        BY <4>1 DEF InitializedFor
    <3> QED
      BY <2>1, <3>1, <3>2 DEF KeyRoles, PartRoles
  <2>3. CASE Pools = {}
    BY <2>3, FS_EmptySet
  <2>4. CASE \E p : p \in Pools
    <3>1. PICK p : p \in Pools
      BY <2>4
    <3>2. Pools = {p}
      BY <2>2, <3>1
    <3>3. Cardinality({p}) = 1
      BY FS_Singleton
    <3> QED
      BY <3>2, <3>3
  <2> QED
    BY <2>3, <2>4
<1> QED
  BY <1>1, CreateInvariant, PTL

\* When create-pool ends with Ok, from the answer to its own transaction or
\* from accounts it found initialized, the pool whose key pair was given is
\* there with every part whose key pair was given.
THEOREM OkIsFounded == Spec => []OkMeansCreated
<1>1. CreateInv => OkMeansCreated
  <2> SUFFICES ASSUME CreateInv, step = "done", "pool" \in given
               PROVE  0 \in Pools
                      /\ \A r \in given \cap DOMAIN parts[0] : parts[0][r] = 0
    BY DEF OkMeansCreated
  <2>1. 0 \in Pools
    BY DEF CreateInv, OkFounded
  <2>2. DOMAIN parts[0] = PartRoles
    BY <2>1 DEF CreateInv, CreateTypes, Pools
  <2> QED
    BY <2>1, <2>2 DEF CreateInv, PartsOwned
<1> QED
  BY <1>1, CreateInvariant, PTL
=============================================================================
