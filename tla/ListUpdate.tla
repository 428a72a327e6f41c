----------------------------- MODULE ListUpdate -----------------------------
(***************************************************************************)
(* How clients keep the validator list up to date. The list is an array:   *)
(* UpdateValidatorListBalance names a slice of it by its start index and   *)
(* brings a pair of account addresses for each entry. A client reads the   *)
(* pool, the epoch and the list, cuts the list into chunks, sends one      *)
(* transaction per chunk and a last one with UpdateStakePoolBalance and    *)
(* CleanupRemovedValidatorEntries. Until they land, others may add, drop   *)
(* or change entries, and transactions get lost.                           *)
(*                                                                         *)
(* What the update of one entry does to its stake accounts is the subject  *)
(* of StakePool; here it records the lamports of the validator stake       *)
(* account. Transient stake matters by its address only.                   *)
(***************************************************************************)
EXTENDS Integers, Sequences, FiniteSets

CONSTANTS
  Votes,          \* vote accounts
  Suffixes,       \* validator seed suffixes, NoSuffix among them
  NoSuffix,       \* the raw suffix 0, None
  Seeds,          \* transient seed suffixes
  FirstSeed,      \* the seed suffix of a new entry
  MaxValidators,  \* ValidatorListHeader::max_validators
  ChunkSize,      \* MAX_VALIDATORS_TO_UPDATE
  Clients,        \* programs that update the pool
  ModeChoices,    \* the libraries that clients use and how they are run
  MaxEpoch        \* bound on the epochs explored

\* The library a client uses and the flags it is run with. "rust" stands for
\* the CLI, and for the Python client, which always runs as with --force.
Modes == [library : {"rust", "js"}, force : BOOLEAN, stale_only : BOOLEAN]

ASSUME ListAssumption ==
  /\ NoSuffix \in Suffixes /\ FirstSeed \in Seeds
  /\ MaxValidators \in Nat \ {0} /\ ChunkSize \in Nat \ {0} /\ MaxEpoch \in Nat
  /\ ModeChoices \subseteq Modes

VARIABLES
  epoch,             \* Clock::epoch
  rewards_active,    \* EpochRewards::active
  last_update_epoch, \* StakePool::last_update_epoch
  list,              \* the validator list
  held,              \* lamports of each validator stake account, 0 when absent
  inflight,          \* update transactions sent and not landed
  client             \* the clients

chainVars == <<epoch, rewards_active, last_update_epoch, list, held>>
vars == <<chainVars, inflight, client>>

StakeAddresses == Votes \X Suffixes
TransientAddresses == Votes \X Seeds
Entry == [vote : Votes, suffix : Suffixes, seed : Seeds, lamports : Nat,
          last_update : Nat, status : {"Active", "ReadyForRemoval"}]
\* find_stake_program_address and find_transient_stake_program_address are
\* injective.
StakeAddress(e) == <<e.vote, e.suffix>>
TransientAddress(e) == <<e.vote, e.seed>>
Pair == [stake : StakeAddresses, transient : TransientAddresses]
\* The addresses that a client derives for an entry. The JavaScript library
\* leaves out the suffix of the stake address.
AddressPair(library, e) ==
  [stake |-> IF library = "js" THEN <<e.vote, NoSuffix>> ELSE StakeAddress(e),
   transient |-> TransientAddress(e)]
\* An UpdateValidatorListBalance instruction.
Slice == [start : Nat, pairs : Seq(Pair)]

\* Mutants of AllFresh: one entry is enough; the current epoch is too old.
SomeFresh == list = <<>> \/ \E i \in DOMAIN list : list[i].last_update >= epoch
AllFresher == \A i \in DOMAIN list : list[i].last_update > epoch
\* UpdateStakePoolBalance fails with StakeListOutOfDate otherwise.
AllFresh == \A i \in DOMAIN list : list[i].last_update >= epoch
UpToDate == last_update_epoch >= epoch
\* Mutant of Find: the same vote account may come with another suffix.
FindAddress(vote, suffix) == \E i \in DOMAIN list : StakeAddress(list[i]) = <<vote, suffix>>
Find(vote, suffix) == \E i \in DOMAIN list : list[i].vote = vote
----------------------------------------------------------------------------
(* The program.                                                            *)

\* AddValidatorToPool: the entry is pushed at the end.
AddValidatorToPool(vote, suffix) ==
  /\ UpToDate /\ ~rewards_active
  /\ Len(list) # MaxValidators
  /\ ~Find(vote, suffix)
  /\ held[<<vote, suffix>>] = 0
  /\ list' = Append(list, [vote |-> vote, suffix |-> suffix, seed |-> FirstSeed,
                           lamports |-> 1, last_update |-> epoch, status |-> "Active"])
  /\ held' = [held EXCEPT ![<<vote, suffix>>] = 1]
  /\ UNCHANGED <<epoch, rewards_active, last_update_epoch, inflight, client>>

\* IncreaseValidatorStake or DecreaseValidatorStake with another seed.
MoveStake(i, seed) ==
  /\ UpToDate /\ ~rewards_active
  /\ list[i].status = "Active"
  /\ list' = [list EXCEPT ![i].seed = seed]
  /\ UNCHANGED <<epoch, rewards_active, last_update_epoch, held, inflight, client>>

\* WithdrawStake of a whole validator stake account.
WithdrawWholeValidator(i) ==
  /\ UpToDate /\ ~rewards_active
  /\ list[i].status = "Active"
  /\ list[i].lamports = held[StakeAddress(list[i])]
  /\ list' = [list EXCEPT ![i].lamports = 0, ![i].status = "ReadyForRemoval"]
  /\ held' = [held EXCEPT ![StakeAddress(list[i])] = 0]
  /\ UNCHANGED <<epoch, rewards_active, last_update_epoch, inflight, client>>

\* Mutant of Matches: the validator stake account is not looked at.
MatchesTransient(e, pair) == pair.transient = TransientAddress(e)
\* check_validator_stake_address and check_transient_stake_address.
Matches(e, pair) ==
  pair.stake = StakeAddress(e) /\ pair.transient = TransientAddress(e)

\* UpdateValidatorListBalance fails on a slice that does not fit the list ...
Accepted(tx) == ~rewards_active /\ tx.start + Len(tx.pairs) <= Len(list)
\* ... and passes over the entries that the addresses do not belong to.
Updated(tx) ==
  [i \in DOMAIN list |->
     IF /\ i \in (tx.start + 1)..(tx.start + Len(tx.pairs))
        /\ Matches(list[i], tx.pairs[i - tx.start])
       THEN [list[i] EXCEPT !.lamports = held[tx.pairs[i - tx.start].stake],
                            !.last_update = epoch]
       ELSE list[i]]

\* BigVec::retain with !is_removed: the entries kept close ranks.
Kept == {i \in DOMAIN list : ~(list[i].status = "ReadyForRemoval" /\ list[i].lamports = 0)}
Nth(K, n) == CHOOSE i \in K : Cardinality(K \cap 1..i) = n
Retained == [n \in 1..Cardinality(Kept) |-> list[Nth(Kept, n)]]

\* These need no signature and may come from anyone: an update of one entry,
\* UpdateStakePoolBalance and CleanupRemovedValidatorEntries.
OthersUpdate(i) ==
  LET tx == [start |-> i - 1, pairs |-> <<AddressPair("rust", list[i])>>]
  IN /\ Accepted(tx)
     /\ list' = Updated(tx)
     /\ UNCHANGED <<epoch, rewards_active, last_update_epoch, held, inflight, client>>
UpdateStakePoolBalance ==
  /\ AllFresh
  /\ last_update_epoch' = epoch
  /\ UNCHANGED <<epoch, rewards_active, list, held, inflight, client>>
Cleanup ==
  /\ list' = Retained
  /\ UNCHANGED <<epoch, rewards_active, last_update_epoch, held, inflight, client>>
----------------------------------------------------------------------------
(* The clients.                                                            *)

\* slice::chunks, arrayChunk.
Chunks(entries) == (Len(entries) + ChunkSize - 1) \div ChunkSize
Chunk(entries, k) == SubSeq(entries, (k - 1) * ChunkSize + 1,
                                     IF k * ChunkSize < Len(entries) THEN k * ChunkSize
                                                                     ELSE Len(entries))
\* update_validator_list_balance_chunk.
SliceFor(library, entries, k) ==
  LET chunk == Chunk(entries, k)
  IN [start |-> (k - 1) * ChunkSize,
      pairs |-> [j \in DOMAIN chunk |-> AddressPair(library, chunk[j])]]

\* Mutant of StaleChunk: off by one.
StaleByTwo(chunk, now) == \E j \in DOMAIN chunk : chunk[j].last_update + 1 < now
\* update_stale_validator_list_balance_chunk returns an instruction.
StaleChunk(chunk, now) == \E j \in DOMAIN chunk : chunk[j].last_update < now

\* update_stake_pool; update_stale_stake_pool leaves out the chunks whose
\* entries are all of the epoch the client has read.
WantedChunks(mode, entries, now) ==
  {k \in 1..Chunks(entries) : mode.stale_only => StaleChunk(Chunk(entries, k), now)}
UpdateInstructions(mode, entries, now) ==
  LET wanted == WantedChunks(mode, entries, now)
  IN [n \in 1..Cardinality(wanted) |-> SliceFor(mode.library, entries, Nth(wanted, n))]

\* What identifies the entries: their addresses, in order.
Addresses(entries) == [i \in DOMAIN entries |-> AddressPair("rust", entries[i])]

\* A client is a program that uses one library. missed is a history: the
\* slices lost since the list was read.
Idle(library) ==
  [pc |-> "idle", seen |-> 0, now |-> 0, addresses |-> <<>>, todo |-> <<>>, missed |-> {},
   mode |-> [library |-> library, force |-> FALSE, stale_only |-> FALSE]]

\* The first of the three reads of command_update.
ReadPool(c, mode) ==
  /\ client[c].pc = "idle" /\ client[c].mode.library = mode.library
  /\ client' = [client EXCEPT ![c].pc = "epoch", ![c].seen = last_update_epoch,
                              ![c].mode = mode]
  /\ UNCHANGED <<chainVars, inflight>>

\* "Update not required" ends the command.
ReadEpoch(c) ==
  /\ client[c].pc = "epoch"
  /\ client' = [client EXCEPT ![c] =
       IF @.seen = epoch /\ ~@.mode.force THEN Idle(@.mode.library)
       ELSE [@ EXCEPT !.pc = "list", !.seen = 0, !.now = epoch]]
  /\ UNCHANGED <<chainVars, inflight>>

ReadList(c) ==
  LET todo == UpdateInstructions(client[c].mode, list, client[c].now)
  IN /\ client[c].pc = "list"
     /\ client' = [client EXCEPT ![c].pc = IF todo = <<>> THEN "final" ELSE "send",
                                 ![c].addresses = Addresses(list), ![c].todo = todo]
     /\ UNCHANGED <<chainVars, inflight>>

\* Any error ends the command.
Abort(c) ==
  /\ client' = [client EXCEPT ![c] = Idle(@.mode.library)]
  /\ UNCHANGED <<chainVars, inflight>>

\* All transactions but the last are sent without waiting, once they have
\* passed the simulation that precedes sending.
SendNoWait(c) ==
  /\ client[c].pc = "send" /\ Len(client[c].todo) > 1
  /\ IF Accepted(Head(client[c].todo))
       THEN /\ inflight' = inflight \cup {Head(client[c].todo)}
            /\ client' = [client EXCEPT ![c].todo = Tail(@),
                                        ![c].missed = @ \ {Head(client[c].todo).start}]
            /\ UNCHANGED chainVars
       ELSE Abort(c)

\* The last one is waited for.
LastConfirmed(c) ==
  /\ client[c].pc = "send" /\ Len(client[c].todo) = 1
  /\ Accepted(Head(client[c].todo))
  /\ list' = Updated(Head(client[c].todo))
  /\ client' = [client EXCEPT ![c].pc = "final", ![c].todo = <<>>]
  /\ UNCHANGED <<epoch, rewards_active, last_update_epoch, held, inflight>>

LastFailed(c) ==
  /\ client[c].pc = "send" /\ Len(client[c].todo) = 1
  /\ Abort(c)

\* UpdateStakePoolBalance and CleanupRemovedValidatorEntries, in one
\* transaction.
FinalConfirmed(c) ==
  /\ client[c].pc = "final"
  /\ AllFresh
  /\ last_update_epoch' = epoch
  /\ list' = Retained
  /\ client' = [client EXCEPT ![c] = Idle(@.mode.library)]
  /\ UNCHANGED <<epoch, rewards_active, held, inflight>>

FinalFailed(c) ==
  /\ client[c].pc = "final"
  /\ Abort(c)

\* A transaction in flight takes effect, fails, or is lost.
Land(tx) ==
  /\ Accepted(tx)
  /\ list' = Updated(tx)
  /\ inflight' = inflight \ {tx}
  /\ UNCHANGED <<epoch, rewards_active, last_update_epoch, held, client>>

Drop(tx) ==
  /\ inflight' = inflight \ {tx}
  /\ client' = [c \in Clients |->
       IF client[c].pc \in {"send", "final"}
         THEN [client[c] EXCEPT !.missed = @ \cup {tx.start}] ELSE client[c]]
  /\ UNCHANGED chainVars
----------------------------------------------------------------------------
NewEpoch ==
  /\ epoch < MaxEpoch /\ ~rewards_active
  /\ epoch' = epoch + 1
  /\ rewards_active' = TRUE
  /\ UNCHANGED <<last_update_epoch, list, held, inflight, client>>

\* The stake accounts in W earn a lamport each.
DistributeRewards(W) ==
  /\ rewards_active
  /\ rewards_active' = FALSE
  /\ held' = [a \in StakeAddresses |-> IF a \in W THEN held[a] + 1 ELSE held[a]]
  /\ UNCHANGED <<epoch, last_update_epoch, list, inflight, client>>

Init ==
  /\ epoch = 0 /\ last_update_epoch = 0 /\ rewards_active = FALSE
  /\ list = <<>>
  /\ held = [a \in StakeAddresses |-> 0]
  /\ inflight = {}
  /\ client \in [Clients -> {Idle(mode.library) : mode \in ModeChoices}]

Staked == {a \in StakeAddresses : held[a] > 0}

ClientStep(c) ==
  \/ \E mode \in ModeChoices : ReadPool(c, mode)
  \/ ReadEpoch(c) \/ ReadList(c) \/ SendNoWait(c) \/ LastConfirmed(c) \/ LastFailed(c)
  \/ FinalConfirmed(c) \/ FinalFailed(c)

Next ==
  \/ \E vote \in Votes, suffix \in Suffixes : AddValidatorToPool(vote, suffix)
  \/ \E i \in DOMAIN list :
       \/ OthersUpdate(i) \/ WithdrawWholeValidator(i)
       \/ \E seed \in Seeds \ {list[i].seed} : MoveStake(i, seed)
  \/ UpdateStakePoolBalance \/ Cleanup
  \/ \E c \in Clients : ClientStep(c)
  \/ \E tx \in inflight : Land(tx) \/ Drop(tx)
  \/ NewEpoch
  \/ \E W \in SUBSET Staked : DistributeRewards(W)

Spec == Init /\ [][Next]_vars
----------------------------------------------------------------------------
\* Types of the list, the transactions and the clients.
TypeOK ==
  /\ epoch \in Nat /\ last_update_epoch \in Nat /\ rewards_active \in BOOLEAN
  /\ list \in Seq(Entry)
  /\ held \in [StakeAddresses -> Nat]
  /\ inflight \subseteq Slice
  /\ client \in [Clients -> [pc : {"idle", "epoch", "list", "send", "final"},
                             seen : Nat, now : Nat, addresses : Seq(Pair),
                             todo : Seq(Slice), missed : SUBSET Nat, mode : Modes]]

\* An entry marked with this epoch records the lamports of its own validator
\* stake account: whatever moved in the list between the moment a client cut
\* it into slices and the moment a slice lands, no entry is given the balance
\* of another account, and none is marked without having been counted.
FreshMeansCounted ==
  \A i \in DOMAIN list :
    list[i].last_update = epoch => list[i].lamports = held[StakeAddress(list[i])]

\* A vote account has at most one entry, so that memcmp_pubkey finds the one
\* that is meant, however entries come, go and come back.
OneEntryPerVote ==
  \A i, j \in DOMAIN list : list[i].vote = list[j].vote => i = j

\* The pool is up to date only when each of its entries is: its total was
\* computed from counted entries.
UpToDateMeansFresh ==
  UpToDate => \A i \in DOMAIN list : list[i].last_update = epoch

\* The instructions for "fully updating a stake pool" do so: when the list
\* still is the one that was read, the last transaction finds every entry
\* updated, but for those of slices that are late or lost, and those with a
\* suffix when the client uses the JavaScript library.
CompleteUpdate ==
  \A c \in Clients :
    client[c].pc = "final" /\ client[c].now = epoch
      /\ client[c].addresses = Addresses(list)
        => \A i \in DOMAIN list :
             \/ list[i].last_update = epoch
             \/ client[c].mode.library = "js" /\ list[i].suffix # NoSuffix
             \/ \E start \in {tx.start : tx \in inflight} \cup client[c].missed :
                  i \in start + 1..start + ChunkSize
----------------------------------------------------------------------------
\* Clients are run again and again (the CLI does so before every other
\* command), rewards are paid out, and a transaction that is sent again and
\* again is not lost for ever.
Starts == {k * ChunkSize : k \in 0..(MaxValidators - 1)}
Fairness ==
  /\ WF_vars(\E W \in SUBSET Staked : DistributeRewards(W))
  /\ \A c \in Clients :
       /\ WF_vars(\/ \E mode \in ModeChoices : ReadPool(c, mode)
                  \/ ReadEpoch(c) \/ ReadList(c) \/ SendNoWait(c)
                  \/ LastFailed(c) \/ FinalFailed(c))
       /\ SF_vars(LastConfirmed(c))
       /\ SF_vars(FinalConfirmed(c))
  /\ \A k \in Starts : SF_vars(\E tx \in inflight : tx.start = k /\ Land(tx))

FairSpec == Spec /\ Fairness

\* An entry that none of the clients can update.
OutOfReach ==
  \E i \in DOMAIN list : \A c \in Clients :
    client[c].mode.library = "js" /\ list[i].suffix # NoSuffix

\* A pool that is out of date becomes up to date, however often transactions
\* are lost and the list shifts under the slices; updateStakePool of the
\* JavaScript library achieves it for pools without suffixes only.
PoolCatchesUp == ~UpToDate ~> UpToDate \/ OutOfReach
============================================================================
