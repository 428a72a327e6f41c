---------------------------- MODULE MCListUpdate ----------------------------
(***************************************************************************)
(* Instances of ListUpdate.                                                *)
(***************************************************************************)
EXTENDS ListUpdate

\* The CLI's update command with --stale-only; an application that calls
\* updateStakePool of the JavaScript library, which sends every chunk, when an
\* update is needed.
Stale == [library |-> "rust", force |-> FALSE, stale_only |-> TRUE]
Js == [library |-> "js", force |-> FALSE, stale_only |-> FALSE]
StaleOrJs == {Stale, Js}
============================================================================
