--------------------------- MODULE ChainSnapshots ---------------------------
(***************************************************************************)
(* evm_snapshot, evm_revert, the --state file and the filters of           *)
(* src/src/state/mod.rs.  A snapshot is a clone of the whole chain and a   *)
(* revert assigns it back, so everything a client holds an id for (blocks, *)
(* transaction ids, filters and their cursors) moves with it; the file is  *)
(* the same clone written at shutdown, snapshots included, without the     *)
(* index of records, which is rebuilt when the file is read.               *)
(*                                                                         *)
(* The chain here is what the clients of these operations can tell apart:  *)
(* blocks are tokens, a new one for each block ever mined, so that a block *)
(* mined again after a revert is another block; a record is its            *)
(* transaction id; every block holds one log.                              *)
(***************************************************************************)
EXTENDS Integers, Sequences, FiniteSets

CONSTANTS
    TxIds,         \* HAPI transaction ids
    MaxAhead,      \* how far beyond the head an eth_newFilter may start
    Tos,           \* last blocks of log filters
    MaxMined,      \* bound: blocks mined
    MaxSnapshots,  \* bound: snapshots taken
    MaxFilters,    \* bound: filter ids
    MaxFilings     \* bound: filters installed

ASSUME SnapshotAssumption ==
    /\ MaxAhead \in Nat
    /\ Tos \subseteq Nat
    /\ MaxMined \in Nat /\ MaxSnapshots \in Nat /\ MaxFilters \in Nat /\ MaxFilings \in Nat

VARIABLES
    chain,          \* the fields of Chain a snapshot copies
    snapshots,      \* snapshot id -> chain
    next_snapshot,  \* next snapshot id
    up,             \* whether the node is running
    file,           \* the --state file: what it holds, or NoFile
    mined,          \* auxiliary: blocks mined so far, the next block's token
    filed,          \* auxiliary: filters installed so far, the last one's owner
    reported,       \* auxiliary: owner -> blocks the polls of its filter returned
    dropped         \* auxiliary: filter ids evm_revert took away

vars == <<chain, snapshots, next_snapshot, up, file, mined, filed, reported, dropped>>

NoFile == [file |-> FALSE]

(* The head's number: block 0 is genesis. *)
block_number(c) == Len(c.blocks) - 1
block_by_number(c, n) == c.blocks[n + 1]

(* Chain::genesis. *)
Genesis == [blocks |-> << 0 >>, records |-> << >>, hapi_by_id |-> << >>,
            filters |-> << >>, next_filter |-> 0]

(* Mutant: the index is left as it was read. *)
ReindexedNot(c) == c

(* hapi_by_id rebuilt from the records. *)
Reindexed(c) ==
    [c EXCEPT !.hapi_by_id =
        [t \in {c.records[i] : i \in DOMAIN c.records} |->
            CHOOSE i \in DOMAIN c.records :
                c.records[i] = t /\ \A j \in DOMAIN c.records : c.records[j] = t => j <= i]]

(* Mutant: reindex does not go into the snapshots. *)
ReindexedSnapshotsNot(snaps) == snaps

ReindexedSnapshots(snaps) == [k \in DOMAIN snaps |-> Reindexed(snaps[k])]

(* What serde writes: hapi_by_id is skipped, so it reads back empty. *)
Unindexed(c) == [c EXCEPT !.hapi_by_id = << >>]

Init ==
    /\ chain = Genesis
    /\ snapshots = << >>
    /\ next_snapshot = 0
    /\ up = TRUE
    /\ file = NoFile
    /\ mined = 0
    /\ filed = 0
    /\ reported = [owner \in 1 .. MaxFilings |-> {}]
    /\ dropped = {}

(* A transaction, evm_mine or the interval miner seals a block. *)
Mine ==
    /\ up
    /\ mined < MaxMined
    /\ mined' = mined + 1
    /\ chain' = [chain EXCEPT !.blocks = Append(@, mined')]
    /\ UNCHANGED <<snapshots, next_snapshot, up, file, filed, reported, dropped>>

(* A HAPI submission that has_transaction_id lets through. *)
Submit(txid) ==
    /\ up
    /\ txid \notin DOMAIN chain.hapi_by_id
    /\ chain' = [chain EXCEPT
            !.records = Append(@, txid),
            !.hapi_by_id = [t \in DOMAIN @ \cup {txid} |->
                                IF t = txid THEN Len(chain.records) + 1 ELSE @[t]]]
    /\ UNCHANGED <<snapshots, next_snapshot, up, file, mined, filed, reported, dropped>>

-----------------------------------------------------------------------------
(* install: the id counts from 1. *)
install(filter) ==
    LET id == chain.next_filter + 1
    IN  /\ up
        /\ id <= MaxFilters
        /\ filed < MaxFilings
        /\ filed' = filed + 1
        /\ chain' = [chain EXCEPT
                !.next_filter = id,
                !.filters = [f \in DOMAIN @ \cup {id} |-> IF f = id THEN filter ELSE @[f]]]
        /\ UNCHANGED <<snapshots, next_snapshot, up, file, mined, reported, dropped>>

(* eth_newFilter; eth_newBlockFilter starts after the head. *)
InstallLogFilter(from_block, to_block) ==
    install([kind |-> "logs", from_block |-> from_block, to_block |-> to_block,
             next_block |-> from_block, owner |-> filed + 1])

InstallBlockFilter ==
    install([kind |-> "blocks", from_block |-> block_number(chain) + 1, to_block |-> MaxMined,
             next_block |-> block_number(chain) + 1, owner |-> filed + 1])

UninstallFilter(id) ==
    /\ up
    /\ id \in DOMAIN chain.filters
    /\ chain' = [chain EXCEPT !.filters = [f \in DOMAIN @ \ {id} |-> @[f]]]
    /\ UNCHANGED <<snapshots, next_snapshot, up, file, mined, filed, reported, dropped>>

(* eth_getFilterChanges: blocks from the cursor to the head, no further    *)
(* than to_block, and the cursor moves behind the head.                    *)
FilterChanges(id) ==
    LET f    == chain.filters[id]
        last == IF f.to_block < block_number(chain) THEN f.to_block ELSE block_number(chain)
    IN  {block_by_number(chain, n) : n \in f.next_block .. last}

Poll(id) ==
    /\ up
    /\ id \in DOMAIN chain.filters
    /\ reported' = [reported EXCEPT ![chain.filters[id].owner] = @ \cup FilterChanges(id)]
    /\ chain' = [chain EXCEPT !.filters[id].next_block = block_number(chain) + 1]
    /\ UNCHANGED <<snapshots, next_snapshot, up, file, mined, filed, dropped>>

-----------------------------------------------------------------------------
(* evm_snapshot. *)
Snapshot ==
    /\ up
    /\ next_snapshot < MaxSnapshots
    /\ snapshots' = [k \in DOMAIN snapshots \cup {next_snapshot} |->
                        IF k = next_snapshot THEN chain ELSE snapshots[k]]
    /\ next_snapshot' = next_snapshot + 1
    /\ UNCHANGED <<chain, up, file, mined, filed, reported, dropped>>

(* Mutants: the live filters survive; later snapshots survive; the counter *)
(* of snapshot ids goes back.                                              *)
RevertKeepingFilters(id) ==
    /\ up
    /\ id \in DOMAIN snapshots
    /\ chain' = [snapshots[id] EXCEPT !.filters = chain.filters]
    /\ snapshots' = [k \in {j \in DOMAIN snapshots : j < id} |-> snapshots[k]]
    /\ UNCHANGED <<next_snapshot, up, file, mined, filed, reported, dropped>>

RevertKeepingSnapshots(id) ==
    /\ up
    /\ id \in DOMAIN snapshots
    /\ chain' = snapshots[id]
    /\ snapshots' = [k \in DOMAIN snapshots \ {id} |-> snapshots[k]]
    /\ UNCHANGED <<next_snapshot, up, file, mined, filed, reported, dropped>>

RevertCounter(id) ==
    /\ up
    /\ id \in DOMAIN snapshots
    /\ chain' = snapshots[id]
    /\ snapshots' = [k \in {j \in DOMAIN snapshots : j < id} |-> snapshots[k]]
    /\ next_snapshot' = id
    /\ UNCHANGED <<up, file, mined, filed, reported, dropped>>

(* evm_revert: the snapshot and every later one are forgotten; only the    *)
(* counter of snapshot ids is not put back.                                *)
Revert(id) ==
    /\ up
    /\ id \in DOMAIN snapshots
    /\ chain' = snapshots[id]
    /\ snapshots' = [k \in {j \in DOMAIN snapshots : j < id} |-> snapshots[k]]
    /\ dropped' = dropped \cup (DOMAIN chain.filters \ DOMAIN snapshots[id].filters)
    /\ UNCHANGED <<next_snapshot, up, file, mined, filed, reported>>

(* Ctrl-c or SIGTERM: the chain is written to the file as the node stops. *)
Shutdown ==
    /\ up
    /\ up' = FALSE
    /\ file' = [chain |-> Unindexed(chain),
                snapshots |-> [k \in DOMAIN snapshots |-> Unindexed(snapshots[k])],
                next_snapshot |-> next_snapshot]
    /\ UNCHANGED <<chain, snapshots, next_snapshot, mined, filed, reported, dropped>>

(* The process dies without writing: the file keeps what it held. *)
Crash ==
    /\ up
    /\ up' = FALSE
    /\ UNCHANGED <<chain, snapshots, next_snapshot, file, mined, filed, reported, dropped>>

(* load_or_genesis: the file when there is one, re-indexed in this chain   *)
(* and in every snapshot it carries, genesis otherwise.                    *)
Boot ==
    /\ ~up
    /\ up' = TRUE
    /\ IF file = NoFile
       THEN /\ chain' = Genesis
            /\ snapshots' = << >>
            /\ next_snapshot' = 0
       ELSE /\ chain' = Reindexed(file.chain)
            /\ snapshots' = ReindexedSnapshots(file.snapshots)
            /\ next_snapshot' = file.next_snapshot
    /\ UNCHANGED <<file, mined, filed, reported, dropped>>

Next ==
    \/ Mine
    \/ \E txid \in TxIds : Submit(txid)
    \/ \E from_block \in 0 .. block_number(chain) + MaxAhead, to_block \in Tos :
        InstallLogFilter(from_block, to_block)
    \/ InstallBlockFilter
    \/ \E id \in 1 .. MaxFilters : UninstallFilter(id) \/ Poll(id)
    \/ Snapshot
    \/ \E id \in 0 .. MaxSnapshots - 1 : Revert(id)
    \/ Shutdown
    \/ Crash
    \/ Boot

Spec == Init /\ [][Next]_vars

-----------------------------------------------------------------------------
(* The chains a client can be on or get back to. *)
Reachable == {chain} \cup {snapshots[k] : k \in DOMAIN snapshots}

(* Types of the state. *)
TypeOK ==
    /\ \A c \in Reachable :
        /\ c.blocks \in Seq(0 .. MaxMined)
        /\ c.records \in Seq(TxIds)
        /\ DOMAIN c.filters \subseteq 1 .. c.next_filter
        /\ c.next_filter \in 0 .. MaxFilters
        /\ \A id \in DOMAIN c.filters : c.filters[id].next_block \in Nat
    /\ DOMAIN snapshots \subseteq 0 .. MaxSnapshots - 1
    /\ next_snapshot \in 0 .. MaxSnapshots
    /\ up \in BOOLEAN
    /\ mined \in 0 .. MaxMined

(* On this chain and in every snapshot the index finds exactly the         *)
(* records, after any mix of reverts, restarts and reverts to a snapshot   *)
(* that came out of a file (the comment of Chain::reindex).                *)
IndexExact ==
    up => \A c \in Reachable :
        /\ DOMAIN c.hapi_by_id = {c.records[i] : i \in DOMAIN c.records}
        /\ \A i \in DOMAIN c.records : c.hapi_by_id[c.records[i]] = i

(* A transaction id reaches consensus once in any history of the chain:    *)
(* DUPLICATE_TRANSACTION holds across restarts and reverts.                *)
NoDuplicateIds ==
    \A c \in Reachable : \A i, j \in DOMAIN c.records : c.records[i] = c.records[j] => i = j

(* The duplicate check of submit rests on an exact index, and works.       *)
DuplicatesAreRefused == IndexExact /\ NoDuplicateIds

(* A filter misses nothing: every block of its range that its cursor has   *)
(* passed was returned by one of its polls, on the chain as it is now, so  *)
(* a revert takes the cursor back together with the blocks.                *)
FiltersMissNothing ==
    \A id \in DOMAIN chain.filters :
        LET f == chain.filters[id]
        IN  \A n \in f.from_block .. f.next_block - 1 :
                n <= f.to_block => /\ n <= block_number(chain)
                                   /\ block_by_number(chain, n) \in reported[f.owner]

(* Snapshot ids keep increasing across reverts, so an id names one         *)
(* snapshot for as long as the node runs, and a revert cannot reach a      *)
(* snapshot taken later than the one it goes back to.                      *)
SnapshotIdsIncrease ==
    [][ up /\ up' => /\ next_snapshot' >= next_snapshot
                     /\ DOMAIN snapshots' \ DOMAIN snapshots \subseteq {next_snapshot} ]_vars

(* Going back is going back: the blocks and records of every snapshot are  *)
(* a prefix of the chain's, and of those of every later snapshot.          *)
IsPrefixOf(s, t) == Len(s) <= Len(t) /\ \A i \in DOMAIN s : s[i] = t[i]

SnapshotsArePrefixes ==
    \A k \in DOMAIN snapshots :
        \A c \in {chain} \cup {snapshots[j] : j \in {i \in DOMAIN snapshots : i > k}} :
            /\ IsPrefixOf(snapshots[k].blocks, c.blocks)
            /\ IsPrefixOf(snapshots[k].records, c.records)

(* A snapshot id names one past of the chain, for as long as it is kept,   *)
(* whatever step is taken.                                                 *)
SnapshotsGoBack == SnapshotIdsIncrease /\ [][SnapshotsArePrefixes']_vars

(* Error::NoSuchFilter's comment: an id dropped by evm_revert is not       *)
(* found.  The code breaks it: next_filter goes back with the revert, so   *)
(* the next install hands the same id to somebody else.                    *)
DroppedFiltersStayGone == dropped \cap DOMAIN chain.filters = {}
=============================================================================
