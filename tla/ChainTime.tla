----------------------------- MODULE ChainTime ------------------------------
(***************************************************************************)
(* Time in the in-memory chain of src/src/state/mod.rs: how the timestamp  *)
(* of a block and the consensus timestamp of a transaction are chosen from *)
(* the wall clock, the evm_increaseTime offset, the pin left by            *)
(* evm_setNextBlockTimestamp, the head block and the last stamp handed     *)
(* out.  JSON-RPC, HAPI and the interval miner all reach this state        *)
(* through one write lock, so each of their operations is one action; the  *)
(* caller reads the wall clock before it takes the lock, and the wall      *)
(* clock may be set back, so "now" is any member of Nows in every action.  *)
(***************************************************************************)
EXTENDS Integers, Sequences

CONSTANTS
    NANOS_PER_SEC,  \* 10^9 in the code
    I64_MAX,        \* largest i64; the code's seconds are u64, its offset i64
    Nows,           \* wall clock readings a caller may come with
    Seconds,        \* arguments of evm_increaseTime and intervals of anvil_mine
    Pins,           \* arguments of evm_setNextBlockTimestamp and evm_mine
    Counts,         \* block counts of anvil_mine
    MaxBlocks,      \* bound: blocks after genesis
    MaxRecords,     \* bound: HAPI records
    MaxStampSecs    \* bound: last stamp after which no send is refused any more

U64_MAX == 2 * I64_MAX + 1
I64 == -(I64_MAX + 1) .. I64_MAX

U64 == 0 .. U64_MAX

(* Both fields have their width: a u64 of seconds, nanoseconds of one      *)
(* second.  LastInstant is the last value of the type.                     *)
Timestamp == [secs : U64, nanos : 0 .. NANOS_PER_SEC - 1]
LastInstant == [secs |-> U64_MAX, nanos |-> NANOS_PER_SEC - 1]

ASSUME TimeAssumption ==
    /\ NANOS_PER_SEC \in Nat \ {0}
    /\ I64_MAX \in Nat
    /\ Nows \subseteq Timestamp /\ Nows # {}
    /\ \A now \in Nows : now.secs <= I64_MAX
    /\ Seconds \subseteq U64
    /\ Pins \subseteq U64
    /\ Counts \subseteq Nat
    /\ MaxBlocks \in Nat
    /\ MaxRecords \in Nat
    /\ MaxStampSecs \in Nat

VARIABLES
    blocks,          \* sequence of blocks, the genesis block first
    records,         \* sequence of HAPI records
    time_offset,     \* evm_increaseTime offset in seconds, an i64
    next_timestamp,  \* pending evm_setNextBlockTimestamp, or NoPin
    last_consensus,  \* the last consensus timestamp handed out
    mining,          \* what the mining call that holds the lock has left to do
    spent            \* history: LastInstant has been handed out as a stamp

vars == <<blocks, records, time_offset, next_timestamp, last_consensus, mining, spent>>

NoPin == -1
Idle == [left |-> 0]

Block == [timestamp : U64, consensus : Timestamp, tx : BOOLEAN]
Record == [consensus : Timestamp, mined : BOOLEAN]
Mining == {Idle} \cup
          [left : Nat \ {0}, first : BOOLEAN, interval : U64, now : Nows]

(* The derived order of Timestamp: seconds first, then nanoseconds. *)
After(t, u) ==
    \/ t.secs > u.secs
    \/ t.secs = u.secs /\ t.nanos > u.nanos

(* Mutant: the carry into the seconds is lost. *)
next_nanoNoCarry(t) == [secs |-> t.secs, nanos |-> (t.nanos + 1) % NANOS_PER_SEC]

(* `secs + 1` is u64 addition, and the release build has no overflow       *)
(* checks: after LastInstant comes 0.0 (a debug build panics there).       *)
next_nano(t) ==
    IF t.nanos = NANOS_PER_SEC - 1
    THEN [secs |-> (t.secs + 1) % (U64_MAX + 1), nanos |-> 0]
    ELSE [secs |-> t.secs, nanos |-> t.nanos + 1]

latest_block == blocks[Len(blocks)]

(***************************************************************************)
(* The arithmetic of the release build: `as i64` and `-` wrap, the         *)
(* saturating operations stop at the ends of their type.                   *)
(***************************************************************************)
WrapI64(x) ==
    IF x > I64_MAX THEN x - 2 * (I64_MAX + 1)
    ELSE IF x < -(I64_MAX + 1) THEN x + 2 * (I64_MAX + 1)
    ELSE x

SaturatingAddI64(x, y) == IF x + y > I64_MAX THEN I64_MAX ELSE x + y

SaturatingAddSigned(x, y) ==
    IF x + y > U64_MAX THEN U64_MAX ELSE IF x + y < 0 THEN 0 ELSE x + y

AtLeast(x, floor) == IF x < floor THEN floor ELSE x

(***************************************************************************)
(* next_block_timestamp: the value it returns and the offset it leaves     *)
(* behind.  It takes the pin, so next_timestamp is NoPin afterwards.       *)
(***************************************************************************)
(* Mutant: no max with the head. *)
next_block_timestampUnbounded(now) ==
    IF next_timestamp # NoPin
    THEN next_timestamp
    ELSE SaturatingAddSigned(now.secs, time_offset)

next_block_timestamp(now) ==
    LET ts == IF next_timestamp # NoPin
              THEN next_timestamp
              ELSE SaturatingAddSigned(now.secs, time_offset)
    IN  AtLeast(ts, latest_block.timestamp)

OffsetAfterBlock(now) ==
    IF next_timestamp # NoPin
    THEN WrapI64(WrapI64(next_timestamp) - now.secs)
    ELSE time_offset

next_consensus(at, last) == IF After(at, last) THEN at ELSE next_nano(last)

(* Mutant: the addition is not bounded. *)
increase_timeUnbounded(seconds) == time_offset + seconds

increase_time(seconds) ==
    SaturatingAddI64(time_offset, IF seconds > I64_MAX THEN I64_MAX ELSE seconds)

-----------------------------------------------------------------------------
Init ==
    /\ \E now \in Nows :
        /\ blocks = << [timestamp |-> now.secs, consensus |-> now, tx |-> FALSE] >>
        /\ last_consensus = now
    /\ records = << >>
    /\ time_offset = 0
    /\ next_timestamp = NoPin
    /\ mining = Idle
    /\ spent = FALSE

(* The stamp execute_and_mine and mine_empty ask for a block. *)
BlockStamp(now) ==
    next_consensus([secs |-> next_block_timestamp(now), nanos |-> now.nanos],
                   last_consensus)

(* The head of execute_and_mine and of mine_empty: both the pin and the    *)
(* stamp are taken before anything is known about the transaction.         *)
TakeTime(now) ==
    /\ next_timestamp' = NoPin
    /\ time_offset' = OffsetAfterBlock(now)

(* last_consensus moves on; the history keeps whether the type has ended.  *)
HandOut(stamp) ==
    /\ last_consensus' = stamp
    /\ spent' = (spent \/ stamp = LastInstant)

SealBlock(now, tx) ==
    /\ Len(blocks) <= MaxBlocks
    /\ blocks' = Append(blocks, [timestamp |-> next_block_timestamp(now),
                                 consensus |-> BlockStamp(now),
                                 tx |-> tx])
    /\ HandOut(BlockStamp(now))

AddRecord(stamp, mined) ==
    /\ Len(records) < MaxRecords
    /\ records' = Append(records, [consensus |-> stamp, mined |-> mined])

(* eth_sendRawTransaction or eth_sendTransaction that the EVM executes,    *)
(* whether the call succeeds or reverts.                                   *)
SendMined(now) ==
    /\ mining = Idle
    /\ TakeTime(now)
    /\ SealBlock(now, TRUE)
    /\ UNCHANGED <<records, mining>>

(* The same call refused by evm::execute (nonce, funds, intrinsic gas):    *)
(* `?` returns after the pin and the stamp are taken.  A transaction that  *)
(* does not decode, has no key or asks for more than the block gas limit   *)
(* is refused before that and changes nothing.                             *)
SendRefused(now) ==
    /\ mining = Idle
    /\ last_consensus.secs <= MaxStampSecs
    /\ TakeTime(now)
    /\ HandOut(BlockStamp(now))
    /\ UNCHANGED <<blocks, records, mining>>

(* mine_on_interval, one tick. *)
MineOnInterval(now) ==
    /\ mining = Idle
    /\ TakeTime(now)
    /\ SealBlock(now, FALSE)
    /\ UNCHANGED <<records, mining>>

(* Mutant: a pin behind the head is accepted. *)
SetPinUnchecked(pin) == next_timestamp' = pin

SetPin(pin) ==
    /\ pin > latest_block.timestamp
    /\ next_timestamp' = pin

(* evm_setNextBlockTimestamp; a pin that is not after the head is an error. *)
SetNextTimestamp(pin) ==
    /\ mining = Idle
    /\ SetPin(pin)
    /\ UNCHANGED <<blocks, records, time_offset, last_consensus, mining, spent>>

IncreaseTime(seconds) ==
    /\ mining = Idle
    /\ time_offset' = increase_time(seconds)
    /\ UNCHANGED <<blocks, records, next_timestamp, last_consensus, mining, spent>>

StartMining(count, interval, now) ==
    /\ mining = Idle
    /\ count > 0                          \* a count of 0 changes nothing
    /\ Len(blocks) + count <= MaxBlocks + 1
    /\ mining' = [left |-> count, first |-> TRUE, interval |-> interval, now |-> now]

(* evm_mine with and without a timestamp, anvil_mine(count, interval).     *)
(* The loop runs under the lock: every other action waits for Idle.        *)
EvmMine(now) ==
    /\ StartMining(1, 0, now)
    /\ UNCHANGED <<blocks, records, time_offset, next_timestamp, last_consensus, spent>>

EvmMinePinned(pin, now) ==
    /\ StartMining(1, 0, now)
    /\ SetPin(pin)
    /\ UNCHANGED <<blocks, records, time_offset, last_consensus, spent>>

AnvilMine(count, interval, now) ==
    /\ StartMining(count, interval, now)
    /\ UNCHANGED <<blocks, records, time_offset, next_timestamp, last_consensus, spent>>

(* One turn of the loop: every block but the first moves the clock by the  *)
(* interval (a turn of its own here, nobody can look in between).          *)
MineStep ==
    /\ mining # Idle
    /\ mining.first
    /\ TakeTime(mining.now)
    /\ SealBlock(mining.now, FALSE)
    /\ mining' = IF mining.left = 1
                 THEN Idle
                 ELSE [mining EXCEPT !.left = @ - 1, !.first = FALSE]
    /\ UNCHANGED records

MineAdvance ==
    /\ mining # Idle
    /\ ~mining.first
    /\ time_offset' = increase_time(mining.interval)
    /\ mining' = [mining EXCEPT !.first = TRUE]
    /\ UNCHANGED <<blocks, records, next_timestamp, last_consensus, spent>>

(* apply_hapi for every body but ethereumTransaction, and for one whose    *)
(* bytes send_raw refuses before it takes the time.  It does not look at   *)
(* time_offset: a HAPI stamp follows the wall clock.                       *)
ApplyHapi(now) ==
    /\ mining = Idle
    /\ HandOut(next_consensus(now, last_consensus))
    /\ AddRecord(last_consensus', FALSE)
    /\ UNCHANGED <<blocks, time_offset, next_timestamp, mining>>

(* Mutant: apply_hapi allocates a second stamp for the record. *)
ApplyEthereumMinedTwice(now) ==
    /\ mining = Idle
    /\ TakeTime(now)
    /\ Len(blocks) <= MaxBlocks
    /\ blocks' = Append(blocks, [timestamp |-> next_block_timestamp(now),
                                 consensus |-> BlockStamp(now), tx |-> TRUE])
    /\ HandOut(next_consensus(now, BlockStamp(now)))
    /\ AddRecord(last_consensus', TRUE)
    /\ UNCHANGED mining

(* ethereumTransaction that is mined: one transaction, one stamp. *)
ApplyEthereumMined(now) ==
    /\ mining = Idle
    /\ TakeTime(now)
    /\ SealBlock(now, TRUE)
    /\ AddRecord(last_consensus', TRUE)
    /\ UNCHANGED mining

(* ethereumTransaction that evm::execute refuses: send_raw has taken the   *)
(* pin and a stamp, and the record takes the stamp after it.               *)
ApplyEthereumRefused(now) ==
    /\ mining = Idle
    /\ TakeTime(now)
    /\ last_consensus' = next_consensus(now, BlockStamp(now))
    /\ spent' = (spent \/ LastInstant \in {BlockStamp(now), last_consensus'})
    /\ AddRecord(last_consensus', FALSE)
    /\ UNCHANGED <<blocks, mining>>

Next ==
    \/ \E now \in Nows :
        \/ SendMined(now)
        \/ SendRefused(now)
        \/ MineOnInterval(now)
        \/ EvmMine(now)
        \/ \E pin \in Pins : EvmMinePinned(pin, now)
        \/ \E count \in Counts, interval \in Seconds : AnvilMine(count, interval, now)
        \/ ApplyHapi(now)
        \/ ApplyEthereumMined(now)
        \/ ApplyEthereumRefused(now)
    \/ \E pin \in Pins : SetNextTimestamp(pin)
    \/ \E seconds \in Seconds : IncreaseTime(seconds)
    \/ MineStep
    \/ MineAdvance

Spec == Init /\ [][Next]_vars

-----------------------------------------------------------------------------
(* Types of the state: the offset stays an i64, the pin, the block times   *)
(* and the seconds of a stamp stay u64, nanoseconds stay below a second.   *)
TypeOK ==
    /\ blocks \in Seq(Block) /\ Len(blocks) > 0
    /\ records \in Seq(Record)
    /\ time_offset \in I64
    /\ next_timestamp \in {NoPin} \cup Pins
    /\ last_consensus \in Timestamp
    /\ mining \in Mining
    /\ spent \in BOOLEAN

(* A block is never earlier than its parent (Block.timestamp in            *)
(* state/blocks.rs), whatever the wall clock, the offset and the pins do.  *)
BlockTimesNeverBack ==
    \A i, j \in 1 .. Len(blocks) : i < j => blocks[i].timestamp <= blocks[j].timestamp

(* A pending pin is still ahead of the head block when the next block asks *)
(* for it: set_next_timestamp checks it once, and no interleaving of the   *)
(* interval miner with other callers makes the check stale.                *)
PinAhead == next_timestamp # NoPin => next_timestamp > latest_block.timestamp

(* The block that takes a pending pin carries exactly that time, so the    *)
(* max with the head in next_block_timestamp never overrides a pin.        *)
PinHonoured ==
    [][ blocks' # blocks /\ next_timestamp # NoPin
        => blocks'[Len(blocks')].timestamp = next_timestamp ]_vars

(* A block's consensus timestamp does not precede the block's own second:  *)
(* the mirror's time range of a block starts no earlier than the block.    *)
StampNotBeforeBlock ==
    \A i \in 1 .. Len(blocks) : blocks[i].timestamp <= blocks[i].consensus.secs

(* Consensus timestamps increase along the blocks and along the HAPI       *)
(* records, the two lists the mirror pages through by timestamp.           *)
StampsIncrease ==
    /\ \A i, j \in 1 .. Len(blocks) :
        i < j => After(blocks[j].consensus, blocks[i].consensus)
    /\ \A i, j \in 1 .. Len(records) :
        i < j => After(records[j].consensus, records[i].consensus)

(* A stamp identifies one transaction: a block and a HAPI record share one *)
(* exactly when the record is the ethereumTransaction mined in that block. *)
OneStampPerTransaction ==
    /\ \A i \in 1 .. Len(blocks), j \in 1 .. Len(records) :
        blocks[i].consensus = records[j].consensus => blocks[i].tx /\ records[j].mined
    /\ \A j \in 1 .. Len(records) : records[j].mined =>
        \E i \in 1 .. Len(blocks) : blocks[i].tx /\ blocks[i].consensus = records[j].consensus

(* "Consensus timestamps identify a transaction on Hedera, so they are      *)
(* unique and increasing" (next_consensus): in order, one per transaction, *)
(* and inside the second of its block, for as long as the last instant of  *)
(* the type has not been handed out.  Pins up to u64::MAX are accepted, so *)
(* that end is reached; what follows it is in StampsAlwaysIdentify.        *)
StampsIdentify ==
    ~spent => StampsIncrease /\ OneStampPerTransaction /\ StampNotBeforeBlock

(* The comment of next_consensus without the condition.  The code breaks   *)
(* it after LastInstant: next_nano starts again at 0.0.                    *)
StampsAlwaysIdentify == StampsIncrease /\ OneStampPerTransaction

(* No stamp shown to a reader is later than the last one handed out; the   *)
(* strengthening that makes the two properties above inductive.            *)
LastIsLatest ==
    /\ \A i \in 1 .. Len(blocks) : ~After(blocks[i].consensus, last_consensus)
    /\ \A j \in 1 .. Len(records) : ~After(records[j].consensus, last_consensus)

(* The history knows the end: the last instant is never the last stamp     *)
(* handed out without it.                                                  *)
SpentAtTheEnd == last_consensus = LastInstant => spent

(* The stamps of the chain implement the log of ConsensusLog: each step    *)
(* shows at most one new stamp, later than every stamp shown before, until *)
(* the last instant of the type is handed out.                             *)
Stamps ==
    {blocks[i].consensus : i \in 1 .. Len(blocks)}
    \cup {records[j].consensus : j \in 1 .. Len(records)}

Log == INSTANCE ConsensusLog WITH Stamp <- Timestamp, After <- After, used <- Stamps

ImplementsLog == Log!Spec

(* The comment of next_block_timestamp: the next block will carry the      *)
(* pending evm_setNextBlockTimestamp, so a pin is gone only once a block   *)
(* has been mined.  The code breaks it: SendRefused takes the pin.         *)
PinReachesABlock ==
    [][ next_timestamp # NoPin /\ next_timestamp' = NoPin => blocks' # blocks ]_vars
=============================================================================
