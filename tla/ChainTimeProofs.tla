-------------------------- MODULE ChainTimeProofs ---------------------------
(***************************************************************************)
(* Proofs about ChainTime, for every clock reading, pin, offset and bound. *)
(***************************************************************************)
EXTENDS ChainTime, TLAPS

(* The ends of the types. *)
LEMMA Widths == U64_MAX \in Nat /\ I64_MAX \in 0 .. U64_MAX /\ U64 = 0 .. U64_MAX
  BY TimeAssumption DEF U64_MAX, U64

(* The order of timestamps is transitive and irreflexive, and two          *)
(* timestamps neither of which is later are equal.                         *)
LEMMA AfterOrder ==
    ASSUME NEW t \in Timestamp, NEW u \in Timestamp, NEW v \in Timestamp
    PROVE  /\ ~After(t, t)
           /\ After(t, u) => ~After(u, t)
           /\ After(t, u) /\ After(u, v) => After(t, v)
           /\ After(t, u) /\ ~After(v, u) => After(t, v)
           /\ ~After(t, u) /\ ~After(u, t) => t = u
  BY TimeAssumption, Widths DEF After, Timestamp

(* next_nano stays inside the type; it carries into the next second and    *)
(* moves forward from every instant but the last.                          *)
LEMMA NextNano ==
    ASSUME NEW t \in Timestamp
    PROVE  /\ next_nano(t) \in Timestamp
           /\ t # LastInstant => After(next_nano(t), t) /\ t.secs <= next_nano(t).secs
<1>1. /\ NANOS_PER_SEC \in Nat \ {0} /\ U64_MAX \in Nat
      /\ t.secs \in 0 .. U64_MAX /\ t.nanos \in 0 .. NANOS_PER_SEC - 1
      /\ t = [secs |-> t.secs, nanos |-> t.nanos]
  BY TimeAssumption, Widths DEF Timestamp
<1>2. CASE t.nanos # NANOS_PER_SEC - 1
  <2>1. next_nano(t) = [secs |-> t.secs, nanos |-> t.nanos + 1]
    BY <1>2 DEF next_nano
  <2>2. t.nanos + 1 \in 0 .. NANOS_PER_SEC - 1 /\ t.nanos + 1 > t.nanos
    BY <1>1, <1>2
  <2> QED
    BY <1>1, <2>1, <2>2, Widths DEF After, Timestamp
<1>3. CASE t.nanos = NANOS_PER_SEC - 1 /\ t.secs # U64_MAX
  <2>1. t.secs + 1 \in 0 .. U64_MAX /\ t.secs + 1 > t.secs
    BY <1>1, <1>3
  <2>2. (t.secs + 1) % (U64_MAX + 1) = t.secs + 1
    BY <1>1, <2>1
  <2>3. next_nano(t) = [secs |-> t.secs + 1, nanos |-> 0]
    BY <1>3, <2>2 DEF next_nano
  <2>4. 0 \in 0 .. NANOS_PER_SEC - 1
    BY <1>1
  <2> QED
    BY <1>1, <2>1, <2>3, <2>4, Widths DEF After, Timestamp
<1>4. CASE t.nanos = NANOS_PER_SEC - 1 /\ t.secs = U64_MAX
  <2>1. (U64_MAX + 1) % (U64_MAX + 1) \in 0 .. U64_MAX
    BY <1>1
  <2>2. next_nano(t) = [secs |-> (U64_MAX + 1) % (U64_MAX + 1), nanos |-> 0]
    BY <1>4 DEF next_nano
  <2>3. next_nano(t) \in Timestamp
    <3>1. 0 \in 0 .. NANOS_PER_SEC - 1
      BY <1>1
    <3> QED
      BY <2>1, <2>2, <3>1, Widths DEF Timestamp
  <2>4. t = LastInstant
    BY <1>1, <1>4 DEF LastInstant
  <2> QED
    BY <2>3, <2>4
<1> QED
  BY <1>2, <1>3, <1>4

(* What next_consensus returns is a timestamp; unless the last stamp was    *)
(* the last instant of the type, it is later than that stamp and not       *)
(* earlier than the time asked for.                                        *)
LEMMA NextConsensus ==
    ASSUME NEW at \in Timestamp, NEW last \in Timestamp
    PROVE  /\ next_consensus(at, last) \in Timestamp
           /\ last # LastInstant =>
                /\ After(next_consensus(at, last), last)
                /\ at.secs <= next_consensus(at, last).secs
<1>0. /\ U64_MAX \in Nat
      /\ at.secs \in 0 .. U64_MAX /\ last.secs \in 0 .. U64_MAX
      /\ next_nano(last).secs \in 0 .. U64_MAX
  BY Widths, NextNano DEF Timestamp
<1>1. CASE After(at, last)
  BY <1>0, <1>1 DEF next_consensus
<1>2. CASE ~After(at, last)
  <2>1. next_consensus(at, last) = next_nano(last)
    BY <1>2 DEF next_consensus
  <2>2. at.secs <= last.secs
    BY <1>0, <1>2 DEF After
  <2>3. last # LastInstant => last.secs <= next_nano(last).secs
    BY NextNano
  <2> QED
    BY <1>0, <2>1, <2>2, <2>3, NextNano
<1> QED
  BY <1>1, <1>2

(* The casts and the saturating arithmetic stay inside their types. *)
LEMMA OffsetTypes ==
    ASSUME TypeOK
    PROVE  /\ \A now \in Nows : OffsetAfterBlock(now) \in I64
           /\ \A seconds \in U64 : increase_time(seconds) \in I64
<1>1. I64_MAX \in Nat /\ time_offset \in I64
  BY TimeAssumption DEF TypeOK
<1>2. \A x \in 0 .. U64_MAX : WrapI64(x) \in I64
  BY <1>1 DEF WrapI64, I64, U64_MAX
<1>3. \A x \in I64, y \in 0 .. I64_MAX : WrapI64(x - y) \in I64
  BY <1>1 DEF WrapI64, I64
<1>4. next_timestamp # NoPin => next_timestamp \in 0 .. U64_MAX
  BY TimeAssumption DEF TypeOK, U64
<1>5. \A now \in Nows : now.secs \in 0 .. I64_MAX
  BY TimeAssumption, Widths DEF Timestamp
<1>6. ASSUME NEW now \in Nows PROVE OffsetAfterBlock(now) \in I64
  BY <1>1, <1>2, <1>3, <1>4, <1>5 DEF OffsetAfterBlock
<1>7. ASSUME NEW seconds \in U64 PROVE increase_time(seconds) \in I64
  BY <1>1 DEF increase_time, SaturatingAddI64, I64, U64, U64_MAX
<1> QED
  BY <1>6, <1>7

(* next_block_timestamp returns a number no smaller than the head's; with  *)
(* a pin that is ahead of the head it returns the pin.                     *)
LEMMA BlockTime ==
    ASSUME TypeOK, NEW now \in Nows
    PROVE  /\ latest_block \in Block
           /\ next_block_timestamp(now) \in U64
           /\ latest_block.timestamp <= next_block_timestamp(now)
           /\ PinAhead /\ next_timestamp # NoPin => next_block_timestamp(now) = next_timestamp
<1>0. U64_MAX \in Nat /\ U64 = 0 .. U64_MAX
  BY Widths
<1>1. latest_block \in Block
  BY DEF TypeOK, latest_block
<1>2. latest_block.timestamp \in U64
  BY <1>1 DEF Block
<1>3. next_timestamp # NoPin => next_timestamp \in U64
  BY TimeAssumption DEF TypeOK
<1>4. now.secs \in 0 .. U64_MAX /\ I64_MAX \in Nat /\ time_offset \in I64
  BY <1>0, TimeAssumption DEF TypeOK, Timestamp
<1>5. SaturatingAddSigned(now.secs, time_offset) \in 0 .. U64_MAX
  BY <1>0, <1>4 DEF SaturatingAddSigned, I64
<1> QED
  BY <1>0, <1>1, <1>2, <1>3, <1>5 DEF next_block_timestamp, AtLeast, PinAhead

(* The stamp of a block is well formed and, before the end of the type,    *)
(* later than the last one and not before the block's own second.          *)
LEMMA BlockStampFacts ==
    ASSUME TypeOK, NEW now \in Nows
    PROVE  /\ BlockStamp(now) \in Timestamp
           /\ last_consensus # LastInstant =>
                /\ After(BlockStamp(now), last_consensus)
                /\ next_block_timestamp(now) <= BlockStamp(now).secs
<1> DEFINE at == [secs |-> next_block_timestamp(now), nanos |-> now.nanos]
<1>1. at \in Timestamp
  BY BlockTime, TimeAssumption DEF Timestamp
<1>2. last_consensus \in Timestamp /\ at.secs = next_block_timestamp(now)
  BY DEF TypeOK
<1> HIDE DEF at
<1>3. /\ next_consensus(at, last_consensus) \in Timestamp
      /\ last_consensus # LastInstant =>
            /\ After(next_consensus(at, last_consensus), last_consensus)
            /\ at.secs <= next_consensus(at, last_consensus).secs
  BY <1>1, <1>2, NextConsensus
<1>4. BlockStamp(now) = next_consensus(at, last_consensus)
  BY DEF BlockStamp, at
<1> QED
  BY <1>2, <1>3, <1>4

-----------------------------------------------------------------------------
(* What sealing a block does to the list of blocks. *)
LEMMA SealFacts ==
    ASSUME TypeOK, NEW now \in Nows, NEW tx \in BOOLEAN, SealBlock(now, tx)
    PROVE  /\ blocks' \in Seq(Block)
           /\ Len(blocks') = Len(blocks) + 1
           /\ \A i \in 1 .. Len(blocks) : blocks'[i] = blocks[i]
           /\ blocks'[Len(blocks')].timestamp = next_block_timestamp(now)
           /\ blocks'[Len(blocks')].consensus = BlockStamp(now)
           /\ blocks'[Len(blocks')].tx = tx
           /\ last_consensus' = BlockStamp(now)
           /\ last_consensus' \in Timestamp
           /\ last_consensus # LastInstant => After(last_consensus', last_consensus)
<1> DEFINE b == [timestamp |-> next_block_timestamp(now),
                 consensus |-> BlockStamp(now), tx |-> tx]
<1>1. b \in Block
  BY BlockTime, BlockStampFacts DEF Block
<1>2. /\ b.timestamp = next_block_timestamp(now)
      /\ b.consensus = BlockStamp(now)
      /\ b.tx = tx
  OBVIOUS
<1>3. blocks' = Append(blocks, b) /\ last_consensus' = BlockStamp(now)
  BY DEF SealBlock, HandOut
<1>4. blocks \in Seq(Block)
  BY DEF TypeOK
<1> HIDE DEF b
<1>5. /\ blocks' \in Seq(Block)
      /\ Len(blocks') = Len(blocks) + 1
      /\ \A i \in 1 .. Len(blocks) : blocks'[i] = blocks[i]
      /\ blocks'[Len(blocks')] = b
  BY <1>1, <1>3, <1>4
<1> QED
  BY <1>2, <1>3, <1>5, BlockStampFacts

(* What adding a HAPI record does to the list of records. *)
LEMMA RecordFacts ==
    ASSUME TypeOK, NEW stamp \in Timestamp, NEW mined \in BOOLEAN, AddRecord(stamp, mined)
    PROVE  /\ records' \in Seq(Record)
           /\ Len(records') = Len(records) + 1
           /\ \A j \in 1 .. Len(records) : records'[j] = records[j]
           /\ records'[Len(records')].consensus = stamp
           /\ records'[Len(records')].mined = mined
<1> DEFINE r == [consensus |-> stamp, mined |-> mined]
<1>1. r \in Record /\ r.consensus = stamp /\ r.mined = mined
  BY DEF Record
<1>2. records' = Append(records, r) /\ records \in Seq(Record)
  BY DEF AddRecord, TypeOK
<1> HIDE DEF r
<1> QED
  BY <1>1, <1>2

(***************************************************************************)
(* What a step may do to the blocks, the records and the last stamp.  Each *)
(* action is one of these four, and the invariants about stamps are proved *)
(* case by case from them.                                                 *)
(***************************************************************************)
Sealed(now, tx) ==
    /\ SealBlock(now, tx)
    /\ records' = records

SealedAndRecorded(now, tx) ==
    /\ tx = TRUE
    /\ SealBlock(now, tx)
    /\ AddRecord(BlockStamp(now), tx)

Recorded(stamp) ==
    /\ blocks' = blocks
    /\ ~spent' => After(stamp, last_consensus)
    /\ last_consensus' = stamp
    /\ AddRecord(stamp, FALSE)

NothingShown ==
    /\ blocks' = blocks
    /\ records' = records
    /\ last_consensus' \in Timestamp
    /\ ~spent' => last_consensus' = last_consensus \/ After(last_consensus', last_consensus)

ShownStep ==
    \/ \E now \in Nows, tx \in BOOLEAN : Sealed(now, tx)
    \/ \E now \in Nows, tx \in BOOLEAN : SealedAndRecorded(now, tx)
    \/ \E stamp \in Timestamp : Recorded(stamp)
    \/ NothingShown

(* The end of the type is remembered. *)
LEMMA SpentStep ==
    ASSUME TypeOK, SpentAtTheEnd, [Next]_vars
    PROVE  /\ spent' \in BOOLEAN
           /\ SpentAtTheEnd'
           /\ ~spent' => ~spent /\ last_consensus # LastInstant
<1>1. spent \in BOOLEAN
  BY DEF TypeOK
<1>2. \/ UNCHANGED <<last_consensus, spent>>
      \/ \E stamp : HandOut(stamp)
      \/ \E now \in Nows : ApplyEthereumRefused(now)
  BY DEF Next, vars, SendMined, SendRefused, MineOnInterval, EvmMine, EvmMinePinned, AnvilMine,
         ApplyHapi, ApplyEthereumMined, SetNextTimestamp, IncreaseTime, MineStep, MineAdvance,
         SealBlock
<1>3. CASE UNCHANGED <<last_consensus, spent>>
  BY <1>1, <1>3 DEF SpentAtTheEnd, LastInstant
<1>4. ASSUME NEW stamp, HandOut(stamp)
      PROVE  spent' \in BOOLEAN /\ SpentAtTheEnd' /\ (~spent' => ~spent)
  BY <1>1, <1>4 DEF HandOut, SpentAtTheEnd, LastInstant
<1>5. ASSUME NEW now \in Nows, ApplyEthereumRefused(now)
      PROVE  spent' \in BOOLEAN /\ SpentAtTheEnd' /\ (~spent' => ~spent)
  <2>1. spent' = (spent \/ LastInstant \in {BlockStamp(now), last_consensus'})
    BY <1>5 DEF ApplyEthereumRefused
  <2>2. last_consensus' = LastInstant => LastInstant \in {BlockStamp(now), last_consensus'}
    OBVIOUS
  <2> QED
    BY <1>1, <2>1, <2>2 DEF SpentAtTheEnd, LastInstant
<1> QED
  BY <1>1, <1>2, <1>3, <1>4, <1>5 DEF SpentAtTheEnd

(* Every step of the specification is one of the four. *)
LEMMA StepsShown ==
    ASSUME TypeOK, SpentAtTheEnd, [Next]_vars
    PROVE  ShownStep
<1>a. ~spent' => last_consensus # LastInstant
  BY SpentStep
<1>0. last_consensus \in Timestamp /\ \A now \in Nows : now \in Timestamp
  BY TimeAssumption DEF TypeOK
<1>1. ASSUME NEW now \in Nows, SendMined(now) PROVE ShownStep
  BY <1>1 DEF SendMined, ShownStep, Sealed
<1>2. ASSUME NEW now \in Nows, SendRefused(now) PROVE ShownStep
  BY <1>a, <1>2, BlockStampFacts DEF SendRefused, HandOut, ShownStep, NothingShown
<1>3. ASSUME NEW now \in Nows, MineOnInterval(now) PROVE ShownStep
  BY <1>3 DEF MineOnInterval, ShownStep, Sealed
<1>4. ASSUME NEW now \in Nows, EvmMine(now) PROVE ShownStep
  BY <1>0, <1>4 DEF EvmMine, ShownStep, NothingShown
<1>5. ASSUME NEW pin \in Pins, NEW now \in Nows, EvmMinePinned(pin, now) PROVE ShownStep
  BY <1>0, <1>5 DEF EvmMinePinned, ShownStep, NothingShown
<1>6. ASSUME NEW count \in Counts, NEW interval \in Seconds, NEW now \in Nows,
             AnvilMine(count, interval, now)
      PROVE ShownStep
  BY <1>0, <1>6 DEF AnvilMine, ShownStep, NothingShown
<1>7. ASSUME NEW now \in Nows, ApplyHapi(now) PROVE ShownStep
  <2>1. /\ last_consensus' \in Timestamp
        /\ ~spent' => After(last_consensus', last_consensus)
    BY <1>a, <1>0, <1>7, NextConsensus DEF ApplyHapi, HandOut
  <2>2. Recorded(last_consensus')
    BY <1>7, <2>1 DEF ApplyHapi, Recorded
  <2> QED
    BY <2>1, <2>2 DEF ShownStep
<1>8. ASSUME NEW now \in Nows, ApplyEthereumMined(now) PROVE ShownStep
  BY <1>8 DEF ApplyEthereumMined, ShownStep, SealedAndRecorded, SealBlock, HandOut
<1>9. ASSUME NEW now \in Nows, ApplyEthereumRefused(now) PROVE ShownStep
  <2>1. /\ BlockStamp(now) \in Timestamp
        /\ ~spent' => After(BlockStamp(now), last_consensus)
    BY <1>a, BlockStampFacts
  <2>2. ~spent' => BlockStamp(now) # LastInstant
    BY <1>9 DEF ApplyEthereumRefused
  <2>3. /\ last_consensus' \in Timestamp
        /\ ~spent' => After(last_consensus', BlockStamp(now))
    BY <1>0, <1>9, <2>1, <2>2, NextConsensus DEF ApplyEthereumRefused
  <2>4. ~spent' => After(last_consensus', last_consensus)
    BY <1>0, <2>1, <2>3, AfterOrder
  <2>5. Recorded(last_consensus')
    BY <1>9, <2>4 DEF ApplyEthereumRefused, Recorded
  <2> QED
    BY <2>3, <2>5 DEF ShownStep
<1>10. ASSUME NEW pin \in Pins, SetNextTimestamp(pin) PROVE ShownStep
  BY <1>0, <1>10 DEF SetNextTimestamp, ShownStep, NothingShown
<1>11. ASSUME NEW seconds \in Seconds, IncreaseTime(seconds) PROVE ShownStep
  BY <1>0, <1>11 DEF IncreaseTime, ShownStep, NothingShown
<1>12. ASSUME MineStep PROVE ShownStep
  <2>1. mining.now \in Nows
    BY <1>12 DEF MineStep, TypeOK, Mining
  <2> QED
    BY <1>12, <2>1 DEF MineStep, ShownStep, Sealed
<1>13. ASSUME MineAdvance PROVE ShownStep
  BY <1>0, <1>13 DEF MineAdvance, ShownStep, NothingShown
<1>14. ASSUME UNCHANGED vars PROVE ShownStep
  BY <1>0, <1>14 DEF vars, ShownStep, NothingShown
<1> QED
  BY <1>1, <1>2, <1>3, <1>4, <1>5, <1>6, <1>7, <1>8, <1>9, <1>10, <1>11, <1>12, <1>13, <1>14
     DEF Next

-----------------------------------------------------------------------------
(* The lists and the last stamp keep their types. *)
LEMMA ShownTypes ==
    ASSUME TypeOK, ShownStep
    PROVE  /\ blocks' \in Seq(Block) /\ Len(blocks') > 0
           /\ records' \in Seq(Record)
           /\ last_consensus' \in Timestamp
<1>1. ASSUME NEW now \in Nows, NEW tx \in BOOLEAN, Sealed(now, tx)
      PROVE  /\ blocks' \in Seq(Block) /\ Len(blocks') > 0
             /\ last_consensus' \in Timestamp
             /\ records' \in Seq(Record)
  BY <1>1, SealFacts DEF Sealed, TypeOK
<1>2. ASSUME NEW now \in Nows, NEW tx \in BOOLEAN, SealedAndRecorded(now, tx)
      PROVE  /\ blocks' \in Seq(Block) /\ Len(blocks') > 0
             /\ last_consensus' \in Timestamp
             /\ records' \in Seq(Record)
  <2>0. SealBlock(now, tx) /\ Len(blocks) \in Nat
    BY <1>2 DEF SealedAndRecorded, TypeOK
  <2>1. blocks' \in Seq(Block) /\ Len(blocks') > 0 /\ last_consensus' \in Timestamp
    BY <2>0, SealFacts
  <2>2. BlockStamp(now) \in Timestamp
    BY BlockStampFacts
  <2>3. AddRecord(BlockStamp(now), tx)
    BY <1>2 DEF SealedAndRecorded
  <2>4. records' \in Seq(Record)
    BY <2>2, <2>3, RecordFacts
  <2> QED
    BY <2>1, <2>4
<1>3. ASSUME NEW stamp \in Timestamp, Recorded(stamp)
      PROVE  /\ blocks' \in Seq(Block) /\ Len(blocks') > 0
             /\ last_consensus' \in Timestamp
             /\ records' \in Seq(Record)
  BY <1>3, RecordFacts DEF Recorded, TypeOK
<1>4. CASE NothingShown
  BY <1>4 DEF NothingShown, TypeOK
<1> QED
  BY <1>1, <1>2, <1>3, <1>4 DEF ShownStep

(* Every step keeps the types: in particular the offset never leaves i64. *)
LEMMA TypeStep ==
    ASSUME TypeOK, SpentAtTheEnd, [Next]_vars
    PROVE  TypeOK'
<1> DEFINE Rest == /\ time_offset' \in I64
                   /\ next_timestamp' \in {NoPin} \cup Pins
                   /\ mining' \in Mining
<1>0. /\ time_offset \in I64
      /\ next_timestamp \in {NoPin} \cup Pins
      /\ mining \in Mining
      /\ Idle \in Mining
      /\ \A now \in Nows : OffsetAfterBlock(now) \in I64
      /\ \A seconds \in Seconds : increase_time(seconds) \in I64
      /\ Seconds \subseteq U64
      /\ Counts \subseteq Nat
      /\ 0 \in U64
  <2>1. 0 \in U64
    BY Widths
  <2> QED
    BY <2>1, TimeAssumption, OffsetTypes DEF TypeOK, Mining
<1>1. ASSUME NEW now \in Nows, SendMined(now) PROVE Rest
  BY <1>0, <1>1 DEF SendMined, TakeTime
<1>2. ASSUME NEW now \in Nows, SendRefused(now) PROVE Rest
  BY <1>0, <1>2 DEF SendRefused, TakeTime
<1>3. ASSUME NEW now \in Nows, MineOnInterval(now) PROVE Rest
  BY <1>0, <1>3 DEF MineOnInterval, TakeTime
<1>4. ASSUME NEW now \in Nows, EvmMine(now) PROVE Rest
  BY <1>0, <1>4 DEF EvmMine, StartMining, Mining
<1>5. ASSUME NEW pin \in Pins, NEW now \in Nows, EvmMinePinned(pin, now) PROVE Rest
  BY <1>0, <1>5 DEF EvmMinePinned, StartMining, SetPin, Mining
<1>6. ASSUME NEW count \in Counts, NEW interval \in Seconds, NEW now \in Nows,
             AnvilMine(count, interval, now)
      PROVE Rest
  BY <1>0, <1>6 DEF AnvilMine, StartMining, Mining
<1>7. ASSUME NEW now \in Nows, ApplyHapi(now) PROVE Rest
  BY <1>0, <1>7 DEF ApplyHapi
<1>8. ASSUME NEW now \in Nows, ApplyEthereumMined(now) PROVE Rest
  BY <1>0, <1>8 DEF ApplyEthereumMined, TakeTime
<1>9. ASSUME NEW now \in Nows, ApplyEthereumRefused(now) PROVE Rest
  BY <1>0, <1>9 DEF ApplyEthereumRefused, TakeTime
<1>10. ASSUME NEW pin \in Pins, SetNextTimestamp(pin) PROVE Rest
  BY <1>0, <1>10 DEF SetNextTimestamp, SetPin
<1>11. ASSUME NEW seconds \in Seconds, IncreaseTime(seconds) PROVE Rest
  BY <1>0, <1>11 DEF IncreaseTime
<1>12. ASSUME MineStep PROVE Rest
  <2>1. mining \in [left : Nat \ {0}, first : BOOLEAN, interval : U64, now : Nows]
    BY <1>0, <1>12 DEF MineStep, Mining
  <2>2. mining' \in Mining
    <3>1. CASE mining.left = 1
      BY <1>0, <1>12, <3>1 DEF MineStep
    <3>2. CASE mining.left # 1
      <4>1. mining.left - 1 \in Nat \ {0} /\ FALSE \in BOOLEAN
        BY <2>1, <3>2
      <4>2. mining' = [mining EXCEPT !.left = mining.left - 1, !.first = FALSE]
        BY <1>12, <2>1, <3>2 DEF MineStep
      <4> QED
        BY <2>1, <4>1, <4>2 DEF Mining
    <3> QED
      BY <3>1, <3>2
  <2> QED
    BY <1>0, <1>12, <2>1, <2>2 DEF MineStep, TakeTime
<1>13. ASSUME MineAdvance PROVE Rest
  <2>1. mining \in [left : Nat \ {0}, first : BOOLEAN, interval : U64, now : Nows]
    BY <1>0, <1>13 DEF MineAdvance, Mining
  <2>2. mining' \in Mining
    BY <1>13, <2>1 DEF MineAdvance, Mining
  <2> QED
    BY <1>0, <1>13, <2>1, <2>2, OffsetTypes DEF MineAdvance
<1>14. ASSUME UNCHANGED vars PROVE Rest
  BY <1>0, <1>14 DEF vars
<1>15. Rest
  BY <1>1, <1>2, <1>3, <1>4, <1>5, <1>6, <1>7, <1>8, <1>9, <1>10, <1>11, <1>12, <1>13, <1>14
     DEF Next
<1> QED
  BY <1>15, StepsShown, ShownTypes, SpentStep DEF TypeOK

-----------------------------------------------------------------------------
(* The blocks are unchanged or one is sealed. *)
LEMMA BlocksStep ==
    ASSUME TypeOK, ShownStep
    PROVE  \/ blocks' = blocks
           \/ \E now \in Nows, tx \in BOOLEAN : SealBlock(now, tx)
  BY DEF ShownStep, Sealed, SealedAndRecorded, Recorded, NothingShown

(* A new block is not earlier than its parent, hence than any ancestor. *)
LEMMA BlockTimesStep ==
    ASSUME TypeOK, ShownStep, BlockTimesNeverBack
    PROVE  BlockTimesNeverBack'
<1>1. CASE blocks' = blocks
  BY <1>1 DEF BlockTimesNeverBack
<1>2. ASSUME NEW now \in Nows, NEW tx \in BOOLEAN, SealBlock(now, tx)
      PROVE  BlockTimesNeverBack'
  <2>1. /\ Len(blocks') = Len(blocks) + 1
        /\ \A i \in 1 .. Len(blocks) : blocks'[i] = blocks[i]
        /\ blocks'[Len(blocks')].timestamp = next_block_timestamp(now)
    BY <1>2, SealFacts
  <2>2. /\ Len(blocks) \in Nat \ {0}
        /\ \A i \in 1 .. Len(blocks) : blocks[i].timestamp \in Int
    <3>1. Len(blocks) \in Nat \ {0} /\ \A i \in 1 .. Len(blocks) : blocks[i] \in Block
      BY DEF TypeOK
    <3> QED
      BY <3>1, Widths DEF Block
  <2>3. /\ next_block_timestamp(now) \in Int
        /\ blocks[Len(blocks)].timestamp <= next_block_timestamp(now)
    BY BlockTime, Widths DEF latest_block
  <2>4. \A i \in 1 .. Len(blocks) : blocks[i].timestamp <= next_block_timestamp(now)
    BY <2>2, <2>3 DEF BlockTimesNeverBack
  <2>5. ASSUME NEW i \in 1 .. Len(blocks'), NEW j \in 1 .. Len(blocks'), i < j
        PROVE  blocks'[i].timestamp <= blocks'[j].timestamp
    <3>1. i \in 1 .. Len(blocks)
      BY <2>1, <2>2, <2>5
    <3>2. CASE j = Len(blocks')
      BY <2>1, <2>4, <3>1, <3>2
    <3>3. CASE j # Len(blocks')
      BY SMTT(120), <2>1, <2>2, <2>5, <3>1, <3>3 DEF BlockTimesNeverBack
    <3> QED
      BY <3>2, <3>3
  <2> QED
    BY <2>5 DEF BlockTimesNeverBack
<1> QED
  BY <1>1, <1>2, BlocksStep

(* Before the end of the type a new block's stamp is not before its second. *)
LEMMA StampNotBeforeStep ==
    ASSUME TypeOK, ShownStep, last_consensus # LastInstant, StampNotBeforeBlock
    PROVE  StampNotBeforeBlock'
<1>1. CASE blocks' = blocks
  BY <1>1 DEF StampNotBeforeBlock
<1>2. ASSUME NEW now \in Nows, NEW tx \in BOOLEAN, SealBlock(now, tx)
      PROVE  StampNotBeforeBlock'
  <2>1. /\ Len(blocks') = Len(blocks) + 1
        /\ \A i \in 1 .. Len(blocks) : blocks'[i] = blocks[i]
        /\ blocks'[Len(blocks')].timestamp <= blocks'[Len(blocks')].consensus.secs
    BY <1>2, SealFacts, BlockStampFacts
  <2>2. Len(blocks) \in Nat
    BY DEF TypeOK
  <2> QED
    BY <2>1, <2>2 DEF StampNotBeforeBlock
<1> QED
  BY <1>1, <1>2, BlocksStep

(* A pin set is ahead of the head; a block takes the pin with it, so the   *)
(* head only moves when there is no pin left.                              *)
LEMMA PinAheadStep ==
    ASSUME TypeOK, [Next]_vars, PinAhead
    PROVE  PinAhead'
<1>1. CASE next_timestamp' = NoPin
  BY <1>1 DEF PinAhead
<1>2. CASE blocks' = blocks /\ next_timestamp' = next_timestamp
  BY <1>2 DEF PinAhead, latest_block
<1>3. ASSUME NEW pin \in Pins, SetPin(pin), blocks' = blocks PROVE PinAhead'
  BY <1>3 DEF PinAhead, SetPin, latest_block
<1> QED
  BY <1>1, <1>2, <1>3
     DEF Next, vars, SendMined, SendRefused, MineOnInterval, EvmMine, EvmMinePinned, AnvilMine,
         ApplyHapi, ApplyEthereumMined, ApplyEthereumRefused, SetNextTimestamp, IncreaseTime,
         MineStep, MineAdvance, TakeTime

-----------------------------------------------------------------------------
(* The stamps of the chain are timestamps. *)
LEMMA StampTypes ==
    ASSUME TypeOK
    PROVE  /\ Len(blocks) \in Nat /\ Len(records) \in Nat
           /\ \A i \in 1 .. Len(blocks) : blocks[i].consensus \in Timestamp
           /\ \A j \in 1 .. Len(records) : records[j].consensus \in Timestamp
           /\ last_consensus \in Timestamp
<1>1. /\ \A i \in 1 .. Len(blocks) : blocks[i] \in Block
      /\ \A j \in 1 .. Len(records) : records[j] \in Record
      /\ Len(blocks) \in Nat /\ Len(records) \in Nat
      /\ last_consensus \in Timestamp
  BY DEF TypeOK
<1>2. \A i \in 1 .. Len(blocks) : blocks[i].consensus \in Timestamp
  BY <1>1 DEF Block
<1>3. \A j \in 1 .. Len(records) : records[j].consensus \in Timestamp
  BY <1>1 DEF Record
<1> QED
  BY <1>1, <1>2, <1>3

(* A stamp later than the last one is later than every stamp shown. *)
LEMMA LaterThanAll ==
    ASSUME TypeOK, LastIsLatest, NEW stamp \in Timestamp, After(stamp, last_consensus)
    PROVE  /\ \A i \in 1 .. Len(blocks) : After(stamp, blocks[i].consensus)
           /\ \A j \in 1 .. Len(records) : After(stamp, records[j].consensus)
<1>1. ASSUME NEW i \in 1 .. Len(blocks) PROVE After(stamp, blocks[i].consensus)
  <2>1. blocks[i].consensus \in Timestamp /\ ~After(blocks[i].consensus, last_consensus)
    BY StampTypes DEF LastIsLatest
  <2> QED
    BY <2>1, StampTypes, AfterOrder
<1>2. ASSUME NEW j \in 1 .. Len(records) PROVE After(stamp, records[j].consensus)
  <2>1. records[j].consensus \in Timestamp /\ ~After(records[j].consensus, last_consensus)
    BY StampTypes DEF LastIsLatest
  <2> QED
    BY <2>1, StampTypes, AfterOrder
<1> QED
  BY <1>1, <1>2

(***************************************************************************)
(* The four kinds of step in one description: the lists only grow, a new   *)
(* entry carries the new last stamp, and when a record says "mined" the    *)
(* new block holds its transaction.                                        *)
(***************************************************************************)
NewBlock(i) ==
    /\ i = Len(blocks) + 1
    /\ blocks'[i].consensus = last_consensus'

NewRecord(j) ==
    /\ j = Len(records) + 1
    /\ records'[j].consensus = last_consensus'

ShownFacts ==
    /\ Len(blocks) \in Nat /\ Len(blocks') \in Nat /\ Len(blocks) <= Len(blocks')
    /\ Len(records) \in Nat /\ Len(records') \in Nat /\ Len(records) <= Len(records')
    /\ \A i \in 1 .. Len(blocks) : blocks'[i] = blocks[i]
    /\ \A j \in 1 .. Len(records) : records'[j] = records[j]
    /\ \A i \in 1 .. Len(blocks') : i \in 1 .. Len(blocks) \/ NewBlock(i)
    /\ \A j \in 1 .. Len(records') : j \in 1 .. Len(records) \/ NewRecord(j)
    /\ last_consensus' \in Timestamp
    /\ \A i \in 1 .. Len(blocks'), j \in 1 .. Len(records') :
        NewBlock(i) /\ NewRecord(j) => blocks'[i].tx /\ records'[j].mined
    /\ \A j \in 1 .. Len(records') : NewRecord(j) /\ records'[j].mined =>
        \E i \in 1 .. Len(blocks') : NewBlock(i) /\ blocks'[i].tx

(* Before the end of the type the last stamp only moves forward, and what  *)
(* a new entry carries is later than what was the last stamp.              *)
LaterFacts ==
    /\ last_consensus' = last_consensus \/ After(last_consensus', last_consensus)
    /\ \A i \in 1 .. Len(blocks') : NewBlock(i) => After(last_consensus', last_consensus)
    /\ \A j \in 1 .. Len(records') : NewRecord(j) => After(last_consensus', last_consensus)

LEMMA ShownLater ==
    ASSUME TypeOK, ShownStep, ~spent', last_consensus # LastInstant
    PROVE  LaterFacts
<1>1. ASSUME NEW now \in Nows, NEW tx \in BOOLEAN, SealBlock(now, tx) PROVE LaterFacts
  BY <1>1, SealFacts DEF LaterFacts
<1>2. ASSUME NEW stamp \in Timestamp, Recorded(stamp) PROVE LaterFacts
  BY <1>2 DEF Recorded, LaterFacts
<1>3. CASE NothingShown
  <2>1. Len(blocks) \in Nat /\ Len(records) \in Nat
    BY StampTypes
  <2>2. /\ \A i \in 1 .. Len(blocks') : ~NewBlock(i)
        /\ \A j \in 1 .. Len(records') : ~NewRecord(j)
    BY <1>3, <2>1 DEF NothingShown, NewBlock, NewRecord
  <2> QED
    BY <1>3, <2>2 DEF NothingShown, LaterFacts
<1> QED
  BY <1>1, <1>2, <1>3 DEF ShownStep, Sealed, SealedAndRecorded

(* Every step shows at most one new stamp, on a block, a record or both. *)
LEMMA ShownStepFacts ==
    ASSUME TypeOK, ShownStep
    PROVE  ShownFacts
<1>0. Len(blocks) \in Nat /\ Len(records) \in Nat /\ last_consensus \in Timestamp
  BY StampTypes
<1>1. ASSUME NEW now \in Nows, NEW tx \in BOOLEAN, Sealed(now, tx) PROVE ShownFacts
  <2>1. /\ Len(blocks') = Len(blocks) + 1
        /\ \A i \in 1 .. Len(blocks) : blocks'[i] = blocks[i]
        /\ blocks'[Len(blocks')].consensus = last_consensus'
        /\ last_consensus' \in Timestamp
    BY <1>1, SealFacts DEF Sealed
  <2>2. records' = records
    BY <1>1 DEF Sealed
  <2> QED
    BY <1>0, <2>1, <2>2 DEF ShownFacts, NewBlock, NewRecord
<1>2. ASSUME NEW now \in Nows, NEW tx \in BOOLEAN, SealedAndRecorded(now, tx)
      PROVE  ShownFacts
  <2>1. /\ Len(blocks') = Len(blocks) + 1
        /\ \A i \in 1 .. Len(blocks) : blocks'[i] = blocks[i]
        /\ blocks'[Len(blocks')].consensus = last_consensus'
        /\ blocks'[Len(blocks')].tx = tx
        /\ last_consensus' = BlockStamp(now)
        /\ last_consensus' \in Timestamp
    BY <1>2, SealFacts DEF SealedAndRecorded
  <2>2. BlockStamp(now) \in Timestamp /\ AddRecord(BlockStamp(now), tx)
    BY <1>2, BlockStampFacts DEF SealedAndRecorded
  <2>3. /\ Len(records') = Len(records) + 1
        /\ \A j \in 1 .. Len(records) : records'[j] = records[j]
        /\ records'[Len(records')].consensus = BlockStamp(now)
        /\ records'[Len(records')].mined = tx
    BY <2>2, RecordFacts
  <2>4. blocks'[Len(blocks')].tx /\ records'[Len(records')].mined
    BY <1>2, <2>1, <2>3 DEF SealedAndRecorded
  <2>5. NewBlock(Len(blocks')) /\ NewRecord(Len(records'))
    BY <2>1, <2>3 DEF NewBlock, NewRecord
  <2> QED
    BY SMTT(120), <1>0, <2>1, <2>3, <2>4, <2>5 DEF ShownFacts, NewBlock, NewRecord
<1>3. ASSUME NEW stamp \in Timestamp, Recorded(stamp) PROVE ShownFacts
  <2>1. /\ blocks' = blocks
        /\ last_consensus' = stamp
        /\ AddRecord(stamp, FALSE)
    BY <1>3 DEF Recorded
  <2>2. /\ Len(records') = Len(records) + 1
        /\ \A j \in 1 .. Len(records) : records'[j] = records[j]
        /\ records'[Len(records')].consensus = stamp
        /\ records'[Len(records')].mined = FALSE
    BY <2>1, RecordFacts
  <2>3. ~records'[Len(records')].mined
    BY <2>2
  <2> QED
    BY <1>0, <2>1, <2>2, <2>3 DEF ShownFacts, NewBlock, NewRecord
<1>4. CASE NothingShown
  BY <1>0, <1>4 DEF NothingShown, ShownFacts, NewBlock, NewRecord
<1> QED
  BY <1>1, <1>2, <1>3, <1>4 DEF ShownStep

(* Stamps keep increasing along both lists. *)
LEMMA StampsIncreaseStep ==
    ASSUME TypeOK, ShownFacts, LaterFacts, LastIsLatest, StampsIncrease
    PROVE  StampsIncrease'
<1>1. ASSUME NEW i \in 1 .. Len(blocks'), NEW j \in 1 .. Len(blocks'), i < j
      PROVE  After(blocks'[j].consensus, blocks'[i].consensus)
  <2>1. i \in 1 .. Len(blocks)
    BY SMTT(120), <1>1 DEF ShownFacts, NewBlock
  <2>2. CASE j \in 1 .. Len(blocks)
    BY <1>1, <2>1, <2>2 DEF ShownFacts, StampsIncrease
  <2>3. CASE NewBlock(j)
    BY <2>1, <2>3, LaterThanAll DEF ShownFacts, LaterFacts, NewBlock
  <2> QED
    BY <2>2, <2>3 DEF ShownFacts
<1>2. ASSUME NEW i \in 1 .. Len(records'), NEW j \in 1 .. Len(records'), i < j
      PROVE  After(records'[j].consensus, records'[i].consensus)
  <2>1. i \in 1 .. Len(records)
    BY <1>2 DEF ShownFacts, NewRecord
  <2>2. CASE j \in 1 .. Len(records)
    BY <1>2, <2>1, <2>2 DEF ShownFacts, StampsIncrease
  <2>3. CASE NewRecord(j)
    BY <2>1, <2>3, LaterThanAll DEF ShownFacts, LaterFacts, NewRecord
  <2> QED
    BY <2>2, <2>3 DEF ShownFacts
<1> QED
  BY <1>1, <1>2 DEF StampsIncrease

(* The last stamp handed out stays the latest. *)
LEMMA LastIsLatestStep ==
    ASSUME TypeOK, ShownFacts, LaterFacts, LastIsLatest
    PROVE  LastIsLatest'
<1>0. last_consensus' \in Timestamp /\ last_consensus \in Timestamp
  BY StampTypes DEF ShownFacts
<1>1. ASSUME NEW t \in Timestamp, ~After(t, last_consensus) PROVE ~After(t, last_consensus')
  BY <1>0, <1>1, AfterOrder DEF LaterFacts
<1>2. ~After(last_consensus', last_consensus')
  BY <1>0, AfterOrder
<1>3. ASSUME NEW i \in 1 .. Len(blocks') PROVE ~After(blocks'[i].consensus, last_consensus')
  BY <1>1, <1>2, StampTypes DEF ShownFacts, NewBlock, LastIsLatest
<1>4. ASSUME NEW j \in 1 .. Len(records') PROVE ~After(records'[j].consensus, last_consensus')
  BY <1>1, <1>2, StampTypes DEF ShownFacts, NewRecord, LastIsLatest
<1> QED
  BY <1>3, <1>4 DEF LastIsLatest

(* A stamp stays the name of one transaction. *)
LEMMA OneStampStep ==
    ASSUME TypeOK, ShownFacts, LaterFacts, LastIsLatest, OneStampPerTransaction
    PROVE  OneStampPerTransaction'
<1>0. ASSUME After(last_consensus', last_consensus)
      PROVE  /\ \A i \in 1 .. Len(blocks) : blocks[i].consensus # last_consensus'
             /\ \A j \in 1 .. Len(records) : records[j].consensus # last_consensus'
  <2>1. last_consensus' \in Timestamp /\ ~After(last_consensus', last_consensus')
    BY AfterOrder DEF ShownFacts
  <2> QED
    BY <1>0, <2>1, LaterThanAll
<1>1. ASSUME NEW i \in 1 .. Len(blocks'), NEW j \in 1 .. Len(records'),
             blocks'[i].consensus = records'[j].consensus
      PROVE  blocks'[i].tx /\ records'[j].mined
  <2>1. CASE i \in 1 .. Len(blocks) /\ j \in 1 .. Len(records)
    BY ZenonT(120), <1>1, <2>1 DEF ShownFacts, OneStampPerTransaction
  <2>2. CASE NewBlock(i) /\ j \in 1 .. Len(records)
    BY <1>0, <1>1, <2>2 DEF ShownFacts, LaterFacts, NewBlock
  <2>3. CASE i \in 1 .. Len(blocks) /\ NewRecord(j)
    BY <1>0, <1>1, <2>3 DEF ShownFacts, LaterFacts, NewRecord
  <2>4. CASE NewBlock(i) /\ NewRecord(j)
    BY <2>4 DEF ShownFacts
  <2> QED
    BY <2>1, <2>2, <2>3, <2>4 DEF ShownFacts
<1>2. ASSUME NEW j \in 1 .. Len(records'), records'[j].mined
      PROVE  \E i \in 1 .. Len(blocks') :
                blocks'[i].tx /\ blocks'[i].consensus = records'[j].consensus
  <2>1. CASE j \in 1 .. Len(records)
    <3>1. PICK i \in 1 .. Len(blocks) :
            blocks[i].tx /\ blocks[i].consensus = records[j].consensus
      BY <1>2, <2>1 DEF ShownFacts, OneStampPerTransaction
    <3>2. i \in 1 .. Len(blocks')
      BY DEF ShownFacts
    <3> QED
      BY <2>1, <3>1, <3>2 DEF ShownFacts
  <2>2. CASE NewRecord(j)
    <3>1. PICK i \in 1 .. Len(blocks') : NewBlock(i) /\ blocks'[i].tx
      BY <1>2, <2>2 DEF ShownFacts
    <3> QED
      BY <2>2, <3>1 DEF NewBlock, NewRecord
  <2> QED
    BY <2>1, <2>2 DEF ShownFacts
<1> QED
  BY <1>1, <1>2 DEF OneStampPerTransaction

-----------------------------------------------------------------------------
(* The inductive invariant.  PinAhead and LastIsLatest are what makes the  *)
(* others inductive: the pin check of set_next_timestamp and the state of  *)
(* next_consensus, carried from the step that set them to the one that     *)
(* relies on them.  What concerns stamps is claimed up to the end of the   *)
(* type, and SpentAtTheEnd says that the history does not miss that end.   *)
StampsHold ==
    /\ StampNotBeforeBlock
    /\ StampsIncrease
    /\ LastIsLatest
    /\ OneStampPerTransaction

IInv ==
    /\ TypeOK
    /\ BlockTimesNeverBack
    /\ PinAhead
    /\ SpentAtTheEnd
    /\ ~spent => StampsHold

(* Genesis satisfies the invariant. *)
LEMMA InitIInv == Init => IInv
<1> SUFFICES ASSUME Init PROVE IInv
  OBVIOUS
<1>1. PICK now \in Nows :
        /\ blocks = << [timestamp |-> now.secs, consensus |-> now, tx |-> FALSE] >>
        /\ last_consensus = now
  BY DEF Init
<1>2. now \in Timestamp /\ now.secs \in U64 /\ now.secs \in Int /\ now.secs <= I64_MAX
  BY TimeAssumption, Widths DEF Timestamp
<1>3. /\ Len(blocks) = 1
      /\ blocks[1] = [timestamp |-> now.secs, consensus |-> now, tx |-> FALSE]
      /\ Len(records) = 0
      /\ records = << >>
  BY <1>1 DEF Init
<1>4. blocks[1].timestamp = now.secs /\ blocks[1].consensus = now
  BY <1>3
<1>5. TypeOK
  <2>1. [timestamp |-> now.secs, consensus |-> now, tx |-> FALSE] \in Block
    BY <1>2 DEF Block
  <2>2. blocks \in Seq(Block) /\ Len(blocks) > 0 /\ records \in Seq(Record)
    BY <1>1, <1>3, <2>1
  <2>3. time_offset \in I64
    BY TimeAssumption DEF Init, I64
  <2> QED
    BY <1>1, <1>2, <2>2, <2>3 DEF TypeOK, Init, Mining
<1>6. BlockTimesNeverBack /\ StampsIncrease
  BY <1>3 DEF BlockTimesNeverBack, StampsIncrease
<1>7. PinAhead
  BY DEF Init, PinAhead
<1>8. StampNotBeforeBlock
  BY <1>2, <1>3, <1>4 DEF StampNotBeforeBlock
<1>9. LastIsLatest
  BY <1>1, <1>2, <1>3, <1>4, AfterOrder DEF LastIsLatest
<1>10. OneStampPerTransaction
  BY <1>3 DEF OneStampPerTransaction
<1>11. SpentAtTheEnd
  <2>1. now.secs # U64_MAX
    BY <1>2, TimeAssumption DEF U64_MAX
  <2> QED
    BY <1>1, <2>1 DEF SpentAtTheEnd, LastInstant
<1> QED
  BY <1>5, <1>6, <1>7, <1>8, <1>9, <1>10, <1>11 DEF IInv, StampsHold

(* Every step keeps the invariant. *)
LEMMA NextIInv == IInv /\ [Next]_vars => IInv'
<1> SUFFICES ASSUME IInv, [Next]_vars PROVE IInv'
  OBVIOUS
<1>1. TypeOK /\ SpentAtTheEnd /\ ShownStep
  BY StepsShown DEF IInv
<1>2. TypeOK' /\ BlockTimesNeverBack' /\ PinAhead' /\ SpentAtTheEnd'
  BY <1>1, TypeStep, BlockTimesStep, PinAheadStep, SpentStep DEF IInv
<1>3. ASSUME ~spent' PROVE StampsHold'
  <2>1. last_consensus # LastInstant /\ StampsHold
    BY <1>1, <1>3, SpentStep DEF IInv
  <2>2. ShownFacts /\ LaterFacts
    BY <1>1, <1>3, <2>1, ShownStepFacts, ShownLater
  <2> QED
    BY <1>1, <2>1, <2>2, StampNotBeforeStep, StampsIncreaseStep, LastIsLatestStep, OneStampStep
       DEF StampsHold
<1> QED
  BY <1>2, <1>3 DEF IInv

(* Types with their widths, ordered block times and a pin ahead of the     *)
(* head; stamps in order, the last one latest, until LastInstant is spent. *)
THEOREM ChainTimeInvariant == Spec => []IInv
  BY InitIInv, NextIInv, PTL DEF Spec

(* Type correctness: whatever the sequence of pins, offsets and clock      *)
(* readings, the offset stays an i64, block times and the seconds of a     *)
(* stamp stay u64, and nanoseconds stay below a second.                    *)
THEOREM TypeCorrect == Spec => []TypeOK
<1>1. IInv => TypeOK
  BY DEF IInv
<1> QED
  BY <1>1, ChainTimeInvariant, PTL

(* Blocks never go back in time (next_block_timestamp). *)
THEOREM BlocksNeverGoBack == Spec => []BlockTimesNeverBack
<1>1. IInv => BlockTimesNeverBack
  BY DEF IInv
<1> QED
  BY <1>1, ChainTimeInvariant, PTL

(* A pending pin is always still ahead of the head. *)
THEOREM PinStaysAhead == Spec => []PinAhead
<1>1. IInv => PinAhead
  BY DEF IInv
<1> QED
  BY <1>1, ChainTimeInvariant, PTL

(* Until the last instant of the type is handed out, stamps increase, name *)
(* one transaction each and are not before their block (next_consensus,    *)
(* apply_hapi, execute_and_mine).                                          *)
THEOREM TransactionsAreIdentified == Spec => []StampsIdentify
<1>1. IInv => StampsIdentify
  BY DEF IInv, StampsHold, StampsIdentify
<1> QED
  BY <1>1, ChainTimeInvariant, PTL

-----------------------------------------------------------------------------
(* The block that takes a pin carries it (next_block_timestamp): the max   *)
(* with the head's time never changes a pin, because PinAhead holds.       *)
THEOREM PinIsHonoured == Spec => PinHonoured
<1>1. ASSUME IInv, [Next]_vars, blocks' # blocks, next_timestamp # NoPin
      PROVE  blocks'[Len(blocks')].timestamp = next_timestamp
  <2>1. TypeOK /\ PinAhead /\ ShownStep
    BY <1>1, StepsShown DEF IInv
  <2>2. PICK now \in Nows, tx \in BOOLEAN : SealBlock(now, tx)
    BY <1>1, <2>1, BlocksStep
  <2>3. blocks'[Len(blocks')].timestamp = next_block_timestamp(now)
    BY <2>1, <2>2, SealFacts
  <2> QED
    BY <1>1, <2>1, <2>3, BlockTime
<1>2. IInv /\ [Next]_vars
      => [blocks' # blocks /\ next_timestamp # NoPin
          => blocks'[Len(blocks')].timestamp = next_timestamp]_vars
  BY <1>1
<1> QED
  BY <1>2, ChainTimeInvariant, PTL DEF Spec, PinHonoured

(* Until the last instant of the type is handed out, the chain implements  *)
(* the log of increasing consensus timestamps of ConsensusLog.             *)
THEOREM ImplementsConsensusLog == Spec => ImplementsLog
<1>1. Init => Log!Init
  <2> SUFFICES ASSUME Init PROVE Log!Init
    OBVIOUS
  <2>1. PICK now \in Nows :
          /\ blocks = << [timestamp |-> now.secs, consensus |-> now, tx |-> FALSE] >>
          /\ records = << >>
    BY DEF Init
  <2>2. Len(blocks) = 1 /\ blocks[1].consensus = now /\ Len(records) = 0
    BY <2>1
  <2>3. Stamps = {now}
    BY <2>2 DEF Stamps
  <2>4. now \in Timestamp
    BY TimeAssumption
  <2> QED
    BY <2>3, <2>4 DEF Log!Init, Init
<1>2. IInv /\ [Next]_vars => [Log!Next]_<<Stamps, spent>>
  <2> SUFFICES ASSUME IInv, [Next]_vars, <<Stamps, spent>>' # <<Stamps, spent>>
               PROVE  Log!Next
    BY DEF Log!vars
  <2>1. ShownFacts /\ TypeOK /\ SpentAtTheEnd /\ ShownStep
    BY StepsShown, ShownStepFacts DEF IInv
  <2>2. Stamps' = {blocks'[i].consensus : i \in 1 .. Len(blocks')}
                  \cup {records'[j].consensus : j \in 1 .. Len(records')}
    BY DEF Stamps
  <2>3. Stamps \subseteq Stamps'
    <3>1. \A i \in 1 .. Len(blocks) : blocks[i].consensus \in Stamps'
      BY SMTT(120), <2>1, <2>2 DEF ShownFacts
    <3>2. \A j \in 1 .. Len(records) : records[j].consensus \in Stamps'
      BY SMTT(120), <2>1, <2>2 DEF ShownFacts
    <3> QED
      BY <3>1, <3>2 DEF Stamps
  <2>4. Stamps' \subseteq Stamps \cup {last_consensus'}
    <3>1. \A i \in 1 .. Len(blocks') : blocks'[i].consensus \in Stamps \cup {last_consensus'}
      BY <2>1 DEF ShownFacts, NewBlock, Stamps
    <3>2. \A j \in 1 .. Len(records') : records'[j].consensus \in Stamps \cup {last_consensus'}
      BY <2>1 DEF ShownFacts, NewRecord, Stamps
    <3> QED
      BY <2>2, <3>1, <3>2
  <2>5. last_consensus' \in Timestamp
    BY <2>1 DEF ShownFacts
  <2>6. CASE spent'
    BY <2>3, <2>4, <2>5, <2>6 DEF Log!Next, Log!StartOver
  <2>7. CASE ~spent'
    <3>1. ~spent /\ last_consensus # LastInstant /\ LastIsLatest
      BY <2>1, <2>7, SpentStep DEF IInv, StampsHold
    <3>2. LaterFacts
      BY <2>1, <2>7, <3>1, ShownLater
    <3>3. Stamps' # Stamps
      BY <2>1, <2>7, <3>1, SpentStep DEF TypeOK
    <3>4. last_consensus' \in Stamps' /\ After(last_consensus', last_consensus)
      <4>1. \/ \E i \in 1 .. Len(blocks') : NewBlock(i)
            \/ \E j \in 1 .. Len(records') : NewRecord(j)
        <5> SUFFICES ASSUME \A i \in 1 .. Len(blocks') : ~NewBlock(i),
                            \A j \in 1 .. Len(records') : ~NewRecord(j)
                     PROVE  FALSE
          OBVIOUS
        <5>1. \A i \in 1 .. Len(blocks') : blocks'[i].consensus \in Stamps
          BY <2>1 DEF ShownFacts, Stamps
        <5>2. \A j \in 1 .. Len(records') : records'[j].consensus \in Stamps
          BY <2>1 DEF ShownFacts, Stamps
        <5> QED
          BY <2>2, <2>3, <3>3, <5>1, <5>2
      <4> QED
        BY <2>2, <3>2, <4>1 DEF NewBlock, NewRecord, LaterFacts
    <3>5. \A u \in Stamps : After(last_consensus', u)
      BY <2>1, <2>5, <3>1, <3>4, LaterThanAll DEF Stamps
    <3>6. Stamps' = Stamps \cup {last_consensus'}
      BY <2>3, <2>4, <3>4
    <3> QED
      BY <2>5, <2>7, <3>1, <3>4, <3>5, <3>6 DEF Log!Next, Log!Allocate
  <2> QED
    BY <2>6, <2>7
<1> QED
  BY <1>1, <1>2, ChainTimeInvariant, PTL DEF Spec, ImplementsLog, Log!Spec, Log!vars

=============================================================================
