------------------------ MODULE ChainSnapshotsProofs ------------------------
(***************************************************************************)
(* Proofs about ChainSnapshots, for any transaction ids and any number of  *)
(* blocks, snapshots, filters, restarts and reverts.                       *)
(***************************************************************************)
EXTENDS ChainSnapshots, TLAPS

Filter == [kind : {"logs", "blocks"}, from_block : Nat, to_block : Nat, next_block : Nat,
           owner : 1 .. MaxFilings]

Index == UNION {[S -> Nat] : S \in SUBSET TxIds}
Filters == UNION {[S -> Filter] : S \in SUBSET (1 .. MaxFilters)}

Chains == [blocks : Seq(0 .. MaxMined), records : Seq(TxIds), hapi_by_id : Index,
           filters : Filters, next_filter : 0 .. MaxFilters]

(* What the cursor of a filter has passed was returned to its owner.       *)
Delivered(c, returned) ==
  \A id \in DOMAIN c.filters :
    LET f == c.filters[id]
    IN  \A n \in f.from_block .. f.next_block - 1 :
          n <= f.to_block => n + 1 \in DOMAIN c.blocks /\ c.blocks[n + 1] \in returned[f.owner]

NoDuplicates(c) == \A i, j \in DOMAIN c.records : c.records[i] = c.records[j] => i = j

(* A chain, whatever its index says; the ids of its filters come from its  *)
(* counter.                                                                *)
Sound(c, returned) ==
  /\ c \in Chains
  /\ DOMAIN c.filters \subseteq 1 .. c.next_filter
  /\ NoDuplicates(c)
  /\ Delivered(c, returned)

Exact(c) ==
  /\ DOMAIN c.hapi_by_id = {c.records[i] : i \in DOMAIN c.records}
  /\ \A i \in DOMAIN c.records : c.hapi_by_id[c.records[i]] = i

(* Every snapshot is a past of the chain and of every later snapshot.      *)
Past(c, d) == IsPrefixOf(c.blocks, d.blocks) /\ IsPrefixOf(c.records, d.records)

Pasts(c, snaps) ==
  \A k \in DOMAIN snaps :
    /\ Past(snaps[k], c)
    /\ \A j \in DOMAIN snaps : j > k => Past(snaps[k], snaps[j])

(* A chain with its snapshots, in the node or in the file. *)
History(c, snaps, next, returned) ==
  /\ next \in 0 .. MaxSnapshots
  /\ DOMAIN snaps \subseteq 0 .. next - 1
  /\ Sound(c, returned) /\ \A k \in DOMAIN snaps : Sound(snaps[k], returned)
  /\ Pasts(c, snaps)

Counters ==
  /\ mined \in 0 .. MaxMined /\ filed \in 0 .. MaxFilings /\ up \in BOOLEAN
  /\ reported \in [1 .. MaxFilings -> SUBSET (0 .. MaxMined)]

Live == History(chain, snapshots, next_snapshot, reported)

Indexed == Exact(chain) /\ \A k \in DOMAIN snapshots : Exact(snapshots[k])

Saved == file # NoFile => History(file.chain, file.snapshots, file.next_snapshot, reported)

IInv == Counters /\ Live /\ Indexed /\ Saved

-----------------------------------------------------------------------------
(* Facts about one chain.                                                  *)

(* A filter and its id are what install made of them. *)
LEMMA FilterType ==
    ASSUME NEW c \in Chains, NEW id \in DOMAIN c.filters
    PROVE  c.filters[id] \in Filter /\ id \in 1 .. MaxFilters
<1>1. PICK S \in SUBSET (1 .. MaxFilters) : c.filters \in [S -> Filter]
  BY DEF Chains, Filters
<1> QED
  BY <1>1

(* A block of a chain is a token that was mined. *)
LEMMA BlockType ==
    ASSUME NEW c \in Chains, NEW i \in DOMAIN c.blocks
    PROVE  c.blocks[i] \in 0 .. MaxMined
<1>1. \A S : \A s \in Seq(S) : \A k \in DOMAIN s : s[k] \in S
  OBVIOUS
<1>2. c.blocks \in Seq(0 .. MaxMined)
  BY DEF Chains
<1> QED
  BY <1>1, <1>2

(* An empty index is an index. *)
LEMMA NoIndex == << >> \in Index
<1>1. << >> \in [{} -> Nat]
  OBVIOUS
<1> QED
  BY <1>1 DEF Index

(* What was delivered stays delivered when polls return more ... *)
LEMMA SoundStays ==
    ASSUME NEW c, NEW before, NEW after, Sound(c, before),
           \A owner \in 1 .. MaxFilings : before[owner] \subseteq after[owner]
    PROVE  Sound(c, after)
<1>1. \A id \in DOMAIN c.filters : c.filters[id].owner \in 1 .. MaxFilings
  BY FilterType DEF Sound, Filter
<1> QED
  BY <1>1 DEF Sound, Delivered

(* ... and when the chain grows. *)
LEMMA DeliveredOnLongerChain ==
    ASSUME NEW c \in Chains, NEW d \in Chains, NEW returned, Delivered(c, returned),
           d.filters = c.filters, IsPrefixOf(c.blocks, d.blocks)
    PROVE  Delivered(d, returned)
<1>1. DOMAIN c.blocks = 1 .. Len(c.blocks) /\ DOMAIN d.blocks = 1 .. Len(d.blocks)
      /\ Len(c.blocks) \in Nat /\ Len(d.blocks) \in Nat
  BY DEF Chains
<1>2. \A i \in DOMAIN c.blocks : i \in DOMAIN d.blocks /\ d.blocks[i] = c.blocks[i]
  BY <1>1 DEF IsPrefixOf
<1> QED
  BY <1>2 DEF Delivered

(* A chain is a past of itself ... *)
LEMMA PastIsReflexive == ASSUME NEW c \in Chains PROVE Past(c, c)
  BY DEF Past, IsPrefixOf, Chains

(* ... and the past of a past is one. *)
LEMMA PastIsTransitive ==
    ASSUME NEW c \in Chains, NEW d \in Chains, NEW e \in Chains, Past(c, d), Past(d, e)
    PROVE  Past(c, e)
<1>1. \A s, t, u \in Seq(0 .. MaxMined) : IsPrefixOf(s, t) /\ IsPrefixOf(t, u) => IsPrefixOf(s, u)
  BY DEF IsPrefixOf
<1>2. \A s, t, u \in Seq(TxIds) : IsPrefixOf(s, t) /\ IsPrefixOf(t, u) => IsPrefixOf(s, u)
  BY DEF IsPrefixOf
<1> QED
  BY <1>1, <1>2 DEF Past, Chains

(* An index that is dropped leaves the rest of the chain alone ...         *)
LEMMA UnindexedChain ==
    ASSUME NEW c, NEW returned, Sound(c, returned)
    PROVE  /\ Sound(Unindexed(c), returned)
           /\ Unindexed(c).blocks = c.blocks /\ Unindexed(c).records = c.records
<1>1. c \in Chains
  BY DEF Sound
<1>2. /\ Unindexed(c) \in Chains
      /\ Unindexed(c).blocks = c.blocks /\ Unindexed(c).records = c.records
      /\ Unindexed(c).filters = c.filters /\ Unindexed(c).next_filter = c.next_filter
  BY <1>1, NoIndex DEF Unindexed, Chains
<1> QED
  BY <1>2 DEF Sound, NoDuplicates, Delivered

(* ... and so does one that is rebuilt, which is exact.                    *)
LEMMA ReindexedChain ==
    ASSUME NEW c, NEW returned, Sound(c, returned)
    PROVE  /\ Sound(Reindexed(c), returned) /\ Exact(Reindexed(c))
           /\ Reindexed(c).blocks = c.blocks /\ Reindexed(c).records = c.records
<1> DEFINE ids == {c.records[i] : i \in DOMAIN c.records}
           place(t) == CHOOSE i \in DOMAIN c.records :
                         c.records[i] = t /\ \A j \in DOMAIN c.records : c.records[j] = t => j <= i
           index == [t \in ids |-> place(t)]
<1>1. c \in Chains /\ NoDuplicates(c)
  BY DEF Sound
<1>2. c.records \in Seq(TxIds) /\ DOMAIN c.records \subseteq Nat /\ ids \subseteq TxIds
  BY <1>1 DEF Chains
<1>3. \A i \in DOMAIN c.records : place(c.records[i]) = i
  <2> TAKE i \in DOMAIN c.records
  <2>1. \A j \in DOMAIN c.records : c.records[j] = c.records[i] => j <= i
    BY <1>1, <1>2 DEF NoDuplicates
  <2>2. \A k \in DOMAIN c.records : c.records[k] = c.records[i] => k = i
    BY <1>1 DEF NoDuplicates
  <2> QED
    BY <2>1, <2>2
<1>4. index \in [ids -> Nat]
  <2>1. \A t \in ids : place(t) \in Nat
    <3> TAKE t \in ids
    <3>1. PICK i \in DOMAIN c.records : t = c.records[i]
      OBVIOUS
    <3>2. place(t) = i
      BY <1>3, <3>1
    <3> QED
      BY <1>2, <3>2
  <2> HIDE DEF place
  <2> QED
    BY <2>1
<1>5. index \in Index
  BY <1>2, <1>4 DEF Index
<1>6. DOMAIN index = ids /\ \A i \in DOMAIN c.records : index[c.records[i]] = i
  BY <1>3
<1>7. Reindexed(c) = [c EXCEPT !.hapi_by_id = index]
  BY DEF Reindexed
<1> HIDE DEF index
<1>8. /\ Reindexed(c) \in Chains /\ Reindexed(c).hapi_by_id = index
      /\ Reindexed(c).blocks = c.blocks /\ Reindexed(c).records = c.records
      /\ Reindexed(c).filters = c.filters /\ Reindexed(c).next_filter = c.next_filter
  BY <1>1, <1>5, <1>7 DEF Chains
<1>9. Exact(Reindexed(c))
  BY <1>6, <1>8 DEF Exact
<1> QED
  BY <1>8, <1>9 DEF Sound, NoDuplicates, Delivered

-----------------------------------------------------------------------------
(* The steps.                                                              *)

(* A step on the chain: what it was before is a past of what it becomes.   *)
LEMMA ChainMoves ==
    ASSUME IInv, Counters', Sound(chain', reported'), Exact(chain'), Past(chain, chain'),
           UNCHANGED <<snapshots, next_snapshot, file>>,
           \A owner \in 1 .. MaxFilings : reported[owner] \subseteq reported'[owner]
    PROVE  IInv'
<1>1. Live /\ Indexed /\ Saved
  BY DEF IInv
<1>2. \A c : Sound(c, reported) => Sound(c, reported')
  BY SoundStays
<1>3. \A k \in DOMAIN snapshots : Past(snapshots[k], chain')
  BY <1>1, PastIsTransitive DEF Live, History, Pasts, Sound
<1>4. Live'
  BY <1>1, <1>2, <1>3 DEF Live, History, Pasts
<1>5. Indexed'
  BY <1>1 DEF Indexed
<1>6. Saved'
  BY <1>1, <1>2 DEF Saved, History
<1> QED
  BY <1>4, <1>5, <1>6 DEF IInv

(* A block more. *)
LEMMA ClientMine == IInv /\ Mine => IInv'
<1> SUFFICES ASSUME IInv, Mine PROVE IInv'
  OBVIOUS
<1>1. Counters /\ Sound(chain, reported) /\ Exact(chain) /\ chain \in Chains
  BY DEF IInv, Live, History, Indexed, Sound
<1> DEFINE blocks == Append(chain.blocks, mined')
<1>2. /\ blocks \in Seq(0 .. MaxMined) /\ IsPrefixOf(chain.blocks, blocks)
  BY SMTT(120), <1>1, SnapshotAssumption DEF Mine, Counters, Chains, IsPrefixOf
<1>3. chain' = [chain EXCEPT !.blocks = blocks]
  BY DEF Mine
<1> HIDE DEF blocks
<1>4. /\ chain' \in Chains /\ chain'.blocks = blocks /\ chain'.records = chain.records
      /\ chain'.hapi_by_id = chain.hapi_by_id /\ chain'.filters = chain.filters
      /\ chain'.next_filter = chain.next_filter
  BY <1>1, <1>2, <1>3 DEF Chains
<1>5. Sound(chain', reported)
  BY <1>1, <1>2, <1>4, DeliveredOnLongerChain DEF Sound, NoDuplicates
<1>6. Exact(chain') /\ Past(chain, chain')
  BY <1>1, <1>2, <1>4, PastIsReflexive DEF Exact, Past
<1>7. Counters'
  BY <1>1, SnapshotAssumption DEF Mine, Counters
<1> QED
  BY <1>5, <1>6, <1>7, ChainMoves DEF Mine

(* A record more, under an id the index did not know. *)
LEMMA ClientSubmit == ASSUME IInv, NEW txid \in TxIds, Submit(txid) PROVE IInv'
<1>1. Counters /\ Sound(chain, reported) /\ Exact(chain) /\ chain \in Chains
  BY DEF IInv, Live, History, Indexed, Sound
<1> DEFINE records == Append(chain.records, txid)
           index == [t \in DOMAIN chain.hapi_by_id \cup {txid} |->
                       IF t = txid THEN Len(chain.records) + 1 ELSE chain.hapi_by_id[t]]
<1>2. chain' = [chain EXCEPT !.records = records, !.hapi_by_id = index]
  BY DEF Submit
<1>3. chain.records \in Seq(TxIds) /\ DOMAIN chain.records = 1 .. Len(chain.records)
      /\ Len(chain.records) \in Nat
  BY <1>1 DEF Chains
<1>4. records \in Seq(TxIds) /\ IsPrefixOf(chain.records, records)
      /\ DOMAIN records = 1 .. Len(chain.records) + 1 /\ records[Len(chain.records) + 1] = txid
      /\ \A i \in DOMAIN chain.records : records[i] = chain.records[i]
  BY <1>3 DEF IsPrefixOf
<1>5. index \in Index
  <2>1. PICK S \in SUBSET TxIds : chain.hapi_by_id \in [S -> Nat]
    BY <1>1 DEF Chains, Index
  <2>2. index \in [S \cup {txid} -> Nat]
    BY <1>3, <2>1
  <2> QED
    BY <2>2 DEF Index
<1>6. \A i \in DOMAIN chain.records : chain.records[i] # txid
  BY <1>1 DEF Submit, Exact
<1>7. /\ DOMAIN index = DOMAIN chain.hapi_by_id \cup {txid} /\ index[txid] = Len(chain.records) + 1
      /\ \A t \in DOMAIN chain.hapi_by_id : t # txid => index[t] = chain.hapi_by_id[t]
  OBVIOUS
<1> HIDE DEF records, index
<1>8. /\ chain' \in Chains /\ chain'.records = records /\ chain'.blocks = chain.blocks
      /\ chain'.hapi_by_id = index /\ chain'.filters = chain.filters
      /\ chain'.next_filter = chain.next_filter
  BY <1>1, <1>2, <1>4, <1>5 DEF Chains
<1>9. NoDuplicates(chain')
  BY SMTT(120), <1>1, <1>3, <1>4, <1>6, <1>8 DEF NoDuplicates, Sound
<1>10. Sound(chain', reported)
  BY <1>1, <1>8, <1>9 DEF Sound, Delivered
<1>11. Exact(chain')
  <2>1. DOMAIN index = {records[i] : i \in DOMAIN records}
    BY SMTT(120), <1>1, <1>3, <1>4, <1>7 DEF Exact
  <2>2. \A i \in DOMAIN records : index[records[i]] = i
    BY SMTT(120), <1>1, <1>3, <1>4, <1>6, <1>7 DEF Exact
  <2> QED
    BY <1>8, <2>1, <2>2 DEF Exact
<1>12. Past(chain, chain')
  BY <1>1, <1>4, <1>8, PastIsReflexive DEF Past
<1>13. Counters'
  BY <1>1 DEF Submit, Counters
<1> QED
  BY <1>10, <1>11, <1>12, <1>13, ChainMoves DEF Submit

(* A step that changes nothing of the chain but its filters. *)
LEMMA FiltersMove ==
    ASSUME IInv, Counters', chain' \in Chains, UNCHANGED <<snapshots, next_snapshot, file>>,
           chain'.blocks = chain.blocks, chain'.records = chain.records,
           chain'.hapi_by_id = chain.hapi_by_id,
           DOMAIN chain'.filters \subseteq 1 .. chain'.next_filter,
           Delivered(chain', reported'),
           \A owner \in 1 .. MaxFilings : reported[owner] \subseteq reported'[owner]
    PROVE  IInv'
<1>1. Sound(chain, reported) /\ Exact(chain) /\ chain \in Chains
  BY DEF IInv, Live, History, Indexed, Sound
<1>2. Sound(chain', reported')
  BY <1>1 DEF Sound, NoDuplicates
<1>3. Exact(chain') /\ Past(chain, chain')
  BY <1>1, PastIsReflexive DEF Exact, Past
<1> QED
  BY <1>2, <1>3, ChainMoves

(* A new filter has passed nothing yet. *)
LEMMA ClientInstall ==
    ASSUME IInv, NEW filter \in Filter, install(filter), filter.next_block = filter.from_block
    PROVE  IInv'
<1>1. Counters /\ Sound(chain, reported) /\ chain \in Chains
  BY DEF IInv, Live, History, Sound
<1> DEFINE id == chain.next_filter + 1
           filters == [f \in DOMAIN chain.filters \cup {id} |-> IF f = id THEN filter ELSE chain.filters[f]]
<1>2. id \in 1 .. MaxFilters /\ id \in 0 .. MaxFilters /\ chain.next_filter \in Nat
  BY SMTT(120), <1>1, SnapshotAssumption DEF install, Chains
<1>3. chain' = [chain EXCEPT !.next_filter = id, !.filters = filters]
  BY DEF install
<1>4. filters \in Filters
  <2>1. PICK S \in SUBSET (1 .. MaxFilters) : chain.filters \in [S -> Filter]
    BY <1>1 DEF Chains, Filters
  <2>2. filters \in [S \cup {id} -> Filter]
    BY <1>2, <2>1
  <2> QED
    BY ZenonT(120), <1>2, <2>2 DEF Filters
<1>5. /\ DOMAIN filters = DOMAIN chain.filters \cup {id} /\ filters[id] = filter
      /\ \A f \in DOMAIN chain.filters : f # id => filters[f] = chain.filters[f]
  OBVIOUS
<1>6. DOMAIN filters \subseteq 1 .. id
  BY <1>1, <1>2, <1>5 DEF Sound
<1> HIDE DEF id, filters
<1>7. /\ chain' \in Chains /\ chain'.blocks = chain.blocks /\ chain'.records = chain.records
      /\ chain'.hapi_by_id = chain.hapi_by_id /\ chain'.filters = filters /\ chain'.next_filter = id
  BY <1>1, <1>2, <1>3, <1>4 DEF Chains
<1>8. Delivered(chain', reported)
  <2> SUFFICES ASSUME NEW f \in DOMAIN filters,
                      NEW n \in filters[f].from_block .. filters[f].next_block - 1,
                      n <= filters[f].to_block
               PROVE  n + 1 \in DOMAIN chain.blocks /\ chain.blocks[n + 1] \in reported[filters[f].owner]
    BY <1>7 DEF Delivered
  <2>1. f # id
    BY <1>5 DEF Filter
  <2> QED
    BY <1>1, <1>5, <2>1 DEF Sound, Delivered
<1>9. Counters' /\ UNCHANGED <<snapshots, next_snapshot, file, reported>>
  BY <1>1, SnapshotAssumption DEF install, Counters
<1> QED
  BY <1>6, <1>7, <1>8, <1>9, FiltersMove

(* A filter less. *)
LEMMA ClientUninstall == ASSUME IInv, NEW id, UninstallFilter(id) PROVE IInv'
<1>1. Counters /\ Sound(chain, reported) /\ chain \in Chains
  BY DEF IInv, Live, History, Sound
<1> DEFINE filters == [f \in DOMAIN chain.filters \ {id} |-> chain.filters[f]]
<1>2. chain' = [chain EXCEPT !.filters = filters]
  BY DEF UninstallFilter
<1>3. filters \in Filters
  <2>1. PICK S \in SUBSET (1 .. MaxFilters) : chain.filters \in [S -> Filter]
    BY <1>1 DEF Chains, Filters
  <2>2. filters \in [S \ {id} -> Filter]
    BY <2>1
  <2> QED
    BY <2>2 DEF Filters
<1>4. DOMAIN filters \subseteq DOMAIN chain.filters /\ \A f \in DOMAIN filters : filters[f] = chain.filters[f]
  OBVIOUS
<1> HIDE DEF filters
<1>5. /\ chain' \in Chains /\ chain'.blocks = chain.blocks /\ chain'.records = chain.records
      /\ chain'.hapi_by_id = chain.hapi_by_id /\ chain'.filters = filters
      /\ chain'.next_filter = chain.next_filter
  BY SMTT(120), <1>1, <1>2, <1>3 DEF Chains
<1>6. Delivered(chain', reported)
  BY <1>1, <1>4, <1>5 DEF Sound, Delivered
<1>7. Counters' /\ UNCHANGED <<snapshots, next_snapshot, file, reported>>
  BY <1>1 DEF UninstallFilter, Counters
<1> QED
  BY <1>1, <1>4, <1>5, <1>6, <1>7, FiltersMove DEF Sound

(* The cursor moves over what the poll returns. *)
LEMMA ClientPoll == ASSUME IInv, NEW id, Poll(id) PROVE IInv'
<1>1. Counters /\ Sound(chain, reported) /\ chain \in Chains /\ id \in DOMAIN chain.filters
  BY DEF IInv, Live, History, Sound, Poll
<1> DEFINE f == chain.filters[id]
           head == block_number(chain)
           filters == [chain.filters EXCEPT ![id].next_block = head + 1]
<1>2. f \in Filter /\ DOMAIN chain.blocks = 1 .. head + 1 /\ head + 1 \in Nat /\ head \in Int
  BY <1>1, FilterType DEF Chains, block_number
<1>3. chain' = [chain EXCEPT !.filters = filters]
  BY DEF Poll
<1>4. filters \in Filters
  <2>1. PICK S \in SUBSET (1 .. MaxFilters) : chain.filters \in [S -> Filter]
    BY <1>1 DEF Chains, Filters
  <2>2. filters \in [S -> Filter]
    BY <1>2, <2>1 DEF Filter
  <2> QED
    BY <2>2 DEF Filters
<1>5. /\ DOMAIN filters = DOMAIN chain.filters
      /\ \A g \in DOMAIN filters : g # id => filters[g] = chain.filters[g]
      /\ filters[id].from_block = f.from_block /\ filters[id].to_block = f.to_block
      /\ filters[id].owner = f.owner /\ filters[id].next_block = head + 1
  BY <1>1, <1>2 DEF Filter
<1>6. /\ \A owner \in 1 .. MaxFilings : reported[owner] \subseteq reported'[owner]
      /\ FilterChanges(id) \subseteq reported'[f.owner]
  BY <1>1, <1>2 DEF Poll, Counters, Filter
<1>7. FilterChanges(id) \subseteq 0 .. MaxMined
  <2>1. \A m \in DOMAIN chain.blocks : chain.blocks[m] \in 0 .. MaxMined
    BY <1>1, BlockType
  <2>2. \A n \in f.next_block .. head : n + 1 \in DOMAIN chain.blocks
    BY SMTT(120), <1>2 DEF Filter
  <2>3. FilterChanges(id) \subseteq {chain.blocks[n + 1] : n \in f.next_block .. head}
    BY SMTT(120), <1>2 DEF FilterChanges, block_by_number, Filter
  <2> QED
    BY <2>1, <2>2, <2>3
<1>8. Counters'
  BY <1>1, <1>2, <1>7 DEF Poll, Counters, Filter
<1> HIDE DEF filters
<1>9. /\ chain' \in Chains /\ chain'.blocks = chain.blocks /\ chain'.records = chain.records
      /\ chain'.hapi_by_id = chain.hapi_by_id /\ chain'.filters = filters
      /\ chain'.next_filter = chain.next_filter
  BY <1>1, <1>3, <1>4 DEF Chains
<1>10. Delivered(chain', reported')
  <2> SUFFICES ASSUME NEW g \in DOMAIN filters,
                      NEW n \in filters[g].from_block .. filters[g].next_block - 1,
                      n <= filters[g].to_block
               PROVE  n + 1 \in DOMAIN chain.blocks /\ chain.blocks[n + 1] \in reported'[filters[g].owner]
    BY <1>9 DEF Delivered
  <2>1. chain.filters[g] \in Filter
    BY <1>1, <1>5, FilterType
  <2>2. CASE g # id \/ n < f.next_block
    <3>1. /\ filters[g].owner = chain.filters[g].owner /\ chain.filters[g].owner \in 1 .. MaxFilings
          /\ n \in chain.filters[g].from_block .. chain.filters[g].next_block - 1
          /\ n <= chain.filters[g].to_block
      BY SMTT(120), <1>2, <1>5, <2>1, <2>2 DEF Filter
    <3>2. n + 1 \in DOMAIN chain.blocks /\ chain.blocks[n + 1] \in reported[chain.filters[g].owner]
      BY <1>1, <1>5, <3>1 DEF Sound, Delivered
    <3> QED
      BY <1>6, <3>1, <3>2
  <2>3. CASE g = id /\ n >= f.next_block
    <3>1. n \in f.next_block .. head /\ n <= f.to_block
      BY SMTT(120), <1>2, <1>5, <2>3 DEF Filter
    <3>2. chain.blocks[n + 1] \in FilterChanges(id)
      BY <1>2, <3>1 DEF FilterChanges, block_by_number, Filter
    <3> QED
      BY SMTT(120), <1>2, <1>5, <1>6, <2>3, <3>1, <3>2 DEF Filter
  <2> QED
    BY <1>2, <1>5, <2>1, <2>2, <2>3 DEF Filter
<1> QED
  BY <1>1, <1>5, <1>6, <1>8, <1>9, <1>10, FiltersMove DEF Sound, Poll

(* evm_snapshot: the chain is a past of itself. *)
LEMMA ClientSnapshot == IInv /\ Snapshot => IInv'
<1> SUFFICES ASSUME IInv, Snapshot PROVE IInv'
  OBVIOUS
<1>1. Counters /\ Live /\ Indexed /\ Saved
  BY DEF IInv
<1>2. /\ UNCHANGED <<chain, reported, file, mined, filed, up>>
      /\ next_snapshot \in Nat /\ next_snapshot' = next_snapshot + 1
      /\ next_snapshot' \in 0 .. MaxSnapshots
  BY <1>1, SnapshotAssumption DEF Snapshot, Live, History
<1>3. /\ DOMAIN snapshots' = DOMAIN snapshots \cup {next_snapshot}
      /\ snapshots'[next_snapshot] = chain
      /\ \A k \in DOMAIN snapshots : k < next_snapshot /\ k \in Nat /\ snapshots'[k] = snapshots[k]
  BY <1>1, <1>2 DEF Snapshot, Live, History
<1>4. Past(chain, chain)
  BY <1>1, PastIsReflexive DEF Live, History, Sound
<1>5. Pasts(chain, snapshots')
  BY <1>1, <1>2, <1>3, <1>4 DEF Live, History, Pasts
<1>6. Live'
  BY <1>1, <1>2, <1>3, <1>5 DEF Live, History
<1>7. Indexed'
  BY <1>1, <1>2, <1>3 DEF Indexed
<1> QED
  BY <1>1, <1>2, <1>6, <1>7 DEF IInv, Counters, Saved

(* evm_revert: the snapshots kept are pasts of the one that comes back. *)
LEMMA ClientRevert == ASSUME IInv, NEW id, Revert(id) PROVE IInv'
<1>1. Counters /\ Live /\ Indexed /\ Saved
  BY DEF IInv
<1>2. /\ UNCHANGED <<next_snapshot, reported, file, mined, filed, up>>
      /\ id \in DOMAIN snapshots /\ chain' = snapshots[id]
      /\ DOMAIN snapshots' = {j \in DOMAIN snapshots : j < id}
      /\ \A k \in DOMAIN snapshots' : snapshots'[k] = snapshots[k]
  BY DEF Revert
<1>3. Pasts(chain', snapshots')
  BY <1>1, <1>2 DEF Live, History, Pasts
<1>4. Live'
  BY <1>1, <1>2, <1>3 DEF Live, History
<1>5. Indexed'
  BY <1>1, <1>2 DEF Indexed
<1> QED
  BY <1>1, <1>2, <1>4, <1>5 DEF IInv, Counters, Saved

(* A chain and its snapshots that go through the file, one by one. *)
LEMMA Rewritten ==
    ASSUME NEW c, NEW snaps, NEW next, NEW returned, History(c, snaps, next, returned),
           NEW d, NEW news, DOMAIN news = DOMAIN snaps,
           Sound(d, returned), d.blocks = c.blocks, d.records = c.records,
           \A k \in DOMAIN snaps : /\ Sound(news[k], returned)
                                   /\ news[k].blocks = snaps[k].blocks
                                   /\ news[k].records = snaps[k].records
    PROVE  History(d, news, next, returned)
  BY DEF History, Pasts, Past

(* What is written is the chain and its snapshots, their indexes left out. *)
LEMMA NodeStops == IInv /\ Shutdown => IInv'
<1> SUFFICES ASSUME IInv, Shutdown PROVE IInv'
  OBVIOUS
<1>1. Counters /\ Live /\ Indexed
  BY DEF IInv
<1>2. UNCHANGED <<chain, snapshots, next_snapshot, mined, filed, reported>> /\ up' = FALSE
  BY DEF Shutdown
<1>3. /\ file'.chain = Unindexed(chain)
      /\ file'.snapshots = [k \in DOMAIN snapshots |-> Unindexed(snapshots[k])]
      /\ file'.next_snapshot = next_snapshot
  BY DEF Shutdown
<1>4. History(file'.chain, file'.snapshots, file'.next_snapshot, reported)
  BY <1>1, <1>3, UnindexedChain, Rewritten DEF Live, History
<1> QED
  BY <1>1, <1>2, <1>4 DEF IInv, Counters, Live, Indexed, Saved

(* The genesis chain holds nothing to look up or to deliver. *)
LEMMA GenesisIsSound == \A returned : Sound(Genesis, returned) /\ Exact(Genesis)
<1>1. Genesis \in Chains
  <2>1. << >> \in Filters
    <3>1. << >> \in [{} -> Filter]
      OBVIOUS
    <3> QED
      BY <3>1 DEF Filters
  <2>2. << 0 >> \in Seq(0 .. MaxMined)
    BY SnapshotAssumption
  <2>3. << >> \in Seq(TxIds)
    OBVIOUS
  <2> QED
    BY <2>1, <2>2, <2>3, NoIndex, SnapshotAssumption DEF Genesis, Chains
<1>2. DOMAIN Genesis.filters = {} /\ DOMAIN Genesis.records = {} /\ DOMAIN Genesis.hapi_by_id = {}
  BY DEF Genesis
<1> QED
  BY <1>1, <1>2 DEF Sound, Exact, NoDuplicates, Delivered

(* What is read is indexed again, in every snapshot. *)
LEMMA NodeStarts == IInv /\ Boot => IInv'
<1> SUFFICES ASSUME IInv, Boot PROVE IInv'
  OBVIOUS
<1>1. Counters /\ Saved
  BY DEF IInv
<1>2. UNCHANGED <<file, mined, filed, reported>> /\ up' = TRUE
  BY DEF Boot
<1>3. Live' /\ Indexed'
  <2>1. CASE file = NoFile
    <3>1. chain' = Genesis /\ DOMAIN snapshots' = {} /\ next_snapshot' = 0
      BY <2>1 DEF Boot
    <3> QED
      BY <3>1, GenesisIsSound, SnapshotAssumption DEF Live, History, Pasts, Indexed
  <2>2. CASE file # NoFile
    <3>1. /\ chain' = Reindexed(file.chain) /\ next_snapshot' = file.next_snapshot
          /\ DOMAIN snapshots' = DOMAIN file.snapshots
          /\ \A k \in DOMAIN file.snapshots : snapshots'[k] = Reindexed(file.snapshots[k])
      BY <2>2 DEF Boot, ReindexedSnapshots
    <3>2. History(file.chain, file.snapshots, file.next_snapshot, reported)
      BY <1>1, <2>2 DEF Saved
    <3>3. Sound(chain', reported) /\ \A k \in DOMAIN snapshots' : Sound(snapshots'[k], reported)
      BY <3>1, <3>2, ReindexedChain DEF History
    <3>4. /\ chain'.blocks = file.chain.blocks /\ chain'.records = file.chain.records
          /\ \A k \in DOMAIN snapshots' : /\ snapshots'[k].blocks = file.snapshots[k].blocks
                                          /\ snapshots'[k].records = file.snapshots[k].records
      BY <3>1, <3>2, ReindexedChain DEF History
    <3>5. History(chain', snapshots', next_snapshot', reported)
      BY <3>1, <3>2, <3>3, <3>4, Rewritten
    <3>6. Indexed'
      BY <3>1, <3>2, ReindexedChain DEF Indexed, History
    <3> QED
      BY <1>2, <3>5, <3>6 DEF Live
  <2> QED
    BY <2>1, <2>2
<1> QED
  BY <1>1, <1>2, <1>3 DEF IInv, Counters, Saved

-----------------------------------------------------------------------------
(* The invariant and what follows from it.                                 *)

(* Every step keeps the invariant. *)
LEMMA Inductive == IInv /\ [Next]_vars => IInv'
<1> SUFFICES ASSUME IInv, [Next]_vars PROVE IInv'
  OBVIOUS
<1>1. ASSUME NEW from_block \in 0 .. block_number(chain) + MaxAhead, NEW to_block \in Tos,
             InstallLogFilter(from_block, to_block)
      PROVE  IInv'
  <2>1. from_block \in Nat /\ to_block \in Nat /\ filed + 1 \in 1 .. MaxFilings
    BY SMTT(120), <1>1, SnapshotAssumption DEF InstallLogFilter, install, IInv, Counters
  <2> QED
    BY <1>1, <2>1, ClientInstall DEF InstallLogFilter, Filter
<1>2. CASE InstallBlockFilter
  <2>1. block_number(chain) + 1 \in Nat
    BY DEF IInv, Live, History, Sound, Chains, block_number
  <2>2. filed + 1 \in 1 .. MaxFilings /\ MaxMined \in Nat
    BY <1>2, SnapshotAssumption DEF InstallBlockFilter, install, IInv, Counters
  <2> QED
    BY <1>2, <2>1, <2>2, ClientInstall DEF InstallBlockFilter, Filter
<1>3. CASE Crash
  BY <1>3 DEF Crash, IInv, Counters, Live, Indexed, Saved
<1>4. CASE UNCHANGED vars
  BY <1>4 DEF vars, IInv, Counters, Live, Indexed, Saved
<1> QED
  BY <1>1, <1>2, <1>3, <1>4, ClientMine, ClientSubmit, ClientUninstall, ClientPoll, ClientSnapshot,
     ClientRevert, NodeStops, NodeStarts DEF Next

(* A node on its genesis chain, with nothing taken or filed. *)
LEMMA Initially == Init => IInv
<1> SUFFICES ASSUME Init PROVE IInv
  OBVIOUS
<1>1. Counters
  BY SnapshotAssumption DEF Init, Counters
<1>2. DOMAIN snapshots = {} /\ chain = Genesis /\ next_snapshot = 0 /\ file = NoFile
  BY DEF Init
<1> QED
  BY <1>1, <1>2, GenesisIsSound, SnapshotAssumption DEF IInv, Live, History, Pasts, Indexed, Saved

(* What the operations on snapshots, filters and the state file rely on. *)
THEOREM Invariant == Spec => []IInv
  BY Initially, Inductive, PTL DEF Spec

(* Blocks, snapshots, filters and cursors stay of their types through     *)
(* reverts, dumps, crashes and boots.                                      *)
THEOREM TypeCorrect == Spec => []TypeOK
<1>1. IInv => TypeOK
  <2> SUFFICES ASSUME IInv PROVE TypeOK
    OBVIOUS
  <2>1. \A c \in Reachable : c \in Chains /\ DOMAIN c.filters \subseteq 1 .. c.next_filter
    BY DEF IInv, Live, History, Sound, Reachable
  <2>2. \A c \in Reachable : \A id \in DOMAIN c.filters : c.filters[id].next_block \in Nat
    BY <2>1, FilterType DEF Filter
  <2>3. \A c \in Reachable : c.blocks \in Seq(0 .. MaxMined) /\ c.records \in Seq(TxIds)
                             /\ c.next_filter \in 0 .. MaxFilters
    BY <2>1 DEF Chains
  <2>4. DOMAIN snapshots \subseteq 0 .. MaxSnapshots - 1 /\ next_snapshot \in 0 .. MaxSnapshots
    BY SnapshotAssumption DEF IInv, Live, History
  <2> QED
    BY <2>1, <2>2, <2>3, <2>4 DEF TypeOK, IInv, Counters
<1> QED
  BY <1>1, Invariant, PTL

(* A transaction id reaches consensus once in every history a client can   *)
(* get back to, and the index that refuses the second is exact, whatever   *)
(* reverts, restarts and reverts to snapshots from the file went before.   *)
THEOREM DuplicatesRefused == Spec => []DuplicatesAreRefused
<1>1. IInv => DuplicatesAreRefused
  <2> SUFFICES ASSUME IInv PROVE DuplicatesAreRefused
    OBVIOUS
  <2>1. \A c \in Reachable : NoDuplicates(c) /\ Exact(c)
    BY DEF IInv, Live, History, Sound, Indexed, Reachable
  <2> QED
    BY <2>1 DEF DuplicatesAreRefused, IndexExact, NoDuplicateIds, NoDuplicates, Exact
<1> QED
  BY <1>1, Invariant, PTL

(* No block that the cursor of a filter has passed was kept from its       *)
(* owner, on the chain as it is now.                                       *)
THEOREM NothingMissed == Spec => []FiltersMissNothing
<1>1. IInv => FiltersMissNothing
  <2> SUFFICES ASSUME IInv PROVE FiltersMissNothing
    OBVIOUS
  <2>1. Delivered(chain, reported) /\ chain \in Chains
    BY DEF IInv, Live, History, Sound
  <2>2. DOMAIN chain.blocks = 1 .. Len(chain.blocks) /\ Len(chain.blocks) \in Nat
    BY <2>1 DEF Chains
  <2>3. \A id \in DOMAIN chain.filters : chain.filters[id].from_block \in Nat
    BY <2>1, FilterType DEF Filter
  <2> QED
    BY <2>1, <2>2, <2>3 DEF FiltersMissNothing, Delivered, block_number, block_by_number
<1> QED
  BY <1>1, Invariant, PTL

(* A snapshot id names one past of the chain for as long as it is kept: no *)
(* step hands out an id a second time while the node runs, and the blocks  *)
(* and records of a snapshot stay a prefix of all that came later.         *)
THEOREM GoingBack == Spec => SnapshotsGoBack
<1>1. IInv => SnapshotsArePrefixes
  BY SMTT(120) DEF IInv, Live, History, Pasts, Past, SnapshotsArePrefixes
<1>2. IInv /\ [Next]_vars =>
        [up /\ up' => /\ next_snapshot' >= next_snapshot
                      /\ DOMAIN snapshots' \ DOMAIN snapshots \subseteq {next_snapshot}]_vars
  <2> SUFFICES ASSUME IInv, Next, up, up'
               PROVE  /\ next_snapshot' >= next_snapshot
                      /\ DOMAIN snapshots' \ DOMAIN snapshots \subseteq {next_snapshot}
    OBVIOUS
  <2>1. next_snapshot \in Nat
    BY DEF IInv, Live, History
  <2>2. CASE UNCHANGED <<next_snapshot, snapshots>>
    BY <2>1, <2>2
  <2>3. CASE Snapshot
    BY <2>1, <2>3 DEF Snapshot
  <2>4. ASSUME NEW id, Revert(id)
        PROVE  next_snapshot' >= next_snapshot /\ DOMAIN snapshots' \subseteq DOMAIN snapshots
    BY <2>1, <2>4 DEF Revert
  <2> QED
    BY <2>2, <2>3, <2>4 DEF Next, Mine, Submit, InstallLogFilter, InstallBlockFilter, install,
       UninstallFilter, Poll, Shutdown, Crash, Boot
<1>3. Spec => SnapshotIdsIncrease
  BY <1>2, Invariant, PTL DEF Spec, SnapshotIdsIncrease
<1>4. Spec => [][SnapshotsArePrefixes']_vars
  BY <1>1, Invariant, PTL
<1> QED
  BY <1>3, <1>4 DEF SnapshotsGoBack
=============================================================================
