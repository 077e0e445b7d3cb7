------------------------- MODULE AttemptLedgerProofs ------------------------
(***************************************************************************)
(* Proofs about AttemptLedger, for every cap, attempt budget and number of *)
(* increments: the ledger an attempt is judged by is exact, the counts     *)
(* behind its mark are never lost, and what was undone is undone.          *)
(***************************************************************************)
EXTENDS AttemptLedger, SequenceTheorems, TLAPS

Outcomes == {"success", "failed"}
HapiRecords == [tok : Nat, ethereum : BOOLEAN, ok : BOOLEAN, hash : Nat]
MinedBlocks == [tx : Nat, ok : BOOLEAN]
Answers == [tok : Nat, outcome : Outcomes]

(* What a chain can look like. *)
Chains ==
    [records : Seq(HapiRecords), blocks : Seq(MinedBlocks), rejections : Seq(Nat),
     rejections_dropped : Nat, max_rejections : Caps \cup {0}, log : Seq(Answers),
     refused : Seq(Nat)]

Marks == [records : Nat, blocks : Nat, rejections : Nat, log : Nat, refused : Nat]
Ids == 0 .. MaxSnapshots - 1
Snapshots == UNION {[I -> Chains] : I \in SUBSET Ids}

(* What is loaded at a start, and what a session keeps. *)
Loads ==
    {l \in [chain : Chains, snapshots : Snapshots, next_snapshot : 0 .. MaxSnapshots] :
        DOMAIN l.snapshots \subseteq 0 .. l.next_snapshot - 1}
Sessions == [dump : Loads \cup {NoDump}, slice_index : 0 .. Slices - 1]
Attempts == [mark : Marks, snapshot : {NoSnapshot} \cup Ids, first : 0 .. MaxSnapshots]
Phases == {"off", "ready", "running", "passed", "failed", "aborted"}

-----------------------------------------------------------------------------
(* The lists of a chain agree with the answers it gave: a row is an        *)
(* answer, an answer has a row, no submission has two rows in one list,    *)
(* and one with a row in both lists is the record's own hash.              *)
RowsAreAnswers(c) ==
    /\ \A k \in DOMAIN c.records : \E l \in DOMAIN c.log :
        c.log[l] = [tok |-> c.records[k].tok, outcome |-> Ended(c.records[k].ok)]
    /\ \A k \in DOMAIN c.blocks : c.blocks[k].tx # NoHash => \E l \in DOMAIN c.log :
        c.log[l] = [tok |-> c.blocks[k].tx, outcome |-> Ended(c.blocks[k].ok)]

AnswersHaveRows(c) ==
    \A l \in DOMAIN c.log :
        \/ \E k \in DOMAIN c.records : c.records[k].tok = c.log[l].tok
        \/ \E k \in DOMAIN c.blocks : c.blocks[k].tx = c.log[l].tok

OneRowEach(c) ==
    /\ \A k, l \in DOMAIN c.records : c.records[k].tok = c.records[l].tok => k = l
    /\ \A k, l \in DOMAIN c.blocks :
        c.blocks[k].tx = c.blocks[l].tx /\ c.blocks[k].tx # NoHash => k = l
    /\ \A k, l \in DOMAIN c.log : c.log[k].tok = c.log[l].tok => k = l
    /\ \A k, l \in DOMAIN c.refused : c.refused[k] = c.refused[l] => k = l
    /\ \A k \in DOMAIN c.log, l \in DOMAIN c.refused : c.log[k].tok # c.refused[l]

SharedByHash(c) ==
    /\ \A k \in DOMAIN c.records : c.records[k].hash \in {NoHash, c.records[k].tok}
    /\ \A k \in DOMAIN c.records, l \in DOMAIN c.blocks :
        c.blocks[l].tx = c.records[k].tok => c.records[k].hash = c.records[k].tok

(* Submissions are numbered from 1, and a chain holds none yet to come.    *)
UpTo(c, n) ==
    /\ \A k \in DOMAIN c.records : c.records[k].tok \in 1 .. n
    /\ \A k \in DOMAIN c.blocks : c.blocks[k].tx \in 0 .. n
    /\ \A k \in DOMAIN c.log : c.log[k].tok \in 1 .. n
    /\ \A k \in DOMAIN c.refused : c.refused[k] \in 1 .. n

(* Refusals kept are the newest, as many as the cap allows.                *)
Capped(c) ==
    /\ rejections_seen(c) = Len(c.refused)
    /\ \A k \in DOMAIN c.rejections : c.rejections[k] = c.refused[k + c.rejections_dropped]
    /\ c.max_rejections = 0 => c.rejections_dropped = 0
    /\ c.max_rejections # 0 =>
        /\ Len(c.rejections) <= c.max_rejections
        /\ c.rejections_dropped # 0 => Len(c.rejections) = c.max_rejections

Whole(c, n) ==
    /\ UpTo(c, n) /\ RowsAreAnswers(c) /\ AnswersHaveRows(c) /\ OneRowEach(c)
    /\ SharedByHash(c) /\ Capped(c)

WithSnapshots(c, snaps, n) == Whole(c, n) /\ \A k \in DOMAIN snaps : Whole(snaps[k], n)

(* c goes on from b: its lists begin with those of b ...                   *)
Begins(s, t) == Len(s) <= Len(t) /\ \A k \in 1 .. Len(s) : t[k] = s[k]

Extends(c, b) ==
    /\ Begins(b.records, c.records) /\ Begins(b.blocks, c.blocks)
    /\ Begins(b.log, c.log) /\ Begins(b.refused, c.refused)

(* ... and what follows is about other submissions than those b answered.  *)
Later(c, b) ==
    \A l \in DOMAIN b.log :
        /\ \A k \in Past(c.records, Len(b.records)) : c.records[k].tok # b.log[l].tok
        /\ \A k \in Past(c.blocks, Len(b.blocks)) : c.blocks[k].tx # b.log[l].tok

Follows(c, b) == Extends(c, b) /\ Later(c, b)

-----------------------------------------------------------------------------
Typed ==
    /\ chain \in Chains
    /\ snapshots \in Snapshots
    /\ next_snapshot \in 0 .. MaxSnapshots
    /\ DOMAIN snapshots \subseteq 0 .. next_snapshot - 1
    /\ per_attempt \in BOOLEAN
    /\ phase \in Phases
    /\ slice \in 0 .. Slices - 1
    /\ attempts \in 0 .. MaxAttempts
    /\ attempt \in Attempts
    /\ reverted \in BOOLEAN
    /\ session \in Sessions
    /\ sent \in Nat
    /\ boots \in Nat
    /\ begun \in Chains
    /\ wentBack \in BOOLEAN
    /\ dead \subseteq 0 .. next_snapshot - 1

(* Every chain that can be come back to is whole.                          *)
AllWhole ==
    /\ WithSnapshots(chain, snapshots, sent)
    /\ Whole(begun, sent)
    /\ session.dump # NoDump => WithSnapshots(session.dump.chain, session.dump.snapshots, sent)

Trying == phase \in {"running", "passed", "failed", "aborted"}

(* In an attempt the mark is of the chain it began on.  Unless a client    *)
(* went back further, the chain and the snapshots taken since go on from   *)
(* there.  The attempt's own snapshot, while it exists, is that chain.     *)
Attempted ==
    Trying =>
        /\ attempt.mark = MarkOf(begun)
        /\ attempt.first <= next_snapshot
        /\ attempt.snapshot \in {NoSnapshot, attempt.first} /\ attempt.snapshot < next_snapshot
        /\ attempt.snapshot \in DOMAIN snapshots => snapshots[attempt.snapshot] = begun
        /\ ~wentBack =>
            /\ Follows(chain, begun)
            /\ \A k \in DOMAIN snapshots : k >= attempt.first => Follows(snapshots[k], begun)

Gone == dead \cap DOMAIN snapshots = {}

IInv == Typed /\ AllWhole /\ Attempted /\ Gone
-----------------------------------------------------------------------------
(* t is s, or s with e added at its end. *)
Added(t, s, e) ==
    /\ Begins(s, t) /\ DOMAIN s \subseteq DOMAIN t
    /\ \A k \in DOMAIN s : t[k] = s[k]
    /\ \A k \in DOMAIN t \ DOMAIN s : t[k] = e
    /\ \A k, l \in DOMAIN t \ DOMAIN s : k = l
    /\ \A k \in Past(t, Len(s)) : k \in DOMAIN t \ DOMAIN s

(* What appending does. *)
LEMMA Appended ==
    ASSUME NEW S, NEW s \in Seq(S), NEW e \in S
    PROVE  /\ Append(s, e) \in Seq(S) /\ Len(Append(s, e)) = Len(s) + 1
           /\ Added(Append(s, e), s, e)
           /\ Append(s, e)[Len(s) + 1] = e
           /\ \E k \in DOMAIN Append(s, e) : k \notin DOMAIN s
<1> DEFINE t == Append(s, e)
<1>1. t \in Seq(S) /\ Len(t) = Len(s) + 1 /\ Len(s) \in Nat
  OBVIOUS
<1>2. DOMAIN s = 1 .. Len(s) /\ DOMAIN t = 1 .. Len(s) + 1
  BY <1>1
<1>3. (\A k \in 1 .. Len(s) : t[k] = s[k]) /\ t[Len(s) + 1] = e
  BY <1>1
<1> HIDE DEF t
<1>4. Added(t, s, e)
  BY <1>1, <1>2, <1>3 DEF Added, Begins, Past
<1>5. Len(s) + 1 \in DOMAIN t /\ Len(s) + 1 \notin DOMAIN s
  BY <1>1, <1>2
<1> QED
  BY <1>1, <1>3, <1>4, <1>5 DEF t

(* A list with nothing added. *)
LEMMA NotAdded ==
    ASSUME NEW S, NEW s \in Seq(S), NEW e
    PROVE  Added(s, s, e)
<1>1. Len(s) \in Nat /\ DOMAIN s = 1 .. Len(s)
  OBVIOUS
<1> QED
  BY <1>1 DEF Added, Begins, Past

(* The fields of a chain. *)
LEMMA Fields ==
    ASSUME NEW c \in Chains
    PROVE  /\ c.records \in Seq(HapiRecords) /\ c.blocks \in Seq(MinedBlocks)
           /\ c.rejections \in Seq(Nat) /\ c.rejections_dropped \in Nat
           /\ c.max_rejections \in Caps \cup {0} /\ c.max_rejections \in Nat
           /\ c.log \in Seq(Answers) /\ c.refused \in Seq(Nat)
<1>1. /\ c.records \in Seq(HapiRecords) /\ c.blocks \in Seq(MinedBlocks)
      /\ c.rejections \in Seq(Nat) /\ c.rejections_dropped \in Nat
      /\ c.log \in Seq(Answers) /\ c.refused \in Seq(Nat)
  BY DEF Chains
<1>2. c.max_rejections \in Caps \cup {0}
  BY DEF Chains
<1>3. Caps \cup {0} \subseteq Nat
  BY AttemptAssumption
<1> QED
  BY <1>1, <1>2, <1>3

(* Their lengths and places. *)
LEMMA Lengths ==
    ASSUME NEW c \in Chains
    PROVE  /\ Len(c.records) \in Nat /\ DOMAIN c.records = 1 .. Len(c.records)
           /\ Len(c.blocks) \in Nat /\ DOMAIN c.blocks = 1 .. Len(c.blocks)
           /\ Len(c.rejections) \in Nat /\ DOMAIN c.rejections = 1 .. Len(c.rejections)
           /\ Len(c.log) \in Nat /\ DOMAIN c.log = 1 .. Len(c.log)
           /\ Len(c.refused) \in Nat /\ DOMAIN c.refused = 1 .. Len(c.refused)
<1>1. /\ c.records \in Seq(HapiRecords) /\ c.blocks \in Seq(MinedBlocks)
      /\ c.rejections \in Seq(Nat) /\ c.log \in Seq(Answers) /\ c.refused \in Seq(Nat)
  BY Fields
<1> QED
  BY SMTT(120), <1>1

(* A row added for a submission that is new leaves a chain whole.          *)
LEMMA Carried ==
    ASSUME NEW c \in Chains, NEW d \in Chains, NEW n \in Nat,
           NEW r \in HapiRecords, NEW b \in MinedBlocks, NEW a \in Answers,
           r.tok = n + 1, b.tx = n + 1, r.hash \in {NoHash, n + 1}, b.ok = r.ok,
           a = [tok |-> n + 1, outcome |-> Ended(r.ok)],
           Added(d.records, c.records, r), Added(d.blocks, c.blocks, b), Added(d.log, c.log, a),
           \/ \E k \in DOMAIN d.records : k \notin DOMAIN c.records
           \/ \E k \in DOMAIN d.blocks : k \notin DOMAIN c.blocks,
           \E k \in DOMAIN d.log : k \notin DOMAIN c.log,
           DOMAIN d.records = DOMAIN c.records \/ r.hash = n + 1 \/ DOMAIN d.blocks = DOMAIN c.blocks,
           d.refused = c.refused, d.rejections = c.rejections,
           d.rejections_dropped = c.rejections_dropped, d.max_rejections = c.max_rejections,
           Whole(c, n)
    PROVE  Whole(d, n + 1)
<1>c. /\ \A k \in DOMAIN c.records : c.records[k] \in HapiRecords /\ c.records[k].tok \in 1 .. n
      /\ \A k \in DOMAIN c.blocks : c.blocks[k] \in MinedBlocks /\ c.blocks[k].tx \in 0 .. n
      /\ \A k \in DOMAIN c.log : c.log[k] \in Answers /\ c.log[k].tok \in 1 .. n
      /\ \A k \in DOMAIN c.refused : c.refused[k] \in 1 .. n
  <2>1. UpTo(c, n)
    BY DEF Whole
  <2> QED
    BY SMTT(120), <2>1, Fields DEF UpTo
<1>r. /\ \A k \in DOMAIN c.records : k \in DOMAIN d.records /\ d.records[k] = c.records[k]
      /\ \A k \in DOMAIN d.records : k \notin DOMAIN c.records => d.records[k] = r
      /\ \A k, l \in DOMAIN d.records : k \notin DOMAIN c.records /\ l \notin DOMAIN c.records => k = l
  BY DEF Added
<1>b. /\ \A k \in DOMAIN c.blocks : k \in DOMAIN d.blocks /\ d.blocks[k] = c.blocks[k]
      /\ \A k \in DOMAIN d.blocks : k \notin DOMAIN c.blocks => d.blocks[k] = b
      /\ \A k, l \in DOMAIN d.blocks : k \notin DOMAIN c.blocks /\ l \notin DOMAIN c.blocks => k = l
  BY DEF Added
<1>l. /\ \A k \in DOMAIN c.log : k \in DOMAIN d.log /\ d.log[k] = c.log[k]
      /\ \A k \in DOMAIN d.log : k \notin DOMAIN c.log => d.log[k] = a
      /\ \A k, l \in DOMAIN d.log : k \notin DOMAIN c.log /\ l \notin DOMAIN c.log => k = l
  BY DEF Added
<1>a. a.tok = n + 1
  OBVIOUS
<1>1. UpTo(d, n + 1)
  BY <1>c, <1>r, <1>b, <1>l, <1>a DEF UpTo
<1>2. RowsAreAnswers(d)
  <2>1. ASSUME NEW k \in DOMAIN d.records
        PROVE  \E l \in DOMAIN d.log :
                 d.log[l] = [tok |-> d.records[k].tok, outcome |-> Ended(d.records[k].ok)]
    <3>1. CASE k \in DOMAIN c.records
      BY <3>1, <1>r, <1>l DEF Whole, RowsAreAnswers
    <3>2. CASE k \notin DOMAIN c.records
      BY <3>2, <1>r, <1>l
    <3> QED
      BY <3>1, <3>2
  <2>2. ASSUME NEW k \in DOMAIN d.blocks, d.blocks[k].tx # NoHash
        PROVE  \E l \in DOMAIN d.log :
                 d.log[l] = [tok |-> d.blocks[k].tx, outcome |-> Ended(d.blocks[k].ok)]
    <3>1. CASE k \in DOMAIN c.blocks
      BY <2>2, <3>1, <1>b, <1>l DEF Whole, RowsAreAnswers
    <3>2. CASE k \notin DOMAIN c.blocks
      BY <3>2, <1>b, <1>l
    <3> QED
      BY <3>1, <3>2
  <2> QED
    BY <2>1, <2>2 DEF RowsAreAnswers
<1>3. AnswersHaveRows(d)
  <2> SUFFICES ASSUME NEW l \in DOMAIN d.log
               PROVE  \/ \E k \in DOMAIN d.records : d.records[k].tok = d.log[l].tok
                      \/ \E k \in DOMAIN d.blocks : d.blocks[k].tx = d.log[l].tok
    BY DEF AnswersHaveRows
  <2>1. CASE l \in DOMAIN c.log
    BY <2>1, <1>l, <1>r, <1>b DEF Whole, AnswersHaveRows
  <2>2. CASE l \notin DOMAIN c.log
    BY <2>2, <1>l, <1>r, <1>b, <1>a
  <2> QED
    BY <2>1, <2>2
<1>4. OneRowEach(d)
  <2>0. n + 1 \notin 0 .. n /\ n + 1 # NoHash
    BY DEF NoHash
  <2>1. ASSUME NEW k \in DOMAIN d.records, NEW l \in DOMAIN d.records, d.records[k].tok = d.records[l].tok
        PROVE  k = l
    BY <2>0, <2>1, <1>c, <1>r DEF Whole, OneRowEach
  <2>2. ASSUME NEW k \in DOMAIN d.blocks, NEW l \in DOMAIN d.blocks, d.blocks[k].tx = d.blocks[l].tx,
               d.blocks[k].tx # NoHash
        PROVE  k = l
    BY <2>0, <2>2, <1>c, <1>b DEF Whole, OneRowEach
  <2>3. ASSUME NEW k \in DOMAIN d.log, NEW l \in DOMAIN d.log, d.log[k].tok = d.log[l].tok
        PROVE  k = l
    BY <2>0, <2>3, <1>c, <1>l, <1>a DEF Whole, OneRowEach
  <2>4. ASSUME NEW k \in DOMAIN d.log, NEW l \in DOMAIN d.refused PROVE d.log[k].tok # d.refused[l]
    BY <2>0, <1>c, <1>l, <1>a DEF Whole, OneRowEach
  <2> QED
    BY <2>1, <2>2, <2>3, <2>4 DEF OneRowEach, Whole
<1>5. SharedByHash(d)
  <2>0. n + 1 \notin 0 .. n
    OBVIOUS
  <2>1. ASSUME NEW k \in DOMAIN d.records PROVE d.records[k].hash \in {NoHash, d.records[k].tok}
    BY <1>r DEF Whole, SharedByHash
  <2>2. ASSUME NEW k \in DOMAIN d.records, NEW l \in DOMAIN d.blocks, d.blocks[l].tx = d.records[k].tok
        PROVE  d.records[k].hash = d.records[k].tok
    <3>1. CASE k \in DOMAIN c.records
      <4>1. l \in DOMAIN c.blocks
        BY <2>0, <2>2, <3>1, <1>c, <1>r, <1>b
      <4> QED
        BY <2>2, <3>1, <4>1, <1>r, <1>b DEF Whole, SharedByHash
    <3>2. CASE k \notin DOMAIN c.records
      <4>1. l \notin DOMAIN c.blocks
        BY <2>0, <2>2, <3>2, <1>c, <1>r, <1>b
      <4> QED
        BY <3>2, <4>1, <1>r
    <3> QED
      BY <3>1, <3>2
  <2> QED
    BY <2>1, <2>2 DEF SharedByHash
<1>6. Capped(d)
  BY DEF Whole, Capped, rejections_seen
<1> QED
  BY <1>1, <1>2, <1>3, <1>4, <1>5, <1>6 DEF Whole

(* Skipping rows of a list. *)
LEMMA Skipped ==
    ASSUME NEW S, NEW s \in Seq(S), NEW n \in Nat
    PROVE  /\ Skip(s, n) \in Seq(S)
           /\ Len(Skip(s, n)) = IF n <= Len(s) THEN Len(s) - n ELSE 0
           /\ \A k \in 1 .. Len(Skip(s, n)) : k + n \in 1 .. Len(s) /\ Skip(s, n)[k] = s[k + n]
<1>1. Len(s) \in Nat /\ \A k \in n + 1 .. Len(s) : s[k] \in S
  OBVIOUS
<1>2. /\ SubSeq(s, n + 1, Len(s)) \in Seq(S)
      /\ Len(SubSeq(s, n + 1, Len(s))) = IF n + 1 <= Len(s) THEN Len(s) - (n + 1) + 1 ELSE 0
      /\ \A k \in 1 .. Len(s) - (n + 1) + 1 : SubSeq(s, n + 1, Len(s))[k] = s[n + 1 + k - 1]
  BY <1>1, SubSeqProperties
<1> DEFINE t == SubSeq(s, n + 1, Len(s))
<1>3. Len(t) = IF n <= Len(s) THEN Len(s) - n ELSE 0
  BY <1>1, <1>2
<1>4. ASSUME NEW k \in 1 .. Len(t) PROVE k + n \in 1 .. Len(s) /\ t[k] = s[k + n]
  <2>1. n <= Len(s) /\ Len(t) = Len(s) - n /\ k \in 1 .. Len(s) - (n + 1) + 1 /\ n + 1 + k - 1 = k + n
    BY <1>1, <1>3
  <2> HIDE DEF t
  <2> QED
    BY <2>1, <1>1, <1>2 DEF t
<1> QED
  BY <1>2, <1>3, <1>4 DEF Skip

(* One more refusal. *)
LEMMA Rejected ==
    ASSUME NEW c \in Chains, NEW n \in Nat, Whole(c, n)
    PROVE  /\ reject(c, n + 1) \in Chains
           /\ Whole(reject(c, n + 1), n + 1)
           /\ reject(c, n + 1).records = c.records /\ reject(c, n + 1).blocks = c.blocks
           /\ reject(c, n + 1).log = c.log
           /\ Begins(c.refused, reject(c, n + 1).refused)
<1> DEFINE all  == Append(c.rejections, n + 1)
           over == IF c.max_rejections = 0 \/ Len(all) <= c.max_rejections
                   THEN 0 ELSE Len(all) - c.max_rejections
           kept == Skip(all, over)
           refused == Append(c.refused, n + 1)
           d == reject(c, n + 1)
<1>f. /\ c.rejections \in Seq(Nat) /\ c.rejections_dropped \in Nat /\ c.max_rejections \in Nat
      /\ c.refused \in Seq(Nat) /\ n + 1 \in Nat
      /\ Len(c.rejections) \in Nat /\ Len(c.refused) \in Nat
  BY Fields
<1>a. /\ all \in Seq(Nat) /\ Len(all) = Len(c.rejections) + 1 /\ Added(all, c.rejections, n + 1)
      /\ all[Len(c.rejections) + 1] = n + 1
  BY <1>f, Appended
<1>r. /\ refused \in Seq(Nat) /\ Len(refused) = Len(c.refused) + 1
      /\ Added(refused, c.refused, n + 1) /\ refused[Len(c.refused) + 1] = n + 1
  BY <1>f, Appended
<1>o. /\ over \in Nat /\ over <= Len(all)
      /\ c.max_rejections = 0 \/ Len(all) <= c.max_rejections => over = 0
      /\ c.max_rejections # 0 /\ Len(all) > c.max_rejections => over = Len(all) - c.max_rejections
  BY SMTT(120), <1>f, <1>a
<1>k. /\ kept \in Seq(Nat) /\ Len(kept) = Len(all) - over
      /\ \A k \in 1 .. Len(kept) : k + over \in 1 .. Len(all) /\ kept[k] = all[k + over]
  BY ZenonT(120), <1>a, <1>o, Skipped
<1>d. /\ d \in Chains
      /\ d.records = c.records /\ d.blocks = c.blocks /\ d.log = c.log
      /\ d.rejections = kept /\ d.rejections_dropped = c.rejections_dropped + over
      /\ d.refused = refused /\ d.max_rejections = c.max_rejections
  <2>1. d = [c EXCEPT !.rejections = kept, !.rejections_dropped = c.rejections_dropped + over,
                      !.refused = refused]
    BY Zenon DEF reject, Chains
  <2>2. c.rejections_dropped + over \in Nat
    BY <1>f, <1>o
  <2> HIDE DEF d, kept, refused, over
  <2> QED
    BY <2>1, <2>2, <1>k, <1>r DEF Chains
<1> HIDE DEF d, kept, over, all, refused
<1>m. /\ c.rejections_dropped \in Nat /\ c.max_rejections \in Nat /\ over \in Nat
      /\ Len(c.rejections) \in Nat /\ Len(c.refused) \in Nat
  BY <1>f, <1>o
<1>c. Capped(d)
  <2>0. /\ c.rejections_dropped + Len(c.rejections) = Len(c.refused)
        /\ \A k \in DOMAIN c.rejections : c.rejections[k] = c.refused[k + c.rejections_dropped]
        /\ c.max_rejections = 0 => c.rejections_dropped = 0
        /\ c.max_rejections # 0 =>
             /\ Len(c.rejections) <= c.max_rejections
             /\ c.rejections_dropped # 0 => Len(c.rejections) = c.max_rejections
    BY DEF Whole, Capped, rejections_seen
  <2>e. c.rejections_dropped + Len(c.rejections) = Len(c.refused)
    BY <2>0
  <2>1. d.rejections_dropped + Len(d.rejections) = Len(d.refused)
    <3>1. /\ d.rejections_dropped = c.rejections_dropped + over
          /\ Len(d.rejections) = Len(all) - over /\ Len(all) = Len(c.rejections) + 1
          /\ Len(d.refused) = Len(c.refused) + 1
      BY <1>d, <1>a, <1>r, <1>k
    <3>2. \A x, y, z, w \in Int : x + y = z => (x + w) + ((y + 1) - w) = z + 1
      OBVIOUS
    <3>3. (c.rejections_dropped + over) + ((Len(c.rejections) + 1) - over) = Len(c.refused) + 1
      BY SMTT(120), <3>2, <2>e, <1>m
    <3> QED
      BY <3>1, <3>3
  <2>2. ASSUME NEW k \in DOMAIN d.rejections
        PROVE  d.rejections[k] = d.refused[k + d.rejections_dropped]
    <3> DEFINE j == k + over
    <3>1. k \in 1 .. Len(kept)
      BY <1>d, <1>k
    <3>2. j \in 1 .. Len(all) /\ d.rejections[k] = all[j] /\ k \in Int
      BY <3>1, <1>d, <1>k
    <3>3. k + d.rejections_dropped = j + c.rejections_dropped /\ j \in Int
      BY <3>1, <1>d, <1>f, <1>o
    <3> HIDE DEF j
    <3>4. CASE j \in 1 .. Len(c.rejections)
      <4>1. j \in DOMAIN c.rejections /\ j + c.rejections_dropped \in DOMAIN c.refused
        <5>1. DOMAIN c.rejections = 1 .. Len(c.rejections) /\ DOMAIN c.refused = 1 .. Len(c.refused)
          BY <1>f
        <5> QED
          BY SMTT(120), <5>1, <3>4, <1>f, <2>0
      <4>2. all[j] = c.rejections[j] /\ refused[j + c.rejections_dropped] = c.refused[j + c.rejections_dropped]
        BY <4>1, <1>a, <1>r DEF Added
      <4>3. c.rejections[j] = c.refused[j + c.rejections_dropped]
        BY <4>1, <2>0
      <4> QED
        BY <4>2, <4>3, <3>2, <3>3, <1>d
    <3>5. CASE j = Len(c.rejections) + 1
      <4>1. j + c.rejections_dropped = Len(c.refused) + 1
        BY SMTT(120), <3>5, <1>m, <2>e
      <4> QED
        BY <4>1, <3>5, <3>2, <3>3, <1>a, <1>r, <1>d
    <3> QED
      BY SMTT(120), <3>2, <3>4, <3>5, <1>a, <1>f
  <2>3. /\ d.max_rejections = 0 => d.rejections_dropped = 0
        /\ d.max_rejections # 0 =>
             /\ Len(d.rejections) <= d.max_rejections
             /\ d.rejections_dropped # 0 => Len(d.rejections) = d.max_rejections
    <3>1. /\ d.rejections_dropped = c.rejections_dropped + over /\ Len(all) = Len(c.rejections) + 1
          /\ Len(d.rejections) = Len(all) - over /\ d.max_rejections = c.max_rejections
      BY <1>d, <1>a, <1>k
    <3> QED
      BY SMTT(120), <3>1, <2>0, <1>f, <1>o
  <2> QED
    BY <2>1, <2>2, <2>3 DEF Capped, rejections_seen
<1>n. /\ \A k \in DOMAIN c.refused : k \in DOMAIN d.refused /\ d.refused[k] = c.refused[k]
      /\ \A k \in DOMAIN d.refused : k \notin DOMAIN c.refused => d.refused[k] = n + 1
      /\ \A k, l \in DOMAIN d.refused : k \notin DOMAIN c.refused /\ l \notin DOMAIN c.refused => k = l
  BY <1>d, <1>r DEF Added
<1>u. /\ \A k \in DOMAIN c.records : c.records[k].tok \in 1 .. n
      /\ \A k \in DOMAIN c.blocks : c.blocks[k].tx \in 0 .. n
      /\ \A k \in DOMAIN c.log : c.log[k].tok \in 1 .. n
      /\ \A k \in DOMAIN c.refused : c.refused[k] \in 1 .. n
  BY DEF Whole, UpTo
<1>1. UpTo(d, n + 1)
  BY <1>u, <1>n, <1>d DEF UpTo
<1>2. OneRowEach(d)
  <2>1. n + 1 \notin 1 .. n
    OBVIOUS
  <2>2. ASSUME NEW k \in DOMAIN d.refused, NEW l \in DOMAIN d.refused, d.refused[k] = d.refused[l]
        PROVE  k = l
    BY <2>1, <2>2, <1>n, <1>u DEF Whole, OneRowEach
  <2>3. ASSUME NEW k \in DOMAIN d.log, NEW l \in DOMAIN d.refused PROVE d.log[k].tok # d.refused[l]
    BY <2>1, <1>n, <1>u, <1>d DEF Whole, OneRowEach
  <2> QED
    BY <2>2, <2>3, <1>d DEF Whole, OneRowEach
<1>3. RowsAreAnswers(d) /\ AnswersHaveRows(d) /\ SharedByHash(d)
  BY <1>d DEF Whole, RowsAreAnswers, AnswersHaveRows, SharedByHash
<1>4. Begins(c.refused, d.refused)
  BY <1>d, <1>r DEF Added
<1> QED
  BY <1>1, <1>2, <1>3, <1>4, <1>c, <1>d DEF Whole, d

(* d is c after submission tok. *)
Grown(d, c, tok) ==
    /\ Extends(d, c)
    /\ \A k \in Past(d.records, Len(c.records)) : d.records[k].tok = tok
    /\ \A k \in Past(d.blocks, Len(c.blocks)) : d.blocks[k].tx = tok

(* What the rows of a carried out submission are.                          *)
LEMMA Rows ==
    ASSUME NEW n \in Nat, NEW ok \in BOOLEAN, NEW ethereum \in BOOLEAN, NEW hash \in {NoHash, n}
    PROVE  /\ [tok |-> n, ethereum |-> ethereum, ok |-> ok, hash |-> hash] \in HapiRecords
           /\ [tx |-> n, ok |-> ok] \in MinedBlocks
           /\ [tok |-> n, outcome |-> Ended(ok)] \in Answers
<1>1. Ended(ok) \in Outcomes
  BY DEF Ended, Outcomes
<1>2. NoHash \in Nat
  BY DEF NoHash
<1> HIDE DEF Outcomes
<1> QED
  BY <1>1, <1>2 DEF HapiRecords, MinedBlocks, Answers

(* What each answer leaves: a chain that is whole and goes on from c.      *)
LEMMA Grows ==
    ASSUME NEW c \in Chains, NEW n \in Nat, Whole(c, n), NEW d \in Chains,
           NEW r \in HapiRecords, NEW b \in MinedBlocks, NEW ok \in BOOLEAN,
           r.tok = n + 1, b.tx = n + 1, r.hash \in {NoHash, n + 1}, b.ok = ok, r.ok = ok,
           d.records = c.records \/ d.records = Append(c.records, r),
           d.blocks = c.blocks \/ d.blocks = Append(c.blocks, b),
           \/ d.records = c.records /\ d.blocks = Append(c.blocks, b)
           \/ d.records = Append(c.records, r) /\ d.blocks = c.blocks
           \/ d.records = Append(c.records, r) /\ d.blocks = Append(c.blocks, b) /\ r.hash = n + 1,
           d.log = Append(c.log, [tok |-> n + 1, outcome |-> Ended(ok)]),
           d.refused = c.refused, d.rejections = c.rejections,
           d.rejections_dropped = c.rejections_dropped, d.max_rejections = c.max_rejections
    PROVE  Whole(d, n + 1) /\ Grown(d, c, n + 1)
<1> DEFINE a == [tok |-> n + 1, outcome |-> Ended(ok)]
<1>f. /\ c.records \in Seq(HapiRecords) /\ c.blocks \in Seq(MinedBlocks) /\ c.log \in Seq(Answers)
      /\ c.refused \in Seq(Nat) /\ n + 1 \in Nat
  BY Fields
<1>a. a \in Answers
  BY <1>f, Rows
<1>6. a = [tok |-> n + 1, outcome |-> Ended(r.ok)] /\ b.ok = r.ok
  OBVIOUS
<1>0. d.log = Append(c.log, a)
  OBVIOUS
<1> HIDE DEF a
<1>1. /\ Added(Append(c.records, r), c.records, r) /\ Added(c.records, c.records, r)
      /\ \E k \in DOMAIN Append(c.records, r) : k \notin DOMAIN c.records
  BY <1>f, Appended, NotAdded, ZenonT(120)
<1>2. /\ Added(Append(c.blocks, b), c.blocks, b) /\ Added(c.blocks, c.blocks, b)
      /\ \E k \in DOMAIN Append(c.blocks, b) : k \notin DOMAIN c.blocks
  BY <1>f, Appended, NotAdded, ZenonT(120)
<1>3. /\ Added(Append(c.log, a), c.log, a)
      /\ \E k \in DOMAIN Append(c.log, a) : k \notin DOMAIN c.log
  BY SMTT(120), <1>f, <1>a, Appended
<1>4. Added(d.records, c.records, r) /\ Added(d.blocks, c.blocks, b) /\ Added(d.log, c.log, a)
  BY <1>0, <1>1, <1>2, <1>3
<1>5. /\ \/ \E k \in DOMAIN d.records : k \notin DOMAIN c.records
         \/ \E k \in DOMAIN d.blocks : k \notin DOMAIN c.blocks
      /\ \E k \in DOMAIN d.log : k \notin DOMAIN c.log
      /\ DOMAIN d.records = DOMAIN c.records \/ r.hash = n + 1 \/ DOMAIN d.blocks = DOMAIN c.blocks
  BY <1>0, <1>1, <1>2, <1>3
<1>7. Whole(d, n + 1)
  BY <1>a, <1>4, <1>5, <1>6, Carried
<1>8. Added(c.refused, c.refused, 0)
  BY <1>f, NotAdded
<1>9. Begins(c.refused, d.refused)
  BY SMTT(120), <1>8 DEF Added
<1>10. Extends(d, c)
  BY SMTT(120), <1>4, <1>9 DEF Extends, Added
<1>11. ASSUME NEW k \in Past(d.records, Len(c.records)) PROVE d.records[k].tok = n + 1
  BY <1>4 DEF Added
<1>12. ASSUME NEW k \in Past(d.blocks, Len(c.blocks)) PROVE d.blocks[k].tx = n + 1
  BY <1>4 DEF Added
<1> QED
  BY <1>7, <1>10, <1>11, <1>12 DEF Grown

(* A HAPI transaction is one record.                                       *)
LEMMA HapiGrows ==
    ASSUME NEW c \in Chains, NEW n \in Nat, Whole(c, n), NEW ok \in BOOLEAN
    PROVE  /\ apply_hapi(c, n + 1, ok) \in Chains
           /\ Whole(apply_hapi(c, n + 1, ok), n + 1) /\ Grown(apply_hapi(c, n + 1, ok), c, n + 1)
<1> DEFINE d == apply_hapi(c, n + 1, ok)
           r == [tok |-> n + 1, ethereum |-> FALSE, ok |-> ok, hash |-> NoHash]
           b == [tx |-> n + 1, ok |-> ok]
           a == [tok |-> n + 1, outcome |-> Ended(ok)]
<1>f. /\ c.records \in Seq(HapiRecords) /\ c.blocks \in Seq(MinedBlocks) /\ c.log \in Seq(Answers)
      /\ n + 1 \in Nat
  BY Fields
<1>1. r \in HapiRecords /\ b \in MinedBlocks /\ a \in Answers
  BY <1>f, Rows
<1>2. r.tok = n + 1 /\ b.tx = n + 1 /\ r.hash = NoHash /\ b.ok = ok /\ r.ok = ok
  OBVIOUS
<1> HIDE DEF r, b
<1>3. Append(c.records, r) \in Seq(HapiRecords) /\ Append(c.log, a) \in Seq(Answers)
  BY <1>f, <1>1
<1>4. d = [c EXCEPT !.log = Append(c.log, a), !.records = Append(c.records, r)]
  BY DEF apply_hapi, Logged, Chains, r
<1>5. /\ d \in Chains
      /\ d.records = Append(c.records, r) /\ d.blocks = c.blocks /\ d.log = Append(c.log, a)
      /\ d.refused = c.refused /\ d.rejections = c.rejections
      /\ d.rejections_dropped = c.rejections_dropped /\ d.max_rejections = c.max_rejections
  <2> HIDE DEF d, a
  <2> QED
    BY <1>3, <1>4 DEF Chains
<1> HIDE DEF d
<1>6. Whole(d, n + 1) /\ Grown(d, c, n + 1)
  BY <1>1, <1>2, <1>5, Grows
<1> QED
  BY <1>5, <1>6 DEF d

(* A transaction sent over JSON-RPC is one block.                          *)
LEMMA RawGrows ==
    ASSUME NEW c \in Chains, NEW n \in Nat, Whole(c, n), NEW ok \in BOOLEAN
    PROVE  /\ send_raw(c, n + 1, ok) \in Chains
           /\ Whole(send_raw(c, n + 1, ok), n + 1) /\ Grown(send_raw(c, n + 1, ok), c, n + 1)
<1> DEFINE d == send_raw(c, n + 1, ok)
           r == [tok |-> n + 1, ethereum |-> FALSE, ok |-> ok, hash |-> NoHash]
           b == [tx |-> n + 1, ok |-> ok]
           a == [tok |-> n + 1, outcome |-> Ended(ok)]
<1>f. /\ c.records \in Seq(HapiRecords) /\ c.blocks \in Seq(MinedBlocks) /\ c.log \in Seq(Answers)
      /\ n + 1 \in Nat
  BY Fields
<1>1. r \in HapiRecords /\ b \in MinedBlocks /\ a \in Answers
  BY <1>f, Rows
<1>2. r.tok = n + 1 /\ b.tx = n + 1 /\ r.hash = NoHash /\ b.ok = ok /\ r.ok = ok
  OBVIOUS
<1> HIDE DEF r, b
<1>3. Append(c.blocks, b) \in Seq(MinedBlocks) /\ Append(c.log, a) \in Seq(Answers)
  BY <1>f, <1>1
<1>4. d = [c EXCEPT !.log = Append(c.log, a), !.blocks = Append(c.blocks, b)]
  BY DEF send_raw, Logged, Chains, b
<1>5. /\ d \in Chains
      /\ d.records = c.records /\ d.blocks = Append(c.blocks, b) /\ d.log = Append(c.log, a)
      /\ d.refused = c.refused /\ d.rejections = c.rejections
      /\ d.rejections_dropped = c.rejections_dropped /\ d.max_rejections = c.max_rejections
  <2> HIDE DEF d, a
  <2> QED
    BY <1>3, <1>4 DEF Chains
<1> HIDE DEF d
<1>6. Whole(d, n + 1) /\ Grown(d, c, n + 1)
  BY <1>1, <1>2, <1>5, Grows
<1> QED
  BY <1>5, <1>6 DEF d

(* An ethereumTransaction that is mined is a record and a block.           *)
LEMMA EthereumGrows ==
    ASSUME NEW c \in Chains, NEW n \in Nat, Whole(c, n), NEW ok \in BOOLEAN
    PROVE  /\ apply_ethereum(c, n + 1, ok) \in Chains
           /\ Whole(apply_ethereum(c, n + 1, ok), n + 1) /\ Grown(apply_ethereum(c, n + 1, ok), c, n + 1)
<1> DEFINE d == apply_ethereum(c, n + 1, ok)
           r == [tok |-> n + 1, ethereum |-> TRUE, ok |-> ok, hash |-> n + 1]
           b == [tx |-> n + 1, ok |-> ok]
           a == [tok |-> n + 1, outcome |-> Ended(ok)]
<1>f. /\ c.records \in Seq(HapiRecords) /\ c.blocks \in Seq(MinedBlocks) /\ c.log \in Seq(Answers)
      /\ n + 1 \in Nat
  BY Fields
<1>1. r \in HapiRecords /\ b \in MinedBlocks /\ a \in Answers
  BY <1>f, Rows
<1>2. r.tok = n + 1 /\ b.tx = n + 1 /\ r.hash = n + 1 /\ b.ok = ok /\ r.ok = ok
  OBVIOUS
<1> HIDE DEF r, b
<1>3. /\ Append(c.records, r) \in Seq(HapiRecords) /\ Append(c.blocks, b) \in Seq(MinedBlocks)
      /\ Append(c.log, a) \in Seq(Answers)
  BY <1>f, <1>1
<1>4. d = [c EXCEPT !.log = Append(c.log, a), !.records = Append(c.records, r),
               !.blocks = Append(c.blocks, b)]
  BY DEF apply_ethereum, Logged, Chains, r, b
<1>5. /\ d \in Chains
      /\ d.records = Append(c.records, r) /\ d.blocks = Append(c.blocks, b) /\ d.log = Append(c.log, a)
      /\ d.refused = c.refused /\ d.rejections = c.rejections
      /\ d.rejections_dropped = c.rejections_dropped /\ d.max_rejections = c.max_rejections
  <2> HIDE DEF d, a
  <2> QED
    BY <1>3, <1>4 DEF Chains
<1> HIDE DEF d
<1>6. Whole(d, n + 1) /\ Grown(d, c, n + 1)
  BY <1>1, <1>2, <1>5, Grows
<1> QED
  BY <1>5, <1>6 DEF d

(* One that is refused is a record only.                                   *)
LEMMA RefusedGrows ==
    ASSUME NEW c \in Chains, NEW n \in Nat, Whole(c, n)
    PROVE  /\ apply_ethereum_refused(c, n + 1) \in Chains
           /\ Whole(apply_ethereum_refused(c, n + 1), n + 1) /\ Grown(apply_ethereum_refused(c, n + 1), c, n + 1)
<1> DEFINE d == apply_ethereum_refused(c, n + 1)
           r == [tok |-> n + 1, ethereum |-> TRUE, ok |-> FALSE, hash |-> NoHash]
           b == [tx |-> n + 1, ok |-> FALSE]
           a == [tok |-> n + 1, outcome |-> Ended(FALSE)]
<1>f. /\ c.records \in Seq(HapiRecords) /\ c.blocks \in Seq(MinedBlocks) /\ c.log \in Seq(Answers)
      /\ n + 1 \in Nat
  BY Fields
<1>1. r \in HapiRecords /\ b \in MinedBlocks /\ a \in Answers
  BY <1>f, Rows
<1>2. r.tok = n + 1 /\ b.tx = n + 1 /\ r.hash = NoHash /\ b.ok = FALSE /\ r.ok = FALSE
  OBVIOUS
<1> HIDE DEF r, b
<1>3. Append(c.records, r) \in Seq(HapiRecords) /\ Append(c.log, a) \in Seq(Answers)
  BY <1>f, <1>1
<1>4. d = [c EXCEPT !.log = Append(c.log, a), !.records = Append(c.records, r)]
  BY DEF apply_ethereum_refused, Logged, Chains, r, Ended
<1>5. /\ d \in Chains
      /\ d.records = Append(c.records, r) /\ d.blocks = c.blocks /\ d.log = Append(c.log, a)
      /\ d.refused = c.refused /\ d.rejections = c.rejections
      /\ d.rejections_dropped = c.rejections_dropped /\ d.max_rejections = c.max_rejections
  <2> HIDE DEF d, a
  <2> QED
    BY <1>3, <1>4 DEF Chains
<1> HIDE DEF d
<1>6. Whole(d, n + 1) /\ Grown(d, c, n + 1)
  BY <1>1, <1>2, <1>5, Grows
<1> QED
  BY <1>5, <1>6 DEF d

(* A chain that goes on from b still does after a submission new to b.     *)
LEMMA FollowsKept ==
    ASSUME NEW c \in Chains, NEW d \in Chains, NEW b \in Chains, NEW tok,
           Follows(c, b), Grown(d, c, tok), \A l \in DOMAIN b.log : b.log[l].tok # tok
    PROVE  Follows(d, b)
<1>n. /\ Len(b.records) \in Nat /\ Len(c.records) \in Nat /\ Len(d.records) \in Nat
      /\ Len(b.blocks) \in Nat /\ Len(c.blocks) \in Nat /\ Len(d.blocks) \in Nat
      /\ Len(b.log) \in Nat /\ Len(c.log) \in Nat /\ Len(d.log) \in Nat
      /\ Len(b.refused) \in Nat /\ Len(c.refused) \in Nat /\ Len(d.refused) \in Nat
  BY Lengths, Zenon
<1>1. \A s, t, u : /\ Len(s) \in Nat /\ Len(t) \in Nat /\ Len(u) \in Nat
                   /\ Begins(s, t) /\ Begins(t, u)
                  => Begins(s, u)
  BY DEF Begins
<1>2. Extends(d, b)
  <2>1. /\ Begins(b.records, c.records) /\ Begins(c.records, d.records)
        /\ Begins(b.blocks, c.blocks) /\ Begins(c.blocks, d.blocks)
        /\ Begins(b.log, c.log) /\ Begins(c.log, d.log)
        /\ Begins(b.refused, c.refused) /\ Begins(c.refused, d.refused)
    BY DEF Follows, Grown, Extends
  <2>2. Begins(b.records, d.records)
    BY Zenon, <1>n, <1>1, <2>1
  <2>3. Begins(b.blocks, d.blocks)
    BY Zenon, <1>n, <1>1, <2>1
  <2>4. Begins(b.log, d.log)
    BY Zenon, <1>n, <1>1, <2>1
  <2>5. Begins(b.refused, d.refused)
    BY ZenonT(120), <1>n, <1>1, <2>1
  <2> QED
    BY <2>2, <2>3, <2>4, <2>5 DEF Extends
<1>3. ASSUME NEW l \in DOMAIN b.log
      PROVE  /\ \A k \in Past(d.records, Len(b.records)) : d.records[k].tok # b.log[l].tok
             /\ \A k \in Past(d.blocks, Len(b.blocks)) : d.blocks[k].tx # b.log[l].tok
  <2>1. ASSUME NEW k \in Past(d.records, Len(b.records)) PROVE d.records[k].tok # b.log[l].tok
    <3>1. CASE k <= Len(c.records)
      <4>1. k \in Past(c.records, Len(b.records)) /\ k \in 1 .. Len(c.records)
        BY SMTT(120), <3>1, <1>n DEF Past
      <4>2. d.records[k] = c.records[k]
        BY <4>1 DEF Grown, Extends, Begins
      <4> QED
        BY <4>1, <4>2 DEF Follows, Later
    <3>2. CASE ~(k <= Len(c.records))
      <4>1. k \in Past(d.records, Len(c.records))
        BY SMTT(120), <3>2, <1>n DEF Past
      <4> QED
        BY <4>1 DEF Grown
    <3> QED
      BY <3>1, <3>2
  <2>2. ASSUME NEW k \in Past(d.blocks, Len(b.blocks)) PROVE d.blocks[k].tx # b.log[l].tok
    <3>1. CASE k <= Len(c.blocks)
      <4>1. k \in Past(c.blocks, Len(b.blocks)) /\ k \in 1 .. Len(c.blocks)
        BY <3>1, <1>n DEF Past
      <4>2. d.blocks[k] = c.blocks[k]
        BY <4>1 DEF Grown, Extends, Begins
      <4> QED
        BY <4>1, <4>2 DEF Follows, Later
    <3>2. CASE ~(k <= Len(c.blocks))
      <4>1. k \in Past(d.blocks, Len(c.blocks))
        BY <3>2, <1>n DEF Past
      <4> QED
        BY <4>1 DEF Grown
    <3> QED
      BY <3>1, <3>2
  <2> QED
    BY <2>1, <2>2
<1> QED
  BY <1>2, <1>3 DEF Follows, Later

(* A chain goes on from itself.                                            *)
LEMMA FollowsItself ==
    ASSUME NEW c \in Chains
    PROVE  Follows(c, c)
<1>1. /\ Len(c.records) \in Nat /\ Len(c.blocks) \in Nat /\ Len(c.log) \in Nat
      /\ Len(c.refused) \in Nat
  BY Lengths
<1> QED
  BY <1>1 DEF Follows, Extends, Later, Begins, Past

-----------------------------------------------------------------------------
(* L refusals, of which the newest R are kept and D dropped under cap M:   *)
(* place k of those kept is place k + D of all.  Those after the first B   *)
(* that are kept are the newest M of them.                                 *)
LEMMA NewestLeft ==
    ASSUME NEW L \in Nat, NEW R \in Nat, NEW D \in Nat, NEW M \in Nat, NEW B \in Nat,
           D + R = L, M = 0 => D = 0, M # 0 => R <= M, M # 0 /\ D # 0 => R = M
    PROVE  /\ \A k \in Int : k \in (IF B > D THEN B - D ELSE 0) + 1 .. R
                <=> k + D \in B + 1 .. L /\ k + D \in D + 1 .. L
           /\ \A p \in B + 1 .. L : p \in D + 1 .. L <=> M = 0 \/ p \notin 1 .. L - M
<1>1. ASSUME NEW k \in Int
      PROVE  k \in (IF B > D THEN B - D ELSE 0) + 1 .. R
                <=> k + D \in B + 1 .. L /\ k + D \in D + 1 .. L
  BY Z3
<1>2. ASSUME NEW p \in B + 1 .. L
      PROVE  p \in D + 1 .. L <=> M = 0 \/ p \notin 1 .. L - M
  <2>1. CASE D = 0
    BY <2>1
  <2>2. CASE D # 0
    BY <2>2
  <2> QED
    BY <2>1, <2>2
<1> QED
  BY <1>1, <1>2

(* Places of the refusals since the first m that the cap keeps, and of the *)
(* rows that a ledger lists when the mark saw m.                           *)
NewestSince(c, m) ==
    IF c.max_rejections = 0 THEN Past(c.refused, m)
    ELSE Past(c.refused, m) \ (1 .. Len(c.refused) - c.max_rejections)

RowsSince(c, m) ==
    Past(c.rejections, IF m > c.rejections_dropped THEN m - c.rejections_dropped ELSE 0)

(* The rows of refusals that a ledger lists are the newest since b.        *)
LEMMA RefusalsLeft ==
    ASSUME NEW c \in Chains, NEW b \in Chains, NEW n, Whole(c, n), Whole(b, n), Follows(c, b)
    PROVE  /\ NewestSince(c, Len(b.refused)) \subseteq DOMAIN c.refused
           /\ RowsSince(c, rejections_seen(b)) \subseteq DOMAIN c.rejections
           /\ \A k \in RowsSince(c, rejections_seen(b)) :
                /\ k + c.rejections_dropped \in NewestSince(c, Len(b.refused))
                /\ c.rejections[k] = c.refused[k + c.rejections_dropped]
           /\ \A p \in NewestSince(c, Len(b.refused)) :
                \E k \in RowsSince(c, rejections_seen(b)) : c.rejections[k] = c.refused[p]
<1> DEFINE kept == NewestSince(c, Len(b.refused))
           rows == RowsSince(c, rejections_seen(b))
           L == Len(c.refused)
           R == Len(c.rejections)
           D == c.rejections_dropped
           M == c.max_rejections
           B == Len(b.refused)
           skipped == IF B > D THEN B - D ELSE 0
<1>f. /\ L \in Nat /\ R \in Nat /\ D \in Nat /\ M \in Nat /\ B \in Nat
      /\ DOMAIN c.rejections = 1 .. R /\ DOMAIN c.refused = 1 .. L
  BY Fields, Lengths
<1>c. D + R = L /\ (M = 0 => D = 0) /\ (M # 0 => R <= M) /\ (M # 0 /\ D # 0 => R = M)
  BY DEF Whole, Capped, rejections_seen
<1>d. \A k \in DOMAIN c.rejections : c.rejections[k] = c.refused[k + D]
  BY DEF Whole, Capped
<1>s. rejections_seen(b) = B
  BY DEF Whole, Capped
<1>r. rows = skipped + 1 .. R
  BY <1>s DEF Past, RowsSince
<1>k. kept = IF M = 0 THEN B + 1 .. L ELSE (B + 1 .. L) \ (1 .. L - M)
  BY DEF Past, NewestSince
<1> HIDE DEF L, R, D, M, B, kept, rows
<1>1. /\ \A k \in Int : k \in skipped + 1 .. R <=> k + D \in B + 1 .. L /\ k + D \in D + 1 .. L
      /\ \A p \in B + 1 .. L : p \in D + 1 .. L <=> M = 0 \/ p \notin 1 .. L - M
  BY <1>f, <1>c, NewestLeft
<1>2. skipped \in Nat
  BY <1>f
<1> HIDE DEF skipped
<1>3. kept \subseteq DOMAIN c.refused /\ rows \subseteq DOMAIN c.rejections
  BY <1>f, <1>r, <1>k, <1>2
<1>4. ASSUME NEW k \in rows PROVE k + D \in kept /\ c.rejections[k] = c.refused[k + D]
  <2>1. k \in Int /\ k \in DOMAIN c.rejections /\ k \in skipped + 1 .. R
    <3>1. k \in skipped + 1 .. R
      BY <1>r
    <3>2. k \in Int
      BY <3>1, <1>2, <1>f
    <3> QED
      BY <3>1, <3>2, <1>3
  <2>2. k + D \in B + 1 .. L /\ k + D \in D + 1 .. L
    BY <1>1, <2>1
  <2>3. M = 0 \/ k + D \notin 1 .. L - M
    BY <1>1, <2>2
  <2>4. k + D \in kept
    BY <1>k, <2>2, <2>3
  <2> QED
    BY <1>d, <2>1, <2>4
<1>5. ASSUME NEW p \in kept PROVE \E k \in rows : c.rejections[k] = c.refused[p]
  <2>1. p \in B + 1 .. L /\ (M = 0 \/ p \notin 1 .. L - M) /\ p \in Int
    BY <1>k, <1>f
  <2>2. p \in D + 1 .. L
    BY <1>1, <2>1
  <2>3. p - D \in Int /\ (p - D) + D = p
    BY <1>f, <2>1
  <2>4. p - D \in rows
    BY <1>1, <1>r, <2>1, <2>2, <2>3
  <2>5. c.rejections[p - D] = c.refused[p]
    BY <1>d, <1>3, <2>3, <2>4
  <2> QED
    BY <2>4, <2>5
<1> QED
  BY <1>3, <1>4, <1>5 DEF D, kept, rows

(* A ledger since b, on a chain that goes on from b, is exact.             *)
LEMMA Exact ==
    ASSUME NEW c \in Chains, NEW b \in Chains, NEW n, Whole(c, n), Whole(b, n), Follows(c, b),
           NEW ledger, ledger = Since(c, MarkOf(b))
    PROVE  /\ \A row, other \in ledger : row.tok = other.tok => row = other
           /\ {[tok |-> row.tok, outcome |-> row.outcome] : row \in ledger}
              = {c.log[k] : k \in Past(c.log, Len(b.log))}
                \cup {[tok |-> c.refused[k], outcome |-> "rejected"] : k \in NewestSince(c, Len(b.refused))}
<1> DEFINE kept == NewestSince(c, Len(b.refused))
           records == Past(c.records, Len(b.records))
           over    == {c.records[k].hash : k \in records} \ {NoHash}
           blocks  == {k \in Past(c.blocks, Len(b.blocks)) : c.blocks[k].tx # NoHash /\ c.blocks[k].tx \notin over}
           rows    == RowsSince(c, rejections_seen(b))
           done    == Past(c.log, Len(b.log))
<1>s. ledger = {Row("records", k, c.records[k].tok, Ended(c.records[k].ok)) : k \in records}
               \cup {Row("blocks", k, c.blocks[k].tx, Ended(c.blocks[k].ok)) : k \in blocks}
               \cup {Row("rejections", k, c.rejections[k], "rejected") : k \in rows}
  BY DEF Since, MarkOf, RowsSince
<1>l. /\ Len(c.records) \in Nat /\ DOMAIN c.records = 1 .. Len(c.records)
      /\ Len(c.blocks) \in Nat /\ DOMAIN c.blocks = 1 .. Len(c.blocks)
      /\ Len(c.log) \in Nat /\ DOMAIN c.log = 1 .. Len(c.log)
      /\ Len(b.records) \in Nat /\ DOMAIN b.records = 1 .. Len(b.records)
      /\ Len(b.blocks) \in Nat /\ DOMAIN b.blocks = 1 .. Len(b.blocks)
      /\ Len(b.log) \in Nat /\ DOMAIN b.log = 1 .. Len(b.log)
  BY Lengths, Zenon
<1>a. c.log \in Seq(Answers)
  BY Fields
<1>e. /\ Len(b.records) <= Len(c.records) /\ \A k \in DOMAIN b.records : c.records[k] = b.records[k]
      /\ Len(b.blocks) <= Len(c.blocks) /\ \A k \in DOMAIN b.blocks : c.blocks[k] = b.blocks[k]
      /\ Len(b.log) <= Len(c.log) /\ \A k \in DOMAIN b.log : c.log[k] = b.log[k]
  BY <1>l DEF Follows, Extends, Begins
<1>d. /\ \A k : k \in records <=> k \in DOMAIN c.records /\ k \notin DOMAIN b.records
      /\ \A k : k \in Past(c.blocks, Len(b.blocks)) <=> k \in DOMAIN c.blocks /\ k \notin DOMAIN b.blocks
      /\ \A k : k \in done <=> k \in DOMAIN c.log /\ k \notin DOMAIN b.log
      /\ \A k \in DOMAIN b.log : k \in DOMAIN c.log
  BY SMTT(120), <1>l, <1>e DEF Past
<1>k. /\ kept \subseteq DOMAIN c.refused
      /\ rows \subseteq DOMAIN c.rejections
      /\ \A k \in rows : k + c.rejections_dropped \in kept
                         /\ c.rejections[k] = c.refused[k + c.rejections_dropped]
      /\ \A p \in kept : \E k \in rows : c.rejections[k] = c.refused[p]
  BY RefusalsLeft
<1>r. /\ rows \subseteq Int /\ c.rejections_dropped \in Int
  BY SMTT(120), <1>k, Lengths, Fields
<1>o. over = {c.records[k].hash : k \in records} \ {NoHash}
  OBVIOUS
<1>b. blocks = {k \in Past(c.blocks, Len(b.blocks)) : c.blocks[k].tx # NoHash /\ c.blocks[k].tx \notin over}
  OBVIOUS
<1> HIDE DEF kept, rows, done, records, over, blocks
<1>t. /\ \A k, l \in DOMAIN c.records : c.records[k].tok = c.records[l].tok => k = l
      /\ \A k, l \in DOMAIN c.blocks : c.blocks[k].tx = c.blocks[l].tx /\ c.blocks[k].tx # NoHash => k = l
      /\ \A k, l \in DOMAIN c.log : c.log[k].tok = c.log[l].tok => k = l
      /\ \A k, l \in DOMAIN c.refused : c.refused[k] = c.refused[l] => k = l
      /\ \A k \in DOMAIN c.log, l \in DOMAIN c.refused : c.log[k].tok # c.refused[l]
  BY DEF Whole, OneRowEach
<1>u. /\ \A k \in DOMAIN c.records : c.records[k].tok # NoHash
      /\ \A k \in DOMAIN c.log : c.log[k].tok # NoHash /\ c.log[k] \in Answers
  BY <1>a DEF Whole, UpTo, NoHash
<1>h. /\ \A k \in DOMAIN c.records : c.records[k].hash \in {NoHash, c.records[k].tok}
      /\ \A k \in DOMAIN c.records, l \in DOMAIN c.blocks :
           c.blocks[l].tx = c.records[k].tok => c.records[k].hash = c.records[k].tok
  BY DEF Whole, SharedByHash
(* A row of a record or block is an answer given since b. *)
<1>1. ASSUME NEW k \in records
      PROVE  \E l \in done : c.log[l] = [tok |-> c.records[k].tok, outcome |-> Ended(c.records[k].ok)]
  <2>1. PICK l \in DOMAIN c.log : c.log[l] = [tok |-> c.records[k].tok, outcome |-> Ended(c.records[k].ok)]
    BY <1>d DEF Whole, RowsAreAnswers
  <2>2. \A m \in DOMAIN b.log : c.records[k].tok # b.log[m].tok
    BY DEF Follows, Later, records
  <2>3. l \notin DOMAIN b.log
    BY <2>1, <2>2, <1>e
  <2> QED
    BY <2>1, <2>3, <1>d
<1>2. ASSUME NEW k \in blocks
      PROVE  /\ k \in DOMAIN c.blocks /\ c.blocks[k].tx # NoHash
             /\ \E l \in done : c.log[l] = [tok |-> c.blocks[k].tx, outcome |-> Ended(c.blocks[k].ok)]
  <2>0. k \in DOMAIN c.blocks /\ c.blocks[k].tx # NoHash
    BY <1>b, <1>d
  <2>1. PICK l \in DOMAIN c.log : c.log[l] = [tok |-> c.blocks[k].tx, outcome |-> Ended(c.blocks[k].ok)]
    BY <2>0 DEF Whole, RowsAreAnswers
  <2>2. \A m \in DOMAIN b.log : c.blocks[k].tx # b.log[m].tok
    BY <1>b DEF Follows, Later
  <2>3. l \notin DOMAIN b.log
    BY <2>1, <2>2, <1>e
  <2> QED
    BY <2>0, <2>1, <2>3, <1>d
(* No record and block of the ledger are of one submission. *)
<1>3. ASSUME NEW k \in records, NEW l \in blocks PROVE c.records[k].tok # c.blocks[l].tx
  <2> SUFFICES ASSUME c.records[k].tok = c.blocks[l].tx PROVE FALSE
    OBVIOUS
  <2>1. k \in DOMAIN c.records /\ l \in DOMAIN c.blocks
    BY <1>d, <1>2
  <2>2. c.records[k].hash = c.blocks[l].tx /\ c.blocks[l].tx # NoHash
    BY <2>1, <1>h, <1>2
  <2>3. c.blocks[l].tx \in over
    BY <2>2, <1>o
  <2> QED
    BY <2>3, <1>b
(* An answer given since b has a row. *)
<1>4. ASSUME NEW l \in done
      PROVE  \/ \E k \in records : c.log[l] = [tok |-> c.records[k].tok, outcome |-> Ended(c.records[k].ok)]
             \/ \E k \in blocks : c.log[l] = [tok |-> c.blocks[k].tx, outcome |-> Ended(c.blocks[k].ok)]
  <2>0. l \in DOMAIN c.log /\ l \notin DOMAIN b.log
    BY <1>d
  <2>1. ASSUME NEW k \in DOMAIN c.records, c.records[k].tok = c.log[l].tok
        PROVE  \E m \in records : c.log[l] = [tok |-> c.records[m].tok, outcome |-> Ended(c.records[m].ok)]
    <3>1. ASSUME NEW m \in DOMAIN c.log,
                 c.log[m] = [tok |-> c.records[k].tok, outcome |-> Ended(c.records[k].ok)]
          PROVE  m = l
      <4>1. c.log[m].tok = c.log[l].tok
        BY <2>1, <3>1
      <4> QED
        BY <4>1, <2>0, <1>t
    <3>2. k \notin DOMAIN b.records
      <4> SUFFICES ASSUME k \in DOMAIN b.records PROVE FALSE
        OBVIOUS
      <4>1. PICK m \in DOMAIN b.log : b.log[m] = [tok |-> b.records[k].tok, outcome |-> Ended(b.records[k].ok)]
        BY DEF Whole, RowsAreAnswers
      <4>2. m \in DOMAIN c.log /\ c.log[m] = [tok |-> c.records[k].tok, outcome |-> Ended(c.records[k].ok)]
        BY <4>1, <1>e, <1>d
      <4> QED
        BY <4>1, <4>2, <3>1, <2>0
    <3>3. PICK m \in DOMAIN c.log : c.log[m] = [tok |-> c.records[k].tok, outcome |-> Ended(c.records[k].ok)]
      BY DEF Whole, RowsAreAnswers
    <3> QED
      BY <3>1, <3>2, <3>3, <1>d
  <2>2. ASSUME NEW k \in DOMAIN c.blocks, c.blocks[k].tx = c.log[l].tok,
               \A m \in DOMAIN c.records : c.records[m].tok # c.log[l].tok
        PROVE  \E m \in blocks : c.log[l] = [tok |-> c.blocks[m].tx, outcome |-> Ended(c.blocks[m].ok)]
    <3>0. c.blocks[k].tx # NoHash
      BY <2>0, <2>2, <1>u
    <3>1. ASSUME NEW m \in DOMAIN c.log,
                 c.log[m] = [tok |-> c.blocks[k].tx, outcome |-> Ended(c.blocks[k].ok)]
          PROVE  m = l
      <4>1. c.log[m].tok = c.log[l].tok
        BY <2>2, <3>1
      <4> QED
        BY <4>1, <2>0, <1>t
    <3>2. k \notin DOMAIN b.blocks
      <4> SUFFICES ASSUME k \in DOMAIN b.blocks PROVE FALSE
        OBVIOUS
      <4>0. b.blocks[k] = c.blocks[k]
        BY <1>e
      <4>1. PICK m \in DOMAIN b.log : b.log[m] = [tok |-> b.blocks[k].tx, outcome |-> Ended(b.blocks[k].ok)]
        BY <3>0, <4>0 DEF Whole, RowsAreAnswers
      <4>2. m \in DOMAIN c.log /\ c.log[m] = [tok |-> c.blocks[k].tx, outcome |-> Ended(c.blocks[k].ok)]
        BY <4>0, <4>1, <1>e, <1>d
      <4> QED
        BY <4>1, <4>2, <3>1, <2>0
    <3>3. PICK m \in DOMAIN c.log : c.log[m] = [tok |-> c.blocks[k].tx, outcome |-> Ended(c.blocks[k].ok)]
      BY <3>0 DEF Whole, RowsAreAnswers
    <3>4. c.blocks[k].tx \notin over
      <4> SUFFICES ASSUME NEW i \in records, c.records[i].hash = c.blocks[k].tx PROVE FALSE
        BY <1>o
      <4>1. i \in DOMAIN c.records /\ c.records[i].tok = c.blocks[k].tx
        BY <3>0, <1>d, <1>h
      <4> QED
        BY <4>1, <2>2
    <3>5. k \in blocks
      BY <3>0, <3>2, <3>4, <1>b, <1>d
    <3> QED
      BY <3>1, <3>3, <3>5
  <2> QED
    BY <2>0, <2>1, <2>2 DEF Whole, AnswersHaveRows
<1>5. ASSUME NEW row \in ledger, NEW other \in ledger, row.tok = other.tok PROVE row = other
  <2>r. \A k, l \in records : c.records[k].tok = c.records[l].tok => k = l
    BY <1>d, <1>t
  <2>b. \A k, l \in blocks : c.blocks[k].tx = c.blocks[l].tx => k = l
    BY <1>2, <1>t
  <2>j. \A k, l \in rows : c.rejections[k] = c.rejections[l] => k = l
    <3> SUFFICES ASSUME NEW k \in rows, NEW l \in rows, c.rejections[k] = c.rejections[l] PROVE k = l
      OBVIOUS
    <3>1. k + c.rejections_dropped = l + c.rejections_dropped
      BY <1>k, <1>t
    <3>2. k \in Int /\ l \in Int /\ c.rejections_dropped \in Int
      BY <1>r
    <3>3. \A x, y, z \in Int : x + z = y + z => x = y
      OBVIOUS
    <3> QED
      BY <3>1, <3>2, <3>3
  <2>k. \A k \in rows : \E p \in DOMAIN c.refused : c.rejections[k] = c.refused[p]
    BY <1>k
  <2>x. \A k \in records, l \in rows : c.records[k].tok # c.rejections[l]
    <3> SUFFICES ASSUME NEW k \in records, NEW l \in rows, c.records[k].tok = c.rejections[l] PROVE FALSE
      OBVIOUS
    <3>1. PICK m \in done : c.log[m] = [tok |-> c.records[k].tok, outcome |-> Ended(c.records[k].ok)]
      BY <1>1
    <3>2. c.log[m].tok = c.records[k].tok /\ m \in DOMAIN c.log
      BY <3>1, <1>d
    <3> QED
      BY <3>2, <2>k, <1>t
  <2>y. \A k \in blocks, l \in rows : c.blocks[k].tx # c.rejections[l]
    <3> SUFFICES ASSUME NEW k \in blocks, NEW l \in rows, c.blocks[k].tx = c.rejections[l] PROVE FALSE
      OBVIOUS
    <3>1. PICK m \in done : c.log[m] = [tok |-> c.blocks[k].tx, outcome |-> Ended(c.blocks[k].ok)]
      BY <1>2
    <3>2. c.log[m].tok = c.blocks[k].tx /\ m \in DOMAIN c.log
      BY <3>1, <1>d
    <3> QED
      BY <3>2, <2>k, <1>t
  <2> DEFINE OfRecord(q) == \E k \in records : q = Row("records", k, c.records[k].tok, Ended(c.records[k].ok))
             OfBlock(q) == \E k \in blocks : q = Row("blocks", k, c.blocks[k].tx, Ended(c.blocks[k].ok))
             OfRefusal(q) == \E k \in rows : q = Row("rejections", k, c.rejections[k], "rejected")
  <2>1. /\ OfRecord(row) \/ OfBlock(row) \/ OfRefusal(row)
        /\ OfRecord(other) \/ OfBlock(other) \/ OfRefusal(other)
    BY <1>s
  <2>2. \A list, k, tok, outcome : Row(list, k, tok, outcome).tok = tok
    BY DEF Row
  <2> HIDE DEF records
  <2>3. CASE OfRecord(row)
    BY <2>1, <2>2, <2>3, <1>5, <2>r, <1>3, <2>x
  <2>4. CASE OfBlock(row)
    BY <2>1, <2>2, <2>4, <1>5, <2>b, <1>3, <2>y
  <2>5. CASE OfRefusal(row)
    BY <2>1, <2>2, <2>5, <1>5, <2>j, <2>x, <2>y
  <2> QED
    BY <2>1, <2>3, <2>4, <2>5
<1>6. {[tok |-> row.tok, outcome |-> row.outcome] : row \in ledger}
      = {c.log[k] : k \in done} \cup {[tok |-> c.refused[k], outcome |-> "rejected"] : k \in kept}
  <2>1. ASSUME NEW row \in ledger
        PROVE  [tok |-> row.tok, outcome |-> row.outcome]
               \in {c.log[k] : k \in done} \cup {[tok |-> c.refused[k], outcome |-> "rejected"] : k \in kept}
    <3>0. \A list, k, tok, outcome : Row(list, k, tok, outcome).tok = tok /\ Row(list, k, tok, outcome).outcome = outcome
      BY DEF Row
    <3>1. ASSUME NEW k \in records, row = Row("records", k, c.records[k].tok, Ended(c.records[k].ok))
          PROVE  [tok |-> row.tok, outcome |-> row.outcome] \in {c.log[m] : m \in done}
      BY <3>0, <3>1, <1>1
    <3>2. ASSUME NEW k \in blocks, row = Row("blocks", k, c.blocks[k].tx, Ended(c.blocks[k].ok))
          PROVE  [tok |-> row.tok, outcome |-> row.outcome] \in {c.log[m] : m \in done}
      BY <3>0, <3>2, <1>2
    <3>3. ASSUME NEW k \in rows, row = Row("rejections", k, c.rejections[k], "rejected")
          PROVE  [tok |-> row.tok, outcome |-> row.outcome]
                 \in {[tok |-> c.refused[m], outcome |-> "rejected"] : m \in kept}
      BY <3>0, <3>3, <1>k
    <3> QED
      BY <3>1, <3>2, <3>3, <1>s
  <2>2. ASSUME NEW l \in done PROVE c.log[l] \in {[tok |-> row.tok, outcome |-> row.outcome] : row \in ledger}
    <3>1. CASE \E k \in records : c.log[l] = [tok |-> c.records[k].tok, outcome |-> Ended(c.records[k].ok)]
      <4>1. PICK k \in records : c.log[l] = [tok |-> c.records[k].tok, outcome |-> Ended(c.records[k].ok)]
        BY <3>1
      <4>2. Row("records", k, c.records[k].tok, Ended(c.records[k].ok)) \in ledger
        BY <1>s
      <4> QED
        BY <4>1, <4>2 DEF Row
    <3>2. CASE \E k \in blocks : c.log[l] = [tok |-> c.blocks[k].tx, outcome |-> Ended(c.blocks[k].ok)]
      <4>1. PICK k \in blocks : c.log[l] = [tok |-> c.blocks[k].tx, outcome |-> Ended(c.blocks[k].ok)]
        BY <3>2
      <4>2. Row("blocks", k, c.blocks[k].tx, Ended(c.blocks[k].ok)) \in ledger
        BY <1>s
      <4> QED
        BY <4>1, <4>2 DEF Row
    <3> QED
      BY <3>1, <3>2, <1>4
  <2>3. ASSUME NEW p \in kept
        PROVE  [tok |-> c.refused[p], outcome |-> "rejected"]
               \in {[tok |-> row.tok, outcome |-> row.outcome] : row \in ledger}
    <3>1. PICK k \in rows : c.rejections[k] = c.refused[p]
      BY <1>k
    <3>2. Row("rejections", k, c.rejections[k], "rejected") \in ledger
      BY <1>s
    <3> QED
      BY <3>1, <3>2 DEF Row
  <2> DEFINE Listed == {[tok |-> row.tok, outcome |-> row.outcome] : row \in ledger}
             Given == {c.log[k] : k \in done}
             Refused == {[tok |-> c.refused[k], outcome |-> "rejected"] : k \in kept}
  <2>4. Listed \subseteq Given \cup Refused
    BY <2>1
  <2>5. Given \subseteq Listed
    BY <2>2
  <2>6. Refused \subseteq Listed
    BY <2>3
  <2> HIDE DEF Listed, Given, Refused
  <2>7. Listed = Given \cup Refused
    BY <2>4, <2>5, <2>6
  <2> QED
    BY <2>7 DEF Listed, Given, Refused
<1> QED
  BY <1>5, <1>6 DEF done, kept

-----------------------------------------------------------------------------
(* One more refusal adds no row and no answer.                             *)
LEMMA RejectGrows ==
    ASSUME NEW c \in Chains, NEW n \in Nat, Whole(c, n)
    PROVE  /\ reject(c, n + 1) \in Chains
           /\ Whole(reject(c, n + 1), n + 1) /\ Grown(reject(c, n + 1), c, n + 1)
<1> DEFINE d == reject(c, n + 1)
<1>1. /\ d \in Chains /\ Whole(d, n + 1)
      /\ d.records = c.records /\ d.blocks = c.blocks /\ d.log = c.log
      /\ Begins(c.refused, d.refused)
  BY Rejected
<1> HIDE DEF d
<1>2. Len(c.records) \in Nat /\ Len(c.blocks) \in Nat /\ Len(c.log) \in Nat
  BY Lengths
<1>3. Extends(d, c)
  BY <1>1, <1>2 DEF Extends, Begins
<1>4. Past(d.records, Len(c.records)) = {} /\ Past(d.blocks, Len(c.blocks)) = {}
  BY SMTT(120), <1>1, <1>2 DEF Past
<1>5. Grown(d, c, n + 1)
  BY <1>3, <1>4 DEF Grown
<1> QED
  BY <1>1, <1>5 DEF d

(* Snapshots are chains. *)
LEMMA SnapshotsAre ==
    \A s : s \in Snapshots <=> /\ DOMAIN s \subseteq Ids
                               /\ s = [k \in DOMAIN s |-> s[k]]
                               /\ \A k \in DOMAIN s : s[k] \in Chains
<1> HIDE DEF Chains
<1> QED
  BY DEF Snapshots

(* A chain stays whole as submissions go on elsewhere.                     *)
LEMMA WholeLater ==
    ASSUME NEW c, NEW n \in Nat, Whole(c, n)
    PROVE  Whole(c, n + 1)
<1>1. 1 .. n \subseteq 1 .. n + 1 /\ 0 .. n \subseteq 0 .. n + 1
  OBVIOUS
<1>2. UpTo(c, n + 1)
  BY <1>1 DEF Whole, UpTo
<1> QED
  BY <1>2 DEF Whole

(* The chain of a new node. *)
LEMMA GenesisWhole ==
    ASSUME NEW cap \in Caps \cup {0}, NEW n \in Nat
    PROVE  Genesis(cap) \in Chains /\ Whole(Genesis(cap), n)
<1> DEFINE c == Genesis(cap)
<1>1. [tx |-> NoHash, ok |-> FALSE] \in MinedBlocks
  BY DEF MinedBlocks, NoHash
<1>2. /\ << >> \in Seq(HapiRecords) /\ << >> \in Seq(Nat) /\ << >> \in Seq(Answers)
      /\ << [tx |-> NoHash, ok |-> FALSE] >> \in Seq(MinedBlocks)
  BY <1>1
<1>3. c \in Chains
  BY <1>2 DEF Genesis, Chains
<1>4. /\ c.records = << >> /\ c.blocks = << [tx |-> NoHash, ok |-> FALSE] >> /\ c.rejections = << >>
      /\ c.rejections_dropped = 0 /\ c.max_rejections = cap /\ c.log = << >> /\ c.refused = << >>
  BY DEF Genesis
<1>5. cap \in Nat
  BY AttemptAssumption
<1> HIDE DEF c
<1>6. /\ DOMAIN c.records = {} /\ DOMAIN c.rejections = {} /\ DOMAIN c.log = {} /\ DOMAIN c.refused = {}
      /\ Len(c.rejections) = 0 /\ Len(c.refused) = 0
      /\ DOMAIN c.blocks = {1} /\ c.blocks[1].tx = NoHash
  BY <1>4
<1>7. UpTo(c, n)
  BY <1>6 DEF UpTo, NoHash
<1>8. RowsAreAnswers(c) /\ AnswersHaveRows(c) /\ OneRowEach(c) /\ SharedByHash(c)
  BY <1>6 DEF RowsAreAnswers, AnswersHaveRows, OneRowEach, SharedByHash
<1>9. Capped(c)
  BY <1>4, <1>5, <1>6 DEF Capped, rejections_seen
<1> QED
  BY <1>3, <1>7, <1>8, <1>9 DEF Whole, c

(* A mark is made of counts. *)
LEMMA MarkTyped ==
    ASSUME NEW c \in Chains
    PROVE  MarkOf(c) \in Marks
<1>1. rejections_seen(c) \in Nat
  BY Fields, Lengths DEF rejections_seen
<1>2. Len(c.records) \in Nat /\ Len(c.blocks) \in Nat /\ Len(c.log) \in Nat /\ Len(c.refused) \in Nat
  BY Lengths
<1> QED
  BY <1>1, <1>2 DEF MarkOf, Marks

(* A submission takes the chain to one that goes on from it.               *)
LEMMA SubmissionKeeps ==
    ASSUME IInv, NEW d \in Chains, Whole(d, sent + 1), Grown(d, chain, sent + 1),
           chain' = d, sent' = sent + 1,
           UNCHANGED <<snapshots, next_snapshot, phase, wentBack, dead, harness>>
    PROVE  IInv'
<1>h. UNCHANGED <<per_attempt, slice, attempts, attempt, reverted, session, boots, begun>>
  BY DEF harness
<1>1. sent \in Nat /\ sent + 1 \in Nat /\ chain \in Chains /\ begun \in Chains
  BY DEF IInv, Typed
<1>2. Typed'
  BY <1>1, <1>h DEF IInv, Typed
<1>3. AllWhole'
  <2>1. WithSnapshots(d, snapshots, sent + 1)
    BY <1>1, WholeLater DEF IInv, AllWhole, WithSnapshots
  <2>2. Whole(begun, sent + 1)
    BY <1>1, WholeLater DEF IInv, AllWhole
  <2>3. session.dump # NoDump => WithSnapshots(session.dump.chain, session.dump.snapshots, sent + 1)
    BY <1>1, WholeLater DEF IInv, AllWhole, WithSnapshots
  <2> QED
    BY <2>1, <2>2, <2>3, <1>h DEF AllWhole
<1>4. Attempted'
  <2>1. \A l \in DOMAIN begun.log : begun.log[l].tok # sent + 1
    BY <1>1 DEF IInv, AllWhole, Whole, UpTo
  <2>2. Follows(chain, begun) => Follows(d, begun)
    BY <1>1, <2>1, FollowsKept
  <2> QED
    BY <2>2, <1>h DEF IInv, Attempted, Trying
<1>5. Gone'
  BY DEF IInv, Gone
<1> QED
  BY <1>2, <1>3, <1>4, <1>5 DEF IInv

(* What a revert restores, and what it leaves of the snapshots.            *)
LEMMA Reverts ==
    ASSUME IInv, NEW id, Known(id), Revert(id)
    PROVE  /\ chain' \in Chains /\ chain' = snapshots[id] /\ id \in Ids
           /\ snapshots' \in Snapshots /\ next_snapshot' = next_snapshot
           /\ \A k \in DOMAIN snapshots' : k \in DOMAIN snapshots /\ snapshots'[k] = snapshots[k] /\ k < id
           /\ DOMAIN snapshots' = {j \in DOMAIN snapshots : j < id}
           /\ WithSnapshots(chain', snapshots', sent)
<1>1. /\ DOMAIN snapshots \subseteq Ids
      /\ \A k \in DOMAIN snapshots : snapshots[k] \in Chains
  BY SnapshotsAre DEF IInv, Typed
<1>2. /\ chain' = snapshots[id] /\ id \in DOMAIN snapshots /\ next_snapshot' = next_snapshot
      /\ snapshots' = [k \in {j \in DOMAIN snapshots : j < id} |-> snapshots[k]]
  BY DEF Known, Revert
<1>3. /\ DOMAIN snapshots' = {j \in DOMAIN snapshots : j < id}
      /\ \A k \in DOMAIN snapshots' : k \in DOMAIN snapshots /\ snapshots'[k] = snapshots[k] /\ k < id
      /\ snapshots' = [k \in DOMAIN snapshots' |-> snapshots'[k]]
  BY <1>2
<1>4. snapshots' \in Snapshots
  BY <1>1, <1>3, SnapshotsAre
<1>5. WithSnapshots(chain', snapshots', sent)
  BY <1>2, <1>3 DEF IInv, AllWhole, WithSnapshots
<1> QED
  BY <1>1, <1>2, <1>3, <1>4, <1>5

(* A snapshot is taken under an id that is new.                            *)
LEMMA Takes ==
    ASSUME IInv, TakeSnapshot
    PROVE  /\ snapshots' \in Snapshots /\ next_snapshot' = next_snapshot + 1
           /\ next_snapshot' \in 0 .. MaxSnapshots /\ next_snapshot \in Ids
           /\ next_snapshot \notin DOMAIN snapshots
           /\ DOMAIN snapshots' = DOMAIN snapshots \cup {next_snapshot}
           /\ DOMAIN snapshots' \subseteq 0 .. next_snapshot' - 1
           /\ snapshots'[next_snapshot] = chain
           /\ \A k \in DOMAIN snapshots : snapshots'[k] = snapshots[k]
           /\ WithSnapshots(chain, snapshots', sent)
<1>1. /\ DOMAIN snapshots \subseteq Ids /\ chain \in Chains
      /\ \A k \in DOMAIN snapshots : snapshots[k] \in Chains
      /\ next_snapshot \in 0 .. MaxSnapshots /\ DOMAIN snapshots \subseteq 0 .. next_snapshot - 1
  BY SnapshotsAre DEF IInv, Typed
<1>2. /\ next_snapshot < MaxSnapshots /\ next_snapshot' = next_snapshot + 1
      /\ snapshots' = [k \in DOMAIN snapshots \cup {next_snapshot} |->
                        IF k = next_snapshot THEN chain ELSE snapshots[k]]
  BY DEF TakeSnapshot
<1>3. MaxSnapshots \in Nat
  BY AttemptAssumption
<1>4. /\ next_snapshot' \in 0 .. MaxSnapshots /\ next_snapshot \in Ids
      /\ next_snapshot \notin DOMAIN snapshots
      /\ DOMAIN snapshots \cup {next_snapshot} \subseteq 0 .. next_snapshot' - 1
  BY <1>1, <1>2, <1>3 DEF Ids
<1>5. /\ DOMAIN snapshots' = DOMAIN snapshots \cup {next_snapshot}
      /\ snapshots'[next_snapshot] = chain
      /\ \A k \in DOMAIN snapshots : snapshots'[k] = snapshots[k]
      /\ snapshots' = [k \in DOMAIN snapshots' |-> snapshots'[k]]
  BY <1>2, <1>4
<1>6. snapshots' \in Snapshots
  <2>1. DOMAIN snapshots' \subseteq Ids /\ \A k \in DOMAIN snapshots' : snapshots'[k] \in Chains
    BY <1>1, <1>4, <1>5
  <2> QED
    BY <2>1, <1>5, SnapshotsAre
<1>7. WithSnapshots(chain, snapshots', sent)
  BY <1>5 DEF IInv, AllWhole, WithSnapshots
<1> QED
  BY <1>2, <1>4, <1>5, <1>6, <1>7

-----------------------------------------------------------------------------
(* The invariant holds at first.                                           *)
LEMMA Initially == Init => IInv
<1> SUFFICES ASSUME Init PROVE IInv
  OBVIOUS
<1> USE DEF Init
<1>0. Genesis(0) \in Chains /\ Whole(Genesis(0), 0) /\ chain = Genesis(0) /\ begun = Genesis(0)
  BY GenesisWhole
<1>1. MarkOf(chain) \in Marks /\ snapshots = << >> /\ DOMAIN snapshots = {}
  BY <1>0, MarkTyped
<1>2. MaxSnapshots \in Nat /\ Slices \in Nat \ {0} /\ MaxAttempts \in Nat
  BY AttemptAssumption
<1>3. Typed
  <2>1. snapshots \in Snapshots
    <3>1. snapshots = [k \in DOMAIN snapshots |-> snapshots[k]]
      BY <1>1
    <3> QED
      BY <3>1, <1>1, SnapshotsAre
  <2>2. attempt \in Attempts
    BY <1>1, <1>2 DEF Attempts
  <2>3. session \in Sessions
    BY <1>2 DEF Sessions
  <2>4. phase \in Phases
    BY DEF Phases
  <2>5. /\ next_snapshot \in 0 .. MaxSnapshots /\ slice \in 0 .. Slices - 1
        /\ attempts \in 0 .. MaxAttempts /\ sent \in Nat /\ boots \in Nat
    BY <1>2
  <2>6. /\ DOMAIN snapshots \subseteq 0 .. next_snapshot - 1 /\ dead \subseteq 0 .. next_snapshot - 1
        /\ per_attempt \in BOOLEAN /\ reverted \in BOOLEAN /\ wentBack \in BOOLEAN
    BY <1>1
  <2>7. chain \in Chains /\ begun \in Chains
    BY <1>0
  <2> QED
    BY <2>1, <2>2, <2>3, <2>4, <2>5, <2>6, <2>7, Zenon DEF Typed
<1>4. AllWhole
  BY <1>0, <1>1 DEF AllWhole, WithSnapshots
<1>5. Attempted /\ Gone
  BY DEF Attempted, Trying, Gone
<1> QED
  BY <1>3, <1>4, <1>5 DEF IInv

(* A start loads genesis or the last dump, which was whole when it was     *)
(* written.                                                                *)
LEMMA BootKeeps ==
    ASSUME IInv, NEW is_continue \in BOOLEAN, NEW provisioned \in BOOLEAN, NEW cap \in Caps,
           Boot(is_continue, cap, provisioned)
    PROVE  IInv'
<1> DEFINE loaded == Reloaded(is_continue, cap)
<1>0. sent \in Nat /\ MaxSnapshots \in Nat /\ Slices \in Nat \ {0} /\ session \in Sessions
      /\ 0 \in 0 .. MaxAttempts
  BY AttemptAssumption DEF IInv, Typed
<1>1. loaded \in Loads /\ WithSnapshots(loaded.chain, loaded.snapshots, sent)
  <2>1. CASE is_continue /\ session.dump # NoDump
    <3>1. loaded = session.dump
      BY <2>1 DEF Reloaded
    <3>2. session.dump \in Loads
      BY <2>1, <1>0 DEF Sessions
    <3> QED
      BY <2>1, <3>1, <3>2 DEF IInv, AllWhole
  <2>2. CASE ~(is_continue /\ session.dump # NoDump)
    <3>1. loaded = [chain |-> Genesis(cap), snapshots |-> << >>, next_snapshot |-> 0]
      BY <2>2 DEF Reloaded
    <3>2. Genesis(cap) \in Chains /\ Whole(Genesis(cap), sent)
      BY <1>0, GenesisWhole
    <3>3. << >> \in Snapshots /\ DOMAIN << >> = {}
      <4>1. DOMAIN << >> = {} /\ << >> = [k \in DOMAIN << >> |-> << >>[k]]
        OBVIOUS
      <4> QED
        BY <4>1, SnapshotsAre
    <3> HIDE DEF loaded
    <3>4. loaded \in Loads
      BY <1>0, <3>1, <3>2, <3>3 DEF Loads
    <3> QED
      BY <3>1, <3>2, <3>3, <3>4 DEF WithSnapshots
  <2> QED
    BY <2>1, <2>2
<1> HIDE DEF loaded
<1>2. /\ loaded.chain \in Chains /\ loaded.snapshots \in Snapshots
      /\ loaded.next_snapshot \in 0 .. MaxSnapshots
      /\ DOMAIN loaded.snapshots \subseteq 0 .. loaded.next_snapshot - 1
  BY <1>1 DEF Loads
<1>3. /\ sent' = (IF provisioned THEN sent + 1 ELSE sent)
      /\ chain' = (IF provisioned THEN apply_hapi(loaded.chain, sent + 1, TRUE) ELSE loaded.chain)
      /\ snapshots' = loaded.snapshots /\ next_snapshot' = loaded.next_snapshot
      /\ slice' = (IF is_continue THEN session.slice_index ELSE 0)
      /\ session' = (IF is_continue THEN session ELSE [dump |-> NoDump, slice_index |-> 0])
      /\ phase' = "ready" /\ attempts' = 0 /\ reverted' = FALSE /\ wentBack' = FALSE /\ dead' = {}
      /\ boots' = boots + 1 /\ UNCHANGED <<per_attempt, attempt, begun>>
  BY Zenon DEF Boot, loaded
<1>4. chain' \in Chains /\ Whole(chain', sent') /\ sent' \in Nat
  <2>1. CASE provisioned
    <3>1. Whole(loaded.chain, sent)
      BY <1>1 DEF WithSnapshots
    <3>2. /\ apply_hapi(loaded.chain, sent + 1, TRUE) \in Chains
          /\ Whole(apply_hapi(loaded.chain, sent + 1, TRUE), sent + 1)
      BY <3>1, <1>0, <1>2, HapiGrows
    <3>3. sent + 1 \in Nat
      BY <1>0
    <3> QED
      BY <2>1, <3>2, <3>3, <1>3
  <2>2. CASE ~provisioned
    BY <2>2, <1>0, <1>1, <1>2, <1>3 DEF WithSnapshots
  <2> QED
    BY <2>1, <2>2
<1>5. \A c : Whole(c, sent) => Whole(c, sent')
  BY <1>0, <1>3, WholeLater
<1>6. Typed'
  <2>1. [dump |-> NoDump, slice_index |-> 0] \in Sessions
    BY <1>0 DEF Sessions
  <2>2. session' \in Sessions /\ slice' \in 0 .. Slices - 1
    BY <2>1, <1>0, <1>3 DEF Sessions
  <2>3. boots \in Nat /\ per_attempt \in BOOLEAN /\ attempt \in Attempts /\ begun \in Chains
    BY DEF IInv, Typed
  <2>4. phase' \in Phases
    BY <1>3 DEF Phases
  <2>5. boots' \in Nat /\ attempts' \in 0 .. MaxAttempts /\ dead' \subseteq 0 .. next_snapshot' - 1
    BY <2>3, <1>0, <1>3
  <2>6. /\ per_attempt' \in BOOLEAN /\ attempt' \in Attempts /\ begun' \in Chains
        /\ reverted' \in BOOLEAN /\ wentBack' \in BOOLEAN
    BY <2>3, <1>3
  <2>7. /\ snapshots' \in Snapshots /\ next_snapshot' \in 0 .. MaxSnapshots
        /\ DOMAIN snapshots' \subseteq 0 .. next_snapshot' - 1
    BY <1>2, <1>3
  <2> QED
    BY <2>2, <2>4, <2>5, <2>6, <2>7, <1>4, Zenon DEF Typed
<1>7. AllWhole'
  <2>1. WithSnapshots(chain', snapshots', sent')
    BY <1>1, <1>3, <1>4, <1>5 DEF WithSnapshots
  <2>2. Whole(begun', sent')
    BY <1>3, <1>5 DEF IInv, AllWhole
  <2>3. session'.dump # NoDump => WithSnapshots(session'.dump.chain, session'.dump.snapshots, sent')
    <3>1. CASE is_continue
      BY <3>1, <1>3, <1>5 DEF IInv, AllWhole, WithSnapshots
    <3>2. CASE ~is_continue
      BY <3>2, <1>3
    <3> QED
      BY <3>1, <3>2
  <2> QED
    BY <2>1, <2>2, <2>3 DEF AllWhole
<1>8. Attempted' /\ Gone'
  BY <1>3 DEF Attempted, Trying, Gone
<1> QED
  BY <1>6, <1>7, <1>8 DEF IInv

(* An attempt begins by marking and, when asked to, keeping the chain as   *)
(* it is.                                                                  *)
LEMMA BeginKeeps ==
    ASSUME IInv, BeginAttempt
    PROVE  IInv'
<1>1. /\ attempt' = [mark |-> MarkOf(chain), snapshot |-> IF per_attempt THEN next_snapshot ELSE NoSnapshot,
                    first |-> next_snapshot]
      /\ begun' = chain /\ wentBack' = FALSE /\ phase' = "running" /\ attempts' = attempts + 1
      /\ attempts < MaxAttempts
      /\ UNCHANGED <<chain, per_attempt, slice, reverted, session, sent, boots, dead>>
  BY DEF BeginAttempt
<1>2. \/ per_attempt /\ TakeSnapshot
      \/ ~per_attempt /\ UNCHANGED <<snapshots, next_snapshot>>
  BY DEF BeginAttempt, IInv, Typed
<1>3. /\ chain \in Chains /\ DOMAIN snapshots \subseteq 0 .. next_snapshot - 1
      /\ next_snapshot \in 0 .. MaxSnapshots /\ MaxSnapshots \in Nat
      /\ attempts \in 0 .. MaxAttempts /\ MaxAttempts \in Nat /\ dead \subseteq 0 .. next_snapshot - 1
      /\ dead \cap DOMAIN snapshots = {}
  BY AttemptAssumption DEF IInv, Typed, Gone
<1>4. /\ snapshots' \in Snapshots /\ next_snapshot' \in 0 .. MaxSnapshots
      /\ DOMAIN snapshots' \subseteq 0 .. next_snapshot' - 1
      /\ next_snapshot <= next_snapshot' /\ (per_attempt => next_snapshot < next_snapshot')
      /\ WithSnapshots(chain, snapshots', sent)
      /\ \A k \in DOMAIN snapshots' : k < next_snapshot \/ (k = next_snapshot /\ snapshots'[k] = chain)
      /\ \A k \in DOMAIN snapshots' : k \in DOMAIN snapshots \/ k = next_snapshot
  <2>0. DOMAIN snapshots \subseteq Int /\ \A k \in DOMAIN snapshots : k < next_snapshot
    BY <1>3
  <2>1. CASE TakeSnapshot
    <3>1. /\ snapshots' \in Snapshots /\ next_snapshot' = next_snapshot + 1
          /\ next_snapshot' \in 0 .. MaxSnapshots
          /\ DOMAIN snapshots' = DOMAIN snapshots \cup {next_snapshot}
          /\ DOMAIN snapshots' \subseteq 0 .. next_snapshot' - 1
          /\ snapshots'[next_snapshot] = chain /\ WithSnapshots(chain, snapshots', sent)
      BY <2>1, Takes
    <3>2. next_snapshot <= next_snapshot' /\ next_snapshot < next_snapshot'
      BY <3>1, <1>3
    <3> QED
      BY <3>1, <3>2, <2>0
  <2>2. CASE ~per_attempt /\ UNCHANGED <<snapshots, next_snapshot>>
    <3>1. /\ snapshots \in Snapshots /\ next_snapshot <= next_snapshot
          /\ WithSnapshots(chain, snapshots, sent)
      BY <1>3 DEF IInv, Typed, AllWhole
    <3> QED
      BY <2>2, <3>1, <2>0, <1>3
  <2> QED
    BY <1>2, <2>1, <2>2
<1>5. Typed'
  <2>1. attempt' \in Attempts
    <3>1. (IF per_attempt THEN next_snapshot ELSE NoSnapshot) \in {NoSnapshot} \cup Ids
      BY <1>2, Takes
    <3> QED
      BY <3>1, <1>1, <1>3, MarkTyped DEF Attempts
  <2>2. phase' \in Phases /\ attempts' \in 0 .. MaxAttempts
    BY <1>1, <1>3 DEF Phases
  <2>3. dead' \subseteq 0 .. next_snapshot' - 1
    <3>1. dead' = dead /\ next_snapshot <= next_snapshot' /\ next_snapshot \in Int /\ next_snapshot' \in Int
      BY <1>1, <1>3, <1>4
    <3>2. \A x, y \in Int : x <= y => 0 .. x - 1 \subseteq 0 .. y - 1
      OBVIOUS
    <3> QED
      BY <3>1, <3>2, <1>3
  <2> QED
    BY <2>1, <2>2, <2>3, <1>1, <1>4 DEF IInv, Typed
<1>6. AllWhole'
  BY <1>1, <1>4 DEF IInv, AllWhole, WithSnapshots
<1>7. Attempted'
  <2>1. Follows(chain', begun')
    BY <1>1, <1>3, FollowsItself
  <2>2. attempt'.mark = MarkOf(begun') /\ attempt'.first = next_snapshot
        /\ attempt'.snapshot = (IF per_attempt THEN next_snapshot ELSE NoSnapshot)
    BY <1>1
  <2>3. attempt'.snapshot \in DOMAIN snapshots' => snapshots'[attempt'.snapshot] = begun'
    BY <2>2, <1>1, <1>3, <1>4 DEF NoSnapshot
  <2>4. \A k \in DOMAIN snapshots' : k >= attempt'.first => Follows(snapshots'[k], begun')
    BY <2>1, <2>2, <1>1, <1>3, <1>4
  <2>5. attempt'.first <= next_snapshot' /\ attempt'.snapshot < next_snapshot'
        /\ attempt'.snapshot \in {NoSnapshot, attempt'.first}
    BY <2>2, <1>3, <1>4 DEF NoSnapshot
  <2> QED
    BY <2>1, <2>2, <2>3, <2>4, <2>5 DEF Attempted
<1>8. Gone'
  BY <1>1, <1>3, <1>4 DEF Gone
<1> QED
  BY <1>5, <1>6, <1>7, <1>8 DEF IInv

(* A snapshot taken by a client gets an id later than the mark.            *)
LEMMA ClientSnapshotKeeps ==
    ASSUME IInv, ClientSnapshot
    PROVE  IInv'
<1>1. TakeSnapshot /\ UNCHANGED <<chain, phase, sent, wentBack, dead, per_attempt, slice, attempts,
                                 attempt, reverted, session, boots, begun>>
  BY DEF ClientSnapshot, harness
<1>2. /\ snapshots' \in Snapshots /\ next_snapshot' = next_snapshot + 1
      /\ next_snapshot' \in 0 .. MaxSnapshots
      /\ next_snapshot \notin DOMAIN snapshots
      /\ DOMAIN snapshots' = DOMAIN snapshots \cup {next_snapshot}
      /\ DOMAIN snapshots' \subseteq 0 .. next_snapshot' - 1
      /\ snapshots'[next_snapshot] = chain
      /\ \A k \in DOMAIN snapshots : snapshots'[k] = snapshots[k]
      /\ WithSnapshots(chain, snapshots', sent)
  BY <1>1, Takes
<1>3. next_snapshot \in Nat /\ dead \subseteq 0 .. next_snapshot - 1 /\ dead \cap DOMAIN snapshots = {}
  BY AttemptAssumption DEF IInv, Typed, Gone
<1>4. Typed'
  <2>1. dead' \subseteq 0 .. next_snapshot' - 1
    BY <1>1, <1>2, <1>3
  <2> QED
    BY <2>1, <1>1, <1>2 DEF IInv, Typed
<1>5. AllWhole'
  BY <1>1, <1>2 DEF IInv, AllWhole
<1>6. Attempted'
  <2> SUFFICES ASSUME Trying' PROVE Attempted'
    BY DEF Attempted
  <2>1. Trying /\ attempt \in Attempts
    BY <1>1 DEF Trying, IInv, Typed
  <2>2. /\ attempt.mark = MarkOf(begun) /\ attempt.first <= next_snapshot /\ attempt.first \in Nat
        /\ attempt.snapshot \in {NoSnapshot, attempt.first} /\ attempt.snapshot < next_snapshot
        /\ attempt.snapshot \in DOMAIN snapshots => snapshots[attempt.snapshot] = begun
        /\ ~wentBack => Follows(chain, begun)
                        /\ \A k \in DOMAIN snapshots : k >= attempt.first => Follows(snapshots[k], begun)
    BY <2>1, AttemptAssumption DEF IInv, Attempted, Attempts
  <2>3. attempt.first <= next_snapshot' /\ attempt.snapshot < next_snapshot' /\ attempt.snapshot # next_snapshot
    <3>1. attempt.snapshot \in Int
      BY <2>2 DEF NoSnapshot
    <3> QED
      BY <3>1, <2>2, <1>2, <1>3
  <2>4. attempt.snapshot \in DOMAIN snapshots' => snapshots'[attempt.snapshot] = begun
    BY <2>2, <2>3, <1>2
  <2>5. ~wentBack => \A k \in DOMAIN snapshots' : k >= attempt.first => Follows(snapshots'[k], begun)
    BY <2>2, <1>2
  <2> QED
    BY <2>2, <2>3, <2>4, <2>5, <1>1 DEF Attempted
<1>7. Gone'
  BY <1>1, <1>2, <1>3 DEF Gone
<1> QED
  BY <1>4, <1>5, <1>6, <1>7 DEF IInv

(* A client that goes back no further than the mark finds a chain that     *)
(* goes on from it.                                                        *)
LEMMA ClientRevertKeeps ==
    ASSUME IInv, NEW id, ClientRevert(id)
    PROVE  IInv'
<1>1. /\ Known(id) /\ Revert(id) /\ wentBack' = (wentBack \/ id < attempt.first)
      /\ UNCHANGED <<phase, sent, dead, per_attempt, slice, attempts, attempt, reverted, session,
                     boots, begun>>
  BY DEF ClientRevert, harness
<1>2. /\ chain' \in Chains /\ chain' = snapshots[id] /\ id \in Ids
      /\ snapshots' \in Snapshots /\ next_snapshot' = next_snapshot
      /\ \A k \in DOMAIN snapshots' : k \in DOMAIN snapshots /\ snapshots'[k] = snapshots[k] /\ k < id
      /\ DOMAIN snapshots' = {j \in DOMAIN snapshots : j < id}
      /\ WithSnapshots(chain', snapshots', sent)
  BY <1>1, Reverts
<1>3. id \in DOMAIN snapshots /\ id \in Int /\ attempt \in Attempts
  BY <1>1, <1>2 DEF Known, Ids, IInv, Typed
<1>4. Typed'
  BY <1>1, <1>2 DEF IInv, Typed
<1>5. AllWhole'
  BY <1>1, <1>2 DEF IInv, AllWhole
<1>6. Attempted'
  <2> SUFFICES ASSUME Trying' PROVE Attempted'
    BY DEF Attempted
  <2>1. Trying
    BY <1>1 DEF Trying
  <2>2. /\ attempt.mark = MarkOf(begun) /\ attempt.first <= next_snapshot /\ attempt.first \in Int
        /\ attempt.snapshot \in {NoSnapshot, attempt.first} /\ attempt.snapshot < next_snapshot
        /\ attempt.snapshot \in DOMAIN snapshots => snapshots[attempt.snapshot] = begun
        /\ ~wentBack => Follows(chain, begun)
                        /\ \A k \in DOMAIN snapshots : k >= attempt.first => Follows(snapshots[k], begun)
    BY <2>1, <1>3, AttemptAssumption DEF IInv, Attempted, Attempts
  <2>3. attempt.snapshot \in DOMAIN snapshots' => snapshots'[attempt.snapshot] = begun
    BY <2>2, <1>2
  <2>4. ASSUME ~wentBack'
        PROVE  /\ Follows(chain', begun)
               /\ \A k \in DOMAIN snapshots' : k >= attempt.first => Follows(snapshots'[k], begun)
    <3>1. ~wentBack /\ ~(id < attempt.first)
      BY <2>4, <1>1, Zenon
    <3>2. id >= attempt.first
      BY <3>1, <2>2, <1>3
    <3> QED
      BY <3>1, <3>2, <2>2, <1>2, <1>3
  <2> QED
    BY <2>2, <2>3, <2>4, <1>1, <1>2 DEF Attempted
<1>7. Gone'
  BY <1>1, <1>2 DEF IInv, Gone
<1> QED
  BY <1>4, <1>5, <1>6, <1>7 DEF IInv

(* An attempt that failed is undone by reverting to its snapshot.          *)
LEMMA UndoneKeeps ==
    ASSUME IInv, AttemptUndone
    PROVE  /\ IInv'
           /\ reverted' => chain' = begun
<1>1. /\ phase = "failed" /\ phase' = "ready"
      /\ UNCHANGED <<per_attempt, slice, attempts, attempt, session, sent, boots, begun, wentBack>>
  BY DEF AttemptUndone
<1>2. /\ dead \subseteq 0 .. next_snapshot - 1 /\ next_snapshot \in Int
      /\ DOMAIN snapshots \subseteq 0 .. next_snapshot - 1 /\ dead \cap DOMAIN snapshots = {}
  BY AttemptAssumption DEF IInv, Typed, Gone
<1>3. attempt.snapshot \in DOMAIN snapshots => snapshots[attempt.snapshot] = begun
  BY <1>1 DEF IInv, Attempted, Trying
<1>4. Attempted'
  BY <1>1 DEF Attempted, Trying
<1>5. phase' \in Phases
  BY <1>1 DEF Phases
<1>6. CASE Known(attempt.snapshot)
  <2> DEFINE id == attempt.snapshot
  <2>1. Revert(id) /\ reverted' = TRUE /\ dead' = dead \cup (id .. next_snapshot - 1)
    BY <1>6 DEF AttemptUndone
  <2>2. /\ chain' \in Chains /\ chain' = snapshots[id] /\ id \in Ids
        /\ snapshots' \in Snapshots /\ next_snapshot' = next_snapshot
        /\ DOMAIN snapshots' = {j \in DOMAIN snapshots : j < id}
        /\ WithSnapshots(chain', snapshots', sent)
    BY <1>6, <2>1, Reverts
  <2>3. id \in Nat /\ id \in DOMAIN snapshots
    BY <1>6, <2>2 DEF Ids, Known
  <2> HIDE DEF id
  <2>4. dead' \subseteq 0 .. next_snapshot' - 1
    BY <1>2, <2>1, <2>2, <2>3
  <2>5. dead' \cap DOMAIN snapshots' = {}
    <3> SUFFICES ASSUME NEW k \in DOMAIN snapshots', k \in dead' PROVE FALSE
      OBVIOUS
    <3>1. k \in DOMAIN snapshots /\ k < id /\ k \in Int
      BY <1>2, <2>2
    <3>2. k \in id .. next_snapshot - 1
      BY <3>1, <2>1, <1>2
    <3> QED
      BY <3>1, <3>2, <2>3
  <2>6. DOMAIN snapshots' \subseteq 0 .. next_snapshot' - 1
    BY <1>2, <2>2
  <2>7. Typed'
    BY <1>1, <1>5, <2>1, <2>2, <2>4, <2>6 DEF IInv, Typed
  <2>8. AllWhole'
    BY <1>1, <2>2 DEF IInv, AllWhole
  <2>9. chain' = begun
    BY <1>3, <2>2, <2>3 DEF id
  <2> QED
    BY <1>4, <2>5, <2>7, <2>8, <2>9 DEF IInv, Gone
<1>7. CASE ~Known(attempt.snapshot)
  <2>1. reverted' = FALSE /\ UNCHANGED <<chain, snapshots, next_snapshot, dead>>
    BY <1>7 DEF AttemptUndone
  <2>2. Typed' /\ AllWhole' /\ Gone'
    BY <1>1, <1>5, <2>1 DEF IInv, Typed, AllWhole, Gone
  <2> QED
    BY <2>1, <2>2, <1>4 DEF IInv
<1> QED
  BY <1>6, <1>7

(* The dump written at the end of an attempt is the chain as it is.        *)
LEMMA JudgedKeeps ==
    ASSUME IInv, NEW verdict \in {"passed", "failed", "aborted"}, NEW written \in BOOLEAN,
           AttemptJudged(verdict, written)
    PROVE  IInv'
<1>1. /\ phase = "running" /\ phase' = verdict
      /\ session' = [session EXCEPT !.dump = Dumped(written)]
      /\ UNCHANGED <<chain, snapshots, next_snapshot, per_attempt, slice, attempts, attempt,
                     reverted, sent, boots, begun, wentBack, dead>>
  BY DEF AttemptJudged
<1>2. Trying /\ phase' \in Phases
  BY <1>1 DEF Trying, Phases
<1>3. /\ session \in Sessions /\ chain \in Chains /\ snapshots \in Snapshots
      /\ next_snapshot \in 0 .. MaxSnapshots /\ DOMAIN snapshots \subseteq 0 .. next_snapshot - 1
  BY DEF IInv, Typed
<1>4. /\ Dumped(written) \in Loads \cup {NoDump}
      /\ Dumped(written) # NoDump => WithSnapshots(Dumped(written).chain, Dumped(written).snapshots, sent)
  <2>1. CASE written
    <3> DEFINE l == [chain |-> chain, snapshots |-> snapshots, next_snapshot |-> next_snapshot]
    <3>1. Dumped(written) = l
      BY <2>1 DEF Dumped
    <3>2. l \in Loads
      BY <1>3 DEF Loads
    <3>3. WithSnapshots(l.chain, l.snapshots, sent)
      BY DEF IInv, AllWhole
    <3> QED
      BY <3>1, <3>2, <3>3
  <2>2. CASE ~written
    <3>1. Dumped(written) = session.dump
      BY <2>2 DEF Dumped
    <3> QED
      BY <3>1, <1>3 DEF Sessions, IInv, AllWhole
  <2> QED
    BY <2>1, <2>2
<1>5. session' \in Sessions /\ session'.dump = Dumped(written)
  BY <1>1, <1>3, <1>4 DEF Sessions
<1>6. Typed'
  BY <1>1, <1>2, <1>5 DEF IInv, Typed
<1>7. AllWhole'
  BY <1>1, <1>4, <1>5 DEF IInv, AllWhole
<1>8. Attempted' /\ Gone'
  BY <1>1, <1>2 DEF IInv, Attempted, Gone
<1> QED
  BY <1>6, <1>7, <1>8 DEF IInv

(* Steps that leave the chain alone and end the attempt.                   *)
LEMMA EndsKeep ==
    ASSUME IInv, phase' \in {"ready", "off"}, slice' \in 0 .. Slices - 1,
           attempts' \in 0 .. MaxAttempts, reverted' \in BOOLEAN,
           session' = [session EXCEPT !.slice_index = slice] \/ session' = session,
           UNCHANGED <<chain, snapshots, next_snapshot, per_attempt, attempt, sent, boots, begun,
                       wentBack, dead>>
    PROVE  IInv'
<1>1. phase' \in Phases /\ session \in Sessions /\ slice \in 0 .. Slices - 1
  BY DEF Phases, IInv, Typed
<1>2. session' \in Sessions /\ session'.dump = session.dump
  BY <1>1 DEF Sessions
<1>3. Typed'
  BY <1>1, <1>2 DEF IInv, Typed
<1>4. AllWhole'
  BY <1>2 DEF IInv, AllWhole
<1>5. Attempted' /\ Gone'
  BY DEF IInv, Attempted, Trying, Gone
<1> QED
  BY <1>3, <1>4, <1>5 DEF IInv

(* Every step keeps the invariant. *)
LEMMA Inductive == IInv /\ [Next]_vars => IInv'
<1> SUFFICES ASSUME IInv, [Next]_vars PROVE IInv'
  OBVIOUS
<1>t. /\ sent \in Nat /\ chain \in Chains /\ Whole(chain, sent)
      /\ slice \in 0 .. Slices - 1 /\ attempts \in 0 .. MaxAttempts /\ reverted \in BOOLEAN
      /\ MaxAttempts \in Nat /\ Slices \in Nat
  BY AttemptAssumption DEF IInv, Typed, AllWhole, WithSnapshots
<1>1. ASSUME NEW is_continue \in BOOLEAN, NEW provisioned \in BOOLEAN, NEW cap \in Caps,
             Boot(is_continue, cap, provisioned)
      PROVE  IInv'
  BY <1>1, BootKeeps
<1>2. CASE Crash
  BY <1>2, <1>t, EndsKeep DEF Crash, harness
<1>3. CASE BeginAttempt
  BY <1>3, BeginKeeps
<1>4. ASSUME NEW ok \in BOOLEAN, SubmitHapi(ok) PROVE IInv'
  <2>1. /\ sent' = sent + 1 /\ chain' = apply_hapi(chain, sent', ok)
        /\ UNCHANGED <<snapshots, next_snapshot, phase, wentBack, dead, harness>>
    BY <1>4 DEF SubmitHapi, Submission
  <2> QED
    BY <2>1, <1>t, HapiGrows, SubmissionKeeps
<1>5. ASSUME NEW ok \in BOOLEAN, SubmitEthereum(ok) PROVE IInv'
  <2>1. /\ sent' = sent + 1 /\ chain' = apply_ethereum(chain, sent', ok)
        /\ UNCHANGED <<snapshots, next_snapshot, phase, wentBack, dead, harness>>
    BY <1>5 DEF SubmitEthereum, Submission
  <2> QED
    BY <2>1, <1>t, EthereumGrows, SubmissionKeeps
<1>6. ASSUME NEW ok \in BOOLEAN, SendRaw(ok) PROVE IInv'
  <2>1. /\ sent' = sent + 1 /\ chain' = send_raw(chain, sent', ok)
        /\ UNCHANGED <<snapshots, next_snapshot, phase, wentBack, dead, harness>>
    BY <1>6 DEF SendRaw, Submission
  <2> QED
    BY <2>1, <1>t, RawGrows, SubmissionKeeps
<1>7. CASE SubmitEthereumRefused
  <2>1. /\ sent' = sent + 1 /\ chain' = apply_ethereum_refused(chain, sent')
        /\ UNCHANGED <<snapshots, next_snapshot, phase, wentBack, dead, harness>>
    BY <1>7 DEF SubmitEthereumRefused, Submission
  <2> QED
    BY <2>1, <1>t, RefusedGrows, SubmissionKeeps
<1>8. CASE Refuse
  <2>1. /\ sent' = sent + 1 /\ chain' = reject(chain, sent')
        /\ UNCHANGED <<snapshots, next_snapshot, phase, wentBack, dead, harness>>
    BY <1>8 DEF Refuse, Submission
  <2> QED
    BY <2>1, <1>t, RejectGrows, SubmissionKeeps
<1>9. CASE ClientSnapshot
  BY <1>9, ClientSnapshotKeeps
<1>10. ASSUME NEW id \in 0 .. MaxSnapshots - 1, ClientRevert(id) PROVE IInv'
  BY <1>10, ClientRevertKeeps
<1>11. ASSUME NEW verdict \in {"passed", "failed", "aborted"}, NEW written \in BOOLEAN,
              AttemptJudged(verdict, written)
       PROVE  IInv'
  BY <1>11, JudgedKeeps
<1>12. CASE IncrementPassed
  <2>1. /\ session' = [session EXCEPT !.slice_index = slice]
        /\ phase' \in {"ready", "off"} /\ attempts' = 0 /\ reverted' = FALSE
        /\ UNCHANGED <<chain, snapshots, next_snapshot, per_attempt, attempt, sent, boots, begun,
                       wentBack, dead>>
    BY <1>12 DEF IncrementPassed
  <2>2. slice' \in 0 .. Slices - 1
    BY <1>12, <1>t DEF IncrementPassed
  <2>3. attempts' \in 0 .. MaxAttempts
    BY <2>1, <1>t
  <2> QED
    BY <2>1, <2>2, <2>3, EndsKeep
<1>13. CASE RunStops
  BY <1>13, <1>t, EndsKeep DEF RunStops
<1>14. CASE AttemptUndone
  BY <1>14, UndoneKeeps
<1>15. CASE UNCHANGED vars
  BY <1>15 DEF vars, harness, IInv, Typed, AllWhole, Attempted, Trying, Gone
<1> QED
  BY <1>1, <1>2, <1>3, <1>4, <1>5, <1>6, <1>7, <1>8, <1>9, <1>10, <1>11, <1>12, <1>13, <1>14, <1>15
     DEF Next

-----------------------------------------------------------------------------
(* The inductive invariant holds in every reachable state: every chain an  *)
(* attempt, a snapshot or a dump can bring back is whole, and in an        *)
(* attempt nobody took further back the chain goes on from its beginning.  *)
THEOREM Invariant == Spec => []IInv
<1>1. Init => IInv
  BY Initially
<1>2. IInv /\ [Next]_vars => IInv'
  BY Inductive
<1> QED
  BY <1>1, <1>2, PTL DEF Spec

(* The harness' state keeps its types, and a chain never keeps more        *)
(* refusals than --max-rejections allows, whatever a revert or a reload    *)
(* puts in its place (Chain::reject).                                      *)
THEOREM TypeCorrect == Spec => []TypeOK
<1>1. IInv => TypeOK
  <2> SUFFICES ASSUME IInv PROVE TypeOK
    OBVIOUS
  <2>1. chain.max_rejections # 0 => Len(chain.rejections) <= chain.max_rejections
    BY DEF IInv, AllWhole, WithSnapshots, Whole, Capped
  <2>2. chain.max_rejections \in Caps \cup {0}
    BY Fields DEF IInv, Typed
  <2>3. attempt.snapshot \in {NoSnapshot} \cup 0 .. MaxSnapshots - 1
    BY DEF IInv, Typed, Attempts, Ids
  <2> QED
    BY <2>1, <2>2, <2>3 DEF TypeOK, IInv, Typed, Phases
<1> QED
  BY <1>1, Invariant, PTL

(* The ledger an attempt is judged and repaired by (Ledger::since) lists   *)
(* each submission made since the mark once, with its outcome, and nothing *)
(* older; of the refusals it lists the newest the cap keeps.  No refusal   *)
(* is lost to the count that a mark relies on, on any chain that can be    *)
(* come back to.                                                           *)
THEOREM LedgerTrue == Spec => []LedgerAddsUp
<1>1. IInv => LedgerIsExact
  <2> SUFFICES ASSUME IInv, phase = "running", ~wentBack
               PROVE  /\ \A row, other \in Since(chain, attempt.mark) : row.tok = other.tok => row = other
                      /\ {[tok |-> row.tok, outcome |-> row.outcome] : row \in Since(chain, attempt.mark)}
                         = {chain.log[k] : k \in Past(chain.log, attempt.mark.log)}
                           \cup {[tok |-> chain.refused[k], outcome |-> "rejected"]
                                 : k \in NewestSince(chain, attempt.mark.refused)}
    BY Zenon DEF LedgerIsExact, NewestSince
  <2>1. /\ chain \in Chains /\ begun \in Chains /\ Whole(chain, sent) /\ Whole(begun, sent)
        /\ attempt.mark = MarkOf(begun) /\ Follows(chain, begun)
    BY DEF IInv, Typed, AllWhole, WithSnapshots, Attempted, Trying
  <2>2. attempt.mark.log = Len(begun.log) /\ attempt.mark.refused = Len(begun.refused)
    BY <2>1 DEF MarkOf
  <2>3. Since(chain, attempt.mark) = Since(chain, MarkOf(begun))
    BY <2>1
  <2> QED
    BY <2>1, <2>2, <2>3, Exact
<1>2. IInv => RefusalsAddUp
  BY DEF IInv, AllWhole, WithSnapshots, Whole, Capped, RefusalsAddUp
<1> QED
  BY <1>1, <1>2, Invariant, PTL DEF LedgerAddsUp

(* When a repair is told that the chain was put back, it is exactly the    *)
(* chain the failed attempt started on; and no snapshot of an undone       *)
(* attempt can be reverted to again (Chain::revert, run_loop).             *)
THEOREM Undone == Spec => UndoneIsUndone
<1>1. IInv /\ [Next]_vars => [phase = "failed" /\ phase' = "ready" /\ reverted' => chain' = begun]_vars
  <2> SUFFICES ASSUME IInv, Next, phase = "failed", phase' = "ready", reverted'
               PROVE  chain' = begun
    BY DEF vars
  <2>1. AttemptUndone
    BY DEF Next, Boot, Crash, BeginAttempt, SubmitHapi, SubmitEthereum, SubmitEthereumRefused, SendRaw,
           Refuse, Submission, ClientSnapshot, ClientRevert, AttemptJudged, IncrementPassed, RunStops
  <2> QED
    BY <2>1, UndoneKeeps
<1>2. IInv /\ IInv' /\ [Next]_vars => [UndoneSnapshotsStayGone']_vars
  BY DEF IInv, Gone, UndoneSnapshotsStayGone
<1>3. IInv => UndoneSnapshotsStayGone
  BY DEF IInv, Gone, UndoneSnapshotsStayGone
<1> QED
  BY <1>1, <1>2, Invariant, PTL DEF Spec, UndoneIsUndone, RepairStartsWhereTheLastBegan
=============================================================================
