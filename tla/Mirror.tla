------------------------------- MODULE Mirror -------------------------------
(***************************************************************************)
(* The mirror REST API (src/src/mirror): pages over what the chain holds,  *)
(* read while the node goes on.  The chain keeps EVM transactions and HAPI *)
(* records apart; an ethereumTransaction leaves one of each under a single *)
(* consensus timestamp.  A page is computed under the read lock and has no *)
(* link to the next one: a client that wants the rest asks again with a    *)
(* `timestamp' clause, and its answer may arrive after the chain has grown *)
(* or was reverted.                                                        *)
(*                                                                         *)
(* An account is an entity id, a timestamp a number, a hash the place of a *)
(* transaction in the chain.                                               *)
(***************************************************************************)
EXTENDS Integers, Sequences, FiniteSets, SequencesExt

CONSTANTS
  FEE_COLLECTOR, FEE,
  WEIBAR_PER_TINYBAR,
  Sends,        \* EVM transactions: [from, to, value, signed, ok]
  Bodies,       \* HAPI transactions whose only transfer is the fee: [payer, kind, ok]
  Starts,       \* valid starts clients choose
  TRANSACTION_TYPES,
  Queries,      \* what readers ask for: [topic, order, account, kind, result, limit]
  MAX_LIMIT,    \* of a page
  MAX_STAMP,    \* bound on timestamps
  MAX_TXS       \* bound on transactions

None == 0
NAME == "ETHEREUMTRANSACTION"
Creates == -1

ASSUME AmountsArePositive == FEE > 0 /\ WEIBAR_PER_TINYBAR > 0

ASSUME QueriesAreTyped ==
  \A q \in Queries : q.order \in {"asc", "desc"} /\ q.result \in {"", "success", "fail"}

VARIABLES
  txs,             \* EVM transactions, oldest first
  records,         \* HAPI records, oldest first
  messages,        \* of the one topic
  last_consensus,
  reader,          \* [query, cursor, first: the time of its first page, seen]
  reply            \* the page on its way to the reader, or NoReply

chain == <<txs, records, messages, last_consensus>>
vars == <<chain, reader, reply>>

NoReply == [status |-> None, page |-> << >>]

-----------------------------------------------------------------------------
(* What the mirror renders.                                                *)

Leg(account, amount) == [account |-> account, amount |-> amount]

\* A signed transaction is kept as its envelope, in weibar.
decode(tx) ==
  [to |-> tx.to,
   value |-> IF tx.signed THEN tx.value \div WEIBAR_PER_TINYBAR ELSE tx.value]

\* The fee to 0.0.98 and the value of the top-level call, sorted by account; a
\* contract's endowment has no leg of its own.
transfers(tx) ==
  LET value == IF tx.ok THEN decode(tx).value ELSE 0
      to    == decode(tx).to
      legs  == << Leg(tx.from, -(FEE + value)), Leg(FEE_COLLECTOR, FEE) >>
               \o IF value > 0 /\ to # Creates THEN << Leg(to, value) >> ELSE << >>
  IN  SortSeq(legs, LAMBDA a, b : a.account < b.account)

record(tx) ==
  [at |-> tx.at, name |-> NAME, ok |-> tx.ok, payer |-> tx.from, start |-> tx.at,
   transfers |-> transfers(tx)]

hapi_record(r) ==
  [at |-> r.at, name |-> r.kind, ok |-> r.ok, payer |-> r.payer, start |-> r.start,
   transfers |-> SortSeq(<< Leg(r.payer, -FEE), Leg(FEE_COLLECTOR, FEE) >>,
                         LAMBDA a, b : a.account < b.account)]

involves(entry, account) == \E k \in DOMAIN entry.transfers : entry.transfers[k].account = account

wrapped == {records[k].ethereum : k \in DOMAIN records} \ {None}

Map(s, Op(_)) == [k \in DOMAIN s |-> Op(s[k])]

(* Mutant: a wrapped transaction is shown as well as its record. *)
all_recordsTwice ==
  SortSeq(Map(txs, record) \o Map(records, hapi_record), LAMBDA a, b : a.at < b.at)

\* The transactions no HAPI record stands for, and the records, by timestamp.
all_records ==
  LET own == SelectSeq([k \in DOMAIN txs |-> [hash |-> k, tx |-> txs[k]]],
                       LAMBDA e : e.hash \notin wrapped)
  IN  SortSeq(Map(own, LAMBDA e : record(e.tx)) \o Map(records, hapi_record),
              LAMBDA a, b : a.at < b.at)

(* Mutant: the limit is taken before the order. *)
pageCut(items, order, limit) ==
  LET cut == SubSeq(items, 1, IF Len(items) < limit THEN Len(items) ELSE limit)
  IN  IF order = "desc" THEN Reverse(cut) ELSE cut

\* Of a list held oldest first.
page(items, order, limit) ==
  LET ordered == IF order = "desc" THEN Reverse(items) ELSE items
  IN  SubSeq(ordered, 1, IF Len(ordered) < limit THEN Len(ordered) ELSE limit)

\* One `timestamp' clause.
matches(clause, at) ==
  CASE clause.operator = "eq"  -> at = clause.at
    [] clause.operator = "ne"  -> at # clause.at
    [] clause.operator = "gt"  -> at > clause.at
    [] clause.operator = "gte" -> at >= clause.at
    [] clause.operator = "lt"  -> at < clause.at
    [] clause.operator = "lte" -> at <= clause.at

Wanted(q, e) ==
  /\ q.kind # "" => q.kind = e.name
  /\ q.result # "" => e.ok = (q.result = "success")
  /\ q.account # None => involves(e, q.account)

KnownType(kind) == kind \in TRANSACTION_TYPES \cup {""}

(* Mutant: limit=0 is let through, and so is an empty page. *)
ParamsOKZero(q) == q.limit <= MAX_LIMIT

ParamsOK(q) == q.limit \in 1 .. MAX_LIMIT

\* A refusal: 400 for what "will never come right however long the caller waits".
Error(status) == [status |-> status, page |-> << >>]

list(q, clauses) ==
  IF ~(ParamsOK(q) /\ KnownType(q.kind)) THEN Error(400)
  ELSE [status |-> 200,
        page |-> page(SelectSeq(all_records,
                                LAMBDA e : Wanted(q, e) /\ \A c \in clauses : matches(c, e.at)),
                      q.order, q.limit)]

\* An EVM transaction goes by its payer and its consensus timestamp.
by_id(payer, start) ==
  SelectSeq(Map(records, hapi_record), LAMBDA e : e.payer = payer /\ e.start = start)
  \o SelectSeq(Map(txs, record), LAMBDA e : e.payer = payer /\ e.start = start)

\* /accounts/{id} attaches the EVM transactions that involve the account, in
\* the default order, as /transactions renders them.
account_transactions(account, limit) ==
  page(SelectSeq(Map(txs, record), LAMBDA e : involves(e, account)), "desc", limit)

\* /contracts/results/{transactionId}: the timestamp of an EVM transaction is
\* its valid start.
contract_result(payer, start) ==
  SelectSeq(txs, LAMBDA t : t.at = start /\ t.from = payer)

\* /topics/{id}/messages, all of them or the one of a sequence number.
messages_page(wanted, order, limit) ==
  page(SelectSeq([k \in DOMAIN messages |-> [number |-> k, at |-> messages[k]]],
                 LAMBDA m : wanted \in {None, m.number}), order, limit)

\* /topics/{id}/messages/{sequence_number}.
message(number) ==
  IF number \in DOMAIN messages THEN [status |-> 200, page |-> << messages[number] >>]
  ELSE Error(404)

-----------------------------------------------------------------------------
(* The node.                                                               *)

next_consensus(at) == IF at > last_consensus THEN at ELSE last_consensus + 1

Room == Len(txs) + Len(records) < MAX_TXS

Transaction(send, at) ==
  [at |-> at, from |-> send.from, to |-> send.to, value |-> send.value, signed |-> send.signed,
   ok |-> send.ok]

Record(body, start, at, ethereum) ==
  [at |-> at, payer |-> body.payer, start |-> start, kind |-> body.kind, ok |-> body.ok,
   ethereum |-> ethereum]

New(payer, start) == \A k \in DOMAIN records : records[k].payer # payer \/ records[k].start # start

execute_and_mine(send, now) ==
  /\ Room
  /\ last_consensus' = next_consensus(now) /\ last_consensus' <= MAX_STAMP
  /\ txs' = Append(txs, Transaction(send, last_consensus'))
  /\ UNCHANGED <<records, messages, reader, reply>>

mine_empty(now) ==
  /\ last_consensus' = next_consensus(now) /\ last_consensus' <= MAX_STAMP
  /\ UNCHANGED <<txs, records, messages, reader, reply>>

\* Also an ethereumTransaction that the EVM refused: its record has no hash.
apply_hapi(body, start, now) ==
  /\ Room /\ New(body.payer, start)
  /\ last_consensus' = next_consensus(now) /\ last_consensus' <= MAX_STAMP
  /\ records' = Append(records, Record(body, start, last_consensus', None))
  /\ messages' = IF body.ok /\ body.kind = "CONSENSUSSUBMITMESSAGE"
                 THEN Append(messages, last_consensus') ELSE messages
  /\ UNCHANGED <<txs, reader, reply>>

(* Mutant: the record takes a timestamp of its own. *)
apply_ethereumTwoStamps(send, payer, start, now) ==
  LET body == [payer |-> payer, kind |-> NAME, ok |-> send.ok]
  IN  /\ Room /\ New(payer, start)
      /\ last_consensus' = next_consensus(now) + 1 /\ last_consensus' <= MAX_STAMP
      /\ txs' = Append(txs, Transaction(send, next_consensus(now)))
      /\ records' = Append(records, Record(body, start, last_consensus', Len(txs) + 1))
      /\ UNCHANGED <<messages, reader, reply>>

\* An ethereumTransaction: the record takes the timestamp of what was mined.
apply_ethereum(send, payer, start, now) ==
  LET body == [payer |-> payer, kind |-> NAME, ok |-> send.ok]
  IN  /\ Room /\ New(payer, start)
      /\ last_consensus' = next_consensus(now) /\ last_consensus' <= MAX_STAMP
      /\ txs' = Append(txs, Transaction(send, last_consensus'))
      /\ records' = Append(records, Record(body, start, last_consensus', Len(txs) + 1))
      /\ UNCHANGED <<messages, reader, reply>>

Stamps == {txs[k].at : k \in DOMAIN txs} \cup {records[k].at : k \in DOMAIN records}

Reader(q) == [query |-> q, cursor |-> None, first |-> None, seen |-> << >>]

\* evm_revert to a snapshot taken at that time: the chain is what it was, its
\* clock too.  What a client read before means nothing now: it starts over.
revert(at) ==
  /\ at < last_consensus /\ at \in Stamps \cup {1}
  /\ last_consensus' = at
  /\ txs' = SelectSeq(txs, LAMBDA t : t.at <= at)
  /\ records' = SelectSeq(records, LAMBDA r : r.at <= at)
  /\ messages' = SelectSeq(messages, LAMBDA m : m <= at)
  /\ reader' = Reader(reader.query) /\ reply' = NoReply

-----------------------------------------------------------------------------
(* A client of the mirror.                                                 *)

Clauses ==
  IF reader.cursor = None THEN {}
  ELSE {[operator |-> IF reader.query.order = "asc" THEN "gt" ELSE "lt", at |-> reader.cursor]}

\* The request is answered; the answer is on its way.
Ask ==
  /\ reply = NoReply
  /\ reply' = IF reader.query.topic THEN message(reader.cursor + 1) ELSE list(reader.query, Clauses)
  /\ reader' = IF reader.cursor = None THEN [reader EXCEPT !.first = last_consensus] ELSE reader
  /\ UNCHANGED chain

Take ==
  /\ reply # NoReply
  /\ reply' = NoReply
  /\ reader' = IF reply.page = << >> THEN reader
               ELSE [reader EXCEPT !.seen = @ \o reply.page,
                                   !.cursor = IF reader.query.topic THEN @ + 1
                                              ELSE reply.page[Len(reply.page)].at]
  /\ UNCHANGED chain

Init ==
  /\ txs = << >> /\ records = << >> /\ messages = << >> /\ last_consensus = 1
  /\ reader \in {Reader(q) : q \in Queries}
  /\ reply = NoReply

Node ==
  \E now \in 1 .. MAX_STAMP :
    \/ \E send \in Sends :
         \/ execute_and_mine(send, now)
         \/ \E payer \in {b.payer : b \in Bodies}, start \in Starts : apply_ethereum(send, payer, start, now)
    \/ \E body \in Bodies, start \in Starts : apply_hapi(body, start, now)
    \/ mine_empty(now)
    \/ revert(now)

Next == Node \/ Ask \/ Take

Spec == Init /\ [][Next]_vars

-----------------------------------------------------------------------------
(* Properties.                                                             *)

\* Types; a page is never longer than its limit, a query is refused for good, and
\* a 200 answers only a query with a limit and a type that exist.
TypeOK ==
  /\ last_consensus \in 1 .. MAX_STAMP
  /\ reply.status \in {None, 200, 400, 404}
  /\ ~reader.query.topic => Len(reply.page) <= reader.query.limit
  /\ reply.status = 400 => reader.seen = << >>
  /\ reply.status = 200 /\ ~reader.query.topic =>
       reader.query.limit \in 1 .. 100 /\ reader.query.kind \in TRANSACTION_TYPES \cup {""}

SelectedIn(from, to) ==
  SelectSeq(all_records, LAMBDA e : Wanted(reader.query, e) /\ e.at >= from /\ e.at <= to)

\* "Consensus timestamps identify a transaction on Hedera, so they are unique and
\* increasing" (state, next_consensus), and the pages have no link of their own:
\* a client that asks on from the last timestamp it saw, forwards or backwards,
\* has every matching transaction between the two ends once and in order, however
\* the chain grew between request, answer and arrival; a client of a topic has
\* its messages without a gap.  After a revert it starts over.
PagesMissNothing ==
  IF reader.query.topic THEN reader.seen = SubSeq(messages, 1, reader.cursor)
  ELSE IF reader.cursor = None THEN reader.seen = << >>
  ELSE reader.seen = IF reader.query.order = "asc" THEN SelectedIn(1, reader.cursor)
                     ELSE Reverse(SelectedIn(reader.cursor, reader.first))

\* "the HAPI record wins, because it carries the transaction id the client will
\* ask for" (transactions.rs, all_records): a transaction is listed once whichever
\* way it came, in consensus order, and is found under the id it is listed with;
\* the tinybar of its transfers cancel out, but for the endowment of a contract.
\* What other paths say of it agrees: an EVM transaction that is listed is the
\* one contract result of its id and the newest such is first under its payer; a
\* topic's newest message is the one its sequence number finds.
ListedOnce ==
  /\ \A i, j \in DOMAIN all_records : i < j => all_records[i].at < all_records[j].at
  /\ \A k \in DOMAIN txs :
       Cardinality({i \in DOMAIN all_records : all_records[i].at = txs[k].at}) = 1
  /\ \A k \in DOMAIN records : \E i \in DOMAIN all_records : all_records[i] = hapi_record(records[k])
  /\ \A i \in DOMAIN all_records :
       LET e == all_records[i] IN \E k \in DOMAIN by_id(e.payer, e.start) : by_id(e.payer, e.start)[k] = e
  /\ \A k \in DOMAIN txs :
       LET legs == transfers(txs[k])
           sum  == FoldFunction(+, 0, [i \in DOMAIN legs |-> legs[i].amount])
       IN  sum = IF txs[k].to = Creates /\ txs[k].ok THEN -decode(txs[k]).value ELSE 0
  /\ \A k \in DOMAIN txs \ wrapped :
       LET e     == record(txs[k])
           later == \E j \in DOMAIN txs : j > k /\ involves(record(txs[j]), e.payer)
       IN  /\ contract_result(e.payer, e.start) = << txs[k] >>
           /\ later \/ account_transactions(e.payer, 1) = << e >>
  /\ \A k \in DOMAIN messages :
       /\ Map(messages_page(k, "asc", MAX_LIMIT), LAMBDA m : m.at) = message(k).page
       /\ k = Len(messages) => messages_page(None, "desc", 1) = messages_page(k, "desc", 1)
=============================================================================
