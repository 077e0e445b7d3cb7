----------------------------- MODULE HapiLedger -----------------------------
(***************************************************************************)
(* The HAPI side of the chain (src/src/state/mod.rs, src/src/hapi/wire.rs): *)
(* accounts, the address index, topics, records and the index of records   *)
(* by transaction id, under the five bodies that do not enter the EVM.     *)
(*                                                                         *)
(* wire::submit runs its prechecks and Chain::apply_hapi under one write   *)
(* lock, so a submission is one action.  A submission that fails precheck  *)
(* leaves this state alone (AttemptLedger models what it leaves); one that  *)
(* passes always leaves a record and always pays the fee, even when its    *)
(* body fails.  The codes a failing body can end with have the same effect *)
(* and are one outcome here.  A record's consensus timestamp is its place  *)
(* in the list of records: ChainTime shows that the two agree in order.    *)
(***************************************************************************)
EXTENDS Integers, Sequences, FiniteSets, FiniteSetsExt

CONSTANTS
    TREASURY, FEE_COLLECTOR,  \* the system accounts that move tinybar
    FIRST_USER_ID,            \* first id handed out
    Users,                    \* ids of the predefined accounts
    UserBalance,              \* tinybar each of them starts with
    TOTAL_SUPPLY,             \* tinybar minted to the treasury
    HAPI_FEE,                 \* the flat fee
    Keys, NoKey,              \* signing keys; NoKey for an account without one
    GenesisKey,               \* id -> key of a genesis account
    GenesisAlias,             \* id -> alias of a genesis account
    VerifySignatures,         \* FALSE under --no-sig-verify
    Aliases, NoAlias,         \* 20-byte addresses clients write; NoAlias for none
    Starts,                   \* valid-start instants of transaction ids
    InitialBalances,          \* initial balances of cryptoCreateAccount
    TransferLists,            \* transfer lists of cryptoTransfer
    Messages, EmptyMessage,   \* topic messages
    MaxId,                    \* bound: no id above it is handed out
    MaxRecords                \* bound: records

VARIABLES
    accounts,     \* id -> account
    by_evm,       \* address -> id: the alias and the long-zero address of an account
    next_id,      \* next entity id
    topics,       \* id -> topic
    records,      \* HAPI records, oldest first
    hapi_by_id,   \* transaction id -> index in records
    signers       \* auxiliary: the keys that signed the last submission accepted

vars == <<accounts, by_evm, next_id, topics, records, hapi_by_id, signers>>

(* Shard, realm and number of an id written as an address. *)
LongZero(id) == <<"long-zero", id>>

evm_address(id, account) ==
    IF account.alias = NoAlias THEN LongZero(id) ELSE account.alias

GenesisIds == {TREASURY, FEE_COLLECTOR} \cup Users

(* The entity ids that can be named: handed out or still free. *)
Ids == GenesisIds \cup (FIRST_USER_ID .. MaxId)

LongZeros == {LongZero(id) : id \in Ids}

(* The entries of a transfer list: an account by id or by an address. *)
TransferEntry ==
    [ref : ({"id"} \X Ids) \cup ({"alias"} \X (Aliases \cup LongZeros)), amount : Int]

ASSUME LedgerAssumption ==
    /\ TREASURY \in Nat /\ FEE_COLLECTOR \in Nat /\ TREASURY # FEE_COLLECTOR
    /\ FIRST_USER_ID \in Nat
    /\ TREASURY < FIRST_USER_ID /\ FEE_COLLECTOR < FIRST_USER_ID
    /\ Users \subseteq Nat
    /\ \A u \in Users : u >= FIRST_USER_ID /\ u <= MaxId
    /\ MaxId \in Nat /\ FIRST_USER_ID <= MaxId
    /\ UserBalance \in Nat /\ TOTAL_SUPPLY \in Nat /\ HAPI_FEE \in Nat
    /\ NoKey \notin Keys
    /\ GenesisKey \in [GenesisIds -> Keys \cup {NoKey}]
    /\ NoAlias \notin Aliases \cup LongZeros
    /\ GenesisAlias \in [GenesisIds -> Aliases \cup {NoAlias}]
    /\ \A i, j \in GenesisIds : GenesisAlias[i] = GenesisAlias[j] => i = j \/ GenesisAlias[i] = NoAlias
    /\ Cardinality(Users) * UserBalance <= TOTAL_SUPPLY
    /\ TransferLists \subseteq Seq(TransferEntry)
    /\ InitialBalances \subseteq Nat

-----------------------------------------------------------------------------
(* Balances.  adjust stops at zero as saturating_sub does. *)
adjust(accts, id, amount) ==
    [accts EXCEPT ![id].balance = IF @ + amount < 0 THEN 0 ELSE @ + amount]

(* work is what apply_hapi threads through a body: the accounts so far and *)
(* the transfer legs so far.  A move of nothing leaves no leg.             *)
move_tinybar(work, from, to, amount) ==
    IF amount = 0
    THEN work
    ELSE [accounts  |-> adjust(adjust(work.accounts, from, -amount), to, amount),
          transfers |-> work.transfers \o << [account |-> from, amount |-> -amount],
                                             [account |-> to, amount |-> amount] >>]

(* Mutant: a later leg of an account replaces an earlier one. *)
aggregateOverwriting(transfers) ==
    [a \in {transfers[k].account : k \in DOMAIN transfers} |->
        transfers[Max({k \in DOMAIN transfers : transfers[k].account = a})].amount]

(* One entry per account: the fee leg and a body leg may name the same one. *)
aggregate(transfers) ==
    [a \in {transfers[k].account : k \in DOMAIN transfers} |->
        SumFunctionOnSet([k \in DOMAIN transfers |-> transfers[k].amount],
                         {k \in DOMAIN transfers : transfers[k].account = a})]

is_live(id) == id \in DOMAIN accounts /\ ~accounts[id].deleted

(* The fee is charged before the body is looked at and stays charged. *)
Charged(payer) ==
    move_tinybar([accounts |-> accounts, transfers |-> << >>], payer, FEE_COLLECTOR, HAPI_FEE)

(***************************************************************************)
(* allocate_id and insert_account for a sequence of new accounts: each     *)
(* takes the next id and puts its alias and its long-zero address into     *)
(* by_evm, a later insertion over an earlier one.                          *)
(***************************************************************************)
NewId(k) == next_id + k - 1

WithAccounts(accts, news) ==
    [id \in DOMAIN accts \cup {NewId(k) : k \in DOMAIN news} |->
        IF id \in DOMAIN accts THEN accts[id] ELSE news[id - next_id + 1]]

Naming(news, address) ==
    {k \in DOMAIN news : address \in {evm_address(NewId(k), news[k]), LongZero(NewId(k))}}

WithAddresses(news) ==
    [address \in DOMAIN by_evm
                 \cup {LongZero(NewId(k)) : k \in DOMAIN news}
                 \cup {evm_address(NewId(k), news[k]) : k \in DOMAIN news} |->
        IF Naming(news, address) = {}
        THEN by_evm[address]
        ELSE NewId(Max(Naming(news, address)))]

NewAccount(key, alias, balance) ==
    [key |-> key, alias |-> alias, balance |-> balance, deleted |-> FALSE]

-----------------------------------------------------------------------------
(* Genesis: system accounts, the predefined users, every address indexed.  *)
GenesisBalance(id) ==
    CASE id \in Users         -> UserBalance
      [] id = TREASURY        -> TOTAL_SUPPLY - Cardinality(Users) * UserBalance
      [] id = FEE_COLLECTOR   -> 0

Init ==
    /\ accounts = [id \in GenesisIds |-> NewAccount(GenesisKey[id], GenesisAlias[id],
                                                 GenesisBalance(id))]
    /\ by_evm = [address \in {LongZero(id) : id \in GenesisIds}
                             \cup {evm_address(id, accounts[id]) : id \in GenesisIds} |->
                    CHOOSE id \in GenesisIds :
                        address \in {evm_address(id, accounts[id]), LongZero(id)}]
    /\ next_id = Max(Users \cup {FIRST_USER_ID - 1}) + 1
    /\ topics = << >>
    /\ records = << >>
    /\ hapi_by_id = << >>
    /\ signers = {}

(***************************************************************************)
(* The prechecks of precheck_and_apply that depend on the state: the id is *)
(* new, the payer exists and lives, everybody who must sign has signed, and *)
(* the payer can pay the fee.  mustSign is the set of keys required_keys   *)
(* asks for besides the payer's; an account without a key asks for none.   *)
(***************************************************************************)
Signed(mustSign, signed) == VerifySignatures => mustSign \ {NoKey} \subseteq signed

Precheck(txid, mustSign, signed) ==
    /\ Len(records) < MaxRecords
    /\ txid \notin DOMAIN hapi_by_id
    /\ is_live(txid.payer)
    /\ Signed(mustSign \cup {accounts[txid.payer].key}, signed)
    /\ accounts[txid.payer].balance >= HAPI_FEE

(* Mutant: the record is indexed one place too early. *)
ConsensusEarly(txid, ok, transfers, sequence, signed) ==
    /\ records' = Append(records, [id |-> txid, ok |-> ok,
                                   transfers |-> aggregate(transfers),
                                   sequence |-> sequence])
    /\ hapi_by_id' = [t \in DOMAIN hapi_by_id \cup {txid} |->
                        IF t = txid THEN Len(records) ELSE hapi_by_id[t]]
    /\ signers' = signed

(* The tail of apply_hapi: the record is stored and indexed. *)
Consensus(txid, ok, transfers, sequence, signed) ==
    /\ records' = Append(records, [id |-> txid, ok |-> ok,
                                   transfers |-> aggregate(transfers),
                                   sequence |-> sequence])
    /\ hapi_by_id' = [t \in DOMAIN hapi_by_id \cup {txid} |->
                        IF t = txid THEN Len(records) + 1 ELSE hapi_by_id[t]]
    /\ signers' = signed

(* A body that fails: the fee and the record are all that is left of it. *)
BodyFails(txid, signed) ==
    /\ accounts' = Charged(txid.payer).accounts
    /\ Consensus(txid, FALSE, Charged(txid.payer).transfers, 0, signed)
    /\ UNCHANGED <<by_evm, next_id, topics>>

(* cryptoCreateAccount. *)
CreateAccount(txid, signed, key, alias, initial_balance) ==
    LET paid == Charged(txid.payer)
        free == alias = NoAlias \/ alias \notin DOMAIN by_evm
        news == << NewAccount(key, alias, 0) >>
        work == move_tinybar([paid EXCEPT !.accounts = WithAccounts(@, news)],
                             txid.payer, next_id, initial_balance)
    IN  /\ Precheck(txid, {}, signed)
        /\ next_id <= MaxId
        /\ \/ /\ ~(free /\ paid.accounts[txid.payer].balance >= initial_balance)
              /\ BodyFails(txid, signed)
           \/ /\ free
              /\ paid.accounts[txid.payer].balance >= initial_balance
              /\ accounts' = work.accounts
              /\ by_evm' = WithAddresses(news)
              /\ next_id' = next_id + 1
              /\ Consensus(txid, TRUE, work.transfers, 0, signed)
              /\ UNCHANGED topics

(***************************************************************************)
(* cryptoTransfer.  An entry names an account by id or by an address; a    *)
(* credit to an address nobody holds creates a hollow account.             *)
(***************************************************************************)
Known(ref) == ref[1] = "id" \/ ref[2] \in DOMAIN by_evm
Resolve(ref) == IF ref[1] = "id" THEN ref[2] ELSE by_evm[ref[2]]

(* Mutant: a debit by alias asks for no signature. *)
DebitKeysById(list) ==
    {accounts[list[k].ref[2]].key :
        k \in {j \in DOMAIN list : /\ list[j].amount < 0
                                   /\ list[j].ref[1] = "id"
                                   /\ list[j].ref[2] \in DOMAIN accounts}}

(* The keys required_keys asks for: those of the accounts debited. *)
DebitKeys(list) ==
    {accounts[Resolve(list[k].ref)].key :
        k \in {j \in DOMAIN list : /\ list[j].amount < 0
                                   /\ Known(list[j].ref)
                                   /\ Resolve(list[j].ref) \in DOMAIN accounts}}

(* Mutant: an account that exists will do, deleted or not. *)
TransferValidDeleted(list, accts) ==
    LET known   == {k \in DOMAIN list : Known(list[k].ref)}
        created == DOMAIN list \ known
    IN  /\ SumFunction([k \in DOMAIN list |-> list[k].amount]) = 0
        /\ \A k \in known : Resolve(list[k].ref) \in DOMAIN accounts
        /\ \A k \in created : list[k].amount > 0
        /\ \A j, k \in created : list[j].ref = list[k].ref => j = k
        /\ \A j, k \in known : Resolve(list[j].ref) = Resolve(list[k].ref) => j = k
        /\ \A k \in known : accts[Resolve(list[k].ref)].balance + list[k].amount >= 0

(* accts are the accounts after the fee: a debit must be covered by what   *)
(* the fee left.                                                           *)
TransferValid(list, accts) ==
    LET known   == {k \in DOMAIN list : Known(list[k].ref)}
        created == DOMAIN list \ known
    IN  /\ SumFunction([k \in DOMAIN list |-> list[k].amount]) = 0
        /\ \A k \in known : is_live(Resolve(list[k].ref))
        /\ \A k \in created : list[k].amount > 0
        /\ \A j, k \in created : list[j].ref = list[k].ref => j = k
        /\ \A j, k \in known : Resolve(list[j].ref) = Resolve(list[k].ref) => j = k
        /\ \A k \in known : accts[Resolve(list[k].ref)].balance + list[k].amount >= 0

(* The positions of a set in order. *)
InOrder(positions) ==
    CHOOSE order \in [1 .. Cardinality(positions) -> positions] :
        \A i, j \in DOMAIN order : i < j => order[i] < order[j]

(* The accounts and legs a valid list leaves: entries of accounts that are *)
(* known adjust them, each of the others creates one, in the list's order. *)
AfterTransfer(paid, list) ==
    LET known   == {k \in DOMAIN list : Known(list[k].ref)}
        unknown == InOrder(DOMAIN list \ known)
        hollow  == [n \in DOMAIN unknown |->
                       NewAccount(NoKey, list[unknown[n]].ref[2], list[unknown[n]].amount)]
        holder  == [k \in DOMAIN list |->
                       IF k \in known THEN Resolve(list[k].ref)
                       ELSE NewId(CHOOSE n \in DOMAIN unknown : unknown[n] = k)]
        adjusted == [a \in DOMAIN accounts |->
                        IF \E k \in known : holder[k] = a
                        THEN adjust(paid.accounts, a,
                                    list[CHOOSE k \in known : holder[k] = a].amount)[a]
                        ELSE paid.accounts[a]]
    IN  [accounts  |-> WithAccounts(adjusted, hollow),
         hollow    |-> hollow,
         transfers |-> paid.transfers
                       \o [k \in DOMAIN list |->
                            [account |-> holder[k], amount |-> list[k].amount]]]

Transfer(txid, signed, list) ==
    LET paid == Charged(txid.payer)
        done == AfterTransfer(paid, list)
    IN  /\ Precheck(txid, DebitKeys(list), signed)
        /\ \/ /\ ~TransferValid(list, paid.accounts)
              /\ BodyFails(txid, signed)
           \/ /\ TransferValid(list, paid.accounts)
              /\ next_id + Len(done.hollow) <= MaxId + 1
              /\ accounts' = done.accounts
              /\ by_evm' = WithAddresses(done.hollow)
              /\ next_id' = next_id + Len(done.hollow)
              /\ Consensus(txid, TRUE, done.transfers, 0, signed)
              /\ UNCHANGED topics

(* A delete is signed by the account that goes. *)
DeleteKeys(account) == IF account \in DOMAIN accounts THEN {accounts[account].key} ELSE {}

(* cryptoDelete: the balance left after the fee is swept. *)
Delete(txid, signed, account, transfer_to) ==
    LET paid  == Charged(txid.payer)
        valid == account # transfer_to /\ is_live(account) /\ is_live(transfer_to)
        work  == move_tinybar(paid, account, transfer_to, paid.accounts[account].balance)
    IN  /\ Precheck(txid, DeleteKeys(account), signed)
        /\ \/ /\ ~valid
              /\ BodyFails(txid, signed)
           \/ /\ valid
              /\ accounts' = [work.accounts EXCEPT ![account].deleted = TRUE]
              /\ Consensus(txid, TRUE, work.transfers, 0, signed)
              /\ UNCHANGED <<by_evm, next_id, topics>>

(* consensusCreateTopic. *)
CreateTopic(txid, signed, submit_key) ==
    /\ Precheck(txid, {}, signed)
    /\ next_id <= MaxId
    /\ accounts' = Charged(txid.payer).accounts
    /\ topics' = [id \in DOMAIN topics \cup {next_id} |->
                    IF id = next_id
                    THEN [submit_key |-> submit_key, sequence_number |-> 0,
                          running_hash |-> << >>, messages |-> << >>]
                    ELSE topics[id]]
    /\ next_id' = next_id + 1
    /\ Consensus(txid, TRUE, Charged(txid.payer).transfers, 0, signed)
    /\ UNCHANGED by_evm

(* SHA-384 over the previous hash and the message's own fields; distinct   *)
(* inputs have distinct hashes.                                            *)
running_hash_v3(previous, payer, topic, consensus, sequence_number, message) ==
    << previous, payer, topic, consensus, sequence_number, message >>

(* The topic after one more message. *)
WithMessage(target, number, hash, message, payer) ==
    [target EXCEPT !.sequence_number = number,
                   !.running_hash = hash,
                   !.messages = Append(@, [sequence_number |-> number,
                                           message |-> message,
                                           running_hash |-> hash,
                                           consensus |-> Len(records) + 1,
                                           payer |-> payer])]

(* A message to a topic with a submit key is signed by it. *)
SubmitKeys(topic) == IF topic \in DOMAIN topics THEN {topics[topic].submit_key} ELSE {}

(* consensusSubmitMessage.  With signatures verified a topic that does not *)
(* exist is a precheck failure, without it the body fails at consensus.    *)
SubmitMessage(txid, signed, topic, message) ==
    LET target == topics[topic]
        number == target.sequence_number + 1
        hash   == running_hash_v3(target.running_hash, txid.payer, topic,
                                  Len(records) + 1, number, message)
    IN  /\ Precheck(txid, SubmitKeys(topic), signed)
        /\ VerifySignatures => topic \in DOMAIN topics
        /\ \/ /\ message = EmptyMessage \/ topic \notin DOMAIN topics
              /\ BodyFails(txid, signed)
           \/ /\ message # EmptyMessage
              /\ topic \in DOMAIN topics
              /\ accounts' = Charged(txid.payer).accounts
              /\ topics' = [topics EXCEPT ![topic] =
                                WithMessage(@, number, hash, message, txid.payer)]
              /\ Consensus(txid, TRUE, Charged(txid.payer).transfers, number, signed)
              /\ UNCHANGED <<by_evm, next_id>>

(* The bodies that decode; any other is refused and leaves no trace here.   *)
Submit(txid, signed) ==
    \/ \E key \in Keys, alias \in Aliases \cup {NoAlias}, balance \in InitialBalances :
        CreateAccount(txid, signed, key, alias, balance)
    \/ \E list \in TransferLists : Transfer(txid, signed, list)
    \/ \E account, transfer_to \in Ids : Delete(txid, signed, account, transfer_to)
    \/ \E submit_key \in Keys \cup {NoKey} : CreateTopic(txid, signed, submit_key)
    \/ \E topic \in Ids, message \in Messages : SubmitMessage(txid, signed, topic, message)

TxIds == [payer : Ids, start : Starts]

Next == \E txid \in TxIds, signed \in SUBSET Keys : Submit(txid, signed)

Spec == Init /\ [][Next]_vars

-----------------------------------------------------------------------------
(* Types of the state. *)
TypeOK ==
    /\ DOMAIN accounts \subseteq Ids
    /\ \A id \in DOMAIN accounts :
        accounts[id] \in [key : Keys \cup {NoKey},
                          alias : Aliases \cup {NoAlias} \cup LongZeros,
                          balance : Nat, deleted : BOOLEAN]
    /\ \A address \in DOMAIN by_evm : by_evm[address] \in Ids
    /\ next_id \in FIRST_USER_ID .. MaxId + 1
    /\ DOMAIN topics \subseteq Ids
    /\ hapi_by_id \in [DOMAIN hapi_by_id -> 1 .. Len(records)]
    /\ signers \subseteq Keys

(* No submission creates or destroys tinybar, whether its body succeeds or *)
(* fails and whoever is payer, collector, debtor and creditor at once.     *)
SupplyConserved ==
    SumFunction([id \in DOMAIN accounts |-> accounts[id].balance]) = TOTAL_SUPPLY

(* Record.transfers holds every HBAR movement: replaying the records on    *)
(* the genesis balances gives the balances the chain answers with.         *)
Replayed(id) ==
    (IF id \in GenesisIds THEN GenesisBalance(id) ELSE 0)
    + SumFunction([i \in DOMAIN records |-> IF id \in DOMAIN records[i].transfers
                                            THEN records[i].transfers[id] ELSE 0])

RecordsExplainBalances ==
    \A id \in DOMAIN accounts : accounts[id].balance = Replayed(id)

(* An entity id names one entity: accounts and topics share the counter,   *)
(* and everything below it is taken, nothing above it is.                  *)
IdsFresh ==
    /\ \A id \in DOMAIN accounts \cup DOMAIN topics : id < next_id
    /\ DOMAIN accounts \cap DOMAIN topics = {}

(* The address index answers for every account under its EVM address and   *)
(* its long-zero address, and for nothing else (Chain::account_by_evm).    *)
AddressesResolve ==
    /\ \A id \in DOMAIN accounts :
        \A address \in {evm_address(id, accounts[id]), LongZero(id)} :
            address \in DOMAIN by_evm /\ by_evm[address] = id
    /\ \A address \in DOMAIN by_evm :
        /\ by_evm[address] \in DOMAIN accounts
        /\ address \in {evm_address(by_evm[address], accounts[by_evm[address]]),
                        LongZero(by_evm[address])}

(* No account has as its alias the long-zero address of an id.             *)
PlainAliases == \A id \in DOMAIN accounts : accounts[id].alias \notin LongZeros

(* A deleted account stays empty: apply_transfer and cryptoDelete refuse   *)
(* it, and it cannot pay.  Only the fee collector can be deleted and still *)
(* be paid, because every fee is credited to it unconditionally.           *)
DeletedAreEmpty ==
    \A id \in DOMAIN accounts \ {FEE_COLLECTOR} :
        accounts[id].deleted => accounts[id].balance = 0

(* Each topic is a gapless hash chain: messages are numbered from 1, each  *)
(* hash covers the one before, and the topic carries the last of them.     *)
TopicsAreChains ==
    \A t \in DOMAIN topics :
        LET msgs == topics[t].messages
            hash(n) == IF n = 0 THEN << >> ELSE msgs[n].running_hash
        IN  /\ topics[t].sequence_number = Len(msgs)
            /\ topics[t].running_hash = hash(Len(msgs))
            /\ \A n \in DOMAIN msgs :
                msgs[n].running_hash = running_hash_v3(hash(n - 1), msgs[n].payer, t,
                                                       msgs[n].consensus, n, msgs[n].message)

(* Every message is backed by the successful record of its instant, paid   *)
(* by its payer and carrying its number, and by no other message.          *)
MessagesHaveRecords ==
    /\ \A t \in DOMAIN topics : \A n \in DOMAIN topics[t].messages :
        LET m == topics[t].messages[n]
        IN  /\ m.consensus \in DOMAIN records
            /\ records[m.consensus].ok
            /\ records[m.consensus].id.payer = m.payer
            /\ records[m.consensus].sequence = n
    /\ \A i \in DOMAIN records : records[i].sequence > 0 =>
        \E t \in DOMAIN topics : \E n \in DOMAIN topics[t].messages :
            /\ topics[t].messages[n].consensus = i
            /\ \A u \in DOMAIN topics : \A k \in DOMAIN topics[u].messages :
                topics[u].messages[k].consensus = i => u = t /\ k = n

(* With signatures verified, an account that has a key loses tinybar only  *)
(* to a submission its key signed, by id or by alias, as payer, debtor or  *)
(* deleted account (required_keys runs before apply_hapi resolves again).  *)
DebitsAreSigned ==
    [][ VerifySignatures =>
        \A id \in DOMAIN accounts :
            accounts'[id].balance < accounts[id].balance /\ accounts[id].key # NoKey
            => accounts[id].key \in signers' ]_vars

(* A body that fails after the fee was charged leaves nothing half-applied: *)
(* only the payer and the collector differ, by the fee.                    *)
FailureCostsTheFee ==
    [][ Len(records') > Len(records) /\ ~records'[Len(records')].ok =>
        LET payer == records'[Len(records')].id.payer
            fee   == IF payer = FEE_COLLECTOR THEN 0 ELSE HAPI_FEE
        IN  /\ UNCHANGED <<by_evm, next_id, topics>>
            /\ DOMAIN accounts' = DOMAIN accounts
            /\ accounts'[payer].balance = accounts[payer].balance - fee
            /\ accounts'[FEE_COLLECTOR].balance = accounts[FEE_COLLECTOR].balance + fee
            /\ \A id \in DOMAIN accounts \ {payer, FEE_COLLECTOR} :
                accounts'[id] = accounts[id] ]_vars

(* Every tinybar is somewhere, and the records say how it got there.       *)
TinybarAccountedFor == SupplyConserved /\ RecordsExplainBalances

(* Every name leads to what it named: an address to its account, a deleted *)
(* account to nothing it owns, a topic to its chain of messages, a message *)
(* to the record that says who submitted it.  The addresses do as long as  *)
(* nobody was opened under the long-zero address of an id, which neither   *)
(* apply_transfer nor cryptoCreateAccount refuses: the account that takes  *)
(* the id later takes the address too (HapiLedgerLongZero.cfg).            *)
EntitiesAreConsistent ==
    /\ PlainAliases => AddressesResolve
    /\ DeletedAreEmpty
    /\ TopicsAreChains /\ MessagesHaveRecords

(* Nobody pays for what they did not sign, nor more than the fee for what  *)
(* failed.                                                                 *)
PaymentsAreFair == DebitsAreSigned /\ FailureCostsTheFee
=============================================================================
