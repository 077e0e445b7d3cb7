----------------------------- MODULE EvmLedger ------------------------------
(***************************************************************************)
(* The EVM side of the ledger (src/src/state/mod.rs), composed with the    *)
(* HAPI side of HapiLedger.  A balance lives in two stores: the accounts   *)
(* are authoritative, and execute_and_mine copies them into the database   *)
(* the EVM runs on, runs the transaction, and reads what it touched back;  *)
(* a contract's balance lives in the database only.  HAPI transactions     *)
(* move tinybar behind the database's back between two executions, and     *)
(* accounts, topics and contracts share one counter of ids.                *)
(*                                                                         *)
(* revm is external: a transaction is a value transfer, a contract         *)
(* creation, or a call of a contract that pays some of its balance on, and *)
(* it succeeds or reverts.  Gas is one unit, priced GAS_PRICE and a tip.   *)
(***************************************************************************)
EXTENDS HapiLedger, SequencesExt

CONSTANTS
    GAS_PRICE,        \* tinybar for the gas of a transaction, burned by revm
    Tips,             \* what a sender offers on top
    Senders,          \* addresses with a key, held by a client or by the node,
                      \* or impersonated
    Targets,          \* addresses a transaction or a contract pays
    Values,           \* tinybar sent with a transaction or paid by a contract
    SystemContracts,  \* addresses genesis etches with code that reverts
    CheatBalances,    \* arguments of anvil_setBalance
    CheatNonces,      \* arguments of anvil_setNonce
    CheatTargets,     \* addresses the cheats are called with
    MaxNonce,         \* bound: nonces of senders
    MaxCheats         \* bound: calls of anvil_setBalance, anvil_setCode, anvil_setNonce

VARIABLES
    nonces,           \* id -> nonce of the account
    db,               \* address -> what revm's database holds for it
    contract_by_evm,  \* address -> id of the contract
    minted,           \* auxiliary: tinybar anvil_setBalance made or took away
    cheats,           \* auxiliary: how many of those calls were made
    sender,           \* auxiliary: who sent the EVM transaction of the last step
    crossed           \* auxiliary: addresses that were taken for two things

evmVars == <<nonces, db, contract_by_evm, minted, cheats, sender, crossed>>
allVars == <<vars, evmVars>>

(* The address of the contract a sender creates with a nonce. *)
Created(from, nonce) == <<"created", from, nonce>>

ASSUME EvmAssumption ==
    /\ GAS_PRICE \in Nat /\ Tips \subseteq Nat /\ Values \subseteq Nat
    /\ CheatBalances \subseteq Nat /\ CheatNonces \subseteq Nat /\ MaxNonce \in Nat /\ MaxCheats \in Nat
    /\ IsFiniteSet(SystemContracts)
    /\ GenesisAlias[FEE_COLLECTOR] = NoAlias
    /\ NoAlias \notin Senders \cup Targets \cup CheatTargets
    /\ \A from \in Senders, nonce \in 0 .. MaxNonce : Created(from, nonce) # NoAlias

Create == << "create" >>
Empty == [balance |-> 0, nonce |-> 0, code |-> FALSE]
NoSender == << >>
NoPay == [to |-> Create, amount |-> 0]

At(d, address) == IF address \in DOMAIN d THEN d[address] ELSE Empty

(* Chain::balance_by_evm and the supply both stores hold together. *)
balance_by_evm(address) ==
    IF address \in DOMAIN by_evm THEN accounts[by_evm[address]].balance
                                 ELSE At(db, address).balance

EvmInit ==
    /\ Init
    /\ nonces = [id \in GenesisIds |-> 0]
    /\ db = [address \in SystemContracts |-> [Empty EXCEPT !.code = TRUE]]
    /\ contract_by_evm = << >>
    /\ minted = 0
    /\ cheats = 0
    /\ sender = NoSender
    /\ crossed = {}

-----------------------------------------------------------------------------
(* Every account's balance and nonce written into the database, in the     *)
(* order of the ids.                                                       *)
sync_accounts_into_db(accts) ==
    LET owners(address) == {id \in DOMAIN accts : evm_address(id, accts[id]) = address}
    IN  [address \in DOMAIN db \cup {evm_address(id, accts[id]) : id \in DOMAIN accts} |->
            IF owners(address) = {}
            THEN db[address]
            ELSE [At(db, address) EXCEPT !.balance = accts[Max(owners(address))].balance,
                                         !.nonce = nonces[Max(owners(address))]]]

(* What revm does to the database d: the sender pays the gas whatever      *)
(* happens, the tip of it goes to the beneficiary, the base fee is burned. *)
Beneficiary == LongZero(FEE_COLLECTOR)

Move(d, from, to, amount) ==
    [a \in DOMAIN d \cup {from, to} |->
        [At(d, a) EXCEPT !.balance = @ - (IF a = from THEN amount ELSE 0)
                                       + (IF a = to THEN amount ELSE 0)]]

AfterGas(d, tx) ==
    LET tipped == Move(d, tx.from, Beneficiary, tx.tip)
    IN  [a \in DOMAIN tipped |->
            IF a = tx.from THEN [tipped[a] EXCEPT !.balance = @ - GAS_PRICE, !.nonce = @ + 1]
                           ELSE tipped[a]]

Callee(tx) == IF tx.to = Create THEN Created(tx.from, tx.nonce) ELSE tx.to

AfterRun(d, tx) ==
    LET called == Move(AfterGas(d, tx), tx.from, Callee(tx), tx.value)
    IN  IF tx.to = Create
        THEN [a \in DOMAIN called |->
                IF a = Callee(tx) THEN [called[a] EXCEPT !.code = TRUE, !.nonce = 1]
                                  ELSE called[a]]
        ELSE IF tx.pay = NoPay THEN called
        ELSE Move(called, tx.to, tx.pay.to, tx.pay.amount)

Touched(tx, ok) ==
    {tx.from, Beneficiary}
    \cup (IF ok THEN {Callee(tx)} ELSE {})
    \cup (IF ok /\ tx.pay # NoPay THEN {tx.pay.to} ELSE {})

(* Mutant: the value is not part of what the sender must own. *)
AcceptedUnfunded(d, tx) ==
    /\ tx.nonce = At(d, tx.from).nonce
    /\ ~At(d, tx.from).code
    /\ At(d, tx.from).balance >= GAS_PRICE + tx.tip

(* What evm::execute refuses before any code runs. *)
Accepted(d, tx) ==
    /\ tx.nonce = At(d, tx.from).nonce
    /\ ~At(d, tx.from).code
    /\ At(d, tx.from).balance >= GAS_PRICE + tx.tip + tx.value

(* A plain transfer cannot revert; code may, and pays on only what it has. *)
Outcome(d, tx, ok) ==
    /\ tx.pay # NoPay => tx.to # Create /\ At(d, tx.to).code
    /\ ok => /\ tx.to \notin SystemContracts
             /\ tx.to = Create => ~At(d, Callee(tx)).code /\ At(d, Callee(tx)).nonce = 0
             /\ AfterRun(d, tx)[Callee(tx)].balance >= 0
    /\ ~ok => tx.to = Create \/ At(d, tx.to).code

(***************************************************************************)
(* sync_db_into_accounts.  The touched addresses come in the order of a    *)
(* hash map: when two of them name one account, either may be the last, so *)
(* source gives the address an account's balance is read from.             *)
(***************************************************************************)
TouchedIds(touched) == {by_evm[a] : a \in touched \cap DOMAIN by_evm}

FromDb(accts, d, source) ==
    [id \in DOMAIN accts |->
        IF id \in DOMAIN source
        THEN [accts[id] EXCEPT !.balance = At(d, source[id]).balance]
        ELSE accts[id]]

NewContracts(d, touched) ==
    {a \in touched \ (DOMAIN by_evm \cup DOMAIN contract_by_evm) : At(d, a).code}

Hollow(d, touched) ==
    {a \in touched \ (DOMAIN by_evm \cup DOMAIN contract_by_evm) :
        ~At(d, a).code /\ At(d, a).balance > 0}

(* Addresses of a transaction that name an account which has another in    *)
(* the database: the copy before the run goes there, the copy back comes   *)
(* from here.                                                              *)
SecondNames(touched) ==
    {a \in touched \cap DOMAIN by_evm : a # evm_address(by_evm[a], accounts[by_evm[a]])}

(* Mutant: the burned base fee stays burned. *)
credit_burned_base_feeNever(accts) == accts

(* The burned base fee goes to the collector. *)
credit_burned_base_fee(accts) ==
    [accts EXCEPT ![FEE_COLLECTOR].balance = @ + GAS_PRICE]

(* Mutant: the database is not brought up to date before the execution. *)
BeforeRunStale(accts) == db

BeforeRun(accts) == sync_accounts_into_db(accts)

(***************************************************************************)
(* execute_and_mine on the accounts accts (for an ethereumTransaction the  *)
(* fee is already taken from them): sync, run, read back, commit, credit.  *)
(* Hollow accounts take their ids before new contracts here, in the code   *)
(* after; no transaction of the run opens both, and no property depends on *)
(* which of them has the lower id.                                         *)
(***************************************************************************)
ExecuteAndMine(accts, tx, ok) ==
    LET before  == BeforeRun(accts)
        after   == IF ok THEN AfterRun(before, tx) ELSE AfterGas(before, tx)
        touched == Touched(tx, ok)
        ids     == TouchedIds(touched)
    IN  /\ Accepted(before, tx)
        /\ Outcome(before, tx, ok)
        /\ \E source \in [ids -> touched \cap DOMAIN by_evm],
              hollow \in SetToSeqs(Hollow(after, touched)),
              created \in SetToSeqs(NewContracts(after, touched)) :
            LET news == [k \in DOMAIN hollow |->
                            NewAccount(NoKey, hollow[k], At(after, hollow[k]).balance)]
            IN  /\ \A id \in ids : by_evm[source[id]] = id
                /\ next_id + Len(news) + Len(created) <= MaxId + 1
                /\ accounts' = WithAccounts(credit_burned_base_fee(FromDb(accts, after, source)), news)
                /\ nonces' = [id \in DOMAIN accounts' |->
                                IF id \in ids THEN At(after, source[id]).nonce
                                ELSE IF id \in DOMAIN nonces THEN nonces[id]
                                ELSE 0]
                /\ by_evm' = WithAddresses(news)
                /\ contract_by_evm' =
                    [a \in DOMAIN contract_by_evm \cup {created[k] : k \in DOMAIN created} |->
                        IF a \in DOMAIN contract_by_evm THEN contract_by_evm[a]
                        ELSE NewId(Len(news) + CHOOSE k \in DOMAIN created : created[k] = a)]
                /\ next_id' = next_id + Len(news) + Len(created)
        /\ db' = [a \in DOMAIN before \cup touched |->
                    IF a \in touched THEN At(after, a) ELSE before[a]]

(* eth_sendRawTransaction, eth_sendTransaction. *)
Send(tx, ok) ==
    /\ ExecuteAndMine(accounts, tx, ok)
    /\ sender' = tx.from
    /\ crossed' = crossed \cup SecondNames(Touched(tx, ok))
    /\ UNCHANGED <<topics, records, hapi_by_id, signers, minted, cheats>>

(* The same refused, eth_call and eth_estimateGas: the database is synced  *)
(* and nothing is committed.                                               *)
SyncOnly ==
    /\ db' = sync_accounts_into_db(accounts)
    /\ sender' = NoSender
    /\ UNCHANGED <<vars, nonces, contract_by_evm, minted, cheats, crossed>>

(***************************************************************************)
(* ethereumTransaction over HAPI: the fee, then the transaction on what    *)
(* the fee left; a refused or reverting one still leaves its record.  Its  *)
(* transfers name the fee only, not what the EVM moved.                    *)
(***************************************************************************)
ApplyEthereum(txid, tx, ok) ==
    LET paid == Charged(txid.payer)
    IN  /\ Precheck(txid, {}, Keys)
        /\ ExecuteAndMine(paid.accounts, tx, ok)
        /\ sender' = tx.from
        /\ crossed' = crossed \cup SecondNames(Touched(tx, ok))
        /\ Consensus(txid, ok, paid.transfers, 0, Keys)
        /\ UNCHANGED <<topics, minted, cheats>>

ApplyEthereumRefused(txid, tx) ==
    LET paid == Charged(txid.payer)
    IN  /\ Precheck(txid, {}, Keys)
        /\ ~Accepted(sync_accounts_into_db(paid.accounts), tx)
        /\ db' = sync_accounts_into_db(paid.accounts)
        /\ BodyFails(txid, Keys)
        /\ sender' = NoSender
        /\ UNCHANGED <<nonces, contract_by_evm, minted, cheats, crossed>>

(* Every other HAPI transaction leaves the database alone.  It looks an    *)
(* address up among the accounts only, and may open one where a contract   *)
(* is.                                                                     *)
Hapi ==
    /\ Next
    /\ sender' = NoSender
    /\ nonces' = [id \in DOMAIN accounts' |-> IF id \in DOMAIN nonces THEN nonces[id] ELSE 0]
    /\ crossed' = crossed \cup ((DOMAIN by_evm' \ DOMAIN by_evm) \cap DOMAIN contract_by_evm)
    /\ UNCHANGED <<db, contract_by_evm, minted, cheats>>

-----------------------------------------------------------------------------
(* One more cheat call. *)
Cheat ==
    /\ cheats < MaxCheats
    /\ cheats' = cheats + 1
    /\ sender' = NoSender
    /\ crossed' = crossed

(* anvil_setBalance: the account's, the contract's, or a hollow account's. *)
set_balance(address, balance) ==
    LET news == << NewAccount(NoKey, address, balance) >>
    IN  /\ minted' = minted + balance - balance_by_evm(address)
        /\ Cheat
        /\ \/ /\ address \in DOMAIN by_evm
              /\ accounts' = [accounts EXCEPT ![by_evm[address]].balance = balance]
              /\ UNCHANGED <<by_evm, next_id, nonces, db>>
           \/ /\ address \notin DOMAIN by_evm
              /\ address \in DOMAIN contract_by_evm
              /\ db' = [a \in DOMAIN db \cup {address} |->
                          IF a = address THEN [At(db, a) EXCEPT !.balance = balance] ELSE db[a]]
              /\ UNCHANGED <<accounts, by_evm, next_id, nonces>>
           \/ /\ address \notin DOMAIN by_evm \cup DOMAIN contract_by_evm
              /\ next_id <= MaxId
              /\ accounts' = WithAccounts(accounts, news)
              /\ by_evm' = WithAddresses(news)
              /\ next_id' = next_id + 1
              /\ nonces' = [id \in DOMAIN accounts' |-> IF id = next_id THEN 0 ELSE nonces[id]]
              /\ UNCHANGED db
        /\ UNCHANGED <<topics, records, hapi_by_id, signers, contract_by_evm>>

(* Mutant: the contract is registered whatever holds the address. *)
set_codeAlways(address) ==
    /\ next_id <= MaxId
    /\ db' = [a \in DOMAIN db \cup {address} |->
                IF a = address THEN [At(db, a) EXCEPT !.code = TRUE] ELSE db[a]]
    /\ contract_by_evm' = [a \in DOMAIN contract_by_evm \cup {address} |->
                            IF a = address THEN next_id ELSE contract_by_evm[a]]
    /\ next_id' = next_id + 1
    /\ UNCHANGED <<accounts, by_evm, topics, records, hapi_by_id, signers, nonces, minted>>
    /\ Cheat

(* anvil_setCode registers a contract where neither an account nor a       *)
(* contract is.                                                            *)
set_code(address) ==
    LET new == address \notin DOMAIN by_evm \cup DOMAIN contract_by_evm
    IN  /\ next_id <= MaxId
        /\ db' = [a \in DOMAIN db \cup {address} |->
                    IF a = address THEN [At(db, a) EXCEPT !.code = TRUE] ELSE db[a]]
        /\ contract_by_evm' = IF new
                              THEN [a \in DOMAIN contract_by_evm \cup {address} |->
                                        IF a = address THEN next_id ELSE contract_by_evm[a]]
                              ELSE contract_by_evm
        /\ next_id' = IF new THEN next_id + 1 ELSE next_id
        /\ UNCHANGED <<accounts, by_evm, topics, records, hapi_by_id, signers, nonces, minted>>
        /\ Cheat

set_nonce(address, nonce) ==
    /\ nonces' = IF address \in DOMAIN by_evm
                 THEN [nonces EXCEPT ![by_evm[address]] = nonce]
                 ELSE nonces
    /\ db' = [a \in DOMAIN db \cup {address} |->
                IF a = address THEN [At(db, a) EXCEPT !.nonce = nonce] ELSE db[a]]
    /\ Cheat
    /\ UNCHANGED <<vars, contract_by_evm, minted>>

Txs ==
    [from : Senders, nonce : 0 .. MaxNonce - 1, to : Targets \cup {Create}, value : Values,
     tip : Tips, pay : {NoPay} \cup [to : Targets, amount : Values \ {0}]]

EvmNext ==
    \/ \E tx \in Txs, ok \in BOOLEAN : Send(tx, ok)
    \/ SyncOnly
    \/ \E txid \in TxIds, tx \in Txs :
        \/ \E ok \in BOOLEAN : ApplyEthereum(txid, tx, ok)
        \/ ApplyEthereumRefused(txid, tx)
    \/ Hapi
    \/ \E address \in CheatTargets :
        \/ \E balance \in CheatBalances : set_balance(address, balance)
        \/ set_code(address)
        \/ \E nonce \in CheatNonces : set_nonce(address, nonce)

EvmSpec == EvmInit /\ [][EvmNext]_allVars

-----------------------------------------------------------------------------
(* Types of the EVM side. *)
EvmTypeOK ==
    /\ nonces \in [DOMAIN accounts -> Nat]
    /\ \A a \in DOMAIN db : db[a] \in [balance : Nat, nonce : Nat, code : BOOLEAN]
    /\ \A a \in DOMAIN contract_by_evm : contract_by_evm[a] \in FIRST_USER_ID .. MaxId
    /\ minted \in Int

(* Nothing has been called by two names yet, or two things by one.         *)
Uncrossed ==
    /\ crossed = {}
    /\ PlainAliases
    /\ DOMAIN contract_by_evm \cap LongZeros = {}

(* No transaction creates or destroys tinybar: what the accounts hold and  *)
(* what the database holds for addresses that are no account add up to     *)
(* the genesis supply and what anvil_setBalance added (the comment of      *)
(* credit_burned_base_fee).  The run EvmLedgerLongZero shows that it does  *)
(* not hold of every address.                                              *)
SupplyIsConstant ==
    SumFunction([id \in DOMAIN accounts |-> accounts[id].balance])
    + SumFunction([a \in DOMAIN db \ DOMAIN by_evm |-> db[a].balance])
    = TOTAL_SUPPLY + minted

(* It does until an address is taken for two things, in every state the    *)
(* two stores reach by then, whatever moves tinybar between them.          *)
EvmSupplyConserved == Uncrossed => SupplyIsConstant

(* Accounts, topics and contracts share one counter: an id names one       *)
(* entity, whichever side allocated it.                                    *)
EntityIdsFresh ==
    LET contracts == {contract_by_evm[a] : a \in DOMAIN contract_by_evm}
    IN  /\ IdsFresh
        /\ \A id \in contracts : id < next_id
        /\ contracts \cap (DOMAIN accounts \cup DOMAIN topics) = {}
        /\ \A a, b \in DOMAIN contract_by_evm : contract_by_evm[a] = contract_by_evm[b] => a = b

(* An address names an account or a contract, never both: otherwise the    *)
(* next sync writes the account's balance over the contract's.  The code   *)
(* does not keep this (EvmLedgerContract.cfg).                             *)
AddressNamesOneEntity == DOMAIN by_evm \cap DOMAIN contract_by_evm = {}

(* What it does keep: neither an execution, creating a contract or opening *)
(* a hollow account, nor a cheat gives an address to a second entity; an   *)
(* account and a contract share one only where a HAPI transaction opened   *)
(* the account on the contract, or the address stands for an id.           *)
OnlyHapiOpensOnContracts == DOMAIN by_evm \cap DOMAIN contract_by_evm \subseteq crossed \cup LongZeros

(* Until an address is taken for two things, an EVM transaction takes      *)
(* tinybar from its sender only, apart from accounts that were given code  *)
(* with anvil_setCode; an ethereumTransaction from its HAPI payer too.     *)
OnlyTheSenderPays ==
    [][ sender' # NoSender /\ Uncrossed' =>
        \A id \in DOMAIN accounts :
            accounts'[id].balance < accounts[id].balance
            => \/ evm_address(id, accounts[id]) = sender'
               \/ At(db, evm_address(id, accounts[id])).code
               \/ records' # records /\ records'[Len(records')].id.payer = id ]_allVars

(* Until then no EVM transaction takes a nonce back, its own account's or  *)
(* another's, and its sender's grows by one, so a signed transaction is    *)
(* mined once unless anvil_setNonce is used.                               *)
NoncesNeverBack ==
    [][ sender' # NoSender /\ Uncrossed' =>
        /\ \A id \in DOMAIN nonces : nonces'[id] >= nonces[id]
        /\ sender' \in DOMAIN by_evm =>
            nonces'[by_evm[sender']] = nonces[by_evm[sender']] + 1 ]_allVars

(* An id names one entity, and so does an address unless a HAPI            *)
(* transaction opened an account on a contract.                            *)
EntitiesAreDistinct == EntityIdsFresh /\ OnlyHapiOpensOnContracts

(* A transaction is its sender's: it spends its sender's tinybar and nonce. *)
OnlyTheSenderActs == OnlyTheSenderPays /\ NoncesNeverBack
=============================================================================
