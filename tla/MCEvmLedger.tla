---------------------------- MODULE MCEvmLedger -----------------------------
(* A small instance of EvmLedger: the treasury, the collector and a user    *)
(* with an alias.  Signatures are off, so a submission is signed by nobody. *)
EXTENDS EvmLedger

CONSTANTS k1

MCKeys == {k1}
MCGenesisKey == [id \in GenesisIds |-> IF id = FEE_COLLECTOR THEN NoKey ELSE k1]

A == <<"alias", 1>>
C == <<"alias", 3>>

(* The contract the user creates with its first nonce. *)
K == Created(C, 0)

MCAliases == {A, C, K}
MCGenesisAlias == [id \in GenesisIds |-> IF id \in Users THEN C ELSE NoAlias]

(* The user and the owner of the hollow account A can sign. *)
MCSenders == {C, A}
MCTargets == {A, C, K, LongZero(3)}
MCLongZeroTargets == {A, LongZero(3)}
MCSystemContracts == {LongZero(0)}
MCCheatTargets == {C, K}

Id(n, amount) == [ref |-> <<"id", n>>, amount |-> amount]
To(address, amount) == [ref |-> <<"alias", address>>, amount |-> amount]
(* Hollow accounts: at a free address, at the contract's, at the one that  *)
(* stands for the id after.                                                *)
MCTransferLists == { << Id(3, -3), To(A, 3) >>,
                     << Id(3, -1), To(K, 1) >>,
                     << Id(3, -1), To(LongZero(5), 1) >> }

(* A payment to the user's long-zero address takes the user's nonce back:   *)
(* only the first steps after one are explored, or the run would not end.   *)
MCExplored == LongZero(3) \in crossed => accounts[FEE_COLLECTOR].balance <= 2

MCView == <<accounts, by_evm, next_id, topics, records, hapi_by_id,
            nonces, db, contract_by_evm, minted, cheats, crossed>>
=============================================================================
