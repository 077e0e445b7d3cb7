---------------------------- MODULE MCHapiLedger ----------------------------
(* A small instance of HapiLedger: the treasury, the fee collector and one  *)
(* predefined user, two keys, two addresses a client can write, and fees    *)
(* and balances small enough that a payer runs out of tinybar.              *)
EXTENDS HapiLedger

CONSTANTS k1, k2

MCKeys == {k1, k2}
MCGenesisKey == [id \in GenesisIds |->
    CASE id = TREASURY -> k1 [] id = FEE_COLLECTOR -> NoKey [] OTHER -> k2]

A == <<"alias", 1>>
B == <<"alias", 2>>
C == <<"alias", 3>>
MCAliases == {A, B, C}

(* The predefined user has an alias derived from its key. *)
MCGenesisAlias == [id \in GenesisIds |-> IF id \in Users THEN C ELSE NoAlias]

Id(n, amount) == [ref |-> <<"id", n>>, amount |-> amount]
To(address, amount) == [ref |-> <<"alias", address>>, amount |-> amount]

(* In turn: a plain payment of everything, a debit of the collector, hollow *)
(* accounts (one, two, one named twice), a debit by alias of a hollow account *)
(* and of the user, a list naming an account twice under two names, a hollow *)
(* account under the long-zero address of a later one, a list that does not *)
(* sum to zero.                                                             *)
MCTransferLists == {
    << Id(3, -2), Id(1, 2) >>,
    << Id(2, -1), Id(3, 1) >>,
    << To(A, 1), Id(3, -1) >>,
    << To(A, 1), To(B, 1), Id(1, -2) >>,
    << To(A, 1), To(A, 1), Id(1, -2) >>,
    << To(A, -1), Id(1, 1) >>,
    << To(C, -1), Id(1, 1) >>,
    << Id(3, -1), To(LongZero(3), 1) >>,
    << Id(3, -1), To(LongZero(5), 1) >>,
    << Id(1, -1) >> }

MCMessages == {"", "m"}

(* Who signed last is read by no guard; states that differ in it only are   *)
(* explored once.                                                           *)
MCView == <<accounts, by_evm, next_id, topics, records, hapi_by_id>>
=============================================================================
