-------------------------- MODULE MCChainSnapshots --------------------------
(* A small instance of ChainSnapshots. *)
EXTENDS ChainSnapshots

CONSTANT t1

MCTxIds == {t1}
=============================================================================
