---------------------------- MODULE MCChainTime -----------------------------
(* A small instance of ChainTime.  Seconds and nanoseconds are tiny so that *)
(* the carry of next_nano, the ends of the i64 offset and of the u64        *)
(* seconds (a pin at U64_MAX, which is 7 here) and a wall clock that steps  *)
(* back all happen within a few calls.                                      *)
EXTENDS ChainTime

MCNows == { [secs |-> 1, nanos |-> 1], [secs |-> 3, nanos |-> 0] }
MCSeconds == {2, 5}
MCPins == {5, 7}
MCCounts == {2}
=============================================================================
