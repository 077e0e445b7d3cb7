------------------------------ MODULE MCMirror ------------------------------
(* One payer that sends both ways, one recipient, a creation and a failure. *)
EXTENDS Mirror

MCSends ==
  { [from |-> 1002, to |-> 1003, value |-> 10, signed |-> TRUE, ok |-> TRUE],
    [from |-> 1002, to |-> Creates, value |-> 1, signed |-> FALSE, ok |-> TRUE],
    [from |-> 1003, to |-> 1002, value |-> 1, signed |-> FALSE, ok |-> FALSE] }

MCBodies ==
  { [payer |-> 1002, kind |-> "CONSENSUSSUBMITMESSAGE", ok |-> TRUE],
    [payer |-> 1002, kind |-> NAME, ok |-> FALSE] }

Query(order, account, kind, result, limit) ==
  [topic |-> FALSE, order |-> order, account |-> account, kind |-> kind, result |-> result, limit |-> limit]

MCQueries ==
  { Query("asc", None, "", "", 1), Query("desc", None, "", "", 1), Query("asc", 1003, "", "", 2),
    Query("desc", None, NAME, "fail", 1), Query("asc", None, "", "", 0),
    Query("desc", None, "NOSUCHTYPE", "success", 1),
    [Query("asc", None, "", "", 1) EXCEPT !.topic = TRUE] }
=============================================================================
