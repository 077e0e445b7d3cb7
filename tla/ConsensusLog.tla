---------------------------- MODULE ConsensusLog ----------------------------
(***************************************************************************)
(* What the chain promises about consensus timestamps (the comment of      *)
(* next_consensus in src/src/state/mod.rs): they identify a transaction,   *)
(* so each one is handed out once and each is later than all before it.    *)
(* The state is the set of stamps the chain shows to its readers, and      *)
(* whether the last stamp there is has been handed out: the type of a      *)
(* stamp is finite, and the promise is worth what the type can hold.       *)
(***************************************************************************)
CONSTANTS
    Stamp,          \* the set of consensus timestamps
    After(_, _)     \* After(t, u): timestamp t is later than timestamp u

VARIABLES
    used,           \* the stamps carried by a block or by a HAPI record
    spent           \* the last stamp has been handed out, shown or not

vars == <<used, spent>>

Init ==
    /\ \E t \in used : t \in Stamp /\ used = {t}
    /\ spent = FALSE

(* One transaction or one empty block reaches consensus. *)
Allocate ==
    /\ ~spent /\ ~spent'
    /\ \E t \in used' :
        /\ t \in Stamp
        /\ \A u \in used : After(t, u)
        /\ used' = used \cup {t}

(* The last stamp is handed out, or had been: a stamp shown from here on   *)
(* may be an old one, but none disappears and no step shows two new ones.  *)
StartOver ==
    /\ spent'
    /\ \/ used' = used
       \/ \E t \in Stamp : used' = used \cup {t}

Next == Allocate \/ StartOver

Spec == Init /\ [][Next]_vars
=============================================================================
