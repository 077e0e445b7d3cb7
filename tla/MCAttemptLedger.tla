--------------------------- MODULE MCAttemptLedger --------------------------
(* A small instance of AttemptLedger.                                       *)
EXTENDS AttemptLedger

(* What a state can still influence.  The session is read by the next start *)
(* only, and nothing follows the end of the last one; the attempt before is *)
(* forgotten when a chain that is not up, or is between attempts, goes on.  *)
MCView ==
    LET node    == << chain, snapshots, next_snapshot, dead >>
        current == << per_attempt, slice, attempts, sent, phase >>
        saved   == IF boots < MaxBoots THEN session ELSE NoDump
    IN  CASE phase = "off" ->
                IF boots < MaxBoots THEN << per_attempt, session, sent, boots >> ELSE << >>
          [] phase = "ready" -> << node, current, saved, boots >>
          [] phase = "running" -> << node, current, saved, boots, attempt, begun, wentBack >>
          [] OTHER -> << node, current, saved, boots, attempt.snapshot, begun >>
=============================================================================
