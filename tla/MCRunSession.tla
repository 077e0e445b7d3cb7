---------------------------- MODULE MCRunSession ----------------------------
(* Small instances of RunSession for TLC. *)
EXTENDS RunSession

MCFindingIds == {"agent"}
MCAgentIds == {"agent"}

(* What the open ids and the baseline were, which attempt's chain was      *)
(* dumped, and how a run ended that made no report, decides no later step  *)
(* and no invariant of the passing run: states that differ only there are  *)
(* one.                                                                    *)
Bare(r) == [r EXCEPT !.open = {}, !.chain.attempt = 0]
BareSession(r) == [Bare(r) EXCEPT !.baseline = ""]
BareEnd(e) == IF e \in {"passed", "failed"} THEN e ELSE ""

MCView == <<branch, history, dirty, keys, Bare(proc), delivered, asides,
            [b \in DOMAIN sessions |-> BareSession(sessions[b])],
            [b \in DOMAIN ended |-> BareEnd(ended[b])]>>
=============================================================================
