------------------------------ MODULE Validate ------------------------------
(***************************************************************************)
(* `hanvil validate' and `hanvil validate-semantic', harness/run.rs: the   *)
(* stages of AttemptStages on the workspace as it stands, without agent,   *)
(* session or repair.  The first runs ASSERT, CHAIN and SMOKE, the second  *)
(* EVALUATE alone; both boot a node and provision a signer whose key file  *)
(* (`key') has to go again on every way out.                               *)
(***************************************************************************)
EXTENDS AttemptStages

OnTestnet == Present(spec.chain_validation) /\ chainValidation.network = "testnet"

\* An error that returns at once, past the teardown.
ReturnsEarly == stage' = "over" /\ outcome' = "error"

ValidateLoad ==
  /\ command = "validate" /\ stage = "load"
  /\ IF Refused(raw)
     THEN ReturnsEarly /\ UNCHANGED advanced
     ELSE stage' = "assert" /\ advanced' = still_clock /\ UNCHANGED outcome
  /\ val' = fresh_val
  /\ UNCHANGED <<still, tooling, attempts, choice, prompt, delta, previous, last_ledger,
                 snapshot, mark, ws, cache, chain, phase, judged>>

\* What EVALUATE cannot do without is asked for before anything is started; the
\* run directory may not be writable.
SemanticLoad ==
  /\ command = "validate-semantic" /\ stage = "load"
  /\ \E vendored \in BOOLEAN :
       IF /\ ~Refused(raw)
          /\ validator_enabled(spec) /\ Present(spec.eval_paths) /\ Present(spec.playwright)
          /\ ~OnTestnet
          /\ vendored
       THEN stage' = "boot" /\ UNCHANGED outcome
       ELSE ReturnsEarly
  /\ val' = fresh_val
  /\ UNCHANGED <<still, tooling, attempts, choice, prompt, delta, previous, last_ledger,
                 snapshot, mark, ws, cache, chain, advanced, phase, judged>>

\* The node boots and the signer's key is written, or neither: a testnet recipe,
\* a port in use or a failing create return before the file is there.
chain_for_app ==
  /\ ~key
  /\ \/ command = "validate" /\ stage = "deploy"
     \/ command = "validate-semantic" /\ stage = "boot"
  /\ \E booted \in BOOLEAN :
       IF booted /\ ~OnTestnet
       THEN /\ key' = Present(spec.chain_validation)
            /\ stage' = IF stage = "boot" THEN "serve" ELSE stage
            /\ UNCHANGED outcome
       ELSE ReturnsEarly /\ UNCHANGED key
  /\ UNCHANGED <<setup, tooling, attempts, choice, prompt, delta, previous, last_ledger,
                 snapshot, mark, ws, cache, chain, advanced, phase, val, judged>>

\* validate-semantic has no SMOKE: its server is for the validator.  A gate file
\* that does not read and a server that does not start return at once.
SemanticServer ==
  /\ command = "validate-semantic" /\ stage = "serve"
  /\ \E up \in BOOLEAN :
       IF up /\ Present(gate)
       THEN server' = "up" /\ stage' = "deliver" /\ UNCHANGED outcome
       ELSE ReturnsEarly /\ UNCHANGED server
  /\ UNCHANGED <<still, mcp, given, fault, attempts, choice, prompt, delta, previous,
                 last_ledger, snapshot, mark, ws, cache, chain, advanced, phase, val, judged>>

\* No ledger goes with it, and the MCP file is put back whatever it finds.
SemanticEvaluate ==
  /\ command = "validate-semantic" /\ stage = "evaluate"
  /\ \E sent \in {<<>>} \cup {<<tx>> : tx \in Txs} : Submits(sent)
  /\ \E reply \in Replies :
       LET evaluation == evaluate_run(reply, cycle.starting)
       IN /\ val' = [val EXCEPT !.passed = evaluation.passed,
                                !.findings = evaluation.findings,
                                !.evaluation = <<evaluation>>]
          /\ IF evaluation.passed THEN Judged("evaluate", 0) ELSE UNCHANGED judged
  /\ mcp' = IF Present(given) THEN given[1] ELSE mcp
  /\ given' = <<>>
  /\ stage' = "stop"
  /\ UNCHANGED <<still, loop, server, fault, ws, cache, advanced, phase>>

\* The signer is swept, its file removed and the node stopped, before the
\* outcome of the stages is looked at.
teardown ==
  /\ stage \in {"judge", "cleanup"}
  /\ key' = FALSE
  /\ stage' = "report"
  /\ UNCHANGED <<setup, tooling, loop, ws, cache, chain, advanced, phase, val, judged>>

\* validate passes when nothing was found, validate-semantic as its evaluation
\* says, if that can be written down.
Report ==
  /\ stage = "report"
  /\ \E written \in BOOLEAN :
       outcome' = CASE outcome = "error" -> "error"
                    [] outcome # "error" /\ command = "validate" ->
                         IF val.findings = {} THEN "passed" ELSE "failed"
                    [] OTHER -> IF ~written THEN "error"
                                ELSE IF val.passed THEN "passed" ELSE "failed"
  /\ stage' = "over"
  /\ UNCHANGED <<still, tooling, attempts, choice, prompt, delta, previous, last_ledger,
                 snapshot, mark, ws, cache, chain, advanced, phase, val, judged>>

\* The commands select no interrupt: Ctrl-C ends the process as it is.
Killed ==
  /\ stage \notin {"load", "over"}
  /\ stage' = "over" /\ outcome' = "killed"
  /\ UNCHANGED <<still, tooling, attempts, choice, prompt, delta, previous, last_ledger,
                 snapshot, mark, ws, cache, chain, advanced, phase, val, judged>>

ValidateSteps ==
  \/ ValidateLoad \/ SemanticLoad \/ AssertStage \/ AssertErrs
  \/ chain_for_app \/ (key /\ ChainDeploy) \/ ChainAssert
  \/ (command = "validate" /\ StartServer) \/ Smoke
  \/ SemanticServer \/ DeliverMcp \/ SemanticEvaluate
  \/ StopServer \/ teardown \/ Report

CommandNext ==
  \/ command = "run" /\ Next
  \/ command # "run" /\ (ValidateSteps \/ Killed \/ Over)

\* The fairness of AttemptStages, for each command.
CommandSpec ==
  /\ Init /\ [][CommandNext]_vars
  /\ WF_vars(command = "run" /\ ~Unlimited /\ Steps)
  /\ WF_vars(command # "run" /\ ~Unlimited /\ ValidateSteps)

\* "leaving a funded private key" (docs/research.md, on `hanvil validate'): when
\* either command returns, its signer's key file is gone.
KeyFileGoes == stage = "over" /\ outcome # "killed" => ~key
=============================================================================
