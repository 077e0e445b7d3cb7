---------------------------- MODULE AttemptStages ----------------------------
(***************************************************************************)
(* One increment of a run, harness/attempt.rs::run_loop with the stages it *)
(* calls: load the recipe; then, attempt after attempt, a model is chosen, *)
(* the agent works (GENERATE), the workspace is checked (ASSERT), the      *)
(* chain is deployed to, moved in time and asserted on, phase by phase     *)
(* (CHAIN), a dev server is booted and a browser walks its routes (SMOKE), *)
(* a validator agent judges the app (EVALUATE); the findings are compared  *)
(* with the last attempt's, and a repair prompt starts the next one.       *)
(* A recipe, a workspace, a page and a reply are records described in      *)
(* Recipe and Gates.                                                       *)
(***************************************************************************)
EXTENDS Gates

CONSTANTS
  Setups,           \* what a command starts with: [command, raw, config, cycle, ws, mcp]
  Workspaces,       \* what an agent may leave in the workspace
  Tools,            \* how the browser driver may fare
  Replies,          \* how the validator agent may end
  Txs,              \* what the agent, a deploy or the app may submit
  MAX_TXS           \* bound on the transactions of the chain

\* What is read from YAML and JSON: an optional key is absent or has one value.
ASSUME SetupsAreTyped ==
  \A s \in Setups :
    /\ s.command \in {"run", "validate", "validate-semantic"}
    /\ Optional(s.raw.chain) /\ Optional(s.raw.playwright)
    /\ Optional(s.raw.validator) /\ Optional(s.raw.eval)
    /\ OrElse(s.raw.maxAttempts, DEFAULT_MAX_ATTEMPTS) \in Int
    /\ \A v \in Range(s.raw.validator) : v.enabled \in BOOLEAN
    /\ \A c \in Range(s.raw.chain) :
         /\ c.enabled \in BOOLEAN
         /\ Len(c.phases) \in Nat /\ DOMAIN c.phases = 1 .. Len(c.phases)
         /\ OrElse(c.advance, 0) \in Int
         /\ \A i \in DOMAIN c.phases : OrElse(c.phases[i].advance, 0) \in Int
    /\ s.mcp = Absent \/ s.mcp = <<[json |-> s.mcp[1].json, servers |-> s.mcp[1].servers]>>
    /\ \A f \in Range(s.mcp) : f.json \in BOOLEAN

ASSUME RepliesAreTyped ==
  \A r \in Replies : r.kind \in {"runtime", "exit", "prose", "verdict"} /\ r.passed \in BOOLEAN

ASSUME MaxTxsIsNat == MAX_TXS \in Nat

VARIABLES
  command,    \* "run", or one of the two of Validate, which shares the stages
  raw,        \* the recipe as written
  config,     \* the files it points at, [static, commands, gate]
  cycle,      \* how this kick began, [continue, cycle, starting, open]
  stage,      \* what the loop does next
  outcome,    \* "running", "passed", "failed", "aborted", "error", "interrupted", "killed"
  attempts,   \* attempts made this cycle
  choice,     \* the model of this attempt
  prompt,     \* latest_prompt
  ws,         \* the workspace
  cache,      \* install-fingerprint.txt
  chain,      \* the node's transactions
  advanced,   \* set of assertions -> chain time moved for it in this attempt
  mark,       \* Mark::of at the beginning of the attempt
  snapshot,   \* what the attempt's snapshot holds, <<>> when none was taken
  phase,      \* 0 for the flat block, k for phases[k - 1]
  val,        \* the ValidationResult in the making
  delta,      \* Delta of the last attempt
  previous,   \* its findings with their status
  last_ledger,\* the ledger of the attempt before
  server,     \* "down" or "up"
  mcp,        \* the workspace's MCP file
  given,      \* what restore will put back, <<file>> while installed
  fault,      \* an error is on its way out through the dev server's stop
  judged,     \* the gates this attempt ran and found clean
  own,        \* the MCP file the workspace held before the run
  key         \* a validation's signer has its key file on disk

vars == <<command, raw, config, cycle, stage, outcome, attempts, choice, prompt, ws, cache,
          chain, advanced, mark, snapshot, phase, val, delta, previous, last_ledger,
          server, mcp, given, fault, judged, own, key>>

setup    == <<command, raw, config, cycle, own>>
still    == <<setup, key>>
loop     == <<outcome, attempts, choice, prompt, delta, previous, last_ledger, snapshot, mark>>
tooling  == <<server, mcp, given, fault>>

spec  == Loaded(raw)
chainValidation == spec.chain_validation[1]
OnLocal == chainValidation.network = "local"
gate == load_gate_config(config.gate)
RunEvaluate == command = "run" /\ validator_enabled(spec) /\ Present(spec.eval_paths)

\* Assertions of set k, and how many come before it: set 0 is the flat block.
AssertionsOf(k) ==
  IF k = 0 THEN chainValidation.assertions ELSE chainValidation.phases[k].assertions
Offset(k) == FoldLeft(LAMBDA n, i : n + Len(AssertionsOf(i)), 0, [i \in 1 .. k |-> i - 1])
DeployOf(k) ==
  IF k = 0 THEN chainValidation.deploy ELSE chainValidation.phases[k].deploy
AdvanceOf(k) ==
  IF k = 0 THEN chainValidation.advance ELSE chainValidation.phases[k].advance

\* No set has had its time yet; the time of set k passes.
Sets == 0 .. IF Present(spec.chain_validation) THEN Len(chainValidation.phases) ELSE 0
still_clock == [k \in Sets |-> 0]
increase_time(k) == advanced' = [advanced EXCEPT ![k] = @ + AdvanceOf(k)]

\* Somebody may submit one transaction while a stage runs.
Submits(sent) ==
  /\ sent \in {<<>>} \cup (IF Len(chain) < MAX_TXS THEN {<<tx>> : tx \in Txs} ELSE {})
  /\ chain' = chain \o sent

Gate(name, set) == [gate |-> name, set |-> set]
Judged(name, set) == judged' = judged \cup {Gate(name, set)}

fresh_val == [passed |-> FALSE, findings |-> {}, smoke |-> "none",
              evaluation |-> <<>>, ledger |-> <<>>]

Init ==
  /\ \E s \in Setups : /\ command = s.command /\ raw = s.raw /\ config = s.config /\ cycle = s.cycle
                       /\ ws = s.ws /\ own = s.mcp
  /\ stage = "load" /\ outcome = "running"
  /\ attempts = 0 /\ choice = [model |-> "", reason |-> ""]
  /\ prompt = build_continue_prompt(0)
  /\ cache = <<>>
  /\ chain = <<>> /\ advanced = <<>> /\ mark = 0 /\ snapshot = <<>> /\ phase = 0
  /\ val = [fresh_val EXCEPT !.findings = not_run_yet.findings]
  /\ delta = [open |-> cycle.open, fixed |-> {}, introduced |-> {}]
  /\ previous = {} /\ last_ledger = <<>>
  /\ server = "down" /\ mcp = own /\ given = <<>> /\ fault = FALSE
  /\ judged = {} /\ key = FALSE

-----------------------------------------------------------------------------
(* The attempt begins.                                                     *)

\* spec::load, then the prompt the loop starts with; the session may itself
\* fail to start, which the outcome covers.
Load ==
  /\ stage = "load"
  /\ IF Refused(raw)
     THEN stage' = "over" /\ outcome' = "error" /\ UNCHANGED prompt
     ELSE /\ stage' = "begin"
          /\ prompt' = IF cycle.continue THEN build_continue_prompt(cycle.cycle)
                       ELSE build_session_prompt(spec, 0)
          /\ UNCHANGED outcome
  /\ UNCHANGED <<still, tooling, attempts, choice, delta, previous, last_ledger, snapshot,
                 mark, ws, cache, chain, advanced, phase, val, judged>>

(* Mutant: one attempt more than the recipe allows. *)
BeginAttemptTooMany ==
  /\ stage = "begin" /\ attempts <= spec.max_attempts
  /\ attempts' = attempts + 1
  /\ choice' = select_model(spec.agent, attempts + 1, Cardinality(delta.fixed))
  /\ mark' = Len(chain) /\ snapshot' = <<>>
  /\ advanced' = still_clock /\ phase' = 0 /\ judged' = {}
  /\ last_ledger' = val.ledger
  /\ val' = fresh_val
  /\ stage' = "generate"
  /\ UNCHANGED <<still, tooling, outcome, prompt, delta, previous, ws, cache, chain>>

\* The model is chosen, the chain marked and, when the recipe wants it, saved.
BeginAttempt ==
  /\ stage = "begin" /\ attempts < spec.max_attempts
  /\ attempts' = attempts + 1
  /\ choice' = select_model(spec.agent, attempts + 1, Cardinality(delta.fixed))
  /\ mark' = Len(chain)
  /\ snapshot' = IF Present(spec.chain_validation) /\ chainValidation.snapshot_per_attempt
                 THEN <<chain>> ELSE <<>>
  /\ advanced' = still_clock /\ phase' = 0 /\ judged' = {}
  /\ last_ledger' = val.ledger
  /\ val' = fresh_val
  /\ stage' = "generate"
  /\ UNCHANGED <<still, tooling, outcome, prompt, delta, previous, ws, cache, chain>>

\* The agent leaves some workspace, may have used the chain, and ends well,
\* badly or out of time; a failure is a finding that bears the attempt's
\* number, and never ends the attempt.
Generate ==
  /\ stage = "generate"
  /\ ws' \in Workspaces
  /\ \E sent \in {<<>>} \cup {<<tx>> : tx \in Txs} : Submits(sent)
  /\ \E failed \in {{}, {"generator-exit"}, {"generator-timeout"}} :
       val' = [val EXCEPT !.findings =
                 {Finding(f, <<>>, cycle.starting + attempts - 1, "agent") : f \in failed}]
  /\ stage' = "assert"
  /\ UNCHANGED <<still, tooling, loop, cache, advanced, phase, judged>>

-----------------------------------------------------------------------------
(* The deterministic gates.                                                *)

(* Mutant: the error is noted and the stage tried again. *)
FailAndRetry == stage' = stage /\ outcome' = "error"

\* An error leaves the loop at once: no judgement, no repair.
Fail == stage' = "cleanup" /\ outcome' = "error"

AfterChain == IF Present(spec.playwright) THEN "serve" ELSE "judge"

AssertStage ==
  /\ stage = "assert" /\ ~assert_errs(config)
  /\ LET ran == assert_run(ws, spec, config, cache)
         all == ran.findings \cup val.findings
     IN /\ cache' = ran.cache
        /\ IF is_ready_for_smoke(all)
           THEN /\ Judged("assert", 0)
                /\ val' = [val EXCEPT !.findings = all, !.passed = ran.findings = {}]
                /\ stage' = IF Present(spec.chain_validation) THEN "deploy" ELSE AfterChain
           ELSE /\ val' = [val EXCEPT !.findings = all, !.passed = FALSE]
                /\ stage' = "judge"
                /\ UNCHANGED judged
  /\ UNCHANGED <<still, tooling, loop, ws, chain, advanced, phase>>

AssertErrs ==
  /\ stage = "assert" /\ assert_errs(config)
  /\ Fail
  /\ UNCHANGED <<still, tooling, attempts, choice, prompt, delta, previous, last_ledger,
                 snapshot, mark, ws, cache, chain, advanced, phase, val, judged>>

\* The deploy commands of a set.  The clock of a phase moves before its
\* commands run, that of the flat block after them; testnet ends here.
ChainDeploy ==
  /\ stage = "deploy"
  /\ \E sent \in {<<>>} \cup {<<tx>> : tx \in Txs} : Submits(sent)
  /\ \E failing \in SUBSET {c.name[1] : c \in Range(DeployOf(phase))} :
       LET findings == {Finding("chain-deploy", <<c>>, 0, "commands") : c \in failing}
       IN IF failing # {}
          THEN /\ val' = [val EXCEPT !.findings = @ \cup findings, !.passed = FALSE,
                                     !.ledger = IF OnLocal THEN Since(chain', mark) ELSE <<>>]
               /\ IF phase = 0 THEN UNCHANGED advanced ELSE increase_time(phase)
               /\ stage' = "judge"
               /\ UNCHANGED judged
          ELSE /\ Judged("deploy", phase)
               /\ IF OnLocal THEN increase_time(phase) ELSE UNCHANGED advanced
               /\ stage' = IF OnLocal THEN "chain" ELSE AfterChain
               /\ UNCHANGED val
  /\ UNCHANGED <<still, tooling, loop, ws, cache, phase>>

\* One set of assertions, on the chain and the ledger as they stand.
ChainAssert ==
  /\ stage = "chain"
  /\ LET findings == run_assertions(chain, mark, AssertionsOf(phase), Offset(phase))
         ledger   == Since(chain, mark)
     IN IF findings # {}
        THEN /\ val' = [val EXCEPT !.findings = @ \cup findings, !.passed = FALSE,
                                   !.ledger = ledger]
             /\ stage' = "judge"
             /\ UNCHANGED <<phase, judged>>
        ELSE /\ Judged("assertions", phase)
             /\ IF phase < Len(chainValidation.phases)
                THEN phase' = phase + 1 /\ stage' = "deploy" /\ UNCHANGED val
                ELSE /\ val' = [val EXCEPT !.ledger = ledger]
                     /\ stage' = AfterChain
                     /\ UNCHANGED phase
  /\ UNCHANGED <<still, tooling, loop, ws, cache, chain, advanced>>

-----------------------------------------------------------------------------
(* The browser stages: one dev server, stopped whatever happens.           *)

\* A gate file that does not read, or a dev server that does not come up, is
\* an error of the run and not a finding.
StartServer ==
  /\ stage = "serve"
  /\ \E up \in BOOLEAN :
       IF up /\ Present(gate)
       THEN server' = "up" /\ stage' = "smoke" /\ UNCHANGED outcome
       ELSE Fail /\ UNCHANGED server
  /\ UNCHANGED <<still, mcp, given, fault, attempts, choice, prompt, delta, previous,
                 last_ledger, snapshot, mark, ws, cache, chain, advanced, phase, val, judged>>

\* The routes are walked while the app may use the chain.
Smoke ==
  /\ stage = "smoke"
  /\ \E sent \in {<<>>} \cup {<<tx>> : tx \in Txs} : Submits(sent)
  /\ \E tool \in Tools :
       LET findings == val.findings \cup run_gate(gate[1], ws.pages, tool)
           passed   == \A f \in findings : f.category = "agent"
       IN /\ val' = [val EXCEPT !.findings = findings, !.passed = passed,
                                !.smoke = IF findings = val.findings THEN "passed" ELSE "failed"]
          /\ stage' = IF passed /\ RunEvaluate THEN "deliver" ELSE "stop"
          /\ IF passed THEN Judged("smoke", 0) ELSE UNCHANGED judged
  /\ UNCHANGED <<still, tooling, loop, ws, cache, advanced, phase>>

\* The browser server reaches the validator by a flag, or by the file the
\* workspace may already have.  Writing either may fail.
DeliverMcp ==
  /\ stage = "deliver"
  /\ \E written \in BOOLEAN :
       IF ~written
       THEN fault' = TRUE /\ stage' = "stop" /\ UNCHANGED <<mcp, given>>
       ELSE /\ IF AgentPreset[spec.agent].mcp = "file"
               THEN mcp' = mcp_install(mcp) /\ given' = <<mcp>>
               ELSE UNCHANGED <<mcp, given>>
            /\ stage' = "evaluate"
            /\ UNCHANGED fault
  /\ UNCHANGED <<still, loop, server, ws, cache, chain, advanced, phase, val, judged>>

\* The ledger is read again before the validator drives the app; the report of
\* the evaluation may fail to be written, and then the file is not restored.
Evaluate ==
  /\ stage = "evaluate"
  /\ \E sent \in {<<>>} \cup {<<tx>> : tx \in Txs} : Submits(sent)
  /\ \E reply \in Replies, written \in BOOLEAN :
       LET evaluation == evaluate_run(reply, cycle.starting + attempts - 1)
       IN IF ~written
          THEN fault' = TRUE /\ UNCHANGED <<mcp, given, val, judged>>
          ELSE /\ val' = [val EXCEPT
                            !.ledger = Since(chain, mark),
                            !.passed = evaluation.passed,
                            !.findings = IF evaluation.passed THEN @ ELSE @ \cup evaluation.findings,
                            !.evaluation = <<evaluation>>]
               /\ IF Present(given) THEN mcp' = given[1] ELSE UNCHANGED mcp
               /\ given' = <<>>
               /\ IF evaluation.passed THEN Judged("evaluate", 0) ELSE UNCHANGED judged
               /\ UNCHANGED fault
  /\ stage' = "stop"
  /\ UNCHANGED <<still, loop, server, ws, cache, advanced, phase>>

StopServer ==
  /\ stage = "stop"
  /\ server' = "down"
  /\ IF fault THEN Fail ELSE stage' = "judge" /\ UNCHANGED outcome
  /\ UNCHANGED <<still, mcp, given, fault, attempts, choice, prompt, delta, previous,
                 last_ledger, snapshot, mark, ws, cache, chain, advanced, phase, val, judged>>

-----------------------------------------------------------------------------
(* The judgement.                                                          *)

InfraAbort == Present(val.evaluation) /\ val.evaluation[1].infra

\* A failed attempt with attempts left is undone under the repair.
Repair(statuses) ==
  /\ IF Present(snapshot) THEN chain' = snapshot[1] ELSE UNCHANGED chain
  /\ prompt' = build_repair_prompt(Open(statuses), cycle.starting + attempts,
                 Present(snapshot), val.ledger, repeated_from(val.ledger, last_ledger))
  /\ stage' = "begin"
  /\ UNCHANGED outcome

Judge ==
  /\ stage = "judge"
  /\ LET now      == compute_delta(delta.open, val.findings)
         statuses == apply_status(val.findings, now, previous)
         ended    == CASE InfraAbort -> "aborted"
                       [] ~InfraAbort /\ val.passed -> "passed"
                       [] OTHER -> "failed"
     IN /\ delta' = now
        /\ previous' = statuses
        /\ IF ended = "failed" /\ attempts < spec.max_attempts
           THEN Repair(statuses)
           ELSE stage' = "cleanup" /\ outcome' = ended /\ UNCHANGED <<chain, prompt>>
  /\ UNCHANGED <<still, tooling, attempts, choice, last_ledger, snapshot, mark, ws, cache,
                 advanced, phase, val, judged>>

\* A recipe of no attempts: the loop is left as it was entered.
NoAttempt ==
  /\ stage = "begin" /\ attempts >= spec.max_attempts
  /\ stage' = "cleanup" /\ outcome' = "failed"
  /\ UNCHANGED <<still, tooling, attempts, choice, prompt, delta, previous, last_ledger,
                 snapshot, mark, ws, cache, chain, advanced, phase, val, judged>>

\* Ctrl-C drops the run where it stands and stops every process group.
Interrupt ==
  /\ stage \notin {"load", "cleanup", "over"}
  /\ server' = "down" /\ fault' = FALSE
  /\ stage' = "cleanup" /\ outcome' = "interrupted"
  /\ UNCHANGED <<still, mcp, given, attempts, choice, prompt, delta, previous,
                 last_ledger, snapshot, mark, ws, cache, chain, advanced, phase, val, judged>>

\* The runtime directories go, and with them an MCP entry left behind.
CleanUp ==
  /\ stage = "cleanup"
  /\ mcp' = strip_harness_entry(mcp)
  /\ stage' = "over"
  /\ UNCHANGED <<still, loop, server, given, fault, ws, cache, chain, advanced, phase, val,
                 judged>>

Over == stage = "over" /\ UNCHANGED vars

Steps ==
  \/ Load \/ BeginAttempt \/ NoAttempt \/ Generate \/ AssertStage \/ AssertErrs
  \/ ChainDeploy \/ ChainAssert
  \/ StartServer \/ Smoke \/ DeliverMcp \/ Evaluate \/ StopServer
  \/ Judge \/ CleanUp

Next == Steps \/ Interrupt \/ Over

\* Where the loop waits, with no limit, for a process that may never let go: the
\* readers of the agent's and of a command's pipes (Processes!HeldUp), and git,
\* which commits what a run has judged (git.rs).
Unlimited ==
  \/ stage \in {"generate", "assert", "deploy", "evaluate"}
  \/ stage = "judge" /\ command = "run"

\* Every other wait has a limit, and the loop goes on as soon as it is over.
Spec == Init /\ [][Next]_vars /\ WF_vars(~Unlimited /\ Steps)

-----------------------------------------------------------------------------
(* Properties.                                                             *)

Categories == {"files", "static", "secret", "commands", "chain", "playwright",
               "eval", "eval-infra", "agent"}

\* Types: every variable holds what its comment says.  Findings are of a known
\* category, and a validation never counts more gates than there are.
TypeOK ==
  /\ stage \in {"load", "begin", "generate", "assert", "deploy", "chain", "serve", "smoke",
                "deliver", "evaluate", "stop", "judge", "cleanup", "boot", "report", "over"}
  /\ outcome \in {"running", "passed", "failed", "aborted", "error", "interrupted", "killed"}
  /\ command \in {"run", "validate", "validate-semantic"} /\ key \in BOOLEAN
  /\ attempts \in 0 .. MaxAttempts(raw)
  /\ prompt.kind \in {"session", "continue", "repair"}
  /\ \A f \in val.findings \cup prompt.findings : f.category \in Categories
  /\ Len(chain) <= MAX_TXS /\ mark \in 0 .. Len(chain)
  /\ Len(cache) <= 1 /\ Len(snapshot) <= 1 /\ Len(given) <= 1 /\ Len(mcp) <= 1
  /\ server \in {"down", "up"} /\ fault \in BOOLEAN

\* What the author of a recipe asked for and the command grades, read off the
\* recipe as written and not off what the loader made of it.
ChainsAsked  == {c \in Range(raw.chain) : c.enabled}
ChainsJudged == {c \in ChainsAsked : c.network = "local" \/ c.assert # <<>> \/ c.phases # <<>>}

SetsAsked(c) == UNION {{Gate("deploy", k), Gate("assertions", k)} : k \in 0 .. Len(c.phases)}

AskedFirst ==
  {Gate("assert", 0)}
  \cup {Gate("deploy", 0) : c \in ChainsAsked}
  \cup {Gate("smoke", 0) : p \in Range(raw.playwright)}
  \cup UNION {SetsAsked(c) : c \in ChainsJudged}

AskedLast ==
  {Gate("evaluate", 0) : v \in {w \in Range(raw.validator) :
     w.enabled /\ Present(raw.eval) /\ Present(raw.playwright)}}

Asked ==
  CASE command = "run" -> AskedFirst \cup AskedLast
    [] command = "validate" -> AskedFirst
    [] command = "validate-semantic" -> {Gate("evaluate", 0)}

AskedSeconds ==
  LET c == ChainAsked(raw)[1]
  IN [k \in 0 .. Len(c.phases) |-> OrElse(IF k = 0 THEN c.advance ELSE c.phases[k].advance, 0)]

\* "a recipe that asks for an assertion and is told nothing would report a pass
\* it never earned" (spec.rs, read_chain_validation): a run that passes has, in
\* its last attempt, run every gate the recipe asks for and found each of them
\* clean, moved the chain's clock for each set of assertions by the time asked
\* for it, once, and ends on a workspace with the files the recipe requires.  The
\* only finding it may carry is that the agent itself ended badly.  The same holds
\* of `hanvil validate' for all gates but the last, and of `hanvil
\* validate-semantic' for that one.
PassIsEarned ==
  outcome = "passed" =>
    /\ Asked \subseteq judged
    /\ command # "validate-semantic" =>
         /\ Present(ChainAsked(raw)) => advanced = AskedSeconds
         /\ raw.requiredFiles \subseteq ws.files
    /\ \A f \in val.findings : f.category = "agent"

\* A repair is always given something of the app's to repair: an open finding
\* that is neither the agent's own end nor the evaluator's tooling; and a
\* tooling failure ends the loop instead of being blamed on the app.
RepairIsActionable ==
  /\ prompt.kind = "repair" =>
       /\ \E f \in prompt.findings : f.category # "agent"
       /\ \A f \in prompt.findings : f.category # "eval-infra"
  /\ stage \in {"begin", "cleanup", "over"} /\ command = "run" /\ InfraAbort =>
       outcome \in {"aborted", "interrupted"}

\* A repair scoped to the checklist ("ASSERT and SMOKE already green", prompt.rs,
\* RepairScope) follows an attempt in which every gate but EVALUATE was clean; a
\* repair of the running app follows one whose files, static checks and secrets
\* were.
ScopeIsTrue ==
  stage = "begin" /\ prompt.kind = "repair" =>
    /\ prompt.scope = "eval-scoped" => Asked \ {Gate("evaluate", 0)} \subseteq judged
    /\ prompt.scope = "runtime" =>
         raw.requiredFiles \subseteq ws.files
           /\ \A f \in val.findings : f.category \notin {"agent", "secret", "static"}

\* What a repair prompt says of the attempt before it is so.
RepairIsFounded == RepairIsActionable /\ ScopeIsTrue

\* A run that is over has left no dev server and no MCP entry of the harness in
\* the workspace; one that came to a verdict has given the user's MCP file back
\* as it was (mcp.rs, WorkspaceFile), less an entry that a killed command had
\* left in it if the command cleans up.  `hanvil validate' leaves no key file on any
\* way out (run.rs, validate: "Nothing may use `?' or return until teardown has
\* swept it"), `hanvil validate-semantic' none when it came to a verdict.  Neither
\* handles Ctrl-C, which leaves everything where it was.
NothingLeftBehind ==
  stage = "over" /\ outcome # "killed" =>
    /\ server = "down"
    /\ \A f \in Range(mcp) : f.json => HarnessServer \notin f.servers \ UNION {o.servers : o \in Range(own)}
    /\ outcome \in {"passed", "failed", "aborted"} =>
         mcp = IF command = "run" THEN strip_harness_entry(own) ELSE own
    /\ command = "validate" \/ outcome # "error" => ~key

\* "Every transaction your last attempt sent, in consensus order" (prompt.rs,
\* chain_ledger_section): when an attempt is judged, the ledger its repair will
\* be given holds every transaction since the mark.
RepairLedgerIsComplete ==
  stage = "judge" /\ val.ledger # <<>> => val.ledger = Since(chain, mark)

\* However the stages fail, the loop comes to an end, or stays for ever in one
\* stage that waits for a process without a limit: nothing that ends badly is
\* tried again without end.
StageEnds ==
  \/ <>(stage = "over")
  \/ \E s \in {"generate", "assert", "deploy", "evaluate", "judge"} : <>[](stage = s /\ Unlimited)
=============================================================================
