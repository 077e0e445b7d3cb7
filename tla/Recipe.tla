------------------------------- MODULE Recipe -------------------------------
(***************************************************************************)
(* The recipe loader, harness/spec.rs: what `.harness/spec.yaml` may ask   *)
(* for, what is refused at load and what the defaults fill in.  A recipe   *)
(* as written (`raw') is a record whose optional keys are sequences of     *)
(* length at most one: <<>> is a key the author left out.  A blank string  *)
(* is "".  The module holds no state: AttemptStages runs what Loaded(raw)  *)
(* says, while its properties judge a pass against `raw', the recipe the   *)
(* author wrote.                                                           *)
(***************************************************************************)
EXTENDS Integers, Sequences, FiniteSets, SequencesExt

SCHEMA_VERSION == 3
DEFAULT_MAX_ATTEMPTS == 3
DEFAULT_FUNDING_HBAR == 10
DEFAULT_PRD_PATH == "prd.md"
REMOVED_KEYS == {"contract", "extend", "logging", "skills"}
PACKAGE_MANAGERS == {"yarn", "npm", "pnpm"}
DEFAULT_SECRET_PATTERN ==
  [name |-> "private-key-assignment", pattern |-> "key", allowIn |-> {}]

\* Mirror transaction types the node records: an assertion on any other type
\* could never pass.
RECORDED_TRANSACTION_TYPES ==
  {"CRYPTOCREATEACCOUNT", "CRYPTOTRANSFER", "CRYPTODELETE",
   "CONSENSUSCREATETOPIC", "CONSENSUSSUBMITMESSAGE", "ETHEREUMTRANSACTION"}

ASSERTION_KINDS == {"account", "contract", "topic", "transactions", "rejections"}

Absent == <<>>
Present(option) == option # Absent
Optional(option) == option = Absent \/ option = <<option[1]>>
OrElse(option, default) == IF Present(option) THEN option[1] ELSE default

-----------------------------------------------------------------------------
(* The agent presets.                                                      *)

\* `mcp' is how the browser MCP server reaches the agent: a file of the
\* harness's own passed by flag, or a fixed file of the workspace.
AgentPreset ==
  [cursor |-> [command |-> "agent", mcp |-> "file",
               default_model |-> "composer", repair_model |-> "composer"],
   claude |-> [command |-> "claude", mcp |-> "flag",
               default_model |-> "opus", repair_model |-> "sonnet"]]

\* The preset's invocation: the generator may edit, the validator of claude is
\* given a read-only tool list.
PresetCommand(agent, validator) ==
  [command   |-> AgentPreset[agent].command,
   model     |-> AgentPreset[agent].default_model,
   edits     |-> ~validator \/ agent = "cursor",
   timeoutMs |-> <<3600000>>]

\* A blank `agent' is none.
AgentOf(raw) == IF raw.agent \in {Absent, <<"">>} THEN "claude" ELSE raw.agent[1]

Refuses_agent(raw) == AgentOf(raw) \notin DOMAIN AgentPreset

\* A recipe's own `generator:` block replaces the whole invocation: no model
\* flag, no timeout unless it names one.
ReadGenerator(raw) ==
  IF Present(raw.generator)
  THEN [command |-> raw.generator[1].command, model |-> "", edits |-> TRUE,
        timeoutMs |-> raw.generator[1].timeoutMs]
  ELSE PresetCommand(AgentOf(raw), FALSE)

\* `enabled: false` keeps a stub, so that the role is known to be off.
ReadValidator(raw) ==
  IF ~Present(raw.validator) THEN Absent
  ELSE LET v == raw.validator[1]
       IN <<[enabled |-> v.enabled,
             command |-> IF v.enabled /\ Present(v.command)
                         THEN [command |-> v.command[1], model |-> "",
                               edits |-> TRUE, timeoutMs |-> v.timeoutMs]
                         ELSE PresetCommand(AgentOf(raw), TRUE)]>>

validator_enabled(spec) == Present(spec.validator) /\ spec.validator[1].enabled

-----------------------------------------------------------------------------
(* Product documents.                                                      *)

\* `prd' is a list of paths, a scalar being a list of one.
PrdPaths(raw) == OrElse(raw.prd, <<DEFAULT_PRD_PATH>>)

Refuses_prd(raw) ==
  Present(raw.prd) /\ (raw.prd[1] = <<>> \/ "" \in Range(raw.prd[1]))

\* A list of evals must pair off with the PRDs; a scalar grades every one.
Refuses_eval(raw) ==
  /\ Present(raw.eval)
  /\ LET e == raw.eval[1]
     IN \/ e.paths = <<>>
        \/ "" \in Range(e.paths)
        \/ e.list /\ Len(e.paths) # Len(PrdPaths(raw))

EvalPaths(raw) == IF Present(raw.eval) THEN <<raw.eval[1].paths>> ELSE Absent

\* The PRD and the eval of increment `index' (from 0); an index past the end
\* clamps to the last PRD.
slice(spec, index) ==
  LET last == Len(spec.prd_paths) - 1
      i    == IF index > last THEN last ELSE index
      evals == OrElse(spec.eval_paths, <<>>)
  IN [prd  |-> spec.prd_paths[i + 1],
      eval |-> IF Len(evals) = 1 THEN <<evals[1]>>
               ELSE IF i < Len(evals) THEN <<evals[i + 1]>> ELSE Absent]

-----------------------------------------------------------------------------
(* Constraints, secrets, validators and baseline.                          *)

\* Every package manager but the project's own.
default_forbidden_commands(manager) ==
  {<<name, verb>> : name \in PACKAGE_MANAGERS \ Range(manager),
                    verb \in {"install", "run"}}

ReadConstraints(raw) ==
  [package_manager    |-> raw.constraints.packageManager,
   workspaces         |-> raw.constraints.workspaces,
   forbidden_commands |-> OrElse(raw.constraints.forbiddenCommands,
                            default_forbidden_commands(raw.constraints.packageManager))]

\* A path is the sequence of its parts.
default_secret_files(workspaces) ==
  {<<".env">>} \cup {<<ws, ".env">> : ws \in workspaces}

ReadForbiddenFiles(raw) ==
  OrElse(raw.forbiddenFiles, default_secret_files(raw.constraints.workspaces))

Refuses_secretScan(raw) ==
  /\ Present(raw.secretScan)
  /\ \E p \in OrElse(raw.secretScan[1].patterns, {}) : p.name = "" \/ p.pattern = ""

ReadSecretScan(raw) ==
  LET files == default_secret_files(raw.constraints.workspaces)
  IN IF Present(raw.secretScan)
     THEN [failOnFiles |-> OrElse(raw.secretScan[1].failOnFiles, files),
           patterns    |-> OrElse(raw.secretScan[1].patterns, {DEFAULT_SECRET_PATTERN})]
     ELSE [failOnFiles |-> files, patterns |-> {DEFAULT_SECRET_PATTERN}]

\* SMOKE is configured by a path; a key that is there and blank is an error.
Refuses_playwright(raw) == raw.playwright = <<"">>

\* A command is named, or (in a baseline) anonymous.
Refuses_baseline(raw) ==
  LET commands == OrElse(raw.baseline, <<>>)
  IN \/ \A i \in DOMAIN commands : commands[i].name # <<"install">>
     \/ \E i \in DOMAIN commands : commands[i].command = ""

Refuses_deploy(commands) ==
  \E i \in DOMAIN commands : ~Present(commands[i].name) \/ commands[i].command = ""

-----------------------------------------------------------------------------
(* Chain assertions.                                                       *)

\* An account is the run's signer, an entity id or an EVM address.
Refuses_ref(ref) == ref.kind \notin {"signer", "id", "evm"}

Negative(option)  == OrElse(option, 0) < 0
BelowOne(option)  == OrElse(option, 1) < 1

\* One assertion as written; `keys' is the set of kinds it names.
Refuses_assertion(a) ==
  \/ Cardinality(a.keys \cap ASSERTION_KINDS) # 1
  \/ "account" \in a.keys
       /\ \/ Refuses_ref(a.ref)
          \/ Negative(a.minBalanceHbar)
          \/ ~(Present(a.minBalanceHbar) \/ Present(a.exists) \/ Present(a.deleted))
  \/ "contract" \in a.keys
       /\ (a.ref.kind \notin {"created", "evm"} \/ a.event = <<"">> \/ BelowOne(a.atLeast))
  \/ "topic" \in a.keys
       /\ \/ a.ref.kind \notin {"created", "id"}
          \/ ~Present(a.atLeast)
          \/ Negative(a.atLeast)
  \/ "transactions" \in a.keys
       /\ \/ ~(Range(a.type) \subseteq RECORDED_TRANSACTION_TYPES /\ Present(a.type))
          \/ \E ref \in Range(a.payer) : Refuses_ref(ref)
          \/ BelowOne(a.atLeast)
  \/ "rejections" \in a.keys
       /\ \/ ~(Range(a.type) \subseteq RECORDED_TRANSACTION_TYPES)
          \/ \E ref \in Range(a.payer) : Refuses_ref(ref)
          \/ Negative(a.atMost)

\* The assertion with its defaults.
ReadAssertion(a) ==
  LET kind == CHOOSE k \in a.keys : TRUE
  IN [kind     |-> kind,
      ref      |-> a.ref,
      min      |-> a.minBalanceHbar,
      exists   |-> a.exists,
      deleted  |-> a.deleted,
      deployed |-> OrElse(a.deployed, TRUE),
      event    |-> a.event,
      type     |-> a.type,
      payer    |-> a.payer,
      at_least |-> OrElse(a.atLeast, 1),
      at_most  |-> OrElse(a.atMost, 0)]

ReadAssertions(list) == [i \in DOMAIN list |-> ReadAssertion(list[i])]

Refuses_assertions(list) == \E i \in DOMAIN list : Refuses_assertion(list[i])

-----------------------------------------------------------------------------
(* chainValidation.                                                        *)

\* The block that counts: one that is absent or says `enabled: false' is off.
ChainAsked(raw) == IF Present(raw.chain) /\ raw.chain[1].enabled THEN raw.chain ELSE Absent

Refuses_advance_time(option) == Negative(option)

Refuses_phase(phase) ==
  \/ Refuses_advance_time(phase.advance)
  \/ Refuses_deploy(phase.deploy)
  \/ Refuses_assertions(phase.assert)

ReadPhase(phase) ==
  [name       |-> phase.name,
   advance    |-> OrElse(phase.advance, 0),
   deploy     |-> phase.deploy,
   assertions |-> ReadAssertions(phase.assert)]

\* A consensus node is somebody else's: it makes sense on testnet only.
Refuses_node(c) ==
  /\ Present(c.node)
  /\ \/ c.network = "local"
     \/ c.node[1].address = ""
     \/ c.node[1].account.kind # "id"

(* Mutant: the assertions of the flat block are not looked at. *)
RefusesTestnetPhases(c) ==
  /\ c.network = "testnet"
  /\ \/ ~Present(c.operator)
     \/ Present(c.local)
     \/ c.phases # <<>>
     \/ OrElse(c.advance, 0) > 0

\* Testnet is not the in-process chain: nothing there can be asserted on, and
\* its clock cannot be moved.
Refuses_testnet(c) ==
  /\ c.network = "testnet"
  /\ \/ ~Present(c.operator)
     \/ Present(c.local)
     \/ c.assert # <<>>
     \/ c.phases # <<>>
     \/ OrElse(c.advance, 0) > 0

Refuses_chain(c) ==
  \/ c.network \notin {"testnet", "local"}
  \/ OrElse(c.fundingHbar, DEFAULT_FUNDING_HBAR) <= 0
  \/ Refuses_deploy(c.deploy)
  \/ Refuses_testnet(c)
  \/ Refuses_advance_time(c.advance)
  \/ Refuses_assertions(c.assert)
  \/ \E i \in DOMAIN c.phases : Refuses_phase(c.phases[i])
  \/ Refuses_node(c)

\* Whether any endpoint was pinned by the author decides if the ports may be
\* chosen freely (`hanvil validate').
ReadLocal(c) ==
  IF c.network = "local" THEN <<[pinned |-> OrElse(c.local, {}) # {}]>> ELSE Absent

ReadChain(c) ==
  [network              |-> c.network,
   local                |-> ReadLocal(c),
   funding_hbar         |-> OrElse(c.fundingHbar, DEFAULT_FUNDING_HBAR),
   sweep_back           |-> OrElse(c.sweepBack, TRUE),
   deploy               |-> c.deploy,
   snapshot_per_attempt |-> c.network = "local" /\ OrElse(c.snapshotPerAttempt, TRUE),
   advance              |-> OrElse(c.advance, 0),
   assertions           |-> ReadAssertions(c.assert),
   phases               |-> [i \in DOMAIN c.phases |-> ReadPhase(c.phases[i])],
   node                 |-> c.node]

-----------------------------------------------------------------------------
(* The whole recipe.                                                       *)

\* `maxAttempts' is read as a float and cast: a negative number saturates at 0.
MaxAttempts(raw) ==
  LET n == OrElse(raw.maxAttempts, DEFAULT_MAX_ATTEMPTS) IN IF n < 0 THEN 0 ELSE n

Refused(raw) ==
  \/ raw.schemaVersion # SCHEMA_VERSION
  \/ raw.keys \cap REMOVED_KEYS # {}
  \/ raw.name = ""
  \/ Refuses_agent(raw)
  \/ Refuses_prd(raw)
  \/ Refuses_eval(raw)
  \/ Refuses_baseline(raw)
  \/ Refuses_playwright(raw)
  \/ Refuses_secretScan(raw)
  \/ Present(raw.generator) /\ raw.generator[1].command = ""
  \/ Present(raw.validator) /\ raw.validator[1].enabled /\ raw.validator[1].command = <<"">>
  \/ \E c \in Range(ChainAsked(raw)) : Refuses_chain(c)

\* The recipe a run works from.
Loaded(raw) ==
  [prd_paths        |-> PrdPaths(raw),
   eval_paths       |-> EvalPaths(raw),
   agent            |-> AgentOf(raw),
   generator        |-> ReadGenerator(raw),
   validator        |-> ReadValidator(raw),
   constraints      |-> ReadConstraints(raw),
   playwright       |-> raw.playwright,
   required_files   |-> raw.requiredFiles,
   forbidden_files  |-> ReadForbiddenFiles(raw),
   secret_scan      |-> ReadSecretScan(raw),
   chain_validation |-> IF Present(ChainAsked(raw))
                        THEN <<ReadChain(ChainAsked(raw)[1])>> ELSE Absent,
   baseline         |-> OrElse(raw.baseline, <<>>),
   max_attempts     |-> MaxAttempts(raw)]
=============================================================================
