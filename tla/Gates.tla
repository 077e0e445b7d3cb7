-------------------------------- MODULE Gates --------------------------------
(***************************************************************************)
(* The decisions the harness takes between two agent sessions, as          *)
(* operators without state: what ASSERT, CHAIN, SMOKE and EVALUATE find in *)
(* a workspace, a chain, a page and a validator's reply; how findings move *)
(* from one attempt to the next; which repair prompt and which model       *)
(* follow.  harness/assert.rs, chain.rs, smoke.rs, evaluate.rs,            *)
(* findings.rs, prompt.rs, agent.rs and mcp.rs.                            *)
(*                                                                         *)
(* A finding is [id, category]; its message is left out.  An id is         *)
(* <<kind, names, number>>, names being the path, route or assertion the   *)
(* message formats into it.                                                *)
(***************************************************************************)
EXTENDS Recipe

Finding(kind, names, number, category) ==
  [id |-> <<kind, names, number>>, category |-> category]

finding_ids(findings) == {f.id : f \in findings}

-----------------------------------------------------------------------------
(* ASSERT.  A workspace is                                                 *)
(*   files     the paths that exist                                        *)
(*   json      file -> [broken, at: dotted path -> value]                  *)
(*   text      file -> the strings it contains                             *)
(*   leaks     file -> the secret patterns it matches                      *)
(*   manifest  what package.json and yarn.lock say                         *)
(*   failing   the commands that exit non-zero                             *)

is_ready_for_smoke(findings) == \A f \in findings : f.category = "agent"

required_files(ws, required) ==
  {Finding("required-file", p, 0, "files") : p \in required \ ws.files}

forbidden_files(ws, forbidden) ==
  {Finding("forbidden-file", p, 0, "files") : p \in forbidden \cap ws.files}

\* A value is [list, items]; an absent one is <<>>.  A scalar is accepted where
\* a list of one is expected.
values_equal(actual, expected) ==
  \/ actual = expected
  \/ /\ Present(actual) /\ Present(expected)
     /\ expected[1].list /\ Len(expected[1].items) = 1
     /\ actual[1].items = expected[1].items

\* A file that is not there is skipped, a file that does not parse is a finding.
json_assertions(ws, assertions) ==
  UNION {LET file == ws.json[a.file]
         IN IF file.broken
            THEN {Finding("json-parse", a.file, 0, "static")}
            ELSE IF values_equal(file.at[a.path], a.equals) THEN {}
                 ELSE {Finding("json", a.file \o <<a.path>>, 0, "static")}
         : a \in {b \in assertions : b.file \in DOMAIN ws.json}}

text_assertions(ws, assertions) ==
  {Finding("text-missing", a.file, 0, "static") :
     a \in {b \in assertions : b.file \notin DOMAIN ws.text}}
  \cup UNION {{Finding("text", a.file \o <<needle>>, 0, "static") :
                 needle \in a.contains \ ws.text[a.file]} :
              a \in {b \in assertions : b.file \in DOMAIN ws.text}}

scan_secrets(ws, scan) ==
  {Finding("secret-file", p, 0, "secret") : p \in scan.failOnFiles \cap ws.files}
  \cup UNION {{Finding("secret-pattern", file \o <<p.name>>, 0, "secret") :
                 p \in {q \in scan.patterns : /\ file \notin q.allowIn
                                              /\ q.pattern \in ws.leaks[file]}} :
              file \in DOMAIN ws.leaks}

static_config(ws, config) ==
  json_assertions(ws, config.jsonAssertions)
  \cup {Finding("static-required", p, 0, "static") : p \in config.required \ ws.files}
  \cup {Finding("static-forbidden", p, 0, "static") : p \in config.forbidden \cap ws.files}
  \cup text_assertions(ws, config.textAssertions)
  \cup UNION {scan_secrets(ws, s) : s \in Range(config.secretScan)}

\* sha256 over the manifests.
install_fingerprint(ws) == <<ws.manifest>>

\* The validator commands, one after the other.  `install' is skipped when the
\* manifests are those of its last success, and only its success moves the cache.
commands(ws, names, cache) ==
  LET ran == Range(names) \ {n \in {"install"} : cache = install_fingerprint(ws)}
  IN [findings |-> {Finding("command", <<n>>, 0, "commands") : n \in ran \cap ws.failing},
      cache    |-> IF "install" \in ran \ ws.failing THEN install_fingerprint(ws) ELSE cache]

\* A validator config that is not there stops the run.
assert_errs(config) == ~Present(config.static) \/ ~Present(config.commands)

assert_run(ws, spec, config, cache) ==
  LET ran == commands(ws, config.commands[1], cache)
  IN [findings |-> required_files(ws, spec.required_files)
                     \cup forbidden_files(ws, spec.forbidden_files)
                     \cup static_config(ws, config.static[1])
                     \cup scan_secrets(ws, spec.secret_scan)
                     \cup ran.findings,
      cache    |-> ran.cache]

-----------------------------------------------------------------------------
(* CHAIN.  The chain an attempt sees is the sequence of its transactions,  *)
(* [kind, hapi, payer, from, entity, event, result]; those after position  *)
(* `mark' are the attempt's.  An ETHEREUMTRANSACTION is in a block, as its *)
(* sender `from' signed it, and when it came over HAPI (`hapi') also in a  *)
(* record, with the payer who sent it in.  result is "success", "failed"   *)
(* or "refused"; a refused one has no record on any network, so that only  *)
(* `rejections' sees it.                                                   *)

GENESIS_ACCOUNTS == {"signer", "operator"}
GENESIS_HBAR == 10

Done(chain, kind) ==
  SelectSeq(chain, LAMBDA tx : tx.kind = kind /\ tx.result = "success")

EntitiesOf(chain, kind) == {tx.entity : tx \in Range(Done(chain, kind))}

Since(chain, mark) == SubSeq(chain, mark + 1, Len(chain))

account_exists(chain, name) ==
  name \in GENESIS_ACCOUNTS \cup EntitiesOf(chain, "CRYPTOCREATEACCOUNT")

account_deleted(chain, name) == name \in EntitiesOf(chain, "CRYPTODELETE")

account_balance(chain, name) ==
  GENESIS_HBAR - Len(SelectSeq(chain, LAMBDA tx : /\ tx.kind = "CRYPTOTRANSFER"
                                                  /\ tx.result = "success"
                                                  /\ tx.entity = name))

check_account(chain, a) ==
  IF a.exists = <<FALSE>> THEN ~account_exists(chain, a.ref.name)
  ELSE /\ account_exists(chain, a.ref.name)
       /\ Present(a.deleted) => account_deleted(chain, a.ref.name) = a.deleted[1]
       /\ Present(a.min) => account_balance(chain, a.ref.name) >= a.min[1]

\* `created' is the newest topic of the whole chain, not of the attempt.
check_topic(chain, a) ==
  LET created == Done(chain, "CONSENSUSCREATETOPIC")
      topic   == IF a.ref.kind = "created" THEN Last(created).entity ELSE a.ref.name
  IN /\ created # <<>>
     /\ topic \in EntitiesOf(chain, "CONSENSUSCREATETOPIC")
     /\ Len(SelectSeq(Done(chain, "CONSENSUSSUBMITMESSAGE"),
                      LAMBDA tx : tx.entity = topic)) >= a.at_least

check_contract(chain, mark, a) ==
  LET deploys == SelectSeq(Done(chain, "ETHEREUMTRANSACTION"), LAMBDA tx : tx.event = "")
      address == IF a.ref.kind # "created" THEN a.ref.name
                 ELSE IF deploys = <<>> THEN "" ELSE Last(deploys).entity
      code    == address \in {tx.entity : tx \in Range(deploys)}
  IN /\ a.ref.kind = "created" => deploys # <<>>
     /\ code = a.deployed
     /\ Present(a.event) =>
          Len(SelectSeq(Done(Since(chain, mark), "ETHEREUMTRANSACTION"),
                        LAMBDA tx : tx.entity = address /\ tx.event = a.event[1]))
            >= a.at_least

\* A payer that resolves to no account does not filter.
\* Records are counted and, for ETHEREUMTRANSACTION, blocks as well, so that one
\* which came over HAPI counts twice.
check_transactions(chain, mark, a) ==
  LET done       == Done(Since(chain, mark), a.type[1])
      paid(who)  == \A p \in Range(a.payer) : account_exists(chain, p.name) => who = p.name
      in_records == SelectSeq(done, LAMBDA tx : tx.hapi /\ paid(tx.payer))
      in_blocks  == SelectSeq(done, LAMBDA tx : tx.kind = "ETHEREUMTRANSACTION" /\ paid(tx.from))
  IN Len(in_records) + Len(in_blocks) >= a.at_least

\* The ledger names a payer by its entity id, the recipe by what it wrote: a
\* payer given as the EVM address of an account matches no row.
check_rejections(chain, ledger, a) ==
  Len(SelectSeq(ledger,
        LAMBDA tx : /\ tx.result = "refused"
                    /\ tx.kind \in Range(a.type) \/ ~Present(a.type)
                    /\ \A p \in Range(a.payer) :
                         tx.payer = p.name /\ (p.kind = "evm" => ~account_exists(chain, p.name))))
    <= a.at_most

assertion_holds(chain, mark, a) ==
  CASE a.kind = "account"      -> check_account(chain, a)
    [] a.kind = "contract"     -> check_contract(chain, mark, a)
    [] a.kind = "topic"        -> check_topic(chain, a)
    [] a.kind = "transactions" -> check_transactions(chain, mark, a)
    [] a.kind = "rejections"   -> check_rejections(chain, Since(chain, mark), a)

run_assertions(chain, mark, assertions, index_offset) ==
  {Finding("chain", <<assertions[i].kind>>, i - 1 + index_offset, "chain") :
     i \in {j \in DOMAIN assertions : ~assertion_holds(chain, mark, assertions[j])}}

-----------------------------------------------------------------------------
(* SMOKE.  A gate file is [server, routes, minBodyTextLength,              *)
(* failOnConsoleError, visibleText], server when it has command and url; a *)
(* page is [loads, status, text, errors, words]: what the browser gets     *)
(* from a route.  `tool' is how the tooling fares: "ok", "dead" when the   *)
(* browser cannot be spawned or launched, "blind" when calls inside the    *)
(* page fail, "gone" when the dev server exits under the page.             *)

DEFAULT_MIN_BODY_TEXT_LENGTH == 20

\* <<>> when the file does not read, names no server or no route.
load_gate_config(file) ==
  IF ~Present(file) \/ ~file[1].server \/ file[1].routes = {} THEN <<>>
  ELSE <<[routes    |-> file[1].routes,
          min_text  |-> OrElse(file[1].minBodyTextLength, DEFAULT_MIN_BODY_TEXT_LENGTH),
          console   |-> OrElse(file[1].failOnConsoleError, TRUE),
          forbidden |-> file[1].visibleText]>>

\* A call inside the page that fails reads as no status, no text, no forbidden
\* word and no console error.
evaluates(tool) == tool \in {"ok", "gone"}

read_status(page, tool) == IF page.loads /\ evaluates(tool) THEN page.status ELSE 0

\* The poll ends with text enough, at its deadline, or with the dev server.
wait_for_body_text(gate, page, tool) ==
  CASE tool = "gone" -> "exited"
    [] tool = "ok" /\ page.text >= gate.min_text -> "rendered"
    [] OTHER -> "empty"

forbidden_text_found(gate, page, tool) ==
  IF evaluates(tool) THEN gate.forbidden \cap page.words ELSE {}

console_errors(page, tool) == IF evaluates(tool) THEN page.errors ELSE 0

\* A page that did not load is read all the same, for words and errors.
check_route(gate, route, page, tool) ==
  LET waited  == IF page.loads THEN wait_for_body_text(gate, page, tool) ELSE "exited"
      F(kind) == {Finding("playwright:route", <<route, kind>>, 0, "playwright")}
  IN (IF waited = "exited" THEN F("navigation") ELSE {})
     \cup (IF read_status(page, tool) >= 400 THEN F("status") ELSE {})
     \cup (IF waited = "rendered" THEN {} ELSE F("render"))
     \cup (IF gate.console /\ console_errors(page, tool) > 0 THEN F("console") ELSE {})
     \cup UNION {F(word) : word \in forbidden_text_found(gate, page, tool)}

run_gate(gate, pages, tool) ==
  IF tool = "dead" THEN {Finding("playwright:gate", <<>>, 0, "playwright")}
  ELSE UNION {check_route(gate, route, pages[route], tool) : route \in gate.routes}

-----------------------------------------------------------------------------
(* EVALUATE.  A reply of the validator is [kind, passed, issues, summary]: *)
(* kind is "runtime" (it could not be run), "exit", "prose" (no verdict in *)
(* it) or "verdict"; an issue is [id, well_formed, browser, infra], infra  *)
(* when its text matches one of the infrastructure patterns, browser when  *)
(* it speaks of the browser.                                               *)

\* A malformed issue is dropped, not fatal.
normalise_issues(issues) == {i \in issues : i.well_formed}

issue_finding(issue) == Finding("eval", <<issue.id>>, 0, "eval")

verdict_findings(passed, issues) ==
  LET all == {issue_finding(i) : i \in issues}
  IN CASE ~passed /\ all = {} -> {Finding("validator-empty-issues", <<>>, 0, "eval")}
       [] passed /\ all # {}  -> all \cup {Finding("validator-inconsistent", <<>>, 0, "eval")}
       [] OTHER               -> all

INFRA_FINDING_ID_PREFIXES ==
  {"validator-config", "validator-runtime", "validator-exit",
   "validator-output-unparseable", "validator-empty-issues"}

is_explicit_infra_id(id) == id[1] \in INFRA_FINDING_ID_PREFIXES

\* At least four fifths of three or more issues speak of the browser, or any
\* infrastructure pattern matches.
looks_like_browser_access_blocked(issues) ==
  \/ /\ Cardinality(issues) >= 3
     /\ 5 * Cardinality({i \in issues : i.browser}) >= 4 * Cardinality(issues)
  \/ \E i \in issues : i.infra

detect_infrastructure_failure(passed, findings, issues) ==
  /\ ~passed
  /\ \/ \E f \in findings : is_explicit_infra_id(f.id)
     \/ looks_like_browser_access_blocked(issues) /\ \E i \in issues : i.infra

\* An evaluation that failed for want of tooling has its findings put in a
\* category of their own, which the repair prompt leaves out.
annotate_infrastructure_failure(passed, findings, issues) ==
  LET infra == detect_infrastructure_failure(passed, findings, issues)
  IN [passed   |-> passed,
      infra    |-> infra,
      findings |-> {IF infra /\ f.category = "eval"
                    THEN [f EXCEPT !.category = "eval-infra"] ELSE f : f \in findings}]

\* The agent that judges did not come to a verdict.
failure(kind, n) ==
  annotate_infrastructure_failure(FALSE, {Finding(kind, <<>>, n, "eval")}, {})

\* A pass has to be said and to be without issues.
judge_verdict(reply) ==
  LET issues   == normalise_issues(reply.issues)
      findings == verdict_findings(reply.passed, issues)
  IN annotate_infrastructure_failure(reply.passed /\ findings = {}, findings, issues)

\* Each way the validator can end; `attempt' is part of the exit finding's id.
evaluate_run(reply, attempt) ==
  CASE reply.kind = "runtime" -> failure("validator-runtime", 0)
    [] reply.kind = "exit"    -> failure("validator-exit", attempt)
    [] reply.kind = "prose"   -> failure("validator-output-unparseable", 0)
    [] reply.kind = "verdict" -> judge_verdict(reply)

-----------------------------------------------------------------------------
(* From one attempt to the next.                                           *)

\* Before any attempt ran.
not_run_yet ==
  [passed |-> FALSE, findings |-> {Finding("generator-not-run", <<>>, 0, "agent")}]

compute_delta(previous_open, findings) ==
  LET open == finding_ids(findings)
  IN [open       |-> open,
      fixed      |-> previous_open \ open,
      introduced |-> open \ previous_open]

\* What fails now is open; what the last attempt had and this one has not is
\* surfaced once more, as fixed.
apply_status(findings, delta, previous) ==
  {[finding |-> f, status |-> "open"] : f \in findings}
  \cup {[finding |-> p.finding, status |-> "fixed"] :
          p \in {q \in previous : q.finding.id \in delta.fixed}}

Open(statuses) == {s.finding : s \in {t \in statuses : t.status = "open"}}

\* The first attempt of a cycle gets the strong model, a repair the cheap one,
\* unless the repair before it fixed nothing.
select_model(agent, attempts_this_cycle, fixed_count) ==
  CASE attempts_this_cycle = 1 ->
         [model |-> AgentPreset[agent].default_model, reason |-> "first-attempt"]
    [] attempts_this_cycle > 1 /\ fixed_count = 0 ->
         [model |-> AgentPreset[agent].default_model, reason |-> "escalated"]
    [] OTHER ->
         [model |-> AgentPreset[agent].repair_model, reason |-> "repair"]

\* A generator of the recipe's own carries no model flag and is left alone.
with_model(command, model) ==
  IF command.model = "" THEN command ELSE [command EXCEPT !.model = model]

(* Mutant: a missing file counts as a failure of the running app. *)
ScopeWithFiles(findings) ==
  LET categories == {f.category : f \in findings} \ {"eval-infra"}
  IN CASE categories = {"eval"} -> "eval-scoped"
       [] /\ categories \subseteq {"files", "commands", "playwright", "eval", "chain"}
          /\ categories \ {"eval"} # {} -> "runtime"
       [] OTHER -> "broad"

classify_repair_scope(findings) ==
  LET categories == {f.category : f \in findings} \ {"eval-infra"}
  IN CASE categories = {"eval"} -> "eval-scoped"
       [] /\ categories \subseteq {"commands", "playwright", "eval", "chain"}
          /\ categories \ {"eval"} # {} -> "runtime"
       [] OTHER -> "broad"

\* The evidence given with a repair: the findings that are not the tooling's
\* own, the ledger when it has a row, and the refusals the attempt before made
\* too.
build_repair_prompt(findings, attempt, chain_reset, ledger, repeated) ==
  LET actionable == {f \in findings : f.category # "eval-infra"}
  IN [kind     |-> "repair",
      attempt  |-> attempt,
      scope    |-> classify_repair_scope(actionable),
      findings |-> actionable,
      reset    |-> chain_reset,
      ledger   |-> ledger,
      repeated |-> repeated]

build_session_prompt(spec, index) ==
  [kind |-> "session", attempt |-> 1, scope |-> slice(spec, index).prd,
   findings |-> {}, reset |-> FALSE, ledger |-> <<>>, repeated |-> {}]

build_continue_prompt(cycle) ==
  [kind |-> "continue", attempt |-> cycle, scope |-> "",
   findings |-> {}, reset |-> FALSE, ledger |-> <<>>, repeated |-> {}]

\* What was refused in both attempts, by kind and reason; a refused transaction
\* carries the reason in its `event'.
repeated_from(now, before) ==
  LET refused(ledger) == {<<tx.kind, tx.event>> :
                            tx \in {t \in Range(ledger) : t.result = "refused"}}
  IN refused(now) \cap refused(before)

-----------------------------------------------------------------------------
(* The MCP file of the workspace.  It is <<>> when there is none, or       *)
(* <<[json, servers]>>; a server is [name, ours], ours when it carries the *)
(* pin and the marker the harness writes.                                  *)

HarnessServer == [name |-> "playwright", ours |-> TRUE]

\* The harness's entry is merged in under its name; a file that is not JSON is
\* written over.
mcp_install(file) ==
  LET servers == IF Present(file) /\ file[1].json THEN file[1].servers ELSE {}
  IN <<[json    |-> TRUE,
        servers |-> {s \in servers : s.name # "playwright"} \cup {HarnessServer}]>>

(* Mutant: the entry goes only with a file that held nothing else. *)
StripWholeFile(file) ==
  IF Present(file) /\ file[1].json /\ file[1].servers = {HarnessServer} THEN <<>> ELSE file

\* The strip of the cleanup: the harness's own entry goes, and with it a file
\* that held nothing else.
strip_harness_entry(file) ==
  IF ~(Present(file) /\ file[1].json /\ HarnessServer \in file[1].servers) THEN file
  ELSE IF file[1].servers = {HarnessServer} THEN <<>>
  ELSE <<[file[1] EXCEPT !.servers = @ \ {HarnessServer}]>>
=============================================================================
