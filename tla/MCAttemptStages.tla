-------------------------- MODULE MCAttemptStages --------------------------
(***************************************************************************)
(* Instances of AttemptStages and Validate for TLC.                        *)
(***************************************************************************)
EXTENDS Validate

Command(name) == [name |-> <<name>>, command |-> "yarn"]

Plain ==
  [schemaVersion |-> 3, keys |-> {"name"}, name |-> "app", agent |-> <<>>,
   prd |-> <<>>, eval |-> <<>>, generator |-> <<>>, validator |-> <<>>,
   constraints |-> [packageManager |-> <<"yarn">>, workspaces |-> {"web"},
                    forbiddenCommands |-> <<>>],
   playwright |-> <<>>, requiredFiles |-> {<<"app">>}, forbiddenFiles |-> <<>>,
   secretScan |-> <<>>, baseline |-> <<<<Command("install")>>>>, chain |-> <<>>,
   maxAttempts |-> <<2>>]

Chain ==
  [enabled |-> TRUE, network |-> "local", operator |-> <<>>, local |-> <<>>,
   fundingHbar |-> <<>>, sweepBack |-> <<>>, deploy |-> <<>>, snapshotPerAttempt |-> <<>>,
   advance |-> <<>>, assert |-> <<>>, phases |-> <<>>, node |-> <<>>]

NoRef == [kind |-> "none", name |-> ""]
Asserting(kind) ==
  [keys |-> {kind}, ref |-> NoRef, minBalanceHbar |-> <<>>, exists |-> <<>>,
   deleted |-> <<>>, deployed |-> <<>>, event |-> <<>>, type |-> <<>>, payer |-> <<>>,
   atLeast |-> <<>>, atMost |-> <<>>]

Message  == [Asserting("topic") EXCEPT !.ref = [kind |-> "created", name |-> ""],
                                       !.atLeast = <<1>>]
NoRefusal == [Asserting("rejections") EXCEPT
                !.payer = <<[kind |-> "signer", name |-> "signer"]>>]
Called   == [Asserting("transactions") EXCEPT
               !.type = <<"ETHEREUMTRANSACTION">>, !.atLeast = <<2>>]
Funded   == [Asserting("account") EXCEPT !.ref = [kind |-> "signer", name |-> "signer"],
                                         !.minBalanceHbar = <<10>>]
Validator == <<[enabled |-> TRUE, command |-> <<>>, timeoutMs |-> <<>>]>>
Checklist == <<[list |-> FALSE, paths |-> <<"eval">>]>>

\* A recipe with everything: two sets of assertions with the clock moved before
\* each, the browser gate and the validator, under the preset that is handed the
\* MCP server by file.
Full ==
  [Plain EXCEPT !.agent = <<"cursor">>, !.playwright = <<"gate">>, !.eval = Checklist,
     !.validator = Validator,
     !.chain = <<[Chain EXCEPT !.advance = <<1>>, !.deploy = <<Command("deploy")>>,
                    !.assert = <<NoRefusal>>,
                    !.phases = <<[name |-> <<>>, advance |-> <<2>>, deploy |-> <<>>,
                                  assert |-> <<Message>>]>>]>>]

\* The preset that is handed the MCP server by flag, the one a blank `agent' means,
\* without a snapshot.
Flagged ==
  [Plain EXCEPT !.agent = <<"">>, !.playwright = <<"gate">>, !.eval = Checklist,
     !.validator = Validator,
     !.chain = <<[Chain EXCEPT !.snapshotPerAttempt = <<FALSE>>, !.assert = <<Funded, Called>>]>>]

Testnet ==
  [Plain EXCEPT !.chain = <<[Chain EXCEPT !.network = "testnet", !.operator = <<"op">>,
                               !.deploy = <<Command("deploy")>>]>>]

Config == [static |-> <<[jsonAssertions |-> {[file |-> <<"package">>, path |-> "name",
                                             equals |-> <<[list |-> TRUE, items |-> <<"app">>]>>]},
                         required |-> {<<"readme">>}, forbidden |-> {},
                         textAssertions |-> {[file |-> <<"readme">>, contains |-> {"hbar"}]},
                         secretScan |-> <<>>]>>,
           commands |-> <<<<"install", "build">>>>,
           gate |-> <<[server |-> TRUE, routes |-> {"home"}, minBodyTextLength |-> <<>>,
                       failOnConsoleError |-> <<>>, visibleText |-> {"Lorem"}]>>]

Page == [loads |-> TRUE, status |-> 200, text |-> 20, errors |-> 0, words |-> {}]
Good ==
  [files |-> {<<"app">>, <<"readme">>},
   json  |-> [f \in {<<"package">>} |->
                [broken |-> FALSE,
                 at |-> [p \in {"name"} |-> <<[list |-> FALSE, items |-> <<"app">>]>>]]],
   text  |-> [f \in {<<"readme">>} |-> {"hbar"}],
   leaks |-> [f \in {<<"app">>} |-> {}],
   manifest |-> "A", failing |-> {}, pages |-> [r \in {"home"} |-> Page]]

MCWorkspaces ==
  {Good,
   [Good EXCEPT !.files = {<<"readme">>}],
   [Good EXCEPT !.manifest = "B", !.failing = {"install"},
                !.leaks = [f \in {<<"app">>} |-> {"key"}]],
   [Good EXCEPT !.pages = [r \in {"home"} |-> [Page EXCEPT !.errors = 1, !.words = {"Lorem"}]]]}

Issue == [id |-> "e1", well_formed |-> TRUE, browser |-> FALSE, infra |-> FALSE]
Verdict(passed, issues) == [kind |-> "verdict", passed |-> passed, issues |-> issues]
MCReplies ==
  {Verdict(TRUE, {}), Verdict(FALSE, {Issue}), Verdict(TRUE, {Issue}), Verdict(FALSE, {}),
   Verdict(FALSE, {[Issue EXCEPT !.infra = TRUE]}),
   [kind |-> "prose", passed |-> FALSE, issues |-> {}],
   [kind |-> "exit", passed |-> FALSE, issues |-> {}]}

Submit(result) ==
  [kind |-> "CONSENSUSSUBMITMESSAGE", hapi |-> TRUE, payer |-> "signer", from |-> "", entity |-> "topic",
   event |-> IF result = "refused" THEN "INVALID_SIGNATURE" ELSE "", result |-> result]
Create == [kind |-> "CONSENSUSCREATETOPIC", hapi |-> TRUE, payer |-> "signer", from |-> "",
           entity |-> "topic", event |-> "", result |-> "success"]
Relayed == [kind |-> "ETHEREUMTRANSACTION", hapi |-> TRUE, payer |-> "operator", from |-> "signer",
            entity |-> "app", event |-> "called", result |-> "success"]
MCTxs == {Submit("success"), Submit("refused"), Create, Relayed}

MCTools == {"ok", "blind", "gone"}

Own(name) == [name |-> name, ours |-> FALSE]
UsersFile == <<[json |-> TRUE, servers |-> {Own("playwright"), Own("docs")}]>>
JunkFile  == <<[json |-> FALSE, servers |-> {}]>>
\* What a validation that was killed left in the workspace.
LeftFile  == <<[json |-> TRUE, servers |-> {HarnessServer, Own("docs")}]>>

FirstCycle  == [continue |-> FALSE, cycle |-> 1, starting |-> 1, open |-> {}]
SecondCycle == [continue |-> TRUE, cycle |-> 2, starting |-> 3,
                open |-> {<<"eval", <<"e1">>, 0>>}]

Setup == [command |-> "run", raw |-> Plain, config |-> Config, cycle |-> FirstCycle, ws |-> Good, mcp |-> <<>>]

NoRoutes == <<[Config.gate[1] EXCEPT !.routes = {}]>>

\* The two validations, on every workspace an agent may have left.
ValidateSetups ==
  {[Setup EXCEPT !.command = c, !.raw = r, !.ws = w, !.mcp = UsersFile] :
     c \in {"validate", "validate-semantic"}, r \in {Full, Testnet, Plain}, w \in MCWorkspaces}
  \cup {[Setup EXCEPT !.command = c, !.raw = Flagged, !.config.gate = g] :
          c \in {"validate", "validate-semantic"}, g \in {<<>>, Config.gate, NoRoutes}}
  \cup {[Setup EXCEPT !.command = c, !.raw.baseline = <<>>] :
          c \in {"validate", "validate-semantic"}}
  \cup {[Setup EXCEPT !.command = "validate", !.config.commands = <<>>]}

MCSetups ==
  {[Setup EXCEPT !.raw = Full, !.mcp = UsersFile],
   [Setup EXCEPT !.raw = Full, !.mcp = JunkFile, !.cycle = SecondCycle,
                 !.raw.maxAttempts = <<1>>],
   [Setup EXCEPT !.raw = Full, !.mcp = LeftFile, !.raw.maxAttempts = <<1>>],
   [Setup EXCEPT !.raw = Flagged],
   [Setup EXCEPT !.raw = Testnet],
   Setup,
   \* switched off, and never asked to attempt anything
   [Setup EXCEPT !.raw = Full, !.raw.chain[1].enabled = FALSE,
                 !.raw.validator[1].enabled = FALSE],
   [Setup EXCEPT !.raw.maxAttempts = <<-1>>],
   \* refused at load
   [Setup EXCEPT !.raw = Testnet, !.raw.chain[1].assert = <<NoRefusal>>],
   [Setup EXCEPT !.raw.baseline = <<>>],
   \* files the recipe points at that are not there
   [Setup EXCEPT !.config.commands = <<>>],
   [Setup EXCEPT !.raw = Flagged, !.config.gate = <<>>]}
  \cup ValidateSetups
=============================================================================
