------------------------ MODULE AttemptStagesProofs ------------------------
(***************************************************************************)
(* Proofs about AttemptStages and Validate: for every recipe, workspace,   *)
(* agent, browser and validator, `hanvil run' and both validations keep    *)
(* the properties their runs check.                                        *)
(***************************************************************************)
EXTENDS Validate, TLAPS

-----------------------------------------------------------------------------
(* What is left behind.                                                    *)

Browsing == {"smoke", "deliver", "evaluate", "stop"}
Ending   == {"cleanup", "report", "over"}
Verdicts == {"passed", "failed", "aborted"}

\* Which stages a command has, and what the outcome is meanwhile.
Course ==
  /\ command \in {"run", "validate", "validate-semantic"}
  /\ command = "run" => stage \notin {"boot", "report"}
  /\ command = "validate" => stage \notin {"begin", "generate", "boot", "deliver", "evaluate"}
  /\ command = "validate-semantic" =>
       stage \notin {"begin", "generate", "assert", "deploy", "chain", "smoke"}
  /\ stage \notin Ending => outcome = "running"
  /\ stage = "cleanup" => outcome \in {"error", "interrupted"} \cup Verdicts
  /\ stage = "cleanup" /\ command # "run" => outcome = "error"
  /\ stage = "report" => outcome \in {"running", "error"}
  /\ stage = "over" => outcome # "running"
  /\ outcome = "killed" => stage = "over"
  /\ stage \notin {"load", "over"} => ~Refused(raw)

\* A server runs while the browser stages do.
ServerStops == server \in {"down", "up"} /\ (server = "up" => stage \in Browsing \/ outcome = "killed")

\* A failure on the way out of the browser stages, and nowhere else.
FaultLeaves ==
  /\ fault \in BOOLEAN
  /\ fault => stage = "stop" \/ (stage \in Ending /\ outcome \in {"error", "killed"})

\* The MCP file is the user's, or the one installed while the validator works;
\* only what broke a run off leaves that one to the cleanup.
Lent ==
  \/ given = <<>> /\ mcp = own
  \/ given = <<own>> /\ mcp = mcp_install(own)

FileIsLent ==
  /\ stage # "over" \/ command # "run" => Lent
  /\ given # <<>> => \/ stage = "evaluate"
                     \/ stage = "stop" /\ fault /\ command = "run"
                     \/ stage \in {"cleanup", "over"} /\ command = "run"
                          /\ outcome \in {"error", "interrupted"}
                     \/ outcome = "killed"

KeyIsSwept ==
  /\ key \in BOOLEAN
  /\ key => /\ command # "run" /\ stage \notin {"load", "assert", "report"}
            /\ stage = "over" => \/ outcome = "killed"
                                 \/ command = "validate-semantic" /\ outcome = "error"

Tidy == Course /\ ServerStops /\ FaultLeaves /\ FileIsLent /\ KeyIsSwept /\ NothingLeftBehind

\* What a command starts with stays.
Started ==
  \E s \in Setups : /\ command = s.command /\ raw = s.raw /\ config = s.config
                    /\ cycle = s.cycle /\ own = s.mcp

\* The user's own MCP file, as it is read.
OwnIsTyped ==
  /\ own = Absent \/ own = <<[json |-> own[1].json, servers |-> own[1].servers]>>
  /\ \A f \in Range(own) : f.json \in BOOLEAN

LEMMA OwnTyped == Started => OwnIsTyped
BY SetupsAreTyped DEF Started, OwnIsTyped

\* What the cleanup makes of the file, lent or given back.
LEMMA Stripped ==
  ASSUME OwnIsTyped, NEW file, file \in {own, mcp_install(own)}
  PROVE  \A f \in Range(strip_harness_entry(file)) : f.json => HarnessServer \notin f.servers
<1> DEFINE g == strip_harness_entry(file)
<1>1. file = <<>> \/ file = <<[json |-> file[1].json, servers |-> file[1].servers]>>
  BY DEF OwnIsTyped, mcp_install, Absent
<1>2. CASE file = <<>>
  BY <1>2 DEF strip_harness_entry, Present, Absent, Range
<1>3. CASE file = <<[json |-> file[1].json, servers |-> file[1].servers]>>
  <2>1. Range(file) = {file[1]} /\ file # <<>>
    BY <1>3 DEF Range
  <2>2. CASE ~(file[1].json /\ HarnessServer \in file[1].servers)
    BY <2>1, <2>2 DEF strip_harness_entry
  <2>3. CASE file[1].servers = {HarnessServer} /\ ~(~(file[1].json /\ HarnessServer \in file[1].servers))
    BY <2>1, <2>3 DEF strip_harness_entry, Range, Present, Absent
  <2>4. CASE file[1].servers # {HarnessServer} /\ ~(~(file[1].json /\ HarnessServer \in file[1].servers))
    <3>1. g = <<[json |-> file[1].json, servers |-> file[1].servers \ {HarnessServer}]>>
      <4>1. g = <<[file[1] EXCEPT !.servers = file[1].servers \ {HarnessServer}]>>
        BY <2>1, <2>4 DEF strip_harness_entry, Present, Absent
      <4>2. \A j, v, w : [[json |-> j, servers |-> v] EXCEPT !.servers = w] = [json |-> j, servers |-> w]
        OBVIOUS
      <4>3. file[1] = [json |-> file[1].json, servers |-> file[1].servers]
        BY <1>3
      <4> HIDE DEF g
      <4> QED
        BY <4>1, <4>2, <4>3
    <3>2. Range(g) = {[json |-> file[1].json, servers |-> file[1].servers \ {HarnessServer}]}
      BY SMTT(120), <3>1 DEF Range
    <3> QED
      BY <3>2
  <2> QED
    BY <2>2, <2>3, <2>4
<1> QED
  BY <1>1, <1>2, <1>3

LEMMA TidyBegins == Init => Tidy /\ Started
<1> SUFFICES ASSUME Init PROVE Tidy /\ Started
  OBVIOUS
<1>1. Started
  BY DEF Init, Started
<1>2. Course
  BY <1>1, SetupsAreTyped DEF Init, Course, Started, Ending
<1> QED
  BY <1>1, <1>2 DEF Init, Tidy, ServerStops, FaultLeaves, FileIsLent, Lent, KeyIsSwept, NothingLeftBehind, Browsing, Ending

\* Every step of a command leaves the workspace tidy or to be tidied.
LEMMA TidyKept ==
  ASSUME Tidy, OwnIsTyped, [CommandNext]_vars
  PROVE  Tidy'
<1> USE DEF Tidy, Course, ServerStops, FaultLeaves, FileIsLent, Lent, KeyIsSwept, NothingLeftBehind,
            Browsing, Ending, Verdicts, still, tooling, setup, loop
<1>1. CASE command = "run" /\ Load
  BY <1>1 DEF Load
<1>2. CASE command = "run" /\ BeginAttempt
  BY <1>2 DEF BeginAttempt
<1>3. CASE command = "run" /\ NoAttempt
  BY <1>3 DEF NoAttempt
<1>4. CASE command = "run" /\ Generate
  BY <1>4 DEF Generate
<1>5. CASE AssertStage
  BY <1>5 DEF AssertStage, AfterChain
<1>6. CASE AssertErrs
  BY <1>6 DEF AssertErrs, Fail
<1>7. CASE ChainDeploy
  BY <1>7 DEF ChainDeploy, AfterChain
<1>8. CASE ChainAssert
  BY <1>8 DEF ChainAssert, AfterChain
<1>9. CASE command # "validate-semantic" /\ StartServer
  BY <1>9 DEF StartServer, Fail
<1>10. CASE Smoke
  BY <1>10 DEF Smoke, RunEvaluate
<1>11. CASE DeliverMcp
  <2>1. PICK written \in BOOLEAN :
          IF ~written
          THEN fault' = TRUE /\ stage' = "stop" /\ UNCHANGED <<mcp, given>>
          ELSE /\ \/ mcp' = mcp_install(mcp) /\ given' = <<mcp>>
                  \/ UNCHANGED <<mcp, given>>
               /\ stage' = "evaluate" /\ UNCHANGED fault
    BY <1>11 DEF DeliverMcp
  <2>2. stage = "deliver" /\ UNCHANGED <<command, raw, outcome, server, key, own>>
    BY <1>11 DEF DeliverMcp
  <2>3. given = <<>> /\ mcp = own /\ outcome = "running" /\ ~fault /\ ~Refused(raw)
    BY <2>2
  <2>4. FileIsLent'
    BY <2>1, <2>2, <2>3
  <2>5. NothingLeftBehind' /\ Course' /\ ServerStops' /\ FaultLeaves' /\ KeyIsSwept'
    BY <2>1, <2>2, <2>3
  <2> QED
    BY <2>4, <2>5
<1>12. CASE command = "run" /\ Evaluate
  <2>1. /\ \/ fault' = TRUE /\ UNCHANGED <<mcp, given>>
           \/ mcp' = (IF Present(given) THEN given[1] ELSE mcp) /\ given' = <<>> /\ UNCHANGED fault
        /\ stage = "evaluate" /\ stage' = "stop"
        /\ UNCHANGED <<command, raw, outcome, server, key, own>>
    BY <1>12 DEF Evaluate
  <2>2. FileIsLent'
    BY <1>12, <2>1 DEF Present, Absent
  <2>3. NothingLeftBehind' /\ Course' /\ ServerStops' /\ FaultLeaves' /\ KeyIsSwept'
    BY <2>1
  <2> QED
    BY <2>2, <2>3
<1>13. CASE StopServer
  BY <1>13 DEF StopServer, Fail
<1>14. CASE command = "run" /\ Judge
  BY <1>14 DEF Judge, Repair
<1>15. CASE command = "run" /\ CleanUp
  BY Stripped, <1>15 DEF CleanUp
<1>16. CASE command = "run" /\ Interrupt
  BY <1>16 DEF Interrupt
<1>17. CASE ValidateLoad
  BY <1>17 DEF ValidateLoad, ReturnsEarly
<1>18. CASE SemanticLoad
  BY <1>18 DEF SemanticLoad, ReturnsEarly
<1>19. CASE command # "run" /\ chain_for_app
  <2>1. UNCHANGED <<command, raw, server, mcp, given, fault, own>> /\ ~key
    BY <1>19 DEF chain_for_app
  <2>2. \/ /\ key' \in BOOLEAN /\ UNCHANGED outcome
           /\ \/ stage = "boot" /\ stage' = "serve" /\ command = "validate-semantic"
              \/ stage = "deploy" /\ stage' = "deploy"
        \/ stage \in {"boot", "deploy"} /\ stage' = "over" /\ outcome' = "error" /\ UNCHANGED key
    BY <1>19 DEF chain_for_app, ReturnsEarly, Present
  <2>3. Course' /\ ServerStops' /\ FaultLeaves'
    BY <1>19, <2>1, <2>2
  <2>5. FileIsLent'
    BY <1>19, <2>1, <2>2
  <2>6. KeyIsSwept'
    BY <1>19, <2>1, <2>2
  <2>4. NothingLeftBehind'
    <3>1. stage' = "over" => server' = "down" /\ mcp' = own' /\ outcome' = "error" /\ ~key'
      BY <1>19, <2>1, <2>2
    <3> QED
      BY <3>1
  <2> QED
    BY <2>3, <2>4, <2>5, <2>6
<1>20. CASE SemanticServer
  BY <1>20 DEF SemanticServer, ReturnsEarly
<1>21. CASE SemanticEvaluate
  <2>1. /\ mcp' = (IF Present(given) THEN given[1] ELSE mcp) /\ given' = <<>>
        /\ stage = "evaluate" /\ stage' = "stop"
        /\ UNCHANGED <<command, raw, outcome, server, fault, key, own>>
    BY <1>21 DEF SemanticEvaluate
  <2>2. FileIsLent'
    BY <2>1 DEF Present, Absent
  <2>3. NothingLeftBehind' /\ Course' /\ ServerStops' /\ FaultLeaves' /\ KeyIsSwept'
    BY <2>1
  <2> QED
    BY <2>2, <2>3
<1>22. CASE command # "run" /\ teardown
  BY <1>22 DEF teardown
<1>23. CASE command # "run" /\ Report
  BY <1>23 DEF Report
<1>24. CASE command # "run" /\ Killed
  BY <1>24 DEF Killed
<1>25. CASE UNCHANGED vars
  BY <1>25 DEF vars
<1> QED
  <2> HIDE DEF Tidy
  <2> QED
    BY SMTT(120), <1>1, <1>2, <1>3, <1>4, <1>5, <1>6, <1>7, <1>8, <1>9, <1>10, <1>11, <1>12, <1>13,
       <1>14, <1>15, <1>16, <1>17, <1>18, <1>19, <1>20, <1>21, <1>22, <1>23, <1>24, <1>25
       DEF CommandNext, ValidateSteps, Next, Steps, Over

\* A command works on what it was started with.
LEMMA SetupStays == [CommandNext]_vars => UNCHANGED setup
<1> SUFFICES ASSUME [CommandNext]_vars PROVE UNCHANGED setup
  OBVIOUS
<1> USE DEF still
<1>1. Load \/ BeginAttempt \/ NoAttempt \/ Generate \/ AssertStage \/ AssertErrs \/ ChainDeploy \/ ChainAssert
        \/ StartServer \/ Smoke => UNCHANGED setup
  BY Zenon DEF Load, BeginAttempt, NoAttempt, Generate, AssertStage, AssertErrs, ChainDeploy, ChainAssert, StartServer,
     Smoke
<1>2. DeliverMcp \/ Evaluate \/ StopServer \/ Judge \/ CleanUp \/ Interrupt => UNCHANGED setup
  BY Zenon DEF DeliverMcp, Evaluate, StopServer, Judge, CleanUp, Interrupt
<1>3. ValidateLoad \/ SemanticLoad \/ chain_for_app \/ SemanticServer \/ SemanticEvaluate => UNCHANGED setup
  BY Zenon DEF ValidateLoad, SemanticLoad, chain_for_app, SemanticServer, SemanticEvaluate
<1>4. teardown \/ Report \/ Killed \/ UNCHANGED vars => UNCHANGED setup
  BY DEF teardown, Report, Killed, vars, setup
<1> QED
  BY <1>1, <1>2, <1>3, <1>4, Zenon DEF CommandNext, ValidateSteps, Next, Steps, Over

LEMMA StartedKept == Started /\ [CommandNext]_vars => Started'
BY SetupStays DEF Started, setup

(* A command that is over, and was not killed, has left no dev server, no  *)
(* MCP entry of the harness and, but for the errors of validate-semantic,  *)
(* no key file: whatever failed on the way, at every interrupt.            *)
THEOREM WorkspaceIsGivenBack == CommandSpec => []NothingLeftBehind
<1>1. Init => Tidy /\ Started
  BY TidyBegins
<1>2. Tidy /\ Started /\ [CommandNext]_vars => Tidy' /\ Started'
  BY TidyKept, StartedKept, OwnTyped
<1>3. Tidy => NothingLeftBehind
  BY DEF Tidy
<1> QED
  BY <1>1, <1>2, <1>3, PTL DEF CommandSpec

-----------------------------------------------------------------------------
(* What was judged.                                                        *)

GateCategories == {"files", "static", "secret", "commands", "chain", "playwright"}

LEMMA FindingIs == \A kind, names, n, c : Finding(kind, names, n, c).category = c
BY DEF Finding

(* What the gates find is of their own categories. *)
LEMMA AssertFinds ==
  ASSUME NEW w, NEW s, NEW c, NEW k, NEW f \in assert_run(w, s, c, k).findings
  PROVE  f.category \in {"files", "static", "secret", "commands"}
<1>1. ASSUME f \in required_files(w, s.required_files) PROVE f.category = "files"
  BY <1>1, FindingIs DEF required_files
<1>2. ASSUME f \in forbidden_files(w, s.forbidden_files) PROVE f.category = "files"
  BY <1>2, FindingIs DEF forbidden_files
<1>3. ASSUME NEW scan, f \in scan_secrets(w, scan) PROVE f.category = "secret"
  <2> DEFINE Patterns(file) ==
        {q \in scan.patterns : file \notin q.allowIn /\ q.pattern \in w.leaks[file]}
  <2>1. CASE f \in {Finding("secret-file", q, 0, "secret") : q \in scan.failOnFiles \cap w.files}
    BY <2>1, FindingIs
  <2>2. CASE \E file \in DOMAIN w.leaks :
               f \in {Finding("secret-pattern", file \o <<q.name>>, 0, "secret") : q \in Patterns(file)}
    <3>1. PICK file \in DOMAIN w.leaks :
                 \E q \in Patterns(file) : f = Finding("secret-pattern", file \o <<q.name>>, 0, "secret")
      BY <2>2
    <3> QED
      BY <3>1, FindingIs
  <2>3. \/ f \in {Finding("secret-file", q, 0, "secret") : q \in scan.failOnFiles \cap w.files}
        \/ \E file \in DOMAIN w.leaks :
               f \in {Finding("secret-pattern", file \o <<q.name>>, 0, "secret") : q \in Patterns(file)}
    BY <1>3, Zenon DEF scan_secrets
  <2> QED
    BY <2>1, <2>2, <2>3
<1>4. ASSUME f \in static_config(w, c.static[1]) PROVE f.category \in {"static", "secret"}
  <2>1. ASSUME NEW as, f \in json_assertions(w, as) PROVE f.category = "static"
    <3>1. PICK a \in as :
            f \in LET file == w.json[a.file]
                  IN IF file.broken
                     THEN {Finding("json-parse", a.file, 0, "static")}
                     ELSE IF values_equal(file.at[a.path], a.equals) THEN {}
                          ELSE {Finding("json", a.file \o <<a.path>>, 0, "static")}
      BY <2>1, Zenon DEF json_assertions
    <3> QED
      BY <3>1, FindingIs
  <2>2. ASSUME NEW as, f \in text_assertions(w, as) PROVE f.category = "static"
    <3> DEFINE there == {a \in as : a.file \in DOMAIN w.text}
               missing == {Finding("text-missing", a.file, 0, "static") :
                             a \in {b \in as : b.file \notin DOMAIN w.text}}
               Texts(a) == {Finding("text", a.file \o <<needle>>, 0, "static") :
                              needle \in a.contains \ w.text[a.file]}
    <3>1. f \in missing \/ f \in UNION {Texts(a) : a \in there}
      <4>1. text_assertions(w, as) = missing \cup UNION {Texts(a) : a \in there}
        BY DEF text_assertions
      <4> HIDE DEF missing, Texts, there
      <4> QED
        BY <2>2, <4>1
    <3>2. CASE f \in missing
      <4>1. \E names : f = Finding("text-missing", names, 0, "static")
        BY <3>2, Zenon
      <4> QED
        BY <4>1, FindingIs
    <3>3. CASE \E a \in there : f \in Texts(a)
      <4>1. PICK a \in there : \E needle : f = Finding("text", a.file \o <<needle>>, 0, "static")
        BY <3>3
      <4> QED
        BY <4>1, FindingIs
    <3> HIDE DEF missing, Texts, there
    <3> QED
      BY <3>1, <3>2, <3>3
  <2>3. \/ f \in json_assertions(w, c.static[1].jsonAssertions)
        \/ \E q \in c.static[1].required : f = Finding("static-required", q, 0, "static")
        \/ \E q \in c.static[1].forbidden : f = Finding("static-forbidden", q, 0, "static")
        \/ f \in text_assertions(w, c.static[1].textAssertions)
        \/ \E scan \in Range(c.static[1].secretScan) : f \in scan_secrets(w, scan)
    BY <1>4, Zenon DEF static_config
  <2>4. CASE f \in json_assertions(w, c.static[1].jsonAssertions)
    BY <2>1, <2>4
  <2>5. CASE f \in text_assertions(w, c.static[1].textAssertions)
    BY <2>2, <2>5
  <2>6. CASE \E scan \in Range(c.static[1].secretScan) : f \in scan_secrets(w, scan)
    BY <1>3, <2>6
  <2> QED
    BY <2>3, <2>4, <2>5, <2>6, FindingIs
<1>5. ASSUME NEW n, f \in commands(w, n, k).findings PROVE f.category = "commands"
  <2>1. \E m : f = Finding("command", <<m>>, 0, "commands")
    BY <1>5, Zenon DEF commands
  <2> QED
    BY <2>1, FindingIs
<1> QED
  BY <1>1, <1>2, <1>3, <1>4, <1>5 DEF assert_run

LEMMA AssertionsFind ==
  ASSUME NEW c, NEW m, NEW as, NEW n, NEW f \in run_assertions(c, m, as, n)
  PROVE  f.category = "chain"
<1>1. PICK i : f = Finding("chain", <<as[i].kind>>, i - 1 + n, "chain")
  BY Zenon DEF run_assertions
<1> QED
  BY <1>1, FindingIs

LEMMA GateFinds ==
  ASSUME NEW g, NEW pages, NEW tool, NEW f \in run_gate(g, pages, tool)
  PROVE  f.category = "playwright"
<1>1. ASSUME NEW route, f \in check_route(g, route, pages[route], tool) PROVE f.category = "playwright"
  <2>1. \E kind : f = Finding("playwright:route", <<route, kind>>, 0, "playwright")
    BY <1>1, ZenonT(120) DEF check_route
  <2> QED
    BY <2>1, FindingIs
<1>2. \/ f = Finding("playwright:gate", <<>>, 0, "playwright")
      \/ \E route \in g.routes : f \in check_route(g, route, pages[route], tool)
  BY Zenon DEF run_gate
<1> QED
  BY <1>1, <1>2, FindingIs

(* A required file that is not there is found. *)
LEMMA RequiredIsFound ==
  ASSUME NEW w, NEW s, NEW c, NEW k,
         \A f \in assert_run(w, s, c, k).findings : f.category # "files"
  PROVE  s.required_files \subseteq w.files
<1> SUFFICES ASSUME NEW p \in s.required_files \ w.files PROVE FALSE
  OBVIOUS
<1> DEFINE f == Finding("required-file", p, 0, "files")
<1>1. f \in assert_run(w, s, c, k).findings
  BY DEF assert_run, required_files
<1> QED
  BY <1>1 DEF Finding

(* A validator that passes an app has nothing to say against it, one that does *)
(* not says what is wrong with the app, or could not judge.                    *)
LEMMA EvaluationIsGrounded ==
  ASSUME NEW reply \in Replies, NEW n
  PROVE  LET e == evaluate_run(reply, n)
         IN /\ e.passed \in BOOLEAN /\ e.infra \in BOOLEAN
            /\ e.passed => e.findings = {} /\ ~e.infra
            /\ \A f \in e.findings : f.category \in {"eval", "eval-infra"}
            /\ e.passed \/ e.infra \/ \E f \in e.findings : f.category = "eval"
<1> DEFINE Sound(e) ==
      /\ e.passed \in BOOLEAN /\ e.infra \in BOOLEAN
      /\ e.passed => e.findings = {} /\ ~e.infra
      /\ \A f \in e.findings : f.category \in {"eval", "eval-infra"}
      /\ e.passed \/ e.infra \/ \E f \in e.findings : f.category = "eval"
<1>1. ASSUME NEW passed \in BOOLEAN, NEW findings, NEW issues,
             \A f \in findings : f = [id |-> f.id, category |-> "eval"],
             passed <=> findings = {}
      PROVE  Sound(annotate_infrastructure_failure(passed, findings, issues))
  <2> DEFINE infra == detect_infrastructure_failure(passed, findings, issues)
             e == annotate_infrastructure_failure(passed, findings, issues)
             relabelled(f) == IF infra /\ f.category = "eval"
                              THEN [f EXCEPT !.category = "eval-infra"] ELSE f
  <2>1. e.passed = passed /\ e.infra = infra /\ e.findings = {relabelled(f) : f \in findings}
    BY DEF annotate_infrastructure_failure
  <2>2. infra \in BOOLEAN /\ (passed => ~infra)
    BY DEF detect_infrastructure_failure
  <2>3. \A f \in findings : f.category = "eval" /\ relabelled(f).category = (IF infra THEN "eval-infra" ELSE "eval")
    <3>1. \A i, a, b : [[id |-> i, category |-> a] EXCEPT !.category = b] = [id |-> i, category |-> b]
      OBVIOUS
    <3>2. SUFFICES ASSUME NEW f \in findings
                   PROVE  f.category = "eval" /\ relabelled(f).category = (IF infra THEN "eval-infra" ELSE "eval")
      OBVIOUS
    <3>3. f = [id |-> f.id, category |-> "eval"]
      BY <1>1
    <3> HIDE DEF infra
    <3> QED
      BY <3>1, <3>3
  <2> HIDE DEF infra, e, relabelled
  <2>4. ~passed => \E f \in findings : TRUE
    BY <1>1
  <2>5. passed => e.findings = {}
    BY <1>1, <2>1
  <2>6. \A f \in e.findings : f.category \in {"eval", "eval-infra"}
    BY <2>1, <2>3
  <2>7. e.passed \/ e.infra \/ \E f \in e.findings : f.category = "eval"
    BY <2>1, <2>3, <2>4
  <2>8. Sound(e)
    BY <2>1, <2>2, <2>5, <2>6, <2>7
  <2> QED
    BY <2>8 DEF e
<1>2. ASSUME NEW kind, NEW m PROVE Sound(failure(kind, m))
  <2>1. \A f \in {Finding(kind, <<>>, m, "eval")} : f = [id |-> f.id, category |-> "eval"]
    BY DEF Finding
  <2> HIDE DEF Sound
  <2> QED
    BY <1>1, <2>1 DEF failure
<1>3. ASSUME reply.kind = "verdict" PROVE Sound(judge_verdict(reply))
  <2> DEFINE issues == normalise_issues(reply.issues)
             findings == verdict_findings(reply.passed, issues)
  <2>1. \A f \in findings : f = [id |-> f.id, category |-> "eval"]
    BY DEF verdict_findings, issue_finding, Finding
  <2>2. reply.passed \in BOOLEAN
    BY RepliesAreTyped
  <2>3. ~reply.passed => findings # {}
    BY <2>2 DEF verdict_findings
  <2> HIDE DEF findings, issues
  <2>4. Sound(annotate_infrastructure_failure(reply.passed /\ findings = {}, findings, issues))
    <3>1. (reply.passed /\ findings = {}) \in BOOLEAN
      BY <2>2
    <3>2. (reply.passed /\ findings = {}) <=> findings = {}
      BY <2>3
    <3> HIDE DEF Sound
    <3> QED
      BY <1>1, <2>1, <3>1, <3>2
  <2> HIDE DEF Sound
  <2> QED
    BY <2>4 DEF judge_verdict, findings, issues
<1> HIDE DEF Sound
<1>4. Sound(evaluate_run(reply, n))
  BY <1>2, <1>3, RepliesAreTyped DEF evaluate_run
<1> QED
  BY <1>4 DEF Sound

(* What is open after an attempt is what it found. *)
LEMMA OpenIsFound ==
  ASSUME NEW findings, NEW now, NEW before
  PROVE  Open(apply_status(findings, now, before)) = findings
<1> DEFINE opened == {[finding |-> f, status |-> "open"] : f \in findings}
           gone   == {[finding |-> p.finding, status |-> "fixed"] :
                        p \in {q \in before : q.finding.id \in now.fixed}}
<1>1. apply_status(findings, now, before) = opened \cup gone
  BY DEF apply_status
<1>2. ASSUME NEW s \in gone PROVE s.status = "fixed"
  <2>1. PICK p : s = [finding |-> p.finding, status |-> "fixed"]
    BY <1>2
  <2> QED
    BY <2>1
<1>3. ASSUME NEW s \in opened PROVE s.status = "open" /\ s.finding \in findings
  <2>1. PICK f \in findings : s = [finding |-> f, status |-> "open"]
    BY <1>3
  <2> QED
    BY <2>1
<1>4. ASSUME NEW f \in findings PROVE \E s \in opened : s.finding = f
  <2>1. [finding |-> f, status |-> "open"] \in opened
    OBVIOUS
  <2> QED
    BY <2>1
<1> HIDE DEF opened, gone
<1> QED
  BY <1>1, <1>2, <1>3, <1>4 DEF Open

Clean == \A f \in val.findings : f.category = "agent"

FilesThere == raw.requiredFiles \subseteq ws.files
AssertDone == Gate("assert", 0) \in judged /\ FilesThere
SetDone(k) ==
  Gate("deploy", k) \in judged /\ Gate("assertions", k) \in judged /\ advanced[k] = AdvanceOf(k)
ChainDone ==
  Present(spec.chain_validation) =>
    IF OnLocal THEN advanced \in [Sets -> Int] /\ \A k \in Sets : SetDone(k)
    ELSE Gate("deploy", 0) \in judged /\ advanced = still_clock
SmokeDone == Present(spec.playwright) => Gate("smoke", 0) \in judged
EvaluateDone == RunEvaluate /\ Present(spec.playwright) => Gate("evaluate", 0) \in judged

\* The recipe is of the types of what can be written.
RawIsTyped ==
  /\ command \in {"run", "validate", "validate-semantic"}
  /\ Optional(raw.chain) /\ Optional(raw.playwright) /\ Optional(raw.validator) /\ Optional(raw.eval)
  /\ OrElse(raw.maxAttempts, DEFAULT_MAX_ATTEMPTS) \in Int
  /\ \A v \in Range(raw.validator) : v.enabled \in BOOLEAN
  /\ \A c \in Range(raw.chain) :
       /\ c.enabled \in BOOLEAN
       /\ Len(c.phases) \in Nat /\ DOMAIN c.phases = 1 .. Len(c.phases)
       /\ OrElse(c.advance, 0) \in Int
       /\ \A i \in DOMAIN c.phases : OrElse(c.phases[i].advance, 0) \in Int

LEMMA RawTyped == Started => RawIsTyped
BY SetupsAreTyped DEF Started, RawIsTyped

LEMMA OptionIs ==
  ASSUME NEW option, Optional(option), Present(option)
  PROVE  option = <<option[1]>> /\ Range(option) = {option[1]}
BY DEF Optional, Present, Absent, Range

\* What the loader makes of a chain block that is on.
LEMMA LoadedChain ==
  ASSUME RawIsTyped, Present(spec.chain_validation)
  PROVE  LET c == raw.chain[1]
         IN /\ raw.chain = <<c>> /\ c.enabled /\ ChainAsked(raw) = <<c>>
            /\ chainValidation.network = c.network
            /\ Len(c.phases) \in Nat
            /\ Len(chainValidation.phases) = Len(c.phases)
            /\ Sets = 0 .. Len(c.phases)
            /\ \A k \in Sets :
                 /\ AdvanceOf(k) = OrElse(IF k = 0 THEN c.advance ELSE c.phases[k].advance, 0)
                 /\ AdvanceOf(k) \in Int
<1> DEFINE c == raw.chain[1]
<1>1. Present(ChainAsked(raw)) /\ spec.chain_validation = <<ReadChain(ChainAsked(raw)[1])>>
  BY DEF spec, Loaded, Present, Absent
<1>2. Present(raw.chain) /\ c.enabled /\ ChainAsked(raw) = raw.chain
  BY <1>1 DEF ChainAsked, Present, Absent
<1>3. raw.chain = <<c>> /\ Range(raw.chain) = {c}
  BY <1>2, OptionIs DEF RawIsTyped
<1>4. chainValidation = ReadChain(c)
  BY <1>1, <1>2 DEF chainValidation
<1>5. /\ Len(c.phases) \in Nat /\ DOMAIN c.phases = 1 .. Len(c.phases)
      /\ OrElse(c.advance, 0) \in Int
      /\ \A i \in DOMAIN c.phases : OrElse(c.phases[i].advance, 0) \in Int
  BY <1>3 DEF RawIsTyped
<1> HIDE DEF c
<1>6. /\ chainValidation.network = c.network /\ chainValidation.advance = OrElse(c.advance, 0)
      /\ chainValidation.phases = [i \in DOMAIN c.phases |-> ReadPhase(c.phases[i])]
  BY <1>4 DEF ReadChain
<1>7. Len(chainValidation.phases) = Len(c.phases)
  BY <1>5, <1>6
<1>8. Sets = 0 .. Len(c.phases)
  BY <1>7 DEF Sets
<1>9. ASSUME NEW k \in Sets
      PROVE  /\ AdvanceOf(k) = OrElse(IF k = 0 THEN c.advance ELSE c.phases[k].advance, 0)
             /\ AdvanceOf(k) \in Int
  <2>1. CASE k = 0
    BY <2>1, <1>5, <1>6 DEF AdvanceOf
  <2>2. CASE k # 0
    <3>1. k \in DOMAIN c.phases
      BY <2>2, <1>5, <1>8
    <3>2. chainValidation.phases[k] = ReadPhase(c.phases[k])
      BY <1>6, <3>1
    <3>3. AdvanceOf(k) = OrElse(c.phases[k].advance, 0)
      BY <2>2, <3>2 DEF AdvanceOf, ReadPhase
    <3> QED
      BY <1>5, <2>2, <3>1, <3>3
  <2> QED
    BY <2>1, <2>2
<1> QED
  BY <1>2, <1>3, <1>5, <1>6, <1>7, <1>8, <1>9 DEF c

\* A recipe that was loaded grades only the deploy on testnet.
LEMMA TestnetIsDeploy ==
  ASSUME RawIsTyped, Present(spec.chain_validation), ~Refused(raw), ~OnLocal
  PROVE  LET c == raw.chain[1]
         IN /\ c.network # "local" /\ c.assert = <<>> /\ c.phases = <<>>
            /\ OrElse(c.advance, 0) = 0
<1> DEFINE c == raw.chain[1]
<1>1. ChainAsked(raw) = <<c>> /\ chainValidation.network = c.network
  BY LoadedChain
<1>2. Range(ChainAsked(raw)) = {c}
  BY <1>1 DEF Range
<1>3. ~Refuses_chain(c)
  BY <1>2 DEF Refused
<1>4. c.network = "testnet"
  BY <1>1, <1>3 DEF Refuses_chain, OnLocal
<1>5. ~Refuses_testnet(c) /\ ~Refuses_advance_time(c.advance)
  BY <1>3 DEF Refuses_chain
<1>6. OrElse(c.advance, 0) \in Int
  BY LoadedChain, OptionIs DEF RawIsTyped, Range, Present, Absent
<1> HIDE DEF c
<1>7. ~(OrElse(c.advance, 0) > 0) /\ ~(OrElse(c.advance, 0) < 0)
  BY <1>4, <1>5 DEF Refuses_testnet, Refuses_advance_time, Negative
<1>8. c.assert = <<>> /\ c.phases = <<>>
  BY <1>4, <1>5 DEF Refuses_testnet
<1> QED
  BY <1>4, <1>6, <1>7, <1>8 DEF c

LEMMA Earned ==
  ASSUME RawIsTyped, ~Refused(raw), command # "validate-semantic",
         AssertDone, ChainDone, SmokeDone
  PROVE  /\ Asked \ {Gate("evaluate", 0)} \subseteq judged
         /\ EvaluateDone => Asked \subseteq judged
         /\ Present(ChainAsked(raw)) => advanced = AskedSeconds
<1> DEFINE c == raw.chain[1]
<1>1. Asked = IF command = "run" THEN AskedFirst \cup AskedLast ELSE AskedFirst
  BY DEF Asked, RawIsTyped
<1>2. Present(spec.chain_validation) <=> ChainsAsked # {}
  <2>1. Present(spec.chain_validation) <=> Present(ChainAsked(raw))
    BY DEF spec, Loaded, Present, Absent
  <2>2. Present(ChainAsked(raw)) <=> Present(raw.chain) /\ c.enabled
    BY DEF ChainAsked, Present, Absent
  <2>3. Present(raw.chain) => Range(raw.chain) = {c}
    BY OptionIs DEF RawIsTyped
  <2>4. ~Present(raw.chain) => Range(raw.chain) = {}
    BY DEF Present, Absent, Range
  <2> QED
    BY <2>1, <2>2, <2>3, <2>4 DEF ChainsAsked
<1>3. /\ {Gate("deploy", 0) : d \in ChainsAsked} \subseteq judged
      /\ \A d \in ChainsJudged : \A k \in 0 .. Len(d.phases) :
           Gate("deploy", k) \in judged /\ Gate("assertions", k) \in judged
  <2>1. CASE ChainsAsked = {}
    BY <2>1 DEF ChainsJudged
  <2>2. CASE ChainsAsked # {}
    <3>1. Present(spec.chain_validation) /\ Range(raw.chain) = {c} /\ ChainsAsked = {c}
      BY <1>2, <2>2, LoadedChain, OptionIs DEF RawIsTyped, Present, Absent, ChainsAsked
    <3>2. Sets = 0 .. Len(c.phases) /\ Len(c.phases) \in Nat /\ chainValidation.network = c.network
      BY <3>1, LoadedChain
    <3>3. Gate("deploy", 0) \in judged
      BY <3>1, <3>2 DEF ChainDone, SetDone
    <3>4. ChainsJudged # {} => \A k \in 0 .. Len(c.phases) : Gate("deploy", k) \in judged /\ Gate("assertions", k) \in judged
      <4>1. CASE OnLocal
        BY <4>1, <3>1, <3>2 DEF ChainDone, SetDone
      <4>2. CASE ~OnLocal
        <5>1. c.network # "local" /\ c.assert = <<>> /\ c.phases = <<>>
          BY <4>2, <3>1, TestnetIsDeploy
        <5> QED
          BY <3>1, <5>1 DEF ChainsJudged
      <4> QED
        BY <4>1, <4>2
    <3>5. ChainsJudged \subseteq {c}
      BY <3>1 DEF ChainsJudged
    <3> HIDE DEF c
    <3> QED
      BY <3>1, <3>3, <3>4, <3>5
  <2> QED
    BY <2>1, <2>2
<1>4. {Gate("smoke", 0) : p \in Range(raw.playwright)} \subseteq judged
  <2>1. spec.playwright = raw.playwright
    BY DEF spec, Loaded
  <2>2. ~Present(raw.playwright) => Range(raw.playwright) = {}
    BY DEF Present, Absent, Range
  <2> QED
    BY <2>1, <2>2 DEF SmokeDone
<1>5. AskedFirst \subseteq judged
  <2>1. \A d \in ChainsJudged : SetsAsked(d) \subseteq judged
    BY <1>3 DEF SetsAsked
  <2> QED
    BY <1>3, <1>4, <2>1 DEF AskedFirst, AssertDone
<1>6. AskedLast \subseteq {Gate("evaluate", 0)}
  BY DEF AskedLast
<1>7. command = "run" /\ EvaluateDone => AskedLast \subseteq judged
  <2>1. spec.playwright = raw.playwright /\ spec.validator = ReadValidator(raw) /\ spec.eval_paths = EvalPaths(raw)
    BY DEF spec, Loaded
  <2>2. Present(raw.eval) => Present(spec.eval_paths)
    BY <2>1 DEF EvalPaths, Present, Absent
  <2>3. ASSUME NEW v \in Range(raw.validator), v.enabled PROVE validator_enabled(spec)
    <3>1. Present(raw.validator) /\ v = raw.validator[1]
      BY <2>3, OptionIs DEF RawIsTyped, Present, Absent, Range
    <3>2. Present(ReadValidator(raw)) /\ ReadValidator(raw)[1].enabled = v.enabled
      BY <3>1 DEF ReadValidator, Present, Absent
    <3> QED
      BY <2>1, <2>3, <3>2 DEF validator_enabled
  <2>4. AskedLast # {} => \E v \in Range(raw.validator) : v.enabled /\ Present(raw.eval) /\ Present(raw.playwright)
    BY DEF AskedLast
  <2>5. SUFFICES ASSUME command = "run", EvaluateDone, AskedLast # {} PROVE Gate("evaluate", 0) \in judged
    BY <1>6
  <2>6. RunEvaluate /\ Present(spec.playwright)
    BY <2>1, <2>2, <2>3, <2>4, <2>5 DEF RunEvaluate
  <2> QED
    BY <2>5, <2>6 DEF EvaluateDone
<1>8. Asked \ {Gate("evaluate", 0)} \subseteq judged
  BY <1>1, <1>5, <1>6
<1>9. EvaluateDone => Asked \subseteq judged
  BY <1>1, <1>5, <1>7
<1>10. ASSUME Present(ChainAsked(raw)) PROVE advanced = AskedSeconds
  <2>1. Present(spec.chain_validation)
    BY <1>10 DEF spec, Loaded, Present, Absent
  <2>2. /\ ChainAsked(raw) = <<c>> /\ Sets = 0 .. Len(c.phases) /\ Len(c.phases) \in Nat
        /\ \A k \in Sets : AdvanceOf(k) = OrElse(IF k = 0 THEN c.advance ELSE c.phases[k].advance, 0)
    BY <2>1, LoadedChain
  <2> HIDE DEF c
  <2>3. AskedSeconds = [k \in 0 .. Len(c.phases) |-> OrElse(IF k = 0 THEN c.advance ELSE c.phases[k].advance, 0)]
    BY <2>2 DEF AskedSeconds
  <2>4. CASE OnLocal
    <3>1. advanced \in [Sets -> Int] /\ \A k \in Sets : advanced[k] = AdvanceOf(k)
      BY <2>1, <2>4 DEF ChainDone, SetDone
    <3> QED
      BY <2>2, <2>3, <3>1
  <2>5. CASE ~OnLocal
    <3>1. c.phases = <<>> /\ OrElse(c.advance, 0) = 0
      BY <2>1, <2>5, TestnetIsDeploy DEF c
    <3>2. advanced = [k \in Sets |-> 0]
      BY <2>1, <2>5 DEF ChainDone, still_clock
    <3>3. 0 .. Len(c.phases) = {0}
      BY <3>1
    <3> QED
      BY <2>2, <2>3, <3>1, <3>2, <3>3
  <2> QED
    BY <2>4, <2>5
<1> QED
  BY <1>8, <1>9, <1>10

\* The sets before this one are done, those after it have had no time.
InChain ==
  /\ Present(spec.chain_validation)
  /\ phase \in Sets
  /\ advanced \in [Sets -> Int]
  /\ \A k \in Sets : (k < phase => SetDone(k)) /\ (k > phase => advanced[k] = 0)
  /\ phase > 0 => OnLocal
  /\ stage = "deploy" => advanced[phase] = 0
  /\ stage = "chain" =>
       OnLocal /\ Gate("deploy", phase) \in judged /\ advanced[phase] = AdvanceOf(phase)

\* At the judgement: without a finding of a gate all gates were clean, and an
\* attempt that did not pass has a finding to show for it.
Honest ==
  /\ (\A f \in val.findings : f.category \notin GateCategories) =>
       AssertDone /\ ChainDone /\ SmokeDone
  /\ (\A f \in val.findings : f.category # "files") => FilesThere
  /\ val.passed => Clean /\ (fault \/ EvaluateDone)
  /\ val.passed \/ InfraAbort \/ \E f \in val.findings : f.category \notin {"agent", "eval-infra"}

\* The gates as `run' and `validate' go through them.
Graded ==
  /\ stage = "load" => phase = 0
  /\ command # "validate-semantic" =>
      /\ stage \in {"generate", "assert"} =>
           advanced = still_clock /\ phase = 0 /\ Clean /\ val.evaluation = <<>>
      /\ stage \in {"deploy", "chain", "serve", "smoke", "deliver", "evaluate"} =>
           val.passed /\ Clean /\ AssertDone /\ val.evaluation = <<>>
      /\ stage \in {"deploy", "chain"} => InChain
      /\ stage \in {"serve", "smoke", "deliver", "evaluate"} => ChainDone /\ Present(spec.playwright)
      /\ stage \in {"deliver", "evaluate"} => SmokeDone /\ RunEvaluate
      /\ stage \in {"stop", "judge"} \/ (stage = "report" /\ outcome # "error") => Honest

\* validate-semantic has the one.
GradedSemantic ==
  command = "validate-semantic" =>
    (val.passed => val.findings = {} /\ Gate("evaluate", 0) \in judged)

\* A validator that could not judge ends the run.
AbortIsFinal ==
  command = "run" /\ InfraAbort =>
    \/ stage \in {"stop", "judge"} /\ ~fault
    \/ stage \in {"cleanup", "over"} /\ outcome \in {"aborted", "interrupted"}

ValIsTyped ==
  /\ val = [passed |-> val.passed, findings |-> val.findings, smoke |-> val.smoke,
            evaluation |-> val.evaluation, ledger |-> val.ledger]
  /\ val.passed \in BOOLEAN
  /\ Optional(val.evaluation)
  /\ command = "run" /\ stage \in {"load"} => val.evaluation = <<>>

Fair == ValIsTyped /\ Graded /\ GradedSemantic /\ AbortIsFinal /\ RepairIsFounded /\ PassIsEarned

\* The recipe stays, and what is read off it.
LEMMA RecipeStays ==
  ASSUME UNCHANGED setup
  PROVE  /\ spec' = spec /\ chainValidation' = chainValidation
         /\ OnLocal' <=> OnLocal
         /\ RunEvaluate' <=> RunEvaluate
         /\ Sets' = Sets /\ still_clock' = still_clock
         /\ \A k : AdvanceOf(k)' = AdvanceOf(k)
         /\ Asked' = Asked /\ AskedSeconds' = AskedSeconds
<1>1. raw' = raw /\ command' = command
  BY DEF setup
<1>2. spec' = spec /\ chainValidation' = chainValidation
  BY <1>1 DEF spec, chainValidation
<1>3. Sets' = Sets
  BY <1>2 DEF Sets
<1>4. Asked' = Asked /\ AskedSeconds' = AskedSeconds
  BY <1>1 DEF Asked, AskedFirst, AskedLast, ChainsAsked, ChainsJudged, AskedSeconds
<1> QED
  BY <1>1, <1>2, <1>3, <1>4 DEF OnLocal, RunEvaluate, still_clock, AdvanceOf

\* A gate found clean stays so while the workspace and the clock do.
LEMMA GradesStay ==
  ASSUME UNCHANGED setup, ws' = ws, judged \subseteq judged'
  PROVE  /\ FilesThere' <=> FilesThere
         /\ AssertDone => AssertDone'
         /\ SmokeDone => SmokeDone'
         /\ EvaluateDone => EvaluateDone'
         /\ \A k : SetDone(k) /\ advanced'[k] = advanced[k] => SetDone(k)'
         /\ ChainDone /\ advanced' = advanced => ChainDone'
<1>1. raw' = raw
  BY DEF setup
<1>2. FilesThere' <=> FilesThere
  BY <1>1 DEF FilesThere
<1>3. AssertDone => AssertDone'
  BY <1>2 DEF AssertDone
<1>4. (SmokeDone => SmokeDone') /\ (EvaluateDone => EvaluateDone')
  BY RecipeStays DEF SmokeDone, EvaluateDone
<1>5. \A k : SetDone(k) /\ advanced'[k] = advanced[k] => SetDone(k)'
  BY RecipeStays DEF SetDone
<1>6. ChainDone /\ advanced' = advanced => ChainDone'
  BY <1>5, RecipeStays DEF ChainDone
<1> QED
  BY <1>2, <1>3, <1>4, <1>5, <1>6

\* What is judged of the chain so far, and of the attempt, stays.
LEMMA JudgementStays ==
  ASSUME UNCHANGED <<setup, ws, advanced, phase, val, judged>>
  PROVE  /\ Clean' <=> Clean
         /\ InfraAbort' <=> InfraAbort
         /\ InChain /\ stage' = stage => InChain'
         /\ Honest /\ (fault' = fault \/ ~val.passed) => Honest'
<1>1. Clean' <=> Clean
  BY DEF Clean
<1>2. InfraAbort' <=> InfraAbort
  BY DEF InfraAbort
<1>3. judged \subseteq judged' /\ advanced' = advanced
  OBVIOUS
<1>4. ASSUME InChain, stage' = stage PROVE InChain'
  <2>1. \A k : SetDone(k) => SetDone(k)'
    BY <1>3, GradesStay
  <2> QED
    BY <1>4, <2>1, RecipeStays DEF InChain
<1>5. ASSUME Honest, fault' = fault \/ ~val.passed PROVE Honest'
  BY <1>1, <1>2, <1>3, <1>5, GradesStay DEF Honest
<1> QED
  BY <1>1, <1>2, <1>4, <1>5

\* Only a judgement writes a repair, only a verdict passes.
LEMMA NothingSaid ==
  ASSUME RepairIsFounded, AbortIsFinal', prompt' = prompt \/ prompt'.kind # "repair",
         stage' # "begin" \/ prompt'.kind # "repair", outcome' # "passed"
  PROVE  RepairIsFounded' /\ PassIsEarned'
BY DEF RepairIsFounded, RepairIsActionable, ScopeIsTrue, AbortIsFinal, PassIsEarned

\* Steps that move nothing that was judged.
LEMMA StillFair ==
  ASSUME Fair, UNCHANGED <<setup, ws, advanced, phase, val, judged>>,
         prompt' = prompt, stage' # "begin", stage' # "load", outcome' # "passed",
         Graded', AbortIsFinal'
  PROVE  Fair'
<1>1. ValIsTyped'
  BY DEF Fair, ValIsTyped, setup
<1>2. GradedSemantic'
  BY DEF Fair, GradedSemantic, setup
<1>3. RepairIsFounded' /\ PassIsEarned'
  BY NothingSaid DEF Fair
<1> QED
  BY <1>1, <1>2, <1>3 DEF Fair

LEMMA LoadFair ==
  ASSUME Fair, Tidy, command = "run", Load
  PROVE  Fair'
<1>1. /\ UNCHANGED <<setup, ws, advanced, phase, val, judged>>
      /\ stage = "load" /\ stage' \in {"begin", "over"}
      /\ outcome' # "passed"
      /\ \/ stage' = "over" /\ prompt' = prompt
         \/ prompt' = build_continue_prompt(cycle.cycle)
         \/ prompt' = build_session_prompt(spec, 0)
  BY DEF Load, still, Tidy, Course, Ending
<1>p. build_continue_prompt(cycle.cycle).kind = "continue" /\ build_session_prompt(spec, 0).kind = "session"
  BY DEF build_continue_prompt, build_session_prompt
<1>2. ~InfraAbort'
  BY <1>1 DEF InfraAbort, Fair, ValIsTyped, Present, Absent
<1>3. AbortIsFinal'
  BY <1>2 DEF AbortIsFinal
<1>4. ValIsTyped' /\ Graded' /\ GradedSemantic'
  BY <1>1 DEF Fair, ValIsTyped, Graded, GradedSemantic, setup
<1>5. RepairIsFounded' /\ PassIsEarned'
  BY <1>1, <1>p, <1>3, NothingSaid DEF Fair
<1> QED
  BY <1>3, <1>4, <1>5 DEF Fair

LEMMA BeginAttemptFair ==
  ASSUME Fair, Tidy, command = "run", BeginAttempt
  PROVE  Fair'
<1>1. /\ UNCHANGED setup /\ prompt' = prompt /\ outcome' = outcome
      /\ stage = "begin" /\ stage' = "generate"
      /\ advanced' = still_clock /\ phase' = 0 /\ val' = fresh_val
  BY DEF BeginAttempt, still
<1>2. Clean' /\ ~InfraAbort' /\ val'.evaluation = <<>>
  BY <1>1 DEF fresh_val, Clean, InfraAbort, Present, Absent
<1>3. AbortIsFinal'
  BY <1>2 DEF AbortIsFinal
<1>4. ValIsTyped'
  BY <1>1 DEF ValIsTyped, fresh_val, Optional, Absent
<1>5. Graded' /\ GradedSemantic'
  BY <1>1, <1>2, RecipeStays DEF Graded, GradedSemantic, setup
<1>6. RepairIsFounded' /\ PassIsEarned'
  BY <1>1, <1>3, NothingSaid DEF Fair, Tidy, Course, Ending
<1> QED
  BY <1>3, <1>4, <1>5, <1>6 DEF Fair

LEMMA GenerateFair ==
  ASSUME Fair, Tidy, command = "run", Generate
  PROVE  Fair'
<1>1. /\ UNCHANGED <<setup, advanced, phase, outcome, prompt>>
      /\ stage = "generate" /\ stage' = "assert"
      /\ \E failed : val' = [val EXCEPT !.findings =
            {Finding(f, <<>>, cycle.starting + attempts - 1, "agent") : f \in failed}]
  BY DEF Generate, still, loop
<1>2. PICK failed : val' = [val EXCEPT !.findings =
            {Finding(f, <<>>, cycle.starting + attempts - 1, "agent") : f \in failed}]
  BY <1>1
<1>3. val' = [passed |-> val.passed,
              findings |-> {Finding(f, <<>>, cycle.starting + attempts - 1, "agent") : f \in failed},
              smoke |-> val.smoke, evaluation |-> val.evaluation, ledger |-> val.ledger]
  BY <1>2 DEF Fair, ValIsTyped
<1>4. val.evaluation = <<>> /\ advanced = still_clock /\ phase = 0
  BY <1>1 DEF Fair, Graded
<1>5. Clean' /\ ~InfraAbort' /\ val'.evaluation = <<>>
  BY <1>3, <1>4, FindingIs DEF Clean, InfraAbort, Present, Absent
<1>6. AbortIsFinal'
  BY <1>5 DEF AbortIsFinal
<1>7. ValIsTyped'
  BY <1>1, <1>3 DEF Fair, ValIsTyped
<1>8. Graded' /\ GradedSemantic'
  BY <1>1, <1>4, <1>5, RecipeStays DEF Graded, GradedSemantic, setup
<1>9. RepairIsFounded' /\ PassIsEarned'
  BY <1>1, <1>6, NothingSaid DEF Fair, Tidy, Course, Ending
<1> QED
  BY <1>6, <1>7, <1>8, <1>9 DEF Fair

LEMMA AssertFair ==
  ASSUME Fair, Tidy, RawIsTyped, command # "validate-semantic", AssertStage
  PROVE  Fair'
<1> DEFINE ran == assert_run(ws, spec, config, cache)
           all == ran.findings \cup val.findings
<1>1. /\ UNCHANGED <<setup, ws, advanced, phase, outcome, prompt, fault>>
      /\ stage = "assert" /\ judged \subseteq judged'
  BY DEF AssertStage, still, loop, tooling, Judged
<1>2. val.evaluation = <<>> /\ advanced = still_clock /\ phase = 0 /\ Clean
  BY <1>1 DEF Fair, Graded
<1>3. \A f \in ran.findings : f.category \in {"files", "static", "secret", "commands"}
  BY AssertFinds
<1>4. val'.evaluation = <<>> /\ val'.findings = all /\ ValIsTyped'
  <2>1. stage' # "load"
    BY DEF AssertStage, AfterChain
  <2>2. \E p \in BOOLEAN : val' = [val EXCEPT !.findings = all, !.passed = p]
    BY DEF AssertStage
  <2> HIDE DEF all
  <2>3. \E p \in BOOLEAN : val' = [passed |-> p, findings |-> all, smoke |-> val.smoke,
                                 evaluation |-> val.evaluation, ledger |-> val.ledger]
    BY <2>2 DEF Fair, ValIsTyped
  <2> QED
    BY <1>2, <2>1, <2>3 DEF ValIsTyped, Optional, Absent
<1>5. ~InfraAbort' /\ AbortIsFinal'
  BY <1>4 DEF InfraAbort, AbortIsFinal, Present, Absent
<1>6. Graded'
  <2>1. CASE is_ready_for_smoke(all)
    <3>1. ran.findings = {}
      BY <1>3, <2>1 DEF is_ready_for_smoke
    <3>2. /\ stage' = (IF Present(spec.chain_validation) THEN "deploy" ELSE AfterChain)
          /\ judged' = judged \cup {Gate("assert", 0)}
          /\ val' = [val EXCEPT !.findings = all, !.passed = TRUE]
      BY <2>1, <3>1 DEF AssertStage, Judged
    <3>3. val'.passed /\ val'.findings = val.findings
      <4> HIDE DEF ran
      <4> QED
        BY <3>1, <3>2 DEF Fair, ValIsTyped
    <3>4. Clean'
      BY <1>2, <3>3 DEF Clean
    <3>5. AssertDone'
      <4>1. FilesThere
        BY <3>1, RequiredIsFound DEF FilesThere, spec, Loaded
      <4> QED
        BY <1>1, <3>2, <4>1, GradesStay DEF AssertDone
    <3>6. CASE Present(spec.chain_validation)
      <4>1. InChain'
        <5>1. still_clock \in [Sets -> Int] /\ \A k \in Sets : still_clock[k] = 0
          BY DEF still_clock
        <5>2. 0 \in Sets /\ \A k \in Sets : ~(k < 0)
          BY <3>6, LoadedChain
        <5> QED
          BY <1>1, <1>2, <3>2, <3>6, <5>1, <5>2, RecipeStays DEF InChain
      <4> QED
        BY <1>1, <1>4, <3>2, <3>3, <3>4, <3>5, <3>6, <4>1 DEF Graded
    <3>7. CASE ~Present(spec.chain_validation)
      <4>1. ChainDone' /\ ~Present(spec.chain_validation)'
        BY <1>1, <3>7, RecipeStays DEF ChainDone
      <4>2. CASE Present(spec.playwright)
        <5>1. stage' = "serve" /\ Present(spec.playwright)'
          BY <1>1, <3>2, <3>7, <4>2, RecipeStays DEF AfterChain
        <5> QED
          BY <1>4, <3>3, <3>4, <3>5, <4>1, <5>1 DEF Graded
      <4>3. CASE ~Present(spec.playwright)
        <5>1. stage' = "judge" /\ SmokeDone' /\ EvaluateDone'
          BY <1>1, <3>2, <3>7, <4>3, RecipeStays DEF AfterChain, SmokeDone, EvaluateDone
        <5>2. Honest'
          BY <3>3, <3>4, <3>5, <4>1, <5>1 DEF Honest, AssertDone
        <5> QED
          BY <5>1, <5>2 DEF Graded
      <4> QED
        BY <4>2, <4>3
    <3> QED
      BY <3>6, <3>7
  <2>2. CASE ~is_ready_for_smoke(all)
    <3>1. stage' = "judge" /\ val' = [val EXCEPT !.findings = all, !.passed = FALSE]
      BY <2>2 DEF AssertStage
    <3>2. ~val'.passed
      <4> HIDE DEF all
      <4> QED
        BY <3>1 DEF Fair, ValIsTyped
    <3>3. PICK f \in all : f.category # "agent"
      BY <2>2 DEF is_ready_for_smoke
    <3>4. f \in ran.findings
      BY <1>2, <3>3 DEF Clean
    <3>5. f \in val'.findings /\ f.category \in {"files", "static", "secret", "commands"}
      BY <1>3, <1>4, <3>4
    <3>6. (\A g \in val'.findings : g.category # "files") => FilesThere'
      <4>1. (\A g \in ran.findings : g.category # "files") => FilesThere
        BY RequiredIsFound DEF FilesThere, spec, Loaded
      <4> HIDE DEF ran
      <4> QED
        BY <1>1, <1>4, <4>1, GradesStay
    <3>7. Honest'
      BY <3>2, <3>5, <3>6 DEF Honest, GateCategories
    <3> QED
      BY <3>1, <3>7 DEF Graded
  <2> QED
    BY <2>1, <2>2
<1>7. GradedSemantic'
  BY <1>1 DEF GradedSemantic, setup
<1>8. RepairIsFounded' /\ PassIsEarned'
  <2>1. stage' # "begin"
    BY DEF AssertStage, AfterChain
  <2> QED
    BY <1>1, <1>5, <2>1, NothingSaid DEF Fair, Tidy, Course, Ending
<1> QED
  BY <1>4, <1>5, <1>6, <1>7, <1>8 DEF Fair

LEMMA ChainDeployFair ==
  ASSUME Fair, Tidy, RawIsTyped, command # "validate-semantic", ChainDeploy
  PROVE  Fair'
<1>1. /\ UNCHANGED <<setup, ws, phase, outcome, prompt, fault>>
      /\ stage = "deploy" /\ stage' \notin {"load", "begin"}
  BY DEF ChainDeploy, still, loop, tooling, AfterChain
<1>2. val.evaluation = <<>> /\ val.passed /\ Clean /\ AssertDone /\ InChain
  BY <1>1 DEF Fair, Graded
<1>3. PICK failing :
        LET findings == {Finding("chain-deploy", <<c>>, 0, "commands") : c \in failing}
        IN IF failing # {}
           THEN /\ \E l : val' = [val EXCEPT !.findings = @ \cup findings, !.passed = FALSE, !.ledger = l]
                /\ stage' = "judge"
                /\ UNCHANGED judged
           ELSE /\ judged' = judged \cup {Gate("deploy", phase)}
                /\ IF OnLocal THEN increase_time(phase) ELSE UNCHANGED advanced
                /\ stage' = IF OnLocal THEN "chain" ELSE AfterChain
                /\ UNCHANGED val
  BY DEF ChainDeploy, Judged
<1> DEFINE findings == {Finding("chain-deploy", <<c>>, 0, "commands") : c \in failing}
<1>4. CASE failing # {}
  <2>1. \E l : val' = [passed |-> FALSE, findings |-> val.findings \cup findings, smoke |-> val.smoke,
                     evaluation |-> val.evaluation, ledger |-> l]
    <3>1. \E l : val' = [val EXCEPT !.findings = val.findings \cup findings, !.passed = FALSE, !.ledger = l]
      BY <1>3, <1>4
    <3> HIDE DEF findings
    <3> QED
      BY <3>1 DEF Fair, ValIsTyped
  <2>2. PICK c : c \in failing
    BY <1>4
  <2>3. Finding("chain-deploy", <<c>>, 0, "commands") \in findings
    BY <2>2
  <2> HIDE DEF findings
  <2>4. PICK f : f \in findings /\ f.category = "commands"
    BY <2>3, FindingIs
  <2>5. ~val'.passed /\ f \in val'.findings /\ val'.evaluation = <<>> /\ ValIsTyped'
    BY <1>1, <1>2, <2>1, <2>4 DEF ValIsTyped, Optional, Absent
  <2>6. stage' = "judge" /\ judged' = judged
    BY <1>3, <1>4
  <2>7. FilesThere'
    BY <1>1, <1>2, <2>6, GradesStay DEF AssertDone
  <2>8. Honest'
    BY <2>4, <2>5, <2>7 DEF Honest, GateCategories
  <2>9. ~InfraAbort' /\ AbortIsFinal'
    BY <2>5 DEF InfraAbort, AbortIsFinal, Present, Absent
  <2>10. Graded' /\ GradedSemantic'
    BY <1>1, <2>6, <2>8 DEF Graded, GradedSemantic, setup
  <2>11. RepairIsFounded' /\ PassIsEarned'
    BY <1>1, <2>9, NothingSaid DEF Fair, Tidy, Course, Ending
  <2> QED
    BY <2>5, <2>9, <2>10, <2>11 DEF Fair
<1>5. CASE failing = {}
  <2>1. /\ judged' = judged \cup {Gate("deploy", phase)} /\ val' = val
        /\ IF OnLocal THEN increase_time(phase) ELSE UNCHANGED advanced
        /\ stage' = IF OnLocal THEN "chain" ELSE AfterChain
    BY <1>3, <1>5
  <2>2. Clean' /\ AssertDone' /\ ~InfraAbort' /\ AbortIsFinal' /\ ValIsTyped'
    <3>1. Clean' /\ ~InfraAbort'
      BY <1>2, <2>1 DEF Clean, InfraAbort, Present, Absent
    <3>2. AssertDone'
      BY <1>1, <1>2, <2>1, GradesStay
    <3>3. ValIsTyped'
      BY <1>1, <2>1 DEF Fair, ValIsTyped
    <3> QED
      BY <3>1, <3>2, <3>3 DEF AbortIsFinal
  <2>3. GradedSemantic'
    BY <1>1 DEF GradedSemantic, setup
  <2>4. RepairIsFounded' /\ PassIsEarned'
    BY <1>1, <2>2, NothingSaid DEF Fair, Tidy, Course, Ending
  <2>5. Graded'
    <3>1. CASE OnLocal
      <4>1. stage' = "chain" /\ advanced' = [advanced EXCEPT ![phase] = advanced[phase] + AdvanceOf(phase)]
        BY <2>1, <3>1 DEF increase_time
      <4>2. /\ Present(spec.chain_validation) /\ phase \in Sets /\ advanced \in [Sets -> Int]
            /\ advanced[phase] = 0
            /\ \A k \in Sets : (k < phase => SetDone(k)) /\ (k > phase => advanced[k] = 0)
        BY <1>1, <1>2 DEF InChain
      <4>3. AdvanceOf(phase) \in Int /\ Sets \subseteq Int
        BY <4>2, LoadedChain
      <4>4. /\ advanced' \in [Sets -> Int] /\ advanced'[phase] = AdvanceOf(phase)
            /\ \A k \in Sets : k # phase => advanced'[k] = advanced[k]
        BY <4>1, <4>2, <4>3
      <4>5. \A k \in Sets : (k < phase => SetDone(k)') /\ (k > phase => advanced'[k] = 0)
        BY <1>1, <2>1, <4>2, <4>3, <4>4, GradesStay
      <4>6. InChain'
        BY <1>1, <2>1, <3>1, <4>1, <4>2, <4>4, <4>5, RecipeStays DEF InChain
      <4> QED
        BY <1>2, <2>1, <2>2, <4>1, <4>6 DEF Graded
    <3>2. CASE ~OnLocal
      <4>1. stage' = AfterChain /\ advanced' = advanced
        BY <2>1, <3>2
      <4>2. /\ Present(spec.chain_validation) /\ phase = 0 /\ advanced = still_clock
        <5>1. /\ Present(spec.chain_validation) /\ phase \in Sets /\ advanced \in [Sets -> Int] /\ ~(phase > 0)
              /\ advanced[phase] = 0 /\ \A k \in Sets : k > phase => advanced[k] = 0
          BY <1>1, <1>2, <3>2 DEF InChain
        <5>2. Sets = 0 .. Len(raw.chain[1].phases) /\ Len(raw.chain[1].phases) \in Nat
          BY <5>1, LoadedChain
        <5>3. phase = 0
          BY <5>1, <5>2
        <5>4. \A k \in Sets : advanced[k] = 0
          BY <5>1, <5>2, <5>3
        <5> QED
          BY <5>1, <5>3, <5>4 DEF still_clock
      <4>3. ChainDone'
        BY <1>1, <2>1, <3>2, <4>1, <4>2, RecipeStays DEF ChainDone
      <4>4. CASE Present(spec.playwright)
        <5>1. stage' = "serve" /\ Present(spec.playwright)'
          BY <1>1, <4>1, <4>4, RecipeStays DEF AfterChain
        <5> QED
          BY <1>2, <2>1, <2>2, <4>3, <5>1 DEF Graded
      <4>5. CASE ~Present(spec.playwright)
        <5>1. stage' = "judge" /\ SmokeDone' /\ EvaluateDone'
          BY <1>1, <4>1, <4>5, RecipeStays DEF AfterChain, SmokeDone, EvaluateDone
        <5>2. Honest'
          BY <1>2, <2>1, <2>2, <4>3, <5>1 DEF Honest, AssertDone
        <5> QED
          BY <5>1, <5>2 DEF Graded
      <4> QED
        BY <4>4, <4>5
    <3> QED
      BY <3>1, <3>2
  <2> QED
    BY <2>2, <2>3, <2>4, <2>5 DEF Fair
<1> QED
  BY <1>4, <1>5

LEMMA ChainAssertFair ==
  ASSUME Fair, Tidy, RawIsTyped, command # "validate-semantic", ChainAssert
  PROVE  Fair'
<1> DEFINE findings == run_assertions(chain, mark, AssertionsOf(phase), Offset(phase))
<1>1. /\ UNCHANGED <<setup, ws, outcome, prompt, fault, advanced>>
      /\ stage = "chain" /\ stage' \notin {"load", "begin"}
  BY DEF ChainAssert, still, loop, tooling, AfterChain
<1>2. val.evaluation = <<>> /\ val.passed /\ Clean /\ AssertDone /\ InChain
  BY <1>1 DEF Fair, Graded
<1>3. \A f \in findings : f.category = "chain"
  BY AssertionsFind
<1>4. CASE findings # {}
  <2>1. \E l : val' = [passed |-> FALSE, findings |-> val.findings \cup findings, smoke |-> val.smoke,
                     evaluation |-> val.evaluation, ledger |-> l]
    <3>1. \E l : val' = [val EXCEPT !.findings = val.findings \cup findings, !.passed = FALSE, !.ledger = l]
      BY <1>4 DEF ChainAssert
    <3> HIDE DEF findings
    <3> QED
      BY <3>1 DEF Fair, ValIsTyped
  <2>2. stage' = "judge" /\ judged' = judged
    BY <1>4 DEF ChainAssert
  <2> HIDE DEF findings
  <2>3. PICK f : f \in findings /\ f.category = "chain"
    BY <1>3, <1>4
  <2>4. ~val'.passed /\ f \in val'.findings /\ val'.evaluation = <<>> /\ ValIsTyped'
    BY <1>1, <1>2, <2>1, <2>3 DEF ValIsTyped, Optional, Absent
  <2>5. FilesThere'
    BY <1>1, <1>2, <2>2, GradesStay DEF AssertDone
  <2>6. Honest'
    BY <2>3, <2>4, <2>5 DEF Honest, GateCategories
  <2>7. ~InfraAbort' /\ AbortIsFinal'
    BY <2>4 DEF InfraAbort, AbortIsFinal, Present, Absent
  <2>8. Graded' /\ GradedSemantic'
    BY <1>1, <2>2, <2>6 DEF Graded, GradedSemantic, setup
  <2>9. RepairIsFounded' /\ PassIsEarned'
    BY <1>1, <2>7, NothingSaid DEF Fair, Tidy, Course, Ending
  <2> QED
    BY <2>4, <2>7, <2>8, <2>9 DEF Fair
<1>5. CASE findings = {}
  <2>1. /\ judged' = judged \cup {Gate("assertions", phase)}
        /\ \/ /\ phase < Len(chainValidation.phases) /\ phase' = phase + 1
              /\ stage' = "deploy" /\ val' = val
           \/ /\ ~(phase < Len(chainValidation.phases)) /\ phase' = phase
              /\ stage' = AfterChain /\ \E l : val' = [val EXCEPT !.ledger = l]
    BY <1>5 DEF ChainAssert, Judged
  <2> HIDE DEF findings
  <2>2. \E l : val' = [passed |-> val.passed, findings |-> val.findings, smoke |-> val.smoke,
                     evaluation |-> val.evaluation, ledger |-> l]
    BY <2>1 DEF Fair, ValIsTyped
  <2>3. /\ val'.passed /\ val'.findings = val.findings /\ val'.evaluation = <<>> /\ ValIsTyped'
    BY <1>1, <1>2, <2>2 DEF ValIsTyped, Optional, Absent
  <2>4. Clean' /\ AssertDone' /\ ~InfraAbort' /\ AbortIsFinal'
    <3>1. Clean' /\ ~InfraAbort'
      BY <1>2, <2>3 DEF Clean, InfraAbort, Present, Absent
    <3>2. AssertDone'
      BY <1>1, <1>2, <2>1, GradesStay
    <3> QED
      BY <3>1, <3>2 DEF AbortIsFinal
  <2>5. GradedSemantic'
    BY <1>1 DEF GradedSemantic, setup
  <2>6. RepairIsFounded' /\ PassIsEarned'
    BY <1>1, <2>4, NothingSaid DEF Fair, Tidy, Course, Ending
  <2>7. /\ Present(spec.chain_validation) /\ phase \in Sets /\ advanced \in [Sets -> Int] /\ OnLocal
        /\ Gate("deploy", phase) \in judged /\ advanced[phase] = AdvanceOf(phase)
        /\ \A k \in Sets : (k < phase => SetDone(k)) /\ (k > phase => advanced[k] = 0)
    BY <1>1, <1>2 DEF InChain
  <2>8. Sets = 0 .. Len(chainValidation.phases) /\ Len(chainValidation.phases) \in Nat
    BY <2>7, LoadedChain
  <2>9. \A k \in Sets : k <= phase => SetDone(k)'
    <3>1. \A k \in Sets : k = phase => SetDone(k)'
      BY <1>1, <2>1, <2>7, RecipeStays DEF SetDone
    <3>2. \A k \in Sets : k < phase => SetDone(k)'
      BY <1>1, <2>1, <2>7, GradesStay
    <3> QED
      BY <2>7, <2>8, <3>1, <3>2
  <2>10. CASE phase < Len(chainValidation.phases)
    <3>1. phase' = phase + 1 /\ stage' = "deploy"
      BY <2>1, <2>10
    <3>2. phase' \in Sets /\ \A k \in Sets : (k < phase' => k <= phase) /\ (k >= phase' => k > phase)
      BY <2>7, <2>8, <2>10, <3>1
    <3>3. advanced'[phase'] = 0 /\ \A k \in Sets : (k < phase' => SetDone(k)') /\ (k > phase' => advanced'[k] = 0)
      BY <1>1, <2>7, <2>8, <2>9, <3>2
    <3>4. InChain'
      BY <1>1, <2>7, <3>1, <3>2, <3>3, RecipeStays DEF InChain
    <3>5. Graded'
      BY <2>3, <2>4, <3>1, <3>4 DEF Graded
    <3> QED
      BY <2>3, <2>4, <2>5, <2>6, <3>5 DEF Fair
  <2>11. CASE ~(phase < Len(chainValidation.phases))
    <3>1. stage' = AfterChain
      BY <2>1, <2>11
    <3>2. \A k \in Sets : SetDone(k)'
      BY <2>7, <2>8, <2>9, <2>11
    <3>3. ChainDone'
      BY <1>1, <2>7, <3>2, RecipeStays DEF ChainDone
    <3>4. CASE Present(spec.playwright)
      <4>1. stage' = "serve" /\ Present(spec.playwright)'
        BY <1>1, <3>1, <3>4, RecipeStays DEF AfterChain
      <4>2. Graded'
        BY <2>3, <2>4, <3>3, <4>1 DEF Graded
      <4> QED
        BY <2>3, <2>4, <2>5, <2>6, <4>2 DEF Fair
    <3>5. CASE ~Present(spec.playwright)
      <4>1. stage' = "judge" /\ SmokeDone' /\ EvaluateDone'
        BY <1>1, <3>1, <3>5, RecipeStays DEF AfterChain, SmokeDone, EvaluateDone
      <4>2. Honest'
        BY <2>3, <2>4, <3>3, <4>1 DEF Honest, AssertDone
      <4>3. Graded'
        BY <4>1, <4>2 DEF Graded
      <4> QED
        BY <2>3, <2>4, <2>5, <2>6, <4>3 DEF Fair
    <3> QED
      BY <3>4, <3>5
  <2> QED
    BY <2>10, <2>11
<1> QED
  BY <1>4, <1>5

\* The steps between the gates, and on the way out.
LEMMA AssertErrsFair == Fair /\ Tidy /\ AssertErrs => Fair'
<1> SUFFICES ASSUME Fair, Tidy, AssertErrs PROVE Fair'
  OBVIOUS
<1>1. /\ UNCHANGED <<setup, ws, advanced, phase, val, judged, prompt>>
      /\ stage = "assert" /\ stage' = "cleanup" /\ outcome' = "error"
  BY DEF AssertErrs, still, Fail
<1>2. AbortIsFinal' /\ Graded'
  BY <1>1, JudgementStays DEF Fair, AbortIsFinal, Graded, InfraAbort, Present, Absent, setup
<1> QED
  BY <1>1, <1>2, StillFair

LEMMA StartServerFair == Fair /\ Tidy /\ command # "validate-semantic" /\ StartServer => Fair'
<1> SUFFICES ASSUME Fair, Tidy, command # "validate-semantic", StartServer PROVE Fair'
  OBVIOUS
<1>1. /\ UNCHANGED <<setup, ws, advanced, phase, val, judged, prompt>>
      /\ stage = "serve"
      /\ \/ stage' = "smoke" /\ outcome' = outcome
         \/ stage' = "cleanup" /\ outcome' = "error"
  BY DEF StartServer, still, Fail
<1>2. outcome' # "passed"
  BY <1>1 DEF Tidy, Course, Ending
<1>3. val.passed /\ Clean /\ AssertDone /\ val.evaluation = <<>> /\ ChainDone /\ Present(spec.playwright)
  BY <1>1 DEF Fair, Graded
<1>4. Clean' /\ AssertDone' /\ ChainDone' /\ Present(spec.playwright)'
  BY <1>1, <1>3, JudgementStays, GradesStay, RecipeStays
<1>5. AbortIsFinal' /\ Graded'
  BY <1>1, <1>3, <1>4 DEF AbortIsFinal, Graded, InfraAbort, Present, Absent
<1> QED
  BY <1>1, <1>2, <1>5, StillFair

LEMMA DeliverFair == Fair /\ Tidy /\ DeliverMcp => Fair'
<1> SUFFICES ASSUME Fair, Tidy, DeliverMcp PROVE Fair'
  OBVIOUS
<1>1. /\ UNCHANGED <<setup, ws, advanced, phase, val, judged, prompt, outcome>>
      /\ stage = "deliver"
      /\ \/ stage' = "stop" /\ fault'
         \/ stage' = "evaluate"
  BY DEF DeliverMcp, still, loop
<1>2. outcome' # "passed"
  BY <1>1 DEF Tidy, Course, Ending
<1>3. CASE command = "validate-semantic"
  <2>1. AbortIsFinal' /\ Graded'
    BY <1>1, <1>3 DEF AbortIsFinal, Graded, setup
  <2> QED
    BY <1>1, <1>2, <2>1, StillFair
<1>4. CASE command # "validate-semantic"
  <2>1. /\ val.passed /\ Clean /\ AssertDone /\ val.evaluation = <<>> /\ ChainDone
        /\ Present(spec.playwright) /\ SmokeDone /\ RunEvaluate
    BY <1>1, <1>4 DEF Fair, Graded
  <2>2. Clean' /\ AssertDone' /\ ChainDone' /\ Present(spec.playwright)' /\ SmokeDone' /\ RunEvaluate'
    BY <1>1, <2>1, JudgementStays, GradesStay, RecipeStays
  <2>3. fault' => Honest'
    BY <1>1, <2>1, <2>2 DEF Honest, AssertDone
  <2>4. AbortIsFinal' /\ Graded'
    BY <1>1, <2>1, <2>2, <2>3 DEF AbortIsFinal, Graded, InfraAbort, Present, Absent
  <2> QED
    BY <1>1, <1>2, <2>4, StillFair
<1> QED
  BY <1>3, <1>4

LEMMA StopFair == Fair /\ Tidy /\ StopServer => Fair'
<1> SUFFICES ASSUME Fair, Tidy, StopServer PROVE Fair'
  OBVIOUS
<1>1. /\ UNCHANGED <<setup, ws, advanced, phase, val, judged, prompt, fault>>
      /\ stage = "stop"
      /\ \/ ~fault /\ stage' = "judge" /\ outcome' = outcome
         \/ fault /\ stage' = "cleanup" /\ outcome' = "error"
  BY DEF StopServer, still, Fail, Tidy, FaultLeaves
<1>2. outcome' # "passed"
  BY <1>1 DEF Tidy, Course, Ending
<1>3. AbortIsFinal'
  BY <1>1, JudgementStays DEF Fair, AbortIsFinal, setup
<1>4. command # "validate-semantic" => Honest /\ Honest'
  BY <1>1, JudgementStays DEF Fair, Graded
<1>5. Graded'
  BY <1>1, <1>4 DEF Graded, setup
<1> QED
  BY <1>1, <1>2, <1>3, <1>5, StillFair

LEMMA LeavingFair ==
  ASSUME Fair, Tidy,
         (command = "run" /\ (NoAttempt \/ Interrupt)) \/ (command # "run" /\ Killed)
  PROVE  Fair'
<1>1. /\ UNCHANGED <<setup, ws, advanced, phase, val, judged, prompt>>
      /\ \/ stage = "begin" /\ stage' = "cleanup" /\ outcome' = "failed"
         \/ stage' = "cleanup" /\ outcome' = "interrupted"
         \/ stage' = "over" /\ outcome' = "killed" /\ command # "run"
  BY DEF NoAttempt, Interrupt, Killed, still
<1>2. AbortIsFinal'
  BY <1>1, JudgementStays DEF Fair, AbortIsFinal, setup
<1>3. Graded'
  BY <1>1 DEF Graded
<1> QED
  BY <1>1, <1>2, <1>3, StillFair

LEMMA chain_for_appFair == Fair /\ Tidy /\ command # "run" /\ chain_for_app => Fair'
<1> SUFFICES ASSUME Fair, Tidy, command # "run", chain_for_app PROVE Fair'
  OBVIOUS
<1>1. /\ UNCHANGED <<setup, ws, advanced, phase, val, judged, prompt>>
      /\ \/ /\ outcome' = outcome /\ stage \in {"boot", "deploy"}
            /\ \/ command = "validate-semantic" /\ stage = "boot" /\ stage' = "serve"
               \/ command = "validate" /\ stage = "deploy" /\ stage' = stage
         \/ stage' = "over" /\ outcome' = "error"
  BY DEF chain_for_app, ReturnsEarly
<1>2. outcome' # "passed"
  BY <1>1 DEF Tidy, Course, Ending
<1>3. AbortIsFinal'
  BY <1>1 DEF AbortIsFinal, setup
<1>4. CASE stage' = "deploy" /\ command = "validate"
  <2>1. stage = "deploy" /\ val.passed /\ Clean /\ AssertDone /\ val.evaluation = <<>> /\ InChain
    BY <1>1, <1>4 DEF Fair, Graded
  <2>2. Clean' /\ AssertDone' /\ InChain'
    BY <1>1, <1>4, <2>1, JudgementStays, GradesStay
  <2>3. Graded'
    BY <1>1, <1>4, <2>1, <2>2 DEF Graded
  <2> QED
    BY <1>1, <1>2, <1>3, <1>4, <2>3, StillFair
<1>5. CASE ~(stage' = "deploy" /\ command = "validate")
  <2>1. stage' # "begin" /\ stage' # "load" /\ Graded'
    BY <1>1, <1>5 DEF Graded, setup
  <2> QED
    BY <1>1, <1>2, <1>3, <2>1, StillFair
<1> QED
  BY <1>4, <1>5

LEMMA SemanticServerFair == Fair /\ Tidy /\ SemanticServer => Fair'
<1> SUFFICES ASSUME Fair, Tidy, SemanticServer PROVE Fair'
  OBVIOUS
<1>1. /\ UNCHANGED <<setup, ws, advanced, phase, val, judged, prompt>>
      /\ command = "validate-semantic" /\ stage = "serve" /\ stage' \in {"deliver", "over"}
      /\ outcome' = outcome \/ outcome' = "error"
  BY DEF SemanticServer, still, ReturnsEarly
<1>2. outcome' # "passed" /\ AbortIsFinal' /\ Graded'
  BY <1>1 DEF Tidy, Course, Ending, AbortIsFinal, Graded, setup
<1> QED
  BY <1>1, <1>2, StillFair

LEMMA teardownFair == Fair /\ Tidy /\ command # "run" /\ teardown => Fair'
<1> SUFFICES ASSUME Fair, Tidy, command # "run", teardown PROVE Fair'
  OBVIOUS
<1>1. /\ UNCHANGED <<setup, ws, advanced, phase, val, judged, prompt, outcome, fault>>
      /\ stage \in {"judge", "cleanup"} /\ stage' = "report"
      /\ outcome # "passed" /\ (stage = "cleanup" => outcome = "error")
  BY DEF teardown, loop, tooling, Tidy, Course, Ending
<1>2. AbortIsFinal'
  BY <1>1 DEF AbortIsFinal, setup
<1>3. stage = "judge" /\ command # "validate-semantic" => Honest'
  BY <1>1, JudgementStays DEF Fair, Graded
<1>4. Graded'
  BY <1>1, <1>3 DEF Graded, setup
<1> QED
  BY <1>1, <1>2, <1>4, StillFair

\* What was earned stays earned.
LEMMA PassStays ==
  ASSUME PassIsEarned, UNCHANGED <<setup, ws, advanced, val, judged, outcome>>
  PROVE  PassIsEarned'
<1>1. Asked' = Asked /\ AskedSeconds' = AskedSeconds /\ raw' = raw /\ command' = command
  BY RecipeStays DEF setup
<1> QED
  BY <1>1 DEF PassIsEarned

LEMMA CleanUpFair == Fair /\ Tidy /\ command = "run" /\ CleanUp => Fair'
<1> SUFFICES ASSUME Fair, Tidy, command = "run", CleanUp PROVE Fair'
  OBVIOUS
<1>1. /\ UNCHANGED <<setup, ws, advanced, phase, val, judged, prompt, outcome>>
      /\ stage = "cleanup" /\ stage' = "over"
  BY DEF CleanUp, still, loop
<1>2. PassIsEarned'
  BY <1>1, PassStays DEF Fair
<1>3. AbortIsFinal'
  BY <1>1, JudgementStays DEF Fair, AbortIsFinal, setup
<1>4. ValIsTyped' /\ Graded' /\ GradedSemantic'
  BY <1>1 DEF Fair, ValIsTyped, Graded, GradedSemantic, setup
<1>5. RepairIsFounded'
  BY <1>1, <1>3 DEF Fair, RepairIsFounded, RepairIsActionable, ScopeIsTrue, AbortIsFinal
<1> QED
  BY <1>2, <1>3, <1>4, <1>5 DEF Fair

LEMMA StutterFair == Fair /\ UNCHANGED vars => Fair'
<1> SUFFICES ASSUME Fair, UNCHANGED vars PROVE Fair'
  OBVIOUS
<1>1. /\ UNCHANGED <<setup, ws, advanced, phase, val, judged, prompt, outcome, stage, fault, command, raw>>
  BY DEF vars, setup
<1>2. PassIsEarned'
  BY <1>1, PassStays DEF Fair
<1>3. AbortIsFinal'
  BY <1>1, JudgementStays DEF Fair, AbortIsFinal
<1>4. Graded'
  <2>1. /\ (Clean => Clean') /\ (AssertDone => AssertDone') /\ (ChainDone => ChainDone') /\ (SmokeDone => SmokeDone')
        /\ (InChain => InChain') /\ (Honest => Honest')
        /\ spec' = spec /\ (RunEvaluate => RunEvaluate') /\ still_clock' = still_clock
    BY <1>1, JudgementStays, GradesStay, RecipeStays
  <2> QED
    BY <1>1, <2>1 DEF Fair, Graded
<1>5. ValIsTyped' /\ GradedSemantic'
  BY <1>1 DEF Fair, ValIsTyped, GradedSemantic
<1>6. RepairIsFounded'
  BY <1>1, JudgementStays, RecipeStays DEF Fair, RepairIsFounded, RepairIsActionable, ScopeIsTrue
<1> QED
  BY <1>2, <1>3, <1>4, <1>5, <1>6 DEF Fair

\* The browser and the validator.
LEMMA SmokeFair == Fair /\ Tidy /\ command # "validate-semantic" /\ Smoke => Fair'
<1> SUFFICES ASSUME Fair, Tidy, command # "validate-semantic", Smoke PROVE Fair'
  OBVIOUS
<1>1. /\ UNCHANGED <<setup, ws, advanced, phase, prompt, outcome, fault>>
      /\ stage = "smoke" /\ judged \subseteq judged'
  BY DEF Smoke, still, loop, tooling, Judged
<1>2. /\ val.passed /\ Clean /\ AssertDone /\ val.evaluation = <<>> /\ ChainDone /\ Present(spec.playwright)
  BY SMTT(120), <1>1 DEF Fair, Graded
<1>3. PICK tool : LET all    == val.findings \cup run_gate(gate[1], ws.pages, tool)
                      passed == \A f \in all : f.category = "agent"
                  IN /\ \E m : val' = [val EXCEPT !.findings = all, !.passed = passed, !.smoke = m]
                     /\ stage' = IF passed /\ RunEvaluate THEN "deliver" ELSE "stop"
                     /\ passed => judged' = judged \cup {Gate("smoke", 0)}
  BY ZenonT(120) DEF Smoke, Judged
<1> DEFINE found == run_gate(gate[1], ws.pages, tool)
           all == val.findings \cup found
           passed == \A f \in all : f.category = "agent"
<1>4. \A f \in found : f.category = "playwright"
  BY GateFinds
<1>5. /\ \E m : val' = [val EXCEPT !.findings = all, !.passed = passed, !.smoke = m]
      /\ stage' = IF passed /\ RunEvaluate THEN "deliver" ELSE "stop"
      /\ passed => judged' = judged \cup {Gate("smoke", 0)}
  BY <1>3
<1> HIDE DEF found
<1>6. passed \in BOOLEAN /\ (passed <=> found = {})
  BY <1>2, <1>4 DEF Clean
<1>7. all = val.findings \cup found
  OBVIOUS
<1> HIDE DEF all, passed
<1>8. \E m : val' = [passed |-> passed, findings |-> all, smoke |-> m,
                   evaluation |-> val.evaluation, ledger |-> val.ledger]
  BY <1>5 DEF Fair, ValIsTyped
<1>9. (val'.passed <=> passed) /\ val'.findings = all /\ val'.evaluation = <<>> /\ ValIsTyped' /\ ~InfraAbort'
  <2>1. stage' # "load"
    BY <1>5
  <2> QED
    BY <1>2, <1>6, <1>8, <2>1 DEF ValIsTyped, Optional, Absent, InfraAbort, Present
<1>10. /\ AssertDone' /\ ChainDone' /\ FilesThere' /\ Present(spec.playwright)'
       /\ RunEvaluate' <=> RunEvaluate
  BY <1>1, <1>2, GradesStay, RecipeStays DEF AssertDone
<1>11. AbortIsFinal'
  BY <1>9 DEF AbortIsFinal
<1>12. Graded'
  <2>1. CASE passed
    <3>1. Clean' /\ SmokeDone'
      BY <1>2, <1>5, <1>6, <1>7, <1>9, <2>1 DEF Clean, SmokeDone
    <3>2. CASE RunEvaluate
      BY <1>5, <1>9, <1>10, <2>1, <3>1, <3>2 DEF Graded
    <3>3. CASE ~RunEvaluate
      <4>1. EvaluateDone'
        BY <1>10, <3>3 DEF EvaluateDone
      <4>2. Honest'
        BY <1>9, <1>10, <2>1, <3>1, <4>1 DEF Honest
      <4> QED
        BY <1>5, <2>1, <3>3, <4>2 DEF Graded
    <3> QED
      BY <3>2, <3>3
  <2>2. CASE ~passed
    <3>1. PICK f \in found : f.category = "playwright"
      BY <1>4, <1>6, <2>2
    <3>2. Honest'
      BY <1>7, <1>9, <1>10, <2>2, <3>1 DEF Honest, GateCategories
    <3> QED
      BY <1>5, <2>2, <3>2 DEF Graded
  <2> QED
    BY <2>1, <2>2
<1>13. GradedSemantic'
  BY <1>1 DEF GradedSemantic, setup
<1>14. RepairIsFounded' /\ PassIsEarned'
  <2>1. stage' # "begin"
    BY <1>5
  <2> QED
    BY <1>1, <1>11, <2>1, NothingSaid DEF Fair, Tidy, Course, Ending
<1> QED
  BY <1>9, <1>11, <1>12, <1>13, <1>14 DEF Fair

LEMMA EvaluateFair == Fair /\ Tidy /\ command = "run" /\ Evaluate => Fair'
<1> SUFFICES ASSUME Fair, Tidy, command = "run", Evaluate PROVE Fair'
  OBVIOUS
<1>1. /\ UNCHANGED <<setup, ws, advanced, phase, prompt, outcome>>
      /\ stage = "evaluate" /\ stage' = "stop" /\ judged \subseteq judged'
  BY DEF Evaluate, still, loop, Judged
<1>2. /\ val.passed /\ Clean /\ AssertDone /\ val.evaluation = <<>> /\ ChainDone
      /\ Present(spec.playwright) /\ SmokeDone /\ RunEvaluate /\ ~fault
  BY <1>1 DEF Fair, Graded, Tidy, FaultLeaves, Ending
<1>3. AssertDone' /\ ChainDone' /\ SmokeDone' /\ FilesThere'
  BY <1>1, <1>2, GradesStay DEF AssertDone
<1>4. /\ outcome' # "passed" /\ command' = "run"
  BY <1>1 DEF Tidy, Course, Ending, setup
<1>5. PICK reply \in Replies, written \in BOOLEAN :
        LET evaluation == evaluate_run(reply, cycle.starting + attempts - 1)
        IN IF ~written
           THEN fault' = TRUE /\ UNCHANGED <<val, judged>>
           ELSE /\ \E l : val' = [val EXCEPT
                            !.ledger = l,
                            !.passed = evaluation.passed,
                            !.findings = IF evaluation.passed THEN @ ELSE @ \cup evaluation.findings,
                            !.evaluation = <<evaluation>>]
                /\ evaluation.passed => judged' = judged \cup {Gate("evaluate", 0)}
                /\ UNCHANGED fault
  BY DEF Evaluate, Judged
<1>6. CASE ~written
  <2>1. fault' = TRUE /\ UNCHANGED <<val, judged>>
    BY <1>5, <1>6
  <2>2. Clean' /\ ~InfraAbort'
    BY <1>2, <2>1 DEF Clean, InfraAbort, Present, Absent
  <2>3. Honest'
    BY <1>2, <1>3, <2>1, <2>2 DEF Honest
  <2>4. AbortIsFinal' /\ Graded' /\ GradedSemantic'
    BY <1>1, <1>4, <2>2, <2>3 DEF AbortIsFinal, Graded, GradedSemantic
  <2>5. ValIsTyped'
    BY <1>1, <2>1 DEF Fair, ValIsTyped
  <2>6. RepairIsFounded' /\ PassIsEarned'
    BY <1>1, <1>4, <2>4, NothingSaid DEF Fair
  <2> QED
    BY <2>4, <2>5, <2>6 DEF Fair
<1>7. CASE written
  <2> DEFINE e == evaluate_run(reply, cycle.starting + attempts - 1)
             all == IF e.passed THEN val.findings ELSE val.findings \cup e.findings
  <2>1. /\ e.passed \in BOOLEAN /\ e.infra \in BOOLEAN
        /\ e.passed => ~e.infra
        /\ e.passed \/ e.infra \/ \E f \in e.findings : f.category = "eval"
        /\ \A f \in e.findings : f.category \in {"eval", "eval-infra"}
    BY SMTT(120), EvaluationIsGrounded
  <2>2. /\ \E l : val' = [val EXCEPT !.ledger = l, !.passed = e.passed, !.findings = all,
                                   !.evaluation = <<e>>]
        /\ e.passed => judged' = judged \cup {Gate("evaluate", 0)}
        /\ fault' = fault
    BY <1>5, <1>7
  <2>3. all = (IF e.passed THEN val.findings ELSE val.findings \cup e.findings)
    OBVIOUS
  <2> HIDE DEF e, all
  <2>4. \E l : val' = [passed |-> e.passed, findings |-> all, smoke |-> val.smoke,
                     evaluation |-> <<e>>, ledger |-> l]
    BY <2>2 DEF Fair, ValIsTyped
  <2>5. val'.passed = e.passed /\ val'.findings = all /\ val'.evaluation = <<e>>
    BY <2>4
  <2>6. ValIsTyped'
    BY <1>1, <2>1, <2>4 DEF ValIsTyped, Optional
  <2>7. InfraAbort' <=> e.infra
    BY <2>5 DEF InfraAbort, Present, Absent
  <2>8. AbortIsFinal'
    BY <1>1, <1>2, <2>2 DEF AbortIsFinal
  <2>9. Honest'
    <3>1. CASE e.passed
      <4>1. Clean' /\ EvaluateDone'
        BY <1>2, <2>2, <2>3, <2>5, <3>1 DEF Clean, EvaluateDone
      <4> QED
        BY <1>3, <2>5, <3>1, <4>1 DEF Honest
    <3>2. CASE ~e.passed
      <4>1. InfraAbort' \/ \E f \in val'.findings : f.category \notin {"agent", "eval-infra"}
        BY <2>1, <2>3, <2>5, <2>7, <3>2
      <4> QED
        BY <1>3, <2>5, <3>2, <4>1 DEF Honest
    <3> QED
      BY <2>1, <3>1, <3>2
  <2>10. Graded' /\ GradedSemantic'
    BY <1>1, <1>4, <2>9 DEF Graded, GradedSemantic
  <2>11. RepairIsFounded' /\ PassIsEarned'
    BY <1>1, <1>4, <2>8, NothingSaid DEF Fair
  <2> QED
    BY <2>6, <2>8, <2>10, <2>11 DEF Fair
<1> QED
  BY <1>6, <1>7

LEMMA SemanticEvaluateFair == Fair /\ Tidy /\ SemanticEvaluate => Fair'
<1> SUFFICES ASSUME Fair, Tidy, SemanticEvaluate PROVE Fair'
  OBVIOUS
<1>1. /\ UNCHANGED <<setup, prompt, outcome>> /\ command = "validate-semantic"
      /\ stage = "evaluate" /\ stage' = "stop"
  BY DEF SemanticEvaluate, still, loop
<1>2. PICK reply \in Replies :
        LET e == evaluate_run(reply, cycle.starting)
        IN /\ val' = [val EXCEPT !.passed = e.passed, !.findings = e.findings, !.evaluation = <<e>>]
           /\ e.passed => judged' = judged \cup {Gate("evaluate", 0)}
  BY DEF SemanticEvaluate, Judged
<1> DEFINE e == evaluate_run(reply, cycle.starting)
<1>3. e.passed \in BOOLEAN /\ (e.passed => e.findings = {})
  BY EvaluationIsGrounded
<1>4. /\ val' = [val EXCEPT !.passed = e.passed, !.findings = e.findings, !.evaluation = <<e>>]
      /\ e.passed => judged' = judged \cup {Gate("evaluate", 0)}
  BY <1>2
<1> HIDE DEF e
<1>5. val' = [passed |-> e.passed, findings |-> e.findings, smoke |-> val.smoke,
              evaluation |-> <<e>>, ledger |-> val.ledger]
  BY <1>4 DEF Fair, ValIsTyped
<1>6. ValIsTyped'
  BY <1>1, <1>3, <1>5 DEF ValIsTyped, Optional
<1>7. GradedSemantic'
  BY <1>3, <1>4, <1>5 DEF GradedSemantic
<1>8. AbortIsFinal' /\ Graded'
  BY <1>1 DEF AbortIsFinal, Graded, setup
<1>9. RepairIsFounded' /\ PassIsEarned'
  BY <1>1, <1>8, NothingSaid DEF Fair, Tidy, Course, Ending
<1> QED
  BY <1>6, <1>7, <1>8, <1>9 DEF Fair

\* The judgement: a pass was earned, a repair has something to repair.
LEMMA JudgedEarned ==
  ASSUME Honest, Tidy, RawIsTyped, command # "validate-semantic", val.passed \/ val.findings = {},
         Clean, ~fault, command = "run" => EvaluateDone, stage \notin {"load", "over"}
  PROVE  /\ Asked \subseteq judged
         /\ Present(ChainAsked(raw)) => advanced = AskedSeconds
         /\ raw.requiredFiles \subseteq ws.files
<1>1. \A f \in val.findings : f.category \notin GateCategories
  BY DEF Clean, GateCategories
<1>2. AssertDone /\ ChainDone /\ SmokeDone
  BY <1>1 DEF Honest
<1>3. ~Refused(raw)
  BY DEF Tidy, Course
<1>4. EvaluateDone
  BY DEF EvaluateDone, RunEvaluate
<1> QED
  BY <1>2, <1>3, <1>4, Earned DEF AssertDone, FilesThere

LEMMA RepairFounded ==
  ASSUME Honest, Tidy, RawIsTyped, command = "run", ~val.passed, ~InfraAbort, stage = "judge",
         UNCHANGED <<setup, ws, val, judged>>, NEW attempt, NEW reset, NEW ledger, NEW repeated,
         prompt' = build_repair_prompt(val.findings, attempt, reset, ledger, repeated)
  PROVE  RepairIsFounded'
<1> DEFINE actionable == {f \in val.findings : f.category # "eval-infra"}
           categories == {f.category : f \in actionable} \ {"eval-infra"}
<1>1. prompt'.kind = "repair" /\ prompt'.findings = actionable /\ prompt'.scope = classify_repair_scope(actionable)
  BY DEF build_repair_prompt
<1>2. PICK f \in val.findings : f.category \notin {"agent", "eval-infra"}
  BY DEF Honest
<1>3. f \in actionable
  BY <1>2
<1>4. \A g \in actionable : g \in val.findings /\ g.category # "eval-infra"
  OBVIOUS
<1>5. \A g \in val.findings : g.category # "eval-infra" => g.category \in categories
  OBVIOUS
<1>6. prompt'.scope = CASE categories = {"eval"} -> "eval-scoped"
                        [] /\ categories \subseteq {"commands", "playwright", "eval", "chain"}
                           /\ categories \ {"eval"} # {} -> "runtime"
                        [] OTHER -> "broad"
  BY <1>1 DEF classify_repair_scope
<1> HIDE DEF actionable, categories
<1>7. ~InfraAbort'
  BY DEF InfraAbort
<1>8. RepairIsActionable'
  BY <1>1, <1>2, <1>3, <1>4, <1>7 DEF RepairIsActionable
<1>9. ASSUME prompt'.scope = "eval-scoped" PROVE (Asked \ {Gate("evaluate", 0)} \subseteq judged)'
  <2>1. categories = {"eval"}
    BY <1>6, <1>9
  <2>2. \A g \in val.findings : g.category \notin GateCategories
    BY <1>5, <2>1 DEF GateCategories
  <2>3. AssertDone /\ ChainDone /\ SmokeDone
    BY <2>2 DEF Honest
  <2>4. ~Refused(raw)
    BY DEF Tidy, Course
  <2>5. Asked \ {Gate("evaluate", 0)} \subseteq judged
    BY <2>3, <2>4, Earned
  <2> QED
    BY <2>5, RecipeStays DEF Gate
<1>10. ASSUME prompt'.scope = "runtime"
       PROVE  /\ (raw.requiredFiles \subseteq ws.files)'
              /\ \A g \in val'.findings : g.category \notin {"agent", "secret", "static"}
  <2>1. categories \subseteq {"commands", "playwright", "eval", "chain"}
    BY <1>6, <1>10
  <2>2. \A g \in val.findings : g.category \in {"commands", "playwright", "eval", "chain", "eval-infra"}
    BY <1>5, <2>1
  <2>3. FilesThere
    BY <2>2 DEF Honest
  <2> QED
    BY <2>2, <2>3 DEF FilesThere, setup
<1> QED
  BY <1>8, <1>9, <1>10 DEF RepairIsFounded, ScopeIsTrue

LEMMA JudgeFair == Fair /\ Tidy /\ RawIsTyped /\ command = "run" /\ Judge => Fair'
<1> SUFFICES ASSUME Fair, Tidy, RawIsTyped, command = "run", Judge PROVE Fair'
  OBVIOUS
<1> DEFINE now == compute_delta(delta.open, val.findings)
           statuses == apply_status(val.findings, now, previous)
<1>1. /\ UNCHANGED <<setup, ws, advanced, phase, val, judged, fault>> /\ stage = "judge"
      /\ \/ /\ ~InfraAbort /\ ~val.passed /\ Repair(statuses)
         \/ /\ stage' = "cleanup" /\ prompt' = prompt
            /\ outcome' = CASE InfraAbort -> "aborted"
                             [] ~InfraAbort /\ val.passed -> "passed"
                             [] OTHER -> "failed"
  BY DEF Judge, still, tooling
<1>2. Honest /\ ~fault /\ outcome = "running" /\ command' = "run"
  BY <1>1 DEF Fair, Graded, Tidy, Course, FaultLeaves, Ending, setup
<1>3. ValIsTyped' /\ GradedSemantic' /\ Graded'
  <2>1. stage' \in {"begin", "cleanup"}
    BY <1>1 DEF Repair
  <2> QED
    BY <1>1, <1>2, <2>1 DEF Fair, ValIsTyped, GradedSemantic, Graded
<1>4. InfraAbort' <=> InfraAbort
  BY <1>1, JudgementStays
<1>5. CASE ~InfraAbort /\ ~val.passed /\ Repair(statuses)
  <2>1. /\ outcome' = outcome
        /\ prompt' = build_repair_prompt(val.findings, cycle.starting + attempts,
                        Present(snapshot), val.ledger, repeated_from(val.ledger, last_ledger))
    BY <1>5, OpenIsFound DEF Repair
  <2>2. RepairIsFounded'
    BY <1>1, <1>2, <1>5, <2>1, RepairFounded
  <2>3. AbortIsFinal' /\ PassIsEarned'
    BY <1>2, <1>4, <1>5, <2>1 DEF AbortIsFinal, PassIsEarned
  <2> QED
    BY <1>3, <2>2, <2>3 DEF Fair
<1>6. CASE ~(~InfraAbort /\ ~val.passed /\ Repair(statuses))
  <2>1. /\ stage' = "cleanup" /\ prompt' = prompt
        /\ outcome' = CASE InfraAbort -> "aborted"
                         [] ~InfraAbort /\ val.passed -> "passed"
                         [] OTHER -> "failed"
    BY <1>1, <1>6
  <2>2. AbortIsFinal'
    BY <1>4, <2>1 DEF AbortIsFinal
  <2>3. RepairIsFounded'
    BY <1>1, <2>1, <2>2 DEF Fair, RepairIsFounded, RepairIsActionable, ScopeIsTrue, AbortIsFinal
  <2>4. PassIsEarned'
    <3>1. SUFFICES ASSUME outcome' = "passed" PROVE PassIsEarned'
      BY DEF PassIsEarned
    <3>2. val.passed /\ ~InfraAbort
      BY <2>1, <3>1 DEF Fair, ValIsTyped
    <3>3. Clean /\ EvaluateDone
      BY <1>2, <3>2 DEF Honest
    <3>4. /\ Asked \subseteq judged
          /\ Present(ChainAsked(raw)) => advanced = AskedSeconds
          /\ raw.requiredFiles \subseteq ws.files
      BY <1>1, <1>2, <3>2, <3>3, JudgedEarned
    <3>5. Asked' = Asked /\ AskedSeconds' = AskedSeconds /\ raw' = raw
      BY <1>1, RecipeStays DEF setup
    <3> QED
      BY <1>1, <3>3, <3>4, <3>5 DEF PassIsEarned, Clean
  <2> QED
    BY <1>3, <2>2, <2>3, <2>4 DEF Fair
<1> QED
  BY <1>5, <1>6

LEMMA ReportFair == Fair /\ Tidy /\ RawIsTyped /\ command # "run" /\ Report => Fair'
<1> SUFFICES ASSUME Fair, Tidy, RawIsTyped, command # "run", Report PROVE Fair'
  OBVIOUS
<1>1. /\ UNCHANGED <<setup, ws, advanced, phase, val, judged, prompt, fault>>
      /\ stage = "report" /\ stage' = "over"
      /\ outcome' = "passed" => /\ outcome # "error"
                               /\ \/ command = "validate" /\ val.findings = {}
                                  \/ command = "validate-semantic" /\ val.passed
  BY DEF Report, still, tooling, RawIsTyped
<1>2. ValIsTyped' /\ GradedSemantic' /\ Graded' /\ AbortIsFinal'
  BY <1>1 DEF Fair, ValIsTyped, GradedSemantic, Graded, AbortIsFinal, setup
<1>3. RepairIsFounded'
  BY <1>1, <1>2 DEF Fair, RepairIsFounded, RepairIsActionable, ScopeIsTrue, AbortIsFinal
<1>4. PassIsEarned'
  <2>1. SUFFICES ASSUME outcome' = "passed" PROVE PassIsEarned'
    BY DEF PassIsEarned
  <2>2. Asked' = Asked /\ AskedSeconds' = AskedSeconds /\ raw' = raw /\ command' = command
    BY <1>1, RecipeStays DEF setup
  <2>3. CASE command = "validate"
    <3>1. Honest /\ val.findings = {} /\ Clean /\ ~fault
      BY <1>1, <2>1, <2>3 DEF Fair, Graded, Clean, Tidy, Course, FaultLeaves, Ending
    <3>2. /\ Asked \subseteq judged
          /\ Present(ChainAsked(raw)) => advanced = AskedSeconds
          /\ raw.requiredFiles \subseteq ws.files
      BY <1>1, <2>3, <3>1, JudgedEarned
    <3> QED
      BY <1>1, <2>2, <3>1, <3>2 DEF PassIsEarned
  <2>4. CASE command = "validate-semantic"
    <3>1. val.findings = {} /\ Gate("evaluate", 0) \in judged
      BY <1>1, <2>1, <2>4 DEF Fair, GradedSemantic
    <3>2. Asked = {Gate("evaluate", 0)}
      BY <2>4 DEF Asked
    <3> QED
      BY <1>1, <2>2, <2>4, <3>1, <3>2 DEF PassIsEarned
  <2> QED
    BY <1>1, <2>1, <2>3, <2>4
<1> QED
  BY <1>2, <1>3, <1>4 DEF Fair

LEMMA ValidateLoadsFair == Fair /\ Tidy /\ (ValidateLoad \/ SemanticLoad) => Fair'
<1> SUFFICES ASSUME Fair, Tidy, ValidateLoad \/ SemanticLoad PROVE Fair'
  OBVIOUS
<1>1. /\ UNCHANGED <<setup, ws, phase, judged, prompt>> /\ stage = "load" /\ val' = fresh_val
      /\ \/ command = "validate" /\ stage' = "assert" /\ outcome' = outcome /\ advanced' = still_clock
         \/ command = "validate-semantic" /\ stage' = "boot" /\ outcome' = outcome
         \/ command # "run" /\ stage' = "over" /\ outcome' = "error"
  BY DEF ValidateLoad, SemanticLoad, still, ReturnsEarly
<1>2. phase = 0
  BY <1>1 DEF Fair, Graded
<1>3. Clean' /\ ~InfraAbort' /\ val'.evaluation = <<>> /\ ~val'.passed /\ ValIsTyped'
  BY <1>1 DEF fresh_val, Clean, InfraAbort, Present, Absent, ValIsTyped, Optional
<1>4. AbortIsFinal' /\ GradedSemantic'
  BY <1>3 DEF AbortIsFinal, GradedSemantic
<1>5. Graded'
  BY <1>1, <1>2, <1>3, RecipeStays DEF Graded, setup
<1>6. RepairIsFounded' /\ PassIsEarned'
  BY <1>1, <1>4, NothingSaid DEF Fair, Tidy, Course, Ending
<1> QED
  BY <1>3, <1>4, <1>5, <1>6 DEF Fair

LEMMA FairKept == Fair /\ Tidy /\ RawIsTyped /\ [CommandNext]_vars => Fair'
<1> SUFFICES ASSUME Fair, Tidy, RawIsTyped, [CommandNext]_vars PROVE Fair'
  OBVIOUS
<1>1. command = "run" /\ Load => Fair'
  BY LoadFair
<1>2. command = "run" /\ BeginAttempt => Fair'
  BY BeginAttemptFair
<1>3. command = "run" /\ Generate => Fair'
  BY GenerateFair
<1>4. stage \in {"assert", "deploy", "chain", "smoke"} => command # "validate-semantic"
  BY DEF Tidy, Course
<1>s. /\ AssertStage => stage = "assert"
      /\ ChainDeploy => stage = "deploy"
      /\ ChainAssert => stage = "chain"
      /\ Smoke => stage = "smoke"
  BY Zenon DEF AssertStage, ChainDeploy, ChainAssert, Smoke
<1>5. AssertStage => Fair'
  BY <1>4, <1>s, AssertFair
<1>6. ChainDeploy => Fair'
  BY <1>4, <1>s, ChainDeployFair
<1>7. ChainAssert => Fair'
  BY <1>4, <1>s, ChainAssertFair
<1>8. Smoke => Fair'
  BY <1>4, <1>s, SmokeFair
<1>9. command # "validate-semantic" /\ StartServer => Fair'
  BY StartServerFair
<1>10. (command = "run" /\ (NoAttempt \/ Interrupt)) \/ (command # "run" /\ Killed) => Fair'
  BY LeavingFair
<1>11. UNCHANGED vars => Fair'
  BY StutterFair
<1>12. CASE command = "run" /\ Next
  <2>1. Steps \/ Interrupt \/ UNCHANGED vars
    BY <1>12, Zenon DEF Next, Over
  <2>2. Steps => Fair'
    BY <1>12, <1>1, <1>2, <1>3, <1>5, <1>6, <1>7, <1>8, <1>9, <1>10, AssertErrsFair, DeliverFair, StopFair,
       CleanUpFair, EvaluateFair, JudgeFair, Zenon DEF Steps
  <2> QED
    BY <1>10, <1>11, <1>12, <2>1, <2>2
<1>13. CASE command # "run" /\ (ValidateSteps \/ Killed \/ Over)
  <2>1. Over => UNCHANGED vars
    BY Zenon DEF Over
  <2>2. command = "validate" => command # "validate-semantic"
    OBVIOUS
  <2>3. ValidateSteps => Fair'
    BY <1>13, <2>2, <1>5, <1>6, <1>7, <1>8, <1>9, AssertErrsFair, DeliverFair, StopFair, chain_for_appFair,
       SemanticServerFair, teardownFair, SemanticEvaluateFair, ReportFair, ValidateLoadsFair, Zenon
       DEF ValidateSteps
  <2> QED
    BY <1>10, <1>11, <1>13, <2>1, <2>3
<1> QED
  BY <1>11, <1>12, <1>13 DEF CommandNext

LEMMA FairBegins == Init => Fair
<1> SUFFICES ASSUME Init PROVE Fair
  OBVIOUS
<1>1. /\ stage = "load" /\ outcome = "running" /\ phase = 0
      /\ val = [fresh_val EXCEPT !.findings = not_run_yet.findings]
      /\ prompt = build_continue_prompt(0)
  BY DEF Init
<1>2. prompt.kind = "continue"
  BY <1>1 DEF build_continue_prompt
<1>3. val = [passed |-> FALSE, findings |-> not_run_yet.findings, smoke |-> "none",
             evaluation |-> <<>>, ledger |-> <<>>]
  BY <1>1 DEF fresh_val
<1>4. ValIsTyped /\ ~InfraAbort /\ ~val.passed
  BY <1>3 DEF ValIsTyped, Optional, Absent, InfraAbort, Present
<1>5. Graded /\ GradedSemantic /\ AbortIsFinal
  BY <1>1, <1>4 DEF Graded, GradedSemantic, AbortIsFinal
<1>6. RepairIsFounded /\ PassIsEarned
  BY <1>1, <1>2 DEF RepairIsFounded, RepairIsActionable, ScopeIsTrue, PassIsEarned
<1> QED
  BY <1>4, <1>5, <1>6 DEF Fair

(* The inductive invariant of the three commands: at every stage the gates    *)
(* before it, of the recipe as written, have been judged clean in this very   *)
(* attempt, and server, MCP file and key file are where that stage has them.  *)
THEOREM CommandIsFair == CommandSpec => [](Fair /\ Tidy /\ Started)
<1>1. Init => Fair /\ Tidy /\ Started
  BY FairBegins, TidyBegins
<1>2. Fair /\ Tidy /\ Started /\ [CommandNext]_vars => Fair' /\ Tidy' /\ Started'
  BY FairKept, TidyKept, StartedKept, OwnTyped, RawTyped
<1> QED
  BY <1>1, <1>2, PTL DEF CommandSpec

(* A run that passes has run, in its last attempt, every gate the recipe asks *)
(* for and found it clean, given each set of assertions its time once, and    *)
(* left the files required; so has a validation for the gates it runs.        *)
THEOREM PassesAreEarned == CommandSpec => []PassIsEarned
<1>1. Fair => PassIsEarned
  BY DEF Fair
<1> QED
  BY <1>1, CommandIsFair, PTL

(* Every repair is given something of the app's to repair, what the prompt    *)
(* says of the gates before it is so, and a validator that could not judge    *)
(* ends the loop.                                                             *)
THEOREM RepairsAreFounded == CommandSpec => []RepairIsFounded
<1>1. Fair => RepairIsFounded
  BY DEF Fair
<1> QED
  BY <1>1, CommandIsFair, PTL

-----------------------------------------------------------------------------
(* Types.                                                                  *)

Stages == {"load", "begin", "generate", "assert", "deploy", "chain", "serve", "smoke",
           "deliver", "evaluate", "stop", "judge", "cleanup", "boot", "report", "over"}
Outcomes == {"running", "passed", "failed", "aborted", "error", "interrupted", "killed"}

Staged  == stage \in Stages /\ outcome \in Outcomes
Counted == attempts \in 0 .. MaxAttempts(raw)
Sorted  == /\ prompt.kind \in {"session", "continue", "repair"}
           /\ \A f \in val.findings \cup prompt.findings : f.category \in Categories

\* The chain, where the attempt began in it, and what its snapshot holds.
Submitted ==
  /\ chain \in Seq(Txs) /\ Len(chain) <= MAX_TXS /\ mark \in 0 .. Len(chain)
  /\ snapshot = <<>> \/ /\ snapshot = <<snapshot[1]>> /\ snapshot[1] \in Seq(Txs)
                        /\ Len(snapshot[1]) <= MAX_TXS /\ mark = Len(snapshot[1])

Files == Optional(cache) /\ Optional(given) /\ Optional(mcp)

Types == Staged /\ Counted /\ Sorted /\ Submitted /\ Files

LEMMA OptionLength == ASSUME NEW option, Optional(option) PROVE Len(option) <= 1
BY DEF Optional, Absent

LEMMA TypesAreTypeOK == Types /\ Tidy => TypeOK
<1> SUFFICES ASSUME Types, Tidy PROVE TypeOK
  OBVIOUS
<1>1. Len(cache) <= 1 /\ Len(given) <= 1 /\ Len(mcp) <= 1
  BY OptionLength DEF Types, Files
<1>2. Len(snapshot) <= 1
  BY DEF Types, Submitted
<1>3. Len(chain) <= MAX_TXS /\ mark \in 0 .. Len(chain)
  BY DEF Types, Submitted
<1> QED
  BY <1>1, <1>2, <1>3, Zenon DEF Types, Staged, Stages, Outcomes, Counted, Sorted, TypeOK, Tidy,
     Course, ServerStops, FaultLeaves, KeyIsSwept

\* Every step goes to a stage and an outcome there is.
LEMMA StagedKept == Staged /\ Tidy /\ [CommandNext]_vars => Staged'
<1> SUFFICES ASSUME Staged, Tidy, [CommandNext]_vars PROVE Staged'
  OBVIOUS
<1> USE DEF Staged, Stages, Outcomes
<1>1. CASE Load \/ BeginAttempt \/ NoAttempt \/ Generate \/ Interrupt \/ CleanUp
  BY <1>1 DEF Load, BeginAttempt, NoAttempt, Generate, Interrupt, CleanUp, loop
<1>2. CASE AssertStage \/ AssertErrs
  BY <1>2 DEF AssertStage, AssertErrs, Fail, AfterChain, loop
<1>3. CASE ChainDeploy
  BY <1>3 DEF ChainDeploy, AfterChain, loop
<1>4. CASE ChainAssert
  BY <1>4 DEF ChainAssert, AfterChain, loop
<1>5. CASE StartServer \/ DeliverMcp \/ StopServer
  BY <1>5 DEF StartServer, DeliverMcp, StopServer, Fail, loop
<1>6. CASE Smoke
  BY SMTT(120), <1>6 DEF Smoke, loop
<1>7. CASE Evaluate \/ SemanticEvaluate
  BY <1>7 DEF Evaluate, SemanticEvaluate, loop
<1>8. CASE Judge
  BY <1>8 DEF Judge, Repair, loop
<1>9. CASE ValidateLoad \/ SemanticLoad \/ chain_for_app \/ SemanticServer
  BY <1>9 DEF ValidateLoad, SemanticLoad, chain_for_app, SemanticServer, ReturnsEarly
<1>10. CASE teardown \/ Killed
  BY <1>10 DEF teardown, Killed, loop
<1>11. CASE Report
  BY <1>11 DEF Report, Tidy, Course
<1>12. CASE UNCHANGED vars
  BY <1>12 DEF vars
<1> QED
  BY <1>1, <1>2, <1>3, <1>4, <1>5, <1>6, <1>7, <1>8, <1>9, <1>10, <1>11, <1>12, Zenon
     DEF CommandNext, ValidateSteps, Next, Steps, Over

\* Somebody submits a transaction, if there is room for it.
LEMMA SubmitsOne ==
  ASSUME Submitted, NEW sent, Submits(sent), UNCHANGED <<mark, snapshot>>
  PROVE  Submitted'
<1>1. sent \in {<<>>} \cup {<<tx>> : tx \in Txs} /\ (Len(chain) < MAX_TXS \/ sent = <<>>) /\ chain' = chain \o sent
  BY DEF Submits
<1>2. CASE sent = <<>>
  BY <1>1, <1>2 DEF Submitted
<1>3. CASE \E tx \in Txs : sent = <<tx>>
  <2>1. PICK tx \in Txs : sent = <<tx>>
    BY <1>3
  <2>2. chain' = Append(chain, tx)
    BY <1>1, <2>1 DEF Submitted
  <2>3. chain' \in Seq(Txs) /\ Len(chain') = Len(chain) + 1 /\ Len(chain) \in Nat
    BY <2>2 DEF Submitted
  <2>4. Len(chain) < MAX_TXS
    BY <1>1, <2>1
  <2>5. Len(chain') <= MAX_TXS /\ mark \in 0 .. Len(chain')
    BY <2>3, <2>4, MaxTxsIsNat DEF Submitted
  <2> QED
    BY <2>3, <2>5 DEF Submitted
<1> QED
  BY <1>1, <1>2, <1>3

\* The chain moves by a submission, or goes back to the snapshot.
LEMMA SubmittedKept == Submitted /\ [CommandNext]_vars => Submitted'
<1> SUFFICES ASSUME Submitted, [CommandNext]_vars PROVE Submitted'
  OBVIOUS
<1>1. CASE UNCHANGED <<chain, mark, snapshot>>
  BY <1>1 DEF Submitted
<1>2. CASE \E sent : Submits(sent) /\ UNCHANGED <<mark, snapshot>>
  BY <1>2, SubmitsOne
<1>3. CASE BeginAttempt
  <2>1. chain' = chain /\ mark' = Len(chain) /\ (snapshot' = <<chain>> \/ snapshot' = <<>>)
    BY <1>3 DEF BeginAttempt
  <2>2. Len(chain) \in 0 .. Len(chain)
    BY DEF Submitted
  <2> QED
    BY <2>1, <2>2 DEF Submitted
<1>4. CASE Judge
  <2>1. /\ UNCHANGED <<mark, snapshot>>
        /\ chain' = chain \/ (Present(snapshot) /\ chain' = snapshot[1])
    BY <1>4 DEF Judge, Repair
  <2>2. CASE Present(snapshot) /\ chain' = snapshot[1]
    <3>1. /\ chain' \in Seq(Txs) /\ Len(chain') <= MAX_TXS /\ mark = Len(chain')
      BY <2>1, <2>2 DEF Submitted, Present, Absent
    <3>2. mark \in 0 .. Len(chain')
      BY SMTT(120), <3>1
    <3> QED
      BY <2>1, <2>2, <3>1, <3>2 DEF Submitted
  <2> QED
    BY <1>1, <2>1, <2>2
<1> USE DEF loop, setup, still
<1>5. Generate \/ ChainDeploy \/ Smoke \/ Evaluate \/ SemanticEvaluate =>
        \E sent : Submits(sent) /\ UNCHANGED <<mark, snapshot>>
  BY DEF Generate, ChainDeploy, Smoke, Evaluate, SemanticEvaluate
<1>6. Load \/ NoAttempt \/ AssertStage \/ AssertErrs \/ ChainAssert \/ StartServer \/ DeliverMcp \/ StopServer
        => UNCHANGED <<chain, mark, snapshot>>
  BY DEF Load, NoAttempt, AssertStage, AssertErrs, ChainAssert, StartServer, DeliverMcp, StopServer
<1>7. CleanUp \/ Interrupt \/ ValidateLoad \/ SemanticLoad \/ chain_for_app \/ SemanticServer \/ teardown
        \/ Report \/ Killed \/ UNCHANGED vars => UNCHANGED <<chain, mark, snapshot>>
  BY DEF CleanUp, Interrupt, ValidateLoad, SemanticLoad, chain_for_app, SemanticServer, teardown, Report,
         Killed, vars
<1> QED
  BY <1>1, <1>2, <1>3, <1>4, <1>5, <1>6, <1>7, Zenon DEF CommandNext, ValidateSteps, Next, Steps, Over

\* Only the beginning of an attempt counts one.
LEMMA CountedKept == Counted /\ RawIsTyped /\ [CommandNext]_vars => Counted'
<1> SUFFICES ASSUME Counted, RawIsTyped, [CommandNext]_vars PROVE Counted'
  OBVIOUS
<1>1. MaxAttempts(raw) \in Nat
  BY DEF MaxAttempts, RawIsTyped
<1>2. CASE UNCHANGED <<attempts, raw>>
  BY <1>2 DEF Counted
<1>3. CASE BeginAttempt
  <2>1. raw' = raw /\ attempts' = attempts + 1 /\ attempts < MaxAttempts(raw)
    BY SMTT(120), <1>3 DEF BeginAttempt, still, setup, spec, Loaded
  <2> QED
    BY <1>1, <2>1 DEF Counted
<1> USE DEF loop, setup, still
<1>4. Load \/ NoAttempt \/ Generate \/ AssertStage \/ AssertErrs \/ ChainDeploy \/ ChainAssert
        \/ StartServer \/ Smoke => UNCHANGED <<attempts, raw>>
  BY ZenonT(120) DEF Load, NoAttempt, Generate, AssertStage, AssertErrs, ChainDeploy, ChainAssert, StartServer, Smoke
<1>5. DeliverMcp \/ Evaluate \/ StopServer \/ Judge \/ CleanUp \/ Interrupt \/ SemanticEvaluate
        => UNCHANGED <<attempts, raw>>
  BY DEF DeliverMcp, Evaluate, StopServer, Judge, CleanUp, Interrupt, SemanticEvaluate
<1>6. ValidateLoad \/ SemanticLoad \/ chain_for_app \/ SemanticServer \/ teardown
        \/ Report \/ Killed \/ UNCHANGED vars => UNCHANGED <<attempts, raw>>
  BY SMTT(120) DEF ValidateLoad, SemanticLoad, chain_for_app, SemanticServer, teardown, Report, Killed, vars
<1> QED
  BY <1>2, <1>3, <1>4, <1>5, <1>6, Zenon DEF CommandNext, ValidateSteps, Next, Steps, Over

\* What a stage adds to the findings is of its own category.
LEMMA SortedKept == Sorted /\ ValIsTyped /\ [CommandNext]_vars => Sorted'
<1> SUFFICES ASSUME Sorted, ValIsTyped, [CommandNext]_vars PROVE Sorted'
  OBVIOUS
<1>1. CASE prompt' = prompt /\ val'.findings = val.findings
  BY <1>1 DEF Sorted
<1>2. CASE prompt' = prompt /\ \A f \in val'.findings : f \in val.findings \/ f.category \in Categories
  BY <1>2 DEF Sorted
<1>3. CASE Load
  <2>1. /\ val' = val
        /\ \/ prompt' = prompt
           \/ prompt' = build_continue_prompt(cycle.cycle)
           \/ prompt' = build_session_prompt(spec, 0)
    BY <1>3 DEF Load
  <2>2. /\ build_continue_prompt(cycle.cycle).kind = "continue"
        /\ build_continue_prompt(cycle.cycle).findings = {}
        /\ build_session_prompt(spec, 0).kind = "session"
        /\ build_session_prompt(spec, 0).findings = {}
    BY DEF build_continue_prompt, build_session_prompt
  <2> QED
    BY <2>1, <2>2 DEF Sorted
<1>4. CASE BeginAttempt \/ ValidateLoad \/ SemanticLoad
  <2>1. prompt' = prompt /\ val' = fresh_val
    BY <1>4 DEF BeginAttempt, ValidateLoad, SemanticLoad
  <2> QED
    BY <2>1 DEF Sorted, fresh_val
<1>5. CASE Judge
  <2>1. /\ val' = val
        /\ \/ prompt' = prompt
           \/ \E a, r, l, n : prompt' = build_repair_prompt(val.findings, a, r, l, n)
    BY <1>5, OpenIsFound DEF Judge, Repair
  <2>2. ASSUME NEW a, NEW r, NEW l, NEW n
        PROVE  LET p == build_repair_prompt(val.findings, a, r, l, n)
               IN p.kind = "repair" /\ p.findings \subseteq val.findings
    BY DEF build_repair_prompt
  <2> QED
    BY <2>1, <2>2 DEF Sorted
<1> USE DEF loop
<1>6. CASE Generate
  <2>1. prompt' = prompt
    BY <1>6 DEF Generate
  <2>2. PICK failed : val' = [val EXCEPT !.findings =
            {Finding(f, <<>>, cycle.starting + attempts - 1, "agent") : f \in failed}]
    BY <1>6 DEF Generate
  <2>3. val'.findings = {Finding(f, <<>>, cycle.starting + attempts - 1, "agent") : f \in failed}
    BY <2>2 DEF ValIsTyped
  <2> QED
    BY <1>2, <2>1, <2>3, FindingIs DEF Categories
<1>7. CASE AssertStage
  <2> DEFINE found == assert_run(ws, spec, config, cache).findings
  <2>1. prompt' = prompt /\ \E p : val' = [val EXCEPT !.findings = found \cup val.findings, !.passed = p]
    BY <1>7 DEF AssertStage
  <2>2. \A f \in found : f.category \in {"files", "static", "secret", "commands"}
    BY AssertFinds
  <2> HIDE DEF found
  <2>3. val'.findings = found \cup val.findings
    BY <2>1 DEF ValIsTyped
  <2> QED
    BY <1>2, <2>1, <2>2, <2>3 DEF Categories
<1>8. CASE ChainDeploy
  <2>1. prompt' = prompt
    BY <1>8 DEF ChainDeploy
  <2> DEFINE ledger == IF OnLocal THEN Since(chain', mark) ELSE <<>>
             found(failing) == {Finding("chain-deploy", <<c>>, 0, "commands") : c \in failing}
  <2>2. \E failing : \/ val' = val
                     \/ val' = [val EXCEPT !.findings = @ \cup found(failing), !.passed = FALSE,
                                           !.ledger = ledger]
    BY <1>8 DEF ChainDeploy
  <2>3. ASSUME NEW failing, NEW f \in found(failing) PROVE f.category = "commands"
    <3>1. PICK c \in failing : f = Finding("chain-deploy", <<c>>, 0, "commands")
      BY <2>3
    <3> QED
      BY <3>1, FindingIs
  <2> HIDE DEF found, ledger
  <2>4. PICK failing : \/ val' = val
                      \/ val' = [val EXCEPT !.findings = @ \cup found(failing), !.passed = FALSE,
                                            !.ledger = ledger]
    BY <2>2
  <2> DEFINE all == val.findings \cup found(failing)
  <2>5. CASE val' = [val EXCEPT !.findings = all, !.passed = FALSE, !.ledger = ledger]
    <3> HIDE DEF all
    <3>1. val' = [passed |-> FALSE, findings |-> all, smoke |-> val.smoke, evaluation |-> val.evaluation,
                  ledger |-> ledger]
      BY <2>5 DEF ValIsTyped
    <3>2. val'.findings = all
      BY <3>1
    <3> QED
      BY <1>2, <2>1, <2>3, <3>2 DEF Categories, all
  <2> QED
    BY <1>1, <2>1, <2>4, <2>5
<1>9. CASE ChainAssert
  <2> DEFINE found == run_assertions(chain, mark, AssertionsOf(phase), Offset(phase))
  <2>1. /\ prompt' = prompt
        /\ \/ val' = val
           \/ val' = [val EXCEPT !.ledger = Since(chain, mark)]
           \/ val' = [val EXCEPT !.findings = val.findings \cup found, !.passed = FALSE,
                                 !.ledger = Since(chain, mark)]
    BY <1>9 DEF ChainAssert
  <2>2. \A f \in found : f.category = "chain"
    BY AssertionsFind
  <2> DEFINE all == val.findings \cup found
             ledger == Since(chain, mark)
  <2>3. \A f \in all : f \in val.findings \/ f.category \in Categories
    BY <2>2 DEF Categories
  <2>4. \/ val' = val
        \/ val' = [val EXCEPT !.ledger = ledger]
        \/ val' = [val EXCEPT !.findings = all, !.passed = FALSE, !.ledger = ledger]
    BY <2>1
  <2> HIDE DEF found, all, ledger
  <2>5. CASE val' = [val EXCEPT !.ledger = ledger]
    <3>1. val' = [passed |-> val.passed, findings |-> val.findings, smoke |-> val.smoke,
                  evaluation |-> val.evaluation, ledger |-> ledger]
      BY <2>5 DEF ValIsTyped
    <3>2. val'.findings = val.findings
      BY <3>1
    <3> QED
      BY <1>1, <2>1, <3>2
  <2>6. CASE val' = [val EXCEPT !.findings = all, !.passed = FALSE, !.ledger = ledger]
    <3>1. val' = [passed |-> FALSE, findings |-> all, smoke |-> val.smoke, evaluation |-> val.evaluation,
                  ledger |-> ledger]
      BY <2>6 DEF ValIsTyped
    <3>2. val'.findings = all
      BY <3>1
    <3> QED
      BY <1>2, <2>1, <2>3, <3>2
  <2> QED
    BY <1>1, <2>1, <2>4, <2>5, <2>6
<1>10. CASE Smoke
  <2>1. prompt' = prompt
    BY <1>10 DEF Smoke
  <2> DEFINE found(tool) == run_gate(gate[1], ws.pages, tool)
             all(tool) == val.findings \cup found(tool)
             passed(tool) == \A f \in all(tool) : f.category = "agent"
             smoke(tool) == IF all(tool) = val.findings THEN "passed" ELSE "failed"
  <2>2. \E tool \in Tools :
          val' = [val EXCEPT !.findings = all(tool), !.passed = passed(tool), !.smoke = smoke(tool)]
    BY <1>10 DEF Smoke
  <2>3. \A tool \in Tools : \A f \in found(tool) : f.category = "playwright"
    BY GateFinds
  <2> HIDE DEF found, passed, smoke
  <2>4. PICK tool \in Tools :
          val' = [val EXCEPT !.findings = all(tool), !.passed = passed(tool), !.smoke = smoke(tool)]
    BY <2>2
  <2>5. \A f \in all(tool) : f \in val.findings \/ f.category \in Categories
    BY <2>3 DEF Categories
  <2> HIDE DEF all
  <2>6. val' = [passed |-> passed(tool), findings |-> all(tool), smoke |-> smoke(tool),
                evaluation |-> val.evaluation, ledger |-> val.ledger]
    BY <2>4 DEF ValIsTyped
  <2>7. val'.findings = all(tool)
    BY <2>6
  <2> QED
    BY <1>2, <2>1, <2>5, <2>7
<1>11. CASE Evaluate
  <2> DEFINE result(reply) == evaluate_run(reply, cycle.starting + attempts - 1)
             ledger == Since(chain, mark)
  <2>1. prompt' = prompt
    BY <1>11 DEF Evaluate
  <2>2. \E reply \in Replies :
          \/ val' = val
          \/ val' = [val EXCEPT !.ledger = ledger, !.passed = result(reply).passed,
                       !.findings = IF result(reply).passed THEN @ ELSE @ \cup result(reply).findings,
                       !.evaluation = <<result(reply)>>]
    BY <1>11 DEF Evaluate
  <2>3. \A reply \in Replies : \A f \in result(reply).findings : f.category \in {"eval", "eval-infra"}
    BY EvaluationIsGrounded
  <2> HIDE DEF result, ledger
  <2>4. PICK reply \in Replies :
          \/ val' = val
          \/ val' = [val EXCEPT !.ledger = ledger, !.passed = result(reply).passed,
                       !.findings = IF result(reply).passed THEN @ ELSE @ \cup result(reply).findings,
                       !.evaluation = <<result(reply)>>]
    BY <2>2
  <2> DEFINE all == IF result(reply).passed THEN val.findings ELSE val.findings \cup result(reply).findings
  <2>5. \A f \in all : f \in val.findings \/ f.category \in Categories
    BY <2>3 DEF Categories
  <2>6. CASE val' = [val EXCEPT !.ledger = ledger, !.passed = result(reply).passed, !.findings = all,
                                !.evaluation = <<result(reply)>>]
    <3> HIDE DEF all
    <3>1. val' = [passed |-> result(reply).passed, findings |-> all, smoke |-> val.smoke,
                  evaluation |-> <<result(reply)>>, ledger |-> ledger]
      BY <2>6 DEF ValIsTyped
    <3>2. val'.findings = all
      BY <3>1
    <3> QED
      BY <1>2, <2>1, <2>5, <3>2
  <2> QED
    BY <1>1, <2>1, <2>4, <2>6
<1>15. CASE SemanticEvaluate
  <2> DEFINE result(reply) == evaluate_run(reply, cycle.starting)
  <2>1. prompt' = prompt
    BY <1>15 DEF SemanticEvaluate
  <2>2. \E reply \in Replies :
          val' = [val EXCEPT !.passed = result(reply).passed, !.findings = result(reply).findings,
                             !.evaluation = <<result(reply)>>]
    BY <1>15 DEF SemanticEvaluate
  <2>3. \A reply \in Replies : \A f \in result(reply).findings : f.category \in {"eval", "eval-infra"}
    BY EvaluationIsGrounded
  <2> HIDE DEF result
  <2>4. PICK reply \in Replies :
          val' = [val EXCEPT !.passed = result(reply).passed, !.findings = result(reply).findings,
                             !.evaluation = <<result(reply)>>]
    BY <2>2
  <2>5. val'.findings = result(reply).findings
    BY <2>4 DEF ValIsTyped
  <2> QED
    BY <1>2, <2>1, <2>3, <2>5 DEF Categories
<1>12. NoAttempt \/ AssertErrs \/ StartServer \/ DeliverMcp \/ StopServer \/ CleanUp \/ Interrupt
         => UNCHANGED <<prompt, val>>
  BY DEF NoAttempt, AssertErrs, StartServer, DeliverMcp, StopServer, CleanUp, Interrupt
<1>13. chain_for_app \/ SemanticServer \/ teardown \/ Report \/ Killed \/ UNCHANGED vars => UNCHANGED <<prompt, val>>
  BY DEF chain_for_app, SemanticServer, teardown, Report, Killed, vars
<1>14. UNCHANGED <<prompt, val>> => Sorted'
  BY <1>1
<1> QED
  BY <1>3, <1>4, <1>5, <1>6, <1>7, <1>8, <1>9, <1>10, <1>11, <1>12, <1>13, <1>14, <1>15, Zenon
     DEF CommandNext, ValidateSteps, Next, Steps, Over

\* A file is there or not.
LEMMA FilesKept ==
  ASSUME Files, OwnIsTyped, FileIsLent', OwnIsTyped', [CommandNext]_vars
  PROVE  Files'
<1>1. Optional(cache)'
  <2> USE DEF loop
  <2>1. CASE AssertStage
    <3>1. cache' = cache \/ cache' = <<ws.manifest>>
      BY SMTT(120), <2>1 DEF AssertStage, assert_run, commands, install_fingerprint
    <3> QED
      BY <3>1 DEF Files, Optional, Absent
  <2>2. Load \/ BeginAttempt \/ NoAttempt \/ Generate \/ AssertErrs \/ ChainDeploy \/ ChainAssert \/ StartServer
          \/ Smoke \/ DeliverMcp => cache' = cache
    BY ZenonT(120) DEF Load, BeginAttempt, NoAttempt, Generate, AssertErrs, ChainDeploy, ChainAssert, StartServer, Smoke,
       DeliverMcp
  <2>3. Evaluate \/ StopServer \/ Judge \/ CleanUp \/ Interrupt \/ ValidateLoad \/ SemanticLoad \/ chain_for_app
          \/ SemanticServer \/ SemanticEvaluate => cache' = cache
    BY DEF Evaluate, StopServer, Judge, CleanUp, Interrupt, ValidateLoad, SemanticLoad, chain_for_app,
       SemanticServer, SemanticEvaluate
  <2>4. teardown \/ Report \/ Killed \/ UNCHANGED vars => cache' = cache
    BY DEF teardown, Report, Killed, vars
  <2>5. cache' = cache => Optional(cache)'
    BY DEF Files
  <2> QED
    BY <2>1, <2>2, <2>3, <2>4, <2>5, Zenon DEF CommandNext, ValidateSteps, Next, Steps, Over
<1>2. (Optional(given) /\ Optional(mcp))'
  <2>1. Lent' => (Optional(given) /\ Optional(mcp))'
    BY DEF Lent, OwnIsTyped, Optional, Absent, mcp_install
  <2>2. CASE ~(stage' = "over" /\ command' = "run")
    BY <2>1, <2>2 DEF FileIsLent
  <2>3. CASE stage' = "over" /\ command' = "run"
    <3>1. UNCHANGED vars \/ Next
      BY <2>3, SetupStays, Zenon DEF CommandNext, setup
    <3>2. CASE Load \/ UNCHANGED vars \/ CleanUp
      <4>1. \/ UNCHANGED <<mcp, given>>
            \/ mcp' = strip_harness_entry(mcp) /\ given' = given
        BY <3>2 DEF Load, CleanUp, vars, tooling
      <4> QED
        BY <4>1 DEF Files, strip_harness_entry, Optional, Present, Absent
    <3>3. ~(BeginAttempt \/ NoAttempt \/ Generate \/ AssertStage \/ AssertErrs)
      BY <2>3 DEF BeginAttempt, NoAttempt, Generate, AssertStage, AssertErrs, Fail, AfterChain
    <3>4. ~(ChainDeploy \/ ChainAssert \/ StartServer \/ Smoke \/ DeliverMcp)
      BY <2>3 DEF ChainDeploy, ChainAssert, StartServer, Smoke, DeliverMcp, Fail, AfterChain
    <3>5. ~(Evaluate \/ StopServer \/ Judge \/ Interrupt)
      BY <2>3 DEF Evaluate, StopServer, Judge, Interrupt, Fail, Repair
    <3> QED
      BY <3>1, <3>2, <3>3, <3>4, <3>5, Zenon DEF Next, Steps, Over
  <2> QED
    BY <2>2, <2>3
<1> QED
  BY <1>1, <1>2 DEF Files

LEMMA TypesBegin == Init => Types
<1> SUFFICES ASSUME Init PROVE Types
  OBVIOUS
<1>1. Started /\ RawIsTyped /\ OwnIsTyped
  BY TidyBegins, RawTyped, OwnTyped
<1>a. /\ stage = "load" /\ outcome = "running" /\ attempts = 0 /\ cache = <<>> /\ given = <<>> /\ mcp = own
      /\ chain = <<>> /\ mark = 0 /\ snapshot = <<>>
  BY Zenon DEF Init
<1>2. Staged
  BY <1>a DEF Staged, Stages, Outcomes
<1>3. Counted
  BY <1>1, <1>a DEF Counted, MaxAttempts, RawIsTyped
<1>4. Sorted
  <2>1. prompt = build_continue_prompt(0) /\ val = [fresh_val EXCEPT !.findings = not_run_yet.findings]
    BY DEF Init
  <2>2. prompt.kind = "continue" /\ prompt.findings = {}
    BY <2>1 DEF build_continue_prompt
  <2>3. not_run_yet.findings = {Finding("generator-not-run", <<>>, 0, "agent")}
    BY DEF not_run_yet
  <2>4. val.findings = not_run_yet.findings
    BY <2>1 DEF fresh_val
  <2> QED
    BY <2>2, <2>3, <2>4, FindingIs DEF Sorted, Categories
<1>5. Submitted
  BY <1>a, MaxTxsIsNat DEF Submitted
<1>6. Files
  BY <1>1, <1>a DEF Files, OwnIsTyped, Optional, Absent
<1> QED
  BY <1>2, <1>3, <1>4, <1>5, <1>6 DEF Types

(* Every variable of `hanvil run' and of the validations keeps its type: no   *)
(* attempt beyond the recipe's, no finding of an unknown category, no mark or *)
(* snapshot beyond the chain.                                                 *)
THEOREM AttemptStagesTypes == CommandSpec => []TypeOK
<1>1. Init => Types
  BY TypesBegin
<1>2. Types /\ Fair /\ Tidy /\ Started /\ Fair' /\ Tidy' /\ Started' /\ [CommandNext]_vars => Types'
  <2>1. Started => OwnIsTyped /\ RawIsTyped
    BY OwnTyped, RawTyped
  <2>2. OwnIsTyped /\ [CommandNext]_vars => OwnIsTyped'
    BY SetupStays DEF OwnIsTyped, setup
  <2> QED
    BY <2>1, <2>2, StagedKept, CountedKept, SortedKept, SubmittedKept, FilesKept, Zenon DEF Types, Fair, Tidy
<1>3. Types /\ Tidy => TypeOK
  BY TypesAreTypeOK
<1> QED
  BY <1>1, <1>2, <1>3, CommandIsFair, PTL DEF CommandSpec
=============================================================================
