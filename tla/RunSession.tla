----------------------------- MODULE RunSession -----------------------------
(***************************************************************************)
(* The life of one `hanvil run` session: the git branch it works on, the   *)
(* session.json that survives the process, the attempt loop that moves     *)
(* both, and the ways a run stops in the middle of a step: an error        *)
(* returned with `?`, Ctrl-C, and the death of the process.                *)
(*                                                                         *)
(* One recipe is run again and again in one workspace.  Branch 0 is the    *)
(* developer's own branch, branches 1.. are harness/run-<slug>-<id>, each  *)
(* created by one start, so a session is known by its branch.  A commit's  *)
(* sha is modelled by the history it names.  The recipe has chain          *)
(* validation on, so every run provisions a signer.                        *)
(***************************************************************************)
EXTENDS Naturals, Sequences, SequencesExt, FiniteSets

CONSTANTS
    Slices,         \* spec.prd_paths.len(): the increments of the recipe
    MaxAttempts,    \* max_attempts: the attempt budget of one increment
    FindingIds,     \* finding ids an attempt may report
    AgentIds,       \* those of category Agent, which do not fail a gate
    SweepBack,      \* chainValidation.sweepBack
    MaxBranches,    \* bound: harness branches created
    MaxCycles,      \* bound: --continue cycles of a session
    MaxTotal,       \* bound: attempts of a session over all its cycles
    MaxAsides       \* bound: the developer's edits, the agent's checkouts, and
                    \* the commits of either

ASSUME SessionConstants ==
    /\ Slices \in Nat \ {0}
    /\ MaxAttempts \in Nat
    /\ AgentIds \subseteq FindingIds
    /\ SweepBack \in BOOLEAN
    /\ MaxBranches \in Nat /\ MaxCycles \in Nat
    /\ MaxTotal \in Nat /\ MaxAsides \in Nat

VARIABLES
    branch,     \* the branch checked out
    history,    \* branch -> its commits, oldest first
    dirty,      \* what git status lists asides the runtime paths
    sessions,   \* branch -> session.json, for the readable ones
    keys,       \* branch -> cycle whose signer chain-signer.json names, or None
    proc,       \* the run in progress
    delivered,  \* history variable: increments a session has seen pass
    ended,      \* history variable: how each session's last run ended
    asides      \* edits, checkouts and commits that count against MaxAsides

vars == <<branch, history, dirty, sessions, keys, proc, delivered, ended, asides>>

Base == 0
Harness == 1..MaxBranches
None == Slices + MaxCycles + 1   \* an Option that is None

(* A change is "agent" or "user" work, or a "secret" path of either.       *)
Changes == {"agent", "user", "secret"}

(* A checkpoint commit carries its session, its attempt and what it holds; *)
(* any other commit is "own": made by the developer or by the agent.       *)
Checkpoint == [by : Harness, attempt : Nat, holds : SUBSET Changes]
Own == [by : {Base}, attempt : {0}, holds : {{}}]

Genesis == [attempt |-> 0, signers |-> {}]

GateStatus == {"pending", "passed", "failed", "aborted"}

NewSession(sha, baseline) ==
    [cycle |-> 0, last_attempt |-> 0, last_checkpoint_sha |-> sha,
     gate_status |-> "pending", baseline |-> baseline, slice_index |-> None,
     open |-> {}, chain |-> Genesis]

(* The state of the process when no run is in progress.                    *)
NoRun == [pc |-> "idle", branch |-> Base, is_continue |-> FALSE, cycle |-> 0,
          attempts |-> 0, this_cycle |-> 0, slice |-> 0, open |-> {},
          passed |-> FALSE, infra |-> FALSE, all_passed |-> TRUE, ok |-> TRUE,
          signed |-> FALSE, chain |-> Genesis]

At(pc) == proc.pc = pc
Session == sessions[proc.branch]

(* session::update_session: read, patch, write back.                       *)
Update(s) == sessions' = [sessions EXCEPT ![proc.branch] = s]

Fresh == Cardinality(DOMAIN history)   \* short_id: a name not taken yet

Init ==
    /\ branch = Base
    /\ history = [b \in {Base} |-> <<>>]
    /\ dirty = {}
    /\ sessions = [b \in {} |-> Genesis]
    /\ keys = [b \in {} |-> None]
    /\ proc = NoRun
    /\ delivered = [b \in {} |-> {}]
    /\ ended = [b \in {} |-> "never"]
    /\ asides = 0

(* A report stops speaking for a branch that gets other commits.           *)
Touched == ended' = [b \in DOMAIN ended |->
                       IF history'[b] # history[b] /\ ended[b] \in {"passed", "failed"}
                       THEN "touched" ELSE ended[b]]

Extend(f, x, y) == [z \in DOMAIN f \union {x} |-> IF z = x THEN y ELSE f[z]]

-----------------------------------------------------------------------------
(* Preparing a session.                                                    *)

(* start_session up to the baseline: a clean tree, then a new branch cut   *)
(* from HEAD, with no session.json yet.  Chosen by --new, or because the   *)
(* current branch is not a harness branch.                                 *)
StartSession(force_new) ==
    /\ At("idle")
    /\ force_new \/ branch = Base
    /\ dirty = {}
    /\ Fresh \in Harness
    /\ history' = Extend(history, Fresh, history[branch])
    /\ branch' = Fresh
    /\ proc' = [NoRun EXCEPT !.pc = "branched", !.branch = Fresh]
    /\ keys' = Extend(keys, Fresh, None)
    /\ delivered' = Extend(delivered, Fresh, {})
    /\ ended' = Extend(ended, Fresh, "never")
    /\ UNCHANGED <<dirty, sessions, asides>>

(* The baseline commands ran; session.json is written either way, and a    *)
(* failure refuses the run with the harness branch still checked out.      *)
Baseline(passed) ==
    /\ At("branched")
    /\ sessions' = Extend(sessions, proc.branch,
                          NewSession(history[proc.branch],
                                     IF passed THEN "passed" ELSE "failed"))
    /\ proc' = IF passed
               THEN [proc EXCEPT !.pc = "prepared"]
               ELSE NoRun
    /\ ended' = [ended EXCEPT ![proc.branch] = IF passed THEN @ ELSE "refused"]
    /\ UNCHANGED <<branch, history, dirty, keys, delivered, asides>>

(* The session.json that names this branch: one that was written and is    *)
(* not torn.                                                               *)
find_matching_session(b) == b \in DOMAIN sessions

(* Mutants: the dirty tree, and the moved HEAD, are not refused.           *)
MayContinueDirty(b) ==
    /\ find_matching_session(b)
    /\ history[b] = sessions[b].last_checkpoint_sha
MayContinueMoved(b) ==
    /\ find_matching_session(b)
    /\ dirty = {}

(* What continue_session asks of branch b before it resumes.               *)
MayContinue(b) ==
    /\ find_matching_session(b)
    /\ dirty = {}
    /\ history[b] = sessions[b].last_checkpoint_sha

(* reload_chain: the chain the resumed run works on.                       *)
Reload(b) == sessions[b].chain

Resume(b) ==
    /\ sessions[b].cycle < MaxCycles
    /\ sessions' = [sessions EXCEPT ![b].cycle = @ + 1,
                                    ![b].gate_status = "pending"]
    /\ proc' = [NoRun EXCEPT
                  !.pc = "prepared", !.branch = b, !.is_continue = TRUE,
                  !.cycle = sessions[b].cycle + 1,
                  !.attempts = sessions[b].last_attempt,
                  !.open = sessions[b].open,
                  !.chain = Reload(b)]

(* decide_branch_action: the current branch is this recipe's.              *)
ContinueSession ==
    /\ At("idle")
    /\ branch \in Harness
    /\ MayContinue(branch)
    /\ Resume(branch)
    /\ UNCHANGED <<branch, history, dirty, keys, delivered, ended, asides>>

(* --continue b: checked out first, whether or not it is then refused, by  *)
(* the session or by the doctor's checks.                                  *)
ContinueBranch(b) ==
    /\ At("idle")
    /\ b \in DOMAIN history \ {Base}
    /\ dirty = {}
    /\ branch' = b
    /\ \E preflight \in BOOLEAN :
         IF preflight /\ MayContinue(b) THEN Resume(b) ELSE UNCHANGED <<sessions, proc>>
    /\ UNCHANGED <<history, dirty, keys, delivered, ended, asides>>

FirstSlice ==
    IF proc.is_continue /\ Session.slice_index # None
    THEN IF Session.slice_index < Slices THEN Session.slice_index ELSE Slices - 1
    ELSE 0

(* chain::provision: reuse the signer of the key file when the chain has   *)
(* it, otherwise drop the file and create an account and a file.           *)
Provision ==
    /\ At("prepared")
    /\ LET b == proc.branch
           reused == keys[b] \in proc.chain.signers
       IN  /\ keys' = [keys EXCEPT ![b] = IF reused THEN @ ELSE proc.cycle]
           /\ proc' = [proc EXCEPT
                         !.pc = "loop", !.slice = FirstSlice, !.signed = TRUE,
                         !.chain.signers = IF reused THEN @
                                           ELSE @ \union {proc.cycle}]
    /\ UNCHANGED <<branch, history, dirty, sessions, delivered, ended, asides>>

-----------------------------------------------------------------------------
(* The attempt loop: run_loop, once for each increment.                    *)

(* An attempt begins and the agent works: it leaves changes, may commit    *)
(* some itself, and may leave another branch checked out.                  *)
Generate(work, commits, to) ==
    /\ At("loop")
    /\ proc.this_cycle < MaxAttempts
    /\ proc.attempts < MaxTotal
    /\ proc' = [proc EXCEPT !.pc = "generated", !.attempts = @ + 1,
                            !.this_cycle = @ + 1]
    /\ dirty' = dirty \union work
    /\ branch' = to
    /\ LET aside == commits \/ to # branch
       IN  /\ aside => asides < MaxAsides
           /\ asides' = IF aside THEN asides + 1 ELSE asides
    /\ history' = IF commits
                  THEN [history EXCEPT ![to] = Append(@, [by |-> Base, attempt |-> 0,
                                                          holds |-> {}])]
                  ELSE history
    /\ Touched
    /\ UNCHANGED <<sessions, keys, delivered>>

(* run_validation_stages and compute_delta: the verdict and the ids open.  *)
(* A passing attempt can still have findings about the agent.              *)
Validate(passed, infra, ids) ==
    /\ At("generated")
    /\ passed => ids \subseteq AgentIds /\ ~infra
    /\ proc' = [proc EXCEPT !.pc = "judged", !.passed = passed,
                            !.infra = infra, !.open = ids]
    /\ UNCHANGED <<branch, history, dirty, sessions, keys, delivered, ended, asides>>

(* write_state_dump: the chain as the attempt left it, and its path in     *)
(* session.json; a dump that cannot be written is only reported.           *)
WriteStateDump(written) ==
    /\ At("judged")
    /\ proc' = [proc EXCEPT !.pc = "dumped"]
    /\ IF written
       THEN Update([Session EXCEPT !.chain = [attempt |-> proc.attempts,
                                              signers |-> proc.chain.signers]])
       ELSE UNCHANGED sessions
    /\ UNCHANGED <<branch, history, dirty, keys, delivered, ended, asides>>

(* git::commit_attempt: everything git status lists but the secrets.       *)
CommitAttempt ==
    /\ At("dumped")
    /\ LET staged == dirty \ {"secret"}
       IN  /\ history' = IF staged = {} THEN history
                         ELSE [history EXCEPT ![branch] =
                                 Append(@, [by |-> proc.branch,
                                            attempt |-> proc.attempts,
                                            holds |-> staged])]
           /\ dirty' = dirty \ staged
    /\ proc' = [proc EXCEPT !.pc = "committed"]
    /\ Touched
    /\ UNCHANGED <<branch, sessions, keys, delivered, asides>>

(* session::record_checkpoint, with HEAD of whatever is checked out.       *)
RecordCheckpoint ==
    /\ At("committed")
    /\ Update([Session EXCEPT !.last_attempt = proc.attempts,
                              !.last_checkpoint_sha = history[branch],
                              !.gate_status = IF proc.passed THEN "passed" ELSE "failed"])
    /\ delivered' = [delivered EXCEPT ![proc.branch] =
                       IF proc.passed THEN @ \union {proc.slice} ELSE @]
    /\ proc' = [proc EXCEPT !.pc = IF proc.passed \/ proc.infra
                                   THEN "finish" ELSE "loop"]
    /\ UNCHANGED <<branch, history, dirty, keys, ended, asides>>

(* The budget is spent: the while condition is false.                      *)
BudgetSpent ==
    /\ At("loop")
    /\ proc.this_cycle >= MaxAttempts
    /\ proc' = [proc EXCEPT !.pc = "finish"]
    /\ UNCHANGED <<branch, history, dirty, sessions, keys, delivered, ended, asides>>

(* Mutants: the increment after this one is saved; the last is not last.   *)
NextSliceEarly ==
    /\ At("finish")
    /\ Update([Session EXCEPT !.slice_index = IF proc.slice + 1 < Slices
                                             THEN proc.slice + 1 ELSE proc.slice])
    /\ proc' = IF proc.passed /\ proc.slice + 1 < Slices
               THEN [proc EXCEPT !.pc = "loop", !.slice = @ + 1, !.this_cycle = 0,
                                 !.open = {}, !.passed = FALSE, !.infra = FALSE]
               ELSE [proc EXCEPT !.pc = "report", !.all_passed = @ /\ proc.passed]
    /\ UNCHANGED <<branch, history, dirty, keys, delivered, ended, asides>>
NextSliceLate ==
    /\ At("finish")
    /\ Update([Session EXCEPT !.slice_index = proc.slice])
    /\ proc' = IF proc.passed /\ proc.slice < Slices
               THEN [proc EXCEPT !.pc = "loop", !.slice = @ + 1, !.this_cycle = 0,
                                 !.open = {}, !.passed = FALSE, !.infra = FALSE]
               ELSE [proc EXCEPT !.pc = "report", !.all_passed = @ /\ proc.passed]
    /\ UNCHANGED <<branch, history, dirty, keys, delivered, ended, asides>>

(* drive, after run_loop: the increment is saved; the next one begins with *)
(* a new budget and no open ids, or this was the last.                     *)
NextSlice ==
    /\ At("finish")
    /\ Update([Session EXCEPT !.slice_index = proc.slice])
    /\ proc' = IF proc.passed /\ proc.slice + 1 < Slices
               THEN [proc EXCEPT !.pc = "loop", !.slice = @ + 1, !.this_cycle = 0,
                                 !.open = {}, !.passed = FALSE, !.infra = FALSE]
               ELSE [proc EXCEPT !.pc = "report", !.all_passed = @ /\ proc.passed]
    /\ UNCHANGED <<branch, history, dirty, keys, delivered, ended, asides>>

(* The last update_session of drive.                                       *)
SaveReport ==
    /\ At("report")
    /\ Update([Session EXCEPT
                 !.last_attempt = proc.attempts,
                 !.last_checkpoint_sha = history[branch],
                 !.cycle = IF proc.is_continue THEN proc.cycle ELSE @,
                 !.open = proc.open,
                 !.gate_status = IF proc.all_passed THEN "passed"
                                 ELSE IF proc.infra THEN "aborted" ELSE "failed"])
    /\ proc' = [proc EXCEPT !.pc = "sweep"]
    /\ UNCHANGED <<branch, history, dirty, keys, delivered, ended, asides>>

-----------------------------------------------------------------------------
(* How a run ends.                                                         *)

(* A step returned an error: inside the outcome block the clean-up still   *)
(* runs; before it the run simply ends.                                    *)
StepFails ==
    /\ proc.pc \notin {"idle", "sweep", "clean"}
    /\ IF At("branched")
       THEN proc' = NoRun
       ELSE IF At("prepared")
            THEN proc' \in {NoRun, [proc EXCEPT !.pc = "sweep", !.ok = FALSE]}
            ELSE proc' = [proc EXCEPT !.pc = "sweep", !.ok = FALSE]
    /\ ended' = [ended EXCEPT ![proc.branch] = "error"]
    /\ UNCHANGED <<branch, history, dirty, sessions, keys, delivered, asides>>

(* chain::sweep, when a signer was provisioned; `logged` is false when the *)
(* chain_signer_swept event could not be appended, which ends the run.     *)
Sweep(success, logged) ==
    /\ At("sweep")
    /\ keys' = [keys EXCEPT ![proc.branch] =
                  IF proc.signed /\ success /\ SweepBack THEN None ELSE @]
    /\ ~proc.signed => logged
    /\ proc' = IF logged THEN [proc EXCEPT !.pc = "clean"] ELSE NoRun
    /\ ended' = IF logged THEN ended ELSE [ended EXCEPT ![proc.branch] = "unlogged"]
    /\ UNCHANGED <<branch, history, dirty, sessions, delivered, asides>>

(* cleanup_runtime: every run directory's key file goes.                   *)
NoKeys == [b \in DOMAIN keys |-> None]

(* Mutant: the completion check of the branch is left out.                 *)
CleanUpAnywhere ==
    /\ At("clean")
    /\ keys' = NoKeys
    /\ ended' = [ended EXCEPT ![proc.branch] =
                   IF ~proc.ok THEN "error"
                   ELSE IF proc.all_passed THEN "passed" ELSE "failed"]
    /\ proc' = NoRun
    /\ UNCHANGED <<branch, history, dirty, sessions, delivered, asides>>

(* The clean-up, then the verdict: an error of the run, the branch check,  *)
(* or the report.                                                          *)
CleanUp ==
    /\ At("clean")
    /\ keys' = NoKeys
    /\ ended' = [ended EXCEPT ![proc.branch] =
                   IF ~proc.ok \/ branch # proc.branch THEN "error"
                   ELSE IF proc.all_passed THEN "passed" ELSE "failed"]
    /\ proc' = NoRun
    /\ UNCHANGED <<branch, history, dirty, sessions, delivered, asides>>

(* Mutant: an interrupt stops the processes and cleans nothing.            *)
InterruptUncleaned ==
    /\ ~At("idle")
    /\ ended' = [ended EXCEPT ![proc.branch] = "error"]
    /\ proc' = NoRun
    /\ UNCHANGED <<branch, history, dirty, sessions, keys, delivered, asides>>

(* Ctrl-C: the run's future is dropped at an await and the workspace is    *)
(* cleaned, once the run directory is known.                               *)
Interrupt ==
    /\ ~At("idle")
    /\ keys' = IF At("branched") THEN keys ELSE NoKeys
    /\ ended' = [ended EXCEPT ![proc.branch] = "error"]
    /\ proc' = NoRun
    /\ UNCHANGED <<branch, history, dirty, sessions, delivered, asides>>

(* The process dies.  session.json is rewritten in place, so the write a   *)
(* step makes, or the one that led to "prepared", may leave it unreadable. *)
Writing == {"prepared", "judged", "committed", "finish", "report"}

Crash ==
    /\ ~At("idle")
    /\ \/ UNCHANGED sessions
       \/ /\ proc.pc \in Writing
          /\ sessions' = [b \in DOMAIN sessions \ {proc.branch} |-> sessions[b]]
    /\ ended' = [ended EXCEPT ![proc.branch] = "crashed"]
    /\ proc' = NoRun
    /\ UNCHANGED <<branch, history, dirty, keys, delivered, asides>>

-----------------------------------------------------------------------------
(* The developer, between runs.                                            *)

Edit ==
    /\ At("idle")
    /\ asides < MaxAsides
    /\ asides' = asides + 1
    /\ dirty' = dirty \union {"user"}
    /\ UNCHANGED <<branch, history, sessions, keys, proc, delivered, ended>>

Discard ==
    /\ At("idle")
    /\ dirty # {}
    /\ dirty' = {}
    /\ UNCHANGED <<branch, history, sessions, keys, proc, delivered, ended, asides>>

Commit ==
    /\ At("idle")
    /\ dirty # {}
    /\ asides < MaxAsides
    /\ asides' = asides + 1
    /\ history' = [history EXCEPT ![branch] = Append(@, [by |-> Base, attempt |-> 0,
                                                         holds |-> {}])]
    /\ dirty' = {}
    /\ Touched
    /\ UNCHANGED <<branch, sessions, keys, proc, delivered>>

(* Dropping the commits made since the last checkpoint.                    *)
Reset ==
    /\ At("idle")
    /\ branch \in DOMAIN sessions
    /\ IsStrictPrefix(sessions[branch].last_checkpoint_sha, history[branch])
    /\ history' = [history EXCEPT ![branch] = sessions[branch].last_checkpoint_sha]
    /\ dirty' = {}
    /\ Touched
    /\ UNCHANGED <<branch, sessions, keys, proc, delivered, asides>>

CheckOut(b) ==
    /\ At("idle")
    /\ b \in DOMAIN history \ {branch}
    /\ branch' = b
    /\ UNCHANGED <<history, dirty, sessions, keys, proc, delivered, ended, asides>>

-----------------------------------------------------------------------------
Developer == Edit \/ Discard \/ Commit \/ Reset \/ \E b \in 0..MaxBranches : CheckOut(b)

(* A session is started, or the one of this or of the named branch         *)
(* continued.  A run refused before that changes nothing.                  *)
prepare ==
    \/ \E force_new \in BOOLEAN : StartSession(force_new)
    \/ ContinueSession
    \/ \E b \in Harness : ContinueBranch(b)

Begin == prepare \/ (\E passed \in BOOLEAN : Baseline(passed)) \/ Provision

Attempt ==
    \/ \E work \in SUBSET {"agent", "secret"}, commits \in BOOLEAN,
          to \in DOMAIN history : Generate(work, commits, to)
    \/ \E passed, infra \in BOOLEAN, ids \in SUBSET FindingIds :
          Validate(passed, infra, ids)
    \/ \E written \in BOOLEAN : WriteStateDump(written)
    \/ CommitAttempt
    \/ RecordCheckpoint
    \/ BudgetSpent

Finish ==
    \/ NextSlice
    \/ SaveReport
    \/ \E success, logged \in BOOLEAN : Sweep(success, logged)
    \/ CleanUp
    \/ StepFails
    \/ Interrupt
    \/ Crash

Next == Developer \/ Begin \/ Attempt \/ Finish

Spec == Init /\ [][Next]_vars

-----------------------------------------------------------------------------
(* Properties.                                                             *)

Shas == UNION {{history[b] : b \in DOMAIN history},
               {sessions[b].last_checkpoint_sha : b \in DOMAIN sessions}}

Phases == {"idle", "branched", "prepared", "loop", "generated", "judged", "dumped",
           "committed", "finish", "report", "sweep", "clean"}

(* The values the state of the session and of the run take.                *)
TypeOK ==
    /\ branch \in DOMAIN history
    /\ Base \in DOMAIN history /\ DOMAIN history \subseteq 0..MaxBranches
    /\ \A sha \in Shas : \A i \in DOMAIN sha : sha[i] \in Checkpoint \union Own
    /\ dirty \subseteq Changes
    /\ DOMAIN sessions \subseteq DOMAIN history \ {Base}
    /\ \A b \in DOMAIN sessions :
         /\ sessions[b].cycle \in 0..MaxCycles
         /\ sessions[b].gate_status \in GateStatus
         /\ sessions[b].slice_index \in 0..(Slices - 1) \union {None}
         /\ sessions[b].open \subseteq FindingIds
    /\ keys \in [DOMAIN history \ {Base} -> 0..MaxCycles \union {None}]
    /\ proc.pc \in Phases
    /\ proc.slice \in 0..(Slices - 1) /\ proc.this_cycle \in 0..MaxAttempts
    /\ delivered \in [DOMAIN keys -> SUBSET (0..(Slices - 1))]
    /\ DOMAIN ended = DOMAIN keys

(* "The harness will not auto-commit potentially user-authored changes"    *)
(* (session.rs): no checkpoint holds work the developer left uncommitted,  *)
(* whatever was interrupted, edited and resumed before it.                 *)
OnlyAgentWorkCommitted ==
    \A b \in DOMAIN history : \A i \in DOMAIN history[b] :
        "user" \notin history[b][i].holds

(* Attempt numbers are not reused along a harness branch: each checkpoint  *)
(* commit of a session has a higher number than any before it, through     *)
(* crashes between the commit and session.json, resets and continues.      *)
AttemptsIncrease ==
    \A b \in DOMAIN history \ {Base} :
        \A i, j \in DOMAIN history[b] :
            i < j /\ history[b][i].by = b /\ history[b][j].by = b
                => history[b][i].attempt < history[b][j].attempt

(* The checkpoints of a branch are the agent's attempts, each once.        *)
CheckpointsAreAttempts == OnlyAgentWorkCommitted /\ AttemptsIncrease

(* Increments are delivered in order and a run that reports success has    *)
(* had every increment pass, over all the cycles it took: a continue never *)
(* skips one that did not pass.                                            *)
DeliveredInOrder ==
    \A b \in DOMAIN delivered :
        /\ ended[b] = "passed" => delivered[b] = 0..(Slices - 1)
        /\ b \in DOMAIN sessions /\ sessions[b].slice_index # None
             => 0..(sessions[b].slice_index - 1) \subseteq delivered[b]

(* A run that ends with a report leaves a branch the next `hanvil run` can *)
(* continue once the tree is clean: session.json is readable, names HEAD,  *)
(* and no longer says "pending".                                           *)
FinishedIsResumable ==
    \A b \in DOMAIN ended :
        ended[b] \in {"passed", "failed"} /\ (At("idle") \/ proc.branch # b)
            => /\ b \in DOMAIN sessions
               /\ sessions[b].last_checkpoint_sha = history[b]
               /\ sessions[b].gate_status # "pending"

(* session.json says where the run is, over any number of cycles.          *)
SessionIsTrue == DeliveredInOrder /\ FinishedIsResumable

(* "the signer's key file ... must not outlive the run" (run.rs): a run    *)
(* that had a signer ends without any key file in the workspace, unless    *)
(* the process died or the sweep could not be logged.                      *)
KeyFileGoes ==
    [][proc.signed /\ proc'.pc = "idle"
         => \/ keys' = [b \in DOMAIN keys |-> None]
            \/ ended'[proc.branch] \in {"crashed", "unlogged"}]_vars

(* "the baseline commands that prove the app was healthy before the agent  *)
(* touched it" (session.rs): the agent works only in a session whose       *)
(* baseline passed.                                                        *)
BaselineBeforeAgent == At("generated") => Session.baseline = "passed"

(* "put the chain back where the last attempt left it, so a resumed cycle  *)
(* sees the contracts, topics and accounts the workspace refers to"        *)
(* (run.rs): the chain a continue reloads is not one left by an attempt    *)
(* that is not in the workspace.                                           *)
ChainNotAheadOfWorkspace ==
    At("prepared") /\ proc.is_continue => proc.chain.attempt <= Session.last_attempt
=============================================================================
