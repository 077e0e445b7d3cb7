-------------------------- MODULE RunSessionProofs --------------------------
(***************************************************************************)
(* Proofs about RunSession, for any number of increments, attempts,        *)
(* branches, cycles, edits and checkouts.                                  *)
(***************************************************************************)
EXTENDS RunSession, FiniteSetTheorems, TLAPS

(* The values the fields of a run and of a session.json take.              *)
Flag == BOOLEAN
Cycles == 0..MaxCycles
Budget == 0..MaxAttempts
Increments == 0..(Slices - 1)
Saved == Increments \union {None}
Ids == SUBSET FindingIds
Signers == SUBSET Cycles
Outcome == {"passed", "failed"}
Commits == Checkpoint \union Own
Histories == Seq(Commits)

ChainState == [attempt : Nat, signers : Signers]

SessionFile == [cycle : Cycles, last_attempt : Nat, last_checkpoint_sha : Histories,
                gate_status : GateStatus, baseline : Outcome, slice_index : Saved,
                open : Ids, chain : ChainState]

Run == [pc : Phases, branch : Nat, is_continue : Flag, cycle : Cycles, attempts : Nat,
        this_cycle : Budget, slice : Increments, open : Ids, passed : Flag, infra : Flag,
        all_passed : Flag, ok : Flag, signed : Flag, chain : ChainState]

(* How the last run of a branch ended, and the branches that had one.      *)
Ends == {"never", "refused", "error", "unlogged", "crashed", "passed", "failed", "touched"}

Branches == DOMAIN history \ {Base}

(* Branches are numbered as they are made.                                 *)
Numbered ==
  /\ Fresh \in 1..(MaxBranches + 1) /\ DOMAIN history = 0..(Fresh - 1)
  /\ history \in [DOMAIN history -> Histories] /\ branch \in DOMAIN history

(* The values the state of a run, of the sessions and of each branch take. *)
Working == proc \in Run

Around == dirty \subseteq Changes /\ asides \in Nat

Kept == DOMAIN sessions \subseteq Branches /\ sessions \in [DOMAIN sessions -> SessionFile]

Marked ==
  /\ keys \in [Branches -> Cycles \union {None}]
  /\ delivered \in [Branches -> SUBSET Increments]
  /\ ended \in [Branches -> Ends]

(* A run works on a branch of its own, with a session.json once the        *)
(* baseline has run, and has a signer only after it provisioned one; the   *)
(* developer's edits are not there while it works.                         *)
Running ==
  /\ ~At("idle") => proc.branch \in Branches /\ "user" \notin dirty
  /\ ~At("idle") /\ ~At("branched") => proc.branch \in DOMAIN sessions
  /\ At("branched") \/ At("prepared") => branch = proc.branch
  /\ At("idle") \/ At("branched") \/ At("prepared") => ~proc.signed

Types == Numbered /\ Working /\ Around /\ Kept /\ Marked /\ Running

(* What a history may hold: nothing of the developer's, no attempt of b    *)
(* beyond n, no session but those named, and b's attempts in rising order. *)
AgentsOnly(sha) == \A i \in DOMAIN sha : "user" \notin sha[i].holds

UpTo(n, b, sha) == \A i \in DOMAIN sha : sha[i].by = b => sha[i].attempt <= n

By(names, sha) == \A i \in DOMAIN sha : sha[i].by \in names

Rising(b, sha) ==
  \A i, j \in DOMAIN sha : i < j /\ sha[i].by = b /\ sha[j].by = b => sha[i].attempt < sha[j].attempt

(* What the commits of a history, on a branch or in a session.json, are.   *)
Committed ==
  /\ \A sha \in Shas : AgentsOnly(sha) /\ By(DOMAIN history, sha)
  /\ \A b \in Branches : Rising(b, history[b])

(* No history has a commit of a session beyond the attempt after the last  *)
(* one session.json knows, which a crash, or an error, before the          *)
(* checkpoint was recorded leaves behind; the history session.json names   *)
(* has none beyond the last.                                               *)
Recorded ==
  \A b \in DOMAIN sessions :
    /\ UpTo(sessions[b].last_attempt, b, sessions[b].last_checkpoint_sha)
    /\ \A sha \in Shas : UpTo(sessions[b].last_attempt + 1, b, sha)

(* The attempt a run is at is beyond what its branch has; while no attempt *)
(* is on the way session.json has the number of the last, and if the agent *)
(* has left another branch checked out, no branch has more.                *)
Counted ==
  /\ At("branched") => proc.attempts = 0 /\ \A sha \in Shas : UpTo(0, proc.branch, sha)
  /\ proc.pc \in {"generated", "judged", "dumped", "committed"} =>
       proc.attempts = Session.last_attempt + 1
  /\ proc.pc \in {"generated", "judged", "dumped"} =>
       UpTo(Session.last_attempt, proc.branch, history[proc.branch])
  /\ proc.pc \in {"prepared", "loop", "finish", "report"} =>
       /\ proc.attempts = Session.last_attempt
       /\ UpTo(proc.attempts, proc.branch, history[proc.branch])
       /\ branch = proc.branch
          \/ \A b \in DOMAIN history : UpTo(proc.attempts, proc.branch, history[b])

(* Where run p is, d delivered: the increments before its own were, and    *)
(* its own once it passed, and all of them if it is to report success.     *)
InPlace(p, d) ==
  /\ p.pc \in {"loop", "generated", "judged", "dumped", "committed", "finish"} =>
       0..(p.slice - 1) \subseteq d[p.branch]
  /\ p.pc \in {"branched", "prepared", "loop"} => ~p.passed
  /\ p.pc = "finish" /\ p.passed => p.slice \in d[p.branch]
  /\ p.pc \in {"report", "sweep", "clean"} /\ p.ok /\ p.all_passed => d[p.branch] = Increments

(* The increments a session.json passed over were delivered, and all when  *)
(* a run has reported success.                                             *)
InOrder ==
  /\ \A b \in Branches : ended[b] = "passed" => delivered[b] = Increments
  /\ \A b \in DOMAIN sessions :
       sessions[b].slice_index # None => 0..(sessions[b].slice_index - 1) \subseteq delivered[b]
  /\ InPlace(proc, delivered)

(* A report was saved with what is checked out, and stands until somebody  *)
(* commits.                                                                *)
Reported ==
  /\ FinishedIsResumable
  /\ proc.pc \in {"sweep", "clean"} /\ proc.ok =>
       /\ Session.last_checkpoint_sha = history[branch]
       /\ Session.gate_status # "pending"

IInv == Types /\ Committed /\ Recorded /\ Counted /\ InOrder /\ Reported

(* Values the model uses are among those of their fields.                  *)
LEMMA Values ==
  /\ \A p \in {"idle", "branched", "prepared", "loop", "generated", "judged", "dumped",
               "committed", "finish", "report", "sweep", "clean"} : p \in Phases
  /\ TRUE \in Flag /\ FALSE \in Flag /\ 0 \in Cycles /\ 0 \in Budget /\ 0 \in Increments
  /\ {} \in Ids /\ {} \in Signers /\ NoRun \in Run /\ Genesis \in ChainState
  /\ "passed" \in Outcome /\ "failed" \in Outcome /\ None \in Saved /\ Increments \subseteq Saved
  /\ \A g \in {"pending", "passed", "failed", "aborted"} : g \in GateStatus
  /\ \A e \in {"never", "refused", "error", "unlogged", "crashed", "passed", "failed", "touched"} : e \in Ends
<1> USE SessionConstants DEF Ends, Flag, Cycles, Budget, Increments, Ids, Signers, Outcome, Saved, GateStatus,
      Phases
<1>1. Genesis \in ChainState
  BY DEF Genesis, ChainState
<1>2. NoRun \in Run
  BY <1>1 DEF NoRun, Run, Base
<1> QED
  BY <1>1, <1>2

(* A step of a run that sets fields to values of theirs keeps its shape.   *)
LEMMA ProcIsSet ==
  ASSUME NEW r \in Run, NEW pc \in Phases, NEW f \in Flag, NEW g \in Flag, NEW n \in Nat, NEW t \in Budget,
         NEW i \in Increments, NEW o \in Ids, NEW c \in ChainState
  PROVE  /\ [r EXCEPT !.pc = pc] \in Run
         /\ [r EXCEPT !.pc = pc, !.branch = n] \in Run
         /\ [r EXCEPT !.pc = pc, !.ok = f] \in Run
         /\ [r EXCEPT !.pc = pc, !.all_passed = f] \in Run
         /\ [r EXCEPT !.pc = pc, !.attempts = n, !.this_cycle = t] \in Run
         /\ [r EXCEPT !.pc = pc, !.passed = f, !.infra = g, !.open = o] \in Run
         /\ [r EXCEPT !.pc = pc, !.slice = i, !.this_cycle = t, !.open = o, !.passed = f, !.infra = g] \in Run
         /\ [r EXCEPT !.pc = pc, !.slice = i, !.signed = f, !.chain = c] \in Run
BY ZenonT(120) DEF Run

(* A function with one more element in its domain.                         *)
LEMMA Extended ==
  ASSUME NEW f, NEW x, NEW y, NEW S, f \in [DOMAIN f -> S], y \in S
  PROVE  /\ Extend(f, x, y) \in [DOMAIN f \union {x} -> S] /\ DOMAIN Extend(f, x, y) = DOMAIN f \union {x}
         /\ Extend(f, x, y)[x] = y /\ \A z \in DOMAIN f \ {x} : Extend(f, x, y)[z] = f[z]
BY DEF Extend

(* A commit somebody makes keeps the marks of a branch it is not on.       *)
LEMMA ReportsTouched ==
  ASSUME Marked, Touched
  PROVE  /\ ended' \in [Branches -> Ends]
         /\ \A b \in Branches : ended'[b] \in {"passed", "failed"} =>
               ended[b] = ended'[b] /\ history'[b] = history[b]
BY DEF Marked, Touched, Ends

(* A step that writes some fields of a session.json keeps its shape.       *)
LEMMA SessionIsSet ==
  ASSUME NEW s \in SessionFile, NEW n \in Nat, NEW h \in Histories, NEW g \in GateStatus, NEW i \in Saved,
         NEW y \in Cycles, NEW o \in Ids, NEW c \in ChainState
  PROVE  /\ [s EXCEPT !.chain = c] \in SessionFile
         /\ [s EXCEPT !.slice_index = i] \in SessionFile
         /\ [s EXCEPT !.last_attempt = n, !.last_checkpoint_sha = h, !.gate_status = g] \in SessionFile
         /\ [s EXCEPT !.last_attempt = n, !.last_checkpoint_sha = h, !.cycle = y, !.open = o,
                      !.gate_status = g] \in SessionFile
BY DEF SessionFile

(* What a resume writes, and the run it starts.                            *)
LEMMA Resumed ==
  ASSUME Kept, Numbered, NEW b \in DOMAIN sessions, Resume(b)
  PROVE  /\ DOMAIN sessions' = DOMAIN sessions /\ sessions' \in [DOMAIN sessions -> SessionFile]
         /\ sessions'[b].last_attempt = sessions[b].last_attempt
         /\ sessions'[b].last_checkpoint_sha = sessions[b].last_checkpoint_sha
         /\ sessions'[b].slice_index = sessions[b].slice_index
         /\ sessions'[b].gate_status = "pending"
         /\ \A a \in DOMAIN sessions \ {b} : sessions'[a] = sessions[a]
         /\ proc' \in Run
         /\ proc'.pc = "prepared" /\ proc'.branch = b /\ proc'.attempts = sessions[b].last_attempt
         /\ ~proc'.signed /\ ~proc'.passed
<1> DEFINE s == sessions[b]
           n == s.cycle + 1
<1>1. s \in SessionFile
  BY DEF Kept
<1>2. n \in Cycles /\ b \in Nat
  BY SMTT(120), <1>1, SessionConstants DEF Resume, SessionFile, Cycles, Kept, Branches, Numbered
<1>3. sessions' = [sessions EXCEPT ![b] = [s EXCEPT !.cycle = n, !.gate_status = "pending"]]
  BY DEF Resume, Kept
<1>4. proc' = [NoRun EXCEPT !.pc = "prepared", !.branch = b, !.is_continue = TRUE, !.cycle = n,
                            !.attempts = s.last_attempt, !.open = s.open, !.chain = s.chain]
  BY DEF Resume, Reload
<1> HIDE DEF s, n
<1>5. [s EXCEPT !.cycle = n, !.gate_status = "pending"] \in SessionFile
  BY <1>1, <1>2, Values DEF SessionFile
<1>6. proc' \in Run
  BY ZenonT(120), <1>1, <1>2, <1>4, Values DEF SessionFile, Run
<1>7. /\ proc'.pc = "prepared" /\ proc'.branch = b /\ proc'.attempts = s.last_attempt
      /\ ~proc'.signed /\ ~proc'.passed
  BY <1>4 DEF NoRun
<1>8. LET new == [s EXCEPT !.cycle = n, !.gate_status = "pending"]
      IN  /\ new.last_attempt = s.last_attempt /\ new.last_checkpoint_sha = s.last_checkpoint_sha
          /\ new.slice_index = s.slice_index /\ new.gate_status = "pending"
  BY <1>1 DEF SessionFile
<1> QED
  BY <1>3, <1>5, <1>6, <1>7, <1>8 DEF s, Kept

(* Every step keeps the types. *)
LEMMA TypesKept == Types /\ [Next]_vars => Types'
<1> SUFFICES ASSUME Types, [Next]_vars PROVE Types'
  OBVIOUS
<1> USE SessionConstants, Values DEF Types, At, Session, Update, Branches, Harness, Base
<1>1. CASE Edit
  <2>1. Numbered' /\ Around' /\ Kept' /\ Marked'
    BY SMTT(120), <1>1 DEF Numbered, Fresh, Histories, Around, Changes, Kept, Running, Working,
           Marked, Edit
  <2>2. Working'
    BY <1>1 DEF Working, Run, Edit
  <2>3. Running'
    BY <1>1 DEF Running, Numbered, Working, Kept, Marked, Edit
  <2> QED
    BY <2>1, <2>2, <2>3
<1>2. CASE Discard
  <2>1. Numbered' /\ Around' /\ Kept' /\ Marked'
    BY <1>2 DEF Numbered, Fresh, Histories, Around, Changes, Kept, Running, Working,
           Marked, Discard
  <2>2. Working'
    BY <1>2 DEF Working, Run, Discard
  <2>3. Running'
    BY <1>2 DEF Running, Numbered, Working, Kept, Marked, Discard
  <2> QED
    BY <2>1, <2>2, <2>3
<1>3. CASE Commit
  <2>1. Numbered'
    BY SMTT(120), <1>3 DEF Numbered, Fresh, Histories, Commits, Own, Commit, Touched
  <2>2. Working'
    BY <1>3 DEF Working, Run, Commit, Touched
  <2>3. Around'
    BY <1>3 DEF Around, Changes, Commit, Touched
  <2>4. Kept'
    BY <1>3 DEF Kept, Running, Working, Commit, Touched
  <2>5. Marked'
    <3>1. Branches' = Branches
      BY <1>3 DEF Commit, Numbered
    <3>2. ended' \in [Branches -> Ends]
      BY <1>3, ReportsTouched DEF Commit
    <3> HIDE DEF Branches
    <3> QED
      BY <1>3, <3>1, <3>2 DEF Commit, Marked
  <2>6. Running'
    BY <1>3 DEF Running, Numbered, Working, Kept, Marked, Commit, Touched
  <2> QED
    BY <2>1, <2>2, <2>3, <2>4, <2>5, <2>6
<1>4. CASE Reset
  <2>1. Around' /\ Kept'
    BY <1>4 DEF Around, Changes, Kept, Running, Working, Reset, Touched
  <2>2. Numbered'
    <3>1. sessions[branch].last_checkpoint_sha \in Histories
      BY <1>4 DEF Reset, Kept, SessionFile
    <3> QED
      BY <1>4, <3>1 DEF Reset, Numbered, Fresh
  <2>3. Working'
    BY <1>4 DEF Working, Run, Reset, Touched
  <2>4. Marked'
    <3>1. Branches' = Branches
      BY <1>4 DEF Reset, Numbered
    <3>2. ended' \in [Branches -> Ends]
      BY <1>4, ReportsTouched DEF Reset
    <3> HIDE DEF Branches
    <3> QED
      BY <1>4, <3>1, <3>2 DEF Reset, Marked
  <2>5. Running'
    BY <1>4 DEF Running, Numbered, Working, Kept, Marked, Reset, Touched
  <2> QED
    BY <2>1, <2>2, <2>3, <2>4, <2>5
<1>5. ASSUME NEW b \in 0..MaxBranches, CheckOut(b) PROVE Types'
  <2>1. Numbered' /\ Around' /\ Kept' /\ Marked'
    BY <1>5 DEF Numbered, Fresh, Histories, Around, Changes, Kept, Running, Working,
           Marked, CheckOut
  <2>2. Working'
    BY <1>5 DEF Working, Run, CheckOut
  <2>3. Running'
    BY <1>5 DEF Running, Numbered, Working, Kept, Marked, CheckOut
  <2> QED
    BY <2>1, <2>2, <2>3
<1>6. ASSUME NEW force_new \in BOOLEAN, StartSession(force_new) PROVE Types'
  <2>1. Around' /\ Kept'
    BY <1>6 DEF Around, Changes, Kept, Running, Working, StartSession, Extend
  <2>2. Numbered'
    <3>1. DOMAIN history' = 0..Fresh /\ Fresh \in Nat /\ Fresh + 1 <= MaxBranches + 1
      BY SMTT(120), <1>6 DEF StartSession, Extend, Numbered
    <3>2. Fresh' = Fresh + 1
      <4>1. Cardinality(0..Fresh) = Fresh + 1
        BY SMTT(120), <3>1, FS_Interval
      <4> QED
        BY <3>1, <4>1 DEF Fresh
    <3> QED
      BY SMTT(120), <1>6, <3>1, <3>2 DEF StartSession, Extend, Numbered
  <2>3. Working'
    <3>1. Fresh \in Nat
      BY DEF Numbered
    <3> QED
      BY ZenonT(120), <1>6, <3>1, ProcIsSet DEF StartSession, Working
  <2>4. Marked'
    <3>1. history \in [DOMAIN history -> Histories] /\ history[branch] \in Histories /\ Fresh \in Branches'
      BY SMTT(120), <1>6 DEF StartSession, Numbered, Extend
    <3>2. Branches' = Branches \union {Fresh}
      BY SMTT(120), <1>6 DEF StartSession, Numbered, Extend
    <3>3. None \in Cycles \union {None} /\ {} \in SUBSET Increments /\ "never" \in Ends
      BY Zenon, Values
    <3>4. DOMAIN keys = Branches /\ DOMAIN delivered = Branches /\ DOMAIN ended = Branches
      BY DEF Marked
    <3> HIDE DEF Branches
    <3>5. keys' \in [Branches' -> Cycles \union {None}]
      BY <1>6, <3>2, <3>3, <3>4, Extended DEF StartSession, Marked
    <3>6. delivered' \in [Branches' -> SUBSET Increments]
      BY <1>6, <3>2, <3>3, <3>4, Extended DEF StartSession, Marked
    <3>7. ended' \in [Branches' -> Ends]
      BY <1>6, <3>2, <3>3, <3>4, Extended DEF StartSession, Marked
    <3> QED
      BY <3>5, <3>6, <3>7 DEF Marked
  <2>5. Running'
    <3>1. proc'.pc = "branched" /\ proc'.branch = Fresh /\ ~proc'.signed
      BY <1>6 DEF StartSession, NoRun
    <3>2. branch' = Fresh /\ dirty' = {}
      BY <1>6 DEF StartSession
    <3>3. Fresh \in Branches'
      BY <1>6 DEF StartSession, Extend
    <3> HIDE DEF Branches
    <3> QED
      BY <3>1, <3>2, <3>3 DEF Running
  <2> QED
    BY <2>1, <2>2, <2>3, <2>4, <2>5
<1>7. CASE ContinueSession
  <2>1. Numbered' /\ Around' /\ Marked'
    BY <1>7 DEF Numbered, Fresh, Histories, Around, Changes, Marked, Running, Working,
           ContinueSession, Resume, MayContinue, find_matching_session, Reload
  <2>2. Working'
    BY <1>7, Resumed DEF ContinueSession, Working, MayContinue, find_matching_session
  <2>3. Kept'
    BY <1>7, Resumed DEF ContinueSession, Kept, MayContinue, find_matching_session
  <2>4. Running'
    BY <1>7 DEF Running, Numbered, Working, Kept, Marked, Run, NoRun, ContinueSession,
           Resume, MayContinue, find_matching_session, Reload
  <2> QED
    BY <2>1, <2>2, <2>3, <2>4
<1>8. ASSUME NEW b \in Harness, ContinueBranch(b) PROVE Types'
  <2>1. Numbered' /\ Around' /\ Marked'
    BY <1>8 DEF Numbered, Fresh, Histories, Around, Changes, Marked, Running, Working,
           ContinueBranch, Resume, MayContinue, find_matching_session, Reload
  <2>2. Working'
    BY <1>8, Resumed DEF ContinueBranch, Working, MayContinue, find_matching_session
  <2>3. Kept'
    BY <1>8, Resumed DEF ContinueBranch, Kept, MayContinue, find_matching_session
  <2>4. Running'
    <3>1. CASE MayContinue(b) /\ Resume(b)
      <4>1. b \in DOMAIN sessions
        BY <3>1 DEF MayContinue, find_matching_session
      <4>2. /\ proc'.pc = "prepared" /\ proc'.branch = b /\ ~proc'.signed
            /\ DOMAIN sessions' = DOMAIN sessions
        BY <3>1, <4>1, Resumed
      <4>3. branch' = b /\ history' = history /\ dirty' = {}
        BY <1>8 DEF ContinueBranch
      <4>4. b \in Branches'
        BY <4>3, <1>8 DEF ContinueBranch
      <4> QED
        BY <4>1, <4>2, <4>3, <4>4 DEF Running
    <3>2. CASE UNCHANGED <<sessions, proc>>
      <4>1. At("idle") /\ proc' = proc /\ sessions' = sessions /\ ~proc.signed
        BY <3>2, <1>8 DEF ContinueBranch, Running
      <4> QED
        BY <4>1 DEF Running
    <3> QED
      BY <3>1, <3>2, <1>8 DEF ContinueBranch
  <2> QED
    BY <2>1, <2>2, <2>3, <2>4
<1>9. ASSUME NEW passed \in BOOLEAN, Baseline(passed) PROVE Types'
  <2>1. Numbered' /\ Around'
    BY <1>9 DEF Numbered, Fresh, Histories, Around, Changes, Baseline, Extend,
           NewSession
  <2>2. Working'
    BY <1>9 DEF Working, Run, Baseline, Extend, NewSession
  <2>3. Kept'
    <3> DEFINE o == IF passed THEN "passed" ELSE "failed"
               s == NewSession(history[proc.branch], o)
    <3>1. o \in Outcome /\ sessions' = Extend(sessions, proc.branch, s)
      BY <1>9 DEF Baseline
    <3>2. history[proc.branch] \in Histories
      BY <1>9 DEF Baseline, Running, Numbered
    <3> HIDE DEF o
    <3>3. s \in SessionFile
      BY <3>1, <3>2 DEF NewSession, SessionFile
    <3>4. proc.branch \in Branches /\ Branches' = Branches
      BY <1>9 DEF Baseline, Running
    <3> HIDE DEF s, Branches
    <3>5. sessions' \in [DOMAIN sessions \union {proc.branch} -> SessionFile]
      BY <3>1, <3>3, Extended DEF Kept
    <3> QED
      BY <3>4, <3>5 DEF Kept
  <2>4. Marked'
    <3>1. Branches' = Branches
      BY <1>9 DEF Baseline
    <3>2. proc.branch \in Branches
      BY <1>9 DEF Baseline, Running
    <3> HIDE DEF Branches
    <3> QED
      BY <1>9, <3>1, <3>2 DEF Baseline, Marked
  <2>5. Running'
    BY <1>9 DEF Running, Numbered, Working, Kept, Marked, Run, NoRun, Baseline, Extend,
           NewSession
  <2> QED
    BY <2>1, <2>2, <2>3, <2>4, <2>5
<1>10. CASE Provision
  <2>1. Numbered' /\ Around' /\ Kept' /\ Marked'
    BY <1>10 DEF Numbered, Fresh, Histories, Commits, Own, Around, Changes, Running,
           Kept, Working, Run, SessionFile, Marked, Provision, FirstSlice
  <2>2. Working'
    <3>1. FirstSlice \in Increments
      BY <1>10 DEF Provision, FirstSlice, Running, Kept, SessionFile, Saved, Increments, None
    <3> DEFINE s == IF keys[proc.branch] \in proc.chain.signers THEN proc.chain.signers
                    ELSE proc.chain.signers \union {proc.cycle}
               c == [proc.chain EXCEPT !.signers = s]
    <3>2. proc' = [proc EXCEPT !.pc = "loop", !.slice = FirstSlice, !.signed = TRUE, !.chain.signers = s]
      BY <1>10, Zenon DEF Provision
    <3>3. proc.chain \in ChainState /\ s \in Signers
      BY DEF Working, Run, ChainState, Signers
    <3> HIDE DEF s
    <3>4. c \in ChainState
      BY <3>3 DEF ChainState
    <3>5. proc' = [proc EXCEPT !.pc = "loop", !.slice = FirstSlice, !.signed = TRUE, !.chain = c]
      BY <3>2 DEF Working, Run
    <3> HIDE DEF c
    <3> QED
      BY <3>1, <3>4, <3>5 DEF Working, Run
  <2>3. Running'
    BY <1>10 DEF Running, Numbered, Working, Kept, Marked, Provision, FirstSlice
  <2> QED
    BY <2>1, <2>2, <2>3
<1>11. ASSUME NEW work \in SUBSET {"agent", "secret"}, NEW commits \in BOOLEAN,
         NEW to \in DOMAIN history, Generate(work, commits, to) PROVE Types'
  <2>1. Numbered'
    BY SMTT(120), <1>11 DEF Numbered, Fresh, Histories, Commits, Own, Generate, Touched
  <2>2. Working'
    <3>1. proc.attempts + 1 \in Nat /\ proc.this_cycle + 1 \in Budget
      BY SMTT(120), <1>11 DEF Generate, Working, Run, Budget
    <3> QED
      BY ZenonT(120), <1>11, <3>1, ProcIsSet DEF Generate, Working, Run
  <2>3. Around'
    BY SMTT(120), <1>11 DEF Around, Changes, Generate, Touched
  <2>4. Kept'
    BY <1>11 DEF Kept, Running, Working, Generate, Touched
  <2>5. Marked'
    <3>1. Branches' = Branches
      BY <1>11 DEF Generate, Numbered
    <3>2. ended' \in [Branches -> Ends]
      BY <1>11, ReportsTouched DEF Generate
    <3> HIDE DEF Branches
    <3> QED
      BY <1>11, <3>1, <3>2 DEF Generate, Marked
  <2>6. Running'
    BY <1>11 DEF Running, Numbered, Working, Kept, Marked, Run, NoRun, Generate, Touched
  <2> QED
    BY <2>1, <2>2, <2>3, <2>4, <2>5, <2>6
<1>12. ASSUME NEW passed \in BOOLEAN, NEW infra \in BOOLEAN, NEW ids \in SUBSET FindingIds,
              Validate(passed, infra, ids)
       PROVE  Types'
  <2>1. Numbered' /\ Around' /\ Kept' /\ Marked'
    BY <1>12 DEF Numbered, Fresh, Histories, Around, Changes, Kept, Running, Working,
           Marked, Validate
  <2>2. Working'
    <3>1. passed \in Flag /\ infra \in Flag /\ ids \in Ids /\ "judged" \in Phases
      BY <1>12 DEF Flag, Ids
    <3>2. [proc EXCEPT !.pc = "judged", !.passed = passed, !.infra = infra, !.open = ids] \in Run
      BY <3>1 DEF Working, Run
    <3> QED
      BY <1>12, <3>2 DEF Validate, Working
  <2>3. Running'
    BY <1>12 DEF Running, Numbered, Working, Kept, Marked, Validate
  <2> QED
    BY <2>1, <2>2, <2>3
<1>13. ASSUME NEW written \in BOOLEAN, WriteStateDump(written) PROVE Types'
  <2>1. Numbered' /\ Around' /\ Marked'
    BY <1>13 DEF Numbered, Fresh, Histories, Around, Changes, Marked, Running, Working,
           WriteStateDump
  <2>2. Working'
    BY <1>13 DEF Working, Run, WriteStateDump
  <2>3. Kept'
    <3>1. proc.branch \in DOMAIN sessions /\ Session \in SessionFile
      BY <1>13 DEF WriteStateDump, Running, Kept
    <3> DEFINE c == [attempt |-> proc.attempts, signers |-> proc.chain.signers]
    <3>2. c \in ChainState
      BY DEF Working, Run, ChainState
    <3>3. Update([Session EXCEPT !.chain = c]) \/ UNCHANGED sessions
      BY <1>13 DEF WriteStateDump
    <3> HIDE DEF c
    <3>4. [Session EXCEPT !.chain = c] \in SessionFile
      BY <3>1, <3>2 DEF SessionFile
    <3> QED
      BY <1>13, <3>1, <3>3, <3>4 DEF WriteStateDump, Kept
  <2>4. Running'
    BY SMTT(120), <1>13 DEF Running, Numbered, Working, Kept, Marked, WriteStateDump
  <2> QED
    BY <2>1, <2>2, <2>3, <2>4
<1>14. CASE CommitAttempt
  <2>1. Around' /\ Kept'
    BY <1>14 DEF Around, Changes, Kept, Running, Working, CommitAttempt, Touched
  <2>2. Numbered'
    <3>1. proc.branch \in Harness /\ proc.attempts \in Nat /\ dirty \subseteq Changes
      BY SMTT(120), <1>14 DEF CommitAttempt, Numbered, Running, Working, Run, Around
    <3>2. [by |-> proc.branch, attempt |-> proc.attempts, holds |-> dirty \ {"secret"}] \in Commits
      BY <3>1 DEF Commits, Checkpoint
    <3> HIDE DEF Harness
    <3>3. \A c \in Commits : Append(history[branch], c) \in Histories
      BY DEF Numbered, Histories
    <3> QED
      BY <1>14, <3>2, <3>3 DEF CommitAttempt, Numbered, Fresh
  <2>3. Working'
    BY <1>14 DEF Working, Run, CommitAttempt, Touched
  <2>4. Marked'
    <3>1. Branches' = Branches
      BY <1>14 DEF CommitAttempt, Numbered
    <3>2. ended' \in [Branches -> Ends]
      BY <1>14, ReportsTouched DEF CommitAttempt
    <3> HIDE DEF Branches
    <3> QED
      BY <1>14, <3>1, <3>2 DEF CommitAttempt, Marked
  <2>5. Running'
    BY <1>14 DEF Running, Numbered, Working, Kept, Marked, CommitAttempt, Touched
  <2> QED
    BY <2>1, <2>2, <2>3, <2>4, <2>5
<1>15. CASE RecordCheckpoint
  <2>1. Numbered' /\ Around' /\ Marked'
    BY ZenonT(120), <1>15 DEF Numbered, Fresh, Histories, Commits, Own, Around, Changes, Running,
           Marked, Working, Run, RecordCheckpoint
  <2>2. Working'
    BY <1>15 DEF Working, Run, RecordCheckpoint
  <2>3. Kept'
    <3>1. proc.branch \in DOMAIN sessions /\ Session \in SessionFile
      BY <1>15 DEF RecordCheckpoint, Running, Kept
    <3>2. PICK s \in SessionFile : Update(s)
      BY ZenonT(120), <1>15, <3>1, SessionIsSet DEF RecordCheckpoint, Working, Run, Numbered
    <3> QED
      BY <1>15, <3>1, <3>2 DEF RecordCheckpoint, Kept
  <2>4. Running'
    BY <1>15 DEF Running, Numbered, Working, Kept, Marked, RecordCheckpoint
  <2> QED
    BY <2>1, <2>2, <2>3, <2>4
<1>16. CASE BudgetSpent
  <2>1. Numbered' /\ Around' /\ Kept' /\ Marked'
    BY <1>16 DEF Numbered, Fresh, Histories, Around, Changes, Kept, Running, Working,
           Marked, BudgetSpent
  <2>2. Working'
    BY <1>16 DEF Working, Run, BudgetSpent
  <2>3. Running'
    BY <1>16 DEF Running, Numbered, Working, Kept, Marked, BudgetSpent
  <2> QED
    BY <2>1, <2>2, <2>3
<1>17. CASE NextSlice
  <2>1. Numbered' /\ Around' /\ Marked'
    BY <1>17 DEF Numbered, Fresh, Histories, Around, Changes, Marked, Running, Working,
           NextSlice
  <2>2. Working'
    <3>1. CASE proc.passed /\ proc.slice + 1 < Slices
      <4>1. proc.slice + 1 \in Increments
        BY <3>1 DEF Working, Run, Increments
      <4> QED
        BY ZenonT(120), <1>17, <3>1, <4>1, ProcIsSet DEF NextSlice, Working, Run
    <3>2. CASE ~(proc.passed /\ proc.slice + 1 < Slices)
      <4>1. (proc.all_passed /\ proc.passed) \in Flag /\ "report" \in Phases
        BY DEF Flag
      <4>2. proc' = [proc EXCEPT !.pc = "report", !.all_passed = proc.all_passed /\ proc.passed]
        BY <1>17, <3>2 DEF NextSlice
      <4> QED
        BY <4>1, <4>2 DEF Working, Run
    <3> QED
      BY <3>1, <3>2
  <2>3. Kept'
    <3>1. proc.branch \in DOMAIN sessions /\ Session \in SessionFile /\ proc.slice \in Saved
      BY <1>17 DEF NextSlice, Running, Kept, Working, Run
    <3>2. Update([Session EXCEPT !.slice_index = proc.slice]) /\ history' = history
      BY <1>17 DEF NextSlice
    <3>3. [Session EXCEPT !.slice_index = proc.slice] \in SessionFile
      BY <3>1 DEF SessionFile
    <3> QED
      BY <3>1, <3>2, <3>3 DEF Kept
  <2>4. Running'
    BY <1>17 DEF Running, Numbered, Working, Kept, Marked, NextSlice
  <2> QED
    BY <2>1, <2>2, <2>3, <2>4
<1>18. CASE SaveReport
  <2>1. Numbered' /\ Around' /\ Marked'
    BY <1>18 DEF Numbered, Fresh, Histories, Around, Changes, Marked, Running, Working,
           SaveReport
  <2>2. Working'
    BY <1>18 DEF Working, Run, SaveReport
  <2>3. Kept'
    <3>1. proc.branch \in DOMAIN sessions /\ Session \in SessionFile
      BY SMTT(120), <1>18 DEF SaveReport, Running, Kept
    <3>2. PICK s \in SessionFile : Update(s)
      <4>1. (IF proc.is_continue THEN proc.cycle ELSE Session.cycle) \in Cycles
        BY <3>1 DEF Working, Run, SessionFile
      <4> QED
        BY ZenonT(120), <1>18, <3>1, <4>1, SessionIsSet DEF SaveReport, Working, Run, Numbered
    <3> QED
      BY <1>18, <3>1, <3>2 DEF SaveReport, Kept
  <2>4. Running'
    BY <1>18 DEF Running, Numbered, Working, Kept, Marked, SaveReport
  <2> QED
    BY <2>1, <2>2, <2>3, <2>4
<1>19. ASSUME NEW success \in BOOLEAN, NEW logged \in BOOLEAN, Sweep(success, logged) PROVE Types'
  <2>1. Numbered' /\ Around' /\ Kept'
    BY <1>19 DEF Numbered, Fresh, Histories, Around, Changes, Kept, Running, Working,
           Sweep
  <2>2. Working'
    BY <1>19 DEF Working, Run, Sweep
  <2>3. Marked'
    <3>1. Branches' = Branches
      BY <1>19 DEF Sweep
    <3>2. PICK e \in Ends : ended' = [ended EXCEPT ![proc.branch] = e] \/ ended' = ended
      BY <1>19 DEF Sweep
    <3> HIDE DEF Branches
    <3> QED
      BY <1>19, <3>1, <3>2 DEF Sweep, Marked
  <2>4. Running'
    BY <1>19 DEF Running, Numbered, Working, Kept, Marked, Run, NoRun, Sweep
  <2> QED
    BY <2>1, <2>2, <2>3, <2>4
<1>20. CASE CleanUp
  <2>1. Numbered' /\ Around' /\ Kept'
    BY <1>20 DEF Numbered, Fresh, Histories, Around, Changes, Kept, Running, Working,
           CleanUp, NoKeys
  <2>2. Working'
    BY <1>20 DEF Working, Run, CleanUp, NoKeys
  <2>3. Marked'
    <3>1. Branches' = Branches
      BY <1>20 DEF CleanUp
    <3>2. PICK e \in Ends : ended' = [ended EXCEPT ![proc.branch] = e]
      BY <1>20 DEF CleanUp
    <3> HIDE DEF Branches
    <3> QED
      BY ZenonT(120), <1>20, <3>1, <3>2 DEF CleanUp, NoKeys, Marked
  <2>4. Running'
    BY <1>20 DEF Running, Numbered, Working, Kept, Marked, Run, NoRun, CleanUp, NoKeys
  <2> QED
    BY <2>1, <2>2, <2>3, <2>4
<1>21. CASE StepFails
  <2>1. Numbered' /\ Around' /\ Kept'
    BY <1>21 DEF Numbered, Fresh, Histories, Around, Changes, Kept, Running, Working,
           StepFails
  <2>2. Working'
    BY ZenonT(120), <1>21 DEF Working, Run, StepFails
  <2>3. Marked'
    <3>1. Branches' = Branches
      BY <1>21 DEF StepFails
    <3>2. PICK e \in Ends : ended' = [ended EXCEPT ![proc.branch] = e]
      BY <1>21 DEF StepFails
    <3> HIDE DEF Branches
    <3> QED
      BY ZenonT(120), <1>21, <3>1, <3>2 DEF StepFails, Marked
  <2>4. Running'
    <3>1. proc' = NoRun \/ proc' = [proc EXCEPT !.pc = "sweep", !.ok = FALSE]
      BY <1>21 DEF StepFails
    <3>2. CASE proc' = NoRun
      BY <1>21, <3>2 DEF StepFails, Running, Working, NoRun
    <3>3. CASE proc' = [proc EXCEPT !.pc = "sweep", !.ok = FALSE] /\ proc' # NoRun
      <4>1. proc'.branch = proc.branch /\ proc'.pc = "sweep"
        BY <3>3 DEF Working, Run
      <4>2. proc.pc # "idle" /\ proc.pc # "branched" /\ UNCHANGED <<branch, history, dirty, sessions>>
        BY <1>21, <3>3 DEF StepFails
      <4> QED
        BY <4>1, <4>2 DEF Running
    <3> QED
      BY <3>1, <3>2, <3>3
  <2> QED
    BY <2>1, <2>2, <2>3, <2>4
<1>22. CASE Interrupt
  <2>1. Numbered' /\ Around' /\ Kept'
    BY <1>22 DEF Numbered, Fresh, Histories, Around, Changes, Kept, Running, Working,
           Interrupt, NoKeys
  <2>2. Working'
    BY <1>22 DEF Working, Run, Interrupt, NoKeys
  <2>3. Marked'
    <3>1. Branches' = Branches
      BY <1>22 DEF Interrupt
    <3>2. PICK e \in Ends : ended' = [ended EXCEPT ![proc.branch] = e]
      BY <1>22 DEF Interrupt
    <3> HIDE DEF Branches
    <3> QED
      BY ZenonT(120), <1>22, <3>1, <3>2 DEF Interrupt, NoKeys, Marked
  <2>4. Running'
    BY <1>22 DEF Running, Numbered, Working, Kept, Marked, Run, NoRun, Interrupt, NoKeys
  <2> QED
    BY <2>1, <2>2, <2>3, <2>4
<1>23. CASE Crash
  <2>1. Numbered' /\ Around' /\ Kept'
    BY ZenonT(120), <1>23 DEF Numbered, Fresh, Histories, Around, Changes, Kept, Running, Working,
           Crash, Writing
  <2>2. Working'
    BY <1>23 DEF Working, Run, Crash, Writing
  <2>3. Marked'
    <3>1. Branches' = Branches
      BY <1>23 DEF Crash
    <3>2. PICK e \in Ends : ended' = [ended EXCEPT ![proc.branch] = e]
      BY <1>23 DEF Crash
    <3> HIDE DEF Branches
    <3> QED
      BY ZenonT(120), <1>23, <3>1, <3>2 DEF Crash, Marked
  <2>4. Running'
    BY <1>23 DEF Running, Numbered, Working, Kept, Marked, Run, NoRun, Crash, Writing
  <2> QED
    BY <2>1, <2>2, <2>3, <2>4
<1>24. CASE UNCHANGED vars
  <2>1. Numbered' /\ Working' /\ Around' /\ Kept' /\ Marked' /\ Running'
    BY <1>24 DEF Numbered, Fresh, Histories, Working, Run, Around, Changes, Kept,
           Running, Marked, vars
  <2> QED
    BY <2>1
<1> QED
  BY <1>1, <1>2, <1>3, <1>4, <1>5, <1>6, <1>7, <1>8, <1>9, <1>10, <1>11, <1>12, <1>13, <1>14, <1>15,
     <1>16, <1>17, <1>18, <1>19, <1>20, <1>21, <1>22, <1>23, <1>24 DEF Next, Developer, Begin,
     prepare, Attempt, Finish

(* What a step may write in the session.json of a branch, the others kept. *)
Written(b, n, sha, gate, slice) ==
  /\ b \in DOMAIN sessions /\ DOMAIN sessions' = DOMAIN sessions
  /\ \A a \in DOMAIN sessions \ {b} : sessions'[a] = sessions[a]
  /\ sessions'[b].last_attempt = n /\ sessions'[b].last_checkpoint_sha = sha
  /\ sessions'[b].gate_status = gate /\ sessions'[b].slice_index = slice

(* The steps that write a session.json, each by what it writes.            *)
LEMMA Resumes ==
  ASSUME Types, NEW b \in DOMAIN sessions, Resume(b)
  PROVE  Written(b, sessions[b].last_attempt, sessions[b].last_checkpoint_sha, "pending",
                 sessions[b].slice_index)
BY Resumed DEF Types, Written

(* write_state_dump writes the chain only.                                 *)
LEMMA Dumps ==
  ASSUME Types, NEW written, WriteStateDump(written)
  PROVE  Written(proc.branch, Session.last_attempt, Session.last_checkpoint_sha, Session.gate_status,
                 Session.slice_index)
<1>1. proc.branch \in DOMAIN sessions /\ Session \in SessionFile
  BY DEF Types, Running, Kept, WriteStateDump, At, Session
<1> DEFINE c == [attempt |-> proc.attempts, signers |-> proc.chain.signers]
           s == [Session EXCEPT !.chain = c]
<1>2. sessions' = [sessions EXCEPT ![proc.branch] = s] \/ sessions' = sessions
  BY DEF WriteStateDump, Update, Session
<1> HIDE DEF c
<1>3. s.last_attempt = Session.last_attempt /\ s.last_checkpoint_sha = Session.last_checkpoint_sha
      /\ s.gate_status = Session.gate_status /\ s.slice_index = Session.slice_index
  BY <1>1 DEF SessionFile
<1> HIDE DEF s
<1> QED
  BY <1>1, <1>2, <1>3 DEF Written, Types, Kept, Session

(* record_checkpoint writes the attempt, HEAD and the verdict.             *)
LEMMA Records ==
  ASSUME Types, RecordCheckpoint
  PROVE  Written(proc.branch, proc.attempts, history[branch], IF proc.passed THEN "passed" ELSE "failed",
                 Session.slice_index)
<1>1. proc.branch \in DOMAIN sessions /\ Session \in SessionFile
  BY DEF Types, Running, Kept, RecordCheckpoint, At, Session
<1> DEFINE g == IF proc.passed THEN "passed" ELSE "failed"
           s == [Session EXCEPT !.last_attempt = proc.attempts, !.last_checkpoint_sha = history[branch],
                                !.gate_status = g]
<1>2. sessions' = [sessions EXCEPT ![proc.branch] = s]
  BY DEF RecordCheckpoint, Update, Session
<1> HIDE DEF g
<1>3. s.last_attempt = proc.attempts /\ s.last_checkpoint_sha = history[branch]
      /\ s.gate_status = g /\ s.slice_index = Session.slice_index
  BY <1>1 DEF SessionFile
<1> HIDE DEF s
<1>4. Written(proc.branch, proc.attempts, history[branch], g, Session.slice_index)
  BY <1>1, <1>2, <1>3 DEF Written, Types, Kept, Session
<1> QED
  BY <1>4 DEF g

(* The end of an increment writes its number.                              *)
LEMMA Saves ==
  ASSUME Types, NextSlice
  PROVE  Written(proc.branch, Session.last_attempt, Session.last_checkpoint_sha, Session.gate_status,
                 proc.slice)
<1>1. proc.branch \in DOMAIN sessions /\ Session \in SessionFile
  BY DEF Types, Running, Kept, NextSlice, At, Session
<1> DEFINE s == [Session EXCEPT !.slice_index = proc.slice]
<1>2. sessions' = [sessions EXCEPT ![proc.branch] = s]
  BY DEF NextSlice, Update, Session
<1>3. s.last_attempt = Session.last_attempt /\ s.last_checkpoint_sha = Session.last_checkpoint_sha
      /\ s.gate_status = Session.gate_status /\ s.slice_index = proc.slice
  BY <1>1 DEF SessionFile
<1> HIDE DEF s
<1> QED
  BY <1>1, <1>2, <1>3 DEF Written, Types, Kept, Session

(* The last update_session writes what a continue starts from.             *)
LEMMA Reports ==
  ASSUME Types, SaveReport
  PROVE  Written(proc.branch, proc.attempts, history[branch],
                 IF proc.all_passed THEN "passed" ELSE IF proc.infra THEN "aborted" ELSE "failed",
                 Session.slice_index)
<1>1. proc.branch \in DOMAIN sessions /\ Session \in SessionFile
  BY DEF Types, Running, Kept, SaveReport, At, Session
<1> DEFINE g == IF proc.all_passed THEN "passed" ELSE IF proc.infra THEN "aborted" ELSE "failed"
           y == IF proc.is_continue THEN proc.cycle ELSE Session.cycle
           s == [Session EXCEPT !.last_attempt = proc.attempts, !.last_checkpoint_sha = history[branch],
                                !.cycle = y, !.open = proc.open, !.gate_status = g]
<1>2. sessions' = [sessions EXCEPT ![proc.branch] = s]
  BY DEF SaveReport, Update, Session
<1> HIDE DEF g, y
<1>3. s.last_attempt = proc.attempts /\ s.last_checkpoint_sha = history[branch]
      /\ s.gate_status = g /\ s.slice_index = Session.slice_index
  BY <1>1 DEF SessionFile
<1> HIDE DEF s
<1>4. Written(proc.branch, proc.attempts, history[branch], g, Session.slice_index)
  BY <1>1, <1>2, <1>3 DEF Written, Types, Kept, Session
<1> QED
  BY <1>4 DEF g

(* One commit more at the end of a history.                                *)
LEMMA Appended ==
  ASSUME NEW sha \in Histories, NEW c \in Commits, NEW b, NEW n \in Nat, NEW D
  PROVE  /\ AgentsOnly(sha) /\ "user" \notin c.holds => AgentsOnly(Append(sha, c))
         /\ By(D, sha) /\ c.by \in D => By(D, Append(sha, c))
         /\ UpTo(n, b, sha) /\ (c.by = b => c.attempt <= n) => UpTo(n, b, Append(sha, c))
         /\ Rising(b, sha) /\ (c.by = b => UpTo(n, b, sha) /\ n < c.attempt)
              => Rising(b, Append(sha, c))
<1>1. Append(sha, c) \in Histories /\ Len(sha) \in Nat /\ DOMAIN sha = 1..Len(sha)
      /\ DOMAIN Append(sha, c) = 1..(Len(sha) + 1)
      /\ Append(sha, c)[Len(sha) + 1] = c
      /\ \A i \in DOMAIN sha : Append(sha, c)[i] = sha[i]
  BY DEF Histories
<1> DEFINE t == Append(sha, c)
<1>2. \A i \in DOMAIN t : i \in DOMAIN sha \/ (i = Len(sha) + 1 /\ i \notin DOMAIN sha)
  BY <1>1
<1>3. \A s \in Seq(Commits) : \A i \in DOMAIN s : s[i] \in Commits
  OBVIOUS
<1>4. \A i \in DOMAIN sha : sha[i].attempt \in Nat
  BY <1>3 DEF Histories, Commits, Checkpoint, Own
<1>5. c.attempt \in Nat
  BY DEF Commits, Checkpoint, Own
<1> HIDE DEF t
<1>6. AgentsOnly(sha) /\ "user" \notin c.holds => AgentsOnly(t)
  BY <1>1, <1>2 DEF AgentsOnly, t
<1>7. By(D, sha) /\ c.by \in D => By(D, t)
  BY <1>1, <1>2 DEF By, t
<1>8. UpTo(n, b, sha) /\ (c.by = b => c.attempt <= n) => UpTo(n, b, t)
  BY <1>1, <1>2 DEF UpTo, t
<1>9. ASSUME Rising(b, sha), c.by = b => UpTo(n, b, sha) /\ n < c.attempt,
             NEW i \in DOMAIN t, NEW j \in DOMAIN t, i < j, t[i].by = b, t[j].by = b
      PROVE  t[i].attempt < t[j].attempt
  <2>1. i \in DOMAIN sha
    BY <1>1, <1>2, <1>9 DEF t
  <2>2. CASE j \in DOMAIN sha
    BY <1>1, <1>9, <2>1, <2>2 DEF Rising, t
  <2>3. CASE j = Len(sha) + 1
    BY <1>1, <1>4, <1>5, <1>9, <2>1, <2>3 DEF UpTo, t
  <2> QED
    BY <1>2, <2>2, <2>3
<1>10. Rising(b, sha) /\ (c.by = b => UpTo(n, b, sha) /\ n < c.attempt) => Rising(b, t)
  BY <1>9 DEF Rising
<1> QED
  BY <1>6, <1>7, <1>8, <1>10 DEF t

(* Dropping the last commits keeps the others rising.                      *)
LEMMA Shortened ==
  ASSUME NEW s \in Histories, NEW t \in Histories, IsStrictPrefix(s, t), NEW b, Rising(b, t)
  PROVE  Rising(b, s)
<1>1. DOMAIN s \subseteq DOMAIN t /\ \A i \in DOMAIN s : s[i] = t[i]
  <2>1. Len(s) <= Len(t) /\ SubSeq(s, 1, Len(s)) = SubSeq(t, 1, Len(s))
    BY DEF IsStrictPrefix, IsPrefix
  <2>2. Len(s) \in Nat /\ Len(t) \in Nat /\ DOMAIN s = 1..Len(s) /\ DOMAIN t = 1..Len(t)
    BY DEF Histories
  <2>3. \A i \in 1..Len(s) : SubSeq(s, 1, Len(s))[i] = s[i] /\ SubSeq(t, 1, Len(s))[i] = t[i]
    BY <2>1, <2>2 DEF Histories
  <2> QED
    BY <2>1, <2>2, <2>3
<1> QED
  BY <1>1 DEF Rising

(* A larger bound on the attempts of a history.                            *)
LEMMA AtMost ==
  ASSUME NEW sha \in Histories, NEW b, NEW n \in Nat, NEW m \in Nat, n <= m, UpTo(n, b, sha)
  PROVE  UpTo(m, b, sha)
<1>1. \A s \in Seq(Commits) : \A i \in DOMAIN s : s[i] \in Commits
  OBVIOUS
<1>2. \A i \in DOMAIN sha : sha[i].attempt \in Nat
  BY <1>1 DEF Histories, Commits, Checkpoint, Own
<1> QED
  BY <1>2 DEF UpTo

(* The histories that are named, now and after a step.                     *)
LEMMA ShasAre ==
  /\ \A sha : sha \in Shas <=> \/ \E b \in DOMAIN history : sha = history[b]
                               \/ \E b \in DOMAIN sessions : sha = sessions[b].last_checkpoint_sha
  /\ \A sha : sha \in Shas' <=> \/ \E b \in DOMAIN history' : sha = history'[b]
                                \/ \E b \in DOMAIN sessions' : sha = sessions'[b].last_checkpoint_sha
BY DEF Shas

(* What is named is a history.                                             *)
LEMMA ShasAreHistories == Types => Shas \subseteq Histories
BY ShasAre DEF Types, Numbered, Kept, SessionFile

(* Writing the name of a named history into a session.json.                *)
LEMMA ShasWritten ==
  ASSUME NEW b, NEW n, NEW sha \in Shas, NEW gate, NEW slice, Written(b, n, sha, gate, slice),
         history' = history
  PROVE  Shas' \subseteq Shas
BY ShasAre DEF Written

(* A step that commits nothing names no history that was not named.        *)
LEMMA ShasKept ==
  ASSUME Types, [Next]_vars, history' = history
  PROVE  Shas' \subseteq Shas
<1> USE DEF Types
<1>1. \A b \in DOMAIN sessions : sessions[b].last_checkpoint_sha \in Shas
  BY ShasAre
<1>2. \A b \in DOMAIN history : history[b] \in Shas
  BY ShasAre
<1>3. CASE sessions' = sessions
  BY <1>3, ShasAre
<1>4. ASSUME NEW passed \in BOOLEAN, Baseline(passed) PROVE Shas' \subseteq Shas
  <2> DEFINE s == NewSession(history[proc.branch], IF passed THEN "passed" ELSE "failed")
  <2>1. sessions' = Extend(sessions, proc.branch, s)
    BY <1>4 DEF Baseline
  <2>2. s.last_checkpoint_sha = history[proc.branch] /\ proc.branch \in DOMAIN history
    BY <1>4 DEF NewSession, Baseline, Running, At, Branches
  <2> HIDE DEF s
  <2>3. \A b \in DOMAIN sessions' : sessions'[b] = s \/ (b \in DOMAIN sessions /\ sessions'[b] = sessions[b])
    <3>1. sessions' = [z \in DOMAIN sessions \union {proc.branch} |-> IF z = proc.branch THEN s ELSE sessions[z]]
      BY <2>1, Zenon DEF Extend
    <3> QED
      BY <3>1
  <2> QED
    BY <1>2, <2>2, <2>3, ShasAre
<1>5. CASE ContinueSession
  <2>1. branch \in DOMAIN sessions /\ Resume(branch)
    BY <1>5 DEF ContinueSession, MayContinue, find_matching_session
  <2> QED
    BY <1>1, <2>1, Resumes, ShasWritten
<1>6. ASSUME NEW b \in Harness, ContinueBranch(b) PROVE Shas' \subseteq Shas
  <2>1. (b \in DOMAIN sessions /\ Resume(b)) \/ sessions' = sessions
    BY <1>6 DEF ContinueBranch, MayContinue, find_matching_session
  <2> QED
    BY <1>1, <1>3, <2>1, Resumes, ShasWritten
<1>7. ASSUME NEW written \in BOOLEAN, WriteStateDump(written) PROVE Shas' \subseteq Shas
  BY <1>1, <1>7, Dumps, ShasWritten DEF Written, Session
<1>8. CASE RecordCheckpoint
  BY <1>2, <1>8, Records, ShasWritten DEF Numbered
<1>9. CASE NextSlice
  BY <1>1, <1>9, Saves, ShasWritten DEF Written, Session
<1>10. CASE SaveReport
  BY <1>2, <1>10, Reports, ShasWritten DEF Numbered
<1>11. CASE Crash
  <2>1. \A b \in DOMAIN sessions' : b \in DOMAIN sessions /\ sessions'[b] = sessions[b]
    BY <1>11 DEF Crash
  <2> QED
    BY <2>1, ShasAre
<1>12. CASE Developer \/ UNCHANGED vars
  BY <1>3, <1>12 DEF Developer, Edit, Discard, Commit, Reset, CheckOut, vars
<1>13. CASE Begin
  BY <1>3, <1>4, <1>5, <1>6, <1>13 DEF Begin, prepare, StartSession, Provision
<1>14. CASE Attempt
  <2>1. ASSUME NEW work \in SUBSET {"agent", "secret"}, NEW commits \in BOOLEAN, NEW to \in DOMAIN history,
               Generate(work, commits, to)
        PROVE  sessions' = sessions
    BY <2>1 DEF Generate
  <2>2. ASSUME NEW passed \in BOOLEAN, NEW infra \in BOOLEAN, NEW ids \in SUBSET FindingIds,
               Validate(passed, infra, ids)
        PROVE  UNCHANGED <<history, sessions>>
    BY <2>2 DEF Validate
  <2>3. CommitAttempt \/ BudgetSpent => sessions' = sessions
    BY DEF CommitAttempt, BudgetSpent
  <2> QED
    BY <1>3, <1>7, <1>8, <1>14, <2>1, <2>2, <2>3 DEF Attempt
<1>15. CASE Finish
  BY <1>3, <1>9, <1>10, <1>11, <1>15 DEF Finish, Sweep, CleanUp, StepFails, Interrupt
<1> QED
  BY <1>12, <1>13, <1>14, <1>15 DEF Next

(* What a commit adds: the agent's work at the attempt the run is at, or   *)
(* somebody's own.                                                         *)
Committing(b, c) ==
  /\ b \in DOMAIN history /\ c \in Commits /\ c.by \in DOMAIN history /\ "user" \notin c.holds
  /\ c.by # Base => CommitAttempt /\ b = branch /\ c.by = proc.branch /\ c.attempt = proc.attempts
  /\ history' = [history EXCEPT ![b] = Append(@, c)] /\ sessions' = sessions

(* The steps that move a branch.                                           *)
LEMMA HistoryMoves ==
  ASSUME Types, [Next]_vars
  PROVE  \/ history' = history
         \/ \E b, c : Committing(b, c)
         \/ Reset
         \/ \E force_new \in BOOLEAN : StartSession(force_new)
<1> USE DEF Types
<1> DEFINE own == [by |-> Base, attempt |-> 0, holds |-> {}]
<1>1. own \in Commits /\ own.by = Base /\ own.holds = {} /\ Base \in DOMAIN history
  BY DEF Commits, Own, Numbered, Base
<1>2. ASSUME NEW b \in DOMAIN history, history' = [history EXCEPT ![b] = Append(@, own)],
             sessions' = sessions
      PROVE  Committing(b, own)
  BY <1>1, <1>2 DEF Committing
<1> HIDE DEF own
<1>3. CASE Commit
  <2>1. history' = [history EXCEPT ![branch] = Append(@, own)] /\ sessions' = sessions
    BY <1>3 DEF Commit, own
  <2> QED
    BY <1>2, <2>1 DEF Numbered
<1>4. ASSUME NEW work \in SUBSET {"agent", "secret"}, NEW commits \in BOOLEAN, NEW to \in DOMAIN history,
             Generate(work, commits, to), history' # history
      PROVE  \E b, c : Committing(b, c)
  <2>1. history' = [history EXCEPT ![to] = Append(@, own)] /\ sessions' = sessions
    BY <1>4 DEF Generate, own
  <2> QED
    BY <1>2, <2>1
<1>5. CASE CommitAttempt /\ history' # history
  <2> DEFINE c == [by |-> proc.branch, attempt |-> proc.attempts, holds |-> dirty \ {"secret"}]
  <2>1. history' = [history EXCEPT ![branch] = Append(@, c)] /\ sessions' = sessions
    BY <1>5 DEF CommitAttempt
  <2>2. proc.branch \in Harness /\ proc.branch \in Branches /\ proc.attempts \in Nat /\ dirty \subseteq Changes
        /\ "user" \notin dirty
    BY SMTT(120), <1>5, SessionConstants
       DEF CommitAttempt, At, Numbered, Running, Working, Run, Around, Harness, Branches, Base
  <2>3. c \in Commits
    BY <2>2 DEF Commits, Checkpoint
  <2> HIDE DEF Harness
  <2>4. c.by = proc.branch /\ c.attempt = proc.attempts /\ "user" \notin c.holds /\ c.by \in DOMAIN history
    BY <2>2 DEF Branches
  <2> HIDE DEF c
  <2>5. Committing(branch, c)
    BY <1>5, <2>1, <2>3, <2>4 DEF Committing, Numbered
  <2> QED
    BY <2>5
<1>6. CASE Developer \/ UNCHANGED vars
  BY <1>3, <1>6 DEF Developer, Edit, Discard, CheckOut, vars
<1>7. CASE Begin
  BY <1>7 DEF Begin, prepare, ContinueSession, ContinueBranch, Baseline, Provision
<1>8. CASE Attempt
  <2>2. ASSUME NEW passed \in BOOLEAN, NEW infra \in BOOLEAN, NEW ids \in SUBSET FindingIds,
               Validate(passed, infra, ids)
        PROVE  UNCHANGED <<history, sessions>>
    BY <2>2 DEF Validate
  <2>3. ASSUME NEW written \in BOOLEAN, WriteStateDump(written) PROVE history' = history
    BY <2>3 DEF WriteStateDump
  <2>4. RecordCheckpoint \/ BudgetSpent => history' = history
    BY DEF RecordCheckpoint, BudgetSpent
  <2> QED
    BY <1>4, <1>5, <1>8, <2>2, <2>3, <2>4 DEF Attempt
<1>9. CASE Finish
  BY <1>9 DEF Finish, NextSlice, SaveReport, Sweep, CleanUp, StepFails, Interrupt, Crash
<1> QED
  BY <1>6, <1>7, <1>8, <1>9 DEF Next

(* A new branch has the history it was cut from.                           *)
LEMMA Forked ==
  ASSUME Types, NEW force_new, StartSession(force_new)
  PROVE  /\ Fresh \notin DOMAIN history /\ DOMAIN history' = DOMAIN history \union {Fresh}
         /\ history'[Fresh] = history[branch] /\ branch \in DOMAIN history
         /\ \A b \in DOMAIN history : history'[b] = history[b]
         /\ sessions' = sessions /\ Shas' \subseteq Shas
<1>1. /\ Fresh \notin DOMAIN history /\ DOMAIN history' = DOMAIN history \union {Fresh}
      /\ history'[Fresh] = history[branch] /\ branch \in DOMAIN history
      /\ \A b \in DOMAIN history : history'[b] = history[b]
      /\ sessions' = sessions
  BY DEF StartSession, Types, Numbered, Extend
<1> QED
  BY <1>1, ShasAre

(* A reset moves the branch back to a history session.json names.          *)
LEMMA Rewound ==
  ASSUME Types, Reset
  PROVE  /\ DOMAIN history' = DOMAIN history /\ sessions' = sessions /\ Shas' \subseteq Shas
         /\ branch \in DOMAIN sessions /\ history'[branch] = sessions[branch].last_checkpoint_sha
         /\ IsStrictPrefix(history'[branch], history[branch])
         /\ \A b \in DOMAIN history \ {branch} : history'[b] = history[b]
<1>1. /\ DOMAIN history' = DOMAIN history /\ sessions' = sessions
      /\ branch \in DOMAIN sessions /\ history'[branch] = sessions[branch].last_checkpoint_sha
      /\ IsStrictPrefix(history'[branch], history[branch])
      /\ \A b \in DOMAIN history \ {branch} : history'[b] = history[b]
  BY DEF Reset, Types, Numbered
<1> QED
  BY <1>1, ShasAre

(* A commit moves one branch on by itself.                                 *)
LEMMA Grown ==
  ASSUME Types, NEW b, NEW c, Committing(b, c)
  PROVE  /\ DOMAIN history' = DOMAIN history /\ sessions' = sessions
         /\ b \in DOMAIN history /\ history[b] \in Shas /\ history'[b] = Append(history[b], c)
         /\ \A a \in DOMAIN history \ {b} : history'[a] = history[a]
         /\ \A sha \in Shas' : sha \in Shas \/ sha = Append(history[b], c)
<1>1. /\ DOMAIN history' = DOMAIN history /\ sessions' = sessions
      /\ b \in DOMAIN history /\ history[b] \in Shas /\ history'[b] = Append(history[b], c)
      /\ \A a \in DOMAIN history \ {b} : history'[a] = history[a]
  BY ShasAre DEF Committing, Types, Numbered
<1> QED
  BY <1>1, ShasAre

(* A commit keeps the attempts of a branch rising: what a session commits  *)
(* on its own branch is beyond what is there.                              *)
LEMMA CommittedKept ==
  ASSUME IInv, Types', [Next]_vars
  PROVE  Committed'
<1> USE DEF IInv, Types
<1>1. CASE history' = history
  BY <1>1, ShasKept DEF Committed, Branches
<1>2. ASSUME NEW b, NEW c, Committing(b, c) PROVE Committed'
  <2>1. history[b] \in Histories /\ history[b] \in Shas
    BY <1>2, Grown DEF Numbered
  <2>2. c \in Commits /\ "user" \notin c.holds /\ c.by \in DOMAIN history
    BY <1>2 DEF Committing
  <2>3. AgentsOnly(Append(history[b], c)) /\ By(DOMAIN history, Append(history[b], c))
    BY <2>1, <2>2, Appended DEF Committed
  <2>4. ASSUME b \in Branches PROVE Rising(b, Append(history[b], c))
    <3>1. CASE c.by # b
      BY <2>1, <2>2, <2>4, <3>1, Appended DEF Committed
    <3>2. CASE c.by = b
      <4>1. At("dumped") /\ b = proc.branch /\ c.attempt = proc.attempts
        BY <1>2, <2>4, <3>2 DEF Committing, CommitAttempt, Branches
      <4>2. proc.attempts = Session.last_attempt + 1 /\ UpTo(Session.last_attempt, b, history[b])
        BY <4>1 DEF Counted, At
      <4>3. Session.last_attempt \in Nat
        BY <4>1 DEF Running, Kept, SessionFile, At, Session
      <4> QED
        BY <2>1, <2>2, <2>4, <4>1, <4>2, <4>3, Appended DEF Committed
    <3> QED
      BY <3>1, <3>2
  <2> QED
    BY <1>2, <2>3, <2>4, Grown DEF Committed, Branches
<1>3. CASE Reset
  <2>1. history'[branch] \in Histories /\ history[branch] \in Histories
    BY <1>3, Rewound DEF Numbered
  <2>2. branch \in Branches => Rising(branch, history'[branch])
    BY <1>3, <2>1, Rewound, Shortened DEF Committed
  <2> QED
    BY <1>3, <2>2, Rewound DEF Committed, Branches
<1>4. ASSUME NEW force_new \in BOOLEAN, StartSession(force_new) PROVE Committed'
  <2>1. \A sha \in Shas' : AgentsOnly(sha) /\ By(DOMAIN history', sha)
    BY <1>4, Forked DEF Committed, By
  <2>2. history[branch] \in Shas /\ Fresh \notin DOMAIN history
    BY <1>4, Forked, ShasAre
  <2>3. Rising(Fresh, history[branch])
    BY <2>2 DEF Committed, By, Rising
  <2> QED
    BY <1>4, <2>1, <2>3, Forked DEF Committed, Branches
<1> QED
  BY <1>1, <1>2, <1>3, <1>4, HistoryMoves

(* What session.json and the histories know of a session's attempts moves  *)
(* together.                                                               *)
LEMMA RecordedKept ==
  ASSUME IInv, Types', [Next]_vars
  PROVE  Recorded'
<1> USE DEF IInv, Types
<1> DEFINE Knows(b) == /\ UpTo(sessions[b].last_attempt, b, sessions[b].last_checkpoint_sha)
                       /\ \A sha \in Shas : UpTo(sessions[b].last_attempt + 1, b, sha)
           Later(b) == /\ UpTo(sessions'[b].last_attempt, b, sessions'[b].last_checkpoint_sha)
                       /\ \A sha \in Shas' : UpTo(sessions'[b].last_attempt + 1, b, sha)
<1>1. \A b \in DOMAIN sessions : Knows(b)
  BY DEF Recorded
<1>2. SUFFICES \A b \in DOMAIN sessions' : Later(b)
  BY DEF Recorded
<1>3. CASE sessions' = sessions /\ Shas' \subseteq Shas
  BY <1>1, <1>3
<1>4. ASSUME NEW a, NEW c, Committing(a, c) PROVE \A b \in DOMAIN sessions' : Later(b)
  <2> SUFFICES ASSUME NEW b \in DOMAIN sessions PROVE Later(b)
    BY <1>4, Grown
  <2>1. history[a] \in Histories /\ c \in Commits /\ sessions[b].last_attempt \in Nat /\ history[a] \in Shas
    BY <1>4, Grown DEF Committing, Numbered, Kept, SessionFile
  <2>2. c.by = b => c.attempt <= sessions[b].last_attempt + 1
    <3>1. c.by = b => At("dumped") /\ b = proc.branch /\ c.attempt = proc.attempts
      BY <1>4 DEF Committing, CommitAttempt, Branches, Kept
    <3> QED
      BY <2>1, <3>1 DEF Counted, At, Session
  <2>3. UpTo(sessions[b].last_attempt + 1, b, Append(history[a], c))
    <3> DEFINE n == sessions[b].last_attempt + 1
    <3>1. n \in Nat /\ UpTo(n, b, history[a]) /\ (c.by = b => c.attempt <= n)
      BY <1>1, <2>1, <2>2
    <3> HIDE DEF n
    <3>2. UpTo(n, b, Append(history[a], c))
      BY <2>1, <3>1, Appended
    <3> QED
      BY <3>2 DEF n
  <2> QED
    BY ZenonT(120), <1>1, <1>4, <2>3, Grown
<1>5. ASSUME history' = history, NEW b, NEW n \in Nat, NEW sha \in Shas, NEW gate, NEW slice,
             Written(b, n, sha, gate, slice), n >= sessions[b].last_attempt, UpTo(n, b, sha)
      PROVE  \A a \in DOMAIN sessions' : Later(a)
  <2>1. Shas' \subseteq Shas
    BY <1>5, ShasKept
  <2>2. sessions[b].last_attempt \in Nat /\ b \in DOMAIN sessions
    BY <1>5 DEF Written, Kept, SessionFile
  <2>3. \A s \in Shas : UpTo(n + 1, b, s)
    BY <1>1, <1>5, <2>2, AtMost, ShasAreHistories
  <2> QED
    BY <1>1, <1>5, <2>1, <2>3 DEF Written
<1>6. \A b \in DOMAIN sessions : sessions[b].last_checkpoint_sha \in Shas /\ sessions[b].last_attempt \in Nat
  BY ShasAre DEF Kept, SessionFile
<1>7. ASSUME NEW b \in DOMAIN sessions, NEW gate, NEW slice, history' = history,
             Written(b, sessions[b].last_attempt, sessions[b].last_checkpoint_sha, gate, slice)
      PROVE  \A a \in DOMAIN sessions' : Later(a)
  BY <1>1, <1>5, <1>6, <1>7
<1> HIDE DEF Knows, Later
<1>8. ASSUME NEW passed \in BOOLEAN, Baseline(passed) PROVE \A b \in DOMAIN sessions' : Later(b)
  <2> DEFINE s == NewSession(history[proc.branch], IF passed THEN "passed" ELSE "failed")
  <2>1. sessions' = Extend(sessions, proc.branch, s) /\ history' = history
    BY <1>8 DEF Baseline
  <2>2. s.last_checkpoint_sha = history[proc.branch] /\ s.last_attempt = 0 /\ history[proc.branch] \in Shas
    BY <1>8, ShasAre DEF NewSession, Baseline, Running, At, Branches
  <2> HIDE DEF s
  <2>3. sessions' = [z \in DOMAIN sessions \union {proc.branch} |-> IF z = proc.branch THEN s ELSE sessions[z]]
    BY <2>1, Zenon DEF Extend
  <2>4. /\ sessions'[proc.branch] = s /\ DOMAIN sessions' = DOMAIN sessions \union {proc.branch}
        /\ \A b \in DOMAIN sessions \ {proc.branch} : sessions'[b] = sessions[b]
    BY <2>3
  <2>5. Shas' \subseteq Shas
    BY <2>1, ShasKept
  <2>6. \A sha \in Shas : UpTo(0, proc.branch, sha)
    BY <1>8 DEF Baseline, Counted
  <2>7. \A sha \in Shas : UpTo(1, proc.branch, sha)
    BY <2>6, AtMost, ShasAreHistories
  <2>8. Later(proc.branch)
    BY <2>2, <2>4, <2>5, <2>6, <2>7 DEF Later
  <2>9. \A b \in DOMAIN sessions \ {proc.branch} : Later(b)
    BY <1>1, <2>4, <2>5 DEF Knows, Later
  <2> QED
    BY <2>4, <2>8, <2>9
<1>9. ASSUME NEW b \in DOMAIN sessions, Resume(b), history' = history PROVE \A a \in DOMAIN sessions' : Later(a)
  BY <1>7, <1>9, Resumes
<1>10. CASE ContinueSession
  BY <1>9, <1>10 DEF ContinueSession, MayContinue, find_matching_session
<1>11. ASSUME NEW b \in Harness, ContinueBranch(b) PROVE \A a \in DOMAIN sessions' : Later(a)
  <2>1. history' = history /\ ((b \in DOMAIN sessions /\ Resume(b)) \/ sessions' = sessions)
    BY <1>11 DEF ContinueBranch, MayContinue, find_matching_session
  <2> QED
    BY <1>3, <1>9, <2>1, ShasKept
<1>12. ASSUME NEW written \in BOOLEAN, WriteStateDump(written) PROVE \A a \in DOMAIN sessions' : Later(a)
  <2>1. proc.branch \in DOMAIN sessions /\ history' = history
    BY <1>12, Dumps DEF Written, WriteStateDump
  <2> QED
    BY <1>7, <1>12, <2>1, Dumps DEF Session
<1>13. CASE NextSlice
  <2>1. proc.branch \in DOMAIN sessions /\ history' = history
    BY <1>13, Saves DEF Written, NextSlice
  <2> QED
    BY <1>7, <1>13, <2>1, Saves DEF Session
<1>14. history[branch] \in Shas
  BY ShasAre DEF Numbered
<1>15. CASE RecordCheckpoint
  <2>1. proc.branch \in DOMAIN sessions /\ history' = history
        /\ proc.attempts = sessions[proc.branch].last_attempt + 1
    BY <1>15 DEF RecordCheckpoint, Counted, Running, At, Session
  <2>2. UpTo(proc.attempts, proc.branch, history[branch])
    BY <1>1, <1>14, <2>1 DEF Knows
  <2>3. proc.attempts \in Nat /\ proc.attempts >= sessions[proc.branch].last_attempt
    BY <1>6, <2>1
  <2> QED
    BY <1>5, <1>14, <1>15, <2>1, <2>2, <2>3, Records
<1>16. CASE SaveReport
  <2>1. proc.branch \in DOMAIN sessions /\ history' = history
        /\ proc.attempts = sessions[proc.branch].last_attempt
    BY <1>16 DEF SaveReport, Counted, Running, At, Session
  <2>2. UpTo(proc.attempts, proc.branch, history[branch])
    BY <1>16 DEF SaveReport, Counted, At, Numbered
  <2>3. proc.attempts \in Nat /\ proc.attempts >= sessions[proc.branch].last_attempt
    BY <1>6, <2>1
  <2> QED
    BY <1>5, <1>14, <1>16, <2>1, <2>2, <2>3, Reports
<1>17. CASE Crash
  <2>1. history' = history /\ \A b \in DOMAIN sessions' : b \in DOMAIN sessions /\ sessions'[b] = sessions[b]
    BY <1>17 DEF Crash
  <2> QED
    BY <1>1, <2>1, ShasKept DEF Knows, Later
<1>18. CASE history' = history /\ sessions' = sessions
  BY <1>3, <1>18, ShasKept
<1>19. CASE history' = history
  <2>1. CASE Developer \/ UNCHANGED vars
    BY <1>18, <1>19, <2>1 DEF Developer, Edit, Discard, Commit, Reset, CheckOut, vars
  <2>2. CASE Begin
    BY <1>8, <1>10, <1>11, <1>18, <1>19, <2>2 DEF Begin, prepare, StartSession, Provision
  <2>3. CASE Attempt
    <3>1. ASSUME NEW work \in SUBSET {"agent", "secret"}, NEW commits \in BOOLEAN, NEW to \in DOMAIN history,
                 Generate(work, commits, to)
          PROVE  sessions' = sessions
      BY <3>1 DEF Generate
    <3>2. ASSUME NEW passed \in BOOLEAN, NEW infra \in BOOLEAN, NEW ids \in SUBSET FindingIds,
                 Validate(passed, infra, ids)
          PROVE  sessions' = sessions
      BY <3>2 DEF Validate
    <3>3. CommitAttempt \/ BudgetSpent => sessions' = sessions
      BY DEF CommitAttempt, BudgetSpent
    <3> QED
      BY <1>12, <1>15, <1>18, <1>19, <2>3, <3>1, <3>2, <3>3 DEF Attempt
  <2>4. CASE Finish
    BY <1>13, <1>16, <1>17, <1>18, <1>19, <2>4 DEF Finish, Sweep, CleanUp, StepFails, Interrupt
  <2> QED
    BY <2>1, <2>2, <2>3, <2>4 DEF Next
<1>20. CASE Reset
  BY <1>3, <1>20, Rewound
<1>21. ASSUME NEW force_new \in BOOLEAN, StartSession(force_new) PROVE \A b \in DOMAIN sessions' : Later(b)
  BY <1>3, <1>21, Forked
<1> QED
  BY <1>4, <1>19, <1>20, <1>21, HistoryMoves

(* The attempt a run is at stays the one after those it may have left.     *)
LEMMA CountedKept ==
  ASSUME IInv, Types', [Next]_vars
  PROVE  Counted'
<1> USE DEF IInv, Types
<1> DEFINE b == proc.branch
<1>1. CASE proc'.pc \in {"idle", "sweep", "clean"}
  BY <1>1 DEF Counted, At
<1>2. CASE UNCHANGED <<proc, sessions, history, branch>>
  BY <1>2, ShasKept DEF Counted, At, Session
<1>3. \A sha \in Shas : sha \in Histories /\ By(DOMAIN history, sha)
  BY ShasAreHistories DEF Committed
<1>4. \A a \in DOMAIN history : history[a] \in Shas
  BY ShasAre
<1>5. \A a \in DOMAIN sessions : sessions[a].last_attempt \in Nat /\ sessions[a].last_checkpoint_sha \in Shas
  BY ShasAre DEF Kept, SessionFile
<1>6. ASSUME NEW force_new \in BOOLEAN, StartSession(force_new) PROVE Counted'
  <2>1. proc'.pc = "branched" /\ proc'.branch = Fresh /\ proc'.attempts = 0
    BY <1>6 DEF StartSession, NoRun
  <2>2. \A sha \in Shas' : UpTo(0, Fresh, sha)
    BY <1>3, <1>6, Forked DEF By, UpTo
  <2> QED
    BY <2>1, <2>2 DEF Counted, At
<1>7. ASSUME NEW passed \in BOOLEAN, Baseline(passed) PROVE Counted'
  <2> DEFINE s == NewSession(history[proc.branch], IF passed THEN "passed" ELSE "failed")
  <2>1. sessions' = Extend(sessions, proc.branch, s) /\ history' = history /\ branch' = branch
    BY <1>7 DEF Baseline
  <2>2. s.last_attempt = 0
    BY DEF NewSession
  <2> HIDE DEF s
  <2>3. sessions' = [z \in DOMAIN sessions \union {proc.branch} |-> IF z = proc.branch THEN s ELSE sessions[z]]
    BY <2>1, Zenon DEF Extend
  <2>4. sessions'[proc.branch].last_attempt = 0
    BY <2>2, <2>3
  <2>5. proc.attempts = 0 /\ UpTo(0, b, history[b]) /\ branch = proc.branch
    BY <1>4, <1>7 DEF Baseline, Counted, Running, At, Branches
  <2>6. CASE proc' = [proc EXCEPT !.pc = "prepared"]
    <3>1. proc'.branch = proc.branch /\ proc'.attempts = proc.attempts /\ proc'.pc = "prepared"
      BY <2>6 DEF Working, Run
    <3> QED
      BY <2>1, <2>4, <2>5, <3>1 DEF Counted, At, Session
  <2>7. CASE proc' = NoRun
    BY <1>1, <2>7 DEF NoRun
  <2> QED
    BY <1>7, <2>6, <2>7 DEF Baseline
<1>8. ASSUME NEW a \in DOMAIN sessions, Resume(a), history[a] = sessions[a].last_checkpoint_sha,
             branch' = a, history' = history
      PROVE  Counted'
  <2>1. /\ sessions'[a].last_attempt = sessions[a].last_attempt
        /\ proc'.pc = "prepared" /\ proc'.branch = a /\ proc'.attempts = sessions[a].last_attempt
    BY <1>8, Resumed
  <2>2. UpTo(sessions[a].last_attempt, a, history[a])
    BY <1>8 DEF Recorded
  <2> QED
    BY <1>8, <2>1, <2>2 DEF Counted, At, Session
<1>9. CASE ContinueSession
  BY <1>8, <1>9 DEF ContinueSession, MayContinue, find_matching_session
<1>10. ASSUME NEW a \in Harness, ContinueBranch(a) PROVE Counted'
  <2>1. \/ a \in DOMAIN sessions /\ Resume(a) /\ history[a] = sessions[a].last_checkpoint_sha
        \/ proc' = proc
    BY <1>10 DEF ContinueBranch, MayContinue, find_matching_session
  <2> QED
    BY <1>1, <1>8, <1>10, <2>1 DEF ContinueBranch, At
<1>11. ASSUME At("prepared") \/ At("loop") \/ At("finish"), proc'.branch = proc.branch,
              proc'.attempts = proc.attempts, proc'.pc \in {"loop", "finish", "report"},
              sessions'[b].last_attempt = sessions[b].last_attempt, history' = history, branch' = branch
       PROVE  Counted'
  BY <1>11 DEF Counted, At, Session
<1>12. CASE Provision
  <2>1. proc'.branch = proc.branch /\ proc'.attempts = proc.attempts /\ proc'.pc = "loop"
    BY <1>12 DEF Provision, Working, Run
  <2> QED
    BY <1>11, <1>12, <2>1 DEF Provision
<1>13. CASE BudgetSpent
  <2>1. proc'.branch = proc.branch /\ proc'.attempts = proc.attempts /\ proc'.pc = "finish"
    BY <1>13 DEF BudgetSpent, Working, Run
  <2> QED
    BY <1>11, <1>13, <2>1 DEF BudgetSpent
<1>14. CASE NextSlice
  <2>1. proc'.branch = proc.branch /\ proc'.attempts = proc.attempts /\ proc'.pc \in {"loop", "report"}
    BY <1>14 DEF NextSlice, Working, Run
  <2>2. sessions'[b].last_attempt = sessions[b].last_attempt
    BY <1>14, Saves DEF Written, Session
  <2> QED
    BY <1>11, <1>14, <2>1, <2>2 DEF NextSlice
<1>15. ASSUME NEW work \in SUBSET {"agent", "secret"}, NEW commits \in BOOLEAN, NEW to \in DOMAIN history,
              Generate(work, commits, to)
       PROVE  Counted'
  <2>1. /\ proc'.branch = b /\ proc'.attempts = proc.attempts + 1 /\ proc'.pc = "generated"
        /\ sessions' = sessions
    BY <1>15 DEF Generate, Working, Run
  <2>2. b \in Branches /\ b \in DOMAIN sessions /\ proc.attempts = sessions[b].last_attempt
        /\ UpTo(proc.attempts, b, history[b])
    BY <1>15 DEF Generate, Counted, Running, At, Session
  <2>3. UpTo(proc.attempts, b, history'[b])
    <3>1. CASE history' = history
      BY <2>2, <3>1
    <3>2. CASE history' # history
      <4> DEFINE own == [by |-> Base, attempt |-> 0, holds |-> {}]
      <4>1. history' = [history EXCEPT ![to] = Append(@, own)]
        BY <1>15, <3>2 DEF Generate
      <4>2. own \in Commits /\ own.by # b
        BY <2>2 DEF Commits, Own, Branches
      <4> HIDE DEF own
      <4>3. history[b] \in Histories /\ proc.attempts \in Nat
        BY <2>2 DEF Numbered, Branches, Working, Run
      <4>4. UpTo(proc.attempts, b, Append(history[b], own))
        BY <2>2, <4>2, <4>3, Appended
      <4> QED
        BY <2>2, <4>1, <4>4 DEF Numbered, Branches
    <3> QED
      BY <3>1, <3>2
  <2> QED
    BY <2>1, <2>2, <2>3 DEF Counted, At, Session
<1>16. ASSUME proc.pc \in {"generated", "judged"}, proc'.branch = proc.branch,
              proc'.attempts = proc.attempts, proc'.pc \in {"judged", "dumped"},
              sessions'[b].last_attempt = sessions[b].last_attempt, history' = history
       PROVE  Counted'
  BY <1>16 DEF Counted, At, Session
<1>17. ASSUME NEW passed \in BOOLEAN, NEW infra \in BOOLEAN, NEW ids \in SUBSET FindingIds,
              Validate(passed, infra, ids)
       PROVE  Counted'
  <2>1. proc'.branch = proc.branch /\ proc'.attempts = proc.attempts /\ proc'.pc = "judged"
    BY <1>17 DEF Validate, Working, Run
  <2> QED
    BY <1>16, <1>17, <2>1 DEF Validate, At
<1>18. ASSUME NEW written \in BOOLEAN, WriteStateDump(written) PROVE Counted'
  <2>1. proc'.branch = proc.branch /\ proc'.attempts = proc.attempts /\ proc'.pc = "dumped"
    BY <1>18 DEF WriteStateDump, Working, Run
  <2>2. sessions'[b].last_attempt = sessions[b].last_attempt
    BY <1>18, Dumps DEF Written, Session
  <2> QED
    BY <1>16, <1>18, <2>1, <2>2 DEF WriteStateDump, At
<1>19. CASE CommitAttempt
  <2>1. /\ proc'.branch = proc.branch /\ proc'.attempts = proc.attempts /\ proc'.pc = "committed"
        /\ sessions' = sessions
    BY <1>19 DEF CommitAttempt, Working, Run
  <2> QED
    BY <1>19, <2>1 DEF CommitAttempt, Counted, At, Session
<1>20. CASE RecordCheckpoint
  <2>1. /\ proc'.branch = proc.branch /\ proc'.attempts = proc.attempts /\ proc'.pc \in {"finish", "loop"}
        /\ history' = history
    BY <1>20 DEF RecordCheckpoint, Working, Run
  <2>2. sessions'[b].last_attempt = proc.attempts
    BY <1>20, Records DEF Written
  <2>3. b \in DOMAIN sessions /\ b \in DOMAIN history /\ proc.attempts = sessions[b].last_attempt + 1
    BY <1>20 DEF RecordCheckpoint, Counted, Running, At, Session, Branches
  <2>4. \A a \in DOMAIN history : UpTo(proc.attempts, b, history[a])
    BY <1>4, <2>3 DEF Recorded
  <2> QED
    BY <2>1, <2>2, <2>3, <2>4 DEF Counted, At, Session
<1>21. SaveReport \/ StepFails \/ CleanUp \/ Interrupt \/ Crash => proc'.pc \in {"idle", "sweep", "clean"}
  <2>1. NoRun.pc = "idle" /\ [proc EXCEPT !.pc = "sweep"].pc = "sweep"
        /\ [proc EXCEPT !.pc = "sweep", !.ok = FALSE].pc = "sweep"
    BY DEF NoRun, Working, Run
  <2> QED
    BY <2>1 DEF SaveReport, StepFails, CleanUp, Interrupt, Crash
<1>22. ASSUME NEW success \in BOOLEAN, NEW logged \in BOOLEAN, Sweep(success, logged)
       PROVE  proc'.pc \in {"idle", "sweep", "clean"}
  BY <1>22 DEF Sweep, NoRun, Working, Run
<1>23. Developer => proc'.pc = "idle"
  BY DEF Developer, Edit, Discard, Commit, Reset, CheckOut, At
<1> QED
  <2>1. CASE Developer \/ UNCHANGED vars
    BY <1>1, <1>2, <1>23, <2>1 DEF vars
  <2>2. CASE Begin
    BY <1>6, <1>7, <1>9, <1>10, <1>12, <2>2 DEF Begin, prepare
  <2>3. CASE Attempt
    BY <1>13, <1>15, <1>17, <1>18, <1>19, <1>20, <2>3 DEF Attempt
  <2>4. CASE Finish
    BY <1>1, <1>14, <1>21, <1>22, <2>4 DEF Finish
  <2> QED
    BY <2>1, <2>2, <2>3, <2>4 DEF Next

(* What passed stays passed.                                               *)
LEMMA DeliveredGrows ==
  ASSUME Types, [Next]_vars
  PROVE  \A b \in Branches : b \in Branches' /\ delivered[b] \subseteq delivered'[b]
<1> USE DEF Types, Branches
<1>1. CASE delivered' = delivered /\ DOMAIN history' = DOMAIN history
  BY <1>1
<1>2. ASSUME NEW force_new \in BOOLEAN, StartSession(force_new)
      PROVE  \A b \in Branches : b \in Branches' /\ delivered[b] \subseteq delivered'[b]
  <2>1. delivered' = [z \in DOMAIN delivered \union {Fresh} |-> IF z = Fresh THEN {} ELSE delivered[z]]
    BY <1>2, Zenon DEF StartSession, Extend
  <2>2. DOMAIN delivered = Branches
    BY DEF Marked
  <2> QED
    BY <1>2, <2>1, <2>2, Forked
<1>3. CASE RecordCheckpoint
  BY <1>3 DEF RecordCheckpoint, Marked
<1>4. Developer \/ UNCHANGED vars => delivered' = delivered /\ DOMAIN history' = DOMAIN history
  BY DEF Developer, Edit, Discard, Commit, Reset, CheckOut, vars
<1>5. CASE Begin
  BY <1>1, <1>2, <1>5 DEF Begin, prepare, ContinueSession, ContinueBranch, Baseline, Provision
<1>6. CASE Attempt
  <2>1. ASSUME NEW work \in SUBSET {"agent", "secret"}, NEW commits \in BOOLEAN, NEW to \in DOMAIN history,
               Generate(work, commits, to)
        PROVE  delivered' = delivered /\ DOMAIN history' = DOMAIN history
    BY <2>1 DEF Generate
  <2>2. ASSUME NEW passed \in BOOLEAN, NEW infra \in BOOLEAN, NEW ids \in SUBSET FindingIds,
               Validate(passed, infra, ids)
        PROVE  UNCHANGED <<delivered, history>>
    BY <2>2 DEF Validate
  <2>3. ASSUME NEW written \in BOOLEAN, WriteStateDump(written) PROVE UNCHANGED <<delivered, history>>
    BY <2>3 DEF WriteStateDump
  <2>4. CommitAttempt => delivered' = delivered /\ DOMAIN history' = DOMAIN history
    BY DEF CommitAttempt
  <2>5. BudgetSpent => UNCHANGED <<delivered, history>>
    BY DEF BudgetSpent
  <2> QED
    BY <1>1, <1>3, <1>6, <2>1, <2>2, <2>3, <2>4, <2>5 DEF Attempt
<1>7. CASE Finish
  BY <1>1, <1>7 DEF Finish, NextSlice, SaveReport, Sweep, CleanUp, StepFails, Interrupt, Crash
<1> QED
  BY <1>1, <1>4, <1>5, <1>6, <1>7 DEF Next

(* Only the end of a run reports on its branch, and a report stands as     *)
(* long as the history it is about.                                        *)
LEMMA EndsMove ==
  ASSUME Types, [Next]_vars
  PROVE  \A b \in Branches' : ended'[b] \in {"passed", "failed"} =>
            \/ b \in Branches /\ ended'[b] = ended[b] /\ history'[b] = history[b]
            \/ /\ CleanUp /\ b = proc.branch /\ b = branch /\ b \in Branches /\ proc.ok
               /\ ended'[b] = "passed" => proc.all_passed
<1> USE DEF Types
<1> DEFINE Goal == \A b \in Branches' : ended'[b] \in {"passed", "failed"} =>
            \/ b \in Branches /\ ended'[b] = ended[b] /\ history'[b] = history[b]
            \/ /\ CleanUp /\ b = proc.branch /\ b = branch /\ b \in Branches /\ proc.ok
               /\ ended'[b] = "passed" => proc.all_passed
<1>1. CASE UNCHANGED <<history, ended>>
  BY <1>1 DEF Branches
<1>2. CASE Touched /\ DOMAIN history' = DOMAIN history
  BY <1>2, ReportsTouched DEF Branches
<1>3. ASSUME history' = history, NEW e \in {"refused", "error", "unlogged", "crashed"},
             ended' = [ended EXCEPT ![proc.branch] = e]
      PROVE  Goal
  BY <1>3 DEF Branches, Marked
<1>4. CASE CleanUp
  BY <1>4 DEF CleanUp, Branches, Marked
<1>5. ASSUME NEW force_new \in BOOLEAN, StartSession(force_new) PROVE Goal
  <2>1. ended' = [z \in DOMAIN ended \union {Fresh} |-> IF z = Fresh THEN "never" ELSE ended[z]]
    BY <1>5, Zenon DEF StartSession, Extend
  <2>2. DOMAIN ended = Branches
    BY DEF Marked
  <2> QED
    BY <1>5, <2>1, <2>2, Forked DEF Branches
<1> HIDE DEF Goal
<1>6. ASSUME NEW passed \in BOOLEAN, Baseline(passed) PROVE Goal
  <2>1. CASE passed
    BY <1>6, <2>1 DEF Baseline, Branches, Marked, Goal
  <2>2. CASE ~passed
    <3>1. history' = history /\ ended' = [ended EXCEPT ![proc.branch] = "refused"]
      BY <1>6, <2>2 DEF Baseline
    <3> QED
      BY <1>3, <3>1
  <2> QED
    BY <2>1, <2>2
<1>7. ASSUME NEW success \in BOOLEAN, NEW logged \in BOOLEAN, Sweep(success, logged) PROVE Goal
  <2>1. CASE logged
    BY <1>1, <1>7, <2>1 DEF Sweep, Goal
  <2>2. CASE ~logged
    <3>1. history' = history /\ ended' = [ended EXCEPT ![proc.branch] = "unlogged"]
      BY <1>7, <2>2 DEF Sweep
    <3> QED
      BY <1>3, <3>1
  <2> QED
    BY <2>1, <2>2
<1>8. StepFails \/ Interrupt => history' = history /\ ended' = [ended EXCEPT ![proc.branch] = "error"]
  BY DEF StepFails, Interrupt
<1>9. Crash => history' = history /\ ended' = [ended EXCEPT ![proc.branch] = "crashed"]
  BY DEF Crash
<1>10. StepFails \/ Interrupt \/ Crash => Goal
  BY <1>3, <1>8, <1>9
<1>11. CASE Developer \/ UNCHANGED vars
  BY <1>1, <1>2, <1>11 DEF Developer, Edit, Discard, Commit, Reset, CheckOut, vars, Goal
<1>12. CASE Begin
  BY <1>1, <1>5, <1>6, <1>12 DEF Begin, prepare, ContinueSession, ContinueBranch, Provision, Goal
<1>13. CASE Attempt
  <2>1. ASSUME NEW work \in SUBSET {"agent", "secret"}, NEW commits \in BOOLEAN, NEW to \in DOMAIN history,
               Generate(work, commits, to)
        PROVE  Touched /\ DOMAIN history' = DOMAIN history
    BY <2>1 DEF Generate
  <2>2. ASSUME NEW passed \in BOOLEAN, NEW infra \in BOOLEAN, NEW ids \in SUBSET FindingIds,
               Validate(passed, infra, ids)
        PROVE  UNCHANGED <<history, ended>>
    BY <2>2 DEF Validate
  <2>3. ASSUME NEW written \in BOOLEAN, WriteStateDump(written) PROVE UNCHANGED <<history, ended>>
    BY <2>3 DEF WriteStateDump
  <2>4. CommitAttempt => Touched /\ DOMAIN history' = DOMAIN history
    BY DEF CommitAttempt
  <2>5. RecordCheckpoint \/ BudgetSpent => UNCHANGED <<history, ended>>
    BY DEF RecordCheckpoint, BudgetSpent
  <2> QED
    BY <1>1, <1>2, <1>13, <2>1, <2>2, <2>3, <2>4, <2>5 DEF Attempt, Goal
<1>14. NextSlice \/ SaveReport => UNCHANGED <<history, ended>>
  BY DEF NextSlice, SaveReport
<1>15. CASE Finish
  BY <1>1, <1>4, <1>7, <1>10, <1>14, <1>15 DEF Finish, Goal
<1> QED
  BY <1>11, <1>12, <1>13, <1>15 DEF Next, Goal

(* A run stays on its branch until it ends, which the branch is marked     *)
(* with.                                                                   *)
LEMMA RunMoves ==
  ASSUME Types, [Next]_vars, ~At("idle")
  PROVE  \/ proc'.pc # "idle" /\ proc'.branch = proc.branch
         \/ proc'.pc = "idle" /\ (CleanUp \/ ended'[proc.branch] \notin {"passed", "failed"})
<1> USE DEF Types
<1>1. ASSUME proc.branch \in DOMAIN ended, NEW e, e \notin {"passed", "failed"},
             ended' = [ended EXCEPT ![proc.branch] = e]
      PROVE  ended'[proc.branch] \notin {"passed", "failed"}
  BY <1>1
<1>2. proc.branch \in DOMAIN ended
  BY DEF Running, Marked
<1>3. NoRun.pc = "idle"
  BY DEF NoRun
<1>4. ASSUME NEW passed \in BOOLEAN, Baseline(passed)
      PROVE  (proc'.pc # "idle" /\ proc'.branch = proc.branch)
             \/ (proc'.pc = "idle" /\ ended'[proc.branch] \notin {"passed", "failed"})
  <2>1. CASE passed
    BY <1>4, <2>1 DEF Baseline, Working, Run
  <2>2. CASE ~passed
    BY <1>1, <1>2, <1>3, <1>4, <2>2 DEF Baseline
  <2> QED
    BY <2>1, <2>2
<1>5. Provision => proc'.pc # "idle" /\ proc'.branch = proc.branch
  BY SMTT(120) DEF Provision, Working, Run
<1>6. CASE Attempt
  BY ZenonT(120), <1>6 DEF Attempt, Generate, Validate, WriteStateDump, CommitAttempt, RecordCheckpoint, BudgetSpent,
     Working, Run
<1>7. NextSlice \/ SaveReport => proc'.pc # "idle" /\ proc'.branch = proc.branch
  <2>1. NextSlice => proc'.pc # "idle" /\ proc'.branch = proc.branch
    <3>1. CASE NextSlice /\ proc.passed /\ proc.slice + 1 < Slices
      BY <3>1 DEF NextSlice, Working, Run
    <3>2. CASE NextSlice /\ ~(proc.passed /\ proc.slice + 1 < Slices)
      BY <3>2 DEF NextSlice, Working, Run
    <3> QED
      BY <3>1, <3>2
  <2>2. SaveReport => proc'.pc # "idle" /\ proc'.branch = proc.branch
    BY DEF SaveReport, Working, Run
  <2> QED
    BY <2>1, <2>2
<1>8. ASSUME NEW success \in BOOLEAN, NEW logged \in BOOLEAN, Sweep(success, logged)
      PROVE  (proc'.pc # "idle" /\ proc'.branch = proc.branch)
             \/ (proc'.pc = "idle" /\ ended'[proc.branch] \notin {"passed", "failed"})
  <2>1. CASE logged
    BY <1>8, <2>1 DEF Sweep, Working, Run
  <2>2. CASE ~logged
    BY <1>1, <1>2, <1>3, <1>8, <2>2 DEF Sweep
  <2> QED
    BY <2>1, <2>2
<1>9. [proc EXCEPT !.pc = "sweep", !.ok = FALSE].pc # "idle"
      /\ [proc EXCEPT !.pc = "sweep", !.ok = FALSE].branch = proc.branch
  BY DEF Working, Run
<1>10. StepFails => (proc'.pc # "idle" /\ proc'.branch = proc.branch)
             \/ (proc'.pc = "idle" /\ ended'[proc.branch] \notin {"passed", "failed"})
  BY <1>1, <1>2, <1>3, <1>9 DEF StepFails
<1>11. Interrupt \/ Crash => proc'.pc = "idle" /\ ended'[proc.branch] \notin {"passed", "failed"}
  BY <1>1, <1>2, <1>3 DEF Interrupt, Crash
<1>12. CleanUp => proc'.pc = "idle"
  BY <1>3 DEF CleanUp
<1>13. CASE Developer \/ UNCHANGED vars
  BY <1>13 DEF Developer, Edit, Discard, Commit, Reset, CheckOut, vars, At
<1>14. CASE Begin
  BY <1>4, <1>5, <1>14 DEF Begin, prepare, StartSession, ContinueSession, ContinueBranch, At
<1>15. CASE Finish
  BY <1>7, <1>8, <1>10, <1>11, <1>12, <1>15 DEF Finish
<1> QED
  BY <1>6, <1>13, <1>14, <1>15 DEF Next

(* Which session.json a step writes, and the increment it names.           *)
LEMMA SessionsMove ==
  ASSUME Types, [Next]_vars
  PROVE  /\ \A b \in DOMAIN sessions :
               \/ b \in DOMAIN sessions' /\ sessions'[b] = sessions[b]
               \/ ~At("idle") /\ b = proc.branch
               \/ At("idle") /\ proc'.pc = "prepared" /\ proc'.branch = b
         /\ \A b \in DOMAIN sessions' :
               \/ b \in DOMAIN sessions /\ sessions'[b].slice_index = sessions[b].slice_index
               \/ sessions'[b].slice_index = None
               \/ NextSlice /\ b = proc.branch /\ sessions'[b].slice_index = proc.slice
<1> USE DEF Types
<1> DEFINE Kind(b) == \/ b \in DOMAIN sessions' /\ sessions'[b] = sessions[b]
                      \/ ~At("idle") /\ b = proc.branch
                      \/ At("idle") /\ proc'.pc = "prepared" /\ proc'.branch = b
           From(b) == \/ b \in DOMAIN sessions /\ sessions'[b].slice_index = sessions[b].slice_index
                      \/ sessions'[b].slice_index = None
                      \/ NextSlice /\ b = proc.branch /\ sessions'[b].slice_index = proc.slice
           Goal == (\A b \in DOMAIN sessions : Kind(b)) /\ (\A b \in DOMAIN sessions' : From(b))
<1>1. CASE sessions' = sessions
  BY <1>1
<1>2. ASSUME NEW n, NEW sha, NEW gate, ~At("idle"),
             Written(proc.branch, n, sha, gate, Session.slice_index)
      PROVE  Goal
  BY <1>2 DEF Written, Session
<1>3. CASE NextSlice
  BY <1>3, Saves DEF Written, NextSlice, At
<1>4. ASSUME NEW b \in DOMAIN sessions, At("idle"), Resume(b) PROVE Goal
  BY <1>4, Resumed
<1>5. ASSUME NEW passed \in BOOLEAN, Baseline(passed) PROVE Goal
  <2> DEFINE s == NewSession(history[proc.branch], IF passed THEN "passed" ELSE "failed")
  <2>1. sessions' = Extend(sessions, proc.branch, s) /\ ~At("idle")
    BY <1>5 DEF Baseline, At
  <2>2. s.slice_index = None
    BY DEF NewSession
  <2> HIDE DEF s
  <2>3. sessions' = [z \in DOMAIN sessions \union {proc.branch} |-> IF z = proc.branch THEN s ELSE sessions[z]]
    BY <2>1, Zenon DEF Extend
  <2> QED
    BY <2>1, <2>2, <2>3
<1>6. CASE Crash
  BY <1>6 DEF Crash
<1> HIDE DEF Goal
<1>7. CASE ContinueSession
  <2>1. At("idle") /\ branch \in DOMAIN sessions /\ Resume(branch)
    BY <1>7 DEF ContinueSession, MayContinue, find_matching_session
  <2> QED
    BY <1>4, <2>1 DEF Goal
<1>8. ASSUME NEW b \in Harness, ContinueBranch(b) PROVE Goal
  <2>1. At("idle") /\ ((b \in DOMAIN sessions /\ Resume(b)) \/ sessions' = sessions)
    BY <1>8 DEF ContinueBranch, MayContinue, find_matching_session
  <2> QED
    BY <1>1, <1>4, <2>1 DEF Goal
<1>9. ASSUME NEW written \in BOOLEAN, WriteStateDump(written) PROVE Goal
  BY <1>2, <1>9, Dumps DEF WriteStateDump, At
<1>10. CASE RecordCheckpoint
  BY <1>10, Records DEF RecordCheckpoint, At, Written, Session, Goal
<1>11. CASE SaveReport
  BY <1>11, Reports DEF SaveReport, At, Written, Session, Goal
<1>12. CASE Developer \/ UNCHANGED vars
  BY <1>1, <1>12 DEF Developer, Edit, Discard, Commit, Reset, CheckOut, vars, Goal
<1>13. CASE Begin
  BY <1>1, <1>5, <1>7, <1>8, <1>13 DEF Begin, prepare, StartSession, Provision, Goal
<1>14. CASE Attempt
  <2>1. ASSUME NEW work \in SUBSET {"agent", "secret"}, NEW commits \in BOOLEAN, NEW to \in DOMAIN history,
               Generate(work, commits, to)
        PROVE  sessions' = sessions
    BY <2>1 DEF Generate
  <2>2. ASSUME NEW passed \in BOOLEAN, NEW infra \in BOOLEAN, NEW ids \in SUBSET FindingIds,
               Validate(passed, infra, ids)
        PROVE  sessions' = sessions
    BY <2>2 DEF Validate
  <2>3. CommitAttempt \/ BudgetSpent => sessions' = sessions
    BY DEF CommitAttempt, BudgetSpent
  <2> QED
    BY <1>1, <1>9, <1>10, <1>14, <2>1, <2>2, <2>3 DEF Attempt, Goal
<1>15. CASE Finish
  BY <1>1, <1>3, <1>6, <1>11, <1>15 DEF Finish, Sweep, CleanUp, StepFails, Interrupt, Goal
<1> QED
  BY <1>12, <1>13, <1>14, <1>15 DEF Next, Goal

(* A report names what is checked out, and nothing it says changes but by  *)
(* a commit, which ends what it says, or by the next run of the branch.    *)
LEMMA ReportedKept ==
  ASSUME IInv, Types', [Next]_vars
  PROVE  Reported'
<1> USE DEF IInv, Types
<1>1. FinishedIsResumable'
  <2> SUFFICES ASSUME NEW b \in DOMAIN ended', ended'[b] \in {"passed", "failed"},
                      proc'.pc = "idle" \/ proc'.branch # b
               PROVE  /\ b \in DOMAIN sessions' /\ sessions'[b].last_checkpoint_sha = history'[b]
                      /\ sessions'[b].gate_status # "pending"
    BY DEF FinishedIsResumable, At
  <2>1. b \in Branches'
    BY DEF Marked
  <2>2. CASE CleanUp /\ b = proc.branch /\ b = branch /\ b \in Branches /\ proc.ok
    BY <2>2 DEF CleanUp, Reported, Running, At, Session
  <2>3. CASE b \in Branches /\ ended'[b] = ended[b] /\ history'[b] = history[b] /\ ~(CleanUp /\ b = proc.branch)
    <3>1. At("idle") \/ proc.branch # b
      BY <2>3, RunMoves DEF At
    <3>2. /\ b \in DOMAIN sessions /\ sessions[b].last_checkpoint_sha = history[b]
          /\ sessions[b].gate_status # "pending"
      BY <2>3, <3>1 DEF Reported, FinishedIsResumable, Marked
    <3>3. b \in DOMAIN sessions' /\ sessions'[b] = sessions[b]
      BY <3>1, <3>2, SessionsMove
    <3> QED
      BY <2>3, <3>2, <3>3
  <2>4. CASE CleanUp /\ b = proc.branch /\ b \in Branches /\ ended'[b] = ended[b]
    <3>1. CleanUp => ended' = [ended EXCEPT ![proc.branch] =
                       IF ~proc.ok \/ branch # proc.branch THEN "error"
                       ELSE IF proc.all_passed THEN "passed" ELSE "failed"]
      BY DEF CleanUp
    <3>2. b = branch /\ proc.ok
      BY <2>4, <3>1 DEF Marked
    <3> QED
      BY <2>2, <2>4, <3>2
  <2> QED
    BY <2>1, <2>2, <2>3, <2>4, EndsMove
<1>2. ASSUME proc'.pc \in {"sweep", "clean"}, proc'.ok
      PROVE  /\ sessions'[proc'.branch].last_checkpoint_sha = history'[branch']
             /\ sessions'[proc'.branch].gate_status # "pending"
  <2>1. CASE SaveReport
    <3>1. proc'.branch = proc.branch /\ history' = history /\ branch' = branch
      BY <2>1 DEF SaveReport, Working, Run
    <3> QED
      BY <2>1, <3>1, Reports DEF Written
  <2>2. CASE UNCHANGED <<sessions, history, branch, proc>>
    BY <1>2, <2>2 DEF Reported, Session
  <2>3. ASSUME NEW success \in BOOLEAN, NEW logged \in BOOLEAN, Sweep(success, logged)
        PROVE  /\ sessions'[proc'.branch].last_checkpoint_sha = history'[branch']
               /\ sessions'[proc'.branch].gate_status # "pending"
    <3>1. logged
      BY <1>2, <2>3 DEF Sweep, NoRun
    <3>2. proc'.branch = proc.branch /\ proc'.ok = proc.ok
      BY <2>3, <3>1 DEF Sweep, Working, Run
    <3> QED
      BY <1>2, <2>3, <3>2 DEF Sweep, Reported, At, Session
  <2>4. NoRun.pc = "idle" /\ ~[proc EXCEPT !.pc = "sweep", !.ok = FALSE].ok
    BY DEF NoRun, Working, Run
  <2>5. ~StepFails /\ ~Interrupt /\ ~Crash /\ ~CleanUp
    BY <1>2, <2>4 DEF StepFails, Interrupt, Crash, CleanUp
  <2>6. ~NextSlice
    <3>1. CASE NextSlice /\ proc.passed /\ proc.slice + 1 < Slices
      BY <1>2, <3>1 DEF NextSlice, Working, Run
    <3>2. CASE NextSlice /\ ~(proc.passed /\ proc.slice + 1 < Slices)
      BY <1>2, <3>2 DEF NextSlice, Working, Run
    <3> QED
      BY <3>1, <3>2
  <2>7. CASE Developer
    BY <1>2, <2>7 DEF Developer, Edit, Discard, Commit, Reset, CheckOut, At
  <2>8. CASE Attempt
    <3>1. ASSUME NEW work \in SUBSET {"agent", "secret"}, NEW commits \in BOOLEAN, NEW to \in DOMAIN history,
                 Generate(work, commits, to)
          PROVE  FALSE
      BY <1>2, <3>1 DEF Generate, Working, Run
    <3>2. ASSUME NEW passed \in BOOLEAN, NEW infra \in BOOLEAN, NEW ids \in SUBSET FindingIds,
                 Validate(passed, infra, ids)
          PROVE  FALSE
      BY <1>2, <3>2 DEF Validate, Working, Run
    <3>3. ASSUME NEW written \in BOOLEAN, WriteStateDump(written) PROVE FALSE
      BY <1>2, <3>3 DEF WriteStateDump, Working, Run
    <3>4. ~CommitAttempt /\ ~RecordCheckpoint /\ ~BudgetSpent
      BY <1>2 DEF CommitAttempt, RecordCheckpoint, BudgetSpent, Working, Run
    <3> QED
      BY <2>8, <3>1, <3>2, <3>3, <3>4 DEF Attempt
  <2>9. CASE Begin
    <3>1. ASSUME NEW b \in DOMAIN sessions, Resume(b) PROVE proc'.pc = "prepared"
      BY <3>1, Resumed
    <3>2. ~ContinueSession
      BY <1>2, <3>1 DEF ContinueSession, MayContinue, find_matching_session
    <3>3. ASSUME NEW b \in Harness, ContinueBranch(b) PROVE FALSE
      BY <1>2, <3>1, <3>3 DEF ContinueBranch, MayContinue, find_matching_session, At
    <3>4. ASSUME NEW force_new \in BOOLEAN, StartSession(force_new) PROVE FALSE
      BY <1>2, <3>4 DEF StartSession, NoRun
    <3>5. ASSUME NEW passed \in BOOLEAN, Baseline(passed) PROVE FALSE
      BY <1>2, <2>4, <3>5 DEF Baseline, Working, Run
    <3>6. ~Provision
      BY <1>2 DEF Provision, Working, Run
    <3> QED
      BY <2>9, <3>2, <3>3, <3>4, <3>5, <3>6 DEF Begin, prepare
  <2>10. CASE Finish
    BY <2>1, <2>3, <2>5, <2>6, <2>10 DEF Finish
  <2> QED
    BY <2>2, <2>7, <2>8, <2>9, <2>10 DEF Next, vars
<1> QED
  BY <1>1, <1>2 DEF Reported, Session

(* Every increment before the one a run is at was delivered.               *)
LEMMA InOrderKept ==
  ASSUME IInv, Types', [Next]_vars
  PROVE  InOrder'
<1> USE DEF IInv, Types
<1> DEFINE Goal == InPlace(proc', delivered')
           Loop == {"loop", "generated", "judged", "dumped", "committed", "finish"}
<1>1. InPlace(proc, delivered)
  BY DEF InOrder
<1>2. \A b \in Branches' : delivered'[b] \subseteq Increments
  BY DEF Marked
<1>3. \A b \in Branches : b \in Branches' /\ delivered[b] \subseteq delivered'[b]
  BY DeliveredGrows
<1>4. \A b \in DOMAIN sessions : b \in Branches
  BY DEF Kept
<1>5. \A b \in Branches' : ended'[b] = "passed" => delivered'[b] = Increments
  <2> SUFFICES ASSUME NEW b \in Branches', ended'[b] = "passed" PROVE delivered'[b] = Increments
    OBVIOUS
  <2>1. CASE b \in Branches /\ ended[b] = "passed"
    BY <1>2, <1>3, <2>1 DEF InOrder
  <2>2. CASE CleanUp /\ b = proc.branch /\ b \in Branches /\ proc.ok /\ proc.all_passed
    BY <1>1, <1>2, <1>3, <2>2 DEF CleanUp, At, InPlace
  <2> QED
    BY <2>1, <2>2, EndsMove
<1>6. \A b \in DOMAIN sessions' :
        sessions'[b].slice_index # None => 0..(sessions'[b].slice_index - 1) \subseteq delivered'[b]
  <2> SUFFICES ASSUME NEW b \in DOMAIN sessions', sessions'[b].slice_index # None
               PROVE  0..(sessions'[b].slice_index - 1) \subseteq delivered'[b]
    OBVIOUS
  <2>1. CASE b \in DOMAIN sessions /\ sessions'[b].slice_index = sessions[b].slice_index
    BY <1>3, <1>4, <2>1 DEF InOrder
  <2>2. CASE NextSlice /\ b = proc.branch /\ sessions'[b].slice_index = proc.slice
    BY <1>1, <1>3, <2>2 DEF NextSlice, At, Running, InPlace
  <2> QED
    BY <2>1, <2>2, SessionsMove
<1>7. ~At("idle") => proc.branch \in Branches
  BY DEF Running
<1>8. ASSUME proc'.pc = "idle" PROVE Goal
  BY <1>8 DEF InPlace
<1>9. ASSUME proc'.pc \in {"branched", "prepared"}, ~proc'.passed PROVE Goal
  BY <1>9 DEF InPlace
<1>10. ASSUME proc' = proc PROVE Goal
  <2>1. CASE At("idle")
    BY <1>10, <2>1 DEF InPlace, At
  <2>2. CASE ~At("idle")
    BY <1>1, <1>2, <1>3, <1>7, <1>10, <2>2 DEF InPlace
  <2> QED
    BY <2>1, <2>2
<1>11. ASSUME NEW b \in DOMAIN sessions, Resume(b) PROVE Goal
  <2>1. proc'.pc = "prepared" /\ ~proc'.passed
    BY <1>11, Resumed
  <2> QED
    BY <1>9, <2>1
<1>12. ASSUME proc.pc \in Loop, proc'.branch = proc.branch, proc'.slice = proc.slice,
              proc'.pc \in Loop, proc'.pc = "loop" => ~proc'.passed,
              proc'.pc = "finish" /\ proc'.passed => proc.slice \in delivered'[proc.branch]
       PROVE  Goal
  BY <1>1, <1>3, <1>7, <1>12 DEF InPlace, At
<1>13. ASSUME proc.pc \in {"report", "sweep", "clean"}, proc'.branch = proc.branch, proc'.ok = proc.ok,
              proc'.all_passed = proc.all_passed, proc'.pc \in {"report", "sweep", "clean"}
       PROVE  Goal
  BY <1>1, <1>2, <1>3, <1>7, <1>13 DEF InPlace, At
<1>14. ASSUME proc'.pc = "sweep", ~proc'.ok PROVE Goal
  BY <1>14 DEF InPlace
<1> HIDE DEF Goal
<1>15. NoRun.pc = "idle"
  BY DEF NoRun
<1>16. ASSUME NEW force_new \in BOOLEAN, StartSession(force_new) PROVE Goal
  BY <1>9, <1>16 DEF StartSession, NoRun
<1>17. ASSUME NEW passed \in BOOLEAN, Baseline(passed) PROVE Goal
  <2>1. CASE proc' = NoRun
    BY <1>8, <1>15, <2>1
  <2>2. CASE proc' = [proc EXCEPT !.pc = "prepared"] /\ ~proc.passed
    BY <1>9, <2>2 DEF Working, Run
  <2>3. ~proc.passed
    BY <1>1, <1>17 DEF Baseline, InPlace, At
  <2> QED
    BY <1>17, <2>1, <2>2, <2>3 DEF Baseline
<1>18. ASSUME Provision PROVE Goal
  <2>1. proc'.pc = "loop" /\ proc'.branch = proc.branch /\ proc'.slice = FirstSlice
        /\ proc'.passed = proc.passed
        /\ proc.branch \in DOMAIN sessions /\ delivered' = delivered
    BY <1>18 DEF Provision, Working, Run, Running
  <2>2. 0..(FirstSlice - 1) \subseteq delivered[proc.branch]
    <3>1. Session.slice_index \in Saved
      BY <2>1 DEF Session, Kept, SessionFile
    <3>2. CASE proc.is_continue /\ Session.slice_index # None
      <4>1. Session.slice_index \in 0..(Slices - 1)
        BY <3>1, <3>2 DEF Saved, Increments
      <4>2. FirstSlice = Session.slice_index
        BY <3>2, <4>1, SessionConstants DEF FirstSlice
      <4> QED
        BY <1>1, <2>1, <3>2, <4>2 DEF InOrder, Session
    <3>3. CASE ~(proc.is_continue /\ Session.slice_index # None)
      BY <3>3 DEF FirstSlice
    <3> QED
      BY <3>2, <3>3
  <2>3. ~proc'.passed
    BY <1>1, <1>18, <2>1 DEF InPlace, Provision, At
  <2> QED
    BY <2>1, <2>2, <2>3 DEF Goal, InPlace
<1>19. ASSUME Begin PROVE Goal
  <2>1. ContinueSession => \E b \in DOMAIN sessions : Resume(b)
    BY DEF ContinueSession, MayContinue, find_matching_session
  <2>2. ASSUME NEW b \in Harness, ContinueBranch(b) PROVE (\E a \in DOMAIN sessions : Resume(a)) \/ proc' = proc
    BY <2>2 DEF ContinueBranch, MayContinue, find_matching_session
  <2> QED
    BY <1>10, <1>11, <1>16, <1>17, <1>18, <1>19, <2>1, <2>2 DEF Begin, prepare
<1>20. ASSUME NEW work \in SUBSET {"agent", "secret"}, NEW commits \in BOOLEAN, NEW to \in DOMAIN history,
              Generate(work, commits, to)
       PROVE  Goal
  BY <1>12, <1>20 DEF Generate, At, Working, Run
<1>21. ASSUME NEW passed \in BOOLEAN, NEW infra \in BOOLEAN, NEW ids \in SUBSET FindingIds,
              Validate(passed, infra, ids)
       PROVE  Goal
  BY <1>12, <1>21 DEF Validate, At, Working, Run
<1>22. ASSUME NEW written \in BOOLEAN, WriteStateDump(written) PROVE Goal
  BY <1>12, <1>22 DEF WriteStateDump, At, Working, Run
<1>23. ASSUME CommitAttempt PROVE Goal
  BY <1>12, <1>23 DEF CommitAttempt, At, Working, Run
<1>24. ASSUME RecordCheckpoint PROVE Goal
  <2>1. /\ proc.pc = "committed" /\ proc'.branch = proc.branch /\ proc'.slice = proc.slice
        /\ proc'.passed = proc.passed
        /\ (proc'.pc = "finish" \/ (proc'.pc = "loop" /\ ~proc.passed))
    BY <1>24 DEF RecordCheckpoint, At, Working, Run
  <2>2. proc.branch \in DOMAIN delivered
    BY <1>7, <2>1 DEF Marked, At
  <2>3. proc.passed => proc.slice \in delivered'[proc.branch]
    BY <1>24, <2>2 DEF RecordCheckpoint
  <2> QED
    BY <1>12, <2>1, <2>3
<1>25. ASSUME BudgetSpent PROVE Goal
  <2>1. proc.pc = "loop" /\ proc'.branch = proc.branch /\ proc'.slice = proc.slice /\ proc'.passed = proc.passed
        /\ proc'.pc = "finish"
    BY <1>25 DEF BudgetSpent, At, Working, Run
  <2>2. ~proc.passed
    BY <1>1, <2>1 DEF InPlace
  <2> QED
    BY <1>12, <2>1, <2>2
<1>26. ASSUME Attempt PROVE Goal
  BY <1>20, <1>21, <1>22, <1>23, <1>24, <1>25, <1>26 DEF Attempt
<1>27. ASSUME NextSlice PROVE Goal
  <2>1. proc.pc = "finish" /\ delivered' = delivered /\ proc.branch \in Branches
    BY <1>7, <1>27 DEF NextSlice, At
  <2>2. 0..(proc.slice - 1) \subseteq delivered[proc.branch] /\ proc.slice \in 0..(Slices - 1)
    BY <1>1, <2>1 DEF InPlace, Working, Run, Increments
  <2>3. proc.passed => 0..proc.slice \subseteq delivered[proc.branch]
    BY <1>1, <2>1, <2>2 DEF InPlace
  <2>4. CASE proc.passed /\ proc.slice + 1 < Slices
    <3>1. proc'.pc = "loop" /\ proc'.branch = proc.branch /\ proc'.slice = proc.slice + 1 /\ ~proc'.passed
      BY <1>27, <2>4 DEF NextSlice, Working, Run
    <3>2. 0..(proc'.slice - 1) \subseteq delivered'[proc'.branch]
      BY <2>1, <2>2, <2>3, <2>4, <3>1
    <3> QED
      BY <3>1, <3>2 DEF Goal, InPlace
  <2>5. CASE ~(proc.passed /\ proc.slice + 1 < Slices)
    <3>1. proc'.pc = "report" /\ proc'.branch = proc.branch /\ (proc'.all_passed => proc.passed)
      BY <1>27, <2>5 DEF NextSlice, Working, Run
    <3>2. proc.passed => delivered[proc.branch] = Increments
      <4>1. proc.passed => proc.slice = Slices - 1
        BY <2>2, <2>5, SessionConstants
      <4>2. delivered[proc.branch] \subseteq Increments
        BY <2>1 DEF Marked
      <4> QED
        BY <2>3, <4>1, <4>2 DEF Increments
    <3> QED
      BY <2>1, <3>1, <3>2 DEF Goal, InPlace
  <2> QED
    BY <2>4, <2>5
<1>28. ASSUME SaveReport PROVE Goal
  BY <1>13, <1>28 DEF SaveReport, At, Working, Run
<1>29. ASSUME NEW success \in BOOLEAN, NEW logged \in BOOLEAN, Sweep(success, logged) PROVE Goal
  <2>1. CASE logged
    BY <1>13, <1>29, <2>1 DEF Sweep, At, Working, Run
  <2>2. CASE ~logged
    BY <1>8, <1>15, <1>29, <2>2 DEF Sweep
  <2> QED
    BY <2>1, <2>2
<1>30. ASSUME StepFails PROVE Goal
  <2>1. CASE proc' = NoRun
    BY <1>8, <1>15, <2>1
  <2>2. CASE proc' = [proc EXCEPT !.pc = "sweep", !.ok = FALSE]
    BY <1>14, <2>2 DEF Working, Run
  <2> QED
    BY <1>30, <2>1, <2>2 DEF StepFails
<1>31. ASSUME CleanUp \/ Interrupt \/ Crash PROVE Goal
  BY <1>8, <1>15, <1>31 DEF CleanUp, Interrupt, Crash
<1>32. ASSUME Finish PROVE Goal
  BY <1>27, <1>28, <1>29, <1>30, <1>31, <1>32 DEF Finish
<1>33. ASSUME Developer \/ UNCHANGED vars PROVE Goal
  BY <1>10, <1>33 DEF Developer, Edit, Discard, Commit, Reset, CheckOut, vars
<1>34. Goal
  BY <1>19, <1>26, <1>32, <1>33 DEF Next
<1> QED
  BY <1>5, <1>6, <1>34 DEF InOrder, Goal

(* Every step keeps the invariant. *)
LEMMA Inductive == IInv /\ [Next]_vars => IInv'
BY TypesKept, CommittedKept, RecordedKept, CountedKept, InOrderKept, ReportedKept DEF IInv

(* It holds where the system starts. *)
LEMMA Initially == Init => IInv
<1> SUFFICES ASSUME Init PROVE IInv
  OBVIOUS
<1>1. /\ history = [b \in {0} |-> <<>>] /\ DOMAIN history = {0} /\ history[0] = <<>> /\ branch = 0
      /\ dirty = {} /\ DOMAIN sessions = {} /\ DOMAIN keys = {} /\ DOMAIN delivered = {} /\ DOMAIN ended = {}
      /\ keys = [b \in {} |-> None] /\ sessions = [b \in {} |-> Genesis]
      /\ delivered = [b \in {} |-> {}] /\ ended = [b \in {} |-> "never"] /\ asides = 0
      /\ proc = NoRun
  BY DEF Init, Base
<1>2. Fresh = 1
  BY <1>1, FS_Singleton DEF Fresh
<1>3. Branches = {}
  BY <1>1 DEF Branches, Base
<1>4. Numbered
  <2>1. <<>> \in Histories
    BY DEF Histories
  <2>2. 0..(Fresh - 1) = {0}
    BY <1>2
  <2> QED
    BY <1>1, <1>2, <2>1, <2>2, SessionConstants DEF Numbered
<1>5. Working
  BY <1>1, Values DEF Working
<1>6. NoRun.pc = "idle" /\ ~NoRun.signed
  BY DEF NoRun
<1>7. Around /\ Kept /\ Marked /\ Running
  BY <1>1, <1>3, <1>6 DEF Around, Kept, Marked, Running, At
<1>8. \A sha \in Shas : sha = <<>>
  BY <1>1, ShasAre
<1>9. Committed
  BY <1>3, <1>8 DEF Committed, AgentsOnly, By
<1>10. Recorded /\ Counted
  BY <1>1, <1>6 DEF Recorded, Counted, At
<1>11. InOrder
  BY <1>1, <1>3, <1>6 DEF InOrder, InPlace
<1>12. Reported
  BY <1>1, <1>6 DEF Reported, FinishedIsResumable
<1> QED
  BY <1>4, <1>5, <1>7, <1>9, <1>10, <1>11, <1>12 DEF IInv, Types

(* The invariant holds in every state of every run. *)
THEOREM Invariant == Spec => []IInv
<1>1. Init => IInv
  BY Initially
<1>2. IInv /\ [Next]_vars => IInv'
  BY Inductive
<1> QED
  BY <1>1, <1>2, PTL DEF Spec

(* The values the state of the session and of the run take.                *)
THEOREM TypeCorrect == Spec => []TypeOK
<1>1. IInv => TypeOK
  <2> SUFFICES ASSUME IInv PROVE TypeOK
    OBVIOUS
  <2> USE DEF IInv, Types
  <2>1. branch \in DOMAIN history /\ Base \in DOMAIN history /\ DOMAIN history \subseteq 0..MaxBranches
    BY SessionConstants DEF Numbered, Base
  <2>2. \A sha \in Shas : \A i \in DOMAIN sha : sha[i] \in Checkpoint \union Own
    <3>1. \A s \in Seq(Commits) : \A i \in DOMAIN s : s[i] \in Commits
      OBVIOUS
    <3> QED
      BY <3>1, ShasAreHistories DEF Histories, Commits
  <2>3. dirty \subseteq Changes
    BY DEF Around
  <2>4. DOMAIN sessions \subseteq DOMAIN history \ {Base}
    BY DEF Kept, Branches
  <2>5. \A b \in DOMAIN sessions :
         /\ sessions[b].cycle \in 0..MaxCycles
         /\ sessions[b].gate_status \in GateStatus
         /\ sessions[b].slice_index \in 0..(Slices - 1) \union {None}
         /\ sessions[b].open \subseteq FindingIds
    BY DEF Kept, SessionFile, Cycles, Saved, Increments, Ids
  <2>6. keys \in [DOMAIN history \ {Base} -> 0..MaxCycles \union {None}]
    BY DEF Marked, Branches, Cycles
  <2>7. proc.pc \in Phases /\ proc.slice \in 0..(Slices - 1) /\ proc.this_cycle \in 0..MaxAttempts
    BY DEF Working, Run, Increments, Budget
  <2>8. delivered \in [DOMAIN keys -> SUBSET (0..(Slices - 1))] /\ DOMAIN ended = DOMAIN keys
    BY DEF Marked, Increments
  <2> QED
    BY <2>1, <2>2, <2>3, <2>4, <2>5, <2>6, <2>7, <2>8 DEF TypeOK
<1> QED
  BY Invariant, <1>1, PTL

(* The checkpoints of a branch are the agent's attempts, each once and     *)
(* with a higher number than any before it, for any number of crashes,     *)
(* resets, continues and branches (session.rs, record_checkpoint).         *)
THEOREM Checkpoints == Spec => []CheckpointsAreAttempts
<1>1. IInv => CheckpointsAreAttempts
  <2> SUFFICES ASSUME IInv PROVE CheckpointsAreAttempts
    OBVIOUS
  <2>1. OnlyAgentWorkCommitted
    BY ShasAre DEF IInv, Committed, AgentsOnly, OnlyAgentWorkCommitted
  <2>2. AttemptsIncrease
    BY DEF IInv, Committed, Rising, Branches, AttemptsIncrease
  <2> QED
    BY <2>1, <2>2 DEF CheckpointsAreAttempts
<1> QED
  BY Invariant, <1>1, PTL

(* session.json says where the run is, over any number of cycles: what was *)
(* delivered, and where a finished run can be continued (run.rs, drive).   *)
THEOREM SessionTruth == Spec => []SessionIsTrue
<1>1. IInv => SessionIsTrue
  <2> SUFFICES ASSUME IInv PROVE SessionIsTrue
    OBVIOUS
  <2>1. DeliveredInOrder
    BY DEF IInv, Types, Marked, Increments, InOrder, DeliveredInOrder
  <2>2. FinishedIsResumable
    BY DEF IInv, Reported
  <2> QED
    BY <2>1, <2>2 DEF SessionIsTrue
<1> QED
  BY Invariant, <1>1, PTL

(* A run that had a signer leaves no key file behind, but by a crash or    *)
(* a sweep that could not be logged (run.rs, cleanup_runtime).             *)
THEOREM KeysGo == Spec => KeyFileGoes
<1> DEFINE Gone == keys' = [b \in DOMAIN keys |-> None] \/ ended'[proc.branch] \in {"crashed", "unlogged"}
<1>1. IInv /\ [Next]_vars => [proc.signed /\ proc'.pc = "idle" => Gone]_vars
  <2> SUFFICES ASSUME IInv, [Next]_vars, vars' # vars, proc.signed, proc'.pc = "idle" PROVE Gone
    OBVIOUS
  <2> USE DEF IInv, Types
  <2>1. proc.pc \notin {"idle", "branched", "prepared"} /\ proc.branch \in DOMAIN ended
    BY DEF Running, Marked, At
  <2>2. [proc EXCEPT !.pc = "sweep", !.ok = FALSE].pc = "sweep"
    BY DEF Working, Run
  <2>3. ~StepFails
    BY <2>1, <2>2 DEF StepFails, At
  <2>4. ~NextSlice
    <3>1. CASE NextSlice /\ proc.passed /\ proc.slice + 1 < Slices
      BY <3>1 DEF NextSlice, Working, Run
    <3>2. CASE NextSlice /\ ~(proc.passed /\ proc.slice + 1 < Slices)
      BY <3>2 DEF NextSlice, Working, Run
    <3> QED
      BY <3>1, <3>2
  <2>5. ~SaveReport
    BY DEF SaveReport, Working, Run
  <2>6. ASSUME NEW success \in BOOLEAN, NEW logged \in BOOLEAN, Sweep(success, logged) PROVE Gone
    <3>1. ~logged
      BY <2>6 DEF Sweep, Working, Run
    <3> QED
      BY <2>1, <2>6, <3>1 DEF Sweep
  <2>7. CASE CleanUp \/ Interrupt
    BY <2>1, <2>7 DEF CleanUp, Interrupt, NoKeys, At
  <2>8. CASE Crash
    BY <2>1, <2>8 DEF Crash
  <2>9. ~Developer
    BY <2>1 DEF Developer, Edit, Discard, Commit, Reset, CheckOut, At
  <2>10. ~Begin
    BY <2>1 DEF Begin, prepare, StartSession, ContinueSession, ContinueBranch, Baseline, Provision, At
  <2>11. ~Attempt
    <3>1. ASSUME NEW work \in SUBSET {"agent", "secret"}, NEW commits \in BOOLEAN, NEW to \in DOMAIN history,
                 Generate(work, commits, to)
          PROVE  FALSE
      BY <3>1 DEF Generate, Working, Run
    <3>2. ASSUME NEW passed \in BOOLEAN, NEW infra \in BOOLEAN, NEW ids \in SUBSET FindingIds,
                 Validate(passed, infra, ids)
          PROVE  FALSE
      BY <3>2 DEF Validate, Working, Run
    <3>3. ASSUME NEW written \in BOOLEAN, WriteStateDump(written) PROVE FALSE
      BY <3>3 DEF WriteStateDump, Working, Run
    <3>4. ~CommitAttempt /\ ~RecordCheckpoint /\ ~BudgetSpent
      BY DEF CommitAttempt, RecordCheckpoint, BudgetSpent, Working, Run
    <3> QED
      BY <3>1, <3>2, <3>3, <3>4 DEF Attempt
  <2> QED
    BY <2>3, <2>4, <2>5, <2>6, <2>7, <2>8, <2>9, <2>10, <2>11 DEF Next, Finish
<1> QED
  BY <1>1, Invariant, PTL DEF KeyFileGoes, Spec
=============================================================================
