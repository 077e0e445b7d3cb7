------------------------------ MODULE Processes ------------------------------
(***************************************************************************)
(* The processes an attempt of `hanvil run' starts, and how each of them   *)
(* ends: the agent, watched for silence and for the wall clock (agent.rs); *)
(* a command with a limit (command.rs); the dev server of the app          *)
(* (devserver.rs) and, while it serves, the browser's MCP server (mcp.rs). *)
(* Every child leads a process group; it may start a descendant, which     *)
(* shares its group and perhaps its pipes.  A group is stopped by SIGTERM, *)
(* a grace period for the direct child, and SIGKILL if it is still there;  *)
(* Ctrl-C drops the run, which kills the direct children, and then stops   *)
(* every group registered in LIVE_GROUPS.                                  *)
(*                                                                         *)
(* Time is counted down: `left' of the deadline in force, `slept' of the   *)
(* agent's idle timer, `silent' up from the agent's last output.           *)
(***************************************************************************)
EXTENDS Watcher, Sequences

CONSTANTS
  WALL,     \* the agent's limit
  IDLE,     \* how long the agent may be silent
  LIMIT,    \* the limit of a command, of the server's start, of a browser call
  GRACE,    \* KILL_GRACE
  Traits,   \* what a group may be: [deaf, grandDeaf, holds]
  Plans     \* the jobs a run may have, in their order

ASSUME LimitsArePositive == /\ WALL \in Nat \ {0} /\ IDLE \in Nat \ {0}
                            /\ LIMIT \in Nat \ {0} /\ GRACE \in Nat \ {0}

Jobs == {"agent", "command", "server", "browser"}

\* The browser comes with the server, once it serves.
ASSUME PlansAreJobs == \A plan \in Plans : plan \in Seq(Jobs \ {"browser"}) /\ plan # <<>>

VARIABLES
  child,    \* the direct child of each job
  grand,    \* its descendant: "none", "alive", "dying", "dead"
  trait,    \* deaf: the child ignores SIGTERM; grandDeaf: the descendant does;
            \* holds: the descendant has the pipes of the child
  live,     \* LIVE_GROUPS
  todo,     \* the jobs to come
  job,      \* what the run is at, "end" when it has returned or was dropped
  at,       \* where in the job
  left, slept, silent,
  why,      \* how the agent's wait ended
  ctrl_c,   \* "no", "drop", "grace", "over"
  struck,   \* groups whose child had not been waited on when Ctrl-C came
  strays    \* descendants started after their group was told to stop

proc_vars == <<child, grand, trait, live, todo, job, at, left, slept, silent, why, ctrl_c, struck,
               strays>>
vars == <<watch_vars, proc_vars>>

timers == <<left, slept, silent>>
outcome == <<why, ctrl_c, struck, strays>>

Gone(state) == state \in {"none", "dead"}

First(j) == IF j = "agent" THEN "watch" ELSE "start"

NoTrait == [deaf |-> FALSE, grandDeaf |-> FALSE, holds |-> FALSE]

Init ==
  /\ WatchInit
  /\ child = [j \in Jobs |-> "none"] /\ grand = child
  /\ trait = [j \in Jobs |-> NoTrait]
  /\ live = {}
  /\ \E plan \in Plans : job = Head(plan) /\ todo = Tail(plan)
  /\ at = First(job)
  /\ left = 0 /\ slept = 0 /\ silent = 0
  /\ why = "none" /\ ctrl_c = "no" /\ struck = {} /\ strays = {}

-----------------------------------------------------------------------------
(* Signals.                                                                *)

\* pkill -TERM -g: whoever of the group does not ignore it is on its way out.
Terminated(groups) ==
  /\ child' = [j \in Jobs |-> IF j \in groups /\ child[j] = "alive" /\ ~trait[j].deaf
                              THEN "dying" ELSE child[j]]
  /\ grand' = [j \in Jobs |-> IF j \in groups /\ grand[j] = "alive" /\ ~trait[j].grandDeaf
                              THEN "dying" ELSE grand[j]]

Killed(groups) ==
  /\ child' = [j \in Jobs |-> IF j \in groups /\ child[j] = "alive" THEN "dying" ELSE child[j]]
  /\ grand' = [j \in Jobs |-> IF j \in groups /\ grand[j] = "alive" THEN "dying" ELSE grand[j]]

register_group(j) == live' = live \cup {j}
unregister_group(j) == live' = live \ {j}

\* stop_group begins: SIGTERM, and the child is given the grace period.
Stop(j) ==
  /\ Terminated({j})
  /\ at' = "grace" /\ left' = GRACE

\* Both pipes read to their end: nobody is left to write to them.
PipeClosed(j) == child[j] = "dead" /\ (trait[j].holds => Gone(grand[j]))

\* The run goes on elsewhere in the job, with the next one, or is over.
Then(next, place) == job' = next /\ at' = place /\ todo' = todo

NextJob ==
  IF todo = <<>> THEN Then("end", "end")
  ELSE job' = Head(todo) /\ at' = First(job') /\ todo' = Tail(todo)

-----------------------------------------------------------------------------
(* The steps of the run.                                                   *)

StartWatching ==
  /\ job = "agent" /\ at = "watch"
  /\ WatchStart
  /\ at' = "start"
  /\ UNCHANGED <<child, grand, trait, live, todo, job, timers, outcome>>

(* Mutant: the group is listed before the child is started. *)
NotSpawnedListed ==
  /\ at = "start"
  /\ live' = live \cup {job}
  /\ CASE job = "agent"   -> Then("agent", "unwatch")
       [] job = "command" -> NextJob
       [] job = "server"  -> Then("end", "end")
       [] job = "browser" -> Then("server", "stop")
  /\ UNCHANGED <<watch_vars, child, grand, trait, timers, outcome>>

\* A child that cannot be started is exit 127 of the agent, a failed command,
\* an error of the server, a finding of the browser gate.
NotSpawned ==
  /\ at = "start"
  /\ CASE job = "agent"   -> Then("agent", "unwatch")
       [] job = "command" -> NextJob
       [] job = "server"  -> Then("end", "end")
       [] job = "browser" -> Then("server", "stop")
  /\ UNCHANGED <<watch_vars, child, grand, trait, live, timers, outcome>>

Spawn ==
  /\ at = "start"
  /\ child' = [child EXCEPT ![job] = "alive"]
  /\ \E t \in Traits : trait' = [trait EXCEPT ![job] = t]
  /\ register_group(job)
  /\ IF job = "agent"
     THEN left' = WALL /\ slept' = IDLE /\ silent' = 0
     ELSE left' = LIMIT /\ UNCHANGED <<slept, silent>>
  /\ at' = CASE job = "server"  -> "detect"
             [] job = "browser" -> "handshake"
             [] OTHER           -> "wait"
  /\ UNCHANGED <<watch_vars, grand, todo, job, outcome>>

\* The child is waited on.  The agent's group is forgotten before its pipes are
\* read, a command's after.
Reaped ==
  /\ IF job = "agent" THEN unregister_group(job) ELSE UNCHANGED live
  /\ at' = "read"

Exits ==
  /\ job \in {"agent", "command"} /\ at = "wait" /\ child[job] = "dead"
  /\ Reaped
  /\ why' = IF job = "agent" THEN "exit" ELSE why
  /\ UNCHANGED <<watch_vars, child, grand, trait, todo, job, timers, ctrl_c, struck, strays>>

\* The wall clock of the agent, or the limit of a command.
Overruns ==
  /\ job \in {"agent", "command"} /\ at = "wait" /\ left = 0
  /\ Stop(job)
  /\ why' = IF job = "agent" THEN "wall" ELSE why
  /\ UNCHANGED <<watch_vars, trait, live, todo, job, slept, silent, ctrl_c, struck, strays>>

(* Mutant: the timer that was set before the last output decides. *)
IdleWakesBlindly ==
  /\ job = "agent" /\ at = "wait" /\ slept = 0
  /\ Stop(job) /\ why' = "idle" /\ UNCHANGED slept
  /\ UNCHANGED <<watch_vars, trait, live, todo, job, silent, ctrl_c, struck, strays>>

\* The idle timer fires; output that came while it ran sets it again.
IdleWakes ==
  /\ job = "agent" /\ at = "wait" /\ slept = 0
  /\ IF silent < IDLE
     THEN slept' = IDLE - silent /\ UNCHANGED <<child, grand, at, left, why>>
     ELSE Stop(job) /\ why' = "idle" /\ UNCHANGED slept
  /\ UNCHANGED <<watch_vars, trait, live, todo, job, silent, ctrl_c, struck, strays>>

(* Mutant: a child that ignores SIGTERM is waited for. *)
GraceEndsWaiting ==
  /\ at = "grace" /\ left = 0
  /\ at' = "killed"
  /\ UNCHANGED <<child, grand>>
  /\ UNCHANGED <<watch_vars, trait, live, todo, job, timers, outcome>>

\* The grace period is over and the child is still there.
GraceEnds ==
  /\ at = "grace" /\ left = 0
  /\ Killed({job})
  /\ at' = "killed"
  /\ UNCHANGED <<watch_vars, trait, live, todo, job, timers, outcome>>

\* The child that was stopped is waited on.
StopEnds ==
  /\ at \in {"grace", "killed"} /\ child[job] = "dead"
  /\ CASE job \in {"agent", "command"} -> Reaped /\ job' = job /\ todo' = todo
       [] job = "browser" -> unregister_group(job) /\ Then("server", "stop")
       [] job = "server"  -> unregister_group(job) /\ Then("end", "end")
  /\ UNCHANGED <<watch_vars, child, grand, trait, timers, outcome>>

ReadersEnd ==
  /\ at = "read" /\ PipeClosed(job)
  /\ IF job = "agent" THEN Then("agent", "unwatch") ELSE NextJob
  /\ unregister_group(job)
  /\ UNCHANGED <<watch_vars, child, grand, trait, timers, outcome>>

Unwatch ==
  /\ at = "unwatch"
  /\ WatchAbort
  /\ at' = "last"
  /\ UNCHANGED <<child, grand, trait, live, todo, job, timers, outcome>>

LastWalk == at = "last" /\ LastWalkFile /\ UNCHANGED proc_vars

StopWatching ==
  /\ at = "last"
  /\ WatchStop
  /\ NextJob
  /\ UNCHANGED <<child, grand, trait, live, timers, outcome>>

\* The server prints its URL, or the configured one answers.
Detected ==
  /\ at = "detect"
  /\ at' = "poll" /\ left' = LIMIT
  /\ UNCHANGED <<watch_vars, child, grand, trait, live, todo, job, slept, silent, outcome>>

\* Nothing is done for a server that has gone or will not come up but to stop
\* what there is of it.
NotDetected ==
  /\ at = "detect" /\ (child[job] = "dead" \/ left = 0)
  /\ Stop(job)
  /\ UNCHANGED <<watch_vars, trait, live, todo, job, slept, silent, outcome>>

Answers ==
  /\ at = "poll"
  /\ Then("browser", "start")
  /\ UNCHANGED <<watch_vars, child, grand, trait, live, timers, outcome>>

(* Mutant: the session is dropped, which reaches the direct child only. *)
NotReadyDropped ==
  /\ at = "poll" /\ left = 0
  /\ child' = [child EXCEPT ![job] = IF @ = "alive" THEN "dying" ELSE @]
  /\ Then("end", "end") /\ left' = 0
  /\ UNCHANGED grand
  /\ UNCHANGED <<watch_vars, trait, live, slept, silent, outcome>>

NotReady ==
  /\ at = "poll" /\ left = 0
  /\ Stop(job)
  /\ job' = job /\ todo' = todo
  /\ UNCHANGED <<watch_vars, trait, live, slept, silent, outcome>>

Handshake ==
  /\ at = "handshake" /\ child[job] = "alive"
  /\ at' = "calls"
  /\ UNCHANGED <<watch_vars, child, grand, trait, live, todo, job, timers, outcome>>

\* No answer, or an error: the client is dropped with its group still listed,
\* and the drop reaches the direct child only.
NoHandshake ==
  /\ at = "handshake"
  /\ child' = [child EXCEPT ![job] = IF @ = "alive" THEN "dying" ELSE @]
  /\ Then("server", "stop")
  /\ UNCHANGED <<watch_vars, grand, trait, live, timers, outcome>>

\* The last call has been answered or timed out: `close'.
CallsEnd ==
  /\ at = "calls"
  /\ Stop(job)
  /\ UNCHANGED <<watch_vars, trait, live, todo, job, slept, silent, outcome>>

\* The gates are through: Session::stop.
ServerStops ==
  /\ job = "server" /\ at = "stop"
  /\ Stop(job)
  /\ UNCHANGED <<watch_vars, trait, live, todo, job, slept, silent, outcome>>

-----------------------------------------------------------------------------
(* Ctrl-C.                                                                 *)

\* The run's future is dropped, at an await: the last walk has none.  kill_on_drop
\* strikes the direct children.
Interrupt ==
  /\ ctrl_c = "no" /\ job # "end" /\ at # "last"
  /\ struck' = {j \in Jobs : ~Gone(child[j])}
  /\ child' = [j \in Jobs |-> IF child[j] = "alive" THEN "dying" ELSE child[j]]
  /\ Then("end", "end") /\ live' = live
  /\ ctrl_c' = "drop"
  /\ UNCHANGED <<watch_vars, grand, trait, timers, why, strays>>

\* kill_groups: SIGTERM to all, one second, SIGKILL to all.
TermGroups ==
  /\ ctrl_c = "drop"
  /\ Terminated(live)
  /\ ctrl_c' = "grace" /\ left' = 1
  /\ UNCHANGED <<watch_vars, trait, live, todo, job, at, slept, silent, why, struck, strays>>

KillGroups ==
  /\ ctrl_c = "grace" /\ left = 0
  /\ Killed(live)
  /\ live' = {} /\ ctrl_c' = "over"
  /\ UNCHANGED <<watch_vars, trait, todo, job, at, timers, why, struck, strays>>

-----------------------------------------------------------------------------
(* The processes and the clock.                                            *)

Fork(j) ==
  /\ child[j] = "alive" /\ grand[j] = "none"
  /\ grand' = [grand EXCEPT ![j] = "alive"]
  /\ strays' = IF job = j /\ at # "grace" THEN strays ELSE strays \cup {j}
  /\ UNCHANGED <<watch_vars, child, trait, live, todo, job, at, timers, why, ctrl_c, struck>>

ChildExits(j) ==
  /\ child[j] = "alive"
  /\ child' = [child EXCEPT ![j] = "dead"]
  /\ UNCHANGED <<watch_vars, grand, trait, live, todo, job, at, timers, outcome>>

GrandExits(j) ==
  /\ grand[j] = "alive"
  /\ grand' = [grand EXCEPT ![j] = "dead"]
  /\ UNCHANGED <<watch_vars, child, trait, live, todo, job, at, timers, outcome>>

\* A fatal signal takes effect.
Dies(j) ==
  /\ \/ child[j] = "dying" /\ child' = [child EXCEPT ![j] = "dead"] /\ UNCHANGED grand
     \/ grand[j] = "dying" /\ grand' = [grand EXCEPT ![j] = "dead"] /\ UNCHANGED child
  /\ UNCHANGED <<watch_vars, trait, live, todo, job, at, timers, outcome>>

\* The agent prints something.
Output ==
  /\ job = "agent" /\ at = "wait" /\ child["agent"] = "alive" /\ silent > 0
  /\ silent' = 0
  /\ UNCHANGED <<watch_vars, child, grand, trait, live, todo, job, at, left, slept, outcome>>

Writes == "alive" \in {child["agent"], grand["agent"]} /\ (\E f \in Files : WriteFile(f)) /\ UNCHANGED proc_vars

Polls == job = "agent" /\ Polling /\ UNCHANGED proc_vars

Less(n) == IF n = 0 THEN 0 ELSE n - 1

Tick ==
  /\ left > 0 \/ (job = "agent" /\ at = "wait" /\ (slept > 0 \/ silent < IDLE))
  /\ left' = Less(left)
  /\ IF job = "agent" /\ at = "wait"
     THEN slept' = Less(slept) /\ silent' = IF silent < IDLE THEN silent + 1 ELSE IDLE
     ELSE UNCHANGED <<slept, silent>>
  /\ UNCHANGED <<watch_vars, child, grand, trait, live, todo, job, at, outcome>>

Over == job = "end" /\ ctrl_c \in {"no", "over"} /\ UNCHANGED vars

Harness ==
  \/ StartWatching \/ Spawn \/ NotSpawned \/ Exits \/ GraceEnds \/ StopEnds \/ ReadersEnd
  \/ Unwatch \/ LastWalk \/ StopWatching \/ Detected \/ NotDetected \/ Answers \/ NotReady
  \/ Handshake \/ NoHandshake \/ CallsEnd \/ ServerStops
  \/ TermGroups \/ KillGroups

Next ==
  \/ Harness \/ Overruns \/ IdleWakes
  \/ Interrupt
  \/ \E j \in Jobs : Fork(j) \/ ChildExits(j) \/ GrandExits(j) \/ Dies(j)
  \/ Output \/ Writes \/ Polls \/ Tick
  \/ Over

\* Time passes, a struck process dies, and the run's future is polled until it
\* has nothing to wait for; a timer that is due is taken by the select in time,
\* however often the idle timer is set again.  No process has to exit of itself.
Spec ==
  /\ Init /\ [][Next]_vars
  /\ WF_vars(Harness) /\ WF_vars(Overruns) /\ WF_vars(IdleWakes) /\ WF_vars(Tick)
  /\ \A j \in Jobs : WF_vars(Dies(j))

-----------------------------------------------------------------------------
(* Properties.                                                             *)

\* Types: every variable holds what its comment says; a group is listed only
\* for a job that was started.
TypeOK ==
  /\ job \in Jobs \cup {"end"}
  /\ at \in {"watch", "start", "wait", "grace", "killed", "read", "unwatch", "last", "detect", "poll",
             "handshake", "calls", "stop", "end"}
  /\ \A j \in Jobs : /\ child[j] \in {"none", "alive", "dying", "dead"}
                     /\ grand[j] \in {"none", "alive", "dying", "dead"}
                     /\ child[j] = "none" => grand[j] = "none" /\ j \notin live
  /\ left \in 0 .. WALL + LIMIT + GRACE /\ slept \in 0 .. IDLE /\ silent \in 0 .. IDLE
  /\ why \in {"none", "exit", "wall", "idle"}
  /\ ctrl_c \in {"no", "drop", "grace", "over"}

\* "Agent produced no output for {idle}ms; treating as failure" (agent.rs, run):
\* an agent stopped as idle has been silent for the whole of the idle time, and
\* one that was stopped for the wall clock has had all of it.
StoppedForCause ==
  [][/\ why' = "idle" /\ why # "idle" => silent = IDLE
     /\ why' = "wall" /\ why # "wall" => left = 0]_vars

\* "Ctrl-C walks this list so an agent, a dev server or a browser never outlives
\* the run" (command.rs, LIVE_GROUPS): when the interrupt is through, no process
\* is left that was not struck, of any group whose child the run had not yet
\* waited on; and "on failure the server is stopped so it does not keep the
\* port" (devserver.rs, start): a run that ends by itself has stopped its server,
\* the descendants that heed SIGTERM included.
NothingOutlivesTheRun ==
  /\ ctrl_c = "over" => /\ \A j \in struck : child[j] # "alive" /\ grand[j] # "alive"
                        /\ live = {}
  /\ job = "end" /\ ctrl_c = "no" =>
       /\ Gone(child["server"])
       /\ trait["server"].grandDeaf \/ "server" \in strays \/ grand["server"] # "alive"

\* "Anything still on disk when the agent stops is recorded, because `stop` scans
\* once more before it writes the total" (watcher.rs): every file that differs
\* at the stop from what it was at the start is in the log, whatever walk was
\* under way, unless a descendant of the agent wrote it during the last walk;
\* and every line of the log is counted in its total.
LogNamesEveryChange ==
  /\ watcher = "stopped" => changes(base, final) \subseteq logged \cup late
  /\ logged # {} => edits > 1
  /\ changed >= Cardinality(logged)

\* "Wall-clock limit" (command.rs, Execute::timeout), kept by a group of its own
\* "so a timeout can tear down grandchildren" (command.rs): a command that was
\* started is over some time after its limit, whatever its descendants do.
LimitIsKept == (job = "command" /\ at = "wait") ~> (job # "command")

\* The readers of a child that is gone wait, with no limit, for a descendant that
\* holds the other end of a pipe (command.rs, agent.rs).
HeldUp == at = "read" /\ child[job] = "dead" /\ trait[job].holds /\ grand[job] = "alive"

\* However the children behave -- deaf to signals, silent, chatty, gone -- a run
\* comes to its end; a descendant that lives on with the pipes of a child that
\* has been waited on is the one thing that can keep it for ever.
RunEnds == <>(job = "end" /\ ctrl_c \in {"no", "over"}) \/ <>[]HeldUp
=============================================================================
