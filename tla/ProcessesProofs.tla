-------------------------- MODULE ProcessesProofs --------------------------
(***************************************************************************)
(* Proofs about Processes and Watcher, for any limits, any plan of jobs,   *)
(* any traits of the processes and any finite set of files.                *)
(***************************************************************************)
EXTENDS Processes, FiniteSetTheorems, TLAPS

Process == {"none", "alive", "dying", "dead"}

(* The values the variables take. *)
Shape ==
  /\ job \in Jobs \cup {"end"} /\ todo \in Seq(Jobs \ {"browser"})
  /\ child \in [Jobs -> Process] /\ grand \in [Jobs -> Process]
  /\ DOMAIN trait = Jobs /\ live \subseteq Jobs /\ struck \subseteq Jobs /\ strays \subseteq Jobs
  /\ left \in 0 .. WALL + LIMIT + GRACE /\ slept \in 0 .. IDLE /\ silent \in 0 .. IDLE
  /\ why \in {"none", "exit", "wall", "idle"}
  /\ ctrl_c \in {"no", "drop", "grace", "over"}

(* Where in a job the run can be. *)
Placed ==
  /\ job = "agent"   => at \in {"watch", "start", "wait", "grace", "killed", "read", "unwatch",
                              "last"}
  /\ job = "command" => at \in {"start", "wait", "grace", "killed", "read"}
  /\ job = "server"  => at \in {"start", "detect", "poll", "stop", "grace", "killed"}
  /\ job = "browser" => at \in {"start", "handshake", "calls", "grace", "killed"}
  /\ job = "end"     => at = "end"

(* A group is listed from before its child can run until the child has     *)
(* been waited on, and none before it was started.                         *)
Listed ==
  /\ \A j \in Jobs : child[j] = "none" => grand[j] = "none" /\ j \notin live
  /\ ctrl_c # "over" => \A j \in Jobs : child[j] \in {"alive", "dying"} => j \in live

(* The drop of the run leaves no child that could start another process,   *)
(* and what it struck is listed until it is killed.                        *)
Dropped ==
  /\ ctrl_c # "no" => job = "end" /\ \A j \in Jobs : child[j] # "alive"
  /\ ctrl_c \in {"drop", "grace"} => struck \subseteq live
  /\ ctrl_c = "over" => live = {} /\ \A j \in struck : grand[j] # "alive"

(* The server is not there before its turn; once it has been told to stop  *)
(* its descendant is, unless it ignores the signal or came after it.       *)
Heeds == trait["server"].grandDeaf \/ "server" \in strays \/ grand["server"] # "alive"

ServerGoes ==
  /\ job \in {"agent", "command"} \/ (job = "server" /\ at = "start") => child["server"] = "none"
  /\ job = "server" /\ at \in {"grace", "killed"} => Heeds
  /\ at = "killed" => child[job] # "alive"
  /\ job = "end" /\ ctrl_c = "no" => Gone(child["server"]) /\ Heeds

(* What the watcher has compared so far is in the log; the last walk saw   *)
(* every file as it is, but for those written since it began.              *)
Watching ==
  /\ edits \in Nat \ {0} /\ logged \subseteq Files /\ changed \in Nat
  /\ changed >= Cardinality(logged)
  /\ watcher \in {"on", "last"} => changes(base, previous) \subseteq logged
  /\ watcher = "last" => \A f \in DOMAIN walk \ late : walk[f] = tree[f]
  /\ watcher = "stopped" => changes(base, final) \subseteq logged \cup late
  /\ edits = 1 => logged = {}
  /\ edits = 1 /\ watcher \in {"on", "last"} =>
       /\ \A f \in Files : previous[f] = tree[f]
       /\ \A f \in DOMAIN walk : walk[f] = tree[f]
  /\ DOMAIN walk \subseteq Files
  /\ job = "agent" /\ at \notin {"watch", "last"} => watcher = "on"
  /\ at = "last" => watcher = "last"

IInv == Shape /\ Placed /\ Listed /\ Dropped /\ ServerGoes /\ Watching

(* What comes after a job. *)
LEMMA Onward ==
    ASSUME todo \in Seq(Jobs \ {"browser"}), NextJob
    PROVE  /\ todo' \in Seq(Jobs \ {"browser"})
           /\ \/ job' \in Jobs \ {"browser"} /\ at' = First(job')
              \/ job' = "end" /\ at' = "end"
<1>1. CASE todo = <<>>
  BY <1>1 DEF NextJob, Then
<1>2. CASE todo # <<>>
  <2>1. Head(todo) \in Jobs \ {"browser"} /\ Tail(todo) \in Seq(Jobs \ {"browser"})
    BY <1>2
  <2> QED
    BY <1>2, <2>1 DEF NextJob
<1> QED
  BY <1>1, <1>2

(* A line of the log per change: the total counts every file named. *)
LEMMA Recorded ==
    ASSUME logged \subseteq Files, changed \in Nat, changed >= Cardinality(logged), NEW now, record(now)
    PROVE  /\ logged' = logged \cup changes(previous, now) /\ logged' \subseteq Files
           /\ changed' \in Nat /\ changed' >= Cardinality(logged')
<1> DEFINE new == changes(previous, now)
<1>1. new \subseteq Files /\ logged' = logged \cup new /\ changed' = changed + Cardinality(new)
  BY DEF record, changes
<1> HIDE DEF new
<1>2. IsFiniteSet(new) /\ IsFiniteSet(logged)
  BY <1>1, FilesAreFinite, FS_Subset
<1>3. /\ Cardinality(new) \in Nat /\ Cardinality(logged) \in Nat /\ Cardinality(logged \cap new) \in Nat
      /\ Cardinality(logged \cup new) = Cardinality(logged) + Cardinality(new) - Cardinality(logged \cap new)
  <2>1. IsFiniteSet(logged \cap new)
    BY <1>2, FS_Subset
  <2> QED
    BY <1>2, <2>1, FS_Union, FS_CardinalityType
<1> QED
  BY <1>1, <1>3 DEF new

(* Every step keeps the invariant. *)
LEMMA Inductive == IInv /\ [Next]_vars => IInv'
<1> SUFFICES ASSUME IInv, [Next]_vars PROVE IInv'
  OBVIOUS
<1> USE LimitsArePositive DEF IInv, Jobs, Process, Gone, Heeds
<1>1. CASE StartWatching
  <2>1. Shape'
    BY <1>1 DEF Shape, StartWatching, WatchStart, timers, outcome
  <2>2. Placed'
    BY <1>1 DEF Placed, StartWatching, WatchStart, timers, outcome
  <2>3. Listed'
    BY <1>1 DEF Listed, StartWatching, WatchStart, timers, outcome
  <2>4. Dropped'
    BY <1>1 DEF Dropped, StartWatching, WatchStart, timers, outcome
  <2>5. ServerGoes'
    BY <1>1 DEF ServerGoes, StartWatching, WatchStart, timers, outcome
  <2>6. Watching'
    <3>1. Cardinality({}) = 0
      BY FS_EmptySet
    <3> QED
      BY <1>1, <3>1 DEF StartWatching, WatchStart, Watching, changes, NoWalk
  <2> QED
    BY <2>1, <2>2, <2>3, <2>4, <2>5, <2>6
<1>2. CASE Spawn
  <2>1. Shape'
    BY SMTT(120), <1>2 DEF Shape, Placed, Spawn, register_group, watch_vars, timers, outcome
  <2>2. Placed'
    BY <1>2 DEF Placed, Spawn, register_group, watch_vars, timers, outcome
  <2>3. Listed'
    BY SMTT(120), <1>2 DEF Listed, Shape, Spawn, register_group, watch_vars, timers, outcome
  <2>4. Dropped'
    BY <1>2 DEF Dropped, Shape, Placed, Spawn, register_group, watch_vars, timers,
           outcome
  <2>5. ServerGoes'
    BY <1>2 DEF ServerGoes, Spawn, register_group, watch_vars, timers, outcome
  <2>6. Watching'
    BY <1>2 DEF Watching, Spawn, register_group, watch_vars, timers, outcome
  <2> QED
    BY <2>1, <2>2, <2>3, <2>4, <2>5, <2>6
<1>3. CASE NotSpawned
  <2>1. Shape'
    <3>1. job' \in Jobs \cup {"end"} /\ todo' \in Seq(Jobs \ {"browser"})
      BY <1>3, Onward DEF NotSpawned, Shape, Placed, Then
    <3> QED
      BY <1>3, <3>1 DEF NotSpawned, Shape, timers, outcome
  <2>2. Placed'
    <3>1. CASE job = "command"
      BY <1>3, <3>1, Onward DEF NotSpawned, Shape, Placed, First
    <3>2. CASE job # "command"
      BY <1>3, <3>2 DEF NotSpawned, Shape, Placed, Then
    <3> QED
      BY <3>1, <3>2
  <2>3. Listed'
    BY <1>3 DEF Listed, NotSpawned, watch_vars, NextJob, Then, First, timers, outcome
  <2>4. Dropped'
    BY <1>3 DEF Dropped, Shape, Placed, NotSpawned, watch_vars, NextJob, Then, First,
           timers, outcome
  <2>5. ServerGoes'
    BY <1>3 DEF ServerGoes, Shape, Placed, Listed, Dropped, NotSpawned, watch_vars,
           NextJob, Then, First, timers, outcome
  <2>6. Watching'
    BY <1>3 DEF Watching, Shape, Placed, NotSpawned, watch_vars, NextJob, Then, First,
           timers, outcome
  <2> QED
    BY <2>1, <2>2, <2>3, <2>4, <2>5, <2>6
<1>4. CASE Exits
  <2>1. Shape'
    BY <1>4 DEF Shape, Exits, Reaped, unregister_group, watch_vars, timers, outcome
  <2>2. Placed'
    BY <1>4 DEF Placed, Exits, Reaped, unregister_group, watch_vars, timers, outcome
  <2>3. Listed'
    BY <1>4 DEF Listed, Exits, Reaped, unregister_group, watch_vars, timers, outcome
  <2>4. Dropped'
    BY <1>4 DEF Dropped, Exits, Reaped, unregister_group, watch_vars, timers, outcome
  <2>5. ServerGoes'
    BY <1>4 DEF ServerGoes, Exits, Reaped, unregister_group, watch_vars, timers, outcome
  <2>6. Watching'
    BY <1>4 DEF Watching, Exits, Reaped, unregister_group, watch_vars, timers, outcome
  <2> QED
    BY <2>1, <2>2, <2>3, <2>4, <2>5, <2>6
<1>5. CASE Overruns
  <2>1. Shape'
    BY <1>5 DEF Shape, Overruns, Stop, Terminated, watch_vars, timers, outcome
  <2>2. Placed'
    BY <1>5 DEF Placed, Overruns, Stop, Terminated, watch_vars, timers, outcome
  <2>3. Listed'
    BY <1>5 DEF Listed, Overruns, Stop, Terminated, watch_vars, timers, outcome
  <2>4. Dropped'
    BY <1>5 DEF Dropped, Overruns, Stop, Terminated, watch_vars, timers, outcome
  <2>5. ServerGoes'
    BY <1>5 DEF ServerGoes, Overruns, Stop, Terminated, watch_vars, timers, outcome
  <2>6. Watching'
    BY <1>5 DEF Watching, Overruns, Stop, Terminated, watch_vars, timers, outcome
  <2> QED
    BY <2>1, <2>2, <2>3, <2>4, <2>5, <2>6
<1>6. CASE IdleWakes
  <2>1. Shape'
    BY <1>6 DEF Shape, IdleWakes, Stop, Terminated, watch_vars, timers, outcome
  <2>2. Placed'
    BY <1>6 DEF Placed, IdleWakes, Stop, Terminated, watch_vars, timers, outcome
  <2>3. Listed'
    BY <1>6 DEF Listed, IdleWakes, Stop, Terminated, watch_vars, timers, outcome
  <2>4. Dropped'
    BY <1>6 DEF Dropped, IdleWakes, Stop, Terminated, watch_vars, timers, outcome
  <2>5. ServerGoes'
    BY <1>6 DEF ServerGoes, IdleWakes, Stop, Terminated, watch_vars, timers, outcome
  <2>6. Watching'
    BY <1>6 DEF Watching, IdleWakes, Stop, Terminated, watch_vars, timers, outcome
  <2> QED
    BY <2>1, <2>2, <2>3, <2>4, <2>5, <2>6
<1>7. CASE GraceEnds
  <2>1. Shape'
    BY <1>7 DEF Shape, GraceEnds, Killed, watch_vars, timers, outcome
  <2>2. Placed'
    BY <1>7 DEF Placed, GraceEnds, Killed, watch_vars, timers, outcome
  <2>3. Listed'
    BY <1>7 DEF Listed, GraceEnds, Killed, watch_vars, timers, outcome
  <2>4. Dropped'
    BY <1>7 DEF Dropped, Shape, GraceEnds, Killed, watch_vars, timers, outcome
  <2>5. ServerGoes'
    BY <1>7 DEF ServerGoes, Shape, Placed, GraceEnds, Killed, watch_vars, timers,
           outcome
  <2>6. Watching'
    BY <1>7 DEF Watching, GraceEnds, Killed, watch_vars, timers, outcome
  <2> QED
    BY <2>1, <2>2, <2>3, <2>4, <2>5, <2>6
<1>8. CASE StopEnds
  <2>1. Shape'
    BY ZenonT(120), <1>8 DEF Shape, Placed, StopEnds, Reaped, unregister_group, Then, watch_vars,
           timers, outcome
  <2>2. Placed'
    BY <1>8 DEF Placed, Shape, StopEnds, Reaped, unregister_group, Then, watch_vars,
           timers, outcome
  <2>3. Listed'
    BY ZenonT(120), <1>8 DEF Listed, Shape, Placed, StopEnds, Reaped, unregister_group, Then,
           watch_vars, timers, outcome
  <2>4. Dropped'
    BY <1>8 DEF Dropped, Shape, Placed, StopEnds, Reaped, unregister_group, Then,
           watch_vars, timers, outcome
  <2>5. ServerGoes'
    BY <1>8 DEF ServerGoes, Shape, Placed, StopEnds, Reaped, unregister_group, Then,
           watch_vars, timers, outcome
  <2>6. Watching'
    BY <1>8 DEF Watching, Shape, Placed, StopEnds, Reaped, unregister_group, Then,
           watch_vars, timers, outcome
  <2> QED
    BY <2>1, <2>2, <2>3, <2>4, <2>5, <2>6
<1>9. CASE ReadersEnd
  <2>1. Shape'
    BY SMTT(120), <1>9 DEF Shape, ReadersEnd, PipeClosed, unregister_group, watch_vars, NextJob,
           Then, First, timers, outcome
  <2>2. Placed'
    BY <1>9 DEF Placed, Shape, ReadersEnd, PipeClosed, unregister_group, watch_vars,
           NextJob, Then, First, timers, outcome
  <2>3. Listed'
    BY <1>9 DEF Listed, ReadersEnd, PipeClosed, unregister_group, watch_vars, NextJob,
           Then, First, timers, outcome
  <2>4. Dropped'
    BY <1>9 DEF Dropped, Shape, Placed, ReadersEnd, PipeClosed, unregister_group,
           watch_vars, NextJob, Then, First, timers, outcome
  <2>5. ServerGoes'
    BY <1>9 DEF ServerGoes, Shape, Placed, Listed, Dropped, ReadersEnd, PipeClosed,
           unregister_group, watch_vars, NextJob, Then, First, timers, outcome
  <2>6. Watching'
    BY <1>9 DEF Watching, ReadersEnd, PipeClosed, unregister_group, watch_vars, NextJob,
           Then, First, timers, outcome
  <2> QED
    BY <2>1, <2>2, <2>3, <2>4, <2>5, <2>6
<1>10. CASE StopWatching
  <2>0. at = "last" /\ job = "agent" /\ watcher = "last" /\ DOMAIN walk = Files
    BY <1>10 DEF StopWatching, WatchStop, Placed, Watching, Shape
  <2>1. Shape'
    BY SMTT(120), <1>10 DEF Shape, StopWatching, WatchStop, record, NextJob, Then, First, timers,
           outcome
  <2>2. Placed'
    BY <1>10 DEF Placed, Shape, StopWatching, WatchStop, record, NextJob, Then, First,
           timers, outcome
  <2>3. Listed'
    BY <1>10 DEF Listed, StopWatching, WatchStop, record, NextJob, Then, First, timers,
           outcome
  <2>4. Dropped'
    BY <1>10 DEF Dropped, Shape, Placed, StopWatching, WatchStop, record, NextJob, Then,
           First, timers, outcome
  <2>5. ServerGoes'
    BY <1>10, <2>0 DEF ServerGoes, Shape, Placed, Listed, Dropped, StopWatching, WatchStop,
           record, NextJob, Then, First, timers, outcome
  <2>6. Watching'
    <3>1. /\ logged' = logged \cup changes(previous, walk) /\ logged' \subseteq Files
          /\ changed' \in Nat /\ changed' >= Cardinality(logged')
      BY <1>10, Recorded DEF StopWatching, WatchStop, Watching
    <3>2. /\ base' = base /\ final' = tree /\ edits' = edits /\ late' = late
          /\ watcher' = "stopped" /\ walk' = NoWalk
      BY <1>10 DEF StopWatching, WatchStop
    <3>3. changes(base, final)' \subseteq logged' \cup late'
      <4>1. ASSUME NEW f \in Files, base[f] # tree[f], f \notin late PROVE f \in logged'
        <5>1. walk[f] = tree[f]
          BY <2>0, <4>1 DEF Watching
        <5>2. f \in changes(base, previous) \/ f \in changes(previous, walk)
          BY <4>1, <5>1 DEF changes
        <5> QED
          BY <2>0, <3>1, <5>2 DEF Watching
      <4> QED
        BY <3>2, <4>1 DEF changes
    <3>4. edits = 1 => changes(previous, walk) = {}
      BY <2>0 DEF Watching, changes
    <3>5. at' # "last" /\ (job' = "agent" => at' = "watch")
      BY <1>10, Onward DEF StopWatching, Shape, First
    <3> QED
      BY <2>0, <3>1, <3>2, <3>3, <3>4, <3>5 DEF Watching, NoWalk
  <2> QED
    BY <2>1, <2>2, <2>3, <2>4, <2>5, <2>6
<1>11. CASE Detected
  <2>1. Shape'
    BY <1>11 DEF Shape, Detected, watch_vars, timers, outcome
  <2>2. Placed'
    BY <1>11 DEF Placed, Detected, watch_vars, timers, outcome
  <2>3. Listed'
    BY <1>11 DEF Listed, Detected, watch_vars, timers, outcome
  <2>4. Dropped'
    BY <1>11 DEF Dropped, Detected, watch_vars, timers, outcome
  <2>5. ServerGoes'
    BY <1>11 DEF ServerGoes, Detected, watch_vars, timers, outcome
  <2>6. Watching'
    BY <1>11 DEF Watching, Detected, watch_vars, timers, outcome
  <2> QED
    BY <2>1, <2>2, <2>3, <2>4, <2>5, <2>6
<1>12. CASE NotDetected
  <2>1. Shape'
    BY <1>12 DEF Shape, NotDetected, Stop, Terminated, watch_vars, timers, outcome
  <2>2. Placed'
    BY <1>12 DEF Placed, NotDetected, Stop, Terminated, watch_vars, timers, outcome
  <2>3. Listed'
    BY <1>12 DEF Listed, NotDetected, Stop, Terminated, watch_vars, timers, outcome
  <2>4. Dropped'
    BY <1>12 DEF Dropped, Shape, NotDetected, Stop, Terminated, watch_vars, timers,
           outcome
  <2>5. ServerGoes'
    BY <1>12 DEF ServerGoes, NotDetected, Stop, Terminated, watch_vars, timers, outcome
  <2>6. Watching'
    BY <1>12 DEF Watching, NotDetected, Stop, Terminated, watch_vars, timers, outcome
  <2> QED
    BY <2>1, <2>2, <2>3, <2>4, <2>5, <2>6
<1>13. CASE Answers
  <2>1. Shape'
    BY <1>13 DEF Shape, Answers, Then, watch_vars, timers, outcome
  <2>2. Placed'
    BY <1>13 DEF Placed, Answers, Then, watch_vars, timers, outcome
  <2>3. Listed'
    BY <1>13 DEF Listed, Answers, Then, watch_vars, timers, outcome
  <2>4. Dropped'
    BY <1>13 DEF Dropped, Shape, Placed, Answers, Then, watch_vars, timers, outcome
  <2>5. ServerGoes'
    BY <1>13 DEF ServerGoes, Answers, Then, watch_vars, timers, outcome
  <2>6. Watching'
    BY <1>13 DEF Watching, Answers, Then, watch_vars, timers, outcome
  <2> QED
    BY <2>1, <2>2, <2>3, <2>4, <2>5, <2>6
<1>14. CASE NotReady
  <2>1. Shape'
    BY <1>14 DEF Shape, NotReady, Stop, Terminated, watch_vars, timers, outcome
  <2>2. Placed'
    BY <1>14 DEF Placed, NotReady, Stop, Terminated, watch_vars, timers, outcome
  <2>3. Listed'
    BY <1>14 DEF Listed, NotReady, Stop, Terminated, watch_vars, timers, outcome
  <2>4. Dropped'
    BY <1>14 DEF Dropped, Shape, NotReady, Stop, Terminated, watch_vars, timers, outcome
  <2>5. ServerGoes'
    BY <1>14 DEF ServerGoes, NotReady, Stop, Terminated, watch_vars, timers, outcome
  <2>6. Watching'
    BY <1>14 DEF Watching, NotReady, Stop, Terminated, watch_vars, timers, outcome
  <2> QED
    BY <2>1, <2>2, <2>3, <2>4, <2>5, <2>6
<1>15. CASE Handshake
  <2>1. Shape'
    BY <1>15 DEF Shape, Handshake, watch_vars, timers, outcome
  <2>2. Placed'
    BY <1>15 DEF Placed, Handshake, watch_vars, timers, outcome
  <2>3. Listed'
    BY <1>15 DEF Listed, Handshake, watch_vars, timers, outcome
  <2>4. Dropped'
    BY <1>15 DEF Dropped, Handshake, watch_vars, timers, outcome
  <2>5. ServerGoes'
    BY <1>15 DEF ServerGoes, Handshake, watch_vars, timers, outcome
  <2>6. Watching'
    BY <1>15 DEF Watching, Handshake, watch_vars, timers, outcome
  <2> QED
    BY <2>1, <2>2, <2>3, <2>4, <2>5, <2>6
<1>16. CASE NoHandshake
  <2>1. Shape'
    BY ZenonT(120), <1>16 DEF Shape, NoHandshake, Then, watch_vars, timers, outcome
  <2>2. Placed'
    BY <1>16 DEF Placed, NoHandshake, Then, watch_vars, timers, outcome
  <2>3. Listed'
    BY <1>16 DEF Listed, NoHandshake, Then, watch_vars, timers, outcome
  <2>4. Dropped'
    BY <1>16 DEF Dropped, Shape, Placed, NoHandshake, Then, watch_vars, timers, outcome
  <2>5. ServerGoes'
    BY <1>16 DEF ServerGoes, NoHandshake, Then, watch_vars, timers, outcome
  <2>6. Watching'
    BY <1>16 DEF Watching, NoHandshake, Then, watch_vars, timers, outcome
  <2> QED
    BY <2>1, <2>2, <2>3, <2>4, <2>5, <2>6
<1>17. CASE CallsEnd
  <2>1. Shape'
    BY <1>17 DEF Shape, CallsEnd, Stop, Terminated, watch_vars, timers, outcome
  <2>2. Placed'
    BY <1>17 DEF Placed, CallsEnd, Stop, Terminated, watch_vars, timers, outcome
  <2>3. Listed'
    BY <1>17 DEF Listed, CallsEnd, Stop, Terminated, watch_vars, timers, outcome
  <2>4. Dropped'
    BY <1>17 DEF Dropped, Shape, CallsEnd, Stop, Terminated, watch_vars, timers, outcome
  <2>5. ServerGoes'
    BY <1>17 DEF ServerGoes, CallsEnd, Stop, Terminated, watch_vars, timers, outcome
  <2>6. Watching'
    BY <1>17 DEF Watching, CallsEnd, Stop, Terminated, watch_vars, timers, outcome
  <2> QED
    BY <2>1, <2>2, <2>3, <2>4, <2>5, <2>6
<1>18. CASE ServerStops
  <2>1. Shape'
    BY <1>18 DEF Shape, ServerStops, Stop, Terminated, watch_vars, timers, outcome
  <2>2. Placed'
    BY <1>18 DEF Placed, ServerStops, Stop, Terminated, watch_vars, timers, outcome
  <2>3. Listed'
    BY <1>18 DEF Listed, ServerStops, Stop, Terminated, watch_vars, timers, outcome
  <2>4. Dropped'
    BY <1>18 DEF Dropped, ServerStops, Stop, Terminated, watch_vars, timers, outcome
  <2>5. ServerGoes'
    BY <1>18 DEF ServerGoes, ServerStops, Stop, Terminated, watch_vars, timers, outcome
  <2>6. Watching'
    BY <1>18 DEF Watching, ServerStops, Stop, Terminated, watch_vars, timers, outcome
  <2> QED
    BY <2>1, <2>2, <2>3, <2>4, <2>5, <2>6
<1>19. CASE TermGroups
  <2>1. Shape'
    BY <1>19 DEF Shape, TermGroups, Terminated, watch_vars, timers, outcome
  <2>2. Placed'
    BY <1>19 DEF Placed, TermGroups, Terminated, watch_vars, timers, outcome
  <2>3. Listed'
    BY <1>19 DEF Listed, TermGroups, Terminated, watch_vars, timers, outcome
  <2>4. Dropped'
    BY <1>19 DEF Dropped, TermGroups, Terminated, watch_vars, timers, outcome
  <2>5. ServerGoes'
    BY <1>19 DEF ServerGoes, Shape, Placed, TermGroups, Terminated, watch_vars, timers,
           outcome
  <2>6. Watching'
    BY <1>19 DEF Watching, TermGroups, Terminated, watch_vars, timers, outcome
  <2> QED
    BY <2>1, <2>2, <2>3, <2>4, <2>5, <2>6
<1>20. CASE KillGroups
  <2>1. Shape'
    BY <1>20 DEF Shape, KillGroups, Killed, watch_vars, timers, outcome
  <2>2. Placed'
    BY <1>20 DEF Placed, KillGroups, Killed, watch_vars, timers, outcome
  <2>3. Listed'
    BY <1>20 DEF Listed, KillGroups, Killed, watch_vars, timers, outcome
  <2>4. Dropped'
    BY <1>20 DEF Dropped, Shape, KillGroups, Killed, watch_vars, timers, outcome
  <2>5. ServerGoes'
    BY <1>20 DEF ServerGoes, Shape, Placed, KillGroups, Killed, watch_vars, timers,
           outcome
  <2>6. Watching'
    BY <1>20 DEF Watching, KillGroups, Killed, watch_vars, timers, outcome
  <2> QED
    BY <2>1, <2>2, <2>3, <2>4, <2>5, <2>6
<1>21. CASE Interrupt
  <2>1. Shape'
    BY <1>21 DEF Shape, Interrupt, Then, watch_vars, timers, outcome
  <2>2. Placed'
    BY <1>21 DEF Placed, Interrupt, Then, watch_vars, timers, outcome
  <2>3. Listed'
    BY <1>21 DEF Listed, Interrupt, Then, watch_vars, timers, outcome
  <2>4. Dropped'
    BY <1>21 DEF Dropped, Shape, Placed, Listed, Interrupt, Then, watch_vars, timers,
           outcome
  <2>5. ServerGoes'
    BY <1>21 DEF ServerGoes, Interrupt, Then, watch_vars, timers, outcome
  <2>6. Watching'
    BY <1>21 DEF Watching, Interrupt, Then, watch_vars, timers, outcome
  <2> QED
    BY <2>1, <2>2, <2>3, <2>4, <2>5, <2>6
<1>22. ASSUME NEW j \in Jobs, Fork(j) PROVE IInv'
  <2>1. Shape'
    BY <1>22 DEF Shape, Fork, watch_vars, timers, outcome
  <2>2. Placed'
    BY <1>22 DEF Placed, Fork, watch_vars, timers, outcome
  <2>3. Listed'
    BY <1>22 DEF Listed, Fork, watch_vars, timers, outcome
  <2>4. Dropped'
    BY <1>22 DEF Dropped, Fork, watch_vars, timers, outcome
  <2>5. ServerGoes'
    BY <1>22 DEF ServerGoes, Fork, watch_vars, timers, outcome
  <2>6. Watching'
    BY <1>22 DEF Watching, Fork, watch_vars, timers, outcome
  <2> QED
    BY <2>1, <2>2, <2>3, <2>4, <2>5, <2>6
<1>23. ASSUME NEW j \in Jobs, ChildExits(j) PROVE IInv'
  <2>1. Shape'
    BY <1>23 DEF Shape, ChildExits, watch_vars, timers, outcome
  <2>2. Placed'
    BY <1>23 DEF Placed, ChildExits, watch_vars, timers, outcome
  <2>3. Listed'
    BY <1>23 DEF Listed, ChildExits, watch_vars, timers, outcome
  <2>4. Dropped'
    BY <1>23 DEF Dropped, ChildExits, watch_vars, timers, outcome
  <2>5. ServerGoes'
    BY <1>23 DEF ServerGoes, ChildExits, watch_vars, timers, outcome
  <2>6. Watching'
    BY <1>23 DEF Watching, ChildExits, watch_vars, timers, outcome
  <2> QED
    BY <2>1, <2>2, <2>3, <2>4, <2>5, <2>6
<1>24. ASSUME NEW j \in Jobs, GrandExits(j) PROVE IInv'
  <2>1. Shape'
    BY <1>24 DEF Shape, GrandExits, watch_vars, timers, outcome
  <2>2. Placed'
    BY <1>24 DEF Placed, GrandExits, watch_vars, timers, outcome
  <2>3. Listed'
    BY <1>24 DEF Listed, GrandExits, watch_vars, timers, outcome
  <2>4. Dropped'
    BY <1>24 DEF Dropped, GrandExits, watch_vars, timers, outcome
  <2>5. ServerGoes'
    BY <1>24 DEF ServerGoes, GrandExits, watch_vars, timers, outcome
  <2>6. Watching'
    BY <1>24 DEF Watching, GrandExits, watch_vars, timers, outcome
  <2> QED
    BY <2>1, <2>2, <2>3, <2>4, <2>5, <2>6
<1>25. ASSUME NEW j \in Jobs, Dies(j) PROVE IInv'
  <2>1. Shape'
    BY <1>25 DEF Shape, Dies, watch_vars, timers, outcome
  <2>2. Placed'
    BY <1>25 DEF Placed, Dies, watch_vars, timers, outcome
  <2>3. Listed'
    BY <1>25 DEF Listed, Shape, Dies, watch_vars, timers, outcome
  <2>4. Dropped'
    BY <1>25 DEF Dropped, Shape, Dies, watch_vars, timers, outcome
  <2>5. ServerGoes'
    BY <1>25 DEF ServerGoes, Shape, Placed, Dies, watch_vars, timers, outcome
  <2>6. Watching'
    BY <1>25 DEF Watching, Dies, watch_vars, timers, outcome
  <2> QED
    BY <2>1, <2>2, <2>3, <2>4, <2>5, <2>6
<1>26. CASE Output
  <2>1. Shape'
    BY <1>26 DEF Shape, Output, watch_vars, timers, outcome
  <2>2. Placed'
    BY <1>26 DEF Placed, Output, watch_vars, timers, outcome
  <2>3. Listed'
    BY <1>26 DEF Listed, Output, watch_vars, timers, outcome
  <2>4. Dropped'
    BY <1>26 DEF Dropped, Output, watch_vars, timers, outcome
  <2>5. ServerGoes'
    BY <1>26 DEF ServerGoes, Output, watch_vars, timers, outcome
  <2>6. Watching'
    BY <1>26 DEF Watching, Output, watch_vars, timers, outcome
  <2> QED
    BY <2>1, <2>2, <2>3, <2>4, <2>5, <2>6
<1>27. CASE Writes
  <2>1. Shape'
    BY <1>27 DEF Shape, Writes, WriteFile, proc_vars, timers, outcome
  <2>2. Placed'
    BY <1>27 DEF Placed, Writes, WriteFile, proc_vars, timers, outcome
  <2>3. Listed'
    BY <1>27 DEF Listed, Writes, WriteFile, proc_vars, timers, outcome
  <2>4. Dropped'
    BY <1>27 DEF Dropped, Writes, WriteFile, proc_vars, timers, outcome
  <2>5. ServerGoes'
    BY <1>27 DEF ServerGoes, Writes, WriteFile, proc_vars, timers, outcome
  <2>6. Watching'
    BY <1>27 DEF Watching, Writes, WriteFile, proc_vars, timers, outcome
  <2> QED
    BY <2>1, <2>2, <2>3, <2>4, <2>5, <2>6
<1>28. CASE Polls
  <2>1. Shape'
    BY <1>28 DEF Shape, Polls, Polling, WalkFile, WalkEnds, record, proc_vars, timers,
           outcome
  <2>2. Placed'
    BY <1>28 DEF Placed, Polls, Polling, WalkFile, WalkEnds, record, proc_vars, timers,
           outcome
  <2>3. Listed'
    BY <1>28 DEF Listed, Polls, Polling, WalkFile, WalkEnds, record, proc_vars, timers,
           outcome
  <2>4. Dropped'
    BY <1>28 DEF Dropped, Polls, Polling, WalkFile, WalkEnds, record, proc_vars, timers,
           outcome
  <2>5. ServerGoes'
    BY <1>28 DEF ServerGoes, Polls, Polling, WalkFile, WalkEnds, record, proc_vars,
           timers, outcome
  <2>6. Watching'
    <3>1. ASSUME NEW f \in Files, WalkFile(f) PROVE Watching'
      BY <1>28, <3>1 DEF WalkFile, Watching, Polls, proc_vars, changes
    <3>2. CASE WalkEnds
      <4>1. watcher = "on" /\ DOMAIN walk = Files
        BY <1>28, <3>2 DEF Polls, Polling, WalkEnds
      <4>2. /\ logged' = logged \cup changes(previous, walk) /\ logged' \subseteq Files
            /\ changed' \in Nat /\ changed' >= Cardinality(logged')
        BY <3>2, Recorded DEF WalkEnds, Watching
      <4>3. changes(base, walk) \subseteq changes(base, previous) \cup changes(previous, walk)
        BY DEF changes
      <4>4. edits = 1 => changes(previous, walk) = {}
        BY <4>1 DEF Watching, changes
      <4>5. /\ previous' = walk /\ walk' = NoWalk /\ UNCHANGED <<tree, edits, watcher, base, final, job, at>>
        BY <1>28, <3>2 DEF WalkEnds, record, Polls, proc_vars
      <4>6. changes(base, previous)' \subseteq logged'
        BY <4>1, <4>2, <4>3, <4>5 DEF Watching, changes
      <4>7. edits = 1 => \A f \in Files : walk[f] = tree[f]
        BY <4>1 DEF Watching
      <4> QED
        BY <4>1, <4>2, <4>4, <4>5, <4>6, <4>7 DEF Watching, NoWalk
    <3> QED
      BY <1>28, <3>1, <3>2 DEF Polls, Polling
  <2> QED
    BY <2>1, <2>2, <2>3, <2>4, <2>5, <2>6
<1>29. CASE Tick
  <2>1. Shape'
    BY <1>29 DEF Shape, Tick, Less, watch_vars, timers, outcome
  <2>2. Placed'
    BY <1>29 DEF Placed, Tick, Less, watch_vars, timers, outcome
  <2>3. Listed'
    BY <1>29 DEF Listed, Tick, Less, watch_vars, timers, outcome
  <2>4. Dropped'
    BY <1>29 DEF Dropped, Tick, Less, watch_vars, timers, outcome
  <2>5. ServerGoes'
    BY <1>29 DEF ServerGoes, Tick, Less, watch_vars, timers, outcome
  <2>6. Watching'
    BY <1>29 DEF Watching, Tick, Less, watch_vars, timers, outcome
  <2> QED
    BY <2>1, <2>2, <2>3, <2>4, <2>5, <2>6
<1>30. CASE Unwatch
  <2>1. Shape'
    BY <1>30 DEF Shape, Unwatch, WatchAbort, timers, outcome
  <2>2. Placed'
    BY <1>30 DEF Placed, Shape, Unwatch, WatchAbort, timers, outcome
  <2>3. Listed'
    BY <1>30 DEF Listed, Unwatch, WatchAbort, timers, outcome
  <2>4. Dropped'
    BY <1>30 DEF Dropped, Unwatch, WatchAbort, timers, outcome
  <2>5. ServerGoes'
    BY <1>30 DEF ServerGoes, Unwatch, WatchAbort, timers, outcome
  <2>6. Watching'
    BY <1>30 DEF Watching, changes, NoWalk, Unwatch, WatchAbort, timers, outcome
  <2> QED
    BY <2>1, <2>2, <2>3, <2>4, <2>5, <2>6
<1>31. CASE LastWalk
  <2>1. PICK f \in Files : WalkFile(f)
    BY <1>31 DEF LastWalk, LastWalkFile
  <2>2. UNCHANGED proc_vars
    BY <1>31 DEF LastWalk
  <2>3. Shape'
    BY <2>2 DEF Shape, proc_vars
  <2>4. Placed'
    BY <2>2 DEF Placed, proc_vars
  <2>5. Listed'
    BY <2>2 DEF Listed, proc_vars
  <2>6. Dropped'
    BY <2>2 DEF Dropped, proc_vars
  <2>7. ServerGoes'
    BY <2>2 DEF ServerGoes, proc_vars
  <2>8. Watching'
    BY <2>1, <2>2 DEF WalkFile, Watching, proc_vars, changes
  <2> QED
    BY <2>3, <2>4, <2>5, <2>6, <2>7, <2>8
<1>32. CASE UNCHANGED vars
  <2>1. Shape'
    BY <1>32 DEF Shape, vars, watch_vars, proc_vars
  <2>2. Placed'
    BY <1>32 DEF Placed, vars, watch_vars, proc_vars
  <2>3. Listed'
    BY <1>32 DEF Listed, vars, watch_vars, proc_vars
  <2>4. Dropped'
    BY <1>32 DEF Dropped, vars, watch_vars, proc_vars
  <2>5. ServerGoes'
    BY <1>32 DEF ServerGoes, vars, watch_vars, proc_vars
  <2>6. Watching'
    BY <1>32 DEF Watching, vars, watch_vars, proc_vars
  <2> QED
    BY <2>1, <2>2, <2>3, <2>4, <2>5, <2>6
<1> QED
  BY <1>1, <1>2, <1>3, <1>4, <1>5, <1>6, <1>7, <1>8, <1>9, <1>10, <1>11, <1>12, <1>13, <1>14, <1>15, <1>16, <1>17, <1>18, <1>19, <1>20, <1>21, <1>22, <1>23, <1>24, <1>25, <1>26, <1>27, <1>28, <1>29, <1>30, <1>31, <1>32 DEF Next, Harness, Over

(* A run that has not started anything. *)
LEMMA Initially == Init => IInv
<1> SUFFICES ASSUME Init PROVE IInv
  OBVIOUS
<1>1. PICK plan \in Plans : job = Head(plan) /\ todo = Tail(plan)
  BY DEF Init
<1>2. job \in Jobs \ {"browser"} /\ todo \in Seq(Jobs \ {"browser"})
  BY <1>1, PlansAreJobs
<1>3. Shape
  BY <1>2, LimitsArePositive DEF Init, Shape, Process
<1>4. Placed /\ Listed /\ Dropped /\ ServerGoes
  BY <1>2 DEF Init, Placed, Listed, Dropped, ServerGoes, First, Jobs
<1>5. Watching
  <2>1. Cardinality({}) = 0
    BY FS_EmptySet
  <2> QED
    BY <1>2, <2>1 DEF Init, WatchInit, Watching, NoWalk, First
<1> QED
  BY <1>3, <1>4, <1>5 DEF IInv

(* What ties the processes, LIVE_GROUPS, the watcher and the places of the *)
(* run together.                                                           *)
THEOREM Invariant == Spec => []IInv
  BY Initially, Inductive, PTL DEF Spec

(* Types; a group is listed only for a job that was started. *)
THEOREM TypeCorrect == Spec => []TypeOK
<1>1. IInv => TypeOK
  BY DEF IInv, Shape, Placed, Listed, TypeOK, Process, Jobs
<1> QED
  BY <1>1, Invariant, PTL

(* Ctrl-C reaches every process of a group whose child had not been waited *)
(* on, in whatever step of the run, and an unsuccessful server is stopped. *)
THEOREM NothingLeft == Spec => []NothingOutlivesTheRun
<1>1. IInv => NothingOutlivesTheRun
  BY DEF IInv, Shape, Dropped, ServerGoes, Heeds, NothingOutlivesTheRun
<1> QED
  BY <1>1, Invariant, PTL

(* The log names every file that differs at the stop, whatever walk was    *)
(* under way, but those written after the last one began, and its total    *)
(* counts every line (WorkspaceWatcher::stop).                             *)
THEOREM ChangesNamed == Spec => []LogNamesEveryChange
<1>1. IInv => LogNamesEveryChange
  BY DEF IInv, Watching, LogNamesEveryChange
<1> QED
  BY <1>1, Invariant, PTL

(* An agent is stopped as idle only when it was silent all the idle time,  *)
(* for the wall clock only when that has run out.                          *)
THEOREM Caused == Spec => StoppedForCause
<1>1. IInv /\ [Next]_vars =>
        [/\ why' = "idle" /\ why # "idle" => silent = IDLE
         /\ why' = "wall" /\ why # "wall" => left = 0]_vars
  <2> SUFFICES ASSUME IInv, Next
               PROVE  /\ why' = "idle" /\ why # "idle" => silent = IDLE
                      /\ why' = "wall" /\ why # "wall" => left = 0
    OBVIOUS
  <2>1. CASE IdleWakes
    BY <2>1, LimitsArePositive DEF IdleWakes, IInv, Shape
  <2>2. CASE Overruns
    BY <2>2 DEF Overruns
  <2>3. CASE Exits
    BY <2>3 DEF Exits
  <2>4. CASE Harness /\ ~Exits
    BY <2>4 DEF Harness, StartWatching, Spawn, NotSpawned, GraceEnds, StopEnds, ReadersEnd,
       Unwatch, LastWalk, StopWatching, Detected, NotDetected, Answers, NotReady, Handshake, NoHandshake, CallsEnd,
       ServerStops, TermGroups, KillGroups, outcome, proc_vars
  <2>5. CASE ~(Harness \/ IdleWakes \/ Overruns)
    BY <2>5 DEF Next, Interrupt, Fork, ChildExits, GrandExits, Dies, Output, Writes, Polls, Tick,
       Over, outcome, proc_vars, vars
  <2> QED
    BY <2>1, <2>2, <2>3, <2>4, <2>5
<1> QED
  BY <1>1, Invariant, PTL DEF Spec, StoppedForCause
=============================================================================
