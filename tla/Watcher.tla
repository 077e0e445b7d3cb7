------------------------------- MODULE Watcher -------------------------------
(***************************************************************************)
(* The workspace watcher, harness/watcher.rs: while the agent works a task *)
(* walks the tree every half second and logs what changed since the walk   *)
(* before; when the agent is done the task is aborted and the tree walked  *)
(* once more.  Every walk reads one file after the other, so files change  *)
(* behind it and before it -- behind the last one too, if a descendant of  *)
(* the agent still runs -- and what it found is recorded only when it has  *)
(* ended.  A stamp stands for length and mtime: 0 is a file that is not    *)
(* there, and no two writes leave the same stamp.                          *)
(***************************************************************************)
EXTENDS Integers, FiniteSets

CONSTANTS
  Files,       \* files of the workspace that are not ignored
  MAX_EDITS    \* bound on the writes

ASSUME FilesAreFinite == IsFiniteSet(Files)

VARIABLES
  tree,      \* the stamp of each file
  edits,     \* writes so far
  watcher,   \* "off", "on", "last" (the walk of `stop'), "stopped"
  base,      \* the tree when the watcher started
  final,     \* the tree when it stopped
  late,      \* the files written during the last walk
  previous,  \* what each file looked like at the last walk
  walk,      \* the walk in progress: the files read so far
  logged,    \* the files named in the log
  changed    \* how many lines they take, the total of the last line

watch_vars == <<tree, edits, watcher, base, final, late, previous, walk, logged,
                changed>>

NoWalk == [f \in {} |-> 0]

WatchInit ==
  /\ tree \in [Files -> {0, 1}] /\ Cardinality({f \in Files : tree[f] = 1}) = 1
  /\ edits = 1 /\ watcher = "off" /\ base = tree /\ final = tree /\ late = {}
  /\ previous = tree /\ walk = NoWalk /\ logged = {} /\ changed = 0

changes(before, now) == {f \in Files : before[f] # now[f]}

\* One line per change.
record(now) ==
  /\ logged' = logged \cup changes(previous, now)
  /\ changed' = changed + Cardinality(changes(previous, now))
  /\ previous' = now

\* A process of the agent writes a file or removes it.
WriteFile(f) ==
  /\ edits < MAX_EDITS
  /\ edits' = edits + 1
  /\ \E stamp \in {0, edits + 1} : tree[f] # stamp /\ tree' = [tree EXCEPT ![f] = stamp]
  /\ late' = IF watcher = "last" THEN late \cup {f} ELSE late
  /\ UNCHANGED <<watcher, base, final, previous, walk, logged, changed>>

WatchStart ==
  /\ watcher' = "on"
  /\ base' = tree /\ previous' = tree /\ walk' = NoWalk /\ logged' = {} /\ changed' = 0 /\ late' = {}
  /\ UNCHANGED <<tree, edits, final>>

\* A walk reads one more file.
WalkFile(f) ==
  /\ f \notin DOMAIN walk
  /\ walk' = [g \in DOMAIN walk \cup {f} |-> IF g = f THEN tree[f] ELSE walk[g]]
  /\ UNCHANGED <<tree, edits, watcher, base, final, late, previous, logged, changed>>

WalkEnds ==
  /\ DOMAIN walk = Files
  /\ record(walk)
  /\ walk' = NoWalk
  /\ UNCHANGED <<tree, edits, watcher, base, final, late>>

\* The polling task.
Polling == watcher = "on" /\ ((\E f \in Files : WalkFile(f)) \/ WalkEnds)

(* Mutant: the walk in progress is taken up for the last one. *)
WatchAbortKeepingWalk ==
  /\ watcher = "on" /\ watcher' = "last"
  /\ UNCHANGED <<tree, edits, base, final, late, previous, walk, logged, changed>>

\* `stop': the task is aborted, its walk dropped, and the last walk begins.
WatchAbort ==
  /\ watcher = "on" /\ watcher' = "last"
  /\ walk' = NoWalk
  /\ UNCHANGED <<tree, edits, base, final, late, previous, logged, changed>>

LastWalkFile == watcher = "last" /\ \E f \in Files : WalkFile(f)

\* The last walk is recorded, and the total written.
WatchStop ==
  /\ watcher = "last" /\ DOMAIN walk = Files
  /\ watcher' = "stopped"
  /\ record(walk)
  /\ final' = tree
  /\ walk' = NoWalk
  /\ UNCHANGED <<tree, edits, base, late>>
=============================================================================
